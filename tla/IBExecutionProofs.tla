------------------------- MODULE IBExecutionProofs --------------------------
(***************************************************************************)
(* What holds of every execution, for every set of events and order ids    *)
(* and every bound: no event gets a second broker order, IB holds no order *)
(* the ledger does not know, the ledger says nothing that IB did not, and  *)
(* the two threads with their split transitions implement the ledger with  *)
(* atomic ones.                                                            *)
(***************************************************************************)
EXTENDS IBExecution, TLAPS

LEMMA NoOrderIsNoId == Ledger!NoOrder \notin OrderId
BY OrderIdAssumption DEF Ledger!NoOrder

\* The transition table, as far as it matters here.
LEMMA AllowedFacts ==
    /\ \A s \in Ledger!Status : Ledger!Allowed(s) \subseteq Ledger!Status \ {"Reserved"}
    /\ Ledger!Allowed("Reserved") = {"Submitted", "Rejected"}
    /\ Ledger!Allowed(Ledger!Unknown) = {}
    /\ \A s \in Ledger!Status : "Submitted" \in Ledger!Allowed(s) => s = "Reserved"
BY DEF Ledger!Allowed, Ledger!Status, Ledger!Terminal, Ledger!Unknown

-----------------------------------------------------------------------------
(* The inductive invariant.  A write is safe although it does not look at  *)
(* the status again because nobody else can touch the record in between:   *)
(* until mark_submitted commits, the record has no order id by which a     *)
(* callback could find it, and afterwards only the network thread writes.  *)

\* Only a record that left the reservation carries an order id.
ReservedHasNoId ==
    \A e \in EventId : StatusOf(e) \in {Ledger!Unknown, "Reserved"}
                          => records[e].oid = Ledger!NoOrder

\* The submission in hand: its id is still free until the write, and still
\* unused at IB until placeOrder.
MainOwnsSubmission ==
    /\ main.step \in {"built", "checked"} =>
          /\ main.e \in EventId /\ main.o \in OrderId
          /\ main.to \in {"Submitted", "Rejected"}
          /\ StatusOf(main.e) = "Reserved"
          /\ orders[main.o].e = NoEvent
    /\ main.step = "marked" =>
          /\ main.e \in EventId /\ main.o \in OrderId
          /\ records[main.e].oid = main.o
          /\ orders[main.o].e = NoEvent

\* The callback in hand: the record it found is still as the check left it.
NetOwnsTransition ==
    /\ net.step = "write" =>
          /\ net.e \in EventId
          /\ records[net.e].oid # Ledger!NoOrder
          /\ net.to \in Ledger!Allowed(StatusOf(net.e))
    /\ net.step = "record" => net.x \in ExecId

\* An id IB reports no order under is free, a working order is not full, and
\* execution callbacks count at least one contract.
BrokerConsistent ==
    /\ \A o \in OrderId :
          /\ orders[o].state = "None" => orders[o].e = NoEvent
          /\ orders[o].state = "Working" => orders[o].filled < Quantity
    /\ \A m \in wire : m.kind = "Exec" => m.filled # 0

\* The type invariant without its three flags: the provers take Booleans and
\* arithmetic apart.
DataOK ==
    /\ Ledger!TypeOK
    /\ execIds \subseteq ExecId
    /\ guard \subseteq EventId
    /\ main \in MainThread
    /\ net \in NetThread
    /\ orders \in [OrderId -> BrokerOrder]
    /\ wire \subseteq Callback
    /\ crashes \in 0 .. MaxCrashes
    /\ drops \in 0 .. MaxDrops

IInv ==
    /\ DataOK
    /\ ReservedHasNoId
    /\ MainOwnsSubmission
    /\ NetOwnsTransition
    /\ BrokerConsistent
    /\ SubmittedBeforeBroker

-----------------------------------------------------------------------------
\* The effect of a ledger write, field by field.
LEMMA WriteEffect ==
    ASSUME Ledger!TypeOK, NEW e \in EventId, NEW s \in Ledger!Status,
           NEW o \in OrderId \cup {Ledger!NoOrder}, Ledger!Write(e, s, o)
    PROVE  /\ Ledger!TypeOK'
           /\ records'[e].status = s
           /\ records'[e].oid = IF o = Ledger!NoOrder THEN records[e].oid ELSE o
           /\ \A f \in EventId \ {e} : records'[f] = records[f]
<1>1. records' = [records EXCEPT ![e] = [status |-> s,
            oid |-> IF o = Ledger!NoOrder THEN records[e].oid ELSE o]]
  BY DEF Ledger!Write, Ledger!TypeOK
<1>2. history' = [history EXCEPT ![e] = Append(history[e], s)]
  BY DEF Ledger!Write, Ledger!TypeOK
<1>3. Append(history[e], s) \in Seq(Ledger!Status)
  BY DEF Ledger!TypeOK
<1>4. records' \in [EventId -> Ledger!Record]
  BY <1>1 DEF Ledger!TypeOK, Ledger!Record
<1>5. history' \in [EventId -> Seq(Ledger!Status)]
  BY <1>2, <1>3 DEF Ledger!TypeOK
<1> QED
  BY <1>1, <1>4, <1>5 DEF Ledger!TypeOK, Ledger!Record

LEMMA InitIInv == Init => IInv
<1> SUFFICES ASSUME Init PROVE IInv
  OBVIOUS
<1>1. Ledger!TypeOK
  BY DEF Init, Ledger!Init, Ledger!TypeOK, Ledger!Record
<1>2. orders \in [OrderId -> BrokerOrder]
  BY BoundsAssumption DEF Init, NoIBOrder, BrokerOrder
<1>3. main \in MainThread /\ net \in NetThread
  BY DEF Init, MainIdle, NetIdle, MainThread, NetThread
<1>4. DataOK
  BY <1>1, <1>2, <1>3, BoundsAssumption DEF Init, DataOK
<1>5. ReservedHasNoId
  BY DEF Init, Ledger!Init, ReservedHasNoId
<1>6. MainOwnsSubmission /\ NetOwnsTransition
  BY DEF Init, MainIdle, NetIdle, MainOwnsSubmission, NetOwnsTransition
<1>7. BrokerConsistent /\ SubmittedBeforeBroker
  BY DEF Init, NoIBOrder, BrokerConsistent, SubmittedBeforeBroker
<1> QED
  BY <1>4, <1>5, <1>6, <1>7 DEF IInv


-----------------------------------------------------------------------------
(* The three steps that write the ledger.                                  *)

LEMMA ReserveStep ==
    ASSUME IInv, NEW e \in EventId, ReserveExecution(e)
    PROVE  IInv' /\ Ledger!Next
<1> USE DEF IInv, ReserveExecution, budget
<1>1. /\ Ledger!TypeOK'
      /\ records'[e].status = "Reserved"
      /\ records'[e].oid = records[e].oid
      /\ \A f \in EventId \ {e} : records'[f] = records[f]
  BY WriteEffect DEF DataOK, Ledger!Reserve, Ledger!Status
<1>2. StatusOf(e) = Ledger!Unknown /\ records[e].oid = Ledger!NoOrder
  BY DEF Ledger!Reserve, StatusOf, ReservedHasNoId
<1>3. DataOK'
  BY <1>1 DEF DataOK
<1>4. ReservedHasNoId'
  BY <1>1, <1>2 DEF ReservedHasNoId, StatusOf
<1>5. MainOwnsSubmission'
  BY DEF MainOwnsSubmission, MainIdle
<1>6. NetOwnsTransition'
  BY <1>1, <1>2 DEF NetOwnsTransition, StatusOf
<1>7. BrokerConsistent'
  BY DEF BrokerConsistent
<1>8. SubmittedBeforeBroker'
  <2>1. \A o \in OrderId : orders[o].e # e
    BY <1>2, NoEventAssumption DEF SubmittedBeforeBroker
  <2> QED
    BY <1>1, <2>1 DEF SubmittedBeforeBroker, StatusOf, DataOK, BrokerOrder
<1>9. Ledger!Next
  BY DEF Ledger!Next
<1> QED
  BY <1>3, <1>4, <1>5, <1>6, <1>7, <1>8, <1>9

LEMMA WriteSubmissionStep ==
    ASSUME IInv, WriteSubmission
    PROVE  IInv' /\ Ledger!Next
<1> USE DEF IInv, WriteSubmission, process, budget
<1>1. /\ main.e \in EventId /\ main.o \in OrderId
      /\ main.to \in {"Submitted", "Rejected"}
      /\ StatusOf(main.e) = "Reserved"
      /\ records[main.e].oid = Ledger!NoOrder
      /\ orders[main.o].e = NoEvent
  BY DEF MainOwnsSubmission, ReservedHasNoId
<1>2. main.to \in Ledger!Allowed(records[main.e].status)
  BY <1>1, AllowedFacts DEF StatusOf
<1>3. PICK n \in OrderId \cup {Ledger!NoOrder} :
          /\ Ledger!Write(main.e, main.to, n)
          /\ main.to = "Submitted" => n = main.o
          /\ main.to = "Rejected" => n = Ledger!NoOrder
  BY <1>1
<1>4. /\ Ledger!TypeOK'
      /\ records'[main.e].status = main.to
      /\ main.to = "Submitted" => records'[main.e].oid = main.o
      /\ \A f \in EventId \ {main.e} : records'[f] = records[f]
  BY <1>1, <1>3, WriteEffect, NoOrderIsNoId DEF DataOK, Ledger!Status
<1>5. DataOK'
  BY <1>4 DEF DataOK, MainThread, MainIdle
<1>6. ReservedHasNoId'
  BY <1>1, <1>4 DEF ReservedHasNoId, StatusOf, Ledger!Unknown
<1>7. MainOwnsSubmission'
  BY <1>1, <1>4 DEF MainOwnsSubmission, StatusOf, MainIdle, DataOK, MainThread
<1>8. NetOwnsTransition'
  BY <1>1, <1>4 DEF NetOwnsTransition, StatusOf
<1>9. BrokerConsistent'
  BY DEF BrokerConsistent
<1>10. SubmittedBeforeBroker'
  <2>1. \A o \in OrderId : orders[o].e # main.e
    BY <1>1, NoEventAssumption DEF SubmittedBeforeBroker
  <2> QED
    BY <1>4, <2>1 DEF SubmittedBeforeBroker, StatusOf, DataOK, BrokerOrder
<1>11. Ledger!Next
  <2>1. Ledger!Transition(main.e, main.to, n)
    BY <1>2, <1>3 DEF Ledger!Transition
  <2> QED
    BY <1>1, <1>3, <2>1
    DEF Ledger!Next, Ledger!MarkSubmitted, Ledger!Mark, Ledger!Status
<1> QED
  BY <1>5, <1>6, <1>7, <1>8, <1>9, <1>10, <1>11

LEMMA WriteStatusStep ==
    ASSUME IInv, WriteStatus
    PROVE  IInv' /\ Ledger!Next
<1> USE DEF IInv, WriteStatus, process, budget
<1>1. /\ net.e \in EventId
      /\ records[net.e].oid # Ledger!NoOrder
      /\ StatusOf(net.e) \in Ledger!Status \ {"Reserved"}
      /\ net.to \in Ledger!Allowed(StatusOf(net.e))
  BY DEF NetOwnsTransition, ReservedHasNoId, DataOK, StatusOf,
         Ledger!TypeOK, Ledger!Record
<1>2. net.to \in Ledger!Status \ {"Reserved", "Submitted"}
  BY <1>1, AllowedFacts
<1>3. /\ Ledger!TypeOK'
      /\ records'[net.e].status = net.to
      /\ records'[net.e].oid = records[net.e].oid
      /\ \A f \in EventId \ {net.e} : records'[f] = records[f]
  BY <1>1, <1>2, WriteEffect DEF DataOK
<1>4. net' \in NetThread /\ net'.step # "write"
      /\ (net'.step = "record" => net'.x \in ExecId)
  BY DEF DataOK, NetThread, NetIdle
<1>5. DataOK'
  BY <1>3, <1>4 DEF DataOK
<1>6. ReservedHasNoId'
  BY <1>2, <1>3 DEF ReservedHasNoId, StatusOf, Ledger!Status, Ledger!Unknown
<1>7. MainOwnsSubmission'
  BY <1>1, <1>3 DEF MainOwnsSubmission, StatusOf
<1>8. NetOwnsTransition'
  BY <1>4 DEF NetOwnsTransition
<1>9. BrokerConsistent'
  BY DEF BrokerConsistent
<1>10. SubmittedBeforeBroker'
  BY <1>2, <1>3
  DEF SubmittedBeforeBroker, StatusOf, Ledger!Status, Ledger!Unknown, DataOK, BrokerOrder
<1>11. Ledger!Next
  BY <1>1, <1>2 DEF Ledger!Next, Ledger!Mark, Ledger!Transition, StatusOf
<1> QED
  BY <1>5, <1>6, <1>7, <1>8, <1>9, <1>10, <1>11

-----------------------------------------------------------------------------
(* The steps that leave the ledger alone.                                  *)

LEMMA MainStep ==
    ASSUME IInv,
           \/ \E e \in EventId, o \in OrderId : BeginSubmit(e, o)
           \/ CheckSubmission \/ PlaceOrder \/ StopWaiting
    PROVE  IInv' /\ UNCHANGED <<records, history>>
<1> USE DEF IInv, durable, process, budget
<1>1. ASSUME NEW e \in EventId, NEW o \in OrderId, BeginSubmit(e, o)
      PROVE  IInv' /\ UNCHANGED <<records, history>>
  <2> USE <1>1 DEF BeginSubmit
  <2>1. DataOK'
    BY DEF DataOK, Ledger!TypeOK, MainThread
  <2>2. MainOwnsSubmission'
    BY DEF MainOwnsSubmission, Fresh, BrokerConsistent, StatusOf
  <2>3. ReservedHasNoId' /\ NetOwnsTransition' /\ BrokerConsistent'
    BY DEF ReservedHasNoId, NetOwnsTransition, BrokerConsistent, StatusOf
  <2>4. SubmittedBeforeBroker'
    BY DEF SubmittedBeforeBroker, StatusOf
  <2> QED
    BY <2>1, <2>2, <2>3, <2>4
<1>2. CASE CheckSubmission \/ StopWaiting
  <2>1. /\ main' = [main EXCEPT !.step = "checked"] \/ main' = MainIdle
        /\ main.step = "built" \/ main' = MainIdle
    BY <1>2 DEF CheckSubmission, StopWaiting
  <2>2. UNCHANGED <<records, history, execIds, net, guard, orders, wire, crashes, drops>>
    BY <1>2 DEF CheckSubmission, StopWaiting
  <2>3. DataOK'
    BY <2>1, <2>2 DEF DataOK, Ledger!TypeOK, MainThread, MainIdle
  <2>4. MainOwnsSubmission'
    BY <2>1, <2>2 DEF MainOwnsSubmission, MainIdle, StatusOf, DataOK, MainThread
  <2>5. ReservedHasNoId' /\ NetOwnsTransition' /\ BrokerConsistent'
    BY <2>2 DEF ReservedHasNoId, NetOwnsTransition, BrokerConsistent, StatusOf
  <2>6. SubmittedBeforeBroker'
    BY <2>2 DEF SubmittedBeforeBroker, StatusOf
  <2> QED
    BY <2>2, <2>3, <2>4, <2>5, <2>6
<1>3. CASE PlaceOrder
  <2>1. /\ main.e \in EventId /\ main.o \in OrderId
        /\ records[main.e].oid = main.o
        /\ StatusOf(main.e) \notin {Ledger!Unknown, "Reserved"}
    BY <1>3, NoOrderIsNoId
    DEF PlaceOrder, MainOwnsSubmission, ReservedHasNoId
  <2>2. UNCHANGED <<records, history, execIds, net, guard, wire, crashes, drops>>
    BY <1>3 DEF PlaceOrder
  <2>3. main' = [main EXCEPT !.step = "waiting"]
    BY <1>3 DEF PlaceOrder
  <2>4. \/ orders' = orders
        \/ orders' = [orders EXCEPT ![main.o] =
                          [e |-> main.e, filled |-> 0, state |-> "Working"]]
    BY <1>3 DEF PlaceOrder
  <2>5. orders' \in [OrderId -> BrokerOrder]
    BY <2>1, <2>4, BoundsAssumption DEF DataOK, BrokerOrder
  <2>6. DataOK'
    BY <2>2, <2>3, <2>5 DEF DataOK, Ledger!TypeOK, MainThread
  <2>7. MainOwnsSubmission'
    BY <2>3 DEF MainOwnsSubmission, DataOK, MainThread
  <2>8. ReservedHasNoId' /\ NetOwnsTransition'
    BY <2>2 DEF ReservedHasNoId, NetOwnsTransition, StatusOf
  <2>9. BrokerConsistent'
    BY <2>1, <2>2, <2>4, BoundsAssumption DEF BrokerConsistent, DataOK
  <2>10. SubmittedBeforeBroker'
    BY <2>1, <2>2, <2>4 DEF SubmittedBeforeBroker, StatusOf, DataOK
  <2> QED
    BY <2>2, <2>6, <2>7, <2>8, <2>9, <2>10
<1> QED
  BY <1>1, <1>2, <1>3

LEMMA NetworkStep ==
    ASSUME IInv,
           \/ \E m \in wire :
                 ReceiveStatus(m) \/ ReceiveExecution(m) \/ CallbackRaises(m)
           \/ RecordExecutionId \/ CriticalError
    PROVE  IInv' /\ UNCHANGED <<records, history>>
<1> USE DEF IInv, durable, process, budget
<1>1. UNCHANGED <<records, history, main, guard, orders, crashes, drops>>
  BY DEF ReceiveStatus, ReceiveExecution, CallbackRaises, RecordExecutionId,
         CriticalError
<1>2. wire' \subseteq wire
  BY DEF ReceiveStatus, ReceiveExecution, CallbackRaises, RecordExecutionId,
         CriticalError
<1>3. /\ net' \in NetThread
      /\ NetOwnsTransition'
      /\ execIds' \subseteq ExecId
  <2>1. ASSUME NEW m \in wire, ReceiveStatus(m)
        PROVE  net' \in NetThread /\ NetOwnsTransition' /\ execIds' = execIds
    <3> USE <2>1
    <3>1. PICK e \in Owner(m.o), s \in Ledger!Status :
              /\ s \in Ledger!Allowed(StatusOf(e))
              /\ net' = [step |-> "write", e |-> e, to |-> s, x |-> NoExec]
      BY AllowedFacts DEF ReceiveStatus, Owner, StatusWrites, DesiredStatus, Ledger!Status, Ledger!Terminal
    <3>2. e \in EventId /\ records[e].oid # Ledger!NoOrder
      BY <3>1, NoOrderIsNoId DEF Owner, DataOK, Callback
    <3> QED
      BY <1>1, <3>1, <3>2 DEF NetThread, NetOwnsTransition, StatusOf, ReceiveStatus
  <2>2. ASSUME NEW m \in wire, ReceiveExecution(m)
        PROVE  net' \in NetThread /\ NetOwnsTransition' /\ execIds' = execIds
    <3> USE <2>2
    <3>1. PICK e \in Owner(m.o), s \in {"Filled", "PartiallyFilled"},
               step \in {"record", "write"} :
              /\ step = "write" => StatusOf(e) # "Filled" /\ StatusOf(e) # s
              /\ StatusOf(e) \notin {"Cancelled", "Rejected"}
              /\ net' = [step |-> step, e |-> e, to |-> s, x |-> <<m.o, m.filled>>]
      BY DEF ReceiveExecution
    <3>2. e \in EventId /\ records[e].oid # Ledger!NoOrder
      BY <3>1, NoOrderIsNoId DEF Owner, DataOK, Callback
    <3>3. <<m.o, m.filled>> \in ExecId
      <4>1. m.o \in OrderId /\ m.filled \in 0 .. Quantity /\ m.filled # 0
        BY DEF ReceiveExecution, DataOK, Callback, BrokerConsistent
      <4> QED
        BY <4>1, BoundsAssumption DEF ExecId
    <3>4. step = "write" => s \in Ledger!Allowed(StatusOf(e))
      <4>1. StatusOf(e) \in Ledger!Status \ {"Reserved"}
        BY <3>2 DEF ReservedHasNoId, DataOK, Ledger!TypeOK, Ledger!Record, StatusOf
      <4> QED
        BY <3>1, <4>1 DEF Ledger!Allowed, Ledger!Status, Ledger!Terminal
    <3> QED
      BY <1>1, <3>1, <3>2, <3>3, <3>4
      DEF NetThread, NetOwnsTransition, StatusOf, ReceiveExecution, Ledger!Status
  <2>3. ASSUME CriticalError \/ \E m \in wire : CallbackRaises(m)
        PROVE  net' \in NetThread /\ NetOwnsTransition' /\ execIds' = execIds
    BY <1>1, <2>3
    DEF CriticalError, CallbackRaises, NetOwnsTransition, StatusOf, DataOK
  <2>4. ASSUME RecordExecutionId
        PROVE  net' \in NetThread /\ NetOwnsTransition' /\ execIds' \subseteq ExecId
    BY <2>4 DEF RecordExecutionId, NetOwnsTransition, NetThread, NetIdle, DataOK
  <2> QED
    BY <2>1, <2>2, <2>3, <2>4 DEF DataOK
<1>4. DataOK'
  BY <1>1, <1>2, <1>3 DEF DataOK, Ledger!TypeOK
<1>5. ReservedHasNoId' /\ MainOwnsSubmission' /\ BrokerConsistent'
  BY <1>1, <1>2 DEF ReservedHasNoId, MainOwnsSubmission, BrokerConsistent, StatusOf
<1>6. SubmittedBeforeBroker'
  BY <1>1 DEF SubmittedBeforeBroker, StatusOf
<1> QED
  BY <1>1, <1>3, <1>4, <1>5, <1>6

LEMMA BrokerStep ==
    ASSUME IInv, Broker
    PROVE  IInv' /\ UNCHANGED <<records, history>>
<1> USE DEF IInv, durable, process, budget
<1>1. UNCHANGED <<records, history, execIds, guard, main, net, crashes, drops>>
  BY DEF Broker, BrokerAccepts, BrokerFills, BrokerCancels, BrokerRejects
<1>2. PICK o \in OrderId :
          BrokerAccepts(o) \/ BrokerFills(o) \/ BrokerCancels(o) \/ BrokerRejects(o)
  BY DEF Broker
<1>3. /\ orders[o] \in BrokerOrder
      /\ orders[o].filled \in 0 .. Quantity
      /\ orders[o].state = "Working" => orders[o].filled + 1 \in 1 .. Quantity
  BY BoundsAssumption DEF DataOK, BrokerOrder, BrokerConsistent
<1>4. /\ wire' \subseteq Callback
      /\ \A m \in wire' : m.kind = "Exec" => m.filled # 0
  <2>1. ASSUME NEW ms \in SUBSET Callback, Send(ms),
               \A m \in ms : m.kind = "Exec" => m.filled # 0
        PROVE  /\ wire' \subseteq Callback
               /\ \A m \in wire' : m.kind = "Exec" => m.filled # 0
    BY <2>1 DEF Send, DataOK, BrokerConsistent
  <2>2. ASSUME NEW k, k \in {"Submitted", "Filled", "Cancelled", "Exec",
                             "Error201", "Error202"},
               NEW n \in 0 .. Quantity
        PROVE  Msg(k, o, n) \in Callback
    BY <2>2 DEF Msg, Callback
  <2>3. CASE BrokerAccepts(o)
    <3>1. Send({Msg("Submitted", o, 0)})
      BY <2>3 DEF BrokerAccepts
    <3>2. Msg("Submitted", o, 0) \in Callback
      BY <2>2, BoundsAssumption
    <3> QED
      BY <3>1, <3>2, <2>1 DEF Msg
  <2>4. CASE BrokerFills(o)
    <3> DEFINE n == orders[o].filled + 1
               k == IF n = Quantity THEN "Filled" ELSE "Submitted"
    <3>1. Send({Msg("Exec", o, n), Msg(k, o, n)})
      BY <2>4 DEF BrokerFills
    <3>2. n \in 0 .. Quantity /\ n # 0
      BY <2>4, <1>3, BoundsAssumption DEF BrokerFills
    <3>3. Msg("Exec", o, n) \in Callback /\ Msg(k, o, n) \in Callback
      BY <3>2, <2>2
    <3>4. \A m \in {Msg("Exec", o, n), Msg(k, o, n)} : m.filled # 0
      BY <3>2 DEF Msg
    <3> HIDE DEF n, k
    <3> QED
      BY <3>1, <3>3, <3>4, <2>1
  <2>5. CASE BrokerCancels(o)
    <3>1. Send({Msg("Cancelled", o, orders[o].filled), Msg("Error202", o, 0)})
      BY <2>5 DEF BrokerCancels
    <3>2. /\ Msg("Cancelled", o, orders[o].filled) \in Callback
          /\ Msg("Error202", o, 0) \in Callback
      BY <1>3, <2>2, BoundsAssumption
    <3> QED
      BY <3>1, <3>2, <2>1 DEF Msg
  <2>6. CASE BrokerRejects(o)
    <3>1. Send({Msg("Error201", o, 0)})
      BY <2>6 DEF BrokerRejects
    <3>2. Msg("Error201", o, 0) \in Callback
      BY <2>2, BoundsAssumption
    <3> QED
      BY <3>1, <3>2, <2>1 DEF Msg
  <2> QED
    BY <1>2, <2>3, <2>4, <2>5, <2>6
<1>5. /\ orders' \in [OrderId -> BrokerOrder]
      /\ \A p \in OrderId :
            /\ orders'[p].e = orders[p].e
            /\ orders'[p].state = "None" => orders[p].state = "None"
            /\ orders'[p].state = "Working" => orders'[p].filled < Quantity
  <2>1. CASE BrokerAccepts(o)
    BY <2>1 DEF BrokerAccepts, DataOK, BrokerConsistent
  <2>2. CASE BrokerFills(o)
    <3> DEFINE n == orders[o].filled + 1
               s == IF n = Quantity THEN "Filled" ELSE "Working"
    <3>1. /\ n \in 1 .. Quantity
          /\ s \in {"Filled", "Working"}
          /\ s = "Working" => n < Quantity
      BY <2>2, <1>3, BoundsAssumption DEF BrokerFills
    <3>2. orders' = [orders EXCEPT ![o] =
                         [e |-> orders[o].e, filled |-> n, state |-> s]]
      BY <2>2 DEF BrokerFills
    <3> HIDE DEF n, s
    <3>3. [e |-> orders[o].e, filled |-> n, state |-> s] \in BrokerOrder
      BY <3>1, <1>3, BoundsAssumption DEF BrokerOrder
    <3>4. orders' \in [OrderId -> BrokerOrder]
      BY <3>2, <3>3 DEF DataOK
    <3>5. /\ orders'[o] = [e |-> orders[o].e, filled |-> n, state |-> s]
          /\ \A p \in OrderId \ {o} : orders'[p] = orders[p]
      BY <3>2 DEF DataOK
    <3> QED
      BY <3>1, <3>4, <3>5 DEF BrokerConsistent
  <2>3. CASE BrokerCancels(o) \/ BrokerRejects(o)
    <3>1. PICK s \in {"Cancelled", "Rejected"} :
              orders' = [orders EXCEPT ![o].state = s]
      BY <2>3 DEF BrokerCancels, BrokerRejects
    <3> QED
      BY <3>1 DEF DataOK, BrokerOrder, BrokerConsistent
  <2> QED
    BY <1>2, <2>1, <2>2, <2>3
<1>6. DataOK'
  BY <1>1, <1>4, <1>5 DEF DataOK, Ledger!TypeOK
<1>7. ReservedHasNoId' /\ NetOwnsTransition'
  BY <1>1 DEF ReservedHasNoId, NetOwnsTransition, StatusOf
<1>8. MainOwnsSubmission'
  BY <1>1, <1>5 DEF MainOwnsSubmission, StatusOf
<1>9. BrokerConsistent'
  BY <1>4, <1>5 DEF BrokerConsistent
<1>10. SubmittedBeforeBroker'
  BY <1>1, <1>5 DEF SubmittedBeforeBroker, StatusOf
<1> QED
  BY <1>1, <1>6, <1>7, <1>8, <1>9, <1>10

LEMMA OutageStep ==
    ASSUME IInv, Disconnect \/ Reconnect \/ Crash \/ Restart
    PROVE  IInv' /\ UNCHANGED <<records, history>>
<1> USE DEF IInv, durable, process, budget
<1>1. UNCHANGED <<records, history, execIds, orders>>
  BY DEF Disconnect, Reconnect, Crash, Restart
<1>2. \/ UNCHANGED <<main, net, guard>>
      \/ main' = MainIdle /\ net' = NetIdle /\ guard' = {}
  BY DEF Disconnect, Reconnect, Crash, Restart
<1>3. crashes' \in 0 .. MaxCrashes /\ drops' \in 0 .. MaxDrops
  <2>1. CASE Disconnect
    BY <2>1, BoundsAssumption DEF Disconnect, DataOK
  <2>2. CASE Crash
    BY <2>2, BoundsAssumption DEF Crash, DataOK
  <2>3. CASE Reconnect \/ Restart
    BY <2>3 DEF Reconnect, Restart, DataOK
  <2> QED
    BY <2>1, <2>2, <2>3
<1>4. \A m \in wire' : m \in Callback /\ (m.kind = "Exec" => m.filled # 0)
  <2>1. CASE Reconnect
    <3>1. wire' = {Msg("Submitted", o, orders[o].filled) :
                        o \in {w \in OrderId : orders[w].state = "Working"}}
      BY <2>1 DEF Reconnect
    <3>2. \A o \in OrderId : orders[o].filled \in 0 .. Quantity
      BY DEF DataOK, BrokerOrder
    <3> QED
      BY <3>1, <3>2 DEF Msg, Callback
  <2>2. CASE Disconnect \/ Crash \/ Restart
    <3>1. wire' = {} \/ wire' = wire
      BY <2>2 DEF Disconnect, Crash, Restart
    <3> QED
      BY <3>1 DEF DataOK, BrokerConsistent
  <2> QED
    BY <2>1, <2>2
<1>5. DataOK'
  BY <1>1, <1>2, <1>3, <1>4
  DEF DataOK, Ledger!TypeOK, MainIdle, NetIdle, MainThread, NetThread
<1>6. ReservedHasNoId' /\ BrokerConsistent'
  BY <1>1, <1>4 DEF ReservedHasNoId, BrokerConsistent, StatusOf
<1>7. MainOwnsSubmission'
  BY <1>1, <1>2 DEF MainOwnsSubmission, MainIdle, StatusOf
<1>8. NetOwnsTransition'
  BY <1>1, <1>2 DEF NetOwnsTransition, NetIdle, StatusOf
<1>9. SubmittedBeforeBroker'
  BY <1>1 DEF SubmittedBeforeBroker, StatusOf
<1> QED
  BY <1>1, <1>5, <1>6, <1>7, <1>8, <1>9

-----------------------------------------------------------------------------
\* Every step keeps the invariant, and is a step of the ledger or leaves it.
LEMMA StepIInv ==
    ASSUME IInv, [Next]_vars
    PROVE  IInv' /\ [Ledger!Next]_(Ledger!vars)
<1>1. CASE \E e \in EventId : ReserveExecution(e)
  BY <1>1, ReserveStep
<1>2. CASE WriteSubmission
  BY <1>2, WriteSubmissionStep
<1>3. CASE WriteStatus
  BY <1>3, WriteStatusStep
<1>4. CASE \/ \E e \in EventId, o \in OrderId : BeginSubmit(e, o)
           \/ CheckSubmission \/ PlaceOrder \/ StopWaiting
  BY <1>4, MainStep DEF Ledger!vars
<1>5. CASE \/ \E m \in wire :
                 ReceiveStatus(m) \/ ReceiveExecution(m) \/ CallbackRaises(m)
           \/ RecordExecutionId \/ CriticalError
  BY <1>5, NetworkStep DEF Ledger!vars
<1>6. CASE Broker
  BY <1>6, BrokerStep DEF Ledger!vars
<1>7. CASE Disconnect \/ Reconnect \/ Crash \/ Restart
  BY <1>7, OutageStep DEF Ledger!vars
<1>8. CASE UNCHANGED vars
  BY <1>8
  DEF vars, durable, process, budget, Ledger!vars, IInv, DataOK, Ledger!TypeOK,
      ReservedHasNoId, MainOwnsSubmission, NetOwnsTransition, BrokerConsistent,
      SubmittedBeforeBroker, StatusOf
<1> QED
  BY <1>1, <1>2, <1>3, <1>4, <1>5, <1>6, <1>7, <1>8 DEF Next, Main, Network

LEMMA FlagsStep == FlagsOK /\ [Next]_vars => FlagsOK'
BY ZenonT(60)
DEF FlagsOK, Next, vars, durable, process, budget, Main, Network, Broker,
    ReserveExecution, BeginSubmit, CheckSubmission, WriteSubmission, PlaceOrder,
    StopWaiting, ReceiveStatus, ReceiveExecution, CallbackRaises, WriteStatus,
    RecordExecutionId, CriticalError, BrokerAccepts, BrokerFills, BrokerCancels,
    BrokerRejects, Disconnect, Reconnect, Crash, Restart

-----------------------------------------------------------------------------
(* The ledger and IB.  That the ledger never runs ahead of IB needs an     *)
(* account of everything that is under way between them: what IB sent and  *)
(* what the network thread holds was so when it was sent, and what it says *)
(* cannot cease to be so.                                                  *)

\* No two records carry the same order id, nor one the id in hand.
IdsUnique ==
    /\ \A e, f \in EventId :
           records[e].oid \in OrderId /\ records[e].oid = records[f].oid => e = f
    /\ main.step \in {"built", "checked"} => \A e \in EventId : records[e].oid # main.o
    /\ main.step = "marked" => StatusOf(main.e) = "Submitted"

\* An order is filled when all of it is, and has an event once it is placed.
OrdersComplete ==
    \A o \in OrderId :
        /\ orders[o].state # "None" => orders[o].e \in EventId
        /\ orders[o].state = "Filled" => orders[o].filled = Quantity
        /\ orders[o].state # "Filled" => orders[o].filled < Quantity

\* IB reports nothing that is not so, although it may be so no longer.
WireTruthful ==
    \A m \in wire :
        /\ orders[m.o].state # "None"
        /\ m.filled <= orders[m.o].filled
        /\ m.kind = "Filled" => orders[m.o].state = "Filled"
        /\ m.kind \in {"Cancelled", "Error202"} => orders[m.o].state = "Cancelled"
        /\ m.kind = "Error201" => orders[m.o].state = "Rejected"

\* The status s of an event that has an order at IB is so there.
Backed(e, s) ==
    /\ records[e].oid \in OrderId
    /\ orders[records[e].oid].e = e
    /\ s \in {"Filled", "Cancelled", "Rejected"} => orders[records[e].oid].state = s
    /\ s = "PartiallyFilled" => orders[records[e].oid].filled > 0

\* The status an execution id stands for, and the fill behind it.
Shows(x) == IF x[2] = Quantity THEN {"Filled"} ELSE {"PartiallyFilled", "Filled"}
Executed(e, x) ==
    /\ records[e].oid = x[1] /\ x[1] \in OrderId /\ orders[x[1]].e = e
    /\ orders[x[1]].filled >= x[2]
Shown(e, x) == \E i \in 1 .. Len(history[e]) : history[e][i] \in Shows(x)

NetTruthful ==
    /\ net.step = "write" => Backed(net.e, net.to)
    /\ net.step = "write" /\ net.x # NoExec =>
           net.x \in ExecId /\ Executed(net.e, net.x) /\ net.to \in Shows(net.x)
    /\ net.step = "record" =>
           net.e \in EventId /\ Executed(net.e, net.x) /\ Shown(net.e, net.x)

\* A record says what IB said, or a rejection that never reached IB, and its
\* status is in its history.
Explained(e) ==
    StatusOf(e) \notin {Ledger!Unknown, "Reserved", "Submitted"} =>
        \/ Backed(e, StatusOf(e))
        \/ StatusOf(e) = "Rejected" /\ records[e].oid = Ledger!NoOrder
Audited(e) ==
    StatusOf(e) # Ledger!Unknown =>
        \E i \in 1 .. Len(history[e]) : history[e][i] = StatusOf(e)
LedgerTruthful == \A e \in EventId : Explained(e) /\ Audited(e)

ExecsTruthful == \A x \in execIds : \E e \in EventId : Executed(e, x) /\ Shown(e, x)

TruthInv ==
    /\ IdsUnique /\ OrdersComplete /\ WireTruthful /\ NetTruthful
    /\ LedgerTruthful /\ ExecsTruthful

\* What IB and the ledger never take back.
OrdersGrow ==
    \A o \in OrderId : orders[o].e # NoEvent =>
        /\ orders'[o].e = orders[o].e
        /\ orders'[o].filled >= orders[o].filled
        /\ orders[o].state # "Working" => orders'[o].state = orders[o].state
        /\ orders'[o].state # "None"
LedgerGrows ==
    \A e \in EventId :
        /\ records[e].oid \in OrderId => records'[e].oid = records[e].oid
        /\ Len(history'[e]) >= Len(history[e])
        /\ \A i \in 1 .. Len(history[e]) : history'[e][i] = history[e][i]

LEMMA HistoryType ==
    ASSUME IInv, NEW e \in EventId
    PROVE  Len(history[e]) \in Nat
BY DEF IInv, DataOK, Ledger!TypeOK

LEMMA WriteHistory ==
    ASSUME IInv, NEW e \in EventId, NEW s \in Ledger!Status, NEW o, Ledger!Write(e, s, o)
    PROVE  /\ Len(history'[e]) = Len(history[e]) + 1
           /\ history'[e][Len(history[e]) + 1] = s
           /\ \A i \in 1 .. Len(history[e]) : history'[e][i] = history[e][i]
           /\ \A f \in EventId \ {e} : history'[f] = history[f]
<1>1. history[e] \in Seq(Ledger!Status) /\ history' = [history EXCEPT ![e] = Append(history[e], s)]
  BY DEF IInv, DataOK, Ledger!TypeOK, Ledger!Write
<1>2. history'[e] = Append(history[e], s) /\ \A f \in EventId \ {e} : history'[f] = history[f]
  BY <1>1 DEF IInv, DataOK, Ledger!TypeOK
<1> QED
  BY <1>1, <1>2

\* Who writes the ledger, and what.
LEMMA RecordCases ==
    ASSUME [Next]_vars
    PROVE  \/ UNCHANGED <<records, history>>
           \/ (\E e \in EventId : ReserveExecution(e)) \/ WriteSubmission \/ WriteStatus
BY DEF Next, vars, durable, process, budget, Main, Network, Broker, BeginSubmit,
   CheckSubmission, PlaceOrder, StopWaiting, ReceiveStatus, ReceiveExecution,
   CallbackRaises, RecordExecutionId, CriticalError, BrokerAccepts, BrokerFills,
   BrokerCancels, BrokerRejects, Disconnect, Reconnect, Crash, Restart

LEMMA ReserveEffect ==
    ASSUME IInv, NEW e \in EventId, ReserveExecution(e)
    PROVE  /\ main = MainIdle /\ UNCHANGED <<main, net, orders, wire, execIds>>
           /\ StatusOf(e) = Ledger!Unknown /\ records[e].oid = Ledger!NoOrder
           /\ records'[e].status = "Reserved"
           /\ \A f \in EventId : records'[f].oid = records[f].oid
           /\ \A f \in EventId \ {e} : records'[f] = records[f] /\ history'[f] = history[f]
           /\ Len(history'[e]) = Len(history[e]) + 1
           /\ history'[e][Len(history[e]) + 1] = "Reserved"
<1>1. Ledger!Write(e, "Reserved", Ledger!NoOrder) /\ "Reserved" \in Ledger!Status
  BY DEF ReserveExecution, Ledger!Reserve, Ledger!Status
<1>2. /\ records'[e].status = "Reserved" /\ records'[e].oid = records[e].oid
      /\ \A f \in EventId \ {e} : records'[f] = records[f]
  BY <1>1, WriteEffect DEF IInv, DataOK
<1>3. StatusOf(e) = Ledger!Unknown /\ records[e].oid = Ledger!NoOrder
  BY DEF IInv, ReserveExecution, Ledger!Reserve, StatusOf, ReservedHasNoId
<1> QED
  BY <1>1, <1>2, <1>3, WriteHistory DEF ReserveExecution

LEMMA SubmissionEffect ==
    ASSUME IInv, WriteSubmission
    PROVE  /\ main.step = "checked" /\ main.e \in EventId /\ main.o \in OrderId
           /\ main.to \in {"Submitted", "Rejected"}
           /\ UNCHANGED <<net, orders, wire, execIds>>
           /\ records[main.e].oid = Ledger!NoOrder
           /\ records'[main.e].status = main.to
           /\ \A f \in EventId \ {main.e} : records'[f] = records[f] /\ history'[f] = history[f]
           /\ Len(history'[main.e]) = Len(history[main.e]) + 1
           /\ history'[main.e][Len(history[main.e]) + 1] = main.to
           /\ \/ main.to = "Submitted" /\ records'[main.e].oid = main.o
                 /\ main' = [main EXCEPT !.step = "marked"]
              \/ main.to = "Rejected" /\ records'[main.e].oid = Ledger!NoOrder
                 /\ main' = MainIdle
<1>1. /\ main.e \in EventId /\ main.o \in OrderId /\ main.to \in {"Submitted", "Rejected"}
      /\ StatusOf(main.e) = "Reserved" /\ records[main.e].oid = Ledger!NoOrder
  BY DEF WriteSubmission, IInv, MainOwnsSubmission, ReservedHasNoId
<1>2. PICK n \in OrderId \cup {Ledger!NoOrder} :
          /\ Ledger!Write(main.e, main.to, n)
          /\ n = IF main.to = "Submitted" THEN main.o ELSE Ledger!NoOrder
  BY <1>1 DEF WriteSubmission
<1>3. main.to \in Ledger!Status /\ main.o # Ledger!NoOrder
  BY <1>1, NoOrderIsNoId DEF Ledger!Status
<1>4. /\ records'[main.e].status = main.to
      /\ records'[main.e].oid = IF n = Ledger!NoOrder THEN records[main.e].oid ELSE n
      /\ \A f \in EventId \ {main.e} : records'[f] = records[f]
  BY <1>1, <1>2, <1>3, WriteEffect DEF IInv, DataOK
<1>5. /\ Len(history'[main.e]) = Len(history[main.e]) + 1
      /\ history'[main.e][Len(history[main.e]) + 1] = main.to
      /\ \A f \in EventId \ {main.e} : history'[f] = history[f]
  BY <1>1, <1>2, <1>3, WriteHistory
<1>6. main.step = "checked" /\ UNCHANGED <<net, orders, wire, execIds>>
      /\ main' = IF main.to = "Submitted" THEN [main EXCEPT !.step = "marked"] ELSE MainIdle
  BY DEF WriteSubmission
<1> QED
  BY <1>1, <1>2, <1>3, <1>4, <1>5, <1>6

LEMMA StatusEffect ==
    ASSUME IInv, WriteStatus
    PROVE  /\ net.step = "write" /\ net.e \in EventId
           /\ UNCHANGED <<main, orders, wire, execIds>>
           /\ net.to \in Ledger!Status \ {"Reserved", "Submitted"}
           /\ StatusOf(net.e) # Ledger!Unknown
           /\ records'[net.e].status = net.to
           /\ \A f \in EventId : records'[f].oid = records[f].oid
           /\ \A f \in EventId \ {net.e} : records'[f] = records[f] /\ history'[f] = history[f]
           /\ Len(history'[net.e]) = Len(history[net.e]) + 1
           /\ history'[net.e][Len(history[net.e]) + 1] = net.to
           /\ net' = IF net.x = NoExec THEN NetIdle ELSE [net EXCEPT !.step = "record"]
<1>1. /\ net.step = "write" /\ net.e \in EventId
      /\ StatusOf(net.e) \in Ledger!Status \ {"Reserved"}
      /\ net.to \in Ledger!Allowed(StatusOf(net.e))
  BY DEF WriteStatus, IInv, NetOwnsTransition, ReservedHasNoId, DataOK, StatusOf,
         Ledger!TypeOK, Ledger!Record
<1>2. net.to \in Ledger!Status \ {"Reserved", "Submitted"}
  BY <1>1, AllowedFacts
<1>3. Ledger!Write(net.e, net.to, Ledger!NoOrder)
  BY DEF WriteStatus
<1>4. /\ records'[net.e].status = net.to /\ records'[net.e].oid = records[net.e].oid
      /\ \A f \in EventId \ {net.e} : records'[f] = records[f]
  BY <1>1, <1>2, <1>3, WriteEffect DEF IInv, DataOK
<1>5. /\ Len(history'[net.e]) = Len(history[net.e]) + 1
      /\ history'[net.e][Len(history[net.e]) + 1] = net.to
      /\ \A f \in EventId \ {net.e} : history'[f] = history[f]
  BY <1>1, <1>2, <1>3, WriteHistory
<1>6. StatusOf(net.e) # Ledger!Unknown
  BY <1>1 DEF Ledger!Status, Ledger!Unknown
<1> QED
  BY <1>1, <1>2, <1>4, <1>5, <1>6 DEF WriteStatus, process

LEMMA LedgerGrowsStep ==
    ASSUME IInv, [Next]_vars
    PROVE  LedgerGrows
<1>1. \A e \in EventId : records[e].oid \in OrderId => records'[e].oid = records[e].oid
  BY NoOrderIsNoId, RecordCases, ReserveEffect, SubmissionEffect, StatusEffect
<1>2. ASSUME NEW e \in EventId, NEW s \in Ledger!Status, NEW o, Ledger!Write(e, s, o)
      PROVE  \A f \in EventId : /\ Len(history'[f]) >= Len(history[f])
                               /\ \A i \in 1 .. Len(history[f]) : history'[f][i] = history[f][i]
  BY <1>2, WriteHistory, HistoryType
<1>3. CASE UNCHANGED <<records, history>>
  BY <1>3, HistoryType DEF LedgerGrows
<1>4. ASSUME NEW e \in EventId, ReserveExecution(e) PROVE LedgerGrows
  BY <1>1, <1>2, <1>4 DEF ReserveExecution, Ledger!Reserve, Ledger!Status, LedgerGrows
<1>5. CASE WriteSubmission
  <2>1. main.e \in EventId /\ main.to \in Ledger!Status
    BY <1>5, SubmissionEffect DEF Ledger!Status
  <2> QED
    BY <1>1, <1>2, <1>5, <2>1 DEF WriteSubmission, LedgerGrows
<1>6. CASE WriteStatus
  BY <1>1, <1>2, <1>6, StatusEffect DEF WriteStatus, LedgerGrows
<1> QED
  BY <1>3, <1>4, <1>5, <1>6, RecordCases

\* Who changes an order at IB.
LEMMA OrderCases ==
    ASSUME [Next]_vars
    PROVE  orders' = orders \/ PlaceOrder \/ Broker
BY DEF Next, vars, durable, process, budget, Main, Network, ReserveExecution, BeginSubmit,
   CheckSubmission, WriteSubmission, StopWaiting, ReceiveStatus, ReceiveExecution,
   CallbackRaises, WriteStatus, RecordExecutionId, CriticalError, Disconnect, Reconnect,
   Crash, Restart

\* What IB does to an order that works.
LEMMA BrokerMoves ==
    ASSUME IInv, TruthInv, NEW o \in OrderId,
           BrokerAccepts(o) \/ BrokerFills(o) \/ BrokerCancels(o) \/ BrokerRejects(o)
    PROVE  /\ orders[o].state = "Working" /\ orders[o].e \in EventId
           /\ orders[o].filled \in 0 .. Quantity - 1
           /\ \A p \in OrderId \ {o} : orders'[p] = orders[p]
           /\ orders'[o].e = orders[o].e
           /\ \/ BrokerAccepts(o) /\ orders' = orders
              \/ /\ BrokerFills(o) /\ orders'[o].filled = orders[o].filled + 1
                 /\ orders'[o].state = IF orders[o].filled + 1 = Quantity THEN "Filled"
                                       ELSE "Working"
              \/ /\ BrokerCancels(o) /\ orders'[o].filled = orders[o].filled
                 /\ orders'[o].state = "Cancelled"
              \/ /\ BrokerRejects(o) /\ orders'[o].filled = orders[o].filled
                 /\ orders'[o].state = "Rejected"
<1>1. /\ orders \in [OrderId -> BrokerOrder] /\ orders[o] \in BrokerOrder
      /\ orders[o].filled \in 0 .. Quantity /\ Quantity \in Nat
  BY BoundsAssumption DEF IInv, DataOK, BrokerOrder
<1>2. orders[o].state = "Working" /\ orders[o].e \in EventId /\ orders[o].filled < Quantity
  BY DEF BrokerAccepts, BrokerFills, BrokerCancels, BrokerRejects, TruthInv, OrdersComplete
<1>3. orders[o].filled \in 0 .. Quantity - 1
  BY <1>1, <1>2
<1>4. CASE BrokerAccepts(o)
  BY <1>2, <1>3, <1>4 DEF BrokerAccepts
<1>5. CASE BrokerFills(o)
  <2>1. orders' = [orders EXCEPT ![o] =
            [e |-> orders[o].e, filled |-> orders[o].filled + 1,
             state |-> IF orders[o].filled + 1 = Quantity THEN "Filled" ELSE "Working"]]
    BY <1>5 DEF BrokerFills
  <2> QED
    BY <1>1, <1>2, <1>3, <1>5, <2>1
<1>6. CASE BrokerCancels(o)
  BY <1>1, <1>2, <1>3, <1>6 DEF BrokerCancels, BrokerOrder
<1>7. CASE BrokerRejects(o)
  BY <1>1, <1>2, <1>3, <1>7 DEF BrokerRejects, BrokerOrder
<1> QED
  BY <1>4, <1>5, <1>6, <1>7

\* placeOrder puts a new order under an id IB holds nothing under.
LEMMA Placed ==
    ASSUME IInv, TruthInv, PlaceOrder
    PROVE  /\ main.e \in EventId /\ main.o \in OrderId /\ orders[main.o].e = NoEvent
           /\ records[main.e].oid = main.o /\ StatusOf(main.e) = "Submitted"
           /\ main'.step = "waiting"
           /\ UNCHANGED <<records, history, execIds, net, wire>>
           /\ \A p \in OrderId \ {main.o} : orders'[p] = orders[p]
           /\ \/ orders' = orders
              \/ orders'[main.o] = [e |-> main.e, filled |-> 0, state |-> "Working"]
<1>1. /\ main.step = "marked" /\ main \in MainThread
      /\ main' = [main EXCEPT !.step = "waiting"]
      /\ UNCHANGED <<records, history, execIds, net, wire>>
      /\ \/ orders' = orders
         \/ orders' = [orders EXCEPT ![main.o] =
                          [e |-> main.e, filled |-> 0, state |-> "Working"]]
  BY DEF PlaceOrder, durable, IInv, DataOK
<1>2. /\ main.e \in EventId /\ main.o \in OrderId /\ orders[main.o].e = NoEvent
      /\ records[main.e].oid = main.o /\ StatusOf(main.e) = "Submitted"
  BY <1>1 DEF IInv, MainOwnsSubmission, TruthInv, IdsUnique
<1> QED
  BY <1>1, <1>2 DEF IInv, DataOK, MainThread

LEMMA OrdersGrowStep ==
    ASSUME IInv, TruthInv, [Next]_vars
    PROVE  OrdersGrow
<1>1. \A o \in OrderId : orders[o].filled \in Int
                         /\ (orders[o].e # NoEvent => orders[o].state # "None")
  BY BoundsAssumption DEF IInv, DataOK, BrokerOrder, BrokerConsistent
<1>2. CASE orders' = orders
  BY <1>1, <1>2 DEF OrdersGrow
<1>3. CASE PlaceOrder
  BY <1>1, <1>3, Placed DEF OrdersGrow
<1>4. CASE Broker
  <2>1. PICK o \in OrderId :
            BrokerAccepts(o) \/ BrokerFills(o) \/ BrokerCancels(o) \/ BrokerRejects(o)
    BY <1>4 DEF Broker
  <2> QED
    BY <1>1, <2>1, BrokerMoves DEF OrdersGrow
<1> QED
  BY <1>2, <1>3, <1>4, OrderCases

\* What was so stays so.
LEMMA BackedStays ==
    ASSUME IInv, IInv', OrdersGrow, LedgerGrows, NEW e \in EventId, NEW s, Backed(e, s)
    PROVE  Backed(e, s)'
<1>1. /\ records[e].oid \in OrderId /\ orders[records[e].oid].e = e /\ e # NoEvent
      /\ records'[e].oid = records[e].oid
  BY NoEventAssumption DEF Backed, LedgerGrows
<1>2. PICK o \in OrderId : o = records[e].oid
  BY <1>1
<1>3. /\ orders[o].filled \in 0 .. Quantity /\ orders'[o].filled \in 0 .. Quantity
      /\ orders[o].state \in {"None", "Working", "Filled", "Cancelled", "Rejected"}
  BY DEF IInv, DataOK, BrokerOrder
<1>4. /\ orders'[o].e = e /\ orders'[o].filled >= orders[o].filled
      /\ orders[o].state # "Working" => orders'[o].state = orders[o].state
  BY <1>1, <1>2 DEF OrdersGrow
<1>5. /\ s \in {"Filled", "Cancelled", "Rejected"} => orders'[o].state = s
      /\ s = "PartiallyFilled" => orders'[o].filled > 0
  BY <1>2, <1>3, <1>4, BoundsAssumption DEF Backed
<1> QED
  BY <1>1, <1>2, <1>4, <1>5 DEF Backed

LEMMA ExecutedStays ==
    ASSUME IInv, IInv', OrdersGrow, LedgerGrows, NEW e \in EventId, NEW x \in ExecId,
           Executed(e, x)
    PROVE  Executed(e, x)'
<1>1. /\ x[1] \in OrderId /\ x[2] \in 1 .. Quantity
      /\ records'[e].oid = x[1] /\ orders[x[1]].e = e /\ e # NoEvent
  BY NoEventAssumption DEF Executed, LedgerGrows, ExecId
<1>2. orders[x[1]].filled \in 0 .. Quantity /\ orders'[x[1]].filled \in 0 .. Quantity
  BY <1>1 DEF IInv, DataOK, BrokerOrder
<1>3. orders'[x[1]].e = e /\ orders'[x[1]].filled >= orders[x[1]].filled
  BY <1>1 DEF OrdersGrow
<1>4. orders'[x[1]].filled >= x[2]
  BY <1>1, <1>2, <1>3, BoundsAssumption DEF Executed
<1> QED
  BY <1>1, <1>3, <1>4 DEF Executed

LEMMA ShownStays ==
    ASSUME IInv, IInv', LedgerGrows, NEW e \in EventId, NEW x, Shown(e, x)
    PROVE  Shown(e, x)'
<1>1. PICK i \in 1 .. Len(history[e]) : history[e][i] \in Shows(x)
  BY DEF Shown
<1>2. Len(history[e]) \in Nat /\ Len(history'[e]) \in Nat
  BY HistoryType DEF IInv, DataOK, Ledger!TypeOK
<1>3. i \in 1 .. Len(history'[e]) /\ history'[e][i] \in Shows(x)
  BY <1>1, <1>2 DEF LedgerGrows
<1> QED
  BY <1>3 DEF Shown, Shows

LEMMA InitTruth == Init => TruthInv
<1> SUFFICES ASSUME Init PROVE TruthInv
  OBVIOUS
<1>1. \A e \in EventId : records[e].oid = Ledger!NoOrder /\ StatusOf(e) = Ledger!Unknown
  BY DEF Init, Ledger!Init, StatusOf
<1>2. IdsUnique
  BY <1>1, NoOrderIsNoId DEF Init, MainIdle, IdsUnique
<1>3. OrdersComplete
  BY BoundsAssumption DEF Init, NoIBOrder, OrdersComplete
<1>4. WireTruthful /\ NetTruthful /\ ExecsTruthful
  BY DEF Init, NetIdle, WireTruthful, NetTruthful, ExecsTruthful
<1>5. LedgerTruthful
  BY <1>1 DEF LedgerTruthful, Explained, Audited
<1> QED
  BY <1>2, <1>3, <1>4, <1>5 DEF TruthInv

\* The main thread, as seen from the other steps.
LEMMA MainStays ==
    ASSUME [Next]_vars
    PROVE  \/ main' = main \/ main' = MainIdle
           \/ (\E e \in EventId, o \in OrderId : BeginSubmit(e, o)) \/ CheckSubmission
           \/ WriteSubmission \/ PlaceOrder
BY DEF Next, vars, process, budget, Main, Network, Broker, ReserveExecution, StopWaiting,
   ReceiveStatus, ReceiveExecution, CallbackRaises, WriteStatus, RecordExecutionId,
   CriticalError, BrokerAccepts, BrokerFills, BrokerCancels, BrokerRejects, Disconnect,
   Reconnect, Crash, Restart

LEMMA IdsUniqueStep ==
    ASSUME IInv, TruthInv, [Next]_vars
    PROVE  IdsUnique'
<1>0. IdsUnique
  BY DEF TruthInv
<1>m. MainIdle.step = "idle" /\ main \in MainThread
  BY DEF MainIdle, IInv, DataOK
<1>1. CASE \E e \in EventId : ReserveExecution(e)
  BY <1>0, <1>1, <1>m, ReserveEffect DEF IdsUnique
<1>2. CASE WriteSubmission
  <2>1. \A e \in EventId : records[e].oid # main.o
    BY <1>0, <1>2, SubmissionEffect DEF IdsUnique
  <2>2. main'.step \in {"marked", "idle"}
        /\ (main'.step = "marked" => main'.e = main.e /\ main.to = "Submitted")
    BY <1>2, <1>m, SubmissionEffect DEF MainThread
  <2> QED
    BY <1>0, <1>2, <2>1, <2>2, SubmissionEffect, NoOrderIsNoId DEF IdsUnique, StatusOf
<1>3. CASE WriteStatus
  <2>1. main.step = "marked" => main.e # net.e
    <3>1. orders[records[net.e].oid].e = net.e /\ net.e \in EventId
      BY <1>3, StatusEffect DEF TruthInv, NetTruthful, Backed
    <3> QED
      BY <3>1, NoEventAssumption DEF IInv, MainOwnsSubmission
  <2>2. main.step = "marked" => main.e \in EventId
    BY DEF IInv, MainOwnsSubmission
  <2> QED
    BY <1>0, <1>3, <2>1, <2>2, StatusEffect DEF IdsUnique, StatusOf
<1>4. CASE UNCHANGED <<records, history>>
  <2>1. CASE main' = main \/ main' = MainIdle
    BY <1>0, <1>4, <1>m, <2>1 DEF IdsUnique, StatusOf
  <2>2. ASSUME NEW e \in EventId, NEW o \in OrderId, BeginSubmit(e, o) PROVE IdsUnique'
    BY <1>0, <1>4, <2>2 DEF BeginSubmit, Fresh, IdsUnique
  <2>3. CASE CheckSubmission
    BY <1>0, <1>4, <1>m, <2>3 DEF CheckSubmission, IdsUnique, MainThread
  <2>4. CASE PlaceOrder
    BY <1>0, <1>4, <2>4, Placed DEF IdsUnique
  <2>5. CASE WriteSubmission
    BY <1>2, <2>5
  <2> QED
    BY <2>1, <2>2, <2>3, <2>4, <2>5, MainStays
<1> QED
  BY <1>1, <1>2, <1>3, <1>4, RecordCases

LEMMA OrdersCompleteStep ==
    ASSUME IInv, TruthInv, [Next]_vars
    PROVE  OrdersComplete'
<1>0. OrdersComplete
  BY DEF TruthInv
<1>1. CASE orders' = orders
  BY <1>0, <1>1 DEF OrdersComplete
<1>2. CASE PlaceOrder
  <2>1. 0 < Quantity
    BY BoundsAssumption
  <2> QED
    BY <1>0, <1>2, <2>1, Placed DEF OrdersComplete
<1>3. CASE Broker
  <2>1. PICK o \in OrderId :
            BrokerAccepts(o) \/ BrokerFills(o) \/ BrokerCancels(o) \/ BrokerRejects(o)
    BY <1>3 DEF Broker
  <2> QED
    BY <1>0, <2>1, BrokerMoves, BoundsAssumption DEF OrdersComplete
<1> QED
  BY <1>1, <1>2, <1>3, OrderCases

LEMMA WireCases ==
    ASSUME IInv, [Next]_vars
    PROVE  wire' \subseteq wire \/ Broker \/ Reconnect
BY DEF Next, vars, durable, process, budget, Main, Network, ReserveExecution, BeginSubmit,
   CheckSubmission, WriteSubmission, PlaceOrder, StopWaiting, ReceiveStatus,
   ReceiveExecution, CallbackRaises, WriteStatus, RecordExecutionId, CriticalError,
   Disconnect, Crash, Restart

\* What IB says of an order, in one message.
Says(m) ==
    /\ orders[m.o].state # "None"
    /\ m.filled <= orders[m.o].filled
    /\ m.kind = "Filled" => orders[m.o].state = "Filled"
    /\ m.kind \in {"Cancelled", "Error202"} => orders[m.o].state = "Cancelled"
    /\ m.kind = "Error201" => orders[m.o].state = "Rejected"

LEMMA WireTruthfulStep ==
    ASSUME IInv, TruthInv, [Next]_vars, IInv'
    PROVE  WireTruthful'
<1>0. \A m \in wire : Says(m) /\ m \in Callback
  BY DEF TruthInv, WireTruthful, Says, IInv, DataOK
<1>1. ASSUME NEW m \in wire PROVE Says(m)'
  <2>1. Says(m) /\ m.o \in OrderId /\ m.filled \in 0 .. Quantity
    BY <1>0 DEF Callback
  <2>2. /\ orders[m.o].e # NoEvent
        /\ orders[m.o].filled \in 0 .. Quantity /\ orders'[m.o].filled \in 0 .. Quantity
    BY <2>1, NoEventAssumption DEF Says, TruthInv, OrdersComplete, IInv, DataOK, BrokerOrder
  <2>3. /\ orders'[m.o].filled >= orders[m.o].filled /\ orders'[m.o].state # "None"
        /\ orders[m.o].state # "Working" => orders'[m.o].state = orders[m.o].state
    BY <2>1, <2>2, OrdersGrowStep DEF OrdersGrow
  <2>4. m.filled <= orders'[m.o].filled
    BY <2>1, <2>2, <2>3, BoundsAssumption DEF Says
  <2> QED
    BY <2>1, <2>3, <2>4 DEF Says
<1>2. SUFFICES ASSUME NEW m \in wire' PROVE Says(m)'
  BY DEF WireTruthful, Says
<1>3. CASE wire' \subseteq wire
  BY <1>1, <1>3
<1>4. CASE Broker
  <2>1. PICK o \in OrderId :
            BrokerAccepts(o) \/ BrokerFills(o) \/ BrokerCancels(o) \/ BrokerRejects(o)
    BY <1>4 DEF Broker
  <2>2. orders[o].filled \in 0 .. Quantity - 1 /\ Quantity \in Nat
    BY <2>1, BrokerMoves, BoundsAssumption
  <2>3. CASE m \in wire
    BY <1>1, <2>3
  <2>4. CASE BrokerAccepts(o) /\ m \notin wire
    <3>1. m = Msg("Submitted", o, 0)
      BY <2>4 DEF BrokerAccepts, Send
    <3> QED
      BY <2>2, <2>4, <3>1, BrokerMoves DEF Msg, Says
  <2>5. CASE BrokerFills(o) /\ m \notin wire
    <3>1. m \in {Msg("Exec", o, orders[o].filled + 1),
                 Msg(IF orders[o].filled + 1 = Quantity THEN "Filled" ELSE "Submitted",
                     o, orders[o].filled + 1)}
      BY <2>5 DEF BrokerFills, Send
    <3>2. /\ orders'[o].filled = orders[o].filled + 1
          /\ orders'[o].state = IF orders[o].filled + 1 = Quantity THEN "Filled" ELSE "Working"
      <4>1. orders' = [orders EXCEPT ![o] =
                [e |-> orders[o].e, filled |-> orders[o].filled + 1,
                 state |-> IF orders[o].filled + 1 = Quantity THEN "Filled" ELSE "Working"]]
        BY <2>5 DEF BrokerFills
      <4> QED
        BY <4>1 DEF IInv, DataOK
    <3> QED
      BY <2>2, <3>1, <3>2 DEF Msg, Says
  <2>6. CASE BrokerCancels(o) /\ m \notin wire
    <3>1. m \in {Msg("Cancelled", o, orders[o].filled), Msg("Error202", o, 0)}
      BY <2>6 DEF BrokerCancels, Send
    <3>2. orders'[o].filled = orders[o].filled /\ orders'[o].state = "Cancelled"
      BY <2>6 DEF BrokerCancels, IInv, DataOK, BrokerOrder
    <3> QED
      BY <2>2, <3>1, <3>2 DEF Msg, Says
  <2>7. CASE BrokerRejects(o) /\ m \notin wire
    <3>1. m = Msg("Error201", o, 0)
      BY <2>7 DEF BrokerRejects, Send
    <3>2. orders'[o].filled = orders[o].filled /\ orders'[o].state = "Rejected"
      BY <2>7 DEF BrokerRejects, IInv, DataOK, BrokerOrder
    <3> QED
      BY <2>2, <3>1, <3>2 DEF Msg, Says
  <2> QED
    BY <2>1, <2>3, <2>4, <2>5, <2>6, <2>7
<1>5. CASE Reconnect
  <2>1. PICK o \in OrderId : orders[o].state = "Working" /\ orders' = orders
                             /\ m = Msg("Submitted", o, orders[o].filled)
    BY <1>5 DEF Reconnect
  <2>2. orders[o].filled \in Int
    BY <2>1 DEF IInv, DataOK, BrokerOrder
  <2> QED
    BY <2>1, <2>2 DEF Msg, Says
<1> QED
  BY <1>3, <1>4, <1>5, WireCases

\* The order a callback speaks of is that of the one record that carries its id.
LEMMA OwnerOfMessage ==
    ASSUME IInv, TruthInv, NEW m \in wire, NEW e \in Owner(m.o)
    PROVE  /\ e \in EventId /\ records[e].oid = m.o /\ m.o \in OrderId
           /\ orders[m.o].e = e /\ m.filled \in 0 .. Quantity
           /\ orders[m.o].filled \in 0 .. Quantity
<1>1. e \in EventId /\ records[e].oid = m.o /\ m.o \in OrderId /\ m.filled \in 0 .. Quantity
  BY DEF Owner, IInv, DataOK, Callback
<1>2. orders[m.o].e \in EventId /\ orders[m.o].filled \in 0 .. Quantity
  BY <1>1 DEF TruthInv, WireTruthful, OrdersComplete, IInv, DataOK, BrokerOrder
<1>3. records[orders[m.o].e].oid = m.o
  BY <1>1, <1>2, NoEventAssumption DEF IInv, SubmittedBeforeBroker
<1> QED
  BY <1>1, <1>2, <1>3 DEF TruthInv, IdsUnique

\* What the network thread is about to write is so.
LEMMA ReceiveStatusTruth ==
    ASSUME IInv, TruthInv, NEW m \in wire, ReceiveStatus(m)
    PROVE  /\ net'.step = "write" /\ net'.x = NoExec /\ net'.e \in EventId
           /\ Backed(net'.e, net'.to)
<1>0. PICK e \in Owner(m.o) : \E s \in StatusWrites(m, StatusOf(e)) :
          net' = [step |-> "write", e |-> e, to |-> s, x |-> NoExec]
  BY DEF ReceiveStatus
<1>1. PICK s \in StatusWrites(m, StatusOf(e)) :
          net' = [step |-> "write", e |-> e, to |-> s, x |-> NoExec]
  BY <1>0
<1>2. /\ e \in EventId /\ records[e].oid = m.o /\ m.o \in OrderId
      /\ orders[m.o].e = e /\ m.filled \in 0 .. Quantity
      /\ orders[m.o].filled \in 0 .. Quantity
  BY OwnerOfMessage
<1>3. /\ m.filled <= orders[m.o].filled
      /\ m.kind = "Filled" => orders[m.o].state = "Filled"
      /\ m.kind \in {"Cancelled", "Error202"} => orders[m.o].state = "Cancelled"
      /\ m.kind = "Error201" => orders[m.o].state = "Rejected"
      /\ m.kind \in {"Submitted", "Filled", "Cancelled", "Exec", "Error201", "Error202"}
  BY DEF TruthInv, WireTruthful, IInv, DataOK, Callback
<1>4. /\ s \in {"Filled", "Cancelled", "Rejected"} => orders[m.o].state = s
      /\ s = "PartiallyFilled" => orders[m.o].filled > 0
  <2>1. CASE m.kind \in {"Submitted", "Filled", "Cancelled"}
    <3>1. s = DesiredStatus(m)
      BY <1>1, <2>1 DEF StatusWrites
    <3>2. s = "PartiallyFilled" => 0 < m.filled
      BY <2>1, <3>1 DEF DesiredStatus
    <3>3. /\ s = "Filled" => m.kind = "Filled"
          /\ s = "Cancelled" => m.kind = "Cancelled"
          /\ s # "Rejected"
      BY <2>1, <3>1 DEF DesiredStatus
    <3> QED
      BY <1>2, <1>3, <3>2, <3>3, BoundsAssumption
  <2>2. CASE m.kind \in {"Error201", "Error202", "Exec"}
    <3>1. (m.kind = "Error201" /\ s = "Rejected") \/ (m.kind = "Error202" /\ s = "Cancelled")
      BY <1>1, <2>2 DEF StatusWrites
    <3> QED
      BY <1>3, <3>1
  <2> QED
    BY <1>3, <2>1, <2>2
<1> QED
  BY <1>1, <1>2, <1>4 DEF Backed

LEMMA ReceiveExecutionTruth ==
    ASSUME IInv, TruthInv, NEW m \in wire, ReceiveExecution(m)
    PROVE  /\ net'.step \in {"write", "record"} /\ net'.e \in EventId /\ net'.x \in ExecId
           /\ Backed(net'.e, net'.to) /\ Executed(net'.e, net'.x) /\ net'.to \in Shows(net'.x)
           /\ net'.step = "record" => Shown(net'.e, net'.x)
<1>1. PICK e \in Owner(m.o), s \in {"Filled", "PartiallyFilled"}, step \in {"record", "write"} :
          /\ s = IF m.filled = Quantity THEN "Filled" ELSE "PartiallyFilled"
          /\ step = "record" => StatusOf(e) \in {"Filled", s}
          /\ net' = [step |-> step, e |-> e, to |-> s, x |-> <<m.o, m.filled>>]
  BY DEF ReceiveExecution
<1>2. /\ e \in EventId /\ records[e].oid = m.o /\ m.o \in OrderId
      /\ orders[m.o].e = e /\ m.filled \in 0 .. Quantity
      /\ orders[m.o].filled \in 0 .. Quantity
  BY OwnerOfMessage
<1>3. m.filled <= orders[m.o].filled /\ m.filled # 0
  BY DEF ReceiveExecution, TruthInv, WireTruthful, IInv, BrokerConsistent
<1>4. m.filled \in 1 .. Quantity
  BY <1>2, <1>3, BoundsAssumption
<1> DEFINE x == <<m.o, m.filled>>
<1>5. x \in ExecId /\ x[1] = m.o /\ x[2] = m.filled
  BY <1>2, <1>4 DEF ExecId
<1>6. s \in Shows(x)
  BY <1>1, <1>5 DEF Shows
<1>7. Backed(e, s)
  <2>1. m.filled = Quantity => orders[m.o].filled = Quantity
    BY <1>2, <1>3, BoundsAssumption
  <2>2. m.filled = Quantity => orders[m.o].state = "Filled"
    BY <1>2, <2>1, BoundsAssumption DEF TruthInv, OrdersComplete
  <2>3. orders[m.o].filled > 0
    BY <1>2, <1>3, <1>4, BoundsAssumption
  <2> QED
    BY <1>1, <1>2, <2>2, <2>3 DEF Backed
<1>8. Executed(e, x)
  BY <1>2, <1>3, <1>4, <1>5 DEF Executed
<1>9. step = "record" => Shown(e, x)
  <2> SUFFICES ASSUME step = "record" PROVE Shown(e, x)
    OBVIOUS
  <2>1. StatusOf(e) \in {"Filled", s} /\ StatusOf(e) # Ledger!Unknown
    BY <1>1 DEF Ledger!Unknown
  <2>2. PICK i \in 1 .. Len(history[e]) : history[e][i] = StatusOf(e)
    BY <1>2, <2>1 DEF TruthInv, LedgerTruthful, Audited
  <2>3. StatusOf(e) \in Shows(x)
    BY <1>1, <1>6, <2>1 DEF Shows
  <2> QED
    BY <2>2, <2>3 DEF Shown
<1> QED
  BY <1>1, <1>2, <1>5, <1>6, <1>7, <1>8, <1>9

LEMMA NetCases ==
    ASSUME [Next]_vars
    PROVE  \/ net' = net \/ net' = NetIdle \/ WriteStatus
           \/ \E m \in wire : ReceiveStatus(m) \/ ReceiveExecution(m)
BY DEF Next, vars, durable, process, budget, Main, Network, Broker, ReserveExecution,
   BeginSubmit, CheckSubmission, WriteSubmission, PlaceOrder, StopWaiting, CallbackRaises,
   RecordExecutionId, CriticalError, BrokerAccepts, BrokerFills, BrokerCancels,
   BrokerRejects, Disconnect, Reconnect, Crash, Restart

LEMMA NetTruthfulStep ==
    ASSUME IInv, TruthInv, [Next]_vars, IInv'
    PROVE  NetTruthful'
<1>0. NetTruthful /\ OrdersGrow /\ LedgerGrows
  BY OrdersGrowStep, LedgerGrowsStep DEF TruthInv
<1>1. CASE net' = net
  <2>1. ASSUME net.step = "write" PROVE Backed(net.e, net.to)'
    <3>1. PICK e \in EventId, s \in Ledger!Status \cup {Ledger!Unknown} : e = net.e /\ s = net.to
      BY <2>1 DEF IInv, NetOwnsTransition, DataOK, NetThread
    <3>2. Backed(e, s)'
      BY <1>0, <2>1, <3>1, BackedStays DEF NetTruthful
    <3> QED
      BY <1>1, <3>1, <3>2 DEF Backed
  <2>2. ASSUME (net.step = "write" /\ net.x # NoExec) \/ net.step = "record"
        PROVE  /\ net.x \in ExecId /\ net.e \in EventId
               /\ Executed(net.e, net.x)'
               /\ net.step = "record" => Shown(net.e, net.x)'
    <3>1. net.x \in ExecId /\ net.e \in EventId /\ Executed(net.e, net.x)
          /\ (net.step = "record" => Shown(net.e, net.x))
      BY <1>0, <2>2 DEF NetTruthful, IInv, NetOwnsTransition
    <3>2. PICK e \in EventId, x \in ExecId : e = net.e /\ x = net.x
      BY <3>1
    <3>3. Executed(e, x)' /\ (net.step = "record" => Shown(e, x)')
      BY <1>0, <3>1, <3>2, ExecutedStays, ShownStays
    <3> QED
      BY <1>1, <3>1, <3>2, <3>3 DEF Executed, Shown, Shows
  <2> QED
    BY <1>0, <1>1, <2>1, <2>2 DEF NetTruthful, Shows, NoExec
<1>2. CASE net' = NetIdle
  BY <1>2 DEF NetTruthful, NetIdle
<1>3. CASE WriteStatus
  <2>1. CASE net.x = NoExec
    BY <1>2, <1>3, <2>1, StatusEffect
  <2>2. CASE net.x # NoExec
    <3>1. /\ net.step = "write" /\ net.e \in EventId /\ net.x \in ExecId
          /\ Executed(net.e, net.x) /\ net.to \in Shows(net.x)
      BY <1>0, <1>3, <2>2, StatusEffect DEF NetTruthful
    <3>2. PICK e \in EventId, x \in ExecId : e = net.e /\ x = net.x
      BY <3>1
    <3>3. net'.step = "record" /\ net'.e = e /\ net'.x = x
      BY <1>3, <2>2, <3>2, StatusEffect DEF IInv, DataOK, NetThread
    <3>4. Executed(e, x)'
      BY <1>0, <3>1, <3>2, ExecutedStays
    <3>5. Shown(e, x)'
      <4>1. /\ Len(history'[e]) = Len(history[e]) + 1
            /\ history'[e][Len(history[e]) + 1] \in Shows(x)
        BY <1>3, <3>1, <3>2, StatusEffect
      <4>2. Len(history[e]) + 1 \in 1 .. Len(history'[e])
        BY <4>1, HistoryType
      <4> QED
        BY <4>1, <4>2 DEF Shown, Shows
    <3> QED
      BY <3>3, <3>4, <3>5 DEF NetTruthful, Executed, Shown, Shows
  <2> QED
    BY <2>1, <2>2
<1>4. ASSUME NEW m \in wire, ReceiveStatus(m) PROVE NetTruthful'
  <2>1. /\ net'.step = "write" /\ net'.x = NoExec /\ net'.e \in EventId
        /\ Backed(net'.e, net'.to)
    BY <1>4, ReceiveStatusTruth
  <2>2. PICK e \in EventId, s \in {net'.to} : e = net'.e
    BY <2>1
  <2>3. Backed(e, s)'
    BY <1>0, <2>1, <2>2, BackedStays
  <2> QED
    BY <2>1, <2>2, <2>3 DEF NetTruthful, Backed, NoExec
<1>5. ASSUME NEW m \in wire, ReceiveExecution(m) PROVE NetTruthful'
  <2>1. /\ net'.step \in {"write", "record"} /\ net'.e \in EventId /\ net'.x \in ExecId
        /\ Backed(net'.e, net'.to) /\ Executed(net'.e, net'.x) /\ net'.to \in Shows(net'.x)
        /\ net'.step = "record" => Shown(net'.e, net'.x)
    BY <1>5, ReceiveExecutionTruth
  <2>2. PICK e \in EventId, x \in ExecId, s \in {net'.to} : e = net'.e /\ x = net'.x
    BY <2>1
  <2>3. Backed(e, s)' /\ Executed(e, x)' /\ (net'.step = "record" => Shown(e, x)')
    BY <1>0, <2>1, <2>2, BackedStays, ExecutedStays, ShownStays
  <2> QED
    BY <2>1, <2>2, <2>3 DEF NetTruthful, Backed, Executed, Shown, Shows
<1> QED
  BY <1>1, <1>2, <1>3, <1>4, <1>5, NetCases

LEMMA LedgerTruthfulStep ==
    ASSUME IInv, TruthInv, [Next]_vars, IInv'
    PROVE  LedgerTruthful'
<1>0. LedgerTruthful /\ OrdersGrow /\ LedgerGrows
  BY OrdersGrowStep, LedgerGrowsStep DEF TruthInv
\* A record that is not written.
<1>1. ASSUME NEW e \in EventId, records'[e] = records[e], history'[e] = history[e]
      PROVE  Explained(e)' /\ Audited(e)'
  <2>1. PICK s \in {records[e].status} : TRUE
    OBVIOUS
  <2>2. StatusOf(e) = s /\ StatusOf(e)' = s
    BY <1>1, <2>1 DEF StatusOf
  <2>3. Audited(e)'
    BY <1>0, <1>1, <2>2 DEF LedgerTruthful, Audited
  <2>4. CASE Backed(e, s)
    <3>1. Backed(e, s)'
      BY <1>0, <2>4, BackedStays
    <3> QED
      BY <2>2, <2>3, <3>1 DEF Explained, Backed
  <2>5. CASE ~ Backed(e, s)
    <3>1. s \in {Ledger!Unknown, "Reserved", "Submitted"}
          \/ (s = "Rejected" /\ records[e].oid = Ledger!NoOrder)
      BY <1>0, <2>2, <2>5 DEF LedgerTruthful, Explained
    <3> QED
      BY <1>1, <2>2, <2>3, <3>1 DEF Explained, Ledger!Unknown, Ledger!NoOrder
  <2> QED
    BY <2>4, <2>5
\* One that is.
<1>2. ASSUME NEW e \in EventId, NEW s, records'[e].status = s,
             Len(history'[e]) = Len(history[e]) + 1,
             history'[e][Len(history[e]) + 1] = s
      PROVE  StatusOf(e)' = s /\ Audited(e)'
  <2>1. Len(history[e]) + 1 \in 1 .. Len(history'[e])
    BY <1>2, HistoryType
  <2> QED
    BY <1>2, <2>1 DEF StatusOf, Audited
<1>3. CASE UNCHANGED <<records, history>>
  BY <1>1, <1>3 DEF LedgerTruthful
<1>4. ASSUME NEW e \in EventId, ReserveExecution(e) PROVE LedgerTruthful'
  <2>1. StatusOf(e)' = "Reserved" /\ Audited(e)'
    BY <1>2, <1>4, ReserveEffect
  <2>2. Explained(e)'
    BY <2>1 DEF Explained
  <2>3. \A f \in EventId \ {e} : records'[f] = records[f] /\ history'[f] = history[f]
    BY <1>4, ReserveEffect
  <2> QED
    BY <1>1, <2>1, <2>2, <2>3 DEF LedgerTruthful
<1>5. CASE WriteSubmission
  <2>1. PICK e \in EventId, s \in {main.to} : e = main.e
    BY <1>5, SubmissionEffect
  <2>2. StatusOf(e)' = s /\ Audited(e)'
    BY <1>2, <1>5, <2>1, SubmissionEffect
  <2>3. s = "Submitted" \/ (s = "Rejected" /\ records'[e].oid = Ledger!NoOrder)
    BY <1>5, <2>1, SubmissionEffect
  <2>4. Explained(e)'
    BY <2>2, <2>3 DEF Explained, Ledger!NoOrder
  <2>5. \A f \in EventId \ {e} : records'[f] = records[f] /\ history'[f] = history[f]
    BY <1>5, <2>1, SubmissionEffect
  <2> QED
    BY <1>1, <2>2, <2>4, <2>5 DEF LedgerTruthful
<1>6. CASE WriteStatus
  <2>1. PICK e \in EventId, s \in {net.to} : e = net.e
    BY <1>6, StatusEffect
  <2>2. StatusOf(e)' = s /\ Audited(e)'
    BY <1>2, <1>6, <2>1, StatusEffect
  <2>3. Backed(e, s)
    BY <1>6, <2>1, StatusEffect DEF TruthInv, NetTruthful
  <2>4. Backed(e, s)'
    BY <1>0, <2>3, BackedStays
  <2>5. Explained(e)'
    BY <2>2, <2>4 DEF Explained, Backed
  <2>6. \A f \in EventId \ {e} : records'[f] = records[f] /\ history'[f] = history[f]
    BY <1>6, <2>1, StatusEffect
  <2> QED
    BY <1>1, <2>2, <2>5, <2>6 DEF LedgerTruthful
<1> QED
  BY <1>3, <1>4, <1>5, <1>6, RecordCases

LEMMA ExecsTruthfulStep ==
    ASSUME IInv, TruthInv, [Next]_vars, IInv'
    PROVE  ExecsTruthful'
<1>0. ExecsTruthful /\ OrdersGrow /\ LedgerGrows /\ execIds \subseteq ExecId
  BY OrdersGrowStep, LedgerGrowsStep DEF TruthInv, IInv, DataOK
<1>1. ASSUME NEW x \in ExecId, NEW e \in EventId, Executed(e, x), Shown(e, x)
      PROVE  Executed(e, x)' /\ Shown(e, x)'
  BY <1>0, <1>1, ExecutedStays, ShownStays
<1>2. execIds' = execIds \/ RecordExecutionId
  BY DEF Next, vars, durable, process, budget, Main, Network, Broker, ReserveExecution,
     BeginSubmit, CheckSubmission, WriteSubmission, PlaceOrder, StopWaiting, ReceiveStatus,
     ReceiveExecution, CallbackRaises, WriteStatus, CriticalError, BrokerAccepts,
     BrokerFills, BrokerCancels, BrokerRejects, Disconnect, Reconnect, Crash, Restart
<1>3. \A x \in execIds' : x \in ExecId /\ \E e \in EventId : Executed(e, x) /\ Shown(e, x)
  <2>1. CASE RecordExecutionId
    <3>1. /\ net.e \in EventId /\ net.x \in ExecId
          /\ Executed(net.e, net.x) /\ Shown(net.e, net.x) /\ execIds' = execIds \cup {net.x}
      BY <2>1 DEF RecordExecutionId, TruthInv, NetTruthful, IInv, NetOwnsTransition
    <3> QED
      BY <1>0, <3>1 DEF ExecsTruthful
  <2> QED
    BY <1>0, <1>2, <2>1 DEF ExecsTruthful
<1> QED
  BY <1>1, <1>3 DEF ExecsTruthful

LEMMA StepTruth == IInv /\ TruthInv /\ [Next]_vars => TruthInv'
<1> SUFFICES ASSUME IInv, TruthInv, [Next]_vars PROVE TruthInv'
  OBVIOUS
<1>1. IInv'
  BY StepIInv
<1> QED
  BY <1>1, IdsUniqueStep, OrdersCompleteStep, WireTruthfulStep, NetTruthfulStep,
     LedgerTruthfulStep, ExecsTruthfulStep DEF TruthInv

\* Every variable keeps its type, for every set of events and order ids.
THEOREM SpecTypeOK == Spec => []TypeOK
<1>1. Init => IInv /\ FlagsOK
  BY InitIInv DEF Init, FlagsOK
<1>2. IInv /\ FlagsOK /\ [Next]_vars => (IInv /\ FlagsOK)'
  BY StepIInv, FlagsStep
<1>3. IInv /\ FlagsOK => TypeOK
  BY DEF IInv, DataOK, TypeOK
<1> QED
  BY <1>1, <1>2, <1>3, PTL DEF Spec

\* IB never holds an order the ledger does not know as submitted under its
\* id, whatever crashes, drops and callbacks come in between.
THEOREM SpecSubmittedBeforeBroker == Spec => []SubmittedBeforeBroker
<1>1. IInv /\ [Next]_vars => IInv'
  BY StepIInv
<1>2. IInv => SubmittedBeforeBroker
  BY DEF IInv
<1> QED
  BY <1>1, <1>2, InitIInv, PTL DEF Spec

\* An Eagle event never gets two broker orders: both would have to be under
\* the one order id of its record.
THEOREM SpecOneOrderPerEvent == Spec => []OneOrderPerEvent
<1>1. SubmittedBeforeBroker => OneOrderPerEvent
  BY DEF SubmittedBeforeBroker, OneOrderPerEvent
<1> QED
  BY <1>1, SpecSubmittedBeforeBroker, PTL

\* The two threads, with transitions split into a check and a write, implement
\* the execution ledger whose transitions are atomic.
THEOREM SpecImplementsLedger == Spec => ImplementsLedger
<1>1. Init => Ledger!Init
  BY DEF Init
<1>2. IInv /\ [Next]_vars => IInv' /\ [Ledger!Next]_(Ledger!vars)
  BY StepIInv
<1> QED
  BY <1>1, <1>2, InitIInv, PTL DEF Spec, ImplementsLedger, Ledger!Spec

\* The ledger never runs ahead of IB and never contradicts it: a status that
\* the callbacks wrote is so at IB, although they arrive late, twice, in any
\* order or from before a crash, and although a transition does not look at
\* the record again when it writes.
THEOREM SpecLedgerFollowsBroker == Spec => []LedgerFollowsBroker
<1>1. IInv /\ [Next]_vars => IInv'
  BY StepIInv
<1>2. IInv /\ TruthInv => LedgerFollowsBroker
  <2> SUFFICES ASSUME IInv, TruthInv, NEW e \in EventId
               PROVE  LET b == IF records[e].oid \in OrderId THEN orders[records[e].oid]
                               ELSE NoIBOrder
                      IN  /\ StatusOf(e) = "Filled" => b.state = "Filled" /\ b.filled = Quantity
                          /\ StatusOf(e) = "Cancelled" => b.state = "Cancelled"
                          /\ StatusOf(e) = "Rejected" => b.state \in {"None", "Rejected"}
                          /\ StatusOf(e) = "PartiallyFilled" => b.filled > 0
                          /\ StatusOf(e) \notin {Ledger!Unknown, "Reserved", "Submitted", "Rejected"}
                                => b.e = e
    BY DEF LedgerFollowsBroker
  <2>1. Explained(e)
    BY DEF TruthInv, LedgerTruthful
  <2>2. CASE Backed(e, StatusOf(e))
    BY <2>2 DEF Backed, TruthInv, OrdersComplete
  <2>3. CASE StatusOf(e) = "Rejected" /\ records[e].oid = Ledger!NoOrder
    BY <2>3, NoOrderIsNoId DEF NoIBOrder
  <2>4. CASE StatusOf(e) \in {Ledger!Unknown, "Reserved", "Submitted"}
    BY <2>4 DEF Ledger!Unknown
  <2> QED
    BY <2>1, <2>2, <2>3, <2>4 DEF Explained
<1> QED
  BY <1>1, <1>2, InitIInv, InitTruth, StepTruth, PTL DEF Spec

\* An execution id is recorded only once the ledger shows the fill it stands
\* for: a crash between the two transactions repeats the callback.
THEOREM SpecExecIdsAreBacked == Spec => []ExecIdsAreBacked
<1>1. IInv /\ [Next]_vars => IInv'
  BY StepIInv
<1>2. IInv /\ TruthInv => ExecIdsAreBacked
  BY DEF TruthInv, ExecsTruthful, Executed, Shown, Shows, ExecIdsAreBacked, Owner
<1> QED
  BY <1>1, <1>2, InitIInv, InitTruth, StepTruth, PTL DEF Spec

-----------------------------------------------------------------------------
(* What is proved of the ledger holds in the two threads.                  *)

LedgerProofs == INSTANCE ExecutionLedgerProofs

LEMMA SpecLedgerProofs == Spec => LedgerProofs!Spec
<1>1. Ledger!Init => LedgerProofs!Init
  BY DEF Ledger!Init, LedgerProofs!Init, Ledger!Unknown, LedgerProofs!Unknown,
     Ledger!NoOrder, LedgerProofs!NoOrder
<1>2. [Ledger!Next]_(Ledger!vars) => [LedgerProofs!Next]_(LedgerProofs!vars)
  BY DEF Ledger!Next, LedgerProofs!Next, Ledger!vars, LedgerProofs!vars,
     Ledger!Reserve, LedgerProofs!Reserve, Ledger!MarkSubmitted, LedgerProofs!MarkSubmitted,
     Ledger!Mark, LedgerProofs!Mark, Ledger!Transition, LedgerProofs!Transition,
     Ledger!Allowed, LedgerProofs!Allowed, Ledger!Write, LedgerProofs!Write,
     Ledger!Unknown, LedgerProofs!Unknown, Ledger!NoOrder, LedgerProofs!NoOrder,
     Ledger!Status, LedgerProofs!Status, Ledger!Terminal, LedgerProofs!Terminal
<1> QED
  BY <1>1, <1>2, SpecImplementsLedger, PTL
     DEF ImplementsLedger, Ledger!Spec, LedgerProofs!Spec

\* Although a transition reads the record in one SQLite connection and writes
\* it in another, the audit history of every record explains its status.
THEOREM SpecHistoryExplainsRecord == Spec => []Ledger!HistoryExplainsRecord
<1>1. LedgerProofs!Spec => []LedgerProofs!HistoryExplainsRecord
  BY LedgerProofs!SpecHistoryExplainsRecord, OrderIdAssumption, BoundsAssumption
<1>2. LedgerProofs!HistoryExplainsRecord => Ledger!HistoryExplainsRecord
  BY DEF Ledger!HistoryExplainsRecord, LedgerProofs!HistoryExplainsRecord,
     Ledger!Unknown, LedgerProofs!Unknown, Ledger!Allowed, LedgerProofs!Allowed,
     Ledger!Terminal, LedgerProofs!Terminal
<1> QED
  BY <1>1, <1>2, SpecLedgerProofs, PTL

\* A status only the broker can have caused carries the order id by which its
\* callbacks find the record, and a reservation carries none.
THEOREM SpecBrokerStateHasOrderId == Spec => []Ledger!BrokerStateHasOrderId
<1>1. LedgerProofs!Spec => []LedgerProofs!BrokerStateHasOrderId
  BY LedgerProofs!SpecBrokerStateHasOrderId, OrderIdAssumption, BoundsAssumption
<1>2. LedgerProofs!BrokerStateHasOrderId => Ledger!BrokerStateHasOrderId
  BY DEF Ledger!BrokerStateHasOrderId, LedgerProofs!BrokerStateHasOrderId,
     Ledger!Unknown, LedgerProofs!Unknown, Ledger!NoOrder, LedgerProofs!NoOrder
<1> QED
  BY <1>1, <1>2, SpecLedgerProofs, PTL

\* A write does not look at the record again, and callbacks come late, twice
\* and out of order; even so a final record is never written again and no
\* record gets another order id.
THEOREM SpecRecordsAreFinal == Spec => Ledger!RecordsAreFinal
<1> DEFINE L == \A e \in EventId :
             /\ records[e].status \in Ledger!Terminal => records'[e] = records[e]
             /\ records[e].status # Ledger!Unknown => records'[e].status # Ledger!Unknown
             /\ records[e].oid # Ledger!NoOrder => records'[e].oid = records[e].oid
           P == \A e \in EventId :
             /\ records[e].status \in LedgerProofs!Terminal => records'[e] = records[e]
             /\ records[e].status # LedgerProofs!Unknown => records'[e].status # LedgerProofs!Unknown
             /\ records[e].oid # LedgerProofs!NoOrder => records'[e].oid = records[e].oid
<1>1. LedgerProofs!Spec => LedgerProofs!RecordsAreFinal
  BY LedgerProofs!SpecRecordsAreFinal, OrderIdAssumption, BoundsAssumption
<1>2. [P]_(LedgerProofs!vars) => [L]_(Ledger!vars)
  BY DEF Ledger!vars, LedgerProofs!vars, Ledger!Terminal, LedgerProofs!Terminal,
     Ledger!Unknown, LedgerProofs!Unknown, Ledger!NoOrder, LedgerProofs!NoOrder
<1> QED
  BY <1>1, <1>2, SpecLedgerProofs, PTL DEF Ledger!RecordsAreFinal, LedgerProofs!RecordsAreFinal
=============================================================================
