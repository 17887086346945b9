-------------------------- MODULE ExecutionLedger ---------------------------
(***************************************************************************)
(* The durable execution ledger of app/execution_ledger.py, and what it    *)
(* promises the rest of BTS: one record per Eagle event, which moves along *)
(* the table of allowed transitions and keeps its audit history.           *)
(*                                                                         *)
(* Here a transition is one step.  In the code it is a read in one SQLite  *)
(* connection and a write in another; IBExecution models the two apart and *)
(* is shown to implement this specification.                               *)
(***************************************************************************)
EXTENDS Integers, Sequences

CONSTANTS
    EventId,     \* Eagle event ids, the primary key
    OrderId,     \* IB order ids
    MaxHistory   \* bound: the longest audit history of one event

ASSUME OrderIdAssumption == OrderId \subseteq Nat
ASSUME MaxHistoryAssumption == MaxHistory \in Nat

Unknown == "Unknown"     \* the event has no row
Status  == {"Reserved", "Submitted", "Acknowledged", "PartiallyFilled",
            "Filled", "Cancelled", "Rejected"}
Terminal == {"Filled", "Cancelled", "Rejected"}
NoOrder == -1            \* broker_order_id is NULL

\* Faulty variant: a reservation can be cancelled without a broker order.
AllowedFromReserved(s) ==
    CASE s = "Reserved"     -> {"Submitted", "Cancelled", "Rejected"}
      [] s = "Submitted"    -> {"Acknowledged", "PartiallyFilled"} \cup Terminal
      [] s \in {"Acknowledged", "PartiallyFilled"}
                            -> {"PartiallyFilled"} \cup Terminal
      [] OTHER              -> {}

\* The table _ALLOWED_TRANSITIONS.
Allowed(s) ==
    CASE s = "Reserved"     -> {"Submitted", "Rejected"}
      [] s = "Submitted"    -> {"Acknowledged", "PartiallyFilled"} \cup Terminal
      [] s \in {"Acknowledged", "PartiallyFilled"}
                            -> {"PartiallyFilled"} \cup Terminal
      [] OTHER              -> {}

VARIABLES
    records,     \* execution_records: status and broker_order_id per event
    history      \* execution_transitions: the to_status column, in order

vars == <<records, history>>

Record == [status : Status \cup {Unknown}, oid : OrderId \cup {NoOrder}]

TypeOK ==
    /\ records \in [EventId -> Record]
    /\ history \in [EventId -> Seq(Status)]

Init ==
    /\ records = [e \in EventId |-> [status |-> Unknown, oid |-> NoOrder]]
    /\ history = [e \in EventId |-> <<>>]

-----------------------------------------------------------------------------
\* Faulty variants: the audit row holds from_status; there is no audit row; a
\* NULL order id overwrites the one recorded.
WriteFromStatus(e, s, o) ==
    /\ records' = [records EXCEPT ![e] =
            [status |-> s, oid |-> IF o = NoOrder THEN @.oid ELSE o]]
    /\ history' = [history EXCEPT ![e] = Append(@, records[e].status)]
WriteUnaudited(e, s, o) ==
    /\ records' = [records EXCEPT ![e] =
            [status |-> s, oid |-> IF o = NoOrder THEN @.oid ELSE o]]
    /\ UNCHANGED history
WriteReplacingId(e, s, o) ==
    /\ records' = [records EXCEPT ![e] = [status |-> s, oid |-> o]]
    /\ history' = [history EXCEPT ![e] = Append(@, s)]

\* The UPDATE of the record and the INSERT of its audit row, one transaction.
\* A NULL order id keeps the one already recorded.
Write(e, s, o) ==
    /\ records' = [records EXCEPT ![e] =
            [status |-> s, oid |-> IF o = NoOrder THEN @.oid ELSE o]]
    /\ history' = [history EXCEPT ![e] = Append(@, s)]

\* reserve: the INSERT fails on an event that already has a row.
Reserve(e) ==
    /\ records[e].status = Unknown
    /\ Write(e, "Reserved", NoOrder)

\* transition: rejected unless the table allows it.
Transition(e, s, o) ==
    /\ s \in Allowed(records[e].status)
    /\ Len(history[e]) < MaxHistory
    /\ Write(e, s, o)

\* mark_submitted is the only method that supplies an order id.
MarkSubmitted(e, o) == Transition(e, "Submitted", o)

\* mark_acknowledged, mark_partially_filled, mark_filled, mark_cancelled and
\* mark_rejected.
Mark(e, s) == s # "Submitted" /\ Transition(e, s, NoOrder)

Next ==
    \/ \E e \in EventId : Reserve(e)
    \/ \E e \in EventId, o \in OrderId : MarkSubmitted(e, o)
    \/ \E e \in EventId, s \in Status : Mark(e, s)

Spec == Init /\ [][Next]_vars

-----------------------------------------------------------------------------
\* The audit history explains the record: it starts with the reservation,
\* every entry is reachable from the one before it, and the last entry is the
\* current status.  An event without a row has no history.
HistoryExplainsRecord ==
    \A e \in EventId :
        /\ records[e].status = Unknown <=> history[e] = <<>>
        /\ history[e] # <<>> =>
              /\ history[e][1] = "Reserved"
              /\ history[e][Len(history[e])] = records[e].status
        /\ \A i \in 1 .. Len(history[e]) - 1 :
              history[e][i + 1] \in Allowed(history[e][i])

\* A status that only the broker can have caused carries the order id under
\* which the broker knows the order, so its callbacks can find the record; a
\* reservation that never left BTS carries none.
BrokerStateHasOrderId ==
    \A e \in EventId :
        /\ records[e].status \in
              {"Submitted", "Acknowledged", "PartiallyFilled",
               "Filled", "Cancelled"} => records[e].oid # NoOrder
        /\ records[e].status \in {Unknown, "Reserved"} => records[e].oid = NoOrder

\* A terminal record is final: no later call changes its status or order id,
\* and no record is ever deleted or given another order id.
RecordsAreFinal ==
    [][\A e \in EventId :
          /\ records[e].status \in Terminal => records'[e] = records[e]
          /\ records[e].status # Unknown => records'[e].status # Unknown
          /\ records[e].oid # NoOrder => records'[e].oid = records[e].oid]_vars

=============================================================================
