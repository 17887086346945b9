----------------------------- MODULE EventStore -----------------------------
(***************************************************************************)
(* The durable SQLite store of app/event_store.py: the event ids BTS has   *)
(* consumed and the sequence cursor it resumes Eagle from.                 *)
(*                                                                         *)
(* Every method of the class opens one connection and commits it as one    *)
(* transaction, so each is one action, and a crash between two calls       *)
(* leaves both variables as they are.  EventProcessor and                  *)
(* HeartbeatProcessor keep no state of their own: they forward to          *)
(* check_and_mark_event_with_seq and to mark_seq_processed.                *)
(***************************************************************************)
EXTENDS Integers

CONSTANTS
    Event,      \* Eagle event ids
    MaxSeq      \* bound: the largest sequence number Eagle hands out

ASSUME MaxSeqAssumption == MaxSeq \in Nat

SeqNo  == 0 .. MaxSeq
NoSeq  == -1                 \* sequence_state has no row yet

VARIABLES
    processed,  \* the table processed_events
    cursor,     \* the row of sequence_state
    accepted    \* history: the <<event, seq>> pairs reported ACCEPTED

storeVars == <<processed, cursor, accepted>>

StoreTypeOK ==
    /\ processed \subseteq Event
    /\ cursor \in SeqNo \cup {NoSeq}
    /\ accepted \subseteq Event \X SeqNo

StoreInit ==
    /\ processed = {}
    /\ cursor = NoSeq
    /\ accepted = {}

-----------------------------------------------------------------------------
\* Faulty variants: the sequence number alone is looked at; a repeated
\* number passes.
EligibilityBySeq(e, s) == IF s <= cursor THEN "OUT_OF_SEQUENCE" ELSE "ACCEPTED"
EligibilityAtCursor(e, s) ==
    CASE e \in processed -> "DUPLICATE_EVENT"
      [] e \notin processed /\ s < cursor -> "OUT_OF_SEQUENCE"
      [] OTHER -> "ACCEPTED"

\* check_event_with_seq: the read-only verdict, duplicates first.
Eligibility(e, s) ==
    CASE e \in processed -> "DUPLICATE_EVENT"
      [] e \notin processed /\ s <= cursor -> "OUT_OF_SEQUENCE"
      [] OTHER -> "ACCEPTED"

\* Faulty variants: the cursor is left for a second transaction; it is set to
\* the number expected next.
MarkWithoutCursor(e, s) ==
    /\ Eligibility(e, s) = "ACCEPTED"
    /\ processed' = processed \cup {e}
    /\ accepted' = accepted \cup {<<e, s>>}
    /\ UNCHANGED cursor
MarkNextSeq(e, s) ==
    /\ Eligibility(e, s) = "ACCEPTED"
    /\ processed' = processed \cup {e}
    /\ cursor' = s + 1
    /\ accepted' = accepted \cup {<<e, s>>}

\* check_and_mark_event_with_seq: id and cursor are committed together, and
\* a duplicate or an out-of-sequence event changes nothing.
CheckAndMarkEventWithSeq(e, s) ==
    /\ Eligibility(e, s) = "ACCEPTED"
    /\ processed' = processed \cup {e}
    /\ cursor' = s
    /\ accepted' = accepted \cup {<<e, s>>}

\* mark_seq_processed (heartbeats): the cursor moves only forward.
MarkSeqProcessed(s) ==
    /\ s > cursor
    /\ cursor' = s
    /\ UNCHANGED <<processed, accepted>>

\* check_and_mark_event and mark_event_processed: the id alone.
MarkEventProcessed(e) ==
    /\ e \notin processed
    /\ processed' = processed \cup {e}
    /\ UNCHANGED <<cursor, accepted>>

\* check_and_mark_seq: the cursor alone, TRUE only for a newer number.
CheckAndMarkSeq(s) ==
    /\ cursor = NoSeq \/ ~ (s <= cursor)
    /\ cursor' = s
    /\ UNCHANGED <<processed, accepted>>

StoreNext ==
    \/ \E e \in Event, s \in SeqNo : CheckAndMarkEventWithSeq(e, s)
    \/ \E s \in SeqNo : MarkSeqProcessed(s)
    \/ \E e \in Event : MarkEventProcessed(e)
    \/ \E s \in SeqNo : CheckAndMarkSeq(s)

StoreSpec == StoreInit /\ [][StoreNext]_storeVars

-----------------------------------------------------------------------------
\* No two acceptances share an event id or a sequence number, whatever mix of
\* duplicates, renumbered redeliveries and heartbeats Eagle sends: an event is
\* handed to the trading code at most once in the life of the database.
AcceptedOnce ==
    \A p, q \in accepted : p[1] = q[1] \/ p[2] = q[2] => p = q

\* Everything accepted is durable: its id is in the table, and the cursor has
\* reached its number, so a restart that asks Eagle for what follows the
\* cursor neither asks for it again nor accepts it again.
AcceptedIsDurable ==
    \A p \in accepted : p[1] \in processed /\ p[2] <= cursor

\* Acceptances come in sequence order: a later one carries a larger number
\* than every earlier one (seq, not time, orders the lifecycle).
AcceptedInOrder ==
    [][\A p \in accepted' \ accepted, q \in accepted : q[2] < p[2]]_storeVars

=============================================================================
