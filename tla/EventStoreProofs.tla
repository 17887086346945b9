-------------------------- MODULE EventStoreProofs --------------------------
(***************************************************************************)
(* What the event store guarantees for every set of event ids and every    *)
(* bound on the sequence numbers.                                          *)
(***************************************************************************)
EXTENDS EventStore, TLAPS

\* The inductive invariant: neither AcceptedOnce nor AcceptedIsDurable is
\* inductive alone.  A new acceptance cannot share an id or a number with an
\* earlier one because the earlier ids are in the table and the earlier
\* numbers at or below the cursor.
IInv == StoreTypeOK /\ AcceptedOnce /\ AcceptedIsDurable

\* Shared by every step: the verdict ACCEPTED means a new id and a number
\* above the cursor.
LEMMA AcceptedVerdict ==
    ASSUME StoreTypeOK, NEW e \in Event, NEW s \in SeqNo,
           Eligibility(e, s) = "ACCEPTED"
    PROVE  e \notin processed /\ cursor < s
<1>1. s \in Int /\ cursor \in Int
  BY MaxSeqAssumption DEF StoreTypeOK, SeqNo, NoSeq
<1>2. e \notin processed
  BY DEF Eligibility
<1>3. ~ (s <= cursor)
  BY <1>2 DEF Eligibility
<1> QED
  BY <1>1, <1>2, <1>3

LEMMA InitIInv == StoreInit => IInv
BY DEF StoreInit, IInv, StoreTypeOK, AcceptedOnce, AcceptedIsDurable

LEMMA StepIInv == IInv /\ [StoreNext]_storeVars => IInv'
<1> SUFFICES ASSUME IInv, [StoreNext]_storeVars PROVE IInv'
  OBVIOUS
<1> USE MaxSeqAssumption DEF IInv, SeqNo, NoSeq
<1>1. ASSUME NEW e \in Event, NEW s \in SeqNo, CheckAndMarkEventWithSeq(e, s)
      PROVE  IInv'
  <2>1. e \notin processed /\ cursor < s
    BY <1>1, AcceptedVerdict DEF CheckAndMarkEventWithSeq
  <2>2. /\ processed' = processed \cup {e}
        /\ cursor' = s
        /\ accepted' = accepted \cup {<<e, s>>}
    BY <1>1 DEF CheckAndMarkEventWithSeq
  <2>3. StoreTypeOK'
    BY <2>2 DEF StoreTypeOK
  <2>4. \A p \in accepted : p[1] \in processed /\ p[2] \in Int /\ p[2] <= cursor
    BY DEF StoreTypeOK, AcceptedIsDurable
  <2>5. AcceptedOnce'
    BY <2>1, <2>2, <2>4 DEF AcceptedOnce, StoreTypeOK
  <2>6. AcceptedIsDurable'
    BY <2>1, <2>2, <2>4 DEF AcceptedIsDurable, StoreTypeOK
  <2> QED
    BY <2>3, <2>5, <2>6
<1>2. ASSUME NEW s \in SeqNo, MarkSeqProcessed(s) \/ CheckAndMarkSeq(s)
      PROVE  IInv'
  <2>1. cursor <= s /\ cursor' = s /\ UNCHANGED <<processed, accepted>>
    BY <1>2 DEF MarkSeqProcessed, CheckAndMarkSeq, StoreTypeOK
  <2>2. StoreTypeOK'
    BY <2>1 DEF StoreTypeOK
  <2>3. AcceptedOnce'
    BY <2>1 DEF AcceptedOnce
  <2>4. AcceptedIsDurable'
    BY <2>1 DEF AcceptedIsDurable, StoreTypeOK
  <2> QED
    BY <2>2, <2>3, <2>4
<1>3. ASSUME NEW e \in Event, MarkEventProcessed(e)
      PROVE  IInv'
  BY <1>3 DEF MarkEventProcessed, StoreTypeOK, AcceptedOnce, AcceptedIsDurable
<1>4. CASE UNCHANGED storeVars
  BY <1>4 DEF storeVars, StoreTypeOK, AcceptedOnce, AcceptedIsDurable
<1> QED
  BY <1>1, <1>2, <1>3, <1>4 DEF StoreNext

\* Type correctness of the store, for every set of events and every bound.
THEOREM SpecStoreTypeOK == StoreSpec => []StoreTypeOK
<1>1. IInv => StoreTypeOK
  BY DEF IInv
<1> QED
  BY <1>1, InitIInv, StepIInv, PTL DEF StoreSpec

\* For every database history, an Eagle event is accepted at most once and no
\* two accepted events share a sequence number.
THEOREM SpecAcceptedOnce == StoreSpec => []AcceptedOnce
<1>1. IInv => AcceptedOnce
  BY DEF IInv
<1> QED
  BY <1>1, InitIInv, StepIInv, PTL DEF StoreSpec

\* For every database history, what was accepted is in the table and at or
\* below the resume cursor.
THEOREM SpecAcceptedIsDurable == StoreSpec => []AcceptedIsDurable
<1>1. IInv => AcceptedIsDurable
  BY DEF IInv
<1> QED
  BY <1>1, InitIInv, StepIInv, PTL DEF StoreSpec

\* For every database history, acceptances happen in sequence order.
THEOREM SpecAcceptedInOrder == StoreSpec => AcceptedInOrder
<1>1. IInv /\ [StoreNext]_storeVars
        => [\A p \in accepted' \ accepted, q \in accepted : q[2] < p[2]]_storeVars
  <2> SUFFICES ASSUME IInv, StoreNext
               PROVE  \A p \in accepted' \ accepted, q \in accepted : q[2] < p[2]
    OBVIOUS
  <2> USE MaxSeqAssumption DEF SeqNo, NoSeq
  <2>1. ASSUME NEW e \in Event, NEW s \in SeqNo,
               CheckAndMarkEventWithSeq(e, s)
        PROVE  \A p \in accepted' \ accepted, q \in accepted : q[2] < p[2]
    <3>1. cursor < s
      BY <2>1, AcceptedVerdict DEF CheckAndMarkEventWithSeq, IInv
    <3>2. accepted' = accepted \cup {<<e, s>>}
      BY <2>1 DEF CheckAndMarkEventWithSeq
    <3>3. \A q \in accepted : q[2] \in Int /\ q[2] <= cursor
      BY DEF IInv, StoreTypeOK, AcceptedIsDurable
    <3> QED
      BY <3>1, <3>2, <3>3 DEF IInv, StoreTypeOK
  <2>2. ASSUME NEW s \in SeqNo, MarkSeqProcessed(s) \/ CheckAndMarkSeq(s)
        PROVE  accepted' = accepted
    BY <2>2 DEF MarkSeqProcessed, CheckAndMarkSeq
  <2>3. ASSUME NEW e \in Event, MarkEventProcessed(e)
        PROVE  accepted' = accepted
    BY <2>3 DEF MarkEventProcessed
  <2> QED
    BY <2>1, <2>2, <2>3 DEF StoreNext
<1> QED
  BY <1>1, InitIInv, StepIInv, PTL DEF StoreSpec, AcceptedInOrder

=============================================================================
