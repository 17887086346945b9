-------------------------- MODULE IBOrderIdsProofs --------------------------
(***************************************************************************)
(* What the order-id allocator guarantees for every bound on ids, crashes, *)
(* lost connections and resets of IB's sequence.  OrderIdsUnique fails     *)
(* after a reset (run IBOrderIdsRace); the theorems say what is left of it *)
(* then, and that it holds without a reset.                                *)
(***************************************************************************)
EXTENDS IBOrderIds, TLAPS

\* A network thread past nextValidId has initialized the allocator; the main
\* thread gets past the position refresh, and so past the start, only then.
\* Only a started process leaves a network thread behind.
Initialized ==
    /\ net = "idle" => next # NoId
    /\ started => next # NoId
    /\ stale # "none" => started
    /\ stale # "none" => staleId # NoId
    /\ net = "initializing" => offered # NoId
    /\ main \in {"lost", "ready", "allocated", "marked", "waiting"} => started
    /\ main = "allocated" => order # NoId

\* The next id is above everything allocated, the id in hand included.
NextIsFresh ==
    /\ next = NoId => allocated = NoId
    /\ next # NoId => allocated < next
    /\ main = "allocated" => order = allocated

\* Why ids are unique while IB's sequence only grows: the ledger is below it,
\* but for an id that was recorded and never placed, and that execution then
\* keeps every further process from starting.  The id a new process is offered
\* is therefore above the ledger, and with it the allocator.
BelowSequence ==
    /\ durable < ibNext \/ (unresolved /\ ~ placed)
    /\ next # NoId => durable < next
    /\ net = "greeting" /\ ~ started => durable < ibNext
    /\ net = "initializing" /\ ~ started => durable < offered
    /\ main = "allocated" => durable < order
    /\ main = "marked" => durable = order

\* The inductive invariant.  FloorHolds alone is not inductive: the id that
\* MarkSubmitted writes must be known to lie below next, and the id in hand
\* above the ledger, which needs the two facts before it.
IInv == TypeOK /\ Initialized /\ NextIsFresh /\ FloorHolds /\ FlooredIdsUnique

LEMMA HigherFacts ==
    ASSUME NEW a \in Int, NEW b \in Int
    PROVE  /\ Higher(a, b) \in {a, b}
           /\ a <= Higher(a, b)
           /\ b <= Higher(a, b)
BY DEF Higher

\* The Boolean variables, apart from the arithmetic of the rest.
LEMMA StepFlags == FlagsOK /\ [Next]_vars => FlagsOK'
BY DEF FlagsOK, Next, vars, allocator, ledger, budget, Connect, Start, Reconnect,
   RecordNextValidId, Initialize, StaleRecords, StaleInitializes, ObserveOrderId,
   HandshakeReady, ApplyFloor, PositionsRefreshed, Allocate, MarkSubmitted,
   PlaceOrder, PlaceOrderFails, EndProcess, Resolve, Disconnect, HandshakeTimesOut,
   StartFails, Crash, ResetIBSequence

LEMMA InitIInv == Init => IInv
<1>1. Init => FlagsOK
  BY DEF Init, FlagsOK
<1>2. Init => TypeOK
  BY <1>1, BoundsAssumption DEF Init, TypeOK, OrderId, NoId, MainStep
<1>3. Init => Initialized /\ NextIsFresh
  BY DEF Init, Initialized, NextIsFresh, NoId
<1>4. Init => FloorHolds /\ FlooredIdsUnique
  BY DEF Init, FloorHolds, FlooredIdsUnique, OrderIdsUnique
<1> QED
  BY <1>2, <1>3, <1>4 DEF IInv

LEMMA AdvancedFacts ==
    ASSUME TypeOK, NEW id \in 0 .. MaxOrderId + 1
    PROVE  /\ id <= Advanced(id) /\ next <= Advanced(id)
           /\ observed < Advanced(id) /\ allocated < Advanced(id)
           /\ Advanced(id) \in 0 .. MaxOrderId + 1
BY BoundsAssumption DEF TypeOK, OrderId, NoId, Advanced, Higher

LEMMA AbandonFacts ==
    ASSUME TypeOK, Abandon
    PROVE  /\ net' = "closed" /\ offered' = NoId
           /\ stale' \in {"none", "entered", "recorded"}
           /\ staleId' \in 0 .. MaxOrderId + 1 \cup {NoId}
BY DEF TypeOK, NoId, Abandon

LEMMA StepIInv == IInv /\ [Next]_vars => IInv'
<1> SUFFICES ASSUME IInv, [Next]_vars PROVE IInv'
  OBVIOUS
<1>0. FlagsOK'
  BY StepFlags DEF IInv, TypeOK
<1>a. TypeOK
  BY DEF IInv
<1> USE BoundsAssumption
    DEF IInv, TypeOK, Initialized, NextIsFresh, FloorHolds, FlooredIdsUnique,
        OrderIdsUnique, OrderId, NoId, MainStep, allocator, ledger, budget, network
<1>1. CASE Start \/ Reconnect
  BY <1>0, <1>1 DEF Start, Reconnect, Connect
<1>2. CASE RecordNextValidId
  BY <1>0, <1>2 DEF RecordNextValidId
<1>3. CASE Initialize
  <2>1. offered # NoId
    BY <1>3 DEF Initialize
  <2> QED
    BY <1>0, <1>a, <1>3, <2>1, AdvancedFacts DEF Initialize
<1>4. CASE StaleRecords
  BY <1>0, <1>4 DEF StaleRecords
<1>5. CASE StaleInitializes
  BY <1>0, <1>a, <1>5, AdvancedFacts DEF StaleInitializes
<1>6. ASSUME NEW o \in OrderId, ObserveOrderId(o) PROVE IInv'
  BY <1>0, <1>6 DEF ObserveOrderId, Higher
<1>7. CASE HandshakeReady
  BY <1>0, <1>7 DEF HandshakeReady
<1>8. CASE ApplyFloor
  <2>1. /\ next' # NoId => durable < next'
        /\ next <= next' /\ next' \in 0 .. MaxOrderId + 1 \cup {NoId}
        /\ next = NoId => next' = NoId
    BY <1>8 DEF ApplyFloor, Higher
  <2>2. floored' => next # NoId
    <3>1. floored => next # NoId
      OBVIOUS
    <3>2. floored' = (floored \/ next # NoId)
      BY <1>8 DEF ApplyFloor
    <3>3. CASE next = NoId
      <4>1. ~ floored
        BY <3>1, <3>3
      <4>2. ~ floored'
        BY <3>2, <3>3, <4>1, Zenon
      <4> QED
        BY <4>2
    <3> QED
      BY <3>3
  <2> QED
    BY <1>0, <1>8, <2>1, <2>2 DEF ApplyFloor
<1>9. CASE PositionsRefreshed
  BY <1>0, <1>9 DEF PositionsRefreshed
<1>10. CASE Allocate
  BY <1>0, <1>10 DEF Allocate
<1>11. CASE MarkSubmitted
  BY <1>0, <1>11 DEF MarkSubmitted, Higher
<1>12. CASE PlaceOrder
  BY <1>0, <1>12 DEF PlaceOrder, Higher
<1>13. CASE PlaceOrderFails
  BY <1>0, <1>13 DEF PlaceOrderFails, EndProcess
<1>14. CASE Resolve
  BY <1>0, <1>14 DEF Resolve
<1>15. CASE Disconnect
  <2>1. stale' # "none" => staleId' # NoId
    BY <1>15 DEF Disconnect, Abandon
  <2> QED
    BY <1>0, <1>a, <1>15, <2>1, AbandonFacts DEF Disconnect
<1>16. CASE HandshakeTimesOut
  <2>1. stale' # "none" => staleId' # NoId
    BY <1>16 DEF HandshakeTimesOut, Abandon
  <2> QED
    BY <1>0, <1>a, <1>16, <2>1, AbandonFacts DEF HandshakeTimesOut
<1>17. CASE StartFails \/ Crash
  BY <1>0, <1>17 DEF StartFails, Crash, EndProcess
<1>18. CASE ResetIBSequence
  BY <1>0, <1>18 DEF ResetIBSequence
<1>19. CASE UNCHANGED vars
  BY <1>0, <1>19 DEF vars
<1> QED
  BY <1>1, <1>2, <1>3, <1>4, <1>5, <1>6, <1>7, <1>8, <1>9, <1>10, <1>11, <1>12,
     <1>13, <1>14, <1>15, <1>16, <1>17, <1>18, <1>19 DEF Next

LEMMA SpecIInv == Spec => []IInv
BY InitIInv, StepIInv, PTL DEF Spec

\* Type correctness, for every bound.
THEOREM SpecTypeOK == Spec => []TypeOK
<1>1. IInv => TypeOK
  BY DEF IInv
<1> QED
  BY <1>1, SpecIInv, PTL

\* An effective durable floor protects every later allocation of the process.
THEOREM SpecFloorHolds == Spec => []FloorHolds
<1>1. IInv => FloorHolds
  BY DEF IInv
<1> QED
  BY <1>1, SpecIInv, PTL

\* With an effective floor the id about to enter the ledger is above every id
\* in it, whatever IB's sequence did.
THEOREM SpecFlooredIdsUnique == Spec => []FlooredIdsUnique
<1>1. IInv => FlooredIdsUnique
  BY DEF IInv
<1> QED
  BY <1>1, SpecIInv, PTL

\* The runner never allocates from an uninitialized allocator.
THEOREM SpecAllocatesInitialized == Spec => []AllocatesInitialized
<1>1. IInv => AllocatesInitialized
  BY DEF IInv, Initialized, AllocatesInitialized
<1> QED
  BY <1>1, SpecIInv, PTL

-----------------------------------------------------------------------------
(* Without a reset.                                                        *)

Unreset == resets = 0 => BelowSequence

LEMMA StepUnreset == IInv /\ Unreset /\ [Next]_vars => Unreset'
<1> SUFFICES ASSUME IInv, Unreset, [Next]_vars, resets' = 0 PROVE BelowSequence'
  BY DEF Unreset
<1>a. TypeOK
  BY DEF IInv
<1>b. resets = 0
  BY <1>a DEF TypeOK, Next, vars, budget, Start, Reconnect, Connect, RecordNextValidId,
     Initialize, StaleRecords, StaleInitializes, ObserveOrderId, HandshakeReady,
     ApplyFloor, PositionsRefreshed, Allocate, MarkSubmitted, PlaceOrder,
     PlaceOrderFails, Resolve, Disconnect, HandshakeTimesOut, StartFails, Crash,
     ResetIBSequence
<1>c. BelowSequence
  BY <1>b DEF Unreset
<1> USE BoundsAssumption, <1>c
    DEF IInv, TypeOK, Initialized, NextIsFresh, BelowSequence, OrderId, NoId, MainStep,
        allocator, ledger, budget, network
<1>1. CASE Start \/ Reconnect
  BY <1>1 DEF Start, Reconnect, Connect
<1>2. CASE RecordNextValidId \/ StaleRecords \/ HandshakeReady \/ PositionsRefreshed
  BY <1>2 DEF RecordNextValidId, StaleRecords, HandshakeReady, PositionsRefreshed
<1>3. CASE Initialize
  <2>1. offered # NoId
    BY <1>3 DEF Initialize
  <2> QED
    BY <1>a, <1>3, <2>1, AdvancedFacts DEF Initialize
<1>4. CASE StaleInitializes
  BY <1>a, <1>4, AdvancedFacts DEF StaleInitializes
<1>5. ASSUME NEW o \in OrderId, ObserveOrderId(o) PROVE BelowSequence'
  BY <1>5 DEF ObserveOrderId
<1>6. CASE ApplyFloor
  BY <1>6 DEF ApplyFloor, Higher
<1>7. CASE Allocate
  BY <1>7 DEF Allocate
<1>8. CASE MarkSubmitted
  BY <1>8 DEF MarkSubmitted, Higher
<1>9. CASE PlaceOrder
  BY <1>9 DEF PlaceOrder, Higher
<1>10. CASE PlaceOrderFails \/ StartFails \/ Crash
  BY <1>10 DEF PlaceOrderFails, StartFails, Crash, EndProcess
<1>11. CASE Resolve
  BY <1>11 DEF Resolve
<1>12. CASE Disconnect \/ HandshakeTimesOut
  BY <1>a, <1>12, AbandonFacts DEF Disconnect, HandshakeTimesOut
<1>13. CASE ResetIBSequence
  BY <1>b, <1>13 DEF ResetIBSequence
<1>14. CASE UNCHANGED vars
  BY <1>14 DEF vars
<1> QED
  BY <1>1, <1>2, <1>3, <1>4, <1>5, <1>6, <1>7, <1>8, <1>9, <1>10, <1>11, <1>12,
     <1>13, <1>14 DEF Next

\* While IB's sequence only grows, no id is recorded twice, whatever the order of
\* the two threads, however many connections and processes come and go, and
\* even if the floor came too early to have an effect.
THEOREM SpecUniqueUnlessReset == Spec => []UniqueUnlessReset
<1>1. Init => Unreset
  BY DEF Init, Unreset, BelowSequence, NoId
<1>2. IInv /\ Unreset => UniqueUnlessReset
  BY DEF Unreset, BelowSequence, UniqueUnlessReset, OrderIdsUnique
<1> QED
  BY <1>1, <1>2, SpecIInv, StepUnreset, PTL DEF Spec

\* Within one process the allocator only moves up.
THEOREM SpecAllocatorMonotone == Spec => AllocatorMonotone
<1> DEFINE Up ==
      /\ allocated' # NoId => allocated <= allocated'
      /\ next' # NoId => next <= next'
      /\ main' = "allocated" /\ main # "allocated" => allocated < order'
<1>1. IInv /\ [Next]_vars => [Up]_vars
  <2> SUFFICES ASSUME IInv, Next PROVE Up
    OBVIOUS
  <2> USE BoundsAssumption
      DEF IInv, TypeOK, Initialized, NextIsFresh, OrderId, NoId, MainStep,
          allocator, ledger, budget, network
  <2>0. TypeOK
    BY DEF IInv
  <2>1. CASE \/ Start \/ Reconnect \/ RecordNextValidId \/ StaleRecords
             \/ HandshakeReady \/ PositionsRefreshed
    BY <2>1 DEF Start, Reconnect, Connect, RecordNextValidId, StaleRecords,
       HandshakeReady, PositionsRefreshed
  <2>2. CASE Initialize \/ StaleInitializes
    BY <2>0, <2>2, AdvancedFacts DEF Initialize, StaleInitializes
  <2>3. ASSUME NEW o \in OrderId, ObserveOrderId(o) PROVE Up
    BY <2>3 DEF ObserveOrderId, Higher
  <2>4. CASE ApplyFloor
    BY <2>4 DEF ApplyFloor, Higher
  <2>5. CASE Allocate
    BY <2>5 DEF Allocate
  <2>6. CASE MarkSubmitted \/ PlaceOrder \/ Resolve
    BY <2>6 DEF MarkSubmitted, PlaceOrder, Resolve
  <2>7. CASE Disconnect \/ HandshakeTimesOut \/ ResetIBSequence
    BY <2>7 DEF Disconnect, HandshakeTimesOut, ResetIBSequence
  <2>8. CASE PlaceOrderFails \/ StartFails \/ Crash
    BY <2>8 DEF PlaceOrderFails, StartFails, Crash, EndProcess
  <2> QED
    BY <2>1, <2>2, <2>3, <2>4, <2>5, <2>6, <2>7, <2>8 DEF Next
<1> QED
  BY <1>1, SpecIInv, PTL DEF Spec, AllocatorMonotone

-----------------------------------------------------------------------------
(* What the execution path takes from the allocator.                       *)

\* Why an id is new to IB as well: what the process is offered first is IB's
\* next id, later placements raise both, and nothing lowers the allocator.
AboveSequence ==
    /\ next # NoId => ibNext <= next
    /\ net = "initializing" /\ next = NoId => ibNext <= offered
    /\ main \in {"allocated", "marked"} => ibNext <= order

UnresetAbove == resets = 0 => AboveSequence

LEMMA StepUnresetAbove == IInv /\ Unreset /\ UnresetAbove /\ [Next]_vars => UnresetAbove'
<1> SUFFICES ASSUME IInv, Unreset, UnresetAbove, [Next]_vars, resets' = 0 PROVE AboveSequence'
  BY DEF UnresetAbove
<1>a. TypeOK
  BY DEF IInv
<1>b. resets = 0
  BY <1>a DEF TypeOK, Next, vars, budget, Start, Reconnect, Connect, RecordNextValidId,
     Initialize, StaleRecords, StaleInitializes, ObserveOrderId, HandshakeReady,
     ApplyFloor, PositionsRefreshed, Allocate, MarkSubmitted, PlaceOrder,
     PlaceOrderFails, Resolve, Disconnect, HandshakeTimesOut, StartFails, Crash,
     ResetIBSequence
<1>c. BelowSequence /\ AboveSequence
  BY <1>b DEF Unreset, UnresetAbove
<1> USE BoundsAssumption, <1>c
    DEF IInv, TypeOK, Initialized, NextIsFresh, BelowSequence, AboveSequence, OrderId, NoId,
        MainStep, allocator, ledger, budget, network
<1>1. CASE Start \/ Reconnect
  BY <1>1 DEF Start, Reconnect, Connect
<1>2. CASE RecordNextValidId \/ StaleRecords \/ HandshakeReady \/ PositionsRefreshed
  BY <1>2 DEF RecordNextValidId, StaleRecords, HandshakeReady, PositionsRefreshed
<1>3. CASE Initialize
  <2>1. offered # NoId
    BY <1>3 DEF Initialize
  <2> QED
    BY <1>a, <1>3, <2>1, AdvancedFacts DEF Initialize
<1>4. CASE StaleInitializes
  BY <1>a, <1>4, AdvancedFacts DEF StaleInitializes
<1>5. ASSUME NEW o \in OrderId, ObserveOrderId(o) PROVE AboveSequence'
  BY <1>5 DEF ObserveOrderId
<1>6. CASE ApplyFloor
  BY <1>6 DEF ApplyFloor, Higher
<1>7. CASE Allocate
  BY <1>7 DEF Allocate
<1>8. CASE MarkSubmitted
  BY <1>8 DEF MarkSubmitted, Higher
<1>9. CASE PlaceOrder
  BY <1>9 DEF PlaceOrder, Higher
<1>10. CASE PlaceOrderFails \/ StartFails \/ Crash
  BY <1>10 DEF PlaceOrderFails, StartFails, Crash, EndProcess
<1>11. CASE Resolve
  BY <1>11 DEF Resolve
<1>12. CASE Disconnect \/ HandshakeTimesOut
  BY <1>a, <1>12, AbandonFacts DEF Disconnect, HandshakeTimesOut
<1>13. CASE ResetIBSequence
  BY <1>b, <1>13 DEF ResetIBSequence
<1>14. CASE UNCHANGED vars
  BY <1>14 DEF vars
<1> QED
  BY <1>1, <1>2, <1>3, <1>4, <1>5, <1>6, <1>7, <1>8, <1>9, <1>10, <1>11, <1>12,
     <1>13, <1>14 DEF Next

\* An id in the main thread's hand is new to the ledger and to IB.
FreshUnlessReset == resets = 0 /\ main = "allocated" => durable < order /\ ibNext <= order

\* The promise on which the execution path builds (Fresh in IBExecution): while
\* IB's sequence is not reset, the id that is about to be submitted belongs to
\* no record of the ledger and to no order IB ever had from this client.
THEOREM SpecFreshUnlessReset == Spec => []FreshUnlessReset
<1>1. Init => Unreset /\ UnresetAbove
  BY DEF Init, Unreset, BelowSequence, UnresetAbove, AboveSequence, NoId
<1>2. Unreset /\ UnresetAbove => FreshUnlessReset
  BY DEF Unreset, BelowSequence, UnresetAbove, AboveSequence, FreshUnlessReset
<1> QED
  BY <1>1, <1>2, SpecIInv, StepUnreset, StepUnresetAbove, PTL DEF Spec
=============================================================================
