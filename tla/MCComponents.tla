---------------------------- MODULE MCComponents ----------------------------
(* TLC instance of three components that share no state: the event store,   *)
(* the execution ledger and the trading gates.  Each is exercised from the  *)
(* initial states of the others.                                            *)
EXTENDS EventStore, ExecutionLedger, TradingGates

CONSTANTS e1, e2, e3
MCEvents == {e1, e2, e3}
MCOrders == {0, 1}
MCSizes  == {1, 2}
MCPnl    == {-1, -2}

ComponentsInit == StoreInit /\ Init /\ GatesInit

ComponentsNext ==
    \/ StoreNext /\ UNCHANGED <<vars, gatesVars>> /\ Init /\ GatesInit
    \/ Next /\ UNCHANGED <<storeVars, gatesVars>> /\ StoreInit /\ GatesInit
    \/ GatesNext /\ UNCHANGED <<storeVars, vars>> /\ StoreInit /\ Init

ComponentsSpec == ComponentsInit /\ [][ComponentsNext]_<<storeVars, vars, gatesVars>>

\* Type correctness of all three.
ComponentsTypeOK == StoreTypeOK /\ TypeOK /\ GatesTypeOK

=============================================================================
