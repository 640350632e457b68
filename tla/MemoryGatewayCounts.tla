------------------------ MODULE MemoryGatewayCounts ------------------------
(***************************************************************************)
(* Theorems about MemoryGateway: what is logged and counted, for any       *)
(* number of RPCs, sessions, operations, tenants, pools and backends.      *)
(***************************************************************************)
EXTENDS MemoryGatewayProofs, FiniteSetTheorems

----------------------------------------------------------------------------
(* What is logged and counted *)

\* The gauge follows the streams that are open.
LEMMA GaugeStep ==
  ASSUME TypeOK, CallInv, GaugeInv, NEW r \in Rpc, OnlyRpc(r),
         GoesOn(r)
  PROVE  GaugeInv'
<1>1. IsFiniteSet(OpenStreams) /\ streams = Cardinality(OpenStreams) /\ CallOK(r)
  BY Zenon DEF CallInv, GaugeInv, StreamGaugeExact
<1> USE <1>1
<1>2. \A q \in Rpc \ {r} : q \in OpenStreams' <=> q \in OpenStreams
  BY Zenon DEF OnlyRpc, OpenStreams
<1>3. OpenStreams \subseteq Rpc /\ OpenStreams' \subseteq Rpc
  BY Zenon DEF OpenStreams
<1>4. CASE streams' = streams /\ (r \in OpenStreams' <=> r \in OpenStreams)
  <2>1. OpenStreams' = OpenStreams
    BY <1>2, <1>3, <1>4
  <2> QED BY <1>4, <2>1 DEF GaugeInv, StreamGaugeExact
<1>5. CASE streams' = streams + 1 /\ r \in OpenStreams' /\ r \notin OpenStreams
  <2>1. OpenStreams' = OpenStreams \cup {r}
    BY <1>2, <1>3, <1>5
  <2>2. /\ IsFiniteSet(OpenStreams \cup {r})
        /\ Cardinality(OpenStreams \cup {r}) = Cardinality(OpenStreams) + 1
    BY <1>5, FS_AddElement, Zenon
  <2> QED BY <1>5, <2>1, <2>2 DEF GaugeInv, StreamGaugeExact
<1>6. CASE streams' = streams - 1 /\ r \notin OpenStreams' /\ r \in OpenStreams
  <2>1. OpenStreams' = OpenStreams \ {r}
    BY <1>2, <1>3, <1>6
  <2>2. /\ IsFiniteSet(OpenStreams \ {r})
        /\ Cardinality(OpenStreams \ {r}) = Cardinality(OpenStreams) - 1
    BY <1>6, FS_RemoveElement
  <2> QED BY <1>6, <2>1, <2>2 DEF GaugeInv, StreamGaugeExact
<1>7. CASE Arrives(r)
  BY <1>4, <1>5, <1>7 DEF Arrives, OpenStreams
<1>8. CASE Goes(r) \/ Opens(r)
  BY <1>4, <1>8 DEF Goes, Opens, OpenStreams
<1>9. CASE Ends(r)
  BY <1>4, <1>6, <1>9 DEF Ends, OpenStreams
<1>10. CASE Closes(r)
  BY <1>6, <1>10 DEF Closes, OpenStreams, CallOK
<1>11. CASE bind_op(r)
  <2>1. pc[r] = "remember" /\ pc'[r] = "send" /\ UNCHANGED <<kind, streams>>
    BY <1>11 DEF bind_op, AfterRemember, TypeOK
  <2> QED BY <1>4, <2>1 DEF OpenStreams
<1> QED BY <1>7, <1>8, <1>9, <1>10, <1>11 DEF GoesOn

\* A failed RPC that was neither cancelled nor rate limited leaves exactly one
\* failure event in the audit log (finalise_rpc, authenticate_and_resolve).
THEOREM FailuresAudited == Spec => []FailureAuditedOnce
<1>1. CallInv => FailureAuditedOnce
  <2> SUFFICES ASSUME CallInv, NEW r \in Rpc,
                      code[r] \notin {None, "OK", "Cancelled", "ResourceExhausted"}
               PROVE  Cardinality(audit[r] \cap FailureEvents) = 1
    BY Zenon DEF FailureAuditedOnce
  <2>1. PICK e \in FailureEvents : audit[r] \cap FailureEvents = {e}
    BY Zenon DEF CallInv, CallOK
  <2> QED BY <2>1, FS_Singleton
<1> QED BY <1>1, Calls, PTL

\* scg_active_streams counts the streaming RPCs that have not ended, however
\* they ended (StreamGuard).
THEOREM GaugeExact == Spec => []StreamGaugeExact
<1>1. Init => GaugeInv
  <2> SUFFICES ASSUME Init
               PROVE  GaugeInv
    BY Zenon
  <2>1. OpenStreams = {} /\ streams = 0
    BY Zenon DEF Init, OpenStreams
  <2> QED BY <2>1, FS_EmptySet DEF GaugeInv, StreamGaugeExact
<1>2. RoutingInv /\ CallInv /\ GaugeInv /\ [Next]_vars => GaugeInv'
  <2> SUFFICES ASSUME RoutingInv, CallInv, GaugeInv, [Next]_vars
               PROVE  GaugeInv'
    BY Zenon
  <2>1. ASSUME NEW r \in Rpc, Handlers(r) \/ Step(r) \/ Cancel(r, Suspended)
        PROVE  GaugeInv'
    <3>1. TypeOK /\ RequestInv /\ RequestOK(r) /\ CallOK(r)
      BY RpcFacts, Zenon DEF RoutingInv, CallInv
    <3>2. OnlyRpc(r)
      BY <2>1, <3>1, StepRequests
    <3>3. GoesOn(r)
      BY <2>1, <3>1, StepShape, Zenon
    <3> QED BY <3>1, <3>2, <3>3, GaugeStep, Zenon
  <2>2. CASE UNCHANGED rpcVars
    <3>1. OpenStreams' = OpenStreams /\ streams' = streams
      BY <2>2, Zenon DEF OpenStreams, rpcVars
    <3> QED BY <3>1, Zenon DEF GaugeInv, StreamGaugeExact
  <2> QED BY <2>1, <2>2, Zenon DEF Next, PoolChange, Quiet, vars
<1>3. GaugeInv => StreamGaugeExact
  BY Zenon DEF GaugeInv
<1> QED BY <1>1, <1>2, <1>3, Invariance, Calls, PTL DEF Spec
=============================================================================
