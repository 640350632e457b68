------------------------ MODULE MemoryGatewayProofs ------------------------
(***************************************************************************)
(* Theorems about MemoryGateway: its types, session affinity and tenant    *)
(* isolation, that it implements StickyRouting, what ends a binding, how a *)
(* call goes on, and where sessions and operations live, for any number of *)
(* RPCs, sessions, operations, tenants, pools and backends.                *)
(***************************************************************************)
EXTENDS MemoryGateway, ProxyLemmas

----------------------------------------------------------------------------
(* Types and requests *)

\* Every step of an RPC, inside the memory store and outside, keeps the types
\* and what is known of the requests, and touches no other RPC.
LEMMA StepRequests ==
  ASSUME TypeOK, RequestInv, NEW r \in Rpc,
         Handlers(r) \/ Step(r) \/ Cancel(r, Suspended)
  PROVE  TypeOK' /\ RequestInv' /\ OnlyRpc(r)
<1>0. RequestOK(r)
  BY Zenon DEF RequestInv
<1>1. CASE Handlers(r) \/ Progress(r) \/ Cancel(r, Suspended)
  BY <1>1, ProgressType, RequestProgress, Zenon DEF Suspended
<1>2. ASSUME Taken(r), UNCHANGED driverVars,
             sessions' \in [Key -> Backend \cup {None}],
             ops' \in [Op -> Backend \cup {None}],
             epoch' \in [Key -> Nat]
      PROVE  TypeOK' /\ RequestInv' /\ OnlyRpc(r)
  <2>1. TypeOK'
    BY <1>2, Zenon DEF Taken, RpcTypes, TypeOK, driverVars
  <2>2. RequestInv'
    BY <1>2, RequestKept, Zenon DEF Taken
  <2> QED BY <1>2, <2>1, <2>2, Zenon DEF Taken
<1>3. CASE lookup_op(r)
  <2>1. ops[op[r]] \in Backend \cup {None}
    BY <1>0, <1>3, Zenon DEF lookup_op, RequestOK, TypeOK
  <2>2. Taken(r)
    BY <1>0, <1>3, <2>1, TakenLookupOp, Zenon DEF lookup_op
  <2> QED BY <1>2, <1>3, <2>2, Zenon DEF lookup_op, storeVars, TypeOK
<1>4. CASE lookup_session(r)
  <2>1. sessions[key[r]] \in Backend \cup {None}
    BY <1>0, <1>4, Zenon DEF lookup_session, AsksStore, RequestOK, TypeOK
  <2>2. Taken(r)
    BY <1>0, <1>4, <2>1, TakenLookup, Zenon DEF lookup_session
  <2> QED BY <1>2, <1>4, <2>2, Zenon DEF lookup_session, storeVars, TypeOK
<1>5. CASE bind_session_if_absent(r)
  <2> DEFINE winner == IF sessions[key[r]] = None THEN addr[r] ELSE sessions[key[r]]
  <2>1. /\ pc[r] = "bind" /\ AfterBind(r, winner)
        /\ sessions' = [sessions EXCEPT ![key[r]] = winner]
        /\ UNCHANGED <<ops, epoch, driverVars>>
    BY <1>5, Zenon DEF bind_session_if_absent
  <2>2. winner \in Backend
    BY <1>0, <2>1, Zenon DEF RequestOK, TypeOK
  <2> HIDE DEF winner
  <2>3. Taken(r)
    BY <1>0, <2>1, <2>2, TakenBind, Zenon
  <2>4. sessions' \in [Key -> Backend \cup {None}]
    BY <2>1, <2>2, Zenon DEF TypeOK
  <2> QED BY <1>2, <2>1, <2>3, <2>4, Zenon DEF TypeOK
<1>6. CASE bind_op(r)
  <2>1. Taken(r)
    BY <1>0, <1>6, TakenRemember, Zenon DEF bind_op
  <2>2. ops' \in [Op -> Backend \cup {None}]
    BY <1>6, Zenon DEF bind_op, TypeOK
  <2> QED BY <1>2, <1>6, <2>1, <2>2, Zenon DEF bind_op, TypeOK
<1>7. CASE forget_session(r)
  <2>1. Taken(r)
    BY <1>0, <1>7, TakenForget, Zenon DEF forget_session
  <2>2. sessions' \in [Key -> Backend \cup {None}]
    BY <1>7, Zenon DEF forget_session, TypeOK
  <2>3. key[r] \in Key
    BY <1>0, <1>7, Zenon DEF forget_session, AfterForget, RequestOK
  <2>4. epoch' \in [Key -> Nat]
    BY <1>7, <2>3 DEF forget_session, TypeOK
  <2> QED BY <1>2, <1>7, <2>1, <2>2, <2>4, Zenon DEF forget_session, TypeOK
<1>8. CASE forget_op(r)
  <2>1. Taken(r)
    BY <1>0, <1>8, TakenForget, Zenon DEF forget_op
  <2>2. ops' \in [Op -> Backend \cup {None}]
    BY <1>8, Zenon DEF forget_op, TypeOK
  <2> QED BY <1>2, <1>8, <2>1, <2>2, Zenon DEF forget_op, TypeOK
<1> QED
  BY <1>1, <1>3, <1>4, <1>5, <1>6, <1>7, <1>8, Zenon DEF Step

----------------------------------------------------------------------------
(* The inductive invariant *)

\* The invariant holds initially.
LEMMA InitInv == Init => RoutingInv
<1> USE NoneAssumption, KeysAssumption, PoolsAssumption
<1> SUFFICES ASSUME Init PROVE RoutingInv BY Zenon
<1>1. TypeOK BY DEF Init, TypeOK, Stages
<1>2. RequestInv BY Zenon DEF Init, RequestInv, RequestOK
<1>3. EraInv BY Zenon DEF Init, EraInv, EraOK
<1>4. PoolInv BY Zenon DEF Init, PoolInv
<1>5. OneBackendPerEpoch /\ AddrInv
  BY Zenon DEF Init, OneBackendPerEpoch, AddrInv, AddrOK
<1> QED BY <1>1, <1>2, <1>3, <1>4, <1>5, Zenon DEF RoutingInv

\* A pool that answers a tenant's RPC reports backends of that tenant.
LEMMA MembersAllowed ==
  ASSUME RoutingInv, NEW r \in Rpc, PoolOf(r) \in Pool
  PROVE  members[PoolOf(r)] \subseteq Allowed(TenantOf[key[r]])
BY Zenon DEF RoutingInv, PoolInv, PoolOf, Allowed

\* What the invariant says of one RPC.
LEMMA RpcFacts ==
  ASSUME RoutingInv, NEW r \in Rpc
  PROVE  RequestOK(r) /\ EraOK(r)
BY Zenon DEF RoutingInv, RequestInv, EraInv

\* The request of an RPC whose address is final stands for good.
RecordsStand ==
  \A q \in Rpc : pc[q] \in Settled =>
    pc'[q] \in Settled /\ kind'[q] = kind[q] /\ key'[q] = key[q] /\ op'[q] = op[q]

\* Then what may run an operation may still run it.
LEMMA RunsKept ==
  ASSUME RecordsStand, NEW o, NEW b, MayRun(o, b)
  PROVE  MayRun(o, b)'
BY Zenon DEF RecordsStand, MayRun

\* And an address that is kept is still in order.
LEMMA AddrKept ==
  ASSUME RecordsStand, NEW q \in Rpc, AddrOK(q), kind'[q] = kind[q], op'[q] = op[q],
         key'[q] = key[q], addr'[q] = addr[q], era'[q] = era[q]
  PROVE  AddrOK(q)'
<1>1. ByIndex(q) => ByIndex(q)'
  BY Zenon DEF RecordsStand, ByIndex
<1> QED BY <1>1, RunsKept, Zenon DEF AddrOK

\* A step of r alone.
LEMMA RecordsKept ==
  ASSUME NEW r \in Rpc, OnlyRpc(r),
         pc[r] \in Settled => pc'[r] \in Settled /\ UNCHANGED <<kind, key, op>>
  PROVE  RecordsStand
BY Zenon DEF OnlyRpc, RecordsStand

\* A step that leaves addresses, eras, tables and pools alone keeps what the
\* invariant says of them.
LEMMA StillInv ==
  ASSUME RoutingInv, TypeOK', RequestInv',
         UNCHANGED <<kind, key, op, addr, era, members, sessions, ops, epoch>>,
         \A q \in Rpc : pc[q] \in Settled => pc'[q] \in Settled
  PROVE  RoutingInv'
<1>1. RecordsStand
  BY Zenon DEF RecordsStand
<1>2. EraInv' /\ PoolInv'
  BY <1>1, RunsKept, Zenon DEF RoutingInv, EraInv, EraOK, PoolInv
<1>3. OneBackendPerEpoch' /\ AddrInv'
  BY <1>1, AddrKept, Zenon DEF RoutingInv, OneBackendPerEpoch, AddrInv
<1> QED BY <1>2, <1>3, Zenon DEF RoutingInv

\* An RPC without an era may read its request or be given an address, as long
\* as the address is in order.
LEMMA PickInv ==
  ASSUME RoutingInv, TypeOK', RequestInv', NEW r \in Rpc, OnlyRpc(r),
         era[r] = None, pc[r] \notin Settled, AddrOK(r)',
         UNCHANGED <<era, members, sessions, ops, epoch>>
  PROVE  RoutingInv'
<1>1. RecordsStand
  BY RecordsKept, Zenon
<1>2. \A q \in Rpc \ {r} : addr'[q] = addr[q] /\ key'[q] = key[q]
  BY Zenon DEF OnlyRpc
<1>3. EraInv' /\ PoolInv'
  BY <1>1, <1>2, RunsKept, Zenon DEF RoutingInv, EraInv, EraOK, PoolInv
<1>4. OneBackendPerEpoch'
  BY <1>2, Zenon DEF RoutingInv, OneBackendPerEpoch
<1>5. AddrInv'
  BY <1>1, AddrKept, Zenon DEF OnlyRpc, RoutingInv, AddrInv
<1> QED BY <1>3, <1>4, <1>5, Zenon DEF RoutingInv

\* Routing r by its session to b keeps the invariant when the table then holds b.
LEMMA RouteInv ==
  ASSUME RoutingInv, TypeOK', RequestInv', NEW r \in Rpc,
         NEW b \in Allowed(TenantOf[key[r]]),
         pc[r] \in {"session", "bind"},
         RouteBySession(r, b),
         sessions[key[r]] \in {None, b},
         sessions' = [sessions EXCEPT ![key[r]] = b],
         UNCHANGED <<members, ops, epoch>>
  PROVE  RoutingInv'
<1> DEFINE k == key[r]
<1>1. k \in Key /\ era[r] = None
  BY RpcFacts, Zenon DEF RequestOK
<1>2. b \in Backend /\ b # None
  BY <1>1, AllowedType, KeysAssumption, NoneAssumption, Zenon
<1>3. epoch[k] \in Nat /\ epoch[k] # None
  BY <1>1, NoneAssumption DEF RoutingInv, TypeOK
<1>4. addr'[r] = b /\ era'[r] = epoch[k] /\ UNCHANGED key
  BY DEF RouteBySession, Forward, RoutingInv, TypeOK
<1>5. \A q \in Rpc \ {r} : addr'[q] = addr[q] /\ era'[q] = era[q]
  BY DEF RouteBySession, Forward, RoutingInv, TypeOK
<1>6. sessions'[k] = b /\ \A x \in Key \ {k} : sessions'[x] = sessions[x]
  BY <1>1, Zenon DEF RoutingInv, TypeOK
<1>7. ASSUME NEW q \in Rpc, era[q] = epoch[k], key[q] = k
       PROVE  addr[q] = b
  <2>1. era[q] # None
    BY <1>3, <1>7, Zenon
  <2>2. sessions[k] = addr[q] /\ addr[q] # None
    BY <1>7, <2>1, RpcFacts, Zenon DEF EraOK
  <2> QED BY <2>2, Zenon
<1>8. ASSUME NEW q \in Rpc, q # r
       PROVE  EraOK(q)'
  <2>1. EraOK(q)
    BY RpcFacts, Zenon
  <2>2. CASE key[q] = k
    BY <1>4, <1>5, <1>6, <1>7, <1>8, <2>1, <2>2, Zenon DEF EraOK
  <2>3. CASE key[q] # k
    BY <1>4, <1>5, <1>6, <1>8, <2>1, <2>3 DEF EraOK
  <2> QED BY <2>2, <2>3, Zenon
<1>9. EraOK(r)'
  BY <1>1, <1>2, <1>3, <1>4, <1>6 DEF EraOK
<1>10. EraInv'
  BY <1>8, <1>9, Zenon DEF EraInv
<1>11. RecordsStand /\ OnlyRpc(r)
  <2>1. OnlyRpc(r) /\ pc[r] \notin Settled
    BY DEF RouteBySession, Forward, OnlyRpc, RoutingInv, TypeOK, Settled
  <2> QED BY <2>1, RecordsKept, Zenon
<1>12. PoolInv'
  BY <1>1, <1>6, <1>11, RunsKept, Zenon DEF RoutingInv, PoolInv
<1>13. OneBackendPerEpoch'
  <2> SUFFICES ASSUME NEW p \in Rpc, NEW q \in Rpc, era'[p] # None,
                      era'[p] = era'[q], key'[p] = key'[q]
               PROVE  addr'[p] = addr'[q]
    BY Zenon DEF OneBackendPerEpoch
  <2>1. CASE p # r /\ q # r
    <3>1. /\ era[p] # None /\ era[p] = era[q] /\ key[p] = key[q]
          /\ addr'[p] = addr[p] /\ addr'[q] = addr[q]
      BY <1>4, <1>5, <2>1, Zenon
    <3> QED BY <3>1, Zenon DEF RoutingInv, OneBackendPerEpoch
  <2>2. CASE p = r /\ q # r
    BY <1>4, <1>5, <1>7, <2>2, Zenon
  <2>3. CASE p # r /\ q = r
    BY <1>4, <1>5, <1>7, <2>3, Zenon
  <2> QED BY <2>1, <2>2, <2>3, Zenon
<1>14. AddrInv'
  <2>1. AddrOK(r)'
    BY <1>4, Zenon DEF AddrOK
  <2> QED BY <1>11, <2>1, AddrKept, Zenon DEF OnlyRpc, RoutingInv, AddrInv
<1> QED BY <1>10, <1>12, <1>13, <1>14, Zenon DEF RoutingInv

\* The candidate of an RPC about to bind its session is of its tenant's pool.
LEMMA BindCandidate ==
  ASSUME RoutingInv, NEW r \in Rpc, pc[r] = "bind", addr[r] # None
  PROVE  addr[r] \in Allowed(TenantOf[key[r]])
BY Zenon DEF RoutingInv, AddrInv, AddrOK, ByIndex, Settled

\* Every step of an RPC keeps the invariant.
LEMMA StepInv ==
  ASSUME RoutingInv, NEW r \in Rpc,
         Handlers(r) \/ Step(r) \/ Cancel(r, Suspended)
  PROVE  RoutingInv'
<1>0. TypeOK' /\ RequestInv' /\ OnlyRpc(r)
  BY StepRequests, Zenon DEF RoutingInv
<1>1. TypeOK /\ RequestOK(r)
  BY RpcFacts, Zenon DEF RoutingInv
<1>2. CASE Handlers(r) \/ Progress(r) \/ Cancel(r, Suspended)
  <2>1. UNCHANGED <<sessions, ops, epoch, members, era>>
    BY <1>2, ProgressFrame, Zenon
  <2>2. CASE UNCHANGED <<kind, key, op, addr>>
    <3>1. \A q \in Rpc : pc[q] \in Settled => pc'[q] \in Settled
      BY <1>0, <1>1, <1>2, ProgressPlaces, Zenon DEF OnlyRpc, Suspended
    <3> QED BY <1>0, <2>1, <2>2, <3>1, StillInv, Zenon
  <2>3. CASE pc[r] = "new" /\ UNCHANGED addr
    <3>1. addr[r] = None /\ era[r] = None /\ pc[r] \notin Settled
      BY <1>1, <2>3, Zenon DEF RequestOK, Settled
    <3>2. AddrOK(r)'
      BY <2>3, <3>1, Zenon DEF AddrOK
    <3> QED BY <1>0, <2>1, <3>1, <3>2, PickInv, Zenon
  <2>4. CASE /\ pc[r] = "session" /\ UNCHANGED <<kind, key, op>>
             /\ PoolOf(r) \in Pool
             /\ \E b \in members[PoolOf(r)] : addr' = [addr EXCEPT ![r] = b]
    <3>1. era[r] = None /\ pc[r] \notin Settled
      BY <1>1, <2>4, Zenon DEF RequestOK, Settled
    <3>2. addr'[r] \in members[PoolOf(r)]
      BY <1>1, <2>4, Zenon DEF TypeOK
    <3>3. AddrOK(r)'
      BY <2>4, <3>2, MembersAllowed, Zenon DEF AddrOK
    <3> QED BY <1>0, <2>1, <3>1, <3>3, PickInv, Zenon
  <2> QED BY <1>2, <2>2, <2>3, <2>4, ProgressFrame, Zenon
<1>3. CASE lookup_op(r)
  <2>1. /\ pc[r] = "op" /\ op[r] \in Op /\ key[r] \in Key /\ era[r] = None
        /\ kind[r] \in OpRouted /\ op[r] # None /\ pc[r] \notin Settled
        /\ UNCHANGED <<kind, key, op, era, members, sessions, ops, epoch>>
    <3>1. pc[r] = "op" /\ UNCHANGED <<kind, key, op, era, members, sessions, ops, epoch>>
      BY <1>3, Zenon DEF lookup_op, AfterLookupOp, Forward, storeVars
    <3> QED BY <1>1, <3>1, Zenon DEF RequestOK, TypeOK, Settled
  <2>2. CASE ops[op[r]] # None /\ Forward(r, ops[op[r]])
    <3>1. MayRun(op[r], ops[op[r]])
      BY <2>1, <2>2, Zenon DEF RoutingInv, PoolInv
    <3>2. addr'[r] = ops[op[r]] /\ pc'[r] \in Settled
      BY <1>1, <2>2, Zenon DEF Forward, TypeOK, Settled
    <3>3. RecordsStand
      BY <1>0, <2>1, RecordsKept, Zenon
    <3>4. MayRun(op[r], addr[r])'
      BY <2>1, <3>1, <3>2, <3>3, Zenon DEF RecordsStand, MayRun
    <3>5. AddrOK(r)'
      BY <2>1, <3>2, <3>4, Zenon DEF AddrOK, ByIndex
    <3> QED BY <1>0, <2>1, <3>5, PickInv, Zenon
  <2>3. CASE UNCHANGED addr
    <3>1. \A q \in Rpc : pc[q] \in Settled => pc'[q] \in Settled
      BY <1>0, <2>1, Zenon DEF OnlyRpc
    <3> QED BY <1>0, <2>1, <2>3, <3>1, StillInv, Zenon
  <2> QED BY <1>3, <2>2, <2>3, Zenon DEF lookup_op, AfterLookupOp
<1>4. CASE lookup_session(r)
  <2>1. /\ pc[r] = "session" /\ PoolOf(r) \in Pool /\ key[r] \in Key /\ era[r] = None
        /\ UNCHANGED <<kind, key, op, members, sessions, ops, epoch>>
    BY <1>1, <1>4, Zenon
       DEF lookup_session, AsksStore, AfterLookup, RouteBySession, Forward,
           Return, Leave, RequestOK, storeVars
  <2>2. CASE sessions[key[r]] # None /\ RouteBySession(r, sessions[key[r]])
    <3>1. sessions[key[r]] \in Allowed(TenantOf[key[r]])
      BY <2>1, <2>2, Zenon DEF RoutingInv, PoolInv
    <3>2. sessions' = [sessions EXCEPT ![key[r]] = sessions[key[r]]]
      BY <2>1, Zenon DEF RoutingInv, TypeOK
    <3> QED BY <1>0, <2>1, <2>2, <3>1, <3>2, RouteInv, Zenon
  <2>3. CASE UNCHANGED <<addr, era>>
    <3>1. pc[r] \notin Settled
      BY <2>1, Zenon DEF Settled
    <3>2. \A q \in Rpc : pc[q] \in Settled => pc'[q] \in Settled
      BY <1>0, <3>1, Zenon DEF OnlyRpc
    <3> QED BY <1>0, <2>1, <2>3, <3>2, StillInv, Zenon
  <2>4. CASE /\ \E b \in members[PoolOf(r)] : addr' = [addr EXCEPT ![r] = b]
             /\ UNCHANGED era
    <3>1. addr'[r] \in members[PoolOf(r)]
      BY <1>1, <2>4, Zenon DEF TypeOK
    <3>2. AddrOK(r)' /\ pc[r] \notin Settled
      BY <2>1, <3>1, MembersAllowed, Zenon DEF AddrOK, Settled
    <3> QED BY <1>0, <2>1, <2>4, <3>2, PickInv, Zenon
  <2> QED BY <1>4, <2>2, <2>3, <2>4, Zenon DEF lookup_session, AfterLookup
<1>5. CASE bind_session_if_absent(r)
  <2> DEFINE winner == IF sessions[key[r]] = None THEN addr[r] ELSE sessions[key[r]]
  <2>1. /\ pc[r] = "bind" /\ key[r] \in Key /\ addr[r] # None
        /\ sessions' = [sessions EXCEPT ![key[r]] = winner]
        /\ RouteBySession(r, winner)
        /\ UNCHANGED <<members, ops, epoch>>
    BY <1>1, <1>5, Zenon DEF bind_session_if_absent, AfterBind, RequestOK
  <2>2. winner \in Allowed(TenantOf[key[r]])
    BY <2>1, BindCandidate, Zenon DEF RoutingInv, PoolInv
  <2>3. sessions[key[r]] \in {None, winner}
    BY Zenon
  <2> HIDE DEF winner
  <2> QED BY <1>0, <2>1, <2>2, <2>3, RouteInv, Zenon
<1>6. CASE bind_op(r)
  <2>1. /\ op[r] \in Op /\ key[r] \in Key /\ addr[r] # None
        /\ kind[r] = "ExecutePlan" /\ pc[r] = "remember" /\ pc'[r] = "send"
        /\ ops' = [ops EXCEPT ![op[r]] = addr[r]]
        /\ UNCHANGED <<kind, key, op, addr, era, members, sessions, epoch>>
    BY <1>1, <1>6, Zenon DEF bind_op, AfterRemember, RequestOK, TypeOK
  <2>2. RecordsStand
    BY <1>0, <2>1, RecordsKept, Zenon DEF Settled
  <2>3. addr[r] \in Allowed(TenantOf[key[r]])
    BY <2>1, Zenon DEF RoutingInv, AddrInv, AddrOK, ByIndex, OpRouted
  <2>4. ASSUME NEW o \in Op, ops'[o] # None
        PROVE  MayRun(o, ops[o])'
    <3>1. CASE o = op[r]
      BY <1>1, <2>1, <2>3, <3>1, Zenon DEF TypeOK, MayRun, Settled
    <3>2. CASE o # op[r]
      <4>1. ops'[o] = ops[o] /\ MayRun(o, ops[o])
        BY <1>1, <2>1, <2>4, <3>2 DEF TypeOK, RoutingInv, PoolInv
      <4> QED BY <2>2, <4>1, Zenon DEF RecordsStand, MayRun
    <3> QED BY <3>1, <3>2, Zenon
  <2>5. PoolInv'
    BY <2>1, <2>4, Zenon DEF RoutingInv, PoolInv
  <2>6. EraInv' /\ OneBackendPerEpoch' /\ AddrInv'
    BY <2>1, <2>2, AddrKept, Zenon DEF RoutingInv, EraInv, EraOK, OneBackendPerEpoch, AddrInv
  <2> QED BY <1>0, <2>5, <2>6, Zenon DEF RoutingInv
<1>7. CASE forget_session(r)
  <2>1. /\ key[r] \in Key
        /\ sessions' = [sessions EXCEPT ![key[r]] = None]
        /\ epoch' = [epoch EXCEPT ![key[r]] = epoch[key[r]] + 1]
        /\ pc' = [pc EXCEPT ![r] = "done"]
        /\ UNCHANGED <<kind, key, op, addr, era, members, ops>>
    BY <1>1, <1>7, Zenon DEF forget_session, AfterForget, Return, Leave, RequestOK
  <2>2. EraInv'
    BY <2>1 DEF RoutingInv, EraInv, EraOK, TypeOK
  <2>3. RecordsStand
    BY <1>0, <1>1, <2>1, RecordsKept DEF TypeOK, Settled
  <2>4. PoolInv'
    BY <2>1, <2>3, RunsKept, Zenon DEF RoutingInv, PoolInv, TypeOK
  <2>5. OneBackendPerEpoch' /\ AddrInv'
    BY <2>1, <2>3, AddrKept, Zenon DEF RoutingInv, OneBackendPerEpoch, AddrInv
  <2> QED BY <1>0, <2>2, <2>4, <2>5, Zenon DEF RoutingInv
<1>8. CASE forget_op(r)
  <2>1. /\ ops' = [ops EXCEPT ![op[r]] = None] /\ pc' = [pc EXCEPT ![r] = "done"]
        /\ UNCHANGED <<kind, key, op, addr, era, members, sessions, epoch>>
    BY <1>8, Zenon DEF forget_op, AfterForget, Return, Leave
  <2>2. RecordsStand
    BY <1>0, <1>1, <2>1, RecordsKept DEF TypeOK, Settled
  <2>3. EraInv' /\ PoolInv'
    BY <2>1, <2>2, RunsKept, Zenon DEF RoutingInv, EraInv, EraOK, PoolInv, TypeOK
  <2>4. OneBackendPerEpoch' /\ AddrInv'
    BY <2>1, <2>2, AddrKept, Zenon DEF RoutingInv, OneBackendPerEpoch, AddrInv
  <2> QED BY <1>0, <2>3, <2>4, Zenon DEF RoutingInv
<1> QED
  BY <1>2, <1>3, <1>4, <1>5, <1>6, <1>7, <1>8, Zenon DEF Step

\* A membership change keeps the invariant.
LEMMA PoolChangeInv ==
  ASSUME RoutingInv, NEW p \in Pool, PoolChange(p)
  PROVE  RoutingInv'
<1>1. PICK m \in SUBSET PoolBackends[p] : members' = [members EXCEPT ![p] = m]
  BY Zenon DEF PoolChange
<1>2. UNCHANGED <<rpcVars, storeVars, driverVars, era>>
  BY Zenon DEF PoolChange
<1>3. TypeOK'
  BY <1>1, <1>2, PoolsAssumption, Zenon
     DEF RoutingInv, TypeOK, rpcVars, storeVars, driverVars
<1>4. RequestInv' /\ EraInv'
  BY <1>2, RequestStill, Zenon DEF RoutingInv, EraInv, EraOK, rpcVars, storeVars
<1>5. RecordsStand
  BY <1>2, Zenon DEF RecordsStand, rpcVars
<1>6. PoolInv'
  BY <1>1, <1>2, <1>5, RunsKept, Zenon DEF RoutingInv, PoolInv, TypeOK, storeVars
<1>7. OneBackendPerEpoch' /\ AddrInv'
  BY <1>2, <1>5, AddrKept, Zenon DEF RoutingInv, OneBackendPerEpoch, AddrInv, rpcVars
<1> QED BY <1>3, <1>4, <1>6, <1>7, Zenon DEF RoutingInv

\* A step that changes nothing keeps the invariant.
LEMMA StutterInv ==
  ASSUME RoutingInv, UNCHANGED vars
  PROVE  RoutingInv'
<1>1. TypeOK'
  BY Zenon DEF RoutingInv, TypeOK, vars, rpcVars, storeVars, driverVars
<1>2. RequestInv'
  BY RequestStill, Zenon DEF RoutingInv, vars, rpcVars
<1> QED BY <1>1, <1>2, StillInv, Zenon DEF vars, rpcVars, storeVars

\* The invariant is inductive.
LEMMA NextInv == RoutingInv /\ [Next]_vars => RoutingInv'
<1> SUFFICES ASSUME RoutingInv, [Next]_vars PROVE RoutingInv' BY Zenon
<1>1. CASE \E r \in Rpc : Handlers(r) \/ Step(r) \/ Cancel(r, Suspended)
  BY <1>1, StepInv, Zenon
<1>2. CASE \E p \in Pool : PoolChange(p)
  BY <1>2, PoolChangeInv, Zenon
<1>3. CASE Quiet \/ UNCHANGED vars
  BY <1>3, StutterInv, Zenon DEF Quiet
<1> QED BY <1>1, <1>2, <1>3, Zenon DEF Next

\* The invariant holds throughout: the handlers of handler.rs, the router and
\* the memory store keep every request, binding and index entry consistent.
THEOREM Invariance == Spec => []RoutingInv
BY InitInv, NextInv, PTL DEF Spec

\* Every variable keeps its type.
THEOREM TypeCorrect == Spec => []TypeOK
<1>1. RoutingInv => TypeOK BY Zenon DEF RoutingInv
<1> QED BY <1>1, Invariance, PTL

\* Session affinity: RPCs of one session routed between the same two forgets of
\* its binding go to the same backend, whatever resolve_session_detailed races.
THEOREM SessionAffinity == Spec => []OneBackendPerEpoch
<1>1. RoutingInv => OneBackendPerEpoch BY Zenon DEF RoutingInv
<1> QED BY <1>1, Invariance, PTL

\* Tenant isolation: pool_for decides which backends an RPC can reach through
\* its session, whatever operation ids the tenants send; through the operation
\* index it reaches only a tenant that sent an ExecutePlan with that id.
THEOREM Isolation == Spec => []TenantIsolation
<1>1. RoutingInv => TenantIsolation
  BY Zenon DEF RoutingInv, PoolInv, AddrInv, TenantIsolation
<1> QED BY <1>1, Invariance, PTL

----------------------------------------------------------------------------
(* The gateway implements StickyRouting *)

Route == [r \in Rpc |-> IF era[r] = None THEN None ELSE <<key[r], addr[r]>>]
MayUse == [k \in Key |-> Allowed(TenantOf[k])]

\* A step that leaves the table alone, and the request, address and era of every
\* RPC routed by session, is a stuttering step of StickyRouting.
LEMMA StickyStutter ==
  ASSUME UNCHANGED <<sessions, era>>,
         \A q \in Rpc : era[q] # None => key'[q] = key[q] /\ addr'[q] = addr[q]
  PROVE  UNCHANGED <<sessions, Route>>
BY Zenon DEF Route

\* Routing r by its session to b, with b in the table afterwards, is Serve.
LEMMA StickyServe ==
  ASSUME RoutingInv, NEW r \in Rpc, NEW b \in Allowed(TenantOf[key[r]]),
         key[r] \in Key, era[r] = None,
         RouteBySession(r, b),
         sessions[key[r]] \in {None, b},
         sessions' = [sessions EXCEPT ![key[r]] = b]
  PROVE  Sticky!Next
<1> USE NoneAssumption
<1>1. epoch[key[r]] # None
  BY DEF RoutingInv, TypeOK
<1>2. Route[r] = None
  BY Zenon DEF Route
<1>3. Route' = [Route EXCEPT ![r] = <<key[r], b>>]
  BY <1>1, Zenon DEF Route, RouteBySession, Forward, RoutingInv, TypeOK
<1>4. b \in MayUse[key[r]]
  BY Zenon DEF MayUse
<1>5. Sticky!Serve(r, key[r], b)
  BY <1>2, <1>3, Zenon DEF Sticky!Serve, Route
<1> QED BY <1>4, <1>5, Zenon DEF Sticky!Next, MayUse

\* Every step of the gateway is a step of StickyRouting or a stutter.
LEMMA StickyStep ==
  ASSUME RoutingInv, [Next]_vars
  PROVE  Sticky!Next \/ UNCHANGED <<sessions, Route>>
<1> USE NoneAssumption
<1>1. ASSUME NEW r \in Rpc
      PROVE  RequestOK(r)
  BY Zenon DEF RoutingInv, RequestInv
<1>2. ASSUME NEW r \in Rpc, Handlers(r) \/ Progress(r) \/ Cancel(r, Suspended)
      PROVE  UNCHANGED <<sessions, Route>>
  <2>1. OnlyRpc(r) /\ UNCHANGED <<sessions, era>>
    BY <1>2, StepRequests, ProgressFrame, Zenon DEF RoutingInv, Step
  <2>2. era[r] = None \/ UNCHANGED <<key, addr>>
    BY <1>1, <1>2, ProgressFrame, Zenon DEF RequestOK
  <2> QED BY <2>1, <2>2, StickyStutter, Zenon DEF OnlyRpc
<1>3. ASSUME NEW r \in Rpc, lookup_op(r)
      PROVE  UNCHANGED <<sessions, Route>>
  <2>1. era[r] = None /\ UNCHANGED <<sessions, era, key>>
    BY <1>3, Zenon
       DEF lookup_op, AfterLookupOp, Forward, RoutingInv, RequestInv, RequestOK, storeVars
  <2>2. \A q \in Rpc \ {r} : addr'[q] = addr[q]
    BY <1>3, Zenon DEF lookup_op, AfterLookupOp, Forward, RoutingInv, TypeOK
  <2> QED BY <2>1, <2>2, StickyStutter, Zenon
<1>4. ASSUME NEW r \in Rpc, lookup_session(r)
      PROVE  Sticky!Next \/ UNCHANGED <<sessions, Route>>
  <2>1. era[r] = None /\ key[r] \in Key /\ UNCHANGED <<sessions, key>>
    BY <1>4, Zenon DEF lookup_session, AsksStore, AfterLookup, RouteBySession, Return, Leave,
                Forward, RoutingInv, RequestInv, RequestOK, storeVars
  <2>2. CASE sessions[key[r]] # None /\ RouteBySession(r, sessions[key[r]])
    <3>1. sessions[key[r]] \in Allowed(TenantOf[key[r]])
      BY <2>1, <2>2, Zenon DEF RoutingInv, PoolInv
    <3>2. sessions' = [sessions EXCEPT ![key[r]] = sessions[key[r]]]
      BY <2>1, Zenon DEF RoutingInv, TypeOK
    <3> QED BY <2>1, <2>2, <3>1, <3>2, StickyServe, Zenon
  <2>3. CASE /\ UNCHANGED era
             /\ \A q \in Rpc \ {r} : addr'[q] = addr[q]
    BY <2>1, <2>3, StickyStutter, Zenon
  <2> QED BY <1>4, <2>2, <2>3, Zenon DEF lookup_session, AfterLookup, RoutingInv, TypeOK
<1>5. ASSUME NEW r \in Rpc, bind_session_if_absent(r)
      PROVE  Sticky!Next
  <2> DEFINE winner == IF sessions[key[r]] = None THEN addr[r] ELSE sessions[key[r]]
  <2>1. /\ pc[r] = "bind" /\ era[r] = None /\ key[r] \in Key /\ addr[r] # None
        /\ sessions' = [sessions EXCEPT ![key[r]] = winner]
        /\ RouteBySession(r, winner)
    BY <1>5, Zenon DEF bind_session_if_absent, AfterBind, RoutingInv, RequestInv, RequestOK
  <2>2. winner \in Allowed(TenantOf[key[r]])
    BY <2>1, BindCandidate, Zenon DEF RoutingInv, PoolInv
  <2>3. sessions[key[r]] \in {None, winner}
    BY Zenon
  <2> HIDE DEF winner
  <2> QED BY <2>1, <2>2, <2>3, StickyServe, Zenon
<1>6. ASSUME NEW r \in Rpc, bind_op(r)
      PROVE  UNCHANGED <<sessions, Route>>
  BY <1>6, StickyStutter, Zenon DEF bind_op, AfterRemember
<1>7. ASSUME NEW r \in Rpc, forget_session(r)
      PROVE  Sticky!Next
  <2>1. key[r] \in Key
    BY <1>7, Zenon DEF forget_session, AfterForget, RoutingInv, RequestInv, RequestOK
  <2>2. Route' = Route
    BY <1>7, Zenon DEF forget_session, AfterForget, Return, Leave, Route
  <2>3. Sticky!Release(key[r])
    BY <1>7, <2>2, Zenon DEF forget_session, Sticky!Release, Route
  <2> QED BY <2>1, <2>3, Zenon DEF Sticky!Next
<1>8. ASSUME NEW r \in Rpc, forget_op(r)
      PROVE  UNCHANGED <<sessions, Route>>
  BY <1>8, StickyStutter, Zenon DEF forget_op, AfterForget, Return, Leave
<1>9. ASSUME NEW p \in Pool, PoolChange(p)
       PROVE  UNCHANGED <<sessions, Route>>
  BY <1>9, StickyStutter, Zenon DEF PoolChange, rpcVars, storeVars
<1>10. CASE Quiet \/ UNCHANGED vars
  BY <1>10, StickyStutter, Zenon DEF Quiet, vars, rpcVars, storeVars
<1> QED
  BY <1>2, <1>3, <1>4, <1>5, <1>6, <1>7, <1>8, <1>9, <1>10, Zenon
     DEF Next, Step

\* The handlers, the router and the memory store implement StickyRouting: a
\* client cannot tell the racing lookups and binds of resolve_session_detailed
\* from a gateway that pins and serves in one step.
THEOREM Stickiness == Spec => StickyRoutingImplemented
<1>1. Init => Sticky!Init
  BY DEF Init, Sticky!Init
<1>2. RoutingInv /\ [Next]_vars => [Sticky!Next]_<<sessions, Route>>
  BY StickyStep, Zenon
<1>3. Sticky!Spec <=> Sticky!Init /\ [][Sticky!Next]_<<sessions, Route>>
  BY Zenon DEF Sticky!Spec, Route
<1> QED BY <1>1, <1>2, <1>3, Invariance, PTL DEF Spec, StickyRoutingImplemented

----------------------------------------------------------------------------
(* How a binding ends *)

\* A binding never moves, and only an acknowledged ReleaseSession of its key
\* ends it (release_session, forget_session).
THEOREM BindingsEndByRelease == Spec => BindingEndsByRelease
<1> USE NoneAssumption
<1>1. RoutingInv /\ [Next]_vars => [BindingKept]_vars
  <2> SUFFICES ASSUME RoutingInv, [Next]_vars PROVE BindingKept
    BY Zenon
  <2>1. CASE UNCHANGED sessions
    BY <2>1, Zenon DEF BindingKept
  <2>2. ASSUME NEW r \in Rpc, bind_session_if_absent(r)
        PROVE  BindingKept
    BY <2>2, Zenon DEF BindingKept, bind_session_if_absent, RoutingInv, TypeOK
  <2>3. ASSUME NEW r \in Rpc, forget_session(r)
        PROVE  BindingKept
    <3>1. pc[r] = "forget" /\ pc'[r] = "done" /\ kind[r] = "ReleaseSession"
      BY <2>3, Zenon DEF forget_session, AfterForget, Return, Leave, RoutingInv, TypeOK
    <3>2. sessions' = [sessions EXCEPT ![key[r]] = None]
      BY <2>3, Zenon DEF forget_session
    <3>3. ASSUME NEW k \in Key, sessions[k] # None, k = key[r]
          PROVE  sessions'[k] = None /\ Releases(k)
      BY <3>1, <3>2, <3>3 DEF Releases, RoutingInv, TypeOK
    <3>4. ASSUME NEW k \in Key, k # key[r]
          PROVE  sessions'[k] = sessions[k]
      BY <3>2, <3>4, Zenon DEF RoutingInv, TypeOK
    <3> QED BY <3>3, <3>4, Zenon DEF BindingKept
  <2>4. ASSUME NEW r \in Rpc, Handlers(r) \/ Progress(r) \/ Cancel(r, Suspended)
        PROVE  UNCHANGED sessions
    BY <2>4, ProgressFrame, Zenon
  <2>5. ASSUME NEW r \in Rpc,
               lookup_op(r) \/ lookup_session(r) \/ bind_op(r) \/ forget_op(r)
        PROVE  UNCHANGED sessions
    BY <2>5, Zenon DEF lookup_op, lookup_session, bind_op, forget_op, storeVars
  <2>6. CASE (\E p \in Pool : PoolChange(p)) \/ Quiet \/ UNCHANGED vars
    BY <2>1, <2>6, Zenon DEF PoolChange, Quiet, vars, storeVars
  <2> QED BY <2>1, <2>2, <2>3, <2>4, <2>5, <2>6, Zenon DEF Next, Step
<1> QED BY <1>1, Invariance, PTL DEF Spec, BindingEndsByRelease

----------------------------------------------------------------------------
(* How a call goes on *)

\* One more way is bind_op, after which an execute_plan sends.
GoesOn(r) == Arrives(r) \/ Goes(r) \/ bind_op(r) \/ Opens(r) \/ Ends(r) \/ Closes(r)

\* An RPC goes on in one of these ways, in the memory store too.
LEMMA StepShape ==
  ASSUME TypeOK, NEW r \in Rpc, RequestOK(r), CallOK(r),
         Handlers(r) \/ Step(r) \/ Cancel(r, Suspended)
  PROVE  GoesOn(r) /\ OthersLog(r)
<1>1. CASE Handlers(r) \/ Progress(r) \/ Cancel(r, Suspended)
  BY <1>1, ProgressShape, Zenon DEF GoesOn, Suspended
<1>2. CASE lookup_op(r)
  <2>1. pc[r] = "op" /\ kind[r] \in OpRouted /\ UNCHANGED audit
    BY <1>2, Zenon DEF lookup_op, AfterLookupOp, CallOK
  <2>2. CASE Forward(r, ops[op[r]])
    BY <2>1, <2>2, ForwardGoes, Zenon DEF GoesOn, Forward, OthersLog
  <2>3. CASE /\ pc' = [pc EXCEPT ![r] = "session"]
             /\ UNCHANGED <<kind, key, op, code, audit, streams>>
    BY <2>1, <2>3, QuietlyGoes, Zenon DEF GoesOn, Stages
  <2> QED BY <1>2, <2>2, <2>3, Zenon DEF lookup_op, AfterLookupOp
<1>3. ASSUME NEW b, pc[r] = "session" \/ pc[r] = "bind", RouteBySession(r, b),
             \/ audit' = audit
             \/ audit' = [audit EXCEPT ![r] = @ \cup {"session.create"}]
      PROVE  GoesOn(r) /\ OthersLog(r)
  <2>1. key[r] \in Key
    BY <1>3, Zenon DEF RequestOK
  <2>2. era'[r] # None
    <3>1. era \in [Rpc -> Nat \cup {None}] /\ epoch[key[r]] \in Nat
      BY <2>1, Zenon DEF TypeOK
    <3>2. era' = [era EXCEPT ![r] = epoch[key[r]]]
      BY <1>3, Zenon DEF RouteBySession
    <3>3. era'[r] \in Nat
      BY <3>1, <3>2, Zenon
    <3> QED BY <3>3, NoneAssumption
  <2>3. audit'[r] \cap FailureEvents = audit[r] \cap FailureEvents /\ OthersLog(r)
    BY <1>3 DEF TypeOK, FailureEvents, OthersLog, RouteBySession, Forward
  <2> QED BY <1>3, <2>2, <2>3, ForwardGoes, Zenon DEF GoesOn, RouteBySession
<1>4. CASE lookup_session(r)
  <2>1. pc[r] = "session"
    BY <1>4, Zenon DEF lookup_session, AsksStore
  <2>2. CASE RouteBySession(r, sessions[key[r]]) /\ UNCHANGED audit
    BY <1>3, <2>1, <2>2, Zenon
  <2>3. CASE Return(r, "Unavailable", {})
    BY <2>1, <2>3, ReturnEnds, Zenon DEF GoesOn, Codes
  <2>4. CASE /\ pc' = [pc EXCEPT ![r] = "bind"]
             /\ UNCHANGED <<kind, key, op, code, audit, streams>>
    BY <2>1, <2>4, QuietlyGoes, Zenon DEF GoesOn, Stages
  <2> QED BY <1>4, <2>2, <2>3, <2>4, Zenon DEF lookup_session, AfterLookup
<1>5. CASE bind_session_if_absent(r)
  <2>1. /\ pc[r] = "bind" /\ \E b : RouteBySession(r, b)
        /\ \/ audit' = audit
           \/ audit' = [audit EXCEPT ![r] = @ \cup {"session.create"}]
    BY <1>5, Zenon DEF bind_session_if_absent, AfterBind
  <2> QED BY <1>3, <2>1, Zenon
<1>6. CASE bind_op(r)
  BY <1>6, Zenon DEF bind_op, AfterRemember, OthersLog, GoesOn
<1>7. CASE forget_session(r) \/ forget_op(r)
  <2>1. /\ pc[r] = "forget"
        /\ Return(r, "OK", IF kind[r] = "ReleaseSession" THEN {"session.release"} ELSE {})
    BY <1>7, Zenon DEF forget_session, forget_op, AfterForget
  <2>2. (IF kind[r] = "ReleaseSession" THEN {"session.release"} ELSE {}) \cap FailureEvents = {}
    BY Zenon DEF FailureEvents
  <2> QED BY <2>1, <2>2, ReturnEnds, Zenon DEF GoesOn, Codes
<1> QED BY <1>1, <1>2, <1>4, <1>5, <1>6, <1>7, Zenon DEF Step

\* A step of an RPC keeps what is known of the calls.
LEMMA CallStep ==
  ASSUME RoutingInv, CallInv, NEW r \in Rpc,
         Handlers(r) \/ Step(r) \/ Cancel(r, Suspended)
  PROVE  CallInv'
<1>1. TypeOK /\ RequestInv /\ RequestOK(r) /\ CallOK(r)
  BY Zenon DEF RoutingInv, RequestInv, CallInv
<1>2. OnlyRpc(r)
  BY <1>1, StepRequests, Zenon
<1>3. GoesOn(r) /\ OthersLog(r)
  BY <1>1, StepShape, Zenon
<1> USE <1>1, <1>2, <1>3
<1>4. ASSUME NEW q \in Rpc \ {r}
      PROVE  CallOK(q)'
  <2>1. /\ CallOK(q) /\ pc'[q] = pc[q] /\ kind'[q] = kind[q]
        /\ code'[q] = code[q] /\ audit'[q] = audit[q]
    BY Zenon DEF CallInv, OnlyRpc, OthersLog
  <2> QED BY <2>1, Zenon DEF CallOK
<1>5. CallOK(r)'
  <2>1. CASE Arrives(r)
    BY <2>1, Zenon DEF Arrives, CallOK
  <2>2. CASE Goes(r)
    BY <2>2, Zenon DEF Goes, CallOK
  <2>3. CASE Opens(r)
    BY <2>3, NoneAssumption, Zenon DEF Opens, CallOK, Codes
  <2>4. CASE Ends(r)
    BY <2>4, NoneAssumption, Zenon DEF Ends, CallOK
  <2>5. CASE Closes(r)
    BY <2>5, Zenon DEF Closes, CallOK
  <2>6. CASE bind_op(r)
    BY <2>6, Zenon DEF bind_op, AfterRemember, CallOK, TypeOK
  <2> QED BY <2>1, <2>2, <2>3, <2>4, <2>5, <2>6, Zenon DEF GoesOn
<1> QED BY <1>4, <1>5, Zenon DEF CallInv

\* What is known of the calls holds throughout.
LEMMA Calls == Spec => []CallInv
<1>1. Init => CallInv
  BY Zenon DEF Init, CallInv, CallOK
<1>2. RoutingInv /\ CallInv /\ [Next]_vars => CallInv'
  <2> SUFFICES ASSUME RoutingInv, CallInv, [Next]_vars
               PROVE  CallInv'
    BY Zenon
  <2>1. CASE \E r \in Rpc : Handlers(r) \/ Step(r) \/ Cancel(r, Suspended)
    BY <2>1, CallStep, Zenon
  <2>2. CASE UNCHANGED rpcVars
    BY <2>2, Zenon DEF CallInv, CallOK, rpcVars
  <2> QED BY <2>1, <2>2, Zenon DEF Next, PoolChange, Quiet, vars
<1> QED BY <1>1, <1>2, Invariance, PTL DEF Spec


----------------------------------------------------------------------------
(* Where sessions and operations live *)

\* The request of an RPC that arrived stays what it is.
Kept ==
  \A q \in Rpc : kind[q] # None =>
    kind'[q] = kind[q] /\ key'[q] = key[q] /\ op'[q] = op[q]

\* No step of another RPC, and none of its own once it arrived, changes it.
LEMMA RequestsStay ==
  ASSUME TypeOK, NEW r \in Rpc, CallOK(r), GoesOn(r), OnlyRpc(r)
  PROVE  Kept
<1>1. kind[r] = None \/ UNCHANGED <<kind, key, op>>
  BY Zenon DEF CallOK, GoesOn, Arrives, Goes, bind_op, AfterRemember, Opens, Ends, Closes
<1> QED BY <1>1, Zenon DEF Kept, OnlyRpc

\* So a session that was not released or cloned into after a step was not
\* before it.
LEMMA SentStays ==
  ASSUME Kept, NEW k \in Key
  PROVE  /\ Sent("ReleaseSession", k) => Sent("ReleaseSession", k)'
         /\ CloneTarget(k) => CloneTarget(k)'
<1>1. ASSUME NEW kd \in SessionRouted, NEW x \in Key, Sent(kd, x)
      PROVE  Sent(kd, x)'
  <2>1. PICK q \in Rpc : kind[q] = kd /\ key[q] = x
    BY <1>1, Zenon DEF Sent
  <2>2. kind'[q] = kd /\ key'[q] = x
    BY <2>1, NoneAssumption, Zenon DEF Kept
  <2> QED BY <2>2, Zenon DEF Sent
<1>2. "ReleaseSession" \in SessionRouted /\ "CloneSession" \in SessionRouted
  BY Zenon DEF SessionRouted
<1>3. Sent("ReleaseSession", k) => Sent("ReleaseSession", k)'
  BY <1>1, <1>2, Zenon
<1>4. ASSUME CloneTarget(k)
      PROVE  CloneTarget(k)'
  <2>1. PICK x \in Key : CloneOf[x] = k /\ Sent("CloneSession", x)
    BY <1>4, Zenon DEF CloneTarget
  <2>2. Sent("CloneSession", x)'
    BY <1>1, <1>2, <2>1
  <2> QED BY <2>1, <2>2, Zenon DEF CloneTarget
<1> QED BY <1>3, <1>4, Zenon

\* How a handler reaches the points that the invariants speak of.
LEMMA Reaches ==
  ASSUME TypeOK, NEW r \in Rpc, CallOK(r), GoesOn(r)
  PROVE  /\ pc'[r] \in {"auth", "op"} => pc[r] \in {"new", "auth"}
         /\ pc[r] \in {"wait", "stream", "done"} /\ kind[r] = "ExecutePlan" =>
              pc'[r] \in {"wait", "stream", "done"}
         /\ pc'[r] \in {"remember", "send"} => bind_op(r) \/ Goes(r)
<1>1. CASE bind_op(r)
  <2>1. pc[r] = "remember" /\ pc'[r] = "send"
    BY <1>1, Zenon DEF bind_op, AfterRemember, TypeOK
  <2> QED BY <1>1, <2>1
<1>2. CASE Arrives(r) \/ Goes(r) \/ Opens(r) \/ Ends(r) \/ Closes(r)
  BY <1>2, Zenon DEF CallOK, Arrives, Goes, Opens, Ends, Closes
<1> QED BY <1>1, <1>2, Zenon DEF GoesOn

\* Which steps change the tables and what the drivers hold.
LEMMA Frames ==
  ASSUME NEW r \in Rpc, Handlers(r) \/ Step(r) \/ Cancel(r, Suspended)
  PROVE  /\ Deliver(r) \/ UNCHANGED <<hosts, running>>
         /\ bind_session_if_absent(r) \/ forget_session(r) \/ UNCHANGED sessions
         /\ forget_session(r) \/ UNCHANGED epoch
         /\ bind_op(r) \/ forget_op(r) \/ UNCHANGED ops
<1>1. CASE Handlers(r) \/ Progress(r) \/ Cancel(r, Suspended)
  <2>1. UNCHANGED <<sessions, ops, epoch>>
    BY <1>1, ProgressFrame, Zenon
  <2>2. CASE Handlers(r)
    BY <2>1, <2>2, HandlersArrive DEF Arrive, driverVars
  <2>3. CASE Progress(r) \/ Cancel(r, Suspended)
    BY <2>1, <2>3 DEF Progress, Cancel, authenticate_and_resolve, first_message,
                      resolve_unbound, ForwardFails, Reply, StreamEnd, driverVars
  <2> QED BY <1>1, <2>2, <2>3
<1>2. CASE lookup_op(r) \/ lookup_session(r)
  BY <1>2, Zenon DEF lookup_op, lookup_session, storeVars, driverVars
<1>3. CASE bind_session_if_absent(r) \/ bind_op(r)
  BY <1>3, Zenon DEF bind_session_if_absent, bind_op, driverVars
<1>4. CASE forget_session(r) \/ forget_op(r)
  BY <1>4, Zenon DEF forget_session, forget_op, driverVars
<1> QED BY <1>1, <1>2, <1>3, <1>4, Zenon DEF Step

\* A driver that gets a session's state was sent an RPC routed by that session,
\* or by one whose CloneSession names it.
LEMMA HostsGrow ==
  ASSUME TypeOK, NEW r \in Rpc, Deliver(r), key[r] \in Key,
         NEW k \in Key, NEW b \in hosts'[k], b \notin hosts[k], kind[r] \in RpcKind
  PROVE  /\ b = addr[r] /\ kind[r] \in SessionRouted
         /\ k = key[r] \/ CloneTarget(k)
<1>1. kind[r] \in SessionRouted
  BY Zenon DEF Deliver, Drive, SessionRouted, RpcKind
<1>2. CASE kind[r] = "ReleaseSession"
  <2>1. hosts'[k] \subseteq hosts[k]
    BY <1>2, Zenon DEF Deliver, Drive, TypeOK
  <2> QED BY <2>1, Zenon
<1>3. CASE kind[r] = "CloneSession"
  <2>1. hosts'[k] = IF k \in {key[r], CloneOf[key[r]]} THEN hosts[k] \cup {addr[r]}
                                                       ELSE hosts[k]
    BY <1>3 DEF Deliver, Drive
  <2>2. b = addr[r] /\ k \in {key[r], CloneOf[key[r]]}
    BY <2>1, Zenon
  <2> QED BY <1>1, <1>3, <2>2 DEF CloneTarget, Sent
<1>4. CASE kind[r] \notin {"ReleaseSession", "CloneSession"}
  <2>1. kind[r] \notin OpRouted
    BY <1>1, Zenon DEF SessionRouted, OpRouted
  <2>2. hosts' = [hosts EXCEPT ![key[r]] = @ \cup {addr[r]}]
    BY <1>4, <2>1, Zenon DEF Deliver, Drive
  <2>3. b = addr[r] /\ k = key[r]
    BY <2>2, Zenon DEF TypeOK
  <2> QED BY <1>1, <2>3, Zenon
<1> QED BY <1>2, <1>3, <1>4

\* What is known of the step of an RPC.
LEMMA StepFacts ==
  ASSUME RoutingInv, CallInv, NEW r \in Rpc,
         Handlers(r) \/ Step(r) \/ Cancel(r, Suspended)
  PROVE  /\ TypeOK /\ RequestOK(r) /\ EraOK(r) /\ CallOK(r)
         /\ OnlyRpc(r) /\ GoesOn(r) /\ Kept
<1>1. TypeOK /\ OnlyRpc(r) /\ RequestOK(r) /\ EraOK(r) /\ CallOK(r)
  BY StepRequests, RpcFacts, Zenon DEF RoutingInv, CallInv
<1> QED BY <1>1, StepShape, RequestsStay, Zenon

\* An RPC that is about to be sent by its session has an era.
LEMMA EraStep ==
  ASSUME TypeOK, HostInv, NEW r \in Rpc, CallOK(r), OnlyRpc(r), GoesOn(r),
         NEW q \in Rpc, kind'[q] \in SessionRouted, key'[q] \notin ZeroKey,
         pc'[q] \in {"remember", "send"}
  PROVE  era'[q] # None
<1>1. CASE q # r
  BY <1>1, Zenon DEF OnlyRpc, HostInv
<1>2. CASE q = r /\ bind_op(r)
  BY <1>2, Zenon DEF bind_op, AfterRemember, HostInv
<1>3. CASE q = r /\ Goes(r)
  BY <1>3, Zenon DEF Goes
<1> QED BY <1>1, <1>2, <1>3, Reaches

\* A key that nobody released is in its first epoch.
LEMMA EpochStep ==
  ASSUME TypeOK, HostInv, NEW r \in Rpc, Kept,
         Handlers(r) \/ Step(r) \/ Cancel(r, Suspended),
         NEW k \in Key, ~Sent("ReleaseSession", k)'
  PROVE  epoch'[k] = 0
<1>1. ~Sent("ReleaseSession", k) /\ epoch[k] = 0
  BY SentStays, Zenon DEF HostInv
<1>2. CASE forget_session(r)
  <2>1. kind[r] = "ReleaseSession" /\ epoch' = [epoch EXCEPT ![key[r]] = @ + 1]
    BY <1>2, Zenon DEF forget_session
  <2>2. key[r] # k
    BY <1>1, <2>1, Zenon DEF Sent
  <2> QED BY <1>1, <2>1, <2>2 DEF TypeOK
<1> QED BY <1>1, <1>2, Frames

\* The table keeps the binding of a key that nobody released.
LEMMA BindingStep ==
  ASSUME TypeOK, NEW r \in Rpc, Handlers(r) \/ Step(r) \/ Cancel(r, Suspended),
         NEW k \in Key, ~Sent("ReleaseSession", k), sessions[k] # None
  PROVE  sessions'[k] = sessions[k]
<1>1. CASE bind_session_if_absent(r)
  <2>1. sessions' = [sessions EXCEPT ![key[r]] =
          IF sessions[key[r]] = None THEN addr[r] ELSE sessions[key[r]]]
    BY <1>1, Zenon DEF bind_session_if_absent
  <2> QED BY <2>1, Zenon DEF TypeOK
<1>2. CASE forget_session(r)
  <2>1. key[r] # k /\ sessions' = [sessions EXCEPT ![key[r]] = None]
    BY <1>2, Zenon DEF forget_session, Sent
  <2> QED BY <2>1, Zenon DEF TypeOK
<1> QED BY <1>1, <1>2, Frames

\* A driver that gets the state of such a session is the one it is bound to.
LEMMA BoundDriver ==
  ASSUME TypeOK, HostInv, NEW r \in Rpc, RequestOK(r), EraOK(r), Deliver(r),
         NEW k \in Key \ ZeroKey, ~CloneTarget(k), epoch[k] = 0,
         NEW b \in hosts'[k], b \notin hosts[k]
  PROVE  sessions'[k] = b
<1>1. pc[r] = "send" /\ UNCHANGED sessions /\ key[r] \in Key /\ kind[r] \in RpcKind
  BY NoneAssumption DEF Deliver, storeVars, RequestOK, TypeOK
<1>2. b = addr[r] /\ kind[r] \in SessionRouted /\ k = key[r]
  BY <1>1, HostsGrow
<1>3. era[r] # None
  BY <1>1, <1>2 DEF HostInv
<1>4. era[r] = epoch[k]
  BY <1>2, <1>3, NoneAssumption DEF EraOK, TypeOK
<1> QED BY <1>1, <1>2, <1>3, <1>4 DEF EraOK

\* A step of an RPC keeps what is known of the drivers' sessions.
LEMMA HostStep ==
  ASSUME RoutingInv, CallInv, HostInv, NEW r \in Rpc,
         Handlers(r) \/ Step(r) \/ Cancel(r, Suspended)
  PROVE  HostInv'
<1>1. /\ TypeOK /\ RequestOK(r) /\ EraOK(r) /\ CallOK(r)
      /\ OnlyRpc(r) /\ GoesOn(r) /\ Kept
  BY StepFacts, Zenon
<1>2. ASSUME NEW k \in Key \ ZeroKey, ~Sent("ReleaseSession", k)', ~CloneTarget(k)',
             NEW b \in hosts'[k]
      PROVE  sessions'[k] = b
  <2>1. ~Sent("ReleaseSession", k) /\ ~CloneTarget(k)
    BY <1>1, <1>2, SentStays
  <2>2. CASE b \in hosts[k]
    <3>1. sessions[k] = b /\ b # None
      BY <1>1, <2>1, <2>2, NoneAssumption DEF HostInv, TypeOK
    <3> QED BY <1>1, <2>1, <3>1, BindingStep
  <2>3. CASE b \notin hosts[k]
    <3>1. Deliver(r) /\ epoch[k] = 0
      BY <1>2, <2>1, <2>3, Frames DEF HostInv
    <3> QED BY <1>1, <1>2, <2>1, <2>3, <3>1, BoundDriver
  <2> QED BY <2>2, <2>3, Zenon
<1> QED BY <1>1, <1>2, EraStep, EpochStep, Zenon DEF HostInv

\* An operation that was minted once and not released after a step was so
\* before it.
LEMMA UntouchedStays ==
  ASSUME TypeOK, CallInv, NEW r \in Rpc, OnlyRpc(r), GoesOn(r), Kept,
         NEW o \in Op, Untouched(o)'
  PROVE  Untouched(o)
<1>1. ASSUME NEW q \in Rpc, NEW kd \in {"ExecutePlan"} \cup Release, Carries(q, kd, o)
      PROVE  Carries(q, kd, o)'
  BY <1>1, NoneAssumption, Zenon DEF Carries, Kept, SessionRouted, OpRouted, Release
<1>2. MintedOnce(o)
  BY <1>1, Zenon DEF Untouched, MintedOnce
<1>3. ASSUME NEW q \in Rpc, NEW kd \in Release, Carries(q, kd, o)
      PROVE  pc[q] \in {"auth", "op"}
  <2>1. pc'[q] \in {"auth", "op"} /\ CallOK(r)
    BY <1>1, <1>3 DEF Untouched, CallInv
  <2>2. pc[q] # "new"
    BY <1>3, NoneAssumption DEF Carries, CallInv, CallOK, Release, OpRouted
  <2> QED BY <2>1, <2>2, Reaches DEF OnlyRpc
<1> QED BY <1>2, <1>3, Zenon DEF Untouched

\* Only the bind_op of its execute_plan changes the entry of such an operation.
LEMMA EntryStays ==
  ASSUME TypeOK, NEW r \in Rpc, RequestOK(r),
         Handlers(r) \/ Step(r) \/ Cancel(r, Suspended),
         NEW o \in Op, Untouched(o), ops'[o] # ops[o]
  PROVE  Carries(r, "ExecutePlan", o) /\ pc[r] = "remember"
<1>1. CASE bind_op(r)
  <2>1. pc[r] = "remember" /\ ops' = [ops EXCEPT ![op[r]] = addr[r]]
    BY <1>1, Zenon DEF bind_op, AfterRemember
  <2> QED BY <2>1 DEF Carries, RequestOK, TypeOK
<1>2. CASE forget_op(r)
  <2>1. pc[r] = "forget" /\ kind[r] \in Release /\ ops' = [ops EXCEPT ![op[r]] = None]
    BY <1>2, Zenon DEF forget_op, AfterForget
  <2>2. op[r] = o
    BY <2>1, Zenon DEF TypeOK
  <2> QED BY <2>1, <2>2 DEF Untouched, Carries
<1> QED BY <1>1, <1>2, Frames

\* A driver that starts an operation was sent its execute_plan.
LEMMA OperationStarts ==
  ASSUME TypeOK, NEW r \in Rpc, Handlers(r) \/ Step(r) \/ Cancel(r, Suspended),
         NEW o \in Op, NEW b \in running'[o], b \notin running[o]
  PROVE  /\ pc[r] = "send" /\ pc'[r] = "wait" /\ Carries(r, "ExecutePlan", o)
         /\ addr[r] = b /\ UNCHANGED <<ops, kind, op>>
<1>1. Deliver(r)
  BY Frames, Zenon
<1>2. pc[r] = "send" /\ kind[r] = "ExecutePlan" /\ op[r] = o /\ addr[r] = b
  BY <1>1, ProgressRunning, Zenon DEF Progress
<1>3. pc'[r] = "wait" /\ UNCHANGED <<ops, kind, op>>
  BY <1>1, Zenon DEF Deliver, TypeOK, storeVars
<1> QED BY <1>2, <1>3 DEF Carries

\* An operation that runs has an execute_plan that was sent.
LEMMA RunningStep ==
  ASSUME TypeOK, IndexInv, NEW r \in Rpc, CallOK(r), OnlyRpc(r), GoesOn(r), Kept,
         Handlers(r) \/ Step(r) \/ Cancel(r, Suspended),
         NEW o \in Op, NEW b \in running'[o]
  PROVE  \E q \in Rpc : /\ Carries(q, "ExecutePlan", o)'
                        /\ pc'[q] \in {"wait", "stream", "done"}
<1>1. CASE b \in running[o]
  <2>1. PICK q \in Rpc : /\ Carries(q, "ExecutePlan", o)
                         /\ pc[q] \in {"wait", "stream", "done"}
    BY <1>1, Zenon DEF IndexInv
  <2>2. Carries(q, "ExecutePlan", o)'
    BY <2>1, NoneAssumption DEF Carries, Kept, SessionRouted
  <2>3. pc'[q] \in {"wait", "stream", "done"}
    BY <2>1, Reaches DEF OnlyRpc, Carries
  <2> QED BY <2>2, <2>3, Zenon
<1>2. CASE b \notin running[o]
  BY <1>2, OperationStarts DEF Carries
<1> QED BY <1>1, <1>2

\* The driver that runs an untouched operation is the one in the index.
LEMMA EntryStep ==
  ASSUME TypeOK, IndexInv, NEW r \in Rpc, RequestOK(r),
         Handlers(r) \/ Step(r) \/ Cancel(r, Suspended),
         NEW o \in Op, Untouched(o), NEW b \in running'[o]
  PROVE  ops'[o] = b
<1>1. CASE b \in running[o]
  <2>1. PICK q \in Rpc : /\ Carries(q, "ExecutePlan", o)
                         /\ pc[q] \in {"wait", "stream", "done"}
    BY <1>1, Zenon DEF IndexInv
  <2>2. Carries(r, "ExecutePlan", o) => r = q
    BY <2>1, Zenon DEF Untouched, MintedOnce
  <2>3. ops'[o] = ops[o]
    BY <2>1, <2>2, EntryStays
  <2> QED BY <1>1, <2>3, Zenon DEF IndexInv
<1>2. CASE b \notin running[o]
  BY <1>2, OperationStarts DEF IndexInv
<1> QED BY <1>1, <1>2, Zenon

\* So is the one its execute_plan is about to be sent to.
LEMMA SendStep ==
  ASSUME TypeOK, IndexInv, NEW r \in Rpc, RequestOK(r), CallOK(r), OnlyRpc(r),
         GoesOn(r), Handlers(r) \/ Step(r) \/ Cancel(r, Suspended),
         NEW o \in Op, Untouched(o), NEW q \in Rpc,
         Carries(q, "ExecutePlan", o)', pc'[q] = "send"
  PROVE  ops'[o] = addr'[q]
<1>1. CASE q # r
  <2>1. Carries(q, "ExecutePlan", o) /\ pc[q] = "send" /\ addr'[q] = addr[q]
    BY <1>1, Zenon DEF OnlyRpc, Carries
  <2>2. ~Carries(r, "ExecutePlan", o)
    BY <1>1, <2>1, Zenon DEF Untouched, MintedOnce
  <2>3. ops'[o] = ops[o]
    BY <2>2, EntryStays
  <2> QED BY <2>1, <2>3, Zenon DEF IndexInv
<1>2. CASE q = r
  <2>1. bind_op(r) \/ Goes(r)
    BY <1>2, Reaches
  <2>2. bind_op(r) /\ op[r] = o
    BY <1>2, <2>1, NoneAssumption DEF Goes, bind_op, AfterRemember, Carries
  <2> QED BY <1>2, <2>2 DEF bind_op, AfterRemember, TypeOK
<1> QED BY <1>1, <1>2, Zenon

\* A step of an RPC keeps what is known of the operation index.
LEMMA IndexStep ==
  ASSUME RoutingInv, CallInv, IndexInv, NEW r \in Rpc,
         Handlers(r) \/ Step(r) \/ Cancel(r, Suspended)
  PROVE  IndexInv'
<1>1. TypeOK /\ RequestOK(r) /\ CallOK(r) /\ OnlyRpc(r) /\ GoesOn(r) /\ Kept
  BY StepFacts, Zenon
<1>2. ASSUME NEW o \in Op, NEW b \in running'[o]
      PROVE  \E q \in Rpc : /\ Carries(q, "ExecutePlan", o)'
                            /\ pc'[q] \in {"wait", "stream", "done"}
  BY <1>1, <1>2, RunningStep
<1>3. ASSUME NEW o \in Op, Untouched(o)'
      PROVE  /\ \A b \in running'[o] : ops'[o] = b
             /\ \A q \in Rpc :
                  Carries(q, "ExecutePlan", o)' /\ pc'[q] = "send" => ops'[o] = addr'[q]
  <2>1. Untouched(o)
    BY <1>1, <1>3, UntouchedStays
  <2> QED BY <1>1, <2>1, EntryStep, SendStep
<1> QED BY <1>2, <1>3, Zenon DEF IndexInv

\* What is known of the drivers and of the index holds throughout.
LEMMA Places == Spec => [](HostInv /\ IndexInv)
<1>1. Init => HostInv /\ IndexInv
  <2> SUFFICES ASSUME Init
               PROVE  HostInv /\ IndexInv
    BY Zenon
  <2>1. HostInv
    BY Zenon DEF Init, HostInv
  <2>2. IndexInv
    BY NoneAssumption, Zenon DEF Init, IndexInv, Carries
  <2> QED BY <2>1, <2>2
<1>2. RoutingInv /\ CallInv /\ HostInv /\ IndexInv /\ [Next]_vars
        => (HostInv /\ IndexInv)'
  <2> SUFFICES ASSUME RoutingInv, CallInv, HostInv, IndexInv, [Next]_vars
               PROVE  HostInv' /\ IndexInv'
    BY Zenon
  <2>1. CASE \E r \in Rpc : Handlers(r) \/ Step(r) \/ Cancel(r, Suspended)
    BY <2>1, HostStep, IndexStep
  <2>2. CASE UNCHANGED <<rpcVars, storeVars, driverVars, era>>
    <3>1. HostInv'
      BY <2>2, Zenon
         DEF HostInv, Sent, CloneTarget, rpcVars, storeVars, driverVars
    <3>2. ASSUME NEW o \in Op
          PROVE  Untouched(o)' <=> Untouched(o)
      BY <2>2, Zenon DEF Untouched, MintedOnce, Carries, rpcVars
    <3>3. IndexInv'
      BY <2>2, <3>2 DEF IndexInv, Carries, rpcVars, storeVars, driverVars
    <3> QED BY <3>1, <3>3
  <2> QED BY <2>1, <2>2, Zenon DEF Next, PoolChange, Quiet, vars
<1> QED BY <1>1, <1>2, Invariance, Calls, PTL DEF Spec

\* The point of session affinity: while nobody releases a session or clones
\* into it, at most one driver ever holds state for it, however the lookups and
\* binds of resolve_session_detailed race.
THEOREM SessionsStay == Spec => []SessionOnOneDriver
<1>1. HostInv => SessionOnOneDriver
  BY Zenon DEF HostInv, SessionOnOneDriver
<1> QED BY <1>1, Places, PTL

\* Reattach, release and interrupt follow an operation to the driver that runs
\* it, under any session id, because execute_plan's remember_op comes before
\* the request is sent (Router::resolve_op).
THEOREM OperationsReached == Spec => OpReachesDriver
<1> DEFINE Reached(r) ==
      /\ pc[r] = "op" /\ pc'[r] # "op"
      /\ MintedOnce(op[r])
      /\ \A q \in Rpc \ {r}, kd \in Release : ~Carries(q, kd, op[r])
      => running[op[r]] = {} \/ addr'[r] \in running[op[r]]
<1>1. RoutingInv /\ IndexInv /\ [Next]_vars => [\A r \in Rpc : Reached(r)]_vars
  <2> SUFFICES ASSUME RoutingInv, IndexInv, Next, NEW r \in Rpc,
                      pc[r] = "op", pc'[r] # "op",
                      MintedOnce(op[r]),
                      \A q \in Rpc \ {r}, kd \in Release : ~Carries(q, kd, op[r]),
                      NEW b \in running[op[r]]
               PROVE  addr'[r] \in running[op[r]]
    BY Zenon
  <2>1. TypeOK /\ RequestInv /\ RequestOK(r)
    BY RpcFacts, Zenon DEF RoutingInv
  <2>2. op[r] \in Op
    BY <2>1 DEF RequestOK, TypeOK
  <2>3. lookup_op(r)
    <3>1. PICK q \in Rpc : Handlers(q) \/ Step(q) \/ Cancel(q, Suspended)
      BY Zenon DEF Next, PoolChange, Quiet, rpcVars, vars
    <3>2. q = r
      BY <2>1, <3>1, StepRequests DEF OnlyRpc
    <3>3. ~(Handlers(r) \/ Progress(r) \/ Cancel(r, Suspended))
      BY <2>1, ProgressPlaces DEF Suspended
    <3> QED BY <3>1, <3>2, <3>3
            DEF Step, lookup_session, AsksStore, bind_session_if_absent, bind_op,
                AfterRemember, forget_session, forget_op, AfterForget
  <2>4. ops[op[r]] = b
    BY <2>2 DEF IndexInv, Untouched
  <2>5. b # None
    BY <2>1, <2>2, NoneAssumption DEF TypeOK
  <2>6. addr' = [addr EXCEPT ![r] = b]
    BY <2>3, <2>4, <2>5 DEF lookup_op, AfterLookupOp, Forward
  <2> QED BY <2>1, <2>6 DEF TypeOK
<1> QED BY <1>1, Invariance, Places, PTL DEF Spec, OpReachesDriver
=============================================================================
