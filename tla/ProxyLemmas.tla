---------------------------- MODULE ProxyLemmas ----------------------------
(***************************************************************************)
(* Lemmas about Proxy that hold whatever affinity store it is joined to:   *)
(* what its operators return, and that the handlers' steps preserve the    *)
(* types and what is known of a request at each point of its handler.      *)
(***************************************************************************)
EXTENDS Proxy, TLAPS

----------------------------------------------------------------------------
(* Facts about the operators of Proxy *)

\* pool_for answers a pool, None or "Denied", and these are told apart.
LEMMA PoolForType ==
  ASSUME NEW t \in Tenant
  PROVE  pool_for(t) \in Pool \cup {None, "Denied"}
BY PoolsAssumption, Zenon DEF pool_for

\* The backends a tenant may use are backends.
LEMMA AllowedType ==
  ASSUME NEW t \in Tenant
  PROVE  Allowed(t) \subseteq Backend
BY PoolsAssumption, Zenon DEF Allowed

\* Every handler starts with an Arrive.
LEMMA HandlersArrive ==
  ASSUME NEW r \in Rpc, Handlers(r)
  PROVE  \E kd \in RpcKind, k \in Key, o \in Op \cup {None} : Arrive(r, kd, k, o)
<1> DEFINE Goal == \E kd \in RpcKind, k \in Key, o \in Op \cup {None} : Arrive(r, kd, k, o)
<1>0. \A kd \in Kinds[r] : kd \in RpcKind
  BY KindsAssumption, Zenon
<1>1. ASSUME NEW kd, NEW k \in Key, Arrive(r, kd, k, None)
      PROVE  Goal
  BY <1>0, <1>1, Zenon DEF Arrive
<1>2. ASSUME NEW kd, NEW k \in Key, NEW o \in Op \cup {None}, Arrive(r, kd, k, o)
      PROVE  Goal
  BY <1>0, <1>2, Zenon DEF Arrive
<1>3. CASE execute_plan(r) BY <1>3, <1>2, Zenon DEF execute_plan
<1>4. CASE interrupt(r) BY <1>4, <1>2, Zenon DEF interrupt
<1>5. CASE release_execute(r) BY <1>5, <1>2, Zenon DEF release_execute
<1>6. CASE reattach_execute(r) BY <1>6, <1>2, Zenon DEF reattach_execute
<1>7. CASE analyze_plan(r) \/ config(r) \/ artifact_status(r) \/ release_session(r)
  BY <1>7, <1>1, Zenon DEF analyze_plan, config, artifact_status, release_session
<1>8. CASE \/ fetch_error_details(r) \/ clone_session(r) \/ get_status(r)
           \/ add_artifacts(r)
  BY <1>8, <1>1, Zenon DEF fetch_error_details, clone_session, get_status, add_artifacts
<1> QED BY <1>3, <1>4, <1>5, <1>6, <1>7, <1>8, Zenon DEF Handlers

\* What finalise_rpc adds to the audit log are audit events.
LEMMA FinaliseType ==
  ASSUME NEW r \in Rpc, NEW c \in Codes
  PROVE  finalise_rpc(r, c) \subseteq Events
BY Zenon DEF finalise_rpc, Events

\* Returning keeps the type of what it changes.
LEMMA ReturnType ==
  ASSUME TypeOK, NEW r \in Rpc, NEW c \in Codes, NEW ev \in SUBSET Events,
         Return(r, c, ev)
  PROVE  /\ pc' \in [Rpc -> Stages]
         /\ code' \in [Rpc -> Codes \cup {None}]
         /\ audit' \in [Rpc -> SUBSET Events]
         /\ streams' \in Int
         /\ pc' = [pc EXCEPT ![r] = "done"]
         /\ UNCHANGED <<kind, key, op>>
BY FinaliseType DEF Return, Leave, TypeOK, Stages

----------------------------------------------------------------------------
(* Type correctness *)

\* No step of an RPC outside the store breaks the types.
LEMMA ProgressType ==
  ASSUME TypeOK, RequestInv, NEW r \in Rpc, NEW S,
         Handlers(r) \/ Progress(r) \/ Cancel(r, S)
  PROVE  TypeOK'
<1> USE NoneAssumption, KeysAssumption
<1>1. CASE Handlers(r)
  <2>1. PICK kd \in RpcKind, k \in Key, o \in Op \cup {None} : Arrive(r, kd, k, o)
    BY <1>1, HandlersArrive, Zenon
  <2> QED BY <2>1 DEF Arrive, TypeOK, Stages, storeVars, driverVars
<1>2. CASE Cancel(r, S)
  BY <1>2 DEF Cancel, Leave, TypeOK, Stages, Codes, storeVars, driverVars
<1>3. CASE authenticate_and_resolve(r)
  <2>1. CASE Return(r, "Unauthenticated", {"auth.failure"}) /\ UNCHANGED addr
    BY <1>3, <2>1, ReturnType, Zenon
       DEF authenticate_and_resolve, TypeOK, Codes, Events, storeVars, driverVars
  <2>2. CASE Return(r, "ResourceExhausted", {}) /\ UNCHANGED addr
    BY <1>3, <2>2, ReturnType
       DEF authenticate_and_resolve, TypeOK, Codes, storeVars, driverVars
  <2>3. CASE /\ \E s \in Stages : pc' = [pc EXCEPT ![r] = s]
             /\ UNCHANGED <<kind, key, op, addr, code, audit, streams>>
    BY <1>3, <2>3 DEF authenticate_and_resolve, TypeOK, storeVars, driverVars
  <2> QED BY <1>3, <2>1, <2>2, <2>3, Zenon DEF authenticate_and_resolve, Stages
<1>4. CASE first_message(r)
  <2>1. CASE \E c \in {"InvalidArgument", "Cancelled"} : Return(r, c, {})
    BY <1>4, <2>1, ReturnType DEF first_message, TypeOK, Codes, storeVars, driverVars
  <2>2. CASE /\ pc' = [pc EXCEPT ![r] = "session"]
             /\ UNCHANGED <<kind, key, op, code, audit, streams>>
    BY <1>4, <2>2, Zenon DEF first_message, TypeOK, Stages, storeVars, driverVars
  <2> QED BY <1>4, <2>1, <2>2, Zenon DEF first_message
<1>5. CASE resolve_unbound(r)
  <2>1. CASE /\ \E c \in {"PermissionDenied", "Unavailable"} : Return(r, c, {})
             /\ UNCHANGED addr
    BY <1>5, <2>1, ReturnType DEF resolve_unbound, TypeOK, Codes, storeVars, driverVars
  <2>2. CASE /\ PoolOf(r) \in Pool
             /\ \E b \in members[PoolOf(r)] : Forward(r, b)
             /\ UNCHANGED audit
    BY <1>5, <2>2 DEF resolve_unbound, Forward, TypeOK, Stages, storeVars, driverVars
  <2> QED BY <1>5, <2>1, <2>2, Zenon DEF resolve_unbound
<1>6. CASE Deliver(r)
  <2>1. /\ addr[r] \in Backend
        /\ key[r] \in Key
    BY <1>6 DEF Deliver, RequestInv, RequestOK, TypeOK
  <2>2. hosts' \in [Key -> SUBSET Backend]
    BY <1>6, <2>1 DEF Deliver, Drive, TypeOK
  <2>3. running' \in [Op -> SUBSET Backend]
    BY <1>6, <2>1 DEF Deliver, Drive, TypeOK
  <2> QED BY <1>6, <2>2, <2>3, Zenon DEF Deliver, TypeOK, Stages, storeVars
<1>7. CASE ForwardFails(r)
  BY <1>7, ReturnType DEF ForwardFails, TypeOK, Codes, storeVars, driverVars
<1>8. CASE Reply(r)
  <2>1. CASE Return(r, "OK", {})
    BY <1>8, <2>1, ReturnType DEF Reply, TypeOK, Codes, storeVars, driverVars
  <2>2. CASE /\ pc' = [pc EXCEPT ![r] = "forget"]
             /\ UNCHANGED <<kind, key, op, code, audit, streams>>
    BY <1>8, <2>2, Zenon DEF Reply, TypeOK, Stages, storeVars, driverVars
  <2>3. CASE /\ pc' = [pc EXCEPT ![r] = "stream"]
             /\ code' = [code EXCEPT ![r] = "OK"]
             /\ audit' = [audit EXCEPT ![r] = @ \cup finalise_rpc(r, "OK")]
             /\ UNCHANGED <<kind, key, op, streams>>
    BY <1>8, <2>3, FinaliseType, Zenon DEF Reply, TypeOK, Stages, Codes, storeVars, driverVars
  <2> QED BY <1>8, <2>1, <2>2, <2>3, Zenon DEF Reply
<1>9. CASE StreamEnd(r)
  BY <1>9 DEF StreamEnd, TypeOK, Stages, storeVars, driverVars
<1> QED
  BY <1>1, <1>2, <1>3, <1>4, <1>5, <1>6, <1>7, <1>8, <1>9, Zenon DEF Progress

----------------------------------------------------------------------------
(* What is known of a request *)

\* A step of r leaves the record of every other RPC alone.
OnlyRpc(r) ==
  \A q \in Rpc \ {r} : /\ pc'[q] = pc[q] /\ kind'[q] = kind[q] /\ key'[q] = key[q]
                       /\ op'[q] = op[q] /\ addr'[q] = addr[q] /\ era'[q] = era[q]

\* Then only r's own record has to be looked at.
LEMMA RequestKept ==
  ASSUME RequestInv, NEW r \in Rpc, OnlyRpc(r), RequestOK(r)'
  PROVE  RequestInv'
<1>1. ASSUME NEW q \in Rpc \ {r}
      PROVE  RequestOK(q)'
  <2>1. RequestOK(q)
    BY Zenon DEF RequestInv
  <2>2. Forgets(q)' <=> Forgets(q)
    BY Zenon DEF OnlyRpc, Forgets
  <2> QED BY <2>1, <2>2, Zenon DEF OnlyRpc, RequestOK
<1> QED BY <1>1, Zenon DEF RequestInv

\* A step that is not an RPC's.
LEMMA RequestStill ==
  ASSUME RequestInv, UNCHANGED <<pc, kind, key, op, addr, era>>
  PROVE  RequestInv'
<1>1. ASSUME NEW q \in Rpc
      PROVE  RequestOK(q)'
  <2>1. RequestOK(q)
    BY Zenon DEF RequestInv
  <2> QED BY <2>1, Zenon DEF RequestOK, Forgets
<1> QED BY <1>1, Zenon DEF RequestInv

\* A handler that goes on to point s with its request, address and era as they
\* are, if what RequestOK says of s is true of it.
LEMMA RequestMove ==
  ASSUME TypeOK, NEW r \in Rpc, RequestOK(r),
         NEW s \in Stages \ {"new", "auth", "bind"},
         pc[r] # "new",
         pc' = [pc EXCEPT ![r] = s],
         UNCHANGED <<kind, key, op, addr, era>>,
         s = "op" => kind[r] \in OpRouted /\ op[r] # None,
         s = "remember" => kind[r] = "ExecutePlan" /\ op[r] # None,
         s = "forget" => Forgets(r),
         s \in {"first", "op", "session"} => addr[r] = None /\ era[r] = None,
         s \in {"remember", "send"} => addr[r] # None
  PROVE  RequestOK(r)' /\ OnlyRpc(r)
<1>1. pc'[r] = s /\ OnlyRpc(r)
  BY Zenon DEF TypeOK, OnlyRpc
<1>2. Forgets(r)' <=> Forgets(r)
  BY Zenon DEF Forgets
<1> QED BY <1>1, <1>2, Zenon DEF RequestOK

\* A handler that ends.
LEMMA RequestReturn ==
  ASSUME TypeOK, NEW r \in Rpc, RequestOK(r), pc[r] # "new",
         NEW c, NEW ev, Return(r, c, ev) \/ Leave(r, c, ev),
         UNCHANGED <<addr, era>>
  PROVE  RequestOK(r)' /\ OnlyRpc(r)
<1>1. /\ pc' = [pc EXCEPT ![r] = "done"]
      /\ UNCHANGED <<kind, key, op>>
  BY Zenon DEF Return, Leave
<1> QED BY <1>1, RequestMove, Zenon DEF Stages

\* A handler that knows the address b, with or without an era.
LEMMA RequestForward ==
  ASSUME TypeOK, NEW r \in Rpc, RequestOK(r), pc[r] \in {"op", "session", "bind"},
         NEW b \in Backend, Forward(r, b),
         UNCHANGED era \/ era' = [era EXCEPT ![r] = epoch[key[r]]]
  PROVE  RequestOK(r)' /\ OnlyRpc(r)
<1>1. key[r] \in Key /\ kind[r] # None
  BY Zenon DEF RequestOK
<1>2. /\ addr'[r] = b /\ UNCHANGED <<kind, key, op>>
      /\ pc'[r] = IF kind[r] = "ExecutePlan" /\ op[r] # None THEN "remember" ELSE "send"
  BY Zenon DEF Forward, TypeOK
<1>3. OnlyRpc(r)
  BY Zenon DEF Forward, TypeOK, OnlyRpc
<1>4. b # None
  BY NoneAssumption, Zenon
<1>5. Forgets(r)' <=> Forgets(r)
  BY <1>2, Zenon DEF Forgets
<1> QED BY <1>1, <1>2, <1>3, <1>4, <1>5, Zenon DEF RequestOK

\* Every step of an RPC outside the store keeps RequestInv and touches no other
\* RPC.
LEMMA RequestProgress ==
  ASSUME TypeOK, RequestInv, NEW r \in Rpc, NEW S, "new" \notin S,
         Handlers(r) \/ Progress(r) \/ Cancel(r, S)
  PROVE  RequestInv' /\ OnlyRpc(r)
<1>0. RequestOK(r)
  BY Zenon DEF RequestInv
<1> SUFFICES RequestOK(r)' /\ OnlyRpc(r)
  BY RequestKept, Zenon
<1>1. CASE Handlers(r)
  <2>1. PICK kd \in RpcKind, k \in Key, o \in Op \cup {None} : Arrive(r, kd, k, o)
    BY <1>1, HandlersArrive, Zenon
  <2>2. addr[r] = None /\ era[r] = None
    BY <1>0, <2>1, Zenon DEF Arrive, RequestOK
  <2>3. /\ UNCHANGED <<addr, era>>
        /\ pc'[r] = "auth" /\ key'[r] = k /\ kind'[r] = kd /\ op'[r] = o
        /\ OnlyRpc(r)
    BY <2>1, Zenon DEF Arrive, TypeOK, OnlyRpc
  <2>4. kd # None
    BY NoneAssumption, Zenon DEF RpcKind
  <2> QED BY <2>1, <2>2, <2>3, <2>4, Zenon DEF RequestOK
<1>2. CASE Cancel(r, S)
  <2>1. pc[r] # "new" /\ Leave(r, "Cancelled", {}) /\ UNCHANGED <<addr, era>>
    BY <1>2, Zenon DEF Cancel
  <2> QED BY <1>0, <2>1, RequestReturn, Zenon
<1>3. CASE authenticate_and_resolve(r)
  <2>1. pc[r] = "auth" /\ addr[r] = None /\ era[r] = None /\ UNCHANGED <<addr, era>>
    BY <1>0, <1>3, Zenon DEF authenticate_and_resolve, RequestOK
  <2>2. CASE \/ Return(r, "Unauthenticated", {"auth.failure"})
             \/ Return(r, "ResourceExhausted", {})
    BY <1>0, <2>1, <2>2, RequestReturn, Zenon
  <2>3. CASE /\ \E s \in {"first", "op", "session"} :
                  /\ pc' = [pc EXCEPT ![r] = s]
                  /\ s = "op" => kind[r] \in OpRouted /\ op[r] # None
             /\ UNCHANGED <<kind, key, op>>
    BY <1>0, <2>1, <2>3, RequestMove, Zenon DEF Stages
  <2> QED BY <1>3, <2>2, <2>3, Zenon DEF authenticate_and_resolve
<1>4. CASE first_message(r)
  <2>1. pc[r] = "first" /\ addr[r] = None /\ era[r] = None /\ UNCHANGED <<addr, era>>
    BY <1>0, <1>4, Zenon DEF first_message, RequestOK
  <2>2. CASE \E c \in {"InvalidArgument", "Cancelled"} : Return(r, c, {})
    BY <1>0, <2>1, <2>2, RequestReturn, Zenon
  <2>3. CASE pc' = [pc EXCEPT ![r] = "session"] /\ UNCHANGED <<kind, key, op>>
    BY <1>0, <2>1, <2>3, RequestMove, Zenon DEF Stages
  <2> QED BY <1>4, <2>2, <2>3, Zenon DEF first_message
<1>5. CASE resolve_unbound(r)
  <2>1. pc[r] = "session" /\ UNCHANGED era
    BY <1>5, Zenon DEF resolve_unbound
  <2>2. CASE /\ \E c \in {"PermissionDenied", "Unavailable"} : Return(r, c, {})
             /\ UNCHANGED addr
    BY <1>0, <2>1, <2>2, RequestReturn, Zenon
  <2>3. CASE PoolOf(r) \in Pool /\ \E b \in members[PoolOf(r)] : Forward(r, b)
    <3>1. PICK b \in Backend : Forward(r, b)
      BY <2>3, Zenon DEF TypeOK
    <3> QED BY <1>0, <2>1, <3>1, RequestForward, Zenon
  <2> QED BY <1>5, <2>2, <2>3, Zenon DEF resolve_unbound
<1>6. CASE Deliver(r)
  <2>1. /\ pc[r] = "send" /\ pc' = [pc EXCEPT ![r] = "wait"]
        /\ UNCHANGED <<kind, key, op, addr, era>>
    BY <1>6, Zenon DEF Deliver
  <2> QED BY <1>0, <2>1, RequestMove, Zenon DEF Stages
<1>7. CASE ForwardFails(r)
  <2>1. /\ pc[r] # "new" /\ \E c : Return(r, c, {})
        /\ UNCHANGED <<addr, era>>
    BY <1>7, Zenon DEF ForwardFails
  <2> QED BY <1>0, <2>1, RequestReturn, Zenon
<1>8. CASE Reply(r)
  <2>1. pc[r] = "wait" /\ UNCHANGED <<addr, era>>
    BY <1>8, Zenon DEF Reply
  <2>2. CASE Return(r, "OK", {})
    BY <1>0, <2>1, <2>2, RequestReturn, Zenon
  <2>3. CASE /\ Forgets(r)
             /\ pc' = [pc EXCEPT ![r] = "forget"]
             /\ UNCHANGED <<kind, key, op>>
    BY <1>0, <2>1, <2>3, RequestMove, Zenon DEF Stages
  <2>4. CASE pc' = [pc EXCEPT ![r] = "stream"] /\ UNCHANGED <<kind, key, op>>
    BY <1>0, <2>1, <2>4, RequestMove, Zenon DEF Stages
  <2> QED BY <1>8, <2>2, <2>3, <2>4, Zenon DEF Reply
<1>9. CASE StreamEnd(r)
  <2>1. /\ pc[r] = "stream" /\ pc' = [pc EXCEPT ![r] = "done"]
        /\ UNCHANGED <<kind, key, op, addr, era>>
    BY <1>9, Zenon DEF StreamEnd
  <2> QED BY <1>0, <2>1, RequestMove, Zenon DEF Stages
<1> QED
  BY <1>1, <1>2, <1>3, <1>4, <1>5, <1>6, <1>7, <1>8, <1>9, Zenon DEF Progress

\* Outside the store a step changes no table, no pool and no era; a request is
\* read on arrival, and an address is only picked for an empty session_id.
LEMMA ProgressFrame ==
  ASSUME NEW r \in Rpc, NEW S, Handlers(r) \/ Progress(r) \/ Cancel(r, S)
  PROVE  /\ UNCHANGED <<sessions, ops, epoch, members, era>>
         /\ \/ UNCHANGED <<kind, key, op, addr>>
            \/ pc[r] = "new" /\ UNCHANGED addr
            \/ /\ pc[r] = "session" /\ UNCHANGED <<kind, key, op>>
               /\ PoolOf(r) \in Pool
               /\ \E b \in members[PoolOf(r)] : addr' = [addr EXCEPT ![r] = b]
<1>1. CASE Handlers(r)
  BY <1>1, HandlersArrive, Zenon DEF Arrive, storeVars
<1>2. CASE Cancel(r, S)
  BY <1>2, Zenon DEF Cancel, Leave, storeVars
<1>3. CASE authenticate_and_resolve(r)
  BY <1>3, Zenon DEF authenticate_and_resolve, Return, Leave, storeVars
<1>4. CASE first_message(r)
  BY <1>4, Zenon DEF first_message, Return, Leave, storeVars
<1>5. CASE resolve_unbound(r)
  BY <1>5, Zenon DEF resolve_unbound, Return, Leave, Forward, storeVars
<1>6. CASE Deliver(r)
  BY <1>6, Zenon DEF Deliver, storeVars
<1>7. CASE ForwardFails(r)
  BY <1>7, Zenon DEF ForwardFails, Return, Leave, storeVars
<1>8. CASE Reply(r)
  BY <1>8, Zenon DEF Reply, Return, Leave, storeVars
<1>9. CASE StreamEnd(r)
  BY <1>9, Zenon DEF StreamEnd, storeVars
<1> QED
  BY <1>1, <1>2, <1>3, <1>4, <1>5, <1>6, <1>7, <1>8, <1>9, Zenon DEF Progress

\* The points such a step starts from, and that a final address stays final.
LEMMA ProgressPlaces ==
  ASSUME TypeOK, NEW r \in Rpc, NEW S \in SUBSET {"auth", "first", "send", "wait"},
         Handlers(r) \/ Progress(r) \/ Cancel(r, S)
  PROVE  /\ pc[r] \notin {"op", "bind", "remember", "forget", "done"}
         /\ ~AsksStore(r)
         /\ pc[r] \in Settled => pc'[r] \in Settled
<1>1. CASE Handlers(r)
  BY <1>1, HandlersArrive DEF Arrive, AsksStore, Settled
<1>2. CASE Cancel(r, S)
  BY <1>2, Zenon DEF Cancel, Leave, AsksStore, Settled, TypeOK
<1>3. CASE authenticate_and_resolve(r) \/ first_message(r)
  BY <1>3, Zenon DEF authenticate_and_resolve, first_message, AsksStore, Settled
<1>4. CASE resolve_unbound(r)
  BY <1>4, NoneAssumption, Zenon DEF resolve_unbound, AsksStore, Settled
<1>5. CASE Deliver(r)
  BY <1>5, Zenon DEF Deliver, AsksStore, Settled, TypeOK
<1>6. CASE ForwardFails(r)
  BY <1>6, Zenon DEF ForwardFails, Return, Leave, AsksStore, Settled, TypeOK
<1>7. CASE Reply(r)
  BY <1>7, Zenon DEF Reply, Return, Leave, AsksStore, Settled, TypeOK
<1>8. CASE StreamEnd(r)
  BY <1>8, Zenon DEF StreamEnd, AsksStore, Settled, TypeOK
<1> QED BY <1>1, <1>2, <1>3, <1>4, <1>5, <1>6, <1>7, <1>8, Zenon DEF Progress

\* An operation starts to run on a driver only by the delivery of its
\* ExecutePlan.
LEMMA ProgressRunning ==
  ASSUME TypeOK, NEW r \in Rpc, NEW S, Handlers(r) \/ Progress(r) \/ Cancel(r, S),
         NEW o \in Op, NEW b \in running'[o], b \notin running[o]
  PROVE  pc[r] = "send" /\ kind[r] = "ExecutePlan" /\ op[r] = o /\ addr[r] = b
<1>1. CASE Deliver(r)
  <2>1. pc[r] = "send" /\ Drive(r)
    BY <1>1, Zenon DEF Deliver
  <2>2. CASE kind[r] = "ExecutePlan" /\ op[r] # None
    <3>1. running' = [running EXCEPT ![op[r]] = @ \cup {addr[r]}]
      BY <2>1, <2>2, Zenon DEF Drive
    <3> QED BY <2>1, <2>2, <3>1, Zenon DEF TypeOK
  <2>3. CASE kind[r] = "ReleaseSession"
    BY <2>1, <2>3, Zenon DEF Drive, TypeOK
  <2>4. CASE kind[r] = "ReleaseAll" /\ op[r] # None /\ Executed(key[r], op[r])
    BY <2>1, <2>4, Zenon DEF Drive, TypeOK
  <2>5. CASE UNCHANGED running
    BY <2>5, Zenon
  <2> QED BY <2>1, <2>2, <2>3, <2>4, <2>5, Zenon DEF Drive
<1>2. CASE UNCHANGED running
  BY <1>2, Zenon
<1>3. CASE Handlers(r)
  BY <1>2, <1>3, HandlersArrive, Zenon DEF Arrive, driverVars
<1>4. CASE Cancel(r, S) \/ (Progress(r) /\ ~Deliver(r))
  BY <1>2, <1>4, Zenon DEF Cancel, Progress, authenticate_and_resolve, first_message,
     resolve_unbound, ForwardFails, Reply, StreamEnd, driverVars
<1> QED BY <1>1, <1>3, <1>4, Zenon

----------------------------------------------------------------------------
(* What is logged *)

\* A step of r takes no audit event back and records no other RPC's code.
LogGrows(r) ==
  /\ \A q \in Rpc : audit[q] \subseteq audit'[q]
  /\ \A q \in Rpc \ {r} : code'[q] = code[q]

\* A handler that ends.
LEMMA LeaveLogs ==
  ASSUME TypeOK, NEW r \in Rpc, NEW c, NEW ev, Return(r, c, ev) \/ Leave(r, c, ev)
  PROVE  LogGrows(r)
<1>1. PICK e : Leave(r, c, e)
  BY Zenon DEF Return
<1> QED BY <1>1, Zenon DEF Leave, LogGrows, TypeOK

\* Outside the store.
LEMMA ProgressLogs ==
  ASSUME TypeOK, NEW r \in Rpc, NEW S, Handlers(r) \/ Progress(r) \/ Cancel(r, S)
  PROVE  LogGrows(r)
<1>1. CASE UNCHANGED <<audit, code>>
  BY <1>1, Zenon DEF LogGrows
<1>2. CASE Handlers(r)
  BY <1>1, <1>2, HandlersArrive, Zenon DEF Arrive
<1>3. CASE Cancel(r, S)
  BY <1>3, LeaveLogs, Zenon DEF Cancel
<1>4. CASE authenticate_and_resolve(r)
  BY <1>1, <1>4, LeaveLogs, Zenon DEF authenticate_and_resolve
<1>5. CASE first_message(r)
  BY <1>1, <1>5, LeaveLogs, Zenon DEF first_message
<1>6. CASE resolve_unbound(r)
  BY <1>1, <1>6, LeaveLogs, Zenon DEF resolve_unbound, Forward
<1>7. CASE ForwardFails(r)
  BY <1>7, LeaveLogs, Zenon DEF ForwardFails
<1>8. CASE Reply(r)
  <2>1. CASE \E e : /\ code' = [code EXCEPT ![r] = "OK"]
                    /\ audit' = [audit EXCEPT ![r] = @ \cup e]
    BY <2>1 DEF LogGrows, TypeOK
  <2> QED BY <1>1, <1>8, <2>1, LeaveLogs, Zenon DEF Reply
<1>9. CASE Deliver(r) \/ StreamEnd(r)
  BY <1>1, <1>9, Zenon DEF Deliver, StreamEnd
<1> QED
  BY <1>2, <1>3, <1>4, <1>5, <1>6, <1>7, <1>8, <1>9, Zenon DEF Progress

----------------------------------------------------------------------------
(* What a handler does with the store's answer *)

\* The part of TypeOK that is about the RPCs.
RpcTypes ==
  /\ pc \in [Rpc -> Stages]
  /\ kind \in [Rpc -> RpcKind \cup {None}]
  /\ key \in [Rpc -> Key \cup {None}]
  /\ op \in [Rpc -> Op \cup {None}]
  /\ addr \in [Rpc -> Backend \cup {None}]
  /\ code \in [Rpc -> Codes \cup {None}]
  /\ audit \in [Rpc -> SUBSET Events]
  /\ streams \in Int
  /\ era \in [Rpc -> Nat \cup {None}]
  /\ members \in [Pool -> SUBSET Backend]

\* The types after r's handler took its answer, its record, and nobody else's.
Taken(r) == RpcTypes' /\ RequestOK(r)' /\ OnlyRpc(r)

\* A handler that returns.
LEMMA TakenReturn ==
  ASSUME TypeOK, NEW r \in Rpc, RequestOK(r), pc[r] # "new",
         NEW c \in Codes, NEW ev \in SUBSET Events, Return(r, c, ev),
         UNCHANGED <<addr, era, members>>
  PROVE  Taken(r)
<1>1. RequestOK(r)' /\ OnlyRpc(r)
  BY RequestReturn, Zenon
<1>2. /\ pc' \in [Rpc -> Stages]
      /\ code' \in [Rpc -> Codes \cup {None}]
      /\ audit' \in [Rpc -> SUBSET Events]
      /\ streams' \in Int
      /\ UNCHANGED <<kind, key, op>>
  BY ReturnType, Zenon
<1> QED BY <1>1, <1>2, Zenon DEF Taken, RpcTypes, TypeOK

\* A handler that learns its address.
LEMMA TakenForward ==
  ASSUME TypeOK, NEW r \in Rpc, RequestOK(r), pc[r] \in {"op", "session", "bind"},
         NEW b \in Backend, Forward(r, b),
         UNCHANGED era \/ era' = [era EXCEPT ![r] = epoch[key[r]]],
         UNCHANGED members,
         audit' \in [Rpc -> SUBSET Events]
  PROVE  Taken(r)
<1>1. RequestOK(r)' /\ OnlyRpc(r)
  BY RequestForward, Zenon
<1>2. epoch[key[r]] \in Nat
  BY Zenon DEF TypeOK, RequestOK
<1>3. pc' \in [Rpc -> Stages] /\ addr' \in [Rpc -> Backend \cup {None}]
  BY Zenon DEF Forward, TypeOK, Stages
<1>4. era' \in [Rpc -> Nat \cup {None}]
  BY <1>2, Zenon DEF TypeOK
<1> QED BY <1>1, <1>3, <1>4, Zenon DEF Taken, RpcTypes, TypeOK, Forward

\* resolve_op, after lookup_op.
LEMMA TakenLookupOp ==
  ASSUME TypeOK, NEW r \in Rpc, RequestOK(r), NEW v \in Backend \cup {None},
         AfterLookupOp(r, v)
  PROVE  Taken(r)
<1>1. CASE v # None
  BY <1>1, TakenForward, Zenon DEF AfterLookupOp, TypeOK
<1>2. CASE v = None
  <2>1. /\ pc[r] = "op" /\ pc' = [pc EXCEPT ![r] = "session"]
        /\ addr[r] = None /\ era[r] = None
        /\ UNCHANGED <<kind, key, op, addr, code, streams, audit, members, era>>
    BY <1>2, Zenon DEF AfterLookupOp, RequestOK
  <2>2. RequestOK(r)' /\ OnlyRpc(r)
    BY <2>1, RequestMove, Zenon DEF Stages
  <2> QED BY <2>1, <2>2, Zenon DEF Taken, RpcTypes, TypeOK, Stages
<1> QED BY <1>1, <1>2, Zenon

\* resolve_session_detailed, after lookup_session.
LEMMA TakenLookup ==
  ASSUME TypeOK, NEW r \in Rpc, RequestOK(r), NEW v \in Backend \cup {None},
         AsksStore(r), AfterLookup(r, v)
  PROVE  Taken(r)
<1>1. CASE v # None
  BY <1>1, TakenForward, Zenon DEF AfterLookup, RouteBySession, AsksStore, TypeOK
<1>2. CASE Return(r, "Unavailable", {}) /\ UNCHANGED <<addr, era>>
  <2>1. pc[r] # "new" /\ UNCHANGED members
    BY Zenon DEF AsksStore, AfterLookup
  <2> QED BY <1>2, <2>1, TakenReturn DEF Codes
<1>3. CASE /\ \E b \in members[PoolOf(r)] : addr' = [addr EXCEPT ![r] = b]
           /\ pc' = [pc EXCEPT ![r] = "bind"]
           /\ UNCHANGED <<kind, key, op, code, audit, streams, era>>
  <2>1. PICK b \in Backend : addr' = [addr EXCEPT ![r] = b]
    BY <1>3, Zenon DEF AsksStore, TypeOK
  <2>2. pc'[r] = "bind" /\ addr'[r] = b /\ b # None /\ UNCHANGED members
    BY <1>3, <2>1, NoneAssumption, Zenon DEF TypeOK, AfterLookup
  <2>3. key[r] \in Key /\ kind[r] # None /\ era[r] = None
    BY Zenon DEF RequestOK, AsksStore
  <2>4. RequestOK(r)'
    BY <1>3, <2>2, <2>3, Zenon DEF RequestOK
  <2>5. OnlyRpc(r)
    BY <1>3, <2>1, Zenon DEF OnlyRpc, TypeOK
  <2>6. pc' \in [Rpc -> Stages] /\ addr' \in [Rpc -> Backend \cup {None}]
    BY <1>3, <2>1, Zenon DEF TypeOK, Stages
  <2> QED BY <1>3, <2>2, <2>4, <2>5, <2>6, Zenon DEF Taken, RpcTypes, TypeOK
<1> QED BY <1>1, <1>2, <1>3, Zenon DEF AfterLookup

\* resolve_session_detailed, after bind_session_if_absent.
LEMMA TakenBind ==
  ASSUME TypeOK, NEW r \in Rpc, RequestOK(r), NEW winner \in Backend,
         pc[r] = "bind", AfterBind(r, winner)
  PROVE  Taken(r)
<1>1. audit' \in [Rpc -> SUBSET Events]
  BY Zenon DEF AfterBind, TypeOK, Events
<1> QED BY <1>1, TakenForward, Zenon DEF AfterBind, RouteBySession

\* execute_plan, after remember_op.
LEMMA TakenRemember ==
  ASSUME TypeOK, NEW r \in Rpc, RequestOK(r), AfterRemember(r)
  PROVE  Taken(r)
<1>1. /\ pc[r] = "remember" /\ pc' = [pc EXCEPT ![r] = "send"]
      /\ UNCHANGED <<kind, key, op, addr, code, audit, streams, members, era>>
      /\ addr[r] # None
  BY Zenon DEF AfterRemember, RequestOK
<1>2. RequestOK(r)' /\ OnlyRpc(r)
  BY <1>1, RequestMove, Zenon DEF Stages
<1> QED BY <1>1, <1>2, Zenon DEF Taken, RpcTypes, TypeOK, Stages

\* release_session and release_execute, after forget_session and forget_op.
LEMMA TakenForget ==
  ASSUME TypeOK, NEW r \in Rpc, RequestOK(r), AfterForget(r)
  PROVE  Taken(r)
<1> DEFINE ev == IF kind[r] = "ReleaseSession" THEN {"session.release"} ELSE {}
<1>1. ev \in SUBSET Events
  BY Zenon DEF Events
<1>2. pc[r] = "forget" /\ Return(r, "OK", ev) /\ UNCHANGED <<addr, era, members>>
  BY Zenon DEF AfterForget
<1> HIDE DEF ev
<1> QED BY <1>1, <1>2, TakenReturn, Zenon DEF Codes

\* Taking an answer, a handler logs and changes no request.
LEMMA TakenLogs ==
  ASSUME TypeOK, NEW r \in Rpc, NEW v,
         \/ AfterLookupOp(r, v) \/ AfterLookup(r, v) \/ AfterBind(r, v)
         \/ AfterRemember(r) \/ AfterForget(r)
  PROVE  LogGrows(r) /\ UNCHANGED <<kind, key, op>>
<1>1. CASE UNCHANGED <<kind, key, op, audit, code>>
  BY <1>1, Zenon DEF LogGrows
<1>2. CASE AfterLookupOp(r, v)
  BY <1>1, <1>2, Zenon DEF AfterLookupOp, Forward
<1>3. CASE AfterLookup(r, v)
  <2>1. CASE Return(r, "Unavailable", {})
    BY <2>1, LeaveLogs, Zenon DEF Return, Leave
  <2> QED BY <1>1, <1>3, <2>1, Zenon DEF AfterLookup, RouteBySession, Forward
<1>4. CASE AfterBind(r, v)
  <2>1. UNCHANGED <<kind, key, op, code>>
    BY <1>4, Zenon DEF AfterBind, RouteBySession, Forward
  <2>2. CASE audit' = [audit EXCEPT ![r] = @ \cup {"session.create"}]
    BY <2>1, <2>2, Zenon DEF LogGrows, TypeOK
  <2> QED BY <1>1, <1>4, <2>1, <2>2, Zenon DEF AfterBind
<1>5. CASE AfterRemember(r)
  BY <1>1, <1>5, Zenon DEF AfterRemember
<1>6. CASE AfterForget(r)
  BY <1>6, LeaveLogs, Zenon DEF AfterForget, Return, Leave
<1> QED BY <1>2, <1>3, <1>4, <1>5, <1>6, Zenon

----------------------------------------------------------------------------
(* How a call goes on *)

\* The audit events and the codes of the other RPCs stay.
OthersLog(r) == \A q \in Rpc \ {r} : audit'[q] = audit[q] /\ code'[q] = code[q]

\* The ways a call goes on: it arrives, goes from one point to another, hands
\* its guard to a stream, ends, or its stream ends.  An execute_plan with an
\* operation id does not send this way, only after AfterRemember, and a handler
\* that routes by session knows the era of its binding.
Arrives(r) ==
  /\ pc[r] = "new" /\ pc'[r] = "auth" /\ kind'[r] # None
  /\ streams' = IF kind'[r] \in Streaming THEN streams + 1 ELSE streams
  /\ UNCHANGED <<code, audit>>
Goes(r) ==
  /\ pc[r] \notin {"new", "stream", "done"}
  /\ pc'[r] \notin {"new", "auth", "stream", "done"}
  /\ pc'[r] = "op" => pc[r] = "auth" /\ kind[r] \in OpRouted
  /\ pc[r] = "wait" => kind[r] # "ExecutePlan"
  /\ pc'[r] = "send" => kind[r] # "ExecutePlan" \/ op[r] = None
  /\ pc'[r] \in {"remember", "send"} =>
       era'[r] # None \/ kind[r] \notin SessionRouted \/ key[r] \in ZeroKey
  /\ audit'[r] \cap FailureEvents = audit[r] \cap FailureEvents
  /\ UNCHANGED <<kind, key, op, code, streams>>
Opens(r) ==
  /\ pc[r] = "wait" /\ pc'[r] = "stream" /\ code'[r] = "OK" /\ kind[r] \in Streaming
  /\ UNCHANGED <<kind, key, op, streams>>
Ends(r) ==
  /\ pc[r] \notin {"new", "stream", "done"} /\ pc'[r] = "done"
  /\ code'[r] \in Codes
  /\ code'[r] \notin {"OK", "Cancelled", "ResourceExhausted"} =>
       \E e \in FailureEvents : audit'[r] \cap FailureEvents = {e}
  /\ streams' = IF kind[r] \in Streaming THEN streams - 1 ELSE streams
  /\ UNCHANGED <<kind, key, op>>
Closes(r) ==
  /\ pc[r] = "stream" /\ pc'[r] = "done" /\ streams' = streams - 1
  /\ UNCHANGED <<kind, key, op, code, audit>>

\* A handler that returns with code c and the events ev.
LEMMA ReturnEnds ==
  ASSUME TypeOK, NEW r \in Rpc, CallOK(r), pc[r] \notin {"new", "stream", "done"},
         NEW c \in Codes, NEW ev, Return(r, c, ev),
         pc[r] = "auth" => \/ c \in {"Cancelled", "ResourceExhausted"}
                           \/ c = "Unauthenticated" /\ ev = {"auth.failure"},
         pc[r] # "auth" => ev \cap FailureEvents = {}
  PROVE  Ends(r) /\ OthersLog(r)
<1>1. /\ pc'[r] = "done" /\ code'[r] = c /\ UNCHANGED <<kind, key, op>>
      /\ streams' = IF kind[r] \in Streaming THEN streams - 1 ELSE streams
      /\ audit'[r] = audit[r] \cup ev \cup finalise_rpc(r, c)
      /\ OthersLog(r)
  BY Zenon DEF Return, Leave, TypeOK, OthersLog
<1>2. audit[r] \cap FailureEvents = {}
  BY NoneAssumption, Zenon DEF CallOK, TypeOK
<1>3. ASSUME c \notin {"OK", "Cancelled", "ResourceExhausted"}
      PROVE  \E e \in FailureEvents : audit'[r] \cap FailureEvents = {e}
  <2>1. CASE pc[r] = "auth"
    <3>1. ev = {"auth.failure"} /\ finalise_rpc(r, c) = {}
      BY <1>3, <2>1, Zenon DEF finalise_rpc
    <3>2. audit'[r] \cap FailureEvents = {"auth.failure"}
      BY <1>1, <1>2, <3>1, Zenon DEF FailureEvents
    <3> QED BY <3>2, Zenon DEF FailureEvents
  <2>2. CASE pc[r] # "auth"
    <3>1. ev \cap FailureEvents = {} /\ finalise_rpc(r, c) = {"rpc.error"}
      BY <1>3, <2>2, Zenon DEF finalise_rpc
    <3>2. audit'[r] \cap FailureEvents = {"rpc.error"}
      BY <1>1, <1>2, <3>1, Zenon DEF FailureEvents
    <3> QED BY <3>2, Zenon DEF FailureEvents
  <2> QED BY <2>1, <2>2, Zenon
<1> QED BY <1>1, <1>3, Zenon DEF Ends

\* A handler that goes on without logging, to a point before it sends or after.
LEMMA QuietlyGoes ==
  ASSUME TypeOK, NEW r \in Rpc, pc[r] \notin {"new", "stream", "done"},
         NEW s \in Stages \ {"new", "auth", "remember", "send", "stream", "done"},
         pc' = [pc EXCEPT ![r] = s],
         s = "op" => pc[r] = "auth" /\ kind[r] \in OpRouted,
         pc[r] = "wait" => kind[r] # "ExecutePlan",
         UNCHANGED <<kind, key, op, code, audit, streams>>
  PROVE  Goes(r) /\ OthersLog(r)
<1>1. pc'[r] = s
  BY Zenon DEF TypeOK
<1> QED BY <1>1, Zenon DEF Goes, OthersLog

\* A handler whose address is known.
LEMMA ForwardGoes ==
  ASSUME TypeOK, NEW r \in Rpc, pc[r] \in {"op", "session", "bind"},
         NEW b, Forward(r, b),
         era'[r] # None \/ kind[r] \in OpRouted \/ key[r] \in ZeroKey,
         audit'[r] \cap FailureEvents = audit[r] \cap FailureEvents
  PROVE  Goes(r)
<1>1. /\ pc'[r] = IF kind[r] = "ExecutePlan" /\ op[r] # None THEN "remember" ELSE "send"
      /\ UNCHANGED <<kind, key, op, code, streams>>
  BY Zenon DEF Forward, TypeOK
<1>2. kind[r] \in OpRouted => kind[r] \notin SessionRouted
  BY Zenon DEF OpRouted, SessionRouted
<1> QED BY <1>1, <1>2, Zenon DEF Goes

\* Outside the store every step is one of these.
LEMMA ProgressShape ==
  ASSUME TypeOK, NEW r \in Rpc, RequestOK(r), CallOK(r),
         NEW S \in SUBSET {"auth", "first", "send", "wait"},
         Handlers(r) \/ Progress(r) \/ Cancel(r, S)
  PROVE  /\ Arrives(r) \/ Goes(r) \/ Opens(r) \/ Ends(r) \/ Closes(r)
         /\ OthersLog(r)
<1>1. CASE Handlers(r)
  <2>1. PICK kd \in RpcKind, k \in Key, o \in Op \cup {None} : Arrive(r, kd, k, o)
    BY <1>1, HandlersArrive, Zenon
  <2>2. kind'[r] = kd /\ pc'[r] = "auth" /\ pc[r] = "new" /\ kd # None
    BY <2>1, NoneAssumption, Zenon DEF Arrive, TypeOK, RpcKind
  <2> QED BY <2>1, <2>2, Zenon DEF Arrive, Arrives, OthersLog
<1>2. CASE Cancel(r, S)
  <2>1. pc[r] \in S /\ Leave(r, "Cancelled", {})
    BY <1>2, Zenon DEF Cancel
  <2>2. /\ pc'[r] = "done" /\ code'[r] = "Cancelled" /\ UNCHANGED <<kind, key, op>>
        /\ streams' = IF kind[r] \in Streaming THEN streams - 1 ELSE streams
        /\ OthersLog(r)
    BY <2>1, Zenon DEF Leave, TypeOK, OthersLog
  <2> QED BY <2>1, <2>2, Zenon DEF Ends, Codes
<1>3. CASE authenticate_and_resolve(r)
  <2>1. pc[r] = "auth"
    BY <1>3, Zenon DEF authenticate_and_resolve
  <2>2. CASE Return(r, "Unauthenticated", {"auth.failure"})
    <3>1. "Unauthenticated" \in Codes
      BY Zenon DEF Codes
    <3> QED BY <2>1, <2>2, <3>1, ReturnEnds, Zenon
  <2>3. CASE Return(r, "ResourceExhausted", {})
    <3>1. "ResourceExhausted" \in Codes
      BY Zenon DEF Codes
    <3> QED BY <2>1, <2>3, <3>1, ReturnEnds, Zenon
  <2> DEFINE s == CASE kind[r] = "AddArtifacts" -> "first"
                    [] kind[r] \in OpRouted /\ op[r] # None -> "op"
                    [] OTHER -> "session"
  <2>4. CASE /\ pc' = [pc EXCEPT ![r] = s]
             /\ UNCHANGED <<kind, key, op, code, audit, streams>>
    <3>1. s \in {"first", "op", "session"} /\ (s = "op" => kind[r] \in OpRouted)
      BY Zenon
    <3> HIDE DEF s
    <3> QED BY <2>1, <2>4, <3>1, QuietlyGoes, Zenon DEF Stages
  <2> QED BY <1>3, <2>2, <2>3, <2>4, Zenon DEF authenticate_and_resolve
<1>4. CASE first_message(r)
  <2>1. pc[r] = "first"
    BY <1>4, Zenon DEF first_message
  <2>2. CASE \E c \in {"InvalidArgument", "Cancelled"} : Return(r, c, {})
    BY <2>1, <2>2, ReturnEnds, Zenon DEF Codes
  <2>3. CASE /\ pc' = [pc EXCEPT ![r] = "session"]
             /\ UNCHANGED <<kind, key, op, code, audit, streams>>
    BY <2>1, <2>3, QuietlyGoes, Zenon DEF Stages
  <2> QED BY <1>4, <2>2, <2>3, Zenon DEF first_message
<1>5. CASE resolve_unbound(r)
  <2>1. pc[r] = "session"
    BY <1>5, Zenon DEF resolve_unbound
  <2>2. CASE Return(r, "PermissionDenied", {}) \/ Return(r, "Unavailable", {})
    BY <2>1, <2>2, ReturnEnds, Zenon DEF Codes
  <2>3. CASE key[r] \in ZeroKey /\ UNCHANGED audit /\ \E b : Forward(r, b)
    BY <2>1, <2>3, ForwardGoes, Zenon DEF Forward, OthersLog
  <2> QED BY <1>5, <2>2, <2>3, Zenon DEF resolve_unbound
<1>6. CASE Deliver(r)
  BY <1>6, QuietlyGoes, Zenon DEF Deliver, Stages
<1>7. CASE ForwardFails(r)
  BY <1>7, ReturnEnds, Zenon DEF ForwardFails, Codes
<1>8. CASE Reply(r)
  <2>1. pc[r] = "wait"
    BY <1>8, Zenon DEF Reply
  <2>2. CASE /\ Forgets(r) /\ pc' = [pc EXCEPT ![r] = "forget"]
             /\ UNCHANGED <<kind, key, op, code, audit, streams>>
    BY <2>1, <2>2, QuietlyGoes, Zenon DEF Stages, Forgets, Release
  <2>3. CASE /\ kind[r] \in {"ExecutePlan", "ReattachExecute"}
             /\ pc' = [pc EXCEPT ![r] = "stream"]
             /\ code' = [code EXCEPT ![r] = "OK"]
             /\ audit' = [audit EXCEPT ![r] = @ \cup finalise_rpc(r, "OK")]
             /\ UNCHANGED <<kind, key, op, streams>>
    <3>1. pc'[r] = "stream" /\ code'[r] = "OK" /\ OthersLog(r)
      BY <2>3, Zenon DEF TypeOK, OthersLog
    <3> QED BY <2>1, <2>3, <3>1, Zenon DEF Opens, Streaming
  <2>4. CASE Return(r, "OK", {})
    BY <2>1, <2>4, ReturnEnds, Zenon DEF Codes
  <2> QED BY <1>8, <2>2, <2>3, <2>4, Zenon DEF Reply
<1>9. CASE StreamEnd(r)
  BY <1>9, Zenon DEF StreamEnd, Closes, OthersLog, TypeOK
<1> QED
  BY <1>1, <1>2, <1>3, <1>4, <1>5, <1>6, <1>7, <1>8, <1>9, Zenon DEF Progress
============================================================================
