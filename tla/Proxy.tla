------------------------------- MODULE Proxy -------------------------------
(***************************************************************************)
(* The RPC handlers of crates/proxy/src/handler.rs and the Router they     *)
(* call (crates/routing/src/lib.rs), up to the affinity store.             *)
(*                                                                         *)
(* Every inbound RPC is one identity r \in Rpc, used once.  An action is   *)
(* the code an RPC's task runs between two points where another task can   *)
(* observe or change shared state: a store command, a pool pick, a message *)
(* to or from a backend.  What a store command does is left to the modules *)
(* that extend this one: the After* operators below are the handler's code *)
(* after the store answered.                                               *)
(*                                                                         *)
(* Abstractions.  A SessionKey is a model value; TenantOf gives its first  *)
(* component and ZeroKey holds the keys whose session_id is empty.  Bodies *)
(* carry only the operation id.  Log lines, spans, request ids and message *)
(* texts are left out.  The outcome of authentication and of the rate      *)
(* limiter is a choice.                                                    *)
(***************************************************************************)
EXTENDS Integers, FiniteSets

CONSTANTS
  Rpc,           \* inbound RPCs, each a single call
  Backend,       \* Spark Connect driver addresses
  Key,           \* SessionKeys (tenant, user_id, session_id)
  Op,            \* operation ids (UUIDs minted by clients)
  Tenant,        \* tenant strings the resolver can yield
  Pool,          \* backend pools
  TenantOf,      \* [Key -> Tenant]
  ZeroKey,       \* the keys with an empty session_id
  CloneOf,       \* [Key -> Key \cup {None}]: new_session_id a clone of k asks for
  TenantPool,    \* [Tenant -> Pool \cup {None}]: TenantRouter.tenants
  DefaultPool,   \* TenantRouter.default, None when there is none
  Policy,        \* UnknownTenantPolicy
  PoolBackends,  \* [Pool -> SUBSET Backend]: addresses a pool may ever report
  DynamicPool,   \* the pools whose membership changes at run time
  Kinds,         \* [Rpc -> SUBSET RpcKind]: the kinds each call may be
  None           \* no value: Option::None, an empty operation_id

\* The kinds of RPC.  ReleaseExecute is split by its oneof: the gateway treats
\* both variants alike, the backend does not.
SessionRouted == {"AnalyzePlan", "Config", "ArtifactStatus", "ReleaseSession",
                  "FetchErrorDetails", "CloneSession", "GetStatus",
                  "ExecutePlan", "AddArtifacts"}
OpRouted == {"Interrupt", "ReattachExecute", "ReleaseAll", "ReleaseUntil"}
RpcKind == SessionRouted \cup OpRouted
Streaming == {"ExecutePlan", "ReattachExecute", "AddArtifacts"}
Release == {"ReleaseAll", "ReleaseUntil"}

\* The points a handler stops at, the status codes its RpcGuard can record
\* (a status from a backend is Unavailable or Cancelled: only the latter is
\* treated differently), and the audit events.
Stages == {"new", "auth", "first", "op", "session", "bind", "remember",
           "send", "wait", "forget", "stream", "done"}
Codes == {"OK", "Cancelled", "Unauthenticated", "ResourceExhausted",
          "PermissionDenied", "Unavailable", "InvalidArgument"}
Events == {"auth.failure", "session.create", "session.release", "rpc.ok",
           "rpc.error"}

ASSUME KeysAssumption ==
  /\ ZeroKey \subseteq Key
  /\ TenantOf \in [Key -> Tenant]
  /\ CloneOf \in [Key -> Key \cup {None}]

ASSUME PoolsAssumption ==
  /\ TenantPool \in [Tenant -> Pool \cup {None}]
  /\ DefaultPool \in Pool \cup {None}
  /\ Policy \in {"UseDefault", "Reject"}
  /\ PoolBackends \in [Pool -> SUBSET Backend]
  /\ DynamicPool \subseteq Pool

ASSUME NoneAssumption ==
  /\ None \notin Backend \cup Key \cup Op \cup Pool \cup Int
  /\ None \notin SessionRouted \cup OpRouted \cup Codes
  /\ "Denied" \notin Pool \cup {None}

ASSUME KindsAssumption == Kinds \in [Rpc -> SUBSET RpcKind]

VARIABLES
  pc,        \* pc[r]: the point r's handler has reached
  kind,      \* kind[r], key[r], op[r]: the request
  key,
  op,
  addr,      \* addr[r]: the backend chosen (at "bind") or resolved for r
  code,      \* code[r]: the label r's RpcGuard records, None while it runs
  audit,     \* audit[r]: the audit events emitted for r
  streams,   \* the gauge scg_active_streams
  members,   \* members[p]: what pool p reports as healthy
  sessions,  \* the affinity store's session table
  ops,       \* the affinity store's operation index
  hosts,     \* hosts[k]: backends holding a Spark session for k
  running,   \* running[o]: backends holding operation o
  epoch,     \* history: how often the binding of k was forgotten
  era        \* history: epoch of its key in which r was routed by session

rpcVars == <<pc, kind, key, op, addr, code, audit, streams>>
storeVars == <<sessions, ops, epoch>>
driverVars == <<hosts, running>>
vars == <<rpcVars, members, storeVars, driverVars, era>>

TypeOK ==
  /\ pc \in [Rpc -> Stages]
  /\ kind \in [Rpc -> RpcKind \cup {None}]
  /\ key \in [Rpc -> Key \cup {None}]
  /\ op \in [Rpc -> Op \cup {None}]
  /\ addr \in [Rpc -> Backend \cup {None}]
  /\ code \in [Rpc -> Codes \cup {None}]
  /\ audit \in [Rpc -> SUBSET Events]
  /\ streams \in Int
  /\ members \in [Pool -> SUBSET Backend]
  /\ sessions \in [Key -> Backend \cup {None}]
  /\ ops \in [Op -> Backend \cup {None}]
  /\ hosts \in [Key -> SUBSET Backend]
  /\ running \in [Op -> SUBSET Backend]
  /\ epoch \in [Key -> Nat]
  /\ era \in [Rpc -> Nat \cup {None}]

\* A static pool reports its whole list; a watched one starts empty.
Init ==
  /\ pc = [r \in Rpc |-> "new"]
  /\ kind = [r \in Rpc |-> None]
  /\ key = [r \in Rpc |-> None]
  /\ op = [r \in Rpc |-> None]
  /\ addr = [r \in Rpc |-> None]
  /\ code = [r \in Rpc |-> None]
  /\ audit = [r \in Rpc |-> {}]
  /\ streams = 0
  /\ members = [p \in Pool |-> IF p \in DynamicPool THEN {} ELSE PoolBackends[p]]
  /\ sessions = [k \in Key |-> None]
  /\ ops = [o \in Op |-> None]
  /\ hosts = [k \in Key |-> {}]
  /\ running = [o \in Op |-> {}]
  /\ epoch = [k \in Key |-> 0]
  /\ era = [r \in Rpc |-> None]

----------------------------------------------------------------------------
(* Routing tables *)

\* TenantRouter::pool_for: the tenant's own pool, else the default pool
\* (None when there is none), else "Denied".
pool_for(t) ==
  CASE TenantPool[t] # None -> TenantPool[t]
    [] TenantPool[t] = None /\ Policy = "UseDefault" -> DefaultPool
    [] TenantPool[t] = None /\ Policy = "Reject" -> "Denied"

PoolOf(r) == pool_for(TenantOf[key[r]])

\* The backends an RPC of tenant t may be sent to.
Allowed(t) == IF pool_for(t) \in Pool THEN PoolBackends[pool_for(t)] ELSE {}

\* A pool's membership is replaced: a watch event, or a health transition.
PoolChange(p) ==
  /\ p \in DynamicPool
  /\ members' \in {[members EXCEPT ![p] = m] : m \in SUBSET PoolBackends[p]}
  /\ UNCHANGED <<rpcVars, storeVars, driverVars, era>>

----------------------------------------------------------------------------
(* Arrival and departure *)

\* The head of every handler: the RpcGuard and, for the streaming kinds, the
\* StreamGuard are created, then authentication starts.
Arrive(r, kd, k, o) ==
  /\ kd \in Kinds[r]
  /\ pc[r] = "new"
  /\ pc' = [pc EXCEPT ![r] = "auth"]
  /\ kind' = [kind EXCEPT ![r] = kd]
  /\ key' = [key EXCEPT ![r] = k]
  /\ op' = [op EXCEPT ![r] = o]
  /\ streams' = IF kd \in Streaming THEN streams + 1 ELSE streams
  /\ UNCHANGED <<addr, code, audit, members, storeVars, driverVars, era>>

\* Clients make up operation ids; no handler compares the session or tenant of a
\* follow-up with those of the ExecutePlan.
analyze_plan(r) == \E k \in Key : Arrive(r, "AnalyzePlan", k, None)
config(r) == \E k \in Key : Arrive(r, "Config", k, None)
artifact_status(r) == \E k \in Key : Arrive(r, "ArtifactStatus", k, None)
interrupt(r) ==
  \E k \in Key, o \in Op \cup {None} : Arrive(r, "Interrupt", k, o)
release_execute(r) ==
  \E k \in Key, kd \in Release, o \in Op \cup {None} : Arrive(r, kd, k, o)
release_session(r) == \E k \in Key : Arrive(r, "ReleaseSession", k, None)
fetch_error_details(r) == \E k \in Key : Arrive(r, "FetchErrorDetails", k, None)
clone_session(r) == \E k \in Key : Arrive(r, "CloneSession", k, None)
get_status(r) == \E k \in Key : Arrive(r, "GetStatus", k, None)
execute_plan(r) ==
  \E k \in Key, o \in Op \cup {None} : Arrive(r, "ExecutePlan", k, o)
reattach_execute(r) ==
  \E k \in Key, o \in Op \cup {None} : Arrive(r, "ReattachExecute", k, o)
add_artifacts(r) == \E k \in Key : Arrive(r, "AddArtifacts", k, None)

\* Mutant: the AuditCtx is not consulted.
finalise_rpc_no_ctx(r, c) ==
  CASE c = "Cancelled" -> {}
    [] c = "OK" -> {"rpc.ok"}
    [] OTHER -> {"rpc.error"}

\* finalise_rpc: an RPC whose identity was captured leaves rpc.ok (when
\* log_successful_rpcs is on, as here) or rpc.error; Cancelled leaves nothing.
finalise_rpc(r, c) ==
  CASE pc[r] = "auth" \/ c = "Cancelled" -> {}
    [] pc[r] # "auth" /\ c = "OK" -> {"rpc.ok"}
    [] pc[r] # "auth" /\ c \notin {"OK", "Cancelled"} -> {"rpc.error"}

\* The handler returns: code c is recorded, the guards are dropped.
Leave(r, c, events) ==
  /\ pc' = [pc EXCEPT ![r] = "done"]
  /\ code' = [code EXCEPT ![r] = c]
  /\ audit' = [audit EXCEPT ![r] = @ \cup events]
  /\ streams' = IF kind[r] \in Streaming THEN streams - 1 ELSE streams
  /\ UNCHANGED <<kind, key, op>>

Return(r, c, events) == Leave(r, c, events \cup finalise_rpc(r, c))

\* The client goes away while r is suspended at one of the points in stages:
\* tonic drops the handler's future, so finalise_rpc does not run and the
\* RpcGuard records its initial label.
Cancel(r, stages) ==
  /\ pc[r] \in stages
  /\ Leave(r, "Cancelled", {})
  /\ UNCHANGED <<addr, members, storeVars, driverVars, era>>

----------------------------------------------------------------------------
(* From authentication to a backend address *)

\* authenticate_and_resolve: a bad credential or a missing tenant is an
\* auth.failure; a rate-limited RPC returns before the AuditCtx is set.
authenticate_and_resolve(r) ==
  /\ pc[r] = "auth"
  /\ \/ /\ Return(r, "Unauthenticated", {"auth.failure"})
        /\ UNCHANGED addr
     \/ /\ Return(r, "ResourceExhausted", {})
        /\ UNCHANGED addr
     \/ /\ pc' = [pc EXCEPT ![r] =
                    CASE kind[r] = "AddArtifacts" -> "first"
                      [] kind[r] \in OpRouted /\ op[r] # None -> "op"
                      [] OTHER -> "session"]
        /\ UNCHANGED <<kind, key, op, addr, code, audit, streams>>
  /\ UNCHANGED <<members, storeVars, driverVars, era>>

\* add_artifacts reads its first message: an empty stream is refused, an
\* inbound error is returned as it is.
first_message(r) ==
  /\ pc[r] = "first"
  /\ \/ \E c \in {"InvalidArgument", "Cancelled"} : Return(r, c, {})
     \/ /\ pc' = [pc EXCEPT ![r] = "session"]
        /\ UNCHANGED <<kind, key, op, code, audit, streams>>
  /\ UNCHANGED <<addr, members, storeVars, driverVars, era>>

\* Mutant: execute_plan does not record its operation id.
Forward_unremembered(r, b) ==
  /\ addr' = [addr EXCEPT ![r] = b]
  /\ pc' = [pc EXCEPT ![r] = "send"]
  /\ UNCHANGED <<kind, key, op, code, streams>>

\* The address of r is known.  execute_plan first records its operation id.
Forward(r, b) ==
  /\ addr' = [addr EXCEPT ![r] = b]
  /\ pc' = [pc EXCEPT ![r] = IF kind[r] = "ExecutePlan" /\ op[r] # None
                             THEN "remember" ELSE "send"]
  /\ UNCHANGED <<kind, key, op, code, streams>>

RouteBySession(r, b) ==
  /\ Forward(r, b)
  /\ era' = [era EXCEPT ![r] = epoch[key[r]]]

\* resolve_op after lookup_op answered v: a hit is the address, whatever the
\* tenant's pool; a miss falls back to the session.
AfterLookupOp(r, v) ==
  /\ pc[r] = "op"
  /\ \/ /\ v # None
        /\ Forward(r, v)
     \/ /\ v = None
        /\ pc' = [pc EXCEPT ![r] = "session"]
        /\ UNCHANGED <<kind, key, op, addr, code, streams>>
  /\ UNCHANGED <<audit, members, era>>

\* resolve_session_detailed before the store is asked: no pool for the tenant,
\* or an empty session_id, which gets a fresh pick that is never recorded.
resolve_unbound(r) ==
  /\ pc[r] = "session"
  /\ \/ /\ PoolOf(r) = "Denied"
        /\ Return(r, "PermissionDenied", {})
        /\ UNCHANGED addr
     \/ /\ PoolOf(r) = None
        /\ Return(r, "Unavailable", {})
        /\ UNCHANGED addr
     \/ /\ PoolOf(r) \in Pool
        /\ key[r] \in ZeroKey
        /\ members[PoolOf(r)] = {}
        /\ Return(r, "Unavailable", {})
        /\ UNCHANGED addr
     \/ /\ PoolOf(r) \in Pool
        /\ key[r] \in ZeroKey
        /\ \E b \in members[PoolOf(r)] : Forward(r, b)
        /\ UNCHANGED audit
  /\ UNCHANGED <<members, storeVars, driverVars, era>>

AsksStore(r) ==
  /\ pc[r] = "session"
  /\ PoolOf(r) \in Pool
  /\ key[r] \notin ZeroKey

\* Mutant: the pick ignores the tenant.
AfterLookup_any_pool(r, v) ==
  /\ \/ /\ v # None
        /\ RouteBySession(r, v)
        /\ UNCHANGED audit
     \/ /\ v = None
        /\ \E p \in Pool : \E b \in members[p] : addr' = [addr EXCEPT ![r] = b]
        /\ pc' = [pc EXCEPT ![r] = "bind"]
        /\ UNCHANGED <<kind, key, op, code, audit, streams, era>>
  /\ UNCHANGED members

\* resolve_session_detailed after lookup_session answered v: a hit is the
\* address; on a miss the pool picks a candidate (any member: the cursor is
\* shared with every other session) or there is none.
AfterLookup(r, v) ==
  /\ \/ /\ v # None
        /\ RouteBySession(r, v)
        /\ UNCHANGED audit
     \/ /\ v = None
        /\ members[PoolOf(r)] = {}
        /\ Return(r, "Unavailable", {})
        /\ UNCHANGED <<addr, era>>
     \/ /\ v = None
        /\ \E b \in members[PoolOf(r)] : addr' = [addr EXCEPT ![r] = b]
        /\ pc' = [pc EXCEPT ![r] = "bind"]
        /\ UNCHANGED <<kind, key, op, code, audit, streams, era>>
  /\ UNCHANGED members

\* Mutant: the RPC goes to its own candidate, not to the winner.
AfterBind_chosen(r, winner) ==
  /\ RouteBySession(r, addr[r])
  /\ audit' = IF winner = addr[r] /\ kind[r] \in SessionRouted
              THEN [audit EXCEPT ![r] = @ \cup {"session.create"}]
              ELSE audit
  /\ UNCHANGED members

\* Mutant: newly_bound is inverted.
AfterBind_inverted(r, winner) ==
  /\ RouteBySession(r, winner)
  /\ audit' = IF winner # addr[r] /\ kind[r] \in SessionRouted
              THEN [audit EXCEPT ![r] = @ \cup {"session.create"}]
              ELSE audit
  /\ UNCHANGED members

\* resolve_session_detailed and resolve_session_audited after
\* bind_session_if_absent answered winner: newly_bound is winner == chosen,
\* and only the session-routed handlers audit it.
AfterBind(r, winner) ==
  /\ RouteBySession(r, winner)
  /\ audit' = IF winner = addr[r] /\ kind[r] \in SessionRouted
              THEN [audit EXCEPT ![r] = @ \cup {"session.create"}]
              ELSE audit
  /\ UNCHANGED members

\* execute_plan once remember_op returned.
AfterRemember(r) ==
  /\ pc[r] = "remember"
  /\ pc' = [pc EXCEPT ![r] = "send"]
  /\ UNCHANGED <<kind, key, op, addr, code, audit, streams, members, era>>

----------------------------------------------------------------------------
(* The backend and the way back *)

\* A client of session k sent an ExecutePlan of operation o.  To a driver an
\* operation is one of a session: others cannot release it.
Executed(k, o) == \E q \in Rpc : kind[q] = "ExecutePlan" /\ key[q] = k /\ op[q] = o

\* What a driver does with a request (external: modelled from the protocol in
\* proto/spark/connect/base.proto and from what the handlers rely on).
Drive(r) ==
  LET b == addr[r]
      k == key[r]
      o == op[r]
  IN
  /\ hosts' =
       CASE kind[r] = "ReleaseSession" -> [hosts EXCEPT ![k] = @ \ {b}]
         [] kind[r] = "CloneSession" ->
              [x \in Key |-> IF x \in {k, CloneOf[k]} THEN hosts[x] \cup {b}
                                                     ELSE hosts[x]]
         [] kind[r] \in OpRouted -> hosts
         [] OTHER -> [hosts EXCEPT ![k] = @ \cup {b}]
  /\ running' =
       CASE kind[r] = "ReleaseSession" ->
              [x \in Op |-> IF Executed(k, x) THEN running[x] \ {b} ELSE running[x]]
         [] kind[r] = "ExecutePlan" /\ o # None ->
              [running EXCEPT ![o] = @ \cup {b}]
         [] kind[r] = "ReleaseAll" /\ o # None /\ Executed(k, o) ->
              [running EXCEPT ![o] = @ \ {b}]
         [] OTHER -> running

\* The request reaches the backend, which carries it out.
Deliver(r) ==
  /\ pc[r] = "send"
  /\ pc' = [pc EXCEPT ![r] = "wait"]
  /\ Drive(r)
  /\ UNCHANGED <<kind, key, op, addr, code, audit, streams, members, storeVars, era>>

\* Mutant: release_session forgets the binding when its forward failed too.
ForwardFails_forgets(r) ==
  /\ pc[r] \in {"send", "wait"}
  /\ \E c \in {"Unavailable", "Cancelled"} : Return(r, c, {})
  /\ sessions' = IF kind[r] = "ReleaseSession"
                 THEN [sessions EXCEPT ![key[r]] = None] ELSE sessions
  /\ UNCHANGED <<addr, members, ops, epoch, driverVars, era>>

\* The dial, the connection or the backend fails: before the request was
\* carried out ("send") or after ("wait", the answer is lost).
ForwardFails(r) ==
  /\ pc[r] \in {"send", "wait"}
  /\ \E c \in {"Unavailable", "Cancelled"} : Return(r, c, {})
  /\ UNCHANGED <<addr, members, storeVars, driverVars, era>>

Forgets(r) == kind[r] = "ReleaseSession" \/ (kind[r] \in Release /\ op[r] # None)

\* Mutant: the StreamGuard is dropped with the handler.
Reply_drops_guard(r) ==
  /\ pc[r] = "wait"
  /\ \/ /\ kind[r] \in {"ExecutePlan", "ReattachExecute"}
        /\ pc' = [pc EXCEPT ![r] = "stream"]
        /\ code' = [code EXCEPT ![r] = "OK"]
        /\ streams' = streams - 1
        /\ UNCHANGED <<kind, key, op, audit>>
     \/ /\ kind[r] \notin {"ExecutePlan", "ReattachExecute"}
        /\ Return(r, "OK", {})
  /\ UNCHANGED <<addr, members, storeVars, driverVars, era>>

\* The backend answers OK.  The release handlers go on to the store, the
\* server-streaming ones return a stream that owns the StreamGuard.
Reply(r) ==
  /\ pc[r] = "wait"
  /\ \/ /\ Forgets(r)
        /\ pc' = [pc EXCEPT ![r] = "forget"]
        /\ UNCHANGED <<kind, key, op, code, audit, streams>>
     \/ /\ kind[r] \in {"ExecutePlan", "ReattachExecute"}
        /\ pc' = [pc EXCEPT ![r] = "stream"]
        /\ code' = [code EXCEPT ![r] = "OK"]
        /\ audit' = [audit EXCEPT ![r] = @ \cup finalise_rpc(r, "OK")]
        /\ UNCHANGED <<kind, key, op, streams>>
     \/ /\ ~Forgets(r)
        /\ kind[r] \notin {"ExecutePlan", "ReattachExecute"}
        /\ Return(r, "OK", {})
  /\ UNCHANGED <<addr, members, storeVars, driverVars, era>>

\* release_session once forget_session returned, release_execute once
\* forget_op did.
AfterForget(r) ==
  /\ pc[r] = "forget"
  /\ Return(r, "OK", IF kind[r] = "ReleaseSession" THEN {"session.release"} ELSE {})
  /\ UNCHANGED <<addr, members, era>>

\* forward_server_stream is dropped: the backend closed the stream, it failed,
\* or the client went away.  The StreamGuard goes with it.
StreamEnd(r) ==
  /\ pc[r] = "stream"
  /\ pc' = [pc EXCEPT ![r] = "done"]
  /\ streams' = streams - 1
  /\ UNCHANGED <<kind, key, op, addr, code, audit, members, storeVars, driverVars, era>>

----------------------------------------------------------------------------
(* The steps that do not touch the store, for the modules that add one *)

Handlers(r) ==
  \/ analyze_plan(r)
  \/ config(r)
  \/ artifact_status(r)
  \/ interrupt(r)
  \/ release_execute(r)
  \/ release_session(r)
  \/ fetch_error_details(r)
  \/ clone_session(r)
  \/ get_status(r)
  \/ execute_plan(r)
  \/ reattach_execute(r)
  \/ add_artifacts(r)

Progress(r) ==
  \/ authenticate_and_resolve(r)
  \/ first_message(r)
  \/ resolve_unbound(r)
  \/ Deliver(r)
  \/ ForwardFails(r)
  \/ Reply(r)
  \/ StreamEnd(r)

\* Where a handler's address is final.
Settled == {"remember", "send", "wait", "forget", "stream", "done"}

\* What is known of a request at each point of its handler, whatever the store.
RequestOK(r) ==
  /\ pc[r] # "new" => key[r] \in Key /\ kind[r] # None
  /\ op[r] # None => key[r] \in Key
  /\ pc[r] = "op" => kind[r] \in OpRouted /\ op[r] # None
  /\ pc[r] = "remember" => kind[r] = "ExecutePlan" /\ op[r] # None
  /\ pc[r] = "forget" => Forgets(r)
  /\ pc[r] \in {"new", "auth", "first", "op", "session"} => addr[r] = None
  /\ pc[r] \in {"bind", "remember", "send"} => addr[r] # None
  /\ pc[r] \in {"new", "auth", "first", "op", "session", "bind"} => era[r] = None

RequestInv == \A r \in Rpc : RequestOK(r)

FailureEvents == {"auth.failure", "rpc.error"}

\* What is known of a call of each kind, and what it has logged so far.
CallOK(r) ==
  /\ pc[r] = "new" => kind[r] = None
  /\ pc[r] = "op" => kind[r] \in OpRouted
  /\ pc[r] = "stream" => kind[r] \in Streaming
  /\ code[r] # None <=> pc[r] \in {"stream", "done"}
  /\ code[r] = None => audit[r] \cap FailureEvents = {}
  /\ code[r] \notin {None, "OK", "Cancelled", "ResourceExhausted"} =>
       \E e \in FailureEvents : audit[r] \cap FailureEvents = {e}

\* Every call of this bounded workload has ended.
Quiet == (\A r \in Rpc : pc[r] = "done") /\ UNCHANGED vars
=============================================================================
