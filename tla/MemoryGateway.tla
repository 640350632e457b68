--------------------------- MODULE MemoryGateway ---------------------------
(***************************************************************************)
(* One gateway replica with the in-process affinity store of               *)
(* crates/store-memory: two maps, each behind a lock, so that every store  *)
(* operation is one atomic step.                                           *)
(***************************************************************************)
EXTENDS Proxy

----------------------------------------------------------------------------
(* MemoryStore *)

lookup_op(r) ==
  /\ pc[r] = "op"
  /\ AfterLookupOp(r, ops[op[r]])
  /\ UNCHANGED <<storeVars, driverVars>>

lookup_session(r) ==
  /\ AsksStore(r)
  /\ AfterLookup(r, sessions[key[r]])
  /\ UNCHANGED <<storeVars, driverVars>>

\* Mutant: the caller's own backend is returned.
bind_session_if_absent_own(r) ==
  /\ pc[r] = "bind"
  /\ LET k == key[r]
     IN /\ sessions' = [sessions EXCEPT ![k] = IF @ = None THEN addr[r] ELSE @]
        /\ AfterBind(r, addr[r])
  /\ UNCHANGED <<ops, epoch, driverVars>>

\* Mutant: insert in place of or_insert.
bind_session_if_absent_insert(r) ==
  /\ pc[r] = "bind"
  /\ sessions' = [sessions EXCEPT ![key[r]] = addr[r]]
  /\ AfterBind(r, addr[r])
  /\ UNCHANGED <<ops, epoch, driverVars>>

\* entry(key).or_insert(backend): the first binding wins and is returned.
bind_session_if_absent(r) ==
  /\ pc[r] = "bind"
  /\ LET k == key[r]
         winner == IF sessions[k] = None THEN addr[r] ELSE sessions[k]
     IN /\ sessions' = [sessions EXCEPT ![k] = winner]
        /\ AfterBind(r, winner)
  /\ UNCHANGED <<ops, epoch, driverVars>>

\* Mutant: the operation id is stored in place of the address.
bind_op_swapped(r) ==
  /\ AfterRemember(r)
  /\ ops' = [ops EXCEPT ![op[r]] = op[r]]
  /\ UNCHANGED <<sessions, epoch, driverVars>>

bind_op(r) ==
  /\ AfterRemember(r)
  /\ ops' = [ops EXCEPT ![op[r]] = addr[r]]
  /\ UNCHANGED <<sessions, epoch, driverVars>>

\* The binding goes, whatever it now is.
forget_session(r) ==
  /\ kind[r] = "ReleaseSession"
  /\ AfterForget(r)
  /\ sessions' = [sessions EXCEPT ![key[r]] = None]
  /\ epoch' = [epoch EXCEPT ![key[r]] = @ + 1]
  /\ UNCHANGED <<ops, driverVars>>

forget_op(r) ==
  /\ kind[r] \in Release
  /\ AfterForget(r)
  /\ ops' = [ops EXCEPT ![op[r]] = None]
  /\ UNCHANGED <<sessions, epoch, driverVars>>

----------------------------------------------------------------------------

\* Where a handler is suspended at an await that can be pending: the memory
\* store's futures never are.
Suspended == {"auth", "first", "send", "wait"}

Step(r) ==
  \/ Progress(r)
  \/ lookup_op(r)
  \/ lookup_session(r)
  \/ bind_session_if_absent(r)
  \/ bind_op(r)
  \/ forget_session(r)
  \/ forget_op(r)

Next ==
  \/ \E r \in Rpc : Handlers(r) \/ Step(r) \/ Cancel(r, Suspended)
  \/ \E p \in Pool : PoolChange(p)
  \/ Quiet

Spec == Init /\ [][Next]_vars

----------------------------------------------------------------------------
(* Properties *)

\* Session affinity.  Two RPCs of one session routed between the same two
\* forgets of its binding have the same backend, however their lookups and
\* binds interleave (Router::resolve_session_detailed).
OneBackendPerEpoch ==
  \A q, r \in Rpc :
    era[q] # None /\ era[q] = era[r] /\ key[q] = key[r] => addr[q] = addr[r]

\* r's address may be one that the operation index gave.
ByIndex(r) ==
  kind[r] \in OpRouted /\ op[r] # None /\ era[r] = None /\ pc[r] \in Settled

\* Backend b is one that an ExecutePlan of operation o may have gone to.
MayRun(o, b) ==
  \E q \in Rpc :
    /\ kind[q] = "ExecutePlan" /\ op[q] = o /\ pc[q] \in Settled
    /\ b \in Allowed(TenantOf[key[q]])

AddrOK(r) ==
  addr[r] # None =>
    \/ addr[r] \in Allowed(TenantOf[key[r]])
    \/ ByIndex(r) /\ MayRun(op[r], addr[r])

\* Tenant isolation, as far as resolve_op lets it go.  No session is ever bound
\* to a backend outside its tenant's pool, and an address picked for an RPC or
\* found under its session is of that pool.  An address found under an
\* operation id, which any tenant may send, is of the pool of a tenant that
\* sent an ExecutePlan with that id, and of no third one.
TenantIsolation ==
  /\ \A k \in Key : sessions[k] # None => sessions[k] \in Allowed(TenantOf[k])
  /\ \A r \in Rpc : AddrOK(r)

Sent(kd, k) == \E r \in Rpc : kind[r] = kd /\ key[r] = k
CloneTarget(k) == \E x \in Key : CloneOf[x] = k /\ Sent("CloneSession", x)

\* The point of session affinity: while nobody releases a session, at most one
\* driver holds state for it.
SessionOnOneDriver ==
  \A k \in Key \ ZeroKey :
    ~Sent("ReleaseSession", k) /\ ~CloneTarget(k) =>
      \A b, c \in hosts[k] : b = c

\* A session is pinned to one backend for its lifetime: the same claim, with
\* sessions that a CloneSession created on a driver included.
ClonedSessionOnOneDriver ==
  \A k \in Key \ ZeroKey :
    ~Sent("ReleaseSession", k) => \A b, c \in hosts[k] : b = c

\* The step is the end of a ReleaseSession of k that its backend acknowledged.
Releases(k) ==
  \E r \in Rpc : /\ kind[r] = "ReleaseSession" /\ key[r] = k
                /\ pc[r] = "forget" /\ pc'[r] = "done"

BindingKept ==
  \A k \in Key : sessions[k] # None =>
    \/ sessions'[k] = sessions[k]
    \/ sessions'[k] = None /\ Releases(k)

\* A binding never moves to another backend; it only ends, and only in the
\* step of a ReleaseSession of that key which its backend acknowledged.
BindingEndsByRelease == [][BindingKept]_vars

Carries(r, kd, o) == kind[r] = kd /\ op[r] = o
MintedOnce(o) ==
  \A p, q \in Rpc :
    Carries(p, "ExecutePlan", o) /\ Carries(q, "ExecutePlan", o) => p = q

\* ReattachExecute, ReleaseExecute and Interrupt that look up an operation some
\* driver is running are routed to that driver, under whatever session id they
\* come and even if the session's binding was forgotten, as long as nobody else
\* released the operation (execute_plan's remember_op, Router::resolve_op).
OpReachesDriver ==
  [][\A r \in Rpc :
       /\ pc[r] = "op" /\ pc'[r] # "op"
       /\ MintedOnce(op[r])
       /\ \A q \in Rpc \ {r}, kd \in Release : ~Carries(q, kd, op[r])
       => running[op[r]] = {} \/ addr'[r] \in running[op[r]]]_vars

\* A failed RPC leaves exactly one failure event in the audit log, unless it
\* was cancelled or rate limited (finalise_rpc, authenticate_and_resolve).
FailureAuditedOnce ==
  \A r \in Rpc :
    code[r] \notin {None, "OK", "Cancelled", "ResourceExhausted"} =>
      Cardinality(audit[r] \cap FailureEvents) = 1

\* scg_active_streams counts the streaming RPCs that have not ended, through
\* early errors, cancellation and the handover of the guard to the stream.
OpenStreams == {r \in Rpc : kind[r] \in Streaming /\ pc[r] \notin {"new", "done"}}
StreamGaugeExact == streams = Cardinality(OpenStreams)

----------------------------------------------------------------------------
(* The inductive invariants behind the safety properties *)

\* Behind OneBackendPerEpoch, TenantIsolation and StickyRoutingImplemented: an
\* RPC routed in the current epoch of its key agrees with the store.
EraOK(r) ==
  era[r] # None =>
    /\ key[r] \in Key
    /\ addr[r] # None
    /\ era[r] <= epoch[key[r]]
    /\ era[r] = epoch[key[r]] => sessions[key[r]] = addr[r]

EraInv == \A r \in Rpc : EraOK(r)

\* Every table holds addresses of the tenant's pool only.
PoolInv ==
  /\ \A p \in Pool : members[p] \subseteq PoolBackends[p]
  /\ \A k \in Key : sessions[k] # None => sessions[k] \in Allowed(TenantOf[k])
  /\ \A o \in Op : ops[o] # None => MayRun(o, ops[o])

AddrInv == \A r \in Rpc : AddrOK(r)

RoutingInv ==
  /\ TypeOK
  /\ RequestInv
  /\ EraInv
  /\ PoolInv
  /\ OneBackendPerEpoch
  /\ AddrInv

\* Behind FailureAuditedOnce and StreamGaugeExact.
CallInv == \A r \in Rpc : CallOK(r)
GaugeInv == IsFiniteSet(OpenStreams) /\ StreamGaugeExact

\* Behind SessionOnOneDriver: a driver holds a session that nobody released
\* only if the session is bound to it.
HostInv ==
  /\ \A r \in Rpc :
       /\ kind[r] \in SessionRouted /\ key[r] \notin ZeroKey
       /\ pc[r] \in {"remember", "send"}
       => era[r] # None
  /\ \A k \in Key : ~Sent("ReleaseSession", k) => epoch[k] = 0
  /\ \A k \in Key \ ZeroKey :
       ~Sent("ReleaseSession", k) /\ ~CloneTarget(k) =>
         \A b \in hosts[k] : sessions[k] = b

\* Behind OpReachesDriver: the index names the driver of an operation that was
\* minted once and whose release has not got past its lookup.
Untouched(o) ==
  /\ MintedOnce(o)
  /\ \A q \in Rpc, kd \in Release : Carries(q, kd, o) => pc[q] \in {"auth", "op"}

IndexInv ==
  \A o \in Op :
    /\ \A b \in running[o] :
         \E r \in Rpc : /\ Carries(r, "ExecutePlan", o)
                        /\ pc[r] \in {"wait", "stream", "done"}
    /\ Untouched(o) =>
         /\ \A b \in running[o] : ops[o] = b
         /\ \A r \in Rpc :
              Carries(r, "ExecutePlan", o) /\ pc[r] = "send" => ops[o] = addr[r]

\* What the gateway promises a client of sessions, and that it keeps it.
Sticky ==
  INSTANCE StickyRouting
    WITH Caller <- Rpc,
         May <- [k \in Key |-> Allowed(TenantOf[k])],
         binding <- sessions,
         route <- [r \in Rpc |-> IF era[r] = None THEN None
                                                 ELSE <<key[r], addr[r]>>]

\* The handlers, the router and the store together implement StickyRouting.
StickyRoutingImplemented == Sticky!Spec
=============================================================================
