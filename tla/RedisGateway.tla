---------------------------- MODULE RedisGateway ----------------------------
(***************************************************************************)
(* Several gateway replicas sharing the Redis affinity store of            *)
(* crates/store-redis.  A store operation is a sequence of Redis commands  *)
(* sent while the replica's connection mutex is held; each command is one  *)
(* step, keys expire between any two of them, a command may fail, and a    *)
(* caller that goes away leaves the command it was waiting for on its way. *)
(*                                                                         *)
(* session_key and op_key join their fields with separators; the model     *)
(* keys the tables by the fields themselves, which is the same table as    *)
(* long as no tenant, user or session id contains a "|".                   *)
(*                                                                         *)
(* The pools stand still here.  A pick may draw any member at any time, so *)
(* a change of membership would add only an RPC that finds no backend,     *)
(* which leaves the store alone and is among the RPCs of MemoryGateway.    *)
(***************************************************************************)
EXTENDS Proxy

CONSTANTS
  Replica,     \* gateway processes
  Placements,  \* the ways [Rpc -> Replica] a load balancer may spread the RPCs
  SessionTTL,  \* RedisStoreConfig.session_ttl, in ticks
  OpTTL,       \* RedisStoreConfig.op_ttl, in ticks
  MaxTicks,    \* bound: how often the clock ticks
  Faults       \* whether commands can fail

ASSUME ReplicasAssumption == Placements \subseteq [Rpc -> Replica]

ASSUME TTLAssumption ==
  /\ SessionTTL \in Nat \ {0}
  /\ OpTTL \in Nat \ {0}
  /\ MaxTicks \in Nat
  /\ Faults \in BOOLEAN

Answers == [epoch : Nat, val : Backend]

ASSUME RedisAssumption ==
  /\ Key \cap Op = {}
  /\ None \notin Rpc
  /\ None \notin Answers
  /\ DynamicPool = {}

VARIABLES
  replica, \* replica[r]: the replica r comes through
  conn,    \* conn[x]: the RPC that holds replica x's connection, or None
  cmd,     \* cmd[r]: the command r waits for
  got,     \* got[r]: the value the store gave r and the epoch it is of, or None
  ttl,     \* ttl[id]: ticks a Redis key still lives
  late,    \* write commands on their way that nobody waits for any more
  ticks

redisVars == <<replica, conn, cmd, got, ttl, late, ticks>>
allVars == <<vars, redisVars>>

Commands == {"none", "GET", "EXPIRE", "SET_NX", "GET_again", "SET", "DEL"}
Writes == [rpc : Rpc, cmd : {"EXPIRE", "SET_NX", "SET", "DEL"},
           id : Key \cup Op, val : Backend \cup {None}]

RedisTypeOK ==
  /\ TypeOK
  /\ replica \in [Rpc -> Replica]
  /\ conn \in [Replica -> Rpc \cup {None}]
  /\ cmd \in [Rpc -> Commands]
  /\ got \in [Rpc -> Answers \cup {None}]
  /\ ttl \in [Key \cup Op -> 0 .. IF SessionTTL > OpTTL THEN SessionTTL ELSE OpTTL]
  /\ late \subseteq Writes
  /\ ticks \in 0 .. MaxTicks

RedisInit ==
  /\ Init
  /\ replica \in Placements
  /\ conn = [x \in Replica |-> None]
  /\ cmd = [r \in Rpc |-> "none"]
  /\ got = [r \in Rpc |-> None]
  /\ ttl = [id \in Key \cup Op |-> 0]
  /\ late = {}
  /\ ticks = 0

----------------------------------------------------------------------------
(* Redis (external: modelled from the commands RedisStore sends) *)

Value(id) == IF id \in Op THEN ops[id] ELSE sessions[id]
TTL(id) == IF id \in Op THEN OpTTL ELSE SessionTTL

\* Key id now holds v for t ticks; None removes it.
Put(id, v, t) ==
  /\ ttl' = [ttl EXCEPT ![id] = t]
  /\ \/ /\ id \in Op
        /\ ops' = [ops EXCEPT ![id] = v]
        /\ UNCHANGED <<sessions, epoch>>
     \/ /\ id \in Key
        /\ sessions' = [sessions EXCEPT ![id] = v]
        /\ epoch' = IF sessions[id] # None /\ v = None
                    THEN [epoch EXCEPT ![id] = @ + 1] ELSE epoch
        /\ UNCHANGED ops

NoPut == UNCHANGED <<ttl, storeVars>>

Apply(w) ==
  \/ /\ w.cmd = "SET_NX" /\ Value(w.id) = None
     /\ Put(w.id, w.val, TTL(w.id))
  \/ /\ w.cmd = "EXPIRE" /\ Value(w.id) # None
     /\ Put(w.id, Value(w.id), TTL(w.id))
  \/ /\ w.cmd = "SET"
     /\ Put(w.id, w.val, TTL(w.id))
  \/ /\ w.cmd = "DEL"
     /\ Put(w.id, None, 0)
  \/ /\ \/ w.cmd = "SET_NX" /\ Value(w.id) # None
        \/ w.cmd = "EXPIRE" /\ Value(w.id) = None
     /\ NoPut

\* Time passes and the keys whose time is up are gone.
Tick ==
  /\ ticks < MaxTicks
  /\ ticks' = ticks + 1
  /\ ttl' = [id \in Key \cup Op |-> IF ttl[id] > 0 THEN ttl[id] - 1 ELSE 0]
  /\ sessions' = [k \in Key |-> IF ttl[k] = 1 THEN None ELSE sessions[k]]
  /\ ops' = [o \in Op |-> IF ttl[o] = 1 THEN None ELSE ops[o]]
  /\ epoch' = [k \in Key |-> IF ttl[k] = 1 THEN epoch[k] + 1 ELSE epoch[k]]
  /\ UNCHANGED <<rpcVars, members, driverVars, era, replica, conn, cmd, got, late>>

\* A command whose sender stopped waiting arrives after all, or is lost with
\* its connection.
LateWrite(w) ==
  /\ late' = late \ {w}
  /\ Apply(w) \/ (Faults /\ NoPut)
  /\ UNCHANGED <<rpcVars, members, driverVars, era, replica, conn, cmd, got, ticks>>

----------------------------------------------------------------------------
(* RedisStore *)

\* The key r's operation is about, and the write r now waits for.
OnOp(r) == pc[r] \in {"op", "remember"} \/ (pc[r] = "forget" /\ kind[r] \in Release)
Id(r) == IF OnOp(r) THEN op[r] ELSE key[r]

\* Mutant: the index is given the backend the session has by then.
Write_session(r) ==
  [rpc |-> r, cmd |-> cmd[r], id |-> Id(r), val |-> IF OnOp(r) THEN sessions[key[r]] ELSE addr[r]]

Write(r) == [rpc |-> r, cmd |-> cmd[r], id |-> Id(r), val |-> addr[r]]

InStore(r) == AsksStore(r) \/ pc[r] \in {"op", "bind", "remember", "forget"}

\* The operations' head: conn.lock().await.
Lock(r) ==
  /\ InStore(r)
  /\ cmd[r] = "none"
  /\ conn[replica[r]] = None
  /\ conn' = [conn EXCEPT ![replica[r]] = r]
  /\ cmd' = [cmd EXCEPT ![r] =
               CASE pc[r] \in {"op", "session"} -> "GET"
                 [] pc[r] = "bind" -> "SET_NX"
                 [] pc[r] = "remember" -> "SET"
                 [] pc[r] = "forget" -> "DEL"]
  /\ UNCHANGED <<vars, replica, got, ttl, late, ticks>>

\* The operation returns and the mutex guard is dropped.
Unlock(r) ==
  /\ cmd' = [cmd EXCEPT ![r] = "none"]
  /\ conn' = [conn EXCEPT ![replica[r]] = None]

\* r's command c is carried out next.  On one healthy connection commands are
\* answered in the order they were sent.
Sends(r, c) ==
  /\ cmd[r] = c
  /\ Faults \/ \A w \in late : replica[w.rpc] # replica[r]
  /\ UNCHANGED <<driverVars, replica, ticks>>

\* r's write is answered, or fails: then it may still arrive.
Written(r) ==
  \/ Apply(Write(r)) /\ UNCHANGED late
  \/ Faults /\ NoPut /\ late' = late \cup {Write(r)}

Answer(r) == [got EXCEPT ![r] = [epoch |-> IF OnOp(r) THEN 0 ELSE epoch[key[r]],
                                 val |-> Value(Id(r))]]

\* lookup_session and lookup_op: GET, on a hit EXPIRE; an error is a miss.
\* After is what the caller does with the answer.
Get(r, After(_, _)) ==
  /\ Sends(r, "GET")
  /\ \/ /\ Value(Id(r)) # None
        /\ cmd' = [cmd EXCEPT ![r] = "EXPIRE"]
        /\ got' = Answer(r)
        /\ UNCHANGED <<rpcVars, members, era, conn>>
     \/ /\ Value(Id(r)) = None \/ Faults
        /\ After(r, None)
        /\ Unlock(r)
        /\ UNCHANGED got
  /\ NoPut
  /\ UNCHANGED late

Expire(r, After(_, _)) ==
  /\ Sends(r, "EXPIRE")
  /\ After(r, got[r].val)
  /\ Unlock(r)
  /\ Written(r)
  /\ UNCHANGED got

lookup_op(r) == pc[r] = "op" /\ (Get(r, AfterLookupOp) \/ Expire(r, AfterLookupOp))

lookup_session(r) == AsksStore(r) /\ (Get(r, AfterLookup) \/ Expire(r, AfterLookup))

\* Mutant: SET without NX.
bind_session_if_absent_overwrites(r) ==
  /\ pc[r] = "bind"
  /\ Sends(r, "SET_NX")
  /\ AfterBind(r, addr[r])
  /\ Unlock(r)
  /\ Put(key[r], addr[r], SessionTTL)
  /\ got' = [got EXCEPT ![r] = [epoch |-> epoch[key[r]], val |-> addr[r]]]
  /\ UNCHANGED late

\* Mutant: a SET NX that finds the key bound is taken for a win.
bind_session_if_absent_ignores_nil(r) ==
  /\ pc[r] = "bind"
  /\ Sends(r, "SET_NX")
  /\ AfterBind(r, addr[r])
  /\ Unlock(r)
  /\ Written(r)
  /\ got' = [got EXCEPT ![r] = [epoch |-> epoch[key[r]], val |-> addr[r]]]

\* SET NX EX.  OK: r won.  nil: someone else holds the key, whose value r then
\* reads.  A value that is gone by then, or any error, leaves r its own pick.
bind_session_if_absent(r) ==
  /\ pc[r] = "bind"
  /\ \/ /\ Sends(r, "SET_NX")
        /\ Value(key[r]) = None
        /\ Apply(Write(r))
        /\ AfterBind(r, addr[r])
        /\ Unlock(r)
        /\ got' = [got EXCEPT ![r] = [epoch |-> epoch[key[r]], val |-> addr[r]]]
        /\ UNCHANGED late
     \/ /\ Sends(r, "SET_NX")
        /\ Value(key[r]) # None
        /\ cmd' = [cmd EXCEPT ![r] = "GET_again"]
        /\ NoPut
        /\ UNCHANGED <<rpcVars, members, era, conn, got, late>>
     \/ /\ Faults
        /\ Sends(r, "SET_NX")
        /\ late' = late \cup {Write(r)}
        /\ AfterBind(r, addr[r])
        /\ Unlock(r)
        /\ NoPut
        /\ UNCHANGED got
     \/ /\ Sends(r, "GET_again")
        /\ Value(key[r]) # None
        /\ AfterBind(r, Value(key[r]))
        /\ Unlock(r)
        /\ got' = Answer(r)
        /\ NoPut
        /\ UNCHANGED late
     \/ /\ Sends(r, "GET_again")
        /\ Value(key[r]) = None \/ Faults
        /\ AfterBind(r, addr[r])
        /\ Unlock(r)
        /\ NoPut
        /\ UNCHANGED <<got, late>>

\* SET EX; a failure is only logged.
bind_op(r) ==
  /\ Sends(r, "SET")
  /\ AfterRemember(r)
  /\ Unlock(r)
  /\ Written(r)
  /\ UNCHANGED got

\* DEL; a failure is only logged.
forget_session(r) ==
  /\ kind[r] = "ReleaseSession"
  /\ Sends(r, "DEL")
  /\ AfterForget(r)
  /\ Unlock(r)
  /\ Written(r)
  /\ UNCHANGED got

forget_op(r) ==
  /\ kind[r] \in Release
  /\ Sends(r, "DEL")
  /\ AfterForget(r)
  /\ Unlock(r)
  /\ Written(r)
  /\ UNCHANGED got

\* Mutant: the connection stays locked when a caller goes away.
CancelInStore_keeps_lock(r) ==
  /\ InStore(r)
  /\ Leave(r, "Cancelled", {})
  /\ cmd' = [cmd EXCEPT ![r] = "none"]
  /\ UNCHANGED conn
  /\ late' \in IF cmd[r] \in {"none", "GET", "GET_again"} THEN {late}
               ELSE {late, late \cup {Write(r)}}
  /\ NoPut
  /\ UNCHANGED <<addr, members, driverVars, era, replica, got, ticks>>

\* The client goes away while r waits for the mutex or for an answer: the
\* guard is dropped, the command may already be on its way.
CancelInStore(r) ==
  /\ InStore(r)
  /\ Leave(r, "Cancelled", {})
  /\ cmd' = [cmd EXCEPT ![r] = "none"]
  /\ conn' = [x \in Replica |-> IF conn[x] = r THEN None ELSE conn[x]]
  /\ late' \in IF cmd[r] \in {"none", "GET", "GET_again"} THEN {late}
               ELSE {late, late \cup {Write(r)}}
  /\ NoPut
  /\ UNCHANGED <<addr, members, driverVars, era, replica, got, ticks>>

----------------------------------------------------------------------------

Suspended == {"auth", "first", "send", "wait"}

Step(r) ==
  \/ Progress(r) /\ UNCHANGED redisVars
  \/ Lock(r)
  \/ lookup_op(r)
  \/ lookup_session(r)
  \/ bind_session_if_absent(r)
  \/ bind_op(r)
  \/ forget_session(r)
  \/ forget_op(r)

Next ==
  \/ \E r \in Rpc : (Handlers(r) \/ Cancel(r, Suspended)) /\ UNCHANGED redisVars
  \/ \E r \in Rpc : Step(r) \/ CancelInStore(r)
  \/ \E w \in late : LateWrite(w)
  \/ Tick
  \/ Quiet /\ UNCHANGED redisVars

Spec == RedisInit /\ [][Next]_allVars

\* Tokio runs every task that can go on, backends answer or their connections
\* fail, streams end, and Redis answers or its connection fails (Faults).
FairSpec == Spec /\ \A r \in Rpc : WF_allVars(Step(r))

----------------------------------------------------------------------------
(* Properties *)

\* Two RPCs that the store answered between the same two ends of a binding
\* (a forget or an expiry) are routed to the same backend, whatever replicas
\* they came through and whatever else failed (SET NX decides).
AffinityAcrossReplicas ==
  \A q, r \in Rpc :
    /\ era[q] # None /\ era[r] # None
    /\ got[q] # None /\ got[r] # None
    /\ key[q] = key[r] /\ got[q].epoch = got[r].epoch
    => addr[q] = addr[r]

\* A binding in Redis never moves to another backend in place: commands that
\* fail, come late or race only create or delete it.
BindingNeverMoves ==
  [][\A k \in Key : sessions[k] # None => sessions'[k] \in {sessions[k], None}]_allVars

\* The connection of a replica is held by an RPC that is inside a store
\* operation on that replica, and by nobody else: no return, error path or
\* cancellation leaves it locked.
ConnectionReleased ==
  \A x \in Replica : conn[x] # None =>
    /\ replica[conn[x]] = x
    /\ InStore(conn[x])
    /\ cmd[conn[x]] # "none"

\* Every RPC ends although the RPCs of a replica queue for its one connection,
\* commands fail and callers disappear while they hold the connection.  (An RPC is made
\* once: it is not "new" again.)
EveryRpcEnds == []<>(\A r \in Rpc : pc[r] \in {"new", "done"})

\* A session in the table has a session.create event, unless its binding was
\* made by an operation-routed RPC or by one that was cancelled while its
\* SET NX was on its way: errors and late commands hide no other binding.
BindingAudited ==
  \A k \in Key : sessions[k] # None =>
    \E r \in Rpc :
      /\ key[r] = k
      /\ "session.create" \in audit[r] \/ kind[r] \in OpRouted \/ code[r] = "Cancelled"

MintedOnce(o) ==
  \A q, r \in {s \in Rpc : kind[s] = "ExecutePlan" /\ op[s] = o} : q = r

\* Whatever expires, fails or comes late, the operation index names no driver
\* but the one that runs the operation, so that a reattach that finds an entry
\* is not led astray (remember_op, bind_op).
OpIndexTruthful ==
  \A o \in Op :
    MintedOnce(o) /\ ops[o] # None /\ running[o] # {} => ops[o] \in running[o]

----------------------------------------------------------------------------
(* The inductive invariant behind the safety properties *)

\* The command r waits for, the point of its handler, the connection it holds
\* and the answer it has had fit together.
CmdOK(r) ==
  /\ cmd[r] # "none" => InStore(r) /\ conn[replica[r]] = r
  /\ cmd[r] \in {"GET", "EXPIRE"} => pc[r] \in {"op", "session"}
  /\ cmd[r] \in {"SET_NX", "GET_again"} => pc[r] = "bind"
  /\ cmd[r] = "SET" => pc[r] = "remember"
  /\ cmd[r] = "DEL" => pc[r] = "forget"
  /\ pc[r] \notin Settled =>
       (got[r] # None <=> cmd[r] = "EXPIRE")

ConnInv ==
  /\ \A r \in Rpc : CmdOK(r)
  /\ \A x \in Replica : conn[x] # None =>
       replica[conn[x]] = x /\ cmd[conn[x]] # "none"

\* r has an answer of the session table.
Answered(r) == got[r] # None /\ (era[r] # None \/ pc[r] = "session")

\* An answer of the current epoch is what the table holds.
AnswerOK(r) ==
  Answered(r) =>
    /\ got[r].epoch <= epoch[key[r]]
    /\ got[r].epoch = epoch[key[r]] => sessions[key[r]] = got[r].val
    /\ era[r] # None => addr[r] = got[r].val

AnswerInv ==
  /\ \A r \in Rpc : AnswerOK(r)
  /\ \A q, r \in Rpc :
       /\ Answered(q) /\ Answered(r)
       /\ key[q] = key[r] /\ got[q].epoch = got[r].epoch
       => got[q].val = got[r].val

\* r is an ExecutePlan of operation o whose address is b for good.
Mints(r, o, b) ==
  /\ pc[r] \in Settled
  /\ kind[r] = "ExecutePlan" /\ op[r] = o /\ addr[r] = b

\* r accounts for a binding of k: it audited it, or is one of those that need
\* not.
Binds(r, k) ==
  /\ pc[r] \in Settled
  /\ key[r] = k
  /\ \/ "session.create" \in audit[r]
     \/ kind[r] \in OpRouted
     \/ pc[r] = "done" /\ code[r] = "Cancelled"

\* What a command that nobody waits for may still write.
LateOK(w) ==
  /\ w.cmd = "SET_NX" => w.id \in Key /\ Binds(w.rpc, w.id)
  /\ w.cmd = "SET" => w.id \in Op /\ Mints(w.rpc, w.id, w.val)

TableInv ==
  /\ \A w \in late : LateOK(w)
  /\ \A k \in Key : sessions[k] # None => \E r \in Rpc : Binds(r, k)
  /\ \A o \in Op : ops[o] # None => \E r \in Rpc : Mints(r, o, ops[o])
  /\ \A o \in Op : \A b \in running[o] : \E r \in Rpc : Mints(r, o, b)

RedisInv == RedisTypeOK /\ RequestInv /\ ConnInv /\ AnswerInv /\ TableInv
=============================================================================
