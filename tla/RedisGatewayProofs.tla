------------------------ MODULE RedisGatewayProofs ------------------------
(***************************************************************************)
(* Theorems about RedisGateway, for any number of replicas, RPCs,          *)
(* sessions, operations, tenants, pools and backends, any TTLs and any     *)
(* faults: first what a Redis command does to the tables, the few shapes   *)
(* that the steps of a store operation have, and what they do to the       *)
(* connections, the answers and the tables, one part of the inductive      *)
(* invariant at a time; then that every step preserves it.                 *)
(***************************************************************************)
EXTENDS RedisGateway, ProxyLemmas

----------------------------------------------------------------------------
(* What a command does to the tables *)

Lives == 0 .. IF SessionTTL > OpTTL THEN SessionTTL ELSE OpTTL

TableTypes ==
  /\ sessions \in [Key -> Backend \cup {None}]
  /\ ops \in [Op -> Backend \cup {None}]
  /\ epoch \in [Key -> Nat]
  /\ ttl \in [Key \cup Op -> Lives]

\* The binding of k stands, or ends, with its epoch.
Kept(k) == sessions'[k] = sessions[k] /\ epoch'[k] = epoch[k]
Ended(k) == sessions'[k] = None /\ epoch'[k] = epoch[k] + 1

\* What the write w can do: bind a free key, end a binding, and put an entry
\* into the index or remove one.
Moves(w) ==
  /\ \A k \in Key : \/ Kept(k) \/ Ended(k)
                    \/ /\ w.cmd = "SET_NX" /\ w.id = k /\ sessions[k] = None
                       /\ sessions'[k] = w.val /\ epoch'[k] = epoch[k]
  /\ \A o \in Op : \/ ops'[o] \in {ops[o], None}
                   \/ w.cmd = "SET" /\ w.id = o /\ ops'[o] = w.val

\* A key lives for as long as its table says.
LEMMA TTLType ==
  ASSUME NEW id
  PROVE  TTL(id) \in Lives /\ 0 \in Lives
BY TTLAssumption DEF TTL, Lives

\* A Redis key holds a backend or nothing.
LEMMA ValueType ==
  ASSUME TableTypes, NEW id \in Key \cup Op
  PROVE  Value(id) \in Backend \cup {None}
BY Zenon DEF TableTypes, Value

\* A write to an operation's key is none to a session's.
LEMMA PutOp ==
  ASSUME TableTypes, NEW id \in Op, NEW v \in Backend \cup {None}, NEW t \in Lives,
         Put(id, v, t)
  PROVE  /\ TableTypes'
         /\ UNCHANGED <<sessions, epoch>>
         /\ ops'[id] = v
         /\ \A o \in Op \ {id} : ops'[o] = ops[o]
<1>1. /\ ttl' = [ttl EXCEPT ![id] = t]
      /\ ops' = [ops EXCEPT ![id] = v]
      /\ UNCHANGED <<sessions, epoch>>
  BY RedisAssumption, Zenon DEF Put
<1> QED BY <1>1, Zenon DEF TableTypes

\* A write to a session's key ends its epoch if it removes a binding.
LEMMA PutSession ==
  ASSUME TableTypes, NEW id \in Key, NEW v \in Backend \cup {None}, NEW t \in Lives,
         Put(id, v, t)
  PROVE  /\ TableTypes'
         /\ UNCHANGED ops
         /\ sessions'[id] = v
         /\ epoch'[id] = IF sessions[id] # None /\ v = None THEN epoch[id] + 1
                                                            ELSE epoch[id]
         /\ \A k \in Key \ {id} : Kept(k)
<1>1. /\ ttl' = [ttl EXCEPT ![id] = t]
      /\ sessions' = [sessions EXCEPT ![id] = v]
      /\ epoch' = IF sessions[id] # None /\ v = None
                  THEN [epoch EXCEPT ![id] = epoch[id] + 1] ELSE epoch
      /\ UNCHANGED ops
  BY RedisAssumption, Zenon DEF Put
<1>2. sessions' \in [Key -> Backend \cup {None}] /\ ttl' \in [Key \cup Op -> Lives]
  BY <1>1, Zenon DEF TableTypes
<1>3. epoch' \in [Key -> Nat]
  BY <1>1 DEF TableTypes
<1>4. \A k \in Key \ {id} : sessions'[k] = sessions[k] /\ epoch'[k] = epoch[k]
  BY <1>1, Zenon DEF TableTypes
<1>5. /\ sessions'[id] = v
      /\ epoch'[id] = IF sessions[id] # None /\ v = None THEN epoch[id] + 1
                                                         ELSE epoch[id]
  BY <1>1, Zenon DEF TableTypes
<1> QED BY <1>1, <1>2, <1>3, <1>4, <1>5, Zenon DEF TableTypes, Kept

\* A command that is carried out.
LEMMA ApplyMoves ==
  ASSUME TableTypes, NEW w \in Writes, Apply(w),
         w.cmd = "SET_NX" => w.id \in Key,
         w.cmd = "SET" => w.id \in Op
  PROVE  TableTypes' /\ Moves(w)
<1>1. w.id \in Key \cup Op /\ w.val \in Backend \cup {None}
  BY Zenon DEF Writes
<1>2. Value(w.id) \in Backend \cup {None} /\ TTL(w.id) \in Lives /\ 0 \in Lives
  BY <1>1, ValueType, TTLType, Zenon
<1>3. CASE NoPut
  BY <1>3, Zenon DEF NoPut, storeVars, Moves, Kept, TableTypes
<1>4. CASE w.cmd = "SET_NX" /\ Value(w.id) = None /\ Put(w.id, w.val, TTL(w.id))
  <2>1. w.id \in Key /\ sessions[w.id] = None
    BY <1>4, RedisAssumption, Zenon DEF Value
  <2>2. /\ TableTypes' /\ UNCHANGED ops
        /\ sessions'[w.id] = w.val /\ epoch'[w.id] = epoch[w.id]
        /\ \A k \in Key \ {w.id} : Kept(k)
    BY <1>1, <1>2, <1>4, <2>1, PutSession, Zenon
  <2> QED BY <1>4, <2>1, <2>2, Zenon DEF Moves
<1>5. CASE Put(w.id, Value(w.id), TTL(w.id))
  <2>1. CASE w.id \in Op
    <3>1. Value(w.id) = ops[w.id]
      BY <2>1, Zenon DEF Value
    <3> QED BY <1>2, <1>5, <2>1, <3>1, PutOp, Zenon DEF Moves, Kept
  <2>2. CASE w.id \in Key
    <3>1. Value(w.id) = sessions[w.id]
      BY <2>2, RedisAssumption, Zenon DEF Value
    <3>2. TableTypes' /\ UNCHANGED ops /\ \A k \in Key : Kept(k)
      BY <1>2, <1>5, <2>2, <3>1, PutSession DEF Kept
    <3> QED BY <3>2, Zenon DEF Moves
  <2> QED BY <1>1, <2>1, <2>2, Zenon
<1>6. CASE w.cmd = "SET" /\ Put(w.id, w.val, TTL(w.id))
  <2>1. /\ TableTypes' /\ UNCHANGED <<sessions, epoch>>
        /\ ops'[w.id] = w.val /\ \A o \in Op \ {w.id} : ops'[o] = ops[o]
    BY <1>1, <1>2, <1>6, PutOp
  <2> QED BY <1>6, <2>1, Zenon DEF Moves, Kept
<1>7. CASE Put(w.id, None, 0)
  <2>1. CASE w.id \in Op
    <3>1. /\ TableTypes' /\ UNCHANGED <<sessions, epoch>>
          /\ ops'[w.id] = None /\ \A o \in Op \ {w.id} : ops'[o] = ops[o]
      BY <1>2, <1>7, <2>1, PutOp, Zenon
    <3> QED BY <3>1, Zenon DEF Moves, Kept
  <2>2. CASE w.id \in Key
    <3>1. /\ TableTypes' /\ UNCHANGED ops
          /\ Kept(w.id) \/ Ended(w.id)
          /\ \A k \in Key \ {w.id} : Kept(k)
      BY <1>2, <1>7, <2>2, PutSession, Zenon DEF Kept, Ended
    <3> QED BY <3>1, Zenon DEF Moves
  <2> QED BY <1>1, <2>1, <2>2, Zenon
<1> QED BY <1>3, <1>4, <1>5, <1>6, <1>7, Zenon DEF Apply

\* Time that passes.
LEMMA TickMoves ==
  ASSUME TableTypes, Tick
  PROVE  /\ TableTypes'
         /\ \A k \in Key : Kept(k) \/ Ended(k)
         /\ \A o \in Op : ops'[o] \in {ops[o], None}
<1>1. /\ sessions' = [k \in Key |-> IF ttl[k] = 1 THEN None ELSE sessions[k]]
      /\ ops' = [o \in Op |-> IF ttl[o] = 1 THEN None ELSE ops[o]]
      /\ epoch' = [k \in Key |-> IF ttl[k] = 1 THEN epoch[k] + 1 ELSE epoch[k]]
      /\ ttl' = [id \in Key \cup Op |-> IF ttl[id] > 0 THEN ttl[id] - 1 ELSE 0]
  BY Zenon DEF Tick
<1>2. ttl' \in [Key \cup Op -> Lives]
  BY <1>1, TTLAssumption DEF TableTypes, Lives
<1>3. sessions' \in [Key -> Backend \cup {None}] /\ ops' \in [Op -> Backend \cup {None}]
  BY <1>1, Zenon DEF TableTypes
<1>4. epoch' \in [Key -> Nat]
  BY <1>1 DEF TableTypes
<1> QED BY <1>1, <1>2, <1>3, <1>4, Zenon DEF TableTypes, Kept, Ended

----------------------------------------------------------------------------
(* The steps of a store operation *)

\* GET found a value: r goes on to EXPIRE.
Hits(r) ==
  /\ cmd[r] = "GET" /\ pc[r] \in {"op", "session"}
  /\ Value(Id(r)) \in Backend
  /\ cmd' = [cmd EXCEPT ![r] = "EXPIRE"]
  /\ got' = Answer(r)
  /\ UNCHANGED <<vars, conn, ttl, late, replica, ticks>>

\* SET NX found the key bound: r goes on to read it.
Loses(r) ==
  /\ cmd[r] = "SET_NX" /\ pc[r] = "bind"
  /\ cmd' = [cmd EXCEPT ![r] = "GET_again"]
  /\ UNCHANGED <<vars, conn, got, ttl, late, replica, ticks>>

\* What becomes of r's address, answer and era when its operation returns:
\* an index or a release operation, a miss, an index hit, a session hit, a bind
\* that failed, a bind that the table decided.
Result(r) ==
  \/ /\ pc[r] \in {"remember", "forget"} /\ pc'[r] \in Settled
     /\ UNCHANGED <<addr, era, got>>
  \/ /\ pc[r] \in {"op", "session"} /\ got[r] = None
     /\ UNCHANGED <<era, got>>
  \/ /\ pc[r] = "op" /\ pc'[r] \in Settled
     /\ UNCHANGED <<era, got>>
  \/ /\ pc[r] = "session" /\ got[r] # None /\ pc'[r] \in Settled
     /\ addr'[r] = got[r].val
     /\ UNCHANGED got
  \/ /\ pc[r] = "bind" /\ got[r] = None /\ pc'[r] \in Settled
     /\ UNCHANGED got
  \/ /\ pc[r] = "bind" /\ pc'[r] \in Settled
     /\ addr'[r] \in Backend
     /\ got' = [got EXCEPT ![r] = [epoch |-> epoch[key[r]], val |-> addr'[r]]]
     /\ sessions'[key[r]] = addr'[r] /\ epoch'[key[r]] = epoch[key[r]]

\* r's operation returns and its handler takes the answer.
Returns(r) ==
  /\ cmd[r] # "none"
  /\ Taken(r) /\ LogGrows(r) /\ Result(r) /\ Unlock(r)
  /\ UNCHANGED <<driverVars, replica, ticks, kind, key, op>>
  /\ \/ /\ cmd[r] \in {"EXPIRE", "SET_NX", "SET", "DEL"}
        /\ Apply(Write(r)) /\ UNCHANGED late
     \/ NoPut /\ UNCHANGED late
     \/ /\ cmd[r] \in {"EXPIRE", "SET_NX", "SET", "DEL"}
        /\ NoPut /\ late' = late \cup {Write(r)}
  /\ cmd[r] = "SET_NX" => Binds(r, key[r])'

\* The Redis key an operation is about.
LEMMA IdFacts ==
  ASSUME RedisTypeOK, NEW r \in Rpc, RequestOK(r), InStore(r)
  PROVE  /\ Id(r) \in Key \cup Op
         /\ pc[r] \in {"session", "bind"} => Id(r) = key[r] /\ ~OnOp(r)
         /\ key[r] \in Key
         /\ pc[r] \in {"op", "remember"} => Id(r) = op[r] /\ op[r] \in Op /\ OnOp(r)
<1>1. key[r] \in Key
  BY Zenon DEF RequestOK, InStore, AsksStore
<1>2. pc[r] \in {"op", "remember"} => op[r] \in Op
  BY Zenon DEF RequestOK, RedisTypeOK, TypeOK
<1>3. pc[r] = "forget" /\ kind[r] \in Release => op[r] \in Op
  BY Zenon DEF RequestOK, RedisTypeOK, TypeOK, Forgets, Release
<1>4. pc[r] \in {"session", "op", "bind", "remember", "forget"}
  BY Zenon DEF InStore, AsksStore
<1> QED BY <1>1, <1>2, <1>3, <1>4, Zenon DEF Id, OnOp

\* A write r waits for is one of the writes.
LEMMA WriteType ==
  ASSUME RedisTypeOK, NEW r \in Rpc, RequestOK(r), InStore(r),
         cmd[r] \in {"EXPIRE", "SET_NX", "SET", "DEL"}
  PROVE  Write(r) \in Writes
<1>1. Id(r) \in Key \cup Op
  BY IdFacts, Zenon
<1>2. addr[r] \in Backend \cup {None}
  BY Zenon DEF RedisTypeOK, TypeOK
<1> QED BY <1>1, <1>2, Zenon DEF Write, Writes

\* The tables' part of the types.
LEMMA TablesTyped == RedisTypeOK => TableTypes
BY Zenon DEF RedisTypeOK, TypeOK, TableTypes, Lives

\* lookup_op.
LEMMA LookupOpSteps ==
  ASSUME RedisInv, NEW r \in Rpc, lookup_op(r)
  PROVE  Hits(r) \/ Returns(r)
<1>1. /\ RedisTypeOK /\ TypeOK /\ RequestOK(r) /\ CmdOK(r) /\ TableTypes
      /\ pc[r] = "op" /\ InStore(r)
  BY TablesTyped, Zenon DEF RedisInv, RedisTypeOK, RequestInv, ConnInv, lookup_op, InStore
<1>2. Id(r) \in Key \cup Op /\ Value(Id(r)) \in Backend \cup {None}
  BY <1>1, IdFacts, ValueType, Zenon
<1>3. CASE Get(r, AfterLookupOp)
  <2>1. CASE /\ Value(Id(r)) # None
             /\ cmd' = [cmd EXCEPT ![r] = "EXPIRE"]
             /\ got' = Answer(r)
             /\ UNCHANGED <<rpcVars, members, era, conn>>
    BY <1>1, <1>2, <1>3, <2>1, Zenon DEF Get, Sends, NoPut, Hits, vars
  <2>2. CASE AfterLookupOp(r, None) /\ Unlock(r) /\ UNCHANGED got
    <3>1. Taken(r) /\ LogGrows(r) /\ UNCHANGED <<kind, key, op>>
      BY <1>1, <2>2, TakenLookupOp, TakenLogs, Zenon
    <3>2. /\ cmd[r] = "GET" /\ got[r] = None
          /\ UNCHANGED <<driverVars, replica, ticks, late>> /\ NoPut
      BY <1>1, <1>3, Zenon DEF Get, Sends, CmdOK, Settled
    <3>3. UNCHANGED era
      BY <2>2, Zenon DEF AfterLookupOp
    <3> QED BY <1>1, <2>2, <3>1, <3>2, <3>3, Zenon DEF Returns, Result
  <2> QED BY <1>3, <2>1, <2>2, Zenon DEF Get
<1>4. CASE Expire(r, AfterLookupOp)
  <2>1. /\ cmd[r] = "EXPIRE" /\ AfterLookupOp(r, got[r].val) /\ Unlock(r)
        /\ Written(r) /\ UNCHANGED <<got, driverVars, replica, ticks>>
    BY <1>4, Zenon DEF Expire, Sends
  <2>2. got[r].val \in Backend
    BY <1>1, <2>1, Zenon DEF CmdOK, RedisTypeOK, Answers, Settled
  <2>3. Taken(r) /\ LogGrows(r) /\ UNCHANGED <<kind, key, op>>
    BY <1>1, <2>1, <2>2, TakenLookupOp, TakenLogs, Zenon
  <2>4. pc'[r] \in Settled /\ UNCHANGED era
    BY <1>1, <2>1, <2>2, NoneAssumption DEF AfterLookupOp, Forward, Settled, TypeOK
  <2> QED BY <1>1, <2>1, <2>3, <2>4, Zenon DEF Returns, Result, Written
<1> QED BY <1>3, <1>4, Zenon DEF lookup_op

\* lookup_session.
LEMMA LookupSessionSteps ==
  ASSUME RedisInv, NEW r \in Rpc, lookup_session(r)
  PROVE  Hits(r) \/ Returns(r)
<1>1. /\ RedisTypeOK /\ TypeOK /\ RequestOK(r) /\ CmdOK(r) /\ TableTypes
      /\ pc[r] = "session" /\ AsksStore(r) /\ InStore(r)
  BY TablesTyped, Zenon DEF RedisInv, RedisTypeOK, RequestInv, ConnInv, lookup_session,
                     AsksStore, InStore
<1>2. Id(r) \in Key \cup Op /\ Value(Id(r)) \in Backend \cup {None}
  BY <1>1, IdFacts, ValueType, Zenon
<1>3. CASE Get(r, AfterLookup)
  <2>1. CASE /\ Value(Id(r)) # None
             /\ cmd' = [cmd EXCEPT ![r] = "EXPIRE"]
             /\ got' = Answer(r)
             /\ UNCHANGED <<rpcVars, members, era, conn>>
    BY <1>1, <1>2, <1>3, <2>1, Zenon DEF Get, Sends, NoPut, Hits, vars
  <2>2. CASE AfterLookup(r, None) /\ Unlock(r) /\ UNCHANGED got
    <3>1. Taken(r) /\ LogGrows(r) /\ UNCHANGED <<kind, key, op>>
      BY <1>1, <2>2, TakenLookup, TakenLogs, Zenon
    <3>2. /\ cmd[r] = "GET" /\ got[r] = None
          /\ UNCHANGED <<driverVars, replica, ticks, late>> /\ NoPut
      BY <1>1, <1>3, Zenon DEF Get, Sends, CmdOK, Settled
    <3>3. UNCHANGED era
      BY <2>2, Zenon DEF AfterLookup
    <3> QED BY <1>1, <2>2, <3>1, <3>2, <3>3, Zenon DEF Returns, Result
  <2> QED BY <1>3, <2>1, <2>2, Zenon DEF Get
<1>4. CASE Expire(r, AfterLookup)
  <2>1. /\ cmd[r] = "EXPIRE" /\ AfterLookup(r, got[r].val) /\ Unlock(r)
        /\ Written(r) /\ UNCHANGED <<got, driverVars, replica, ticks>>
    BY <1>4, Zenon DEF Expire, Sends
  <2>2. got[r].val \in Backend /\ got[r] # None
    BY <1>1, <2>1, Zenon DEF CmdOK, RedisTypeOK, Answers, Settled
  <2>3. Taken(r) /\ LogGrows(r) /\ UNCHANGED <<kind, key, op>>
    BY <1>1, <2>1, <2>2, TakenLookup, TakenLogs, Zenon
  <2>4. Forward(r, got[r].val)
    BY <2>1, <2>2, NoneAssumption, Zenon DEF AfterLookup, RouteBySession
  <2>5. pc'[r] \in Settled /\ addr'[r] = got[r].val
    BY <1>1, <2>4, Zenon DEF Forward, Settled, TypeOK
  <2> QED BY <1>1, <2>1, <2>2, <2>3, <2>5, Zenon DEF Returns, Result, Written
<1> QED BY <1>3, <1>4, Zenon DEF lookup_session

\* What a handler takes from bind_session_if_absent.
LEMMA BindTaken ==
  ASSUME RedisInv, NEW r \in Rpc, NEW b \in Backend, pc[r] = "bind", AfterBind(r, b)
  PROVE  /\ Taken(r) /\ LogGrows(r) /\ UNCHANGED <<kind, key, op>>
         /\ addr'[r] = b /\ pc'[r] \in Settled
         /\ b = addr[r] => Binds(r, key[r])'
<1>1. TypeOK /\ RequestOK(r)
  BY Zenon DEF RedisInv, RedisTypeOK, RequestInv
<1>2. Taken(r) /\ LogGrows(r) /\ UNCHANGED <<kind, key, op>>
  BY <1>1, TakenBind, TakenLogs, Zenon
<1>3. addr'[r] = b /\ pc'[r] \in Settled
  BY <1>1, Zenon DEF AfterBind, RouteBySession, Forward, Settled, TypeOK
<1>4. kind[r] \in SessionRouted \cup OpRouted
  BY <1>1, Zenon DEF RequestOK, TypeOK, RpcKind
<1>5. ASSUME b = addr[r], kind[r] \in SessionRouted
      PROVE  "session.create" \in audit'[r]
  BY <1>1, <1>5, Zenon DEF AfterBind, TypeOK
<1>6. b = addr[r] => Binds(r, key[r])'
  BY <1>2, <1>3, <1>4, <1>5, Zenon DEF Binds
<1> QED BY <1>2, <1>3, <1>6, Zenon

\* bind_session_if_absent.
LEMMA BindSteps ==
  ASSUME RedisInv, NEW r \in Rpc, bind_session_if_absent(r)
  PROVE  Loses(r) \/ Returns(r)
<1>1. /\ RedisTypeOK /\ RequestOK(r) /\ CmdOK(r) /\ TableTypes
      /\ pc[r] = "bind" /\ InStore(r)
  BY TablesTyped, Zenon DEF RedisInv, RequestInv, ConnInv, bind_session_if_absent, InStore
<1>2. /\ key[r] \in Key /\ Id(r) = key[r] /\ ~OnOp(r)
      /\ Value(key[r]) = sessions[key[r]] /\ Value(key[r]) \in Backend \cup {None}
  BY <1>1, IdFacts, ValueType, RedisAssumption, Zenon DEF Value
<1>3. addr[r] \in Backend
  BY <1>1, Zenon DEF RequestOK, RedisTypeOK, TypeOK
<1>4. cmd[r] # "EXPIRE" => got[r] = None
  BY <1>1, Zenon DEF CmdOK, Settled
<1>5. CASE /\ Sends(r, "SET_NX") /\ Value(key[r]) = None /\ Apply(Write(r))
           /\ AfterBind(r, addr[r]) /\ Unlock(r)
           /\ got' = [got EXCEPT ![r] = [epoch |-> epoch[key[r]], val |-> addr[r]]]
           /\ UNCHANGED late
  <2>1. cmd[r] = "SET_NX" /\ UNCHANGED <<driverVars, replica, ticks>>
    BY <1>5, Zenon DEF Sends
  <2>2. /\ Taken(r) /\ LogGrows(r) /\ UNCHANGED <<kind, key, op>>
        /\ addr'[r] = addr[r] /\ pc'[r] \in Settled
        /\ Binds(r, key[r])'
    BY <1>1, <1>3, <1>5, BindTaken, Zenon
  <2>3. Put(key[r], addr[r], TTL(key[r]))
    <3>1. Write(r).cmd = "SET_NX" /\ Write(r).id = key[r] /\ Write(r).val = addr[r]
      BY <1>2, <2>1, Zenon DEF Write
    <3> QED BY <1>5, <3>1, Zenon DEF Apply
  <2>4. sessions'[key[r]] = addr[r] /\ epoch'[key[r]] = epoch[key[r]]
    <3>1. TTL(key[r]) \in Lives /\ addr[r] # None
      BY <1>3, TTLType, NoneAssumption, Zenon
    <3>2. /\ sessions'[key[r]] = addr[r]
          /\ epoch'[key[r]] = IF sessions[key[r]] # None /\ addr[r] = None
                             THEN epoch[key[r]] + 1 ELSE epoch[key[r]]
      BY <1>1, <1>2, <1>3, <2>3, <3>1, PutSession
    <3> QED BY <3>1, <3>2, Zenon
  <2>5. Result(r)
    BY <1>1, <1>3, <1>5, <2>2, <2>4, Zenon DEF Result
  <2> QED BY <1>5, <2>1, <2>2, <2>5, Zenon DEF Returns
<1>6. CASE /\ Sends(r, "SET_NX")
           /\ cmd' = [cmd EXCEPT ![r] = "GET_again"]
           /\ NoPut
           /\ UNCHANGED <<rpcVars, members, era, conn, got, late>>
  BY <1>1, <1>6, Zenon DEF Loses, Sends, NoPut, vars
<1>7. CASE /\ Sends(r, "SET_NX") /\ late' = late \cup {Write(r)}
           /\ AfterBind(r, addr[r]) /\ Unlock(r) /\ NoPut /\ UNCHANGED got
  <2>1. cmd[r] = "SET_NX" /\ UNCHANGED <<driverVars, replica, ticks>>
    BY <1>7, Zenon DEF Sends
  <2>2. /\ Taken(r) /\ LogGrows(r) /\ UNCHANGED <<kind, key, op>>
        /\ pc'[r] \in Settled /\ Binds(r, key[r])'
    BY <1>1, <1>3, <1>7, BindTaken, Zenon
  <2>3. Result(r)
    BY <1>1, <1>4, <1>7, <2>1, <2>2, Zenon DEF Result
  <2> QED BY <1>7, <2>1, <2>2, <2>3, Zenon DEF Returns
<1>8. CASE /\ Sends(r, "GET_again") /\ Value(key[r]) # None
           /\ AfterBind(r, Value(key[r])) /\ Unlock(r)
           /\ got' = Answer(r) /\ NoPut /\ UNCHANGED late
  <2>1. cmd[r] = "GET_again" /\ UNCHANGED <<driverVars, replica, ticks>>
    BY <1>8, Zenon DEF Sends
  <2>2. Value(key[r]) \in Backend
    BY <1>2, <1>8, Zenon
  <2>3. /\ Taken(r) /\ LogGrows(r) /\ UNCHANGED <<kind, key, op>>
        /\ addr'[r] = sessions[key[r]] /\ pc'[r] \in Settled
    BY <1>1, <1>2, <1>8, <2>2, BindTaken, Zenon
  <2>4. got' = [got EXCEPT ![r] = [epoch |-> epoch[key[r]], val |-> addr'[r]]]
    BY <1>2, <1>8, <2>3, Zenon DEF Answer
  <2>5. UNCHANGED <<sessions, epoch>>
    BY <1>8, Zenon DEF NoPut, storeVars
  <2>6. Result(r)
    BY <1>1, <1>2, <2>2, <2>3, <2>4, <2>5, Zenon DEF Result
  <2> QED BY <1>8, <2>1, <2>3, <2>6, Zenon DEF Returns
<1>9. CASE /\ Sends(r, "GET_again")
           /\ AfterBind(r, addr[r]) /\ Unlock(r) /\ NoPut /\ UNCHANGED <<got, late>>
  <2>1. cmd[r] = "GET_again" /\ UNCHANGED <<driverVars, replica, ticks>>
    BY <1>9, Zenon DEF Sends
  <2>2. /\ Taken(r) /\ LogGrows(r) /\ UNCHANGED <<kind, key, op>>
        /\ pc'[r] \in Settled
    BY <1>1, <1>3, <1>9, BindTaken, Zenon
  <2>3. Result(r)
    BY <1>1, <1>4, <1>9, <2>1, <2>2, Zenon DEF Result
  <2> QED BY <1>9, <2>1, <2>2, <2>3, Zenon DEF Returns
<1> QED BY <1>5, <1>6, <1>7, <1>8, <1>9, Zenon DEF bind_session_if_absent

\* bind_op, forget_session and forget_op.
LEMMA WriteSteps ==
  ASSUME RedisInv, NEW r \in Rpc, bind_op(r) \/ forget_session(r) \/ forget_op(r)
  PROVE  Returns(r)
<1>1. TypeOK /\ RequestOK(r)
  BY Zenon DEF RedisInv, RedisTypeOK, RequestInv
<1>2. CASE bind_op(r)
  <2>1. /\ cmd[r] = "SET" /\ AfterRemember(r) /\ Unlock(r) /\ Written(r)
        /\ UNCHANGED <<got, driverVars, replica, ticks>>
    BY <1>2, Zenon DEF bind_op, Sends
  <2>2. Taken(r) /\ LogGrows(r) /\ UNCHANGED <<kind, key, op>>
    BY <1>1, <2>1, TakenRemember, TakenLogs, Zenon
  <2>3. Result(r)
    BY <1>1, <2>1, Zenon DEF AfterRemember, Result, Settled, TypeOK
  <2> QED BY <2>1, <2>2, <2>3, Zenon DEF Returns, Written
<1>3. CASE forget_session(r) \/ forget_op(r)
  <2>1. /\ cmd[r] = "DEL" /\ AfterForget(r) /\ Unlock(r) /\ Written(r)
        /\ UNCHANGED <<got, driverVars, replica, ticks>>
    BY <1>3, Zenon DEF forget_session, forget_op, Sends
  <2>2. Taken(r) /\ LogGrows(r) /\ UNCHANGED <<kind, key, op>>
    BY <1>1, <2>1, TakenForget, TakenLogs, Zenon
  <2>3. Result(r)
    BY <1>1, <2>1, Zenon DEF AfterForget, Return, Leave, Result, Settled, TypeOK
  <2> QED BY <2>1, <2>2, <2>3, Zenon DEF Returns, Written
<1> QED BY <1>2, <1>3, Zenon

----------------------------------------------------------------------------
(* Connections *)

\* An RPC that the step is not about keeps its place in the store.
LEMMA InStoreKept ==
  ASSUME NEW r \in Rpc, OnlyRpc(r), NEW q \in Rpc \ {r}
  PROVE  InStore(q)' <=> InStore(q)
BY Zenon DEF OnlyRpc, InStore, AsksStore, PoolOf

\* When r's operation returns, or r is cancelled in it, its connection is free
\* and the others keep theirs.
LEMMA ConnReturned ==
  ASSUME RedisTypeOK, ConnInv, NEW r \in Rpc, OnlyRpc(r), UNCHANGED replica,
         cmd' = [cmd EXCEPT ![r] = "none"],
         conn' \in [Replica -> Rpc \cup {None}],
         \A x \in Replica : conn'[x] = IF conn[x] = r THEN None ELSE conn[x],
         \A q \in Rpc \ {r} : got'[q] = got[q],
         pc'[r] \notin Settled => got'[r] = None
  PROVE  ConnInv'
<1>1. cmd'[r] = "none" /\ \A q \in Rpc \ {r} : cmd'[q] = cmd[q]
  BY Zenon DEF RedisTypeOK
<1>2. CmdOK(r)'
  BY <1>1, Zenon DEF CmdOK
<1>3. ASSUME NEW q \in Rpc \ {r}
      PROVE  CmdOK(q)'
  <2>1. CmdOK(q) /\ replica[q] \in Replica
    BY Zenon DEF ConnInv, RedisTypeOK
  <2>2. pc'[q] = pc[q] /\ got'[q] = got[q] /\ cmd'[q] = cmd[q]
    BY <1>1, Zenon DEF OnlyRpc
  <2>3. conn[replica[q]] = q => conn'[replica[q]] = q
    BY <2>1, Zenon
  <2> QED BY <2>1, <2>2, <2>3, InStoreKept, Zenon DEF CmdOK
<1>4. ASSUME NEW x \in Replica, conn'[x] # None
      PROVE  replica'[conn'[x]] = x /\ cmd'[conn'[x]] # "none"
  <2>1. conn'[x] = conn[x] /\ conn[x] # r /\ conn[x] \in Rpc
    BY <1>4, Zenon DEF RedisTypeOK
  <2> QED BY <1>1, <1>4, <2>1 DEF ConnInv
<1> QED BY <1>2, <1>3, <1>4, Zenon DEF ConnInv

\* A step in which nobody gets or gives back a connection.
LEMMA ConnStill ==
  ASSUME RedisTypeOK, ConnInv, NEW r \in Rpc, OnlyRpc(r), UNCHANGED <<replica, conn>>,
         \A q \in Rpc \ {r} : got'[q] = got[q] /\ cmd'[q] = cmd[q],
         cmd'[r] = "none" => cmd[r] = "none",
         CmdOK(r)'
  PROVE  ConnInv'
<1>1. ASSUME NEW q \in Rpc \ {r}
      PROVE  CmdOK(q)'
  <2>1. CmdOK(q)
    BY Zenon DEF ConnInv
  <2>2. pc'[q] = pc[q] /\ got'[q] = got[q] /\ cmd'[q] = cmd[q]
    BY Zenon DEF OnlyRpc
  <2> QED BY <2>1, <2>2, InStoreKept, Zenon DEF CmdOK
<1>2. ASSUME NEW x \in Replica, conn'[x] # None
      PROVE  replica'[conn'[x]] = x /\ cmd'[conn'[x]] # "none"
  <2>1. conn[x] \in Rpc /\ replica[conn[x]] = x /\ cmd[conn[x]] # "none"
    BY <1>2 DEF RedisTypeOK, ConnInv
  <2> QED BY <2>1, Zenon
<1> QED BY <1>1, <1>2, Zenon DEF ConnInv

\* A step of an RPC outside the store.
LEMMA ConnOutside ==
  ASSUME RedisInv, NEW r \in Rpc,
         Handlers(r) \/ Progress(r) \/ Cancel(r, Suspended), UNCHANGED redisVars
  PROVE  ConnInv'
<1>1. RedisTypeOK /\ TypeOK /\ RequestInv /\ ConnInv /\ CmdOK(r)
  BY Zenon DEF RedisInv, RedisTypeOK, ConnInv
<1>2. OnlyRpc(r)
  BY <1>1, RequestProgress, Zenon DEF Suspended
<1>3. ~InStore(r) /\ (pc[r] \in Settled => pc'[r] \in Settled)
  BY <1>1, ProgressPlaces, Zenon DEF Suspended, InStore
<1>4. cmd'[r] = "none" /\ cmd[r] = "none" /\ UNCHANGED <<replica, conn, cmd, got>>
  BY <1>1, <1>3, Zenon DEF CmdOK, redisVars
<1>5. CmdOK(r)'
  BY <1>1, <1>3, <1>4, Zenon DEF CmdOK
<1> QED BY <1>1, <1>2, <1>4, <1>5, ConnStill, Zenon

\* conn.lock().
LEMMA ConnLocked ==
  ASSUME RedisInv, NEW r \in Rpc, Lock(r)
  PROVE  ConnInv'
<1> DEFINE c == CASE pc[r] \in {"op", "session"} -> "GET"
                  [] pc[r] = "bind" -> "SET_NX"
                  [] pc[r] = "remember" -> "SET"
                  [] pc[r] = "forget" -> "DEL"
<1>1. RedisTypeOK /\ TypeOK /\ ConnInv /\ CmdOK(r)
  BY Zenon DEF RedisInv, RedisTypeOK, ConnInv
<1>2. /\ InStore(r) /\ cmd[r] = "none" /\ conn[replica[r]] = None
      /\ conn' = [conn EXCEPT ![replica[r]] = r]
      /\ cmd' = [cmd EXCEPT ![r] = c]
      /\ UNCHANGED <<pc, key, replica, got>>
  BY Zenon DEF Lock, vars, rpcVars
<1>3. pc[r] \in {"op", "session", "bind", "remember", "forget"}
  BY <1>2, Zenon DEF InStore, AsksStore
<1>4. /\ c \in {"GET", "SET_NX", "SET", "DEL"}
      /\ c = "GET" => pc[r] \in {"op", "session"}
      /\ c = "SET_NX" => pc[r] = "bind"
      /\ c = "SET" => pc[r] = "remember"
      /\ c = "DEL" => pc[r] = "forget"
  BY <1>3, Zenon
<1> HIDE DEF c
<1>5. /\ cmd'[r] = c /\ conn'[replica[r]] = r
      /\ \A q \in Rpc \ {r} : cmd'[q] = cmd[q]
      /\ \A x \in Replica \ {replica[r]} : conn'[x] = conn[x]
  BY <1>1, <1>2, Zenon DEF RedisTypeOK
<1>6. \A q \in Rpc : InStore(q)' <=> InStore(q)
  BY <1>2, Zenon DEF InStore, AsksStore, PoolOf
<1>7. CmdOK(r)'
  BY <1>1, <1>2, <1>4, <1>5, <1>6 DEF CmdOK
<1>8. ASSUME NEW q \in Rpc \ {r}
      PROVE  CmdOK(q)'
  <2>1. CmdOK(q) /\ replica[q] \in Replica /\ q # None
    BY <1>1, RedisAssumption, Zenon DEF ConnInv, RedisTypeOK
  <2>2. conn[replica[q]] = q => conn'[replica[q]] = q
    BY <1>2, <1>5, <2>1, Zenon
  <2> QED BY <1>2, <1>5, <1>6, <2>1, <2>2 DEF CmdOK
<1>9. ASSUME NEW x \in Replica, conn'[x] # None
      PROVE  replica'[conn'[x]] = x /\ cmd'[conn'[x]] # "none"
  <2>1. CASE x = replica[r]
    BY <1>2, <1>4, <1>5, <2>1, Zenon
  <2>2. CASE x # replica[r]
    <3>1. conn'[x] = conn[x] /\ conn[x] \in Rpc /\ replica[conn[x]] = x
      BY <1>1, <1>5, <1>9, <2>2 DEF ConnInv, RedisTypeOK
    <3> QED BY <1>1, <1>2, <1>5, <1>9, <2>2, <3>1 DEF ConnInv
  <2> QED BY <2>1, <2>2, Zenon
<1> QED BY <1>7, <1>8, <1>9, Zenon DEF ConnInv

\* A step inside a store operation.
LEMMA ConnStep ==
  ASSUME RedisInv, NEW r \in Rpc, Hits(r) \/ Loses(r) \/ Returns(r)
  PROVE  ConnInv'
<1>1. RedisTypeOK /\ ConnInv /\ CmdOK(r) /\ RequestOK(r) /\ TypeOK
  BY Zenon DEF RedisInv, ConnInv, RequestInv, RedisTypeOK
<1>2. CASE Hits(r)
  <2>1. OnlyRpc(r) /\ UNCHANGED <<replica, conn, pc, key>>
    BY <1>2, Zenon DEF Hits, vars, rpcVars, OnlyRpc
  <2>2. /\ cmd'[r] = "EXPIRE" /\ got'[r] \in Answers
        /\ \A q \in Rpc \ {r} : got'[q] = got[q] /\ cmd'[q] = cmd[q]
    <3>1. epoch[key[r]] \in Nat
      BY <1>1, <1>2, Zenon DEF Hits, RequestOK, TypeOK
    <3>2. [epoch |-> IF OnOp(r) THEN 0 ELSE epoch[key[r]], val |-> Value(Id(r))]
            \in Answers
      BY <1>2, <3>1, Zenon DEF Hits, Answers
    <3> QED BY <1>1, <1>2, <3>2, Zenon DEF Hits, Answer, RedisTypeOK
  <2>3. InStore(r)' <=> InStore(r)
    BY <2>1, Zenon DEF InStore, AsksStore, PoolOf
  <2>4. CmdOK(r)'
    BY <1>1, <1>2, <2>1, <2>2, <2>3, RedisAssumption, Zenon DEF CmdOK, Hits
  <2> QED BY <1>1, <2>1, <2>2, <2>4, ConnStill, Zenon
<1>3. CASE Loses(r)
  <2>1. OnlyRpc(r) /\ UNCHANGED <<replica, conn, pc, key, got>>
    BY <1>3, Zenon DEF Loses, vars, rpcVars, OnlyRpc
  <2>2. /\ cmd'[r] = "GET_again"
        /\ \A q \in Rpc \ {r} : cmd'[q] = cmd[q]
    BY <1>1, <1>3, Zenon DEF Loses, RedisTypeOK
  <2>3. InStore(r)' <=> InStore(r)
    BY <2>1, Zenon DEF InStore, AsksStore, PoolOf
  <2>4. CmdOK(r)'
    BY <1>1, <1>3, <2>1, <2>2, <2>3, Zenon DEF CmdOK, Loses
  <2> QED BY <1>1, <2>1, <2>2, <2>4, ConnStill, Zenon
<1>4. CASE Returns(r)
  <2>1. /\ OnlyRpc(r) /\ Result(r)
        /\ cmd' = [cmd EXCEPT ![r] = "none"]
        /\ conn' = [conn EXCEPT ![replica[r]] = None]
        /\ cmd[r] # "none" /\ UNCHANGED replica
    BY <1>4, Zenon DEF Returns, Taken, Unlock
  <2>2. conn[replica[r]] = r
    BY <1>1, <2>1, Zenon DEF CmdOK
  <2>3. conn' \in [Replica -> Rpc \cup {None}]
    BY <1>1, <2>1, Zenon DEF RedisTypeOK
  <2>4. ASSUME NEW x \in Replica
        PROVE  conn'[x] = IF conn[x] = r THEN None ELSE conn[x]
    <3>1. conn[x] = r => replica[r] = x
      BY <1>1, RedisAssumption, Zenon DEF ConnInv
    <3> QED BY <1>1, <2>1, <2>2, <3>1, Zenon DEF RedisTypeOK
  <2>5. /\ \A q \in Rpc \ {r} : got'[q] = got[q]
        /\ pc'[r] \notin Settled => got'[r] = None
    BY <1>1, <2>1, Zenon DEF Result, RedisTypeOK
  <2> QED BY <1>1, <2>1, <2>3, <2>4, <2>5, ConnReturned, Zenon
<1> QED BY <1>2, <1>3, <1>4, Zenon

\* A caller that goes away in a store operation.
LEMMA ConnCancelled ==
  ASSUME RedisInv, NEW r \in Rpc, CancelInStore(r)
  PROVE  ConnInv'
<1>1. RedisTypeOK /\ ConnInv /\ TypeOK
  BY Zenon DEF RedisInv, RedisTypeOK
<1>2. /\ pc' = [pc EXCEPT ![r] = "done"]
      /\ cmd' = [cmd EXCEPT ![r] = "none"]
      /\ conn' = [x \in Replica |-> IF conn[x] = r THEN None ELSE conn[x]]
      /\ UNCHANGED <<kind, key, op, addr, era, replica, got>>
  BY Zenon DEF CancelInStore, Leave
<1>3. OnlyRpc(r) /\ pc'[r] \in Settled
  BY <1>1, <1>2, Zenon DEF OnlyRpc, TypeOK, Settled
<1>4. conn' \in [Replica -> Rpc \cup {None}]
  BY <1>1, <1>2, Zenon DEF RedisTypeOK
<1> QED BY <1>1, <1>2, <1>3, <1>4, ConnReturned, Zenon

----------------------------------------------------------------------------
(* Answers *)

\* What any step may do to the binding of k: an answer of the current epoch
\* stays true or the epoch is over.
Table(k) == Kept(k) \/ Ended(k) \/ (sessions[k] = None /\ epoch'[k] = epoch[k])

\* An answer that q keeps stays right.
LEMMA AnswerKept ==
  ASSUME RedisTypeOK, NEW q \in Rpc, AnswerOK(q), Answered(q), key[q] \in Key,
         Table(key[q]), key'[q] = key[q], got'[q] = got[q],
         era'[q] # None => addr'[q] = got[q].val
  PROVE  AnswerOK(q)'
<1> DEFINE k == key[q]
<1>1. got[q].epoch \in Nat /\ got[q].val \in Backend
  BY Zenon DEF RedisTypeOK, Answered, Answers
<1>2. epoch[k] \in Nat
  BY Zenon DEF RedisTypeOK, TypeOK
<1>3. /\ got[q].epoch <= epoch[k]
      /\ got[q].epoch = epoch[k] => sessions[k] = got[q].val
  BY Zenon DEF AnswerOK
<1>4. got[q].val # None
  BY <1>1, NoneAssumption, Zenon
<1>5. /\ got[q].epoch <= epoch'[k]
      /\ got[q].epoch = epoch'[k] => sessions'[k] = got[q].val
  BY <1>1, <1>2, <1>3, <1>4 DEF Table, Kept, Ended
<1> QED BY <1>5, Zenon DEF AnswerOK

\* A step that gives nobody an answer.
LEMMA AnswersStill ==
  ASSUME RedisInv, \A k \in Key : Table(k), UNCHANGED got,
         \A q \in Rpc : Answered(q)' =>
           /\ Answered(q) /\ key'[q] = key[q] /\ key[q] \in Key
           /\ era'[q] # None => addr'[q] = got[q].val
  PROVE  AnswerInv'
<1>1. RedisTypeOK /\ AnswerInv
  BY Zenon DEF RedisInv
<1>2. ASSUME NEW q \in Rpc
      PROVE  AnswerOK(q)'
  <2>1. CASE Answered(q)'
    BY <1>1, <2>1, AnswerKept, Zenon DEF AnswerInv
  <2>2. CASE ~Answered(q)'
    BY <2>2, Zenon DEF AnswerOK
  <2> QED BY <2>1, <2>2, Zenon
<1>3. ASSUME NEW p \in Rpc, NEW q \in Rpc, Answered(p)', Answered(q)',
             key'[p] = key'[q], got'[p].epoch = got'[q].epoch
      PROVE  got'[p].val = got'[q].val
  BY <1>1, <1>3, Zenon DEF AnswerInv
<1> QED BY <1>2, <1>3, Zenon DEF AnswerInv

\* A step that gives r what the table holds.
LEMMA AnswersGiven ==
  ASSUME RedisInv, NEW r \in Rpc, OnlyRpc(r), \A k \in Key : Table(k), UNCHANGED key,
         key[r] \in Key,
         NEW b \in Backend,
         got' = [got EXCEPT ![r] = [epoch |-> epoch[key[r]], val |-> b]],
         sessions'[key[r]] = b, epoch'[key[r]] = epoch[key[r]],
         era'[r] # None => addr'[r] = b
  PROVE  AnswerInv'
<1>1. RedisTypeOK /\ AnswerInv /\ RequestInv
  BY Zenon DEF RedisInv
<1>2. got'[r].epoch = epoch[key[r]] /\ got'[r].val = b
  BY <1>1, Zenon DEF RedisTypeOK
<1>3. \A q \in Rpc \ {r} : got'[q] = got[q]
  BY <1>1, Zenon DEF RedisTypeOK
<1>4. epoch[key[r]] \in Nat
  BY <1>1, Zenon DEF RedisTypeOK, TypeOK
<1>5. AnswerOK(r)'
  BY <1>2, <1>4 DEF AnswerOK
<1>6. ASSUME NEW q \in Rpc \ {r}, Answered(q)'
      PROVE  Answered(q) /\ AnswerOK(q) /\ AnswerOK(q)' /\ key[q] \in Key
  <2>1. Answered(q) /\ AnswerOK(q) /\ RequestOK(q)
    BY <1>1, <1>3, <1>6, Zenon DEF Answered, OnlyRpc, AnswerInv, RequestInv
  <2>2. key[q] \in Key
    BY <2>1, Zenon DEF RequestOK, Answered
  <2>3. era'[q] # None => addr'[q] = got[q].val
    BY <2>1, Zenon DEF OnlyRpc, AnswerOK
  <2> QED BY <1>1, <1>3, <2>1, <2>2, <2>3, AnswerKept DEF OnlyRpc
<1>7. ASSUME NEW q \in Rpc
      PROVE  AnswerOK(q)'
  BY <1>5, <1>6, Zenon DEF AnswerOK
<1>8. ASSUME NEW q \in Rpc \ {r}, Answered(q)', key[q] = key[r],
             got'[q].epoch = epoch[key[r]]
      PROVE  got'[q].val = b
  <2>1. AnswerOK(q)' /\ Answered(q)'
    BY <1>6, <1>8, Zenon
  <2> QED BY <1>8, <2>1, Zenon DEF AnswerOK
<1>9. ASSUME NEW p \in Rpc, NEW q \in Rpc, Answered(p)', Answered(q)',
             key'[p] = key'[q], got'[p].epoch = got'[q].epoch
      PROVE  got'[p].val = got'[q].val
  <2>1. CASE p = r /\ q # r
    BY <1>2, <1>8, <1>9, <2>1
  <2>2. CASE p # r /\ q = r
    BY <1>2, <1>8, <1>9, <2>2
  <2>3. CASE p # r /\ q # r
    <3>1. /\ Answered(p) /\ Answered(q) /\ key[p] = key[q]
          /\ got'[p] = got[p] /\ got'[q] = got[q]
      BY <1>3, <1>6, <1>9, <2>3, Zenon
    <3> QED BY <1>1, <1>9, <3>1, Zenon DEF AnswerInv
  <2> QED BY <2>1, <2>2, <2>3, Zenon
<1> QED BY <1>7, <1>9, Zenon DEF AnswerInv

\* An RPC that has an answer has a key.
LEMMA AnsweredFacts ==
  ASSUME RedisInv, NEW r \in Rpc, Answered(r)
  PROVE  /\ key[r] \in Key
         /\ era[r] # None => addr[r] = got[r].val /\ pc[r] \in Settled
<1>1. RequestOK(r) /\ AnswerOK(r) /\ TypeOK
  BY Zenon DEF RedisInv, RequestInv, AnswerInv, RedisTypeOK
<1>2. pc[r] # "new"
  BY <1>1, Zenon DEF Answered, RequestOK
<1>3. era[r] # None => pc[r] \in Settled
  BY <1>1, Zenon DEF RequestOK, Settled, TypeOK, Stages
<1> QED BY <1>1, <1>2, <1>3, Zenon DEF RequestOK, AnswerOK

\* A step of an RPC outside the store.
LEMMA AnswersOutside ==
  ASSUME RedisInv, NEW r \in Rpc,
         Handlers(r) \/ Progress(r) \/ Cancel(r, Suspended), UNCHANGED redisVars
  PROVE  AnswerInv'
<1>1. TypeOK /\ RequestInv /\ RequestOK(r) /\ CmdOK(r)
  BY Zenon DEF RedisInv, RedisTypeOK, ConnInv, RequestInv
<1>2. OnlyRpc(r)
  BY <1>1, RequestProgress, Zenon DEF Suspended
<1>3. ~InStore(r) /\ (pc[r] \in Settled => pc'[r] \in Settled)
  BY <1>1, ProgressPlaces, Zenon DEF Suspended, InStore
<1>4. /\ UNCHANGED <<sessions, epoch, era, got>>
      /\ UNCHANGED <<key, addr>> \/ pc[r] \in {"new", "session"}
  BY ProgressFrame, Zenon DEF redisVars
<1>5. \A k \in Key : Table(k)
  BY <1>4, Zenon DEF Table, Kept
<1>6. ASSUME Answered(r)'
      PROVE  era[r] # None /\ Answered(r) /\ UNCHANGED <<key, addr>>
  <2>1. got[r] # None
    BY <1>4, <1>6, Zenon DEF Answered
  <2>2. pc[r] \in Settled
    BY <1>1, <1>3, <2>1, Zenon DEF CmdOK
  <2> QED BY <1>3, <1>4, <1>6, <2>1, <2>2, Zenon DEF Answered, Settled
<1>7. ASSUME NEW q \in Rpc, Answered(q)'
      PROVE  Answered(q) /\ key'[q] = key[q] /\ addr'[q] = addr[q]
  <2>1. CASE q = r
    BY <1>6, <1>7, <2>1, Zenon
  <2>2. CASE q # r
    BY <1>2, <1>4, <1>7, <2>2, Zenon DEF OnlyRpc, Answered
  <2> QED BY <2>1, <2>2, Zenon
<1> QED BY <1>4, <1>5, <1>7, AnsweredFacts, AnswersStill

\* A step that is about no RPC's address, or one that only ends r's handler.
LEMMA AnswersRest ==
  ASSUME RedisInv, NEW r \in Rpc, \A k \in Key : Table(k),
         UNCHANGED <<key, addr, era, got>>,
         \A q \in Rpc \ {r} : pc'[q] = pc[q],
         pc'[r] = "session" => pc[r] = "session"
  PROVE  AnswerInv'
<1>1. ASSUME NEW q \in Rpc, Answered(q)'
      PROVE  Answered(q)
  BY <1>1, Zenon DEF Answered
<1> QED BY <1>1, AnsweredFacts, AnswersStill, Zenon

\* A step inside a store operation.
LEMMA AnswersStep ==
  ASSUME RedisInv, NEW r \in Rpc, \A k \in Key : Table(k),
         Hits(r) \/ Loses(r) \/ Returns(r)
  PROVE  AnswerInv'
<1>1. RedisTypeOK /\ TypeOK /\ RequestOK(r) /\ CmdOK(r)
  BY Zenon DEF RedisInv, RedisTypeOK, RequestInv, ConnInv
<1>2. CASE Hits(r)
  <2>1. /\ OnlyRpc(r) /\ UNCHANGED <<pc, key, addr, era, sessions, epoch>>
        /\ cmd[r] = "GET" /\ InStore(r) /\ Value(Id(r)) \in Backend
        /\ got' = Answer(r)
    BY <1>1, <1>2, Zenon DEF Hits, vars, rpcVars, storeVars, OnlyRpc, CmdOK
  <2>2. CASE pc[r] = "session"
    <3>1. Id(r) = key[r] /\ ~OnOp(r) /\ key[r] \in Key
      BY <1>1, <2>1, <2>2, IdFacts, Zenon
    <3>2. Value(Id(r)) = sessions[key[r]]
      BY <3>1, RedisAssumption, Zenon DEF Value
    <3>3. got' = [got EXCEPT ![r] = [epoch |-> epoch[key[r]], val |-> sessions[key[r]]]]
      BY <2>1, <3>1, <3>2, Zenon DEF Answer
    <3>4. era[r] = None
      BY <1>1, <2>2, Zenon DEF RequestOK
    <3> QED BY <2>1, <3>1, <3>2, <3>3, <3>4, AnswersGiven, Zenon
  <2>3. CASE pc[r] = "op"
    <3>1. era[r] = None /\ got[r] = None
      BY <1>1, <2>1, <2>3, Zenon DEF RequestOK, CmdOK, Settled
    <3>2. \A q \in Rpc \ {r} : got'[q] = got[q]
      BY <1>1, <2>1, Zenon DEF Answer, RedisTypeOK
    <3>3. ~Answered(r)' /\ ~Answered(r)
      BY <2>1, <2>3, <3>1, Zenon DEF Answered
    <3>4. ASSUME NEW q \in Rpc \ {r}
          PROVE  AnswerOK(q)' /\ (Answered(q)' <=> Answered(q))
      <4>1. AnswerOK(q)
        BY Zenon DEF RedisInv, AnswerInv
      <4> QED BY <2>1, <3>2, <4>1, Zenon DEF AnswerOK, Answered
    <3>5. \A q \in Rpc : AnswerOK(q)'
      BY <3>3, <3>4, Zenon DEF AnswerOK
    <3>6. ASSUME NEW p \in Rpc, NEW q \in Rpc, Answered(p)', Answered(q)',
                 key'[p] = key'[q], got'[p].epoch = got'[q].epoch
          PROVE  got'[p].val = got'[q].val
      <4>1. /\ Answered(p) /\ Answered(q) /\ key[p] = key[q]
            /\ got'[p] = got[p] /\ got'[q] = got[q]
        BY <2>1, <3>2, <3>3, <3>4, <3>6, Zenon
      <4> QED BY <3>6, <4>1, Zenon DEF RedisInv, AnswerInv
    <3> QED BY <3>5, <3>6, Zenon DEF AnswerInv
  <2> QED BY <1>2, <2>2, <2>3, Zenon DEF Hits
<1>3. CASE Loses(r)
  BY <1>3, AnswersRest, Zenon DEF Loses, vars, rpcVars
<1>4. CASE Returns(r)
  <2>1. OnlyRpc(r) /\ UNCHANGED key /\ Result(r) /\ cmd[r] # "none"
    BY <1>4, Zenon DEF Returns, Taken
  <2>2. key[r] \in Key
    BY <1>1, <2>1, IdFacts, Zenon DEF CmdOK
  <2>3. CASE /\ pc[r] = "bind"
             /\ addr'[r] \in Backend
             /\ got' = [got EXCEPT ![r] = [epoch |-> epoch[key[r]], val |-> addr'[r]]]
             /\ sessions'[key[r]] = addr'[r] /\ epoch'[key[r]] = epoch[key[r]]
    BY <2>1, <2>2, <2>3, AnswersGiven, Zenon
  <2>4. ASSUME UNCHANGED got,
               Answered(r)' => /\ Answered(r)
                               /\ era'[r] # None => addr'[r] = got[r].val
        PROVE  AnswerInv'
    <3>1. ASSUME NEW q \in Rpc, Answered(q)'
          PROVE  /\ Answered(q) /\ key'[q] = key[q] /\ key[q] \in Key
                 /\ era'[q] # None => addr'[q] = got[q].val
      <4>1. CASE q = r
        BY <2>1, <2>2, <2>4, <3>1, <4>1
      <4>2. CASE q # r
        <5>1. Answered(q) /\ addr'[q] = addr[q] /\ era'[q] = era[q]
          BY <2>1, <2>4, <3>1, <4>2, Zenon DEF OnlyRpc, Answered
        <5> QED BY <2>1, <5>1, AnsweredFacts, Zenon
      <4> QED BY <4>1, <4>2, Zenon
    <3> QED BY <2>4, <3>1, AnswersStill, Zenon
  <2>5. CASE /\ pc[r] \in {"remember", "forget"} /\ pc'[r] \in Settled
             /\ UNCHANGED <<addr, era, got>>
    <3>1. Answered(r)' => Answered(r)
      BY <2>5, Zenon DEF Answered, Settled
    <3> QED BY <2>4, <2>5, <3>1, AnsweredFacts, Zenon
  <2>6. CASE got[r] = None /\ UNCHANGED got
    BY <2>4, <2>6, Zenon DEF Answered
  <2>7. CASE pc[r] = "op" /\ pc'[r] \in Settled /\ UNCHANGED <<era, got>>
    <3>1. era[r] = None
      BY <1>1, <2>7, Zenon DEF RequestOK
    <3> QED BY <2>4, <2>7, <3>1, Zenon DEF Answered, Settled
  <2>8. CASE /\ pc[r] = "session" /\ got[r] # None /\ UNCHANGED got
             /\ addr'[r] = got[r].val
    BY <2>4, <2>8, Zenon DEF Answered
  <2> QED BY <2>1, <2>3, <2>5, <2>6, <2>7, <2>8, Zenon DEF Result
<1> QED BY <1>2, <1>3, <1>4, Zenon

----------------------------------------------------------------------------
(* Tables *)

\* The write an operation of r waits for.
LEMMA WriteFacts ==
  ASSUME RedisInv, NEW r \in Rpc, cmd[r] \in {"EXPIRE", "SET_NX", "SET", "DEL"}
  PROVE  /\ Write(r) \in Writes /\ Write(r).cmd = cmd[r] /\ Write(r).rpc = r
         /\ cmd[r] = "SET_NX" => Write(r).id = key[r] /\ key[r] \in Key
         /\ cmd[r] = "SET" => /\ Write(r).id = op[r] /\ Write(r).val = addr[r]
                              /\ op[r] \in Op /\ kind[r] = "ExecutePlan"
                              /\ pc[r] = "remember"
<1>1. RedisTypeOK /\ RequestOK(r) /\ CmdOK(r)
  BY Zenon DEF RedisInv, RequestInv, ConnInv
<1>2. InStore(r)
  BY <1>1, Zenon DEF CmdOK
<1>3. Write(r) \in Writes
  BY <1>1, <1>2, WriteType, Zenon
<1>4. cmd[r] = "SET_NX" => Id(r) = key[r] /\ key[r] \in Key
  BY <1>1, <1>2, IdFacts, Zenon DEF CmdOK
<1>5. cmd[r] = "SET" => /\ Id(r) = op[r] /\ op[r] \in Op
                        /\ kind[r] = "ExecutePlan" /\ pc[r] = "remember"
  BY <1>1, <1>2, IdFacts, Zenon DEF CmdOK, RequestOK
<1> QED BY <1>3, <1>4, <1>5, Zenon DEF Write

\* What a return does to the tables.
LEMMA ReturnsMoves ==
  ASSUME RedisInv, NEW r \in Rpc, Returns(r)
  PROVE  TableTypes' /\ Moves(Write(r))
<1>1. TableTypes
  BY TablesTyped, Zenon DEF RedisInv
<1>2. CASE NoPut
  BY <1>1, <1>2, Zenon DEF NoPut, storeVars, Moves, Kept, TableTypes
<1>3. CASE cmd[r] \in {"EXPIRE", "SET_NX", "SET", "DEL"} /\ Apply(Write(r))
  <2>1. /\ Write(r) \in Writes
        /\ Write(r).cmd = "SET_NX" => Write(r).id \in Key
        /\ Write(r).cmd = "SET" => Write(r).id \in Op
    BY <1>3, WriteFacts, Zenon
  <2> QED BY <1>1, <1>3, <2>1, ApplyMoves, Zenon
<1> QED BY <1>2, <1>3, Zenon DEF Returns

\* A command that is carried out late.
LEMMA LateMoves ==
  ASSUME RedisInv, NEW w \in late, LateWrite(w)
  PROVE  TableTypes' /\ Moves(w)
<1>1. TableTypes /\ w \in Writes /\ LateOK(w)
  BY TablesTyped, Zenon DEF RedisInv, RedisTypeOK, TableInv
<1>2. CASE NoPut
  BY <1>1, <1>2, Zenon DEF NoPut, storeVars, Moves, Kept, TableTypes
<1>3. CASE Apply(w)
  BY <1>1, <1>3, ApplyMoves, Zenon DEF LateOK
<1> QED BY <1>2, <1>3, Zenon DEF LateWrite

\* Who accounts for a binding or an index entry still does.
Stand ==
  \A q \in Rpc : /\ \A k \in Key : Binds(q, k) => Binds(q, k)'
                 /\ \A o \in Op, b \in Backend \cup {None} :
                      Mints(q, o, b) => Mints(q, o, b)'

\* A step of a handler that is not done yet.
LEMMA StepStands ==
  ASSUME NEW r \in Rpc, OnlyRpc(r), LogGrows(r), pc[r] # "done",
         pc[r] \in Settled => /\ pc'[r] \in Settled /\ kind'[r] = kind[r]
                              /\ key'[r] = key[r] /\ op'[r] = op[r]
                              /\ addr'[r] = addr[r]
  PROVE  Stand
<1>1. ASSUME NEW q \in Rpc, NEW k \in Key, Binds(q, k)
      PROVE  Binds(q, k)'
  <2>1. CASE q = r
    BY <1>1, <2>1, Zenon DEF Binds, LogGrows
  <2>2. CASE q # r
    BY <1>1, <2>2, Zenon DEF Binds, LogGrows, OnlyRpc
  <2> QED BY <2>1, <2>2, Zenon
<1>2. ASSUME NEW q \in Rpc, NEW o \in Op, NEW b \in Backend \cup {None}, Mints(q, o, b)
      PROVE  Mints(q, o, b)'
  BY <1>2, Zenon DEF Mints, OnlyRpc
<1> QED BY <1>1, <1>2, Zenon DEF Stand

\* A step that is no handler's.
LEMMA StillStands ==
  ASSUME UNCHANGED rpcVars
  PROVE  Stand
BY DEF Stand, Binds, Mints, rpcVars

\* What is new in the tables and on the way is accounted for.
LEMMA TablesAccounted ==
  ASSUME RedisInv, Stand,
         \A k \in Key : \/ sessions'[k] \in {sessions[k], None}
                        \/ \E r \in Rpc : Binds(r, k)',
         \A o \in Op : \/ ops'[o] \in {ops[o], None}
                       \/ \E r \in Rpc : Mints(r, o, ops[o])',
         \A w \in late' : w \in late \/ LateOK(w)',
         \A o \in Op : \A b \in running'[o] :
           b \in running[o] \/ \E r \in Rpc : Mints(r, o, b)'
  PROVE  TableInv'
<1>1. TableInv /\ TypeOK /\ late \subseteq Writes
  BY Zenon DEF RedisInv, RedisTypeOK
<1>2. ASSUME NEW w \in late'
      PROVE  LateOK(w)'
  <2>1. CASE w \in late
    <3>1. LateOK(w) /\ w \in Writes
      BY <1>1, <2>1, Zenon DEF TableInv
    <3>2. w.rpc \in Rpc /\ w.val \in Backend \cup {None}
      BY <3>1, Zenon DEF Writes
    <3> QED BY <3>1, <3>2, Zenon DEF LateOK, Stand
  <2> QED BY <1>2, <2>1, Zenon
<1>3. ASSUME NEW k \in Key, sessions'[k] # None
      PROVE  \E r \in Rpc : Binds(r, k)'
  BY <1>1, <1>3, Zenon DEF TableInv, Stand
<1>4. ASSUME NEW o \in Op, ops'[o] # None
      PROVE  \E r \in Rpc : Mints(r, o, ops[o])'
  <2>1. CASE ops'[o] = ops[o]
    <3>1. ops[o] \in Backend \cup {None}
      BY <1>1, Zenon DEF TypeOK
    <3>2. PICK r \in Rpc : Mints(r, o, ops[o])
      BY <1>1, <1>4, <2>1, Zenon DEF TableInv
    <3>3. pc'[r] \in Settled /\ kind'[r] = "ExecutePlan" /\ op'[r] = o /\ addr'[r] = ops[o]
      BY <3>1, <3>2 DEF Stand, Mints
    <3> QED BY <2>1, <3>3, Zenon DEF Mints
  <2> QED BY <1>4, <2>1, Zenon
<1>5. ASSUME NEW o \in Op, NEW b \in running'[o]
      PROVE  \E r \in Rpc : Mints(r, o, b)'
  <2>1. CASE b \in running[o]
    BY <1>1, <2>1, Zenon DEF TableInv, Stand, TypeOK
  <2> QED BY <1>5, <2>1, Zenon
<1> QED BY <1>2, <1>3, <1>4, <1>5, Zenon DEF TableInv

\* r leaves a write behind that is accounted for.
LEMMA LateAccounted ==
  ASSUME RedisInv, NEW r \in Rpc, NEW w, w = Write(r),
         cmd[r] \in {"EXPIRE", "SET_NX", "SET", "DEL"},
         UNCHANGED <<kind, key, op>>,
         cmd[r] = "SET_NX" => Binds(r, key[r])',
         cmd[r] = "SET" => pc'[r] \in Settled /\ addr'[r] = addr[r]
  PROVE  LateOK(w)'
<1>1. w.cmd = cmd[r] /\ w.rpc = r
  BY WriteFacts, Zenon
<1>2. ASSUME cmd[r] = "SET_NX"
      PROVE  w.id \in Key /\ Binds(w.rpc, w.id)'
  <2>1. w.id = key[r] /\ key[r] \in Key
    BY <1>2, WriteFacts, Zenon
  <2> QED BY <1>1, <1>2, <2>1, Zenon DEF Binds
<1>3. ASSUME cmd[r] = "SET"
      PROVE  w.id \in Op /\ Mints(w.rpc, w.id, w.val)'
  <2>1. w.id = op[r] /\ w.val = addr[r] /\ op[r] \in Op /\ kind[r] = "ExecutePlan"
    BY <1>3, WriteFacts, Zenon
  <2> QED BY <1>1, <1>3, <2>1, Zenon DEF Mints
<1> QED BY <1>1, <1>2, <1>3, Zenon DEF LateOK

----------------------------------------------------------------------------
(* Every step preserves the invariant *)

\* A step of an RPC outside the store.
LEMMA OutsideInv ==
  ASSUME RedisInv, NEW r \in Rpc,
         Handlers(r) \/ Progress(r) \/ Cancel(r, Suspended), UNCHANGED redisVars
  PROVE  RedisInv'
<1>1. RedisTypeOK /\ TypeOK /\ RequestInv
  BY Zenon DEF RedisInv, RedisTypeOK
<1>2. TypeOK' /\ UNCHANGED <<conn, cmd, got, ttl, late, replica, ticks>>
  BY <1>1, ProgressType, Zenon DEF redisVars
<1>3. RedisTypeOK'
  BY <1>1, <1>2, Zenon DEF RedisTypeOK
<1>4. RequestInv' /\ OnlyRpc(r)
  BY <1>1, RequestProgress, Zenon DEF Suspended
<1>5. ConnInv' /\ AnswerInv'
  BY ConnOutside, AnswersOutside, Zenon
<1>6. LogGrows(r)
  BY <1>1, ProgressLogs, Zenon
<1>7. pc[r] # "done" /\ (pc[r] \in Settled => pc'[r] \in Settled)
  BY <1>1, ProgressPlaces, Zenon DEF Suspended
<1>8. /\ UNCHANGED <<sessions, ops>>
      /\ UNCHANGED <<kind, key, op, addr>> \/ pc[r] \in {"new", "session"}
  BY ProgressFrame, Zenon
<1>9. Stand
  BY <1>4, <1>6, <1>7, <1>8, StepStands DEF Settled
<1>10. ASSUME NEW o \in Op, NEW b \in running'[o], b \notin running[o]
       PROVE  Mints(r, o, b)'
  <2>1. pc[r] = "send" /\ kind[r] = "ExecutePlan" /\ op[r] = o /\ addr[r] = b
    BY <1>1, <1>10, ProgressRunning, Zenon
  <2> QED BY <1>7, <1>8, <2>1, Zenon DEF Mints, Settled
<1>11. TableInv'
  BY <1>2, <1>8, <1>9, <1>10, TablesAccounted
<1> QED BY <1>3, <1>4, <1>5, <1>11 DEF RedisInv

\* conn.lock().
LEMMA LockInv ==
  ASSUME RedisInv, NEW r \in Rpc, Lock(r)
  PROVE  RedisInv'
<1> DEFINE c == CASE pc[r] \in {"op", "session"} -> "GET"
                  [] pc[r] = "bind" -> "SET_NX"
                  [] pc[r] = "remember" -> "SET"
                  [] pc[r] = "forget" -> "DEL"
<1>1. RedisTypeOK /\ TypeOK /\ RequestInv
  BY Zenon DEF RedisInv, RedisTypeOK
<1>2. /\ conn' = [conn EXCEPT ![replica[r]] = r]
      /\ cmd' = [cmd EXCEPT ![r] = c]
      /\ InStore(r)
      /\ UNCHANGED <<vars, got, ttl, late, replica, ticks>>
  BY Zenon DEF Lock
<1>3. c \in Commands
  BY <1>2, Zenon DEF InStore, AsksStore, Commands
<1> HIDE DEF c
<1>4. conn' \in [Replica -> Rpc \cup {None}] /\ cmd' \in [Rpc -> Commands]
  BY <1>1, <1>2, <1>3, Zenon DEF RedisTypeOK
<1>5. TypeOK'
  BY <1>1, <1>2, Zenon DEF vars, rpcVars, storeVars, driverVars, TypeOK
<1>6. RedisTypeOK'
  BY <1>1, <1>2, <1>4, <1>5 DEF RedisTypeOK
<1>7. RequestInv'
  BY <1>1, <1>2, RequestStill, Zenon DEF vars, rpcVars
<1>8. AnswerInv'
  <2>1. \A k \in Key : Table(k)
    BY <1>2, Zenon DEF vars, storeVars, Table, Kept
  <2> QED BY <1>2, <2>1, AnswersRest, Zenon DEF vars, rpcVars
<1>9. Stand
  BY <1>2, StillStands, Zenon DEF vars
<1>10. TableInv'
  BY <1>2, <1>9, TablesAccounted, Zenon DEF vars, storeVars, driverVars
<1> QED BY <1>6, <1>7, <1>8, <1>10, ConnLocked DEF RedisInv

\* GET that finds a value, SET NX that finds the key bound.
LEMMA MidwayInv ==
  ASSUME RedisInv, NEW r \in Rpc, Hits(r) \/ Loses(r)
  PROVE  RedisInv'
<1>1. RedisTypeOK /\ TypeOK /\ RequestInv /\ RequestOK(r)
  BY Zenon DEF RedisInv, RedisTypeOK, RequestInv
<1>2. UNCHANGED <<vars, conn, ttl, late, replica, ticks>>
  BY Zenon DEF Hits, Loses
<1>3. \E c \in Commands : cmd' = [cmd EXCEPT ![r] = c]
  BY Zenon DEF Hits, Loses, Commands
<1>4. got' \in [Rpc -> Answers \cup {None}]
  <2>1. CASE Hits(r)
    <3>1. epoch[key[r]] \in Nat
      BY <1>1, <2>1 DEF Hits, RequestOK, TypeOK
    <3>2. [epoch |-> IF OnOp(r) THEN 0 ELSE epoch[key[r]], val |-> Value(Id(r))]
            \in Answers
      BY <2>1, <3>1, Zenon DEF Hits, Answers
    <3> QED BY <1>1, <2>1, <3>2, Zenon DEF Hits, Answer, RedisTypeOK
  <2>2. CASE Loses(r)
    BY <1>1, <2>2, Zenon DEF Loses, RedisTypeOK
  <2> QED BY <2>1, <2>2, Zenon
<1>5. TypeOK'
  BY <1>1, <1>2 DEF vars, rpcVars, storeVars, driverVars, TypeOK
<1>6. cmd' \in [Rpc -> Commands]
  BY <1>1, <1>3, Zenon DEF RedisTypeOK
<1>7. RedisTypeOK'
  BY <1>1, <1>2, <1>4, <1>5, <1>6 DEF RedisTypeOK
<1>8. RequestInv'
  BY <1>1, <1>2, RequestStill, Zenon DEF vars, rpcVars
<1>9. \A k \in Key : Table(k)
  BY <1>2, Zenon DEF vars, storeVars, Table, Kept
<1>10. Stand
  BY <1>2, StillStands, Zenon DEF vars
<1>11. TableInv'
  BY <1>2, <1>10, TablesAccounted, Zenon DEF vars, storeVars, driverVars
<1> QED BY <1>7, <1>8, <1>9, <1>11, ConnStep, AnswersStep DEF RedisInv

\* A store operation that returns: the types.
LEMMA ReturnsTypes ==
  ASSUME RedisInv, NEW r \in Rpc, Returns(r)
  PROVE  RedisTypeOK'
<1>1. RedisTypeOK /\ TypeOK /\ RequestOK(r) /\ CmdOK(r)
  BY Zenon DEF RedisInv, RedisTypeOK, RequestInv, ConnInv
<1>2. /\ RpcTypes' /\ Unlock(r) /\ UNCHANGED <<hosts, running, replica, ticks>>
      /\ \/ UNCHANGED late
         \/ /\ cmd[r] \in {"EXPIRE", "SET_NX", "SET", "DEL"}
            /\ late' = late \cup {Write(r)}
      /\ Result(r) /\ cmd[r] # "none"
  BY Zenon DEF Returns, Taken, driverVars
<1>3. TableTypes'
  BY ReturnsMoves, Zenon
<1>4. TypeOK'
  <2>1. hosts \in [Key -> SUBSET Backend] /\ running \in [Op -> SUBSET Backend]
    BY <1>1, Zenon DEF TypeOK
  <2> QED BY <1>2, <1>3, <2>1 DEF RpcTypes, TableTypes, TypeOK
<1>5. conn' \in [Replica -> Rpc \cup {None}] /\ cmd' \in [Rpc -> Commands]
  BY <1>1, <1>2, Zenon DEF RedisTypeOK, Unlock, Commands
<1>6. got' \in [Rpc -> Answers \cup {None}]
  <2>1. CASE UNCHANGED got
    BY <1>1, <2>1, Zenon DEF RedisTypeOK
  <2>2. CASE /\ addr'[r] \in Backend
             /\ got' = [got EXCEPT ![r] = [epoch |-> epoch[key[r]], val |-> addr'[r]]]
    <3>1. key[r] \in Key
      BY <1>1, <1>2, IdFacts, Zenon DEF CmdOK
    <3>2. [epoch |-> epoch[key[r]], val |-> addr'[r]] \in Answers
      BY <1>1, <2>2, <3>1 DEF Answers, TypeOK
    <3> QED BY <1>1, <2>2, <3>2, Zenon DEF RedisTypeOK
  <2> QED BY <1>2, <2>1, <2>2, Zenon DEF Result
<1>7. late' \subseteq Writes
  <2>1. late \subseteq Writes
    BY <1>1, Zenon DEF RedisTypeOK
  <2>2. cmd[r] \in {"EXPIRE", "SET_NX", "SET", "DEL"} => Write(r) \in Writes
    BY WriteFacts, Zenon
  <2> QED BY <1>2, <2>1, <2>2, Zenon
<1>8. /\ replica' \in [Rpc -> Replica]
      /\ ttl' \in [Key \cup Op -> 0 .. IF SessionTTL > OpTTL THEN SessionTTL ELSE OpTTL]
      /\ ticks' \in 0 .. MaxTicks
  BY <1>1, <1>2, <1>3, Zenon DEF TableTypes, Lives, RedisTypeOK
<1> QED BY <1>4, <1>5, <1>6, <1>7, <1>8, Zenon DEF RedisTypeOK

\* A store operation that returns: what it put into the tables.
LEMMA ReturnsTables ==
  ASSUME RedisInv, NEW r \in Rpc, Returns(r)
  PROVE  TableInv'
<1>1. RedisTypeOK /\ TypeOK /\ RequestOK(r) /\ CmdOK(r)
  BY Zenon DEF RedisInv, RedisTypeOK, RequestInv, ConnInv
<1>2. /\ OnlyRpc(r) /\ LogGrows(r) /\ Result(r) /\ cmd[r] # "none"
      /\ UNCHANGED <<kind, key, op, running>>
      /\ cmd[r] = "SET_NX" => Binds(r, key[r])'
      /\ \/ UNCHANGED late
         \/ /\ cmd[r] \in {"EXPIRE", "SET_NX", "SET", "DEL"}
            /\ late' = late \cup {Write(r)}
  BY Zenon DEF Returns, Taken, driverVars
<1>3. pc[r] \in {"session", "op", "bind", "remember", "forget"}
  BY <1>1, <1>2, Zenon DEF CmdOK, InStore, AsksStore
<1>4. pc[r] \in Settled => pc'[r] \in Settled /\ addr' = addr
  BY <1>2, <1>3, Zenon DEF Result, Settled
<1>5. Stand
  BY <1>2, <1>3, <1>4, StepStands
<1>6. Moves(Write(r)) /\ Write(r).cmd = cmd[r]
  BY ReturnsMoves, Zenon DEF Write
<1>7. cmd[r] = "SET" => \A b : b = addr[r] => Mints(r, op[r], b)'
  <2>1. ASSUME cmd[r] = "SET", NEW b, b = addr[r]
        PROVE  Mints(r, op[r], b)'
    BY <1>2, <1>4, <2>1, WriteFacts, Zenon DEF Mints, Settled
  <2> QED BY <2>1, Zenon
<1>8. ASSUME NEW k \in Key
      PROVE  sessions'[k] \in {sessions[k], None} \/ \E q \in Rpc : Binds(q, k)'
  <2>1. CASE cmd[r] = "SET_NX" /\ Write(r).id = k
    <3>1. key[r] = k
      BY <2>1, WriteFacts, Zenon
    <3> QED BY <1>2, <2>1, <3>1, Zenon DEF Binds
  <2> QED BY <1>6, <2>1, Zenon DEF Moves, Kept, Ended
<1>9. ASSUME NEW o \in Op
      PROVE  ops'[o] \in {ops[o], None} \/ \E q \in Rpc : Mints(q, o, ops[o])'
  <2>1. CASE cmd[r] = "SET" /\ Write(r).id = o /\ ops'[o] = Write(r).val
    <3>1. op[r] = o /\ ops'[o] = addr[r]
      BY <2>1, WriteFacts, Zenon
    <3> QED BY <1>2, <1>7, <2>1, <3>1 DEF Mints
  <2> QED BY <1>6, <2>1, Zenon DEF Moves
<1>10. ASSUME NEW w \in late', w \notin late
       PROVE  LateOK(w)'
  <2>1. w = Write(r) /\ cmd[r] \in {"EXPIRE", "SET_NX", "SET", "DEL"}
    BY <1>2, <1>10, Zenon
  <2>2. cmd[r] = "SET" => pc'[r] \in Settled /\ addr'[r] = addr[r]
    BY <1>1, <1>4, Zenon DEF CmdOK, Settled
  <2> QED BY <1>2, <2>1, <2>2, LateAccounted, Zenon
<1> QED BY <1>2, <1>5, <1>8, <1>9, <1>10, TablesAccounted, Zenon

\* A store operation that returns.
LEMMA ReturnsInv ==
  ASSUME RedisInv, NEW r \in Rpc, Returns(r)
  PROVE  RedisInv'
<1>1. RequestInv /\ OnlyRpc(r) /\ RequestOK(r)'
  BY Zenon DEF RedisInv, Returns, Taken
<1>2. RequestInv'
  BY <1>1, RequestKept, Zenon
<1>3. \A k \in Key : Table(k)
  BY ReturnsMoves, Zenon DEF Moves, Table
<1> QED BY <1>2, <1>3, ReturnsTypes, ReturnsTables, ConnStep, AnswersStep DEF RedisInv

\* A caller that goes away inside a store operation.
LEMMA CancelledInv ==
  ASSUME RedisInv, NEW r \in Rpc, CancelInStore(r)
  PROVE  RedisInv'
<1>1. RedisTypeOK /\ TypeOK /\ RequestInv /\ RequestOK(r)
  BY Zenon DEF RedisInv, RedisTypeOK, RequestInv
<1>2. /\ InStore(r) /\ Leave(r, "Cancelled", {})
      /\ cmd' = [cmd EXCEPT ![r] = "none"]
      /\ conn' = [x \in Replica |-> IF conn[x] = r THEN None ELSE conn[x]]
      /\ UNCHANGED <<ttl, sessions, ops, epoch, addr, members, hosts, running, era, got,
                     replica, ticks>>
  BY Zenon DEF CancelInStore, NoPut, storeVars, driverVars
<1>3. \/ late' = late
      \/ /\ cmd[r] \in {"EXPIRE", "SET_NX", "SET", "DEL"}
         /\ late' = late \cup {Write(r)}
  BY <1>1, Zenon DEF CancelInStore, RedisTypeOK, Commands
<1>4. /\ pc' = [pc EXCEPT ![r] = "done"] /\ code' = [code EXCEPT ![r] = "Cancelled"]
      /\ audit' = [audit EXCEPT ![r] = @ \cup {}]
      /\ streams' \in {streams, streams - 1}
      /\ UNCHANGED <<kind, key, op>>
  BY <1>2, Zenon DEF Leave
<1>5. pc[r] \in {"session", "op", "bind", "remember", "forget"}
  BY <1>2, Zenon DEF InStore, AsksStore
<1>6. pc'[r] = "done" /\ code'[r] = "Cancelled"
  BY <1>1, <1>4 DEF TypeOK
<1>7. TypeOK'
  <2>1. streams' \in Int
    BY <1>1, <1>4 DEF TypeOK
  <2>2. /\ pc' \in [Rpc -> Stages] /\ code' \in [Rpc -> Codes \cup {None}]
        /\ audit' \in [Rpc -> SUBSET Events]
    BY <1>1, <1>4, Zenon DEF TypeOK, Stages, Codes
  <2> QED BY <1>1, <1>2, <1>4, <2>1, <2>2, Zenon DEF TypeOK
<1>8. RedisTypeOK'
  <2>1. /\ conn' \in [Replica -> Rpc \cup {None}] /\ cmd' \in [Rpc -> Commands]
        /\ replica' \in [Rpc -> Replica]
    BY <1>1, <1>2, Zenon DEF RedisTypeOK, Commands
  <2>2. late' \subseteq Writes
    <3>1. late \subseteq Writes
      BY <1>1, Zenon DEF RedisTypeOK
    <3>2. cmd[r] \in {"EXPIRE", "SET_NX", "SET", "DEL"} => Write(r) \in Writes
      BY WriteFacts, Zenon
    <3> QED BY <1>3, <3>1, <3>2, Zenon
  <2>3. /\ got' \in [Rpc -> Answers \cup {None}]
        /\ ttl' \in [Key \cup Op -> 0 .. IF SessionTTL > OpTTL THEN SessionTTL ELSE OpTTL]
        /\ ticks' \in 0 .. MaxTicks
    BY <1>1, <1>2, Zenon DEF RedisTypeOK
  <2> QED BY <1>7, <2>1, <2>2, <2>3, Zenon DEF RedisTypeOK
<1>9. RequestOK(r)' /\ OnlyRpc(r)
  BY <1>1, <1>2, <1>5, RequestReturn, Zenon
<1>10. RequestInv'
  BY <1>1, <1>9, RequestKept, Zenon
<1>11. AnswerInv'
  <2>1. \A k \in Key : Table(k)
    BY <1>2, Zenon DEF Table, Kept
  <2>2. \A q \in Rpc \ {r} : pc'[q] = pc[q]
    BY <1>9, Zenon DEF OnlyRpc
  <2> QED BY <1>2, <1>4, <1>6, <2>1, <2>2, AnswersRest
<1>12. LogGrows(r)
  BY <1>1, <1>2, LeaveLogs, Zenon
<1>13. Stand
  BY <1>2, <1>4, <1>5, <1>6, <1>9, <1>12, StepStands, Zenon DEF Settled
<1>14. ASSUME NEW w \in late', w \notin late
       PROVE  LateOK(w)'
  <2>1. w = Write(r) /\ cmd[r] \in {"EXPIRE", "SET_NX", "SET", "DEL"}
    BY <1>3, <1>14, Zenon
  <2>2. Binds(r, key[r])' /\ pc'[r] \in Settled
    BY <1>4, <1>6, Zenon DEF Binds, Settled
  <2> QED BY <1>2, <1>4, <2>1, <2>2, LateAccounted, Zenon
<1>15. TableInv'
  BY <1>2, <1>13, <1>14, TablesAccounted, Zenon
<1> QED BY <1>8, <1>10, <1>11, <1>15, ConnCancelled DEF RedisInv

\* A step of Redis alone.
LEMMA StoreInv ==
  ASSUME RedisInv, TableTypes', \A k \in Key : Table(k),
         UNCHANGED <<rpcVars, members, driverVars, era, replica, conn, cmd, got>>,
         late' \subseteq late, ticks' \in 0 .. MaxTicks,
         \A k \in Key : \/ sessions'[k] \in {sessions[k], None}
                        \/ \E r \in Rpc : Binds(r, k)',
         \A o \in Op : \/ ops'[o] \in {ops[o], None}
                       \/ \E r \in Rpc : Mints(r, o, ops[o])'
  PROVE  RedisInv'
<1>1. RedisTypeOK /\ TypeOK /\ RequestInv /\ ConnInv
  BY Zenon DEF RedisInv, RedisTypeOK
<1>2. /\ UNCHANGED <<pc, kind, key, op, addr, code, audit, streams>>
      /\ UNCHANGED <<members, hosts, running, era, replica, conn, cmd, got>>
  BY Zenon DEF rpcVars, driverVars
<1>3. TypeOK'
  BY <1>1, <1>2, Zenon DEF TableTypes, TypeOK
<1>4. RedisTypeOK'
  <2>1. /\ conn' \in [Replica -> Rpc \cup {None}] /\ cmd' \in [Rpc -> Commands]
        /\ replica' \in [Rpc -> Replica] /\ got' \in [Rpc -> Answers \cup {None}]
        /\ late' \subseteq Writes
    BY <1>1, <1>2, Zenon DEF RedisTypeOK
  <2>2. ttl' \in [Key \cup Op -> 0 .. IF SessionTTL > OpTTL THEN SessionTTL ELSE OpTTL]
    BY Zenon DEF TableTypes, Lives
  <2> QED BY <1>3, <2>1, <2>2, Zenon DEF RedisTypeOK
<1>5. RequestInv'
  BY <1>1, <1>2, RequestStill, Zenon
<1>6. ConnInv'
  <2>1. \A q \in Rpc : InStore(q)' <=> InStore(q)
    BY <1>2, Zenon DEF InStore, AsksStore, PoolOf
  <2>2. ASSUME NEW q \in Rpc
        PROVE  CmdOK(q)'
    <3>1. CmdOK(q) /\ pc'[q] = pc[q] /\ cmd'[q] = cmd[q] /\ got'[q] = got[q]
      BY <1>1, <1>2, Zenon DEF ConnInv
    <3> QED BY <1>2, <2>1, <3>1, Zenon DEF CmdOK
  <2> QED BY <1>1, <1>2, <2>2, Zenon DEF ConnInv
<1>7. AnswerInv'
  <2>1. \A q \in Rpc : Answered(q)' => Answered(q)
    BY <1>2, Zenon DEF Answered
  <2> QED BY <1>2, <2>1, AnsweredFacts, AnswersStill, Zenon
<1>8. Stand
  BY StillStands, Zenon
<1>9. TableInv'
  BY <1>2, <1>8, TablesAccounted, Zenon
<1> QED BY <1>4, <1>5, <1>6, <1>7, <1>9, Zenon DEF RedisInv

\* A command that arrives late.
LEMMA LateInv ==
  ASSUME RedisInv, NEW w \in late, LateWrite(w)
  PROVE  RedisInv'
<1>1. TableTypes' /\ Moves(w)
  BY LateMoves, Zenon
<1>2. \A k \in Key : Table(k)
  BY <1>1, Zenon DEF Moves, Table
<1>3. LateOK(w) /\ w \in Writes /\ ticks \in 0 .. MaxTicks
  BY Zenon DEF RedisInv, TableInv, RedisTypeOK
<1>4. w.rpc \in Rpc /\ w.val \in Backend \cup {None}
  BY <1>3, Zenon DEF Writes
<1>5. /\ UNCHANGED <<rpcVars, members, driverVars, era, conn, cmd, got, replica, ticks>>
      /\ late' \subseteq late
  BY Zenon DEF LateWrite
<1>6. Stand
  BY <1>5, StillStands, Zenon
<1>7. ASSUME NEW k \in Key
      PROVE  sessions'[k] \in {sessions[k], None} \/ \E r \in Rpc : Binds(r, k)'
  <2>1. CASE w.cmd = "SET_NX" /\ w.id = k
    BY <1>3, <1>4, <1>6, <2>1 DEF LateOK, Stand
  <2> QED BY <1>1, <2>1, Zenon DEF Moves, Kept, Ended
<1>8. ASSUME NEW o \in Op
      PROVE  ops'[o] \in {ops[o], None} \/ \E r \in Rpc : Mints(r, o, ops[o])'
  <2>1. CASE w.cmd = "SET" /\ w.id = o /\ ops'[o] = w.val
    <3>1. Mints(w.rpc, o, w.val)'
      BY <1>3, <1>4, <1>6, <2>1 DEF LateOK, Stand
    <3> QED BY <1>4, <2>1, <3>1, Zenon DEF Mints
  <2> QED BY <1>1, <2>1, Zenon DEF Moves
<1> QED BY <1>1, <1>2, <1>3, <1>5, <1>7, <1>8, StoreInv, Zenon

\* Time that passes.
LEMMA TickInv ==
  ASSUME RedisInv, Tick
  PROVE  RedisInv'
<1>1. TableTypes /\ ticks \in 0 .. MaxTicks
  BY TablesTyped, Zenon DEF RedisInv, RedisTypeOK
<1>2. /\ TableTypes'
      /\ \A k \in Key : Kept(k) \/ Ended(k)
      /\ \A o \in Op : ops'[o] \in {ops[o], None}
  BY <1>1, TickMoves, Zenon
<1>3. \A k \in Key : Table(k) /\ sessions'[k] \in {sessions[k], None}
  BY <1>2, Zenon DEF Table, Kept, Ended
<1>4. /\ UNCHANGED <<rpcVars, members, driverVars, era, replica, conn, cmd, got>>
      /\ late' \subseteq late
  BY Zenon DEF Tick
<1>5. ticks' \in 0 .. MaxTicks
  BY <1>1, TTLAssumption DEF Tick
<1> QED BY <1>2, <1>3, <1>4, <1>5, StoreInv, Zenon

\* Nothing happens.
LEMMA StutterInv ==
  ASSUME RedisInv, UNCHANGED allVars
  PROVE  RedisInv'
<1>1. /\ UNCHANGED <<rpcVars, members, driverVars, era, replica, conn, cmd, got>>
      /\ UNCHANGED <<sessions, ops, epoch, ttl, late, replica, ticks>>
  BY Zenon DEF allVars, vars, redisVars, storeVars
<1>2. TableTypes /\ ticks \in 0 .. MaxTicks
  BY TablesTyped, Zenon DEF RedisInv, RedisTypeOK
<1>3. TableTypes' /\ \A k \in Key : Table(k)
  BY <1>1, <1>2, Zenon DEF TableTypes, Table, Kept
<1> QED BY <1>1, <1>2, <1>3, StoreInv

\* The steps there are.
LEMMA StepKinds ==
  ASSUME RedisInv, [Next]_allVars
  PROVE  \/ \E r \in Rpc : /\ Handlers(r) \/ Progress(r) \/ Cancel(r, Suspended)
                           /\ UNCHANGED redisVars
         \/ \E r \in Rpc : Lock(r) \/ Hits(r) \/ Loses(r) \/ Returns(r) \/ CancelInStore(r)
         \/ \E w \in late : LateWrite(w)
         \/ Tick
         \/ UNCHANGED allVars
<1>1. ASSUME NEW r \in Rpc, Step(r)
      PROVE  \/ Progress(r) /\ UNCHANGED redisVars
             \/ Lock(r) \/ Hits(r) \/ Loses(r) \/ Returns(r)
  BY <1>1, LookupOpSteps, LookupSessionSteps, BindSteps, WriteSteps, Zenon DEF Step
<1>2. Quiet /\ UNCHANGED redisVars => UNCHANGED allVars
  BY Zenon DEF Quiet, allVars
<1> QED BY <1>1, <1>2, Zenon DEF Next

\* What any step does to the bindings.
LEMMA NextTable ==
  ASSUME RedisInv, [Next]_allVars
  PROVE  \A k \in Key : Table(k)
<1>1. CASE UNCHANGED <<sessions, epoch>>
  BY <1>1, Zenon DEF Table, Kept
<1>2. ASSUME NEW r \in Rpc, Handlers(r) \/ Progress(r) \/ Cancel(r, Suspended)
      PROVE  \A k \in Key : Table(k)
  BY <1>1, <1>2, ProgressFrame, Zenon
<1>3. ASSUME NEW r \in Rpc, Lock(r) \/ Hits(r) \/ Loses(r) \/ CancelInStore(r)
      PROVE  \A k \in Key : Table(k)
  BY <1>1, <1>3, Zenon DEF Lock, Hits, Loses, CancelInStore, NoPut, vars, storeVars
<1>4. ASSUME NEW r \in Rpc, Returns(r)
      PROVE  \A k \in Key : Table(k)
  BY <1>4, ReturnsMoves, Zenon DEF Moves, Table
<1>5. ASSUME NEW w \in late, LateWrite(w)
      PROVE  \A k \in Key : Table(k)
  BY <1>5, LateMoves, Zenon DEF Moves, Table
<1>6. CASE Tick
  BY <1>6, TickMoves, TablesTyped DEF Table, RedisInv
<1>7. CASE UNCHANGED allVars
  BY <1>1, <1>7, Zenon DEF allVars, vars, storeVars
<1> QED BY <1>2, <1>3, <1>4, <1>5, <1>6, <1>7, StepKinds, Zenon

\* The initial states satisfy the invariant.
LEMMA InitInv == RedisInit => RedisInv
<1> SUFFICES ASSUME RedisInit
             PROVE  RedisInv
  BY Zenon
<1>1. /\ Init /\ conn = [x \in Replica |-> None] /\ cmd = [r \in Rpc |-> "none"]
      /\ got = [r \in Rpc |-> None] /\ ttl = [id \in Key \cup Op |-> 0]
      /\ late = {} /\ ticks = 0 /\ replica \in [Rpc -> Replica]
  BY ReplicasAssumption, Zenon DEF RedisInit
<1>2. TypeOK
  <2>1. members \in [Pool -> SUBSET Backend]
    BY <1>1, PoolsAssumption, Zenon DEF Init
  <2>2. streams \in Int /\ epoch \in [Key -> Nat]
    BY <1>1 DEF Init
  <2> QED BY <1>1, <2>1, <2>2, Zenon DEF Init, TypeOK, Stages
<1>3. RedisTypeOK
  BY <1>1, <1>2, TTLAssumption DEF RedisTypeOK, Commands
<1>4. RequestInv
  BY <1>1, Zenon DEF Init, RequestInv, RequestOK
<1>5. ConnInv
  BY <1>1, Zenon DEF Init, ConnInv, CmdOK
<1>6. AnswerInv
  BY <1>1, Zenon DEF AnswerInv, AnswerOK, Answered
<1>7. TableInv
  BY <1>1, Zenon DEF Init, TableInv
<1> QED BY <1>3, <1>4, <1>5, <1>6, <1>7 DEF RedisInv

\* Every step preserves it.
LEMMA NextInv == RedisInv /\ [Next]_allVars => RedisInv'
<1> SUFFICES ASSUME RedisInv, [Next]_allVars
             PROVE  RedisInv'
  BY Zenon
<1>1. ASSUME NEW r \in Rpc, Handlers(r) \/ Progress(r) \/ Cancel(r, Suspended),
             UNCHANGED redisVars
      PROVE  RedisInv'
  BY <1>1, OutsideInv, Zenon
<1>2. ASSUME NEW r \in Rpc,
             Lock(r) \/ Hits(r) \/ Loses(r) \/ Returns(r) \/ CancelInStore(r)
      PROVE  RedisInv'
  BY <1>2, LockInv, MidwayInv, ReturnsInv, CancelledInv, Zenon
<1>3. ASSUME NEW w \in late, LateWrite(w)
      PROVE  RedisInv'
  BY <1>3, LateInv, Zenon
<1>4. Tick \/ UNCHANGED allVars => RedisInv'
  BY TickInv, StutterInv, Zenon
<1> QED BY <1>1, <1>2, <1>3, <1>4, StepKinds, Zenon

----------------------------------------------------------------------------
(* The theorems *)

\* The types, the record of every request, the connections, the answers and
\* the tables fit together in every reachable state.
THEOREM RedisInvariance == Spec => []RedisInv
<1> QED BY InitInv, NextInv, PTL DEF Spec

\* No return, error path or cancellation of a store operation leaves the
\* replica's connection mutex locked: who holds it is inside an operation on it.
THEOREM NoLeakedConnection == Spec => []ConnectionReleased
<1>1. RedisInv => ConnectionReleased
  <2> SUFFICES ASSUME RedisInv, NEW x \in Replica, conn[x] # None
               PROVE  /\ replica[conn[x]] = x /\ InStore(conn[x])
                      /\ cmd[conn[x]] # "none"
    BY Zenon DEF ConnectionReleased
  <2>1. conn[x] \in Rpc /\ replica[conn[x]] = x /\ cmd[conn[x]] # "none"
    BY Zenon DEF RedisInv, RedisTypeOK, ConnInv
  <2>2. CmdOK(conn[x])
    BY <2>1, Zenon DEF RedisInv, ConnInv
  <2> QED BY <2>1, <2>2, Zenon DEF CmdOK
<1> QED BY <1>1, RedisInvariance, PTL

\* RPCs of a session that the shared table answered between two ends of its
\* binding go to one backend, through however many replicas they came and
\* whichever commands failed, raced, came late or expired
\* (resolve_session_detailed over RedisStore).
THEOREM AffinityOverRedis == Spec => []AffinityAcrossReplicas
<1>1. RedisInv => AffinityAcrossReplicas
  <2> SUFFICES ASSUME RedisInv, NEW q \in Rpc, NEW r \in Rpc,
                      era[q] # None, era[r] # None, got[q] # None, got[r] # None,
                      key[q] = key[r], got[q].epoch = got[r].epoch
               PROVE  addr[q] = addr[r]
    BY Zenon DEF AffinityAcrossReplicas
  <2>1. Answered(q) /\ Answered(r)
    BY Zenon DEF Answered
  <2>2. addr[q] = got[q].val /\ addr[r] = got[r].val
    BY <2>1, AnsweredFacts, Zenon
  <2> QED BY <2>1, <2>2, Zenon DEF RedisInv, AnswerInv
<1> QED BY <1>1, RedisInvariance, PTL

\* Every binding in Redis has been audited as a session.create, but for those
\* of operation-routed RPCs and of RPCs cancelled while their SET NX was on its
\* way (resolve_session_audited).
THEOREM BindingsAudited == Spec => []BindingAudited
<1>1. RedisInv => BindingAudited
  BY DEF RedisInv, TableInv, Binds, BindingAudited
<1> QED BY <1>1, RedisInvariance, PTL

\* An entry of the operation index names the driver that runs the operation
\* (remember_op, bind_op).
THEOREM IndexTruthful == Spec => []OpIndexTruthful
<1>1. RedisInv => OpIndexTruthful
  <2> SUFFICES ASSUME RedisInv, NEW o \in Op, MintedOnce(o), ops[o] # None,
                      NEW b \in running[o]
               PROVE  ops[o] \in running[o]
    BY Zenon DEF OpIndexTruthful
  <2>1. PICK q \in Rpc : Mints(q, o, ops[o])
    BY Zenon DEF RedisInv, TableInv
  <2>2. PICK r \in Rpc : Mints(r, o, b)
    BY Zenon DEF RedisInv, TableInv
  <2>3. q = r
    BY <2>1, <2>2, Zenon DEF MintedOnce, Mints
  <2> QED BY <2>1, <2>2, <2>3 DEF Mints
<1> QED BY <1>1, RedisInvariance, PTL

\* No command moves a binding to another backend in place
\* (bind_session_if_absent, forget_session, the TTLs).
THEOREM BindingsStay == Spec => BindingNeverMoves
<1>1. RedisInv /\ [Next]_allVars =>
        [\A k \in Key : sessions[k] # None => sessions'[k] \in {sessions[k], None}]_allVars
  BY NextTable, Zenon DEF Table, Kept, Ended
<1> QED BY <1>1, RedisInvariance, PTL DEF Spec, BindingNeverMoves
=============================================================================
