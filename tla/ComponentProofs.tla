-------------------------- MODULE ComponentProofs --------------------------
(***************************************************************************)
(* Theorems about components around the proxy: the channel cache and the   *)
(* pump of an upload, for any number of threads, addresses, messages and   *)
(* any room in the channel; startup and shutdown of the process, for any   *)
(* number of calls and any budgets; and its configuration, for any file.   *)
(***************************************************************************)
EXTENDS Uploads, GatewayProcess, TLAPS

----------------------------------------------------------------------------
(* Queues *)

\* What is appended comes last and leaves the others where they were.
LEMMA AppendKeeps ==
  ASSUME NEW S, NEW s \in Seq(S), NEW a \in S
  PROVE  /\ Append(s, a) \in Seq(S)
         /\ Len(Append(s, a)) = Len(s) + 1
         /\ Append(s, a)[Len(s) + 1] = a
         /\ \A n \in 1 .. Len(s) : Append(s, a)[n] = s[n]
OBVIOUS

\* Without its head, a queue's elements move up by one.
LEMMA TailKeeps ==
  ASSUME NEW S, NEW s \in Seq(S), s # <<>>
  PROVE  /\ Head(s) = s[1] /\ Head(s) \in S /\ Len(s) \in Nat \ {0}
         /\ Tail(s) \in Seq(S)
         /\ Len(Tail(s)) = Len(s) - 1
         /\ \A n \in 1 .. Len(s) - 1 : Tail(s)[n] = s[n + 1]
OBVIOUS

----------------------------------------------------------------------------
(* Dialer *)

\* A caller that misses the cache has opened no channel to the address: it would
\* be in the cache.
LEMMA LookupKeeps ==
  ASSUME DialerInv, NEW t \in Thread, NEW a \in DialAddress, lookup(t, a)
  PROVE  DialerInv'
<1>1. DialerTypeOK'
  BY Zenon DEF DialerInv, DialerTypeOK, lookup
<1>2. OpenedOncePerThread' /\ UNCHANGED <<inner, opened>>
  BY Zenon DEF DialerInv, OpenedOncePerThread, lookup
<1>3. ASSUME NEW u \in Thread
      PROVE  /\ at'[u] # "idle" => addr'[u] # None
             /\ at'[u] = "insert" => mine'[u] # None
             /\ at'[u] = "open" => \A n \in DOMAIN opened : opened[n] # <<addr'[u], u>>
             /\ at[u] = "insert" => at'[u] = "insert" /\ addr'[u] = addr[u]
  <2>1. CASE u # t
    <3>1. at'[u] = at[u] /\ addr'[u] = addr[u] /\ mine'[u] = mine[u]
      BY <2>1, Zenon DEF DialerInv, DialerTypeOK, lookup
    <3> QED BY <3>1 DEF DialerInv
  <2>2. CASE u = t
    <3>1. /\ at[t] = "idle" /\ addr'[t] = a /\ a # None
          /\ at'[t] = IF inner[a] = None THEN "open" ELSE "idle"
      BY DialerAssumption, Zenon DEF DialerInv, DialerTypeOK, lookup
    <3>2. ASSUME inner[a] = None, NEW n \in DOMAIN opened
          PROVE  opened[n] # <<a, t>>
      BY <3>1, <3>2, Zenon DEF DialerInv
    <3> QED BY <2>2, <3>1, <3>2, Zenon
  <2> QED BY <2>1, <2>2, Zenon
<1> QED BY <1>1, <1>2, <1>3 DEF DialerInv

\* The new channel is the first of its opener to the address, who is about to
\* cache it.
LEMMA OpenKeeps ==
  ASSUME DialerInv, NEW t \in Thread, open(t)
  PROVE  DialerInv'
<1>0. at[t] = "open" /\ addr[t] \in DialAddress
  BY DEF open, DialerInv, DialerTypeOK
<1>1. CASE addr[t] \in Malformed /\ at' = [at EXCEPT ![t] = "idle"]
           /\ UNCHANGED <<inner, addr, mine, opened>>
  BY <1>0, <1>1 DEF DialerInv, DialerTypeOK, OpenedOncePerThread
<1>2. CASE /\ addr[t] \notin Malformed /\ Len(opened) < MaxOpened
           /\ opened' = Append(opened, <<addr[t], t>>)
           /\ mine' = [mine EXCEPT ![t] = Len(opened) + 1]
           /\ at' = [at EXCEPT ![t] = "insert"]
           /\ UNCHANGED <<inner, addr>>
  <2> DEFINE last == Len(opened) + 1
  <2>1. /\ opened \in Seq(DialAddress \X Thread) /\ Len(opened) \in Nat
        /\ DOMAIN opened = 1 .. Len(opened)
    BY DEF DialerInv, DialerTypeOK
  <2>2. /\ opened' \in Seq(DialAddress \X Thread) /\ Len(opened') = last
        /\ opened'[last] = <<addr[t], t>>
        /\ \A n \in 1 .. Len(opened) : opened'[n] = opened[n]
    <3>1. <<addr[t], t>> \in DialAddress \X Thread
      BY <1>0, Zenon
    <3> QED BY <1>2, <2>1, <3>1, AppendKeeps
  <2>3. /\ DOMAIN opened' = DOMAIN opened \cup {last} /\ last \notin DOMAIN opened
        /\ last \in Channels /\ last # None /\ Len(opened') <= MaxOpened
    BY <1>2, <2>1, <2>2, DialerAssumption DEF Channels
  <2> HIDE DEF last
  <2>4. DialerTypeOK'
    <3>1. mine' = [mine EXCEPT ![t] = last]
      BY <1>2, Zenon DEF last
    <3> QED BY <1>2, <2>2, <2>3, <3>1 DEF DialerInv, DialerTypeOK
  <2>5. \A n \in DOMAIN opened : opened'[n] = opened[n] /\ opened[n] # <<addr[t], t>>
    BY <1>0, <2>1, <2>2, Zenon DEF DialerInv
  <2>6. OpenedOncePerThread'
    BY <2>2, <2>3, <2>5, Zenon DEF DialerInv, OpenedOncePerThread
  <2>7. ASSUME NEW u \in Thread
        PROVE  /\ at'[u] # "idle" => addr'[u] # None
               /\ at'[u] = "insert" => mine'[u] # None
               /\ at'[u] = "open" => \A n \in DOMAIN opened' : opened'[n] # <<addr'[u], u>>
               /\ at[u] = "insert" => at'[u] = "insert"
    <3>1. CASE u = t
      <4>1. at'[t] = "insert" /\ mine'[t] = last /\ addr[t] # None
        BY <1>0, <1>2, Zenon DEF DialerInv, DialerTypeOK, last
      <4> QED BY <1>2, <2>3, <3>1, <4>1, Zenon
    <3>2. CASE u # t
      <4>1. mine'[u] = mine[u] /\ at'[u] = at[u] /\ addr'[u] = addr[u]
        BY <1>2, <3>2, Zenon DEF DialerInv, DialerTypeOK
      <4>2. <<addr[t], t>> # <<addr[u], u>>
        BY <3>2, Zenon
      <4> QED BY <4>1, <4>2, <2>2, <2>3, <2>5 DEF DialerInv
    <3> QED BY <3>1, <3>2, Zenon
  <2>8. ASSUME NEW n \in DOMAIN opened', NEW a \in DialAddress, NEW u \in Thread,
               opened'[n] = <<a, u>>
        PROVE  inner'[a] # None \/ (at'[u] = "insert" /\ addr'[u] = a)
    <3>1. CASE n = last
      <4>1. a = addr[t] /\ u = t
        BY <2>2, <2>8, <3>1
      <4> QED BY <1>2, <4>1, Zenon DEF DialerInv, DialerTypeOK
    <3>2. CASE n # last
      BY <1>2, <2>3, <2>5, <2>7, <2>8, <3>2 DEF DialerInv
    <3> QED BY <3>1, <3>2, Zenon
  <2> QED BY <2>4, <2>6, <2>7, <2>8, Zenon DEF DialerInv
<1> QED BY <1>1, <1>2, Zenon DEF open

\* What its opener held is in the cache now, and nothing leaves the cache.
LEMMA InsertKeeps ==
  ASSUME DialerInv, NEW t \in Thread, insert(t)
  PROVE  DialerInv'
<1>1. at[t] = "insert" /\ mine[t] # None /\ addr[t] \in DialAddress
  BY Zenon DEF DialerInv, DialerTypeOK, insert
<1>2. DialerTypeOK' /\ OpenedOncePerThread'
  BY <1>1, Zenon DEF DialerInv, DialerTypeOK, OpenedOncePerThread, insert
<1>3. /\ inner'[addr[t]] # None
      /\ \A a \in DialAddress : inner[a] # None => inner'[a] # None
  BY <1>1, Zenon DEF DialerInv, DialerTypeOK, insert
<1>4. ASSUME NEW u \in Thread
      PROVE  at'[u] = "idle" \/ (at'[u] = at[u] /\ u # t)
  BY Zenon DEF DialerInv, DialerTypeOK, insert
<1>5. ASSUME NEW n \in DOMAIN opened, NEW a \in DialAddress, NEW u \in Thread,
             opened[n] = <<a, u>>
      PROVE  inner'[a] # None \/ (at'[u] = "insert" /\ addr[u] = a)
  <2>1. CASE u = t
    BY <1>3, <1>5, <2>1, Zenon DEF DialerInv
  <2>2. CASE u # t
    <3>1. at'[u] = at[u]
      BY <2>2, Zenon DEF DialerInv, DialerTypeOK, insert
    <3> QED BY <1>3, <1>5, <3>1 DEF DialerInv
  <2> QED BY <2>1, <2>2, Zenon
<1>6. UNCHANGED <<addr, mine, opened>>
  BY Zenon DEF insert
<1> QED BY <1>2, <1>4, <1>5, <1>6 DEF DialerInv

\* Every step of an upload and of the other calls keeps the cache right.
LEMMA UploadNextDialer ==
  ASSUME DialerInv, [UploadNext]_allVars
  PROVE  DialerInv'
<1>1. CASE UNCHANGED dVars
  BY <1>1 DEF dVars, DialerInv, DialerTypeOK, OpenedOncePerThread
<1>2. CASE \E t \in Thread : (\E a \in DialAddress : lookup(t, a)) \/ open(t) \/ insert(t)
  BY <1>2, LookupKeeps, OpenKeeps, InsertKeeps, Zenon
<1> QED
  BY <1>1, <1>2, UploadsAssumption, Zenon
     DEF UploadNext, allVars, Handler, client_, dial, Begin, Pump, Leaves, OtherDials

\* The cache starts empty.
LEMMA UploadInitDialer ==
  ASSUME UploadInit
  PROVE  DialerInv
<1>1. /\ <<>> \in Seq(DialAddress \X Thread) /\ Len(<<>>) <= MaxOpened
      /\ DOMAIN <<>> = {}
  BY DialerAssumption
<1> QED BY <1>1, Zenon DEF UploadInit, DialerInit, DialerInv, DialerTypeOK, OpenedOncePerThread

\* However calls race for the lock of the channel cache, with the lookup and
\* the insert in two critical sections, a thread opens at most one channel to
\* an address (Dialer::channel).
THEOREM ChannelsReused == UploadSpec => []OpenedOncePerThread
<1>1. DialerInv => OpenedOncePerThread
  BY DEF DialerInv
<1> QED BY <1>1, UploadInitDialer, UploadNextDialer, PTL DEF UploadSpec

----------------------------------------------------------------------------
(* ArtifactPump *)

\* PumpInv depends on the state of the upload alone.
LEMMA PumpUnchanged ==
  ASSUME PumpInv, UNCHANGED uVars
  PROVE  PumpInv'
BY Zenon DEF uVars, PumpInv, PumpTypeOK, InOrder, Receiving, Over, Whole

\* The client only sends while its stream is open.
LEMMA ClientKeeps ==
  ASSUME PumpInv, \/ ClientSends \/ \E how \in {"closed", "broken"} : ClientEnds(how)
  PROVE  PumpInv'
<1>1. UNCHANGED <<read, handler, pump, queue, got, backend>> /\ client = "open"
  BY Zenon DEF ClientSends, ClientEnds
<1>2. InOrder'
  BY <1>1, Zenon DEF PumpInv, InOrder
<1>3. CASE ClientSends
  <2>1. PumpTypeOK' /\ (bad' # 0 => read < bad') /\ (bad # 0 => bad' = bad)
    BY <1>1, <1>3, PumpAssumption DEF PumpInv, PumpTypeOK, ClientSends
  <2>2. Receiving /\ pump = "ended" => bad # 0 /\ Over'
    <3>1. Receiving /\ pump = "ended" => read + 1 = bad
      BY <1>1, Zenon DEF PumpInv, Over
    <3> QED BY <1>1, <2>1, <3>1 DEF PumpInv, PumpTypeOK, Over
  <2>3. backend \in {"eof", "served"} => bad # 0 /\ bad' = bad /\ Len(got) = Whole'
    BY <1>1, <2>1, Zenon DEF PumpInv, Whole
  <2> QED BY <1>1, <1>2, <2>1, <2>2, <2>3, Zenon
             DEF PumpInv, Receiving, Over, Whole
<1>4. CASE \E how \in {"closed", "broken"} : ClientEnds(how)
  <2>1. PumpTypeOK'
    BY <1>1, <1>4, Zenon DEF PumpInv, PumpTypeOK, ClientEnds
  <2> QED BY <1>1, <1>2, <1>4, <2>1, Zenon DEF PumpInv, Receiving, Over, Whole, ClientEnds
<1> QED BY <1>3, <1>4, Zenon

\* With the handler goes the request, and nothing more reaches the backend.
LEMMA LeaveKeeps ==
  ASSUME PumpInv, ClientLeaves
  PROVE  PumpInv'
BY PumpAssumption DEF PumpInv, PumpTypeOK, InOrder, Receiving, Over, Whole, ClientLeaves

\* The handler starts the pump with the first message in the channel.
LEMMA HandlerKeeps ==
  ASSUME PumpInv, first_message \/ no_client \/ add_artifacts
  PROVE  PumpInv'
<1>1. CASE first_message
  BY <1>1, PumpAssumption DEF PumpInv, PumpTypeOK, InOrder, Receiving,
                              Readable, Over, Whole, first_message
<1>2. CASE no_client
  BY <1>2, PumpAssumption DEF PumpInv, PumpTypeOK, InOrder, Receiving, Over, Whole, no_client
<1>3. CASE add_artifacts
  BY <1>3, PumpAssumption DEF PumpInv, PumpTypeOK, InOrder, Receiving, Over, Whole, add_artifacts
<1> QED BY <1>1, <1>2, <1>3, Zenon

\* The pump reads one message and queues it behind the others.
LEMMA PumpKeeps ==
  ASSUME PumpInv, pump_message \/ pump_send
  PROVE  PumpInv'
<1>1. CASE pump_message
  <2>1. UNCHANGED <<sent, bad, client, handler, queue, got, backend>>
    BY <1>1, Zenon DEF pump_message
  <2>2. InOrder'
    BY <2>1, Zenon DEF PumpInv, InOrder
  <2>3. PumpTypeOK' /\ (bad' # 0 => read' < bad')
    BY <1>1, <2>1, PumpAssumption DEF PumpInv, PumpTypeOK, Readable, pump_message
  <2>4. Receiving' => /\ pump' \in {"read", "send", "ended"}
                      /\ Len(got) + Len(queue) + (IF pump' = "send" THEN 1 ELSE 0) = read'
                      /\ pump' = "ended" => Over'
    BY <1>1, <2>1 DEF PumpInv, PumpTypeOK, Receiving, Readable, Over, pump_message
  <2>5. handler \notin {"first", "dial"}
    BY <1>1, Zenon DEF PumpInv, pump_message
  <2> QED BY <2>1, <2>2, <2>3, <2>4, <2>5, Zenon
             DEF PumpInv, Receiving, Over, Whole
<1>2. CASE pump_send
  <2>1. UNCHANGED <<sent, bad, client, read, handler, got, backend>>
    BY <1>2, Zenon DEF pump_send
  <2>2. handler \notin {"first", "dial"}
    BY <1>2, Zenon DEF PumpInv, pump_send
  <2>3. CASE ~Receiving
    <3>1. UNCHANGED queue /\ pump' = "ended"
      BY <1>2, <2>3, Zenon DEF pump_send
    <3> QED BY <2>1, <2>2, <2>3, <3>1, Zenon
               DEF PumpInv, PumpTypeOK, InOrder, Receiving, Over, Whole
  <2>4. CASE Receiving
    <3>1. queue' = Append(queue, read) /\ pump' = "read" /\ Len(queue) < ChannelSize
      BY <1>2, <2>4, Zenon DEF pump_send
    <3>2. /\ Len(got) + Len(queue) + 1 = read /\ read \in 1 .. MaxMessages
          /\ Len(got) \in Nat /\ Len(queue) \in Nat
      BY <1>2, <2>4, PumpAssumption DEF PumpInv, PumpTypeOK, pump_send
    <3>3. InOrder'
      <4>1. /\ Len(queue') = Len(queue) + 1 /\ queue'[Len(queue) + 1] = read
            /\ \A n \in 1 .. Len(queue) : queue'[n] = queue[n]
        BY <3>1, <3>2, AppendKeeps DEF PumpInv, PumpTypeOK
      <4>2. \A i \in 1 .. Len(queue) : queue[i] = Len(got) + i
        BY Zenon DEF PumpInv, InOrder
      <4>3. \A i \in 1 .. Len(queue') : queue'[i] = Len(got) + i
        BY <3>2, <4>1, <4>2
      <4> QED BY <2>1, <4>3, Zenon DEF PumpInv, InOrder
    <3>4. PumpTypeOK'
      BY <2>1, <3>1, <3>2, PumpAssumption DEF PumpInv, PumpTypeOK
    <3>5. Len(got) + Len(queue') + 0 = read
      BY <3>1, <3>2 DEF PumpInv, PumpTypeOK
    <3> QED BY <2>1, <2>2, <2>4, <3>1, <3>3, <3>4, <3>5, Zenon
             DEF PumpInv, Receiving, Over, Whole
  <2> QED BY <2>3, <2>4, Zenon
<1> QED BY <1>1, <1>2, Zenon

\* The backend reads from the front of the channel.
LEMMA BackendKeeps ==
  ASSUME PumpInv, BackendReads \/ BackendAnswers
  PROVE  PumpInv'
<1>1. CASE BackendReads
  <2>1. Receiving /\ UNCHANGED <<sent, bad, client, read, handler, pump>>
    BY <1>1, Zenon DEF BackendReads
  <2>2. CASE queue # <<>> /\ got' = Append(got, Head(queue)) /\ queue' = Tail(queue)
             /\ UNCHANGED backend
    <3>1. /\ Head(queue) = queue[1] /\ Head(queue) \in 1 .. MaxMessages
          /\ Len(queue) \in Nat \ {0} /\ queue' \in Seq(1 .. MaxMessages)
          /\ Len(queue') = Len(queue) - 1
          /\ \A n \in 1 .. Len(queue) - 1 : queue'[n] = queue[n + 1]
      BY <2>2, TailKeeps, Zenon DEF PumpInv, PumpTypeOK
    <3>2. /\ got' \in Seq(1 .. MaxMessages)
          /\ Len(got') = Len(got) + 1 /\ got'[Len(got) + 1] = Head(queue)
          /\ \A n \in 1 .. Len(got) : got'[n] = got[n]
      BY <2>2, <3>1, AppendKeeps DEF PumpInv, PumpTypeOK
    <3>3. Len(got) \in Nat
      BY DEF PumpInv, PumpTypeOK
    <3>4. Head(queue) = Len(got) + 1
      BY <3>1, <3>3 DEF PumpInv, InOrder
    <3>5. InOrder'
      <4>1. \A i \in 1 .. Len(got') : got'[i] = i
        BY <3>4, <3>2, <3>3 DEF PumpInv, InOrder
      <4>2. \A i \in 1 .. Len(queue') : queue'[i] = Len(got') + i
        BY <3>1, <3>2, <3>3 DEF PumpInv, InOrder
      <4> QED BY <4>1, <4>2, Zenon DEF InOrder
    <3>6. PumpTypeOK'
      <4>1. Len(queue') <= ChannelSize
        BY <3>1, PumpAssumption DEF PumpInv, PumpTypeOK
      <4> QED BY <2>1, <2>2, <3>1, <3>2, <4>1, Zenon DEF PumpInv, PumpTypeOK
    <3>7. Len(got') + Len(queue') + (IF pump = "send" THEN 1 ELSE 0) = read
      <4>1. Len(got) + Len(queue) + (IF pump = "send" THEN 1 ELSE 0) = read
        BY <2>1, Zenon DEF PumpInv
      <4> QED BY <3>1, <3>2, <3>3, <4>1
    <3> QED BY <2>1, <2>2, <3>5, <3>6, <3>7, Zenon DEF PumpInv, Receiving, Over, Whole
  <2>3. CASE queue = <<>> /\ pump = "ended" /\ backend' = "eof" /\ UNCHANGED <<got, queue>>
    <3>1. Len(got) = read /\ Over
      BY <2>1, <2>3 DEF PumpInv, PumpTypeOK
    <3>2. (client # "open" \/ bad # 0) /\ (client = "broken" \/ Len(got) = Whole)
      BY <3>1 DEF PumpInv, PumpTypeOK, Over, Whole
    <3> QED BY <2>1, <2>3, <3>2, Zenon DEF PumpInv, PumpTypeOK, InOrder, Receiving, Whole
  <2> QED BY <1>1, <2>2, <2>3, Zenon DEF BackendReads
<1>2. CASE BackendAnswers
  BY <1>2, PumpAssumption DEF PumpInv, PumpTypeOK, InOrder, Receiving, Over, Whole, BackendAnswers
<1> QED BY <1>1, <1>2, Zenon

\* Every step keeps the messages in order and accounted for.
LEMMA UploadNextPump ==
  ASSUME PumpInv, [UploadNext]_allVars
  PROVE  PumpInv'
<1>1. CASE UNCHANGED uVars
  BY <1>1, PumpUnchanged, Zenon
<1> QED
  BY <1>1, ClientKeeps, LeaveKeeps, HandlerKeeps, PumpKeeps, BackendKeeps, Zenon
     DEF UploadNext, allVars, Handler, client_, dial, Begin, Pump, Leaves, External, OtherDials

\* An upload starts with nothing sent.
LEMMA UploadInitPump ==
  ASSUME UploadInit
  PROVE  PumpInv
BY PumpAssumption DEF UploadInit, PumpInit, PumpInv, PumpTypeOK, InOrder, Receiving, Over, Whole

\* The messages that arrive are the first ones, each once and in order.
LEMMA OrderedIsFaithful ==
  ASSUME PumpInv
  PROVE  UploadFaithful
<1>1. got = [i \in 1 .. Len(got) |-> i]
  BY DEF PumpInv, PumpTypeOK, InOrder
<1> QED BY <1>1, Zenon DEF PumpInv, PumpTypeOK, UploadFaithful, Whole

\* What the backend receives of an upload is what the client sends, in order
\* and without a gap, through the first message, the pump and a channel of any
\* room; and when the client ended its stream, a backend that saw the end of
\* the request has every message up to the first that the gateway could not
\* decode (add_artifacts).
THEOREM UploadsFaithful == UploadSpec => []UploadFaithful
BY UploadInitPump, UploadNextPump, OrderedIsFaithful, PTL DEF UploadSpec

----------------------------------------------------------------------------
(* GatewayProcess *)

\* The end of the process leaves readiness and the drain as they are.
LEMMA EndKeeps ==
  ASSUME ProcessInv, NEW how \in {"ok", "error", "killed"}, End(how)
  PROVE  ProcessInv'
<1>1. call' \in [Call -> CallStates]
  BY Zenon DEF ProcessInv, End, CallStates
<1> QED BY <1>1, Zenon DEF ProcessInv, End, Starting, startVars, stopVars

\* A step of main that does not end the process takes no calls, and arms the
\* retry clocks for a connection it goes on to; it does not start over, and
\* calls the gateway ready before there is a drain task.
LEMMA StartKeeps ==
  ASSUME ProcessInv, stage # "end", stage' # "end", UNCHANGED <<call, exit>>,
         UNCHANGED <<left, signal, shutdown, pending>>,
         UNCHANGED drain \/ (drain' = "spawned" /\ stage = "bind" /\ stage' = "admin"),
         UNCHANGED ready \/ stage = "routing",
         stage' \in Starting => stage \in Starting,
         budget' \in Nat /\ waited' \in Nat,
         stage' \in {"store", "limiter"} => waited' + budget' >= Budget
  PROVE  ProcessInv'
<1>1. UNCHANGED ready \/ drain \notin {"draining", "done"}
  BY DEF ProcessInv, Starting
<1>2. UNCHANGED drain \/ (drain' = "spawned" /\ ~shutdown /\ stage' \notin Starting)
  BY DEF ProcessInv, Starting
<1> QED BY <1>1, <1>2 DEF ProcessInv, active_streams

\* One attempt to connect: on to the next step, an exit, or a sleep.
LEMMA RetryKeeps ==
  ASSUME ProcessInv, stage \in {"store", "limiter"}, NEW s \in {"auth", "bind"},
         retry_with_budget(s)
  PROVE  ProcessInv'
<1>1. CASE Goto(s) /\ budget' = 0 /\ waited' = 0 /\ UNCHANGED <<ready, stopVars, call>>
  <2>1. stage' = s /\ UNCHANGED exit /\ budget' \in Nat /\ waited' \in Nat
    BY <1>1 DEF Goto
  <2> QED BY <1>1, <2>1, StartKeeps, Zenon DEF stopVars, Starting
<1>2. CASE End("error")
  BY <1>2, EndKeeps, Zenon
<1>3. CASE UNCHANGED <<stage, budget, waited, ready, stopVars, call, exit>>
  BY <1>3, Zenon DEF ProcessInv, stopVars, active_streams
<1> QED BY <1>1, <1>2, <1>3, Zenon DEF retry_with_budget

\* main, step by step.
LEMMA MainKeeps ==
  ASSUME ProcessInv, Main
  PROVE  ProcessInv'
<1> USE DEF Goto, Starting, startVars, stopVars
<1>0. /\ Budget \in Nat /\ Budget >= Budget /\ 0 \in Nat /\ 0 + Budget >= Budget
      /\ budget \in Nat /\ waited \in Nat
  BY ProcessAssumption DEF ProcessInv
<1>1. CASE Load \/ Tracing
  BY <1>0, <1>1, EndKeeps, StartKeeps, Zenon DEF Load, Tracing
<1>2. CASE build_tenant_routing
  BY <1>0, <1>2, EndKeeps, StartKeeps, Zenon DEF build_tenant_routing
<1>3. CASE build_affinity_store
  BY <1>0, <1>3, RetryKeeps, StartKeeps, Zenon DEF build_affinity_store
<1>4. CASE Auth
  BY <1>0, <1>4, EndKeeps, StartKeeps, Zenon DEF Auth
<1>5. CASE build_rate_limiter
  BY <1>0, <1>5, RetryKeeps, StartKeeps, Zenon DEF build_rate_limiter
<1>6. CASE Bind
  BY <1>0, <1>6, EndKeeps, StartKeeps, Zenon DEF Bind
<1>7. CASE Admin
  BY <1>0, <1>7, EndKeeps, StartKeeps, Zenon DEF Admin
<1>8. CASE Serve
  BY <1>0, <1>8, StartKeeps, Zenon DEF Serve
<1>9. CASE GrpcClosed
  BY <1>0, <1>9, StartKeeps, Zenon DEF GrpcClosed
<1>10. CASE Join
  BY <1>10, EndKeeps, Zenon DEF Join
<1> QED BY <1>1, <1>2, <1>3, <1>4, <1>5, <1>6, <1>7, <1>8, <1>9, <1>10, Zenon DEF Main

\* The drain task withdraws readiness first, and tells the servers to stop when
\* no stream is active, those that it found included.
LEMMA TasksKeep ==
  ASSUME ProcessInv, Tasks
  PROVE  ProcessInv'
<1>1. UNCHANGED <<stage, budget, waited, call, exit>>
  BY Zenon DEF Tasks, shutdown_signal, DrainBegin, DrainEnd, AdminStops, GrpcStops, startVars
<1>2. CASE AdminStops \/ GrpcStops
  BY <1>1, <1>2 DEF AdminStops, GrpcStops, stopVars, ProcessInv, active_streams
<1>3. CASE shutdown_signal
  BY <1>1, <1>3, Zenon DEF shutdown_signal, ProcessInv, active_streams
<1>4. CASE DrainBegin
  BY <1>1, <1>4 DEF DrainBegin, ProcessInv, active_streams
<1>5. CASE DrainEnd
  <2>1. left = 0 \/ pending = {}
    <3>1. active_streams = {} => pending = {}
      BY <1>5 DEF DrainEnd, ProcessInv
    <3> QED BY <1>5, <3>1, Zenon DEF DrainEnd
  <2> QED BY <1>1, <1>5, <2>1, Zenon DEF DrainEnd, ProcessInv, active_streams
<1> QED BY <1>2, <1>3, <1>4, <1>5, Zenon DEF Tasks

\* A stream that was active when the drain began is, until it ends.
LEMMA CallKeeps ==
  ASSUME ProcessInv, NEW c \in Call, Arrive(c) \/ Stream(c) \/ Done(c)
  PROVE  ProcessInv'
<1>1. /\ UNCHANGED <<stage, budget, waited, ready, drain, left, shutdown, exit>>
      /\ pending' \subseteq pending
      /\ \E v \in CallStates : call' = [call EXCEPT ![c] = v]
  BY Zenon DEF Arrive, Stream, Done, ProcessInv, startVars, stopVars, CallStates
<1>2. call' \in [Call -> CallStates]
  BY <1>1, Zenon DEF ProcessInv
<1>3. ASSUME stage # "end", NEW x \in pending'
      PROVE  x \in Call /\ call'[x] = "stream"
  <2>1. x \in pending /\ x \in Call /\ call[x] = "stream"
    BY <1>1, <1>3, Zenon DEF ProcessInv, active_streams
  <2>2. x # c \/ Stream(c)
    BY <1>3, <2>1, Zenon DEF Arrive, Done
  <2> QED BY <1>1, <2>1, <2>2, Zenon DEF Stream, ProcessInv
<1>4. stage' # "end" => pending' \subseteq active_streams'
  BY <1>1, <1>3, Zenon DEF active_streams
<1>5. pending = {} => pending' = {}
  BY <1>1, Zenon
<1> QED BY <1>1, <1>2, <1>4, <1>5, Zenon DEF ProcessInv

\* As the deadline comes nearer, the time waited grows.
LEMMA ProcessTickKeeps ==
  ASSUME ProcessInv, ProcessTick
  PROVE  ProcessInv'
<1>1. budget' \in Nat /\ waited' \in Nat /\ (left = 0 => left' = 0)
  BY ProcessAssumption DEF ProcessTick, ProcessInv
<1>2. waited + budget >= Budget => waited' + budget' >= Budget
  BY ProcessAssumption DEF ProcessTick, ProcessInv
<1> QED BY <1>1, <1>2, Zenon DEF ProcessInv, ProcessTick, active_streams

\* Every step of the process, of its clients and of its environment.
LEMMA ProcessNextKeeps ==
  ASSUME ProcessInv, [ProcessNext]_pVars
  PROVE  ProcessInv'
<1>1. CASE Sigterm
  <2>1. CASE End("killed")
    BY <2>1, EndKeeps, Zenon
  <2> QED BY <1>1, <2>1 DEF Sigterm, ProcessInv, startVars, active_streams
<1>2. CASE Probe \/ RedisFlips \/ UNCHANGED pVars
  BY <1>2 DEF Probe, RedisFlips, pVars, ProcessInv, startVars, stopVars, active_streams
<1> QED BY <1>1, <1>2, MainKeeps, TasksKeep, CallKeeps, ProcessTickKeeps, Zenon DEF ProcessNext

\* The process starts with nothing running.
LEMMA ProcessInitKeeps ==
  ASSUME ProcessInit
  PROVE  ProcessInv
<1>1. 0 \in Nat
  OBVIOUS
<1> QED BY <1>1, ProcessAssumption, Zenon DEF ProcessInit, ProcessInv, CallStates

\* A gateway that drains has withdrawn readiness before it tells its servers to
\* stop, and has waited for the streams it found or for the deadline, whatever
\* the deadline, the number of calls and the moment of the SIGTERM (the drain
\* task of main).
THEOREM DrainsGracefully == ProcessSpec => []DrainGraceful
<1>1. ProcessInv => DrainGraceful
  BY Zenon DEF ProcessInv, DrainGraceful
<1> QED BY <1>1, ProcessInitKeeps, ProcessNextKeeps, PTL DEF ProcessSpec

\* A step at which start-up gives up on Redis comes when the budget is used up.
LEMMA GivesUpLate ==
  ASSUME ProcessInv, [ProcessNext]_pVars, stage \in {"store", "limiter"}, exit' = "error"
  PROVE  waited >= Budget
<1>1. exit # "error"
  BY ProcessAssumption, Zenon DEF ProcessInv
<1>2. exit' # exit
  BY <1>1, Zenon
<1>3. \E s \in {"auth", "bind"} : retry_with_budget(s)
  BY <1>2, Zenon
     DEF ProcessNext, pVars, Main, Load, Tracing, build_tenant_routing, build_affinity_store,
         Auth, build_rate_limiter, Bind, Admin, Serve, GrpcClosed, Join, Goto, Tasks,
         shutdown_signal, DrainBegin, DrainEnd, AdminStops, GrpcStops, Sigterm, End,
         ProcessTick, Probe, RedisFlips, Arrive, Stream, Done
<1>4. budget = 0
  BY <1>2, <1>3, Zenon DEF retry_with_budget, Goto
<1> QED BY <1>4, ProcessAssumption DEF ProcessInv

\* Start-up gives up on Redis only Budget after its first attempt, for any
\* budget and interval and however Redis comes and goes (retry_with_budget).
THEOREM RedisBudgetHeld == ProcessSpec => RedisGetsItsBudget
<1>1. ProcessInv /\ [ProcessNext]_pVars =>
        [(stage \in {"store", "limiter"} /\ exit' = "error") => waited >= Budget]_pVars
  BY GivesUpLate, Zenon
<1> QED
  BY <1>1, ProcessInitKeeps, ProcessNextKeeps, PTL DEF ProcessSpec, RedisGetsItsBudget

----------------------------------------------------------------------------
(* Config *)

\* Two mappings have the same under key k.
Same(w, u, k) == (Absent(w, k) <=> Absent(u, k)) /\ (~Absent(w, k) => w[k] = u[k])

\* Setting a key and dropping it leave the others the same.
LEMMA OtherKeys ==
  ASSUME NEW y, NEW b, NEW v, NEW w, w = With(y, b, v), NEW u, u = Without(y, b)
  PROVE  /\ \A k : k # b => Same(w, u, k)
         /\ w[b] = v /\ Block(w, b) = v /\ Block(u, b) = None
BY Zenon DEF With, Without, Absent, Same, Block, Field

\* The settings under a key, one operator for every block of from_raw.
Auth_of(y) == IF Block(y, "auth") = None THEN AuthConfig_default ELSE AuthConfig(y.auth)
Tracing_of(y) == IF Block(y, "tracing") = None THEN None ELSE TracingSettings(y.tracing)
Store_of(y) == IF Block(y, "affinity_store") = None THEN AffinityStoreConfig_default
               ELSE AffinityStoreConfig(y.affinity_store)
Health_of(y) == IF Block(y, "health_check") = None THEN HealthCheckSettings_default
                ELSE HealthCheckSettings(y.health_check)
Shutdown_of(y) == IF Block(y, "shutdown") = None THEN ShutdownSettings_default
                  ELSE ShutdownSettings(y.shutdown)
Resolver_of(y) == IF Block(y, "tenant_resolver") = None THEN TenantResolverSettings_default
                  ELSE TenantResolverSettings(y.tenant_resolver)
Pools_of(y) == IF Block(y, "tenant_pools") = None THEN TenantPoolsSettings_default
               ELSE TenantPoolsSettings(y.tenant_pools)
Limits_of(y) == IF Block(y, "rate_limit") = None THEN RateLimitSettings_default
                ELSE RateLimitSettings(y.rate_limit)
Audit_of(y) == IF Block(y, "audit") = None THEN AuditSettings_default
               ELSE AuditSettings(y.audit)
Bind_of(y) == IF Field(y, "bind_addr", "") = "" THEN ":15003" ELSE y.bind_addr
Admin_of(y) == IF Field(y, "admin_addr", ":9090") = "" THEN None
               ELSE Field(y, "admin_addr", ":9090")

\* What from_raw makes of a mapping whose parts are these.
Loaded(d, bind, auth, port, tracing, store, health, stop, resolver, pools, limits, audit) ==
  IF IsError(d) THEN d
  ELSE [bind_addr |-> bind, discovery |-> d, auth |-> auth, admin_addr |-> port,
        tracing |-> tracing, affinity_store |-> store, health_check |-> health,
        shutdown |-> stop, tenant_resolver |-> resolver, tenant_pools |-> pools,
        rate_limit |-> limits, audit |-> audit]

\* It looks at nothing else.
LEMMA LoadedIs ==
  ASSUME NEW y
  PROVE  from_raw(y) =
           Loaded(Discovery(y), Bind_of(y), Auth_of(y), Admin_of(y), Tracing_of(y), Store_of(y),
                  Health_of(y), Shutdown_of(y), Resolver_of(y), Pools_of(y), Limits_of(y),
                  Audit_of(y))
BY Zenon DEF from_raw, Loaded, OrDefault, Auth_of, Tracing_of, Store_of, Health_of, Shutdown_of,
          Resolver_of, Pools_of, Limits_of, Audit_of, Bind_of, Admin_of

\* A key under which two mappings have the same makes the same settings.
LEMMA SameSettings ==
  ASSUME NEW w, NEW u
  PROVE  /\ Same(w, u, "backends") /\ Same(w, u, "backend_discovery") => Discovery(w) = Discovery(u)
         /\ Same(w, u, "auth") => Auth_of(w) = Auth_of(u)
         /\ Same(w, u, "tracing") => Tracing_of(w) = Tracing_of(u)
         /\ Same(w, u, "affinity_store") => Store_of(w) = Store_of(u)
         /\ Same(w, u, "health_check") => Health_of(w) = Health_of(u)
         /\ Same(w, u, "shutdown") => Shutdown_of(w) = Shutdown_of(u)
         /\ Same(w, u, "tenant_resolver") => Resolver_of(w) = Resolver_of(u)
         /\ Same(w, u, "tenant_pools") => Pools_of(w) = Pools_of(u)
         /\ Same(w, u, "rate_limit") => Limits_of(w) = Limits_of(u)
         /\ Same(w, u, "audit") => Audit_of(w) = Audit_of(u)
         /\ Same(w, u, "bind_addr") => Bind_of(w) = Bind_of(u)
         /\ Same(w, u, "admin_addr") => Admin_of(w) = Admin_of(u)
<1>1. ASSUME NEW k, Same(w, u, k)
      PROVE  /\ Block(w, k) = Block(u, k) /\ (Block(u, k) # None => w[k] = u[k])
             /\ \A d : Field(w, k, d) = Field(u, k, d) /\ (Field(u, k, d) # d => w[k] = u[k])
  BY <1>1, Zenon DEF Same, Block, Field
<1>2. ASSUME Same(w, u, "backends"), Same(w, u, "backend_discovery")
      PROVE  Discovery(w) = Discovery(u)
  <2>1. /\ Block(w, "backends") = Block(u, "backends")
        /\ Block(w, "backend_discovery") = Block(u, "backend_discovery")
    BY <1>1, <1>2, Zenon
  <2> QED BY <2>1, Zenon DEF Discovery
<1>3. Same(w, u, "auth") => Auth_of(w) = Auth_of(u)
  BY <1>1, Zenon DEF Auth_of
<1>4. Same(w, u, "tracing") => Tracing_of(w) = Tracing_of(u)
  BY <1>1, Zenon DEF Tracing_of
<1>5. Same(w, u, "affinity_store") => Store_of(w) = Store_of(u)
  BY <1>1, Zenon DEF Store_of
<1>6. Same(w, u, "health_check") => Health_of(w) = Health_of(u)
  BY <1>1, Zenon DEF Health_of
<1>7. Same(w, u, "shutdown") => Shutdown_of(w) = Shutdown_of(u)
  BY <1>1, Zenon DEF Shutdown_of
<1>8. Same(w, u, "tenant_resolver") => Resolver_of(w) = Resolver_of(u)
  BY <1>1, Zenon DEF Resolver_of
<1>9. Same(w, u, "tenant_pools") => Pools_of(w) = Pools_of(u)
  BY <1>1, Zenon DEF Pools_of
<1>10. Same(w, u, "rate_limit") => Limits_of(w) = Limits_of(u)
  BY <1>1, Zenon DEF Limits_of
<1>11. Same(w, u, "audit") => Audit_of(w) = Audit_of(u)
  BY <1>1, Zenon DEF Audit_of
<1>12. Same(w, u, "bind_addr") => Bind_of(w) = Bind_of(u)
  BY <1>1, Zenon DEF Bind_of
<1>13. Same(w, u, "admin_addr") => Admin_of(w) = Admin_of(u)
  BY <1>1, Zenon DEF Admin_of
<1> QED BY <1>2, <1>3, <1>4, <1>5, <1>6, <1>7, <1>8, <1>9, <1>10, <1>11, <1>12, <1>13, Zenon

\* The defaults of the fields and the defaults of the types agree.
LEMMA DefaultsAgree ==
  /\ AuditSettings(Empty) = AuditSettings_default
  /\ TenantPoolsSettings(Empty) = TenantPoolsSettings_default
  /\ HealthCheckSettings(Empty) = HealthCheckSettings_default
  /\ ShutdownSettings(Empty) = ShutdownSettings_default
  /\ RateLimitSettings(Empty) = RateLimitSettings_default
  /\ RateLimitSettings([redis |-> Empty, default |-> Empty]) = RateLimitSettings_default
  /\ AuthConfig([type |-> "none"]) = AuthConfig_default
  /\ AffinityStoreConfig([type |-> "memory"]) = AffinityStoreConfig_default
  /\ TenantResolverSettings([source |-> "from_claim"]) = TenantResolverSettings_default
<1>1. /\ \A k : Absent(Empty, k) /\ \A d : Field(Empty, k, d) = d
      /\ DOMAIN Empty = {}
  BY Zenon DEF Empty, Absent, Field
<1>2. AuditSettings(Empty) = AuditSettings_default
  BY <1>1, Zenon DEF AuditSettings, AuditSettings_default
<1>3. TenantPoolsSettings(Empty) = TenantPoolsSettings_default
  BY <1>1, Zenon DEF TenantPoolsSettings, TenantPoolsSettings_default
<1>4. HealthCheckSettings(Empty) = HealthCheckSettings_default
  BY <1>1, Zenon DEF HealthCheckSettings, HealthCheckSettings_default
<1>5. ShutdownSettings(Empty) = ShutdownSettings_default
  BY <1>1, Zenon DEF ShutdownSettings, ShutdownSettings_default
<1>6. BucketSettings(Empty) = BucketSettings_default
  BY <1>1, Zenon DEF BucketSettings, BucketSettings_default
<1>7. RateLimitRedisSettings(Empty) = RateLimitRedisSettings_default
  BY <1>1 DEF RateLimitRedisSettings, RateLimitRedisSettings_default
<1>8. [t \in DOMAIN Empty |-> BucketSettings(Empty[t])] = Empty
  <2>1. \A f : DOMAIN f = {} /\ f = [t \in DOMAIN f |-> f[t]] => f = [k \in {} |-> None]
    BY Zenon
  <2> QED BY <1>1, Zenon DEF Empty
<1>9. RateLimitSettings(Empty) = RateLimitSettings_default
  BY <1>1, <1>8, Zenon DEF RateLimitSettings, RateLimitSettings_default
<1>10. RateLimitSettings([redis |-> Empty, default |-> Empty]) = RateLimitSettings_default
  <2>1. PICK y : y = [redis |-> Empty, default |-> Empty]
    BY Zenon
  <2>2. ~Absent(y, "redis") /\ ~Absent(y, "default") /\ y.redis = Empty /\ y.default = Empty
    BY <2>1 DEF Absent
  <2>3. /\ \A d : Field(y, "enabled", d) = d /\ Field(y, "store", d) = d
        /\ \A d : Field(y, "overrides", d) = d
    BY <2>1 DEF Field, Absent
  <2>4. RateLimitSettings(y) = RateLimitSettings_default
    BY <1>6, <1>7, <1>8, <2>2, <2>3, Zenon DEF RateLimitSettings, RateLimitSettings_default
  <2> QED BY <2>1, <2>4, Zenon
<1>11. AuthConfig([type |-> "none"]) = AuthConfig_default
  BY DEF AuthConfig, AuthConfig_default
<1>12. AffinityStoreConfig([type |-> "memory"]) = AffinityStoreConfig_default
  BY DEF AffinityStoreConfig, AffinityStoreConfig_default
<1>13. TenantResolverSettings([source |-> "from_claim"]) = TenantResolverSettings_default
  <2>1. PICK y : y = [source |-> "from_claim"]
    BY Zenon
  <2>2. y.source = "from_claim" /\ "from_claim" # "from_metadata"
        /\ \A d : Field(y, "on_missing", d) = d /\ Field(y, "default_name", d) = d
    BY <2>1 DEF Field, Absent
  <2>3. TenantResolverSettings(y) = TenantResolverSettings_default
    BY <2>2, Zenon DEF TenantResolverSettings, TenantResolverSettings_default
  <2> QED BY <2>1, <2>3, Zenon
<1> QED BY <1>2, <1>3, <1>4, <1>5, <1>9, <1>10, <1>11, <1>12, <1>13, Zenon

\* Two mappings make the same settings, but for tracing.
Alike(w, u) ==
  /\ Parses(w) <=> Parses(u)
  /\ Discovery(w) = Discovery(u) /\ Bind_of(w) = Bind_of(u) /\ Auth_of(w) = Auth_of(u)
  /\ Admin_of(w) = Admin_of(u) /\ Store_of(w) = Store_of(u) /\ Health_of(w) = Health_of(u)
  /\ Shutdown_of(w) = Shutdown_of(u) /\ Resolver_of(w) = Resolver_of(u)
  /\ Pools_of(w) = Pools_of(u) /\ Limits_of(w) = Limits_of(u) /\ Audit_of(w) = Audit_of(u)

\* Then they load the same configuration.
LEMMA AlikeLoad ==
  ASSUME NEW w, NEW u, Alike(w, u), Tracing_of(w) = Tracing_of(u)
  PROVE  load(w) = load(u)
<1>1. from_raw(w) = from_raw(u)
  BY LoadedIs, Zenon DEF Alike
<1> QED BY <1>1, Zenon DEF Alike, load

\* Without its tag a block does not parse, and with it does.
LEMMA SameParse ==
  ASSUME NEW y, NEW b, NEW v, b \in DOMAIN Tags => Tags[b] \in DOMAIN v
  PROVE  Parses(With(y, b, v)) <=> Parses(Without(y, b))
<1>1. PICK w, u : w = With(y, b, v) /\ u = Without(y, b)
  BY Zenon
<1>2. /\ \A k : k # b => Same(w, u, k)
      /\ w[b] = v /\ Block(u, b) = None
  BY <1>1, OtherKeys
<1>3. \A k : k # b => Block(w, k) = Block(u, k) /\ (Block(u, k) # None => w[k] = u[k])
  BY <1>2, Zenon DEF Same, Block, Field
<1>4. Parses(w) <=> Parses(u)
  BY <1>2, <1>3, Zenon DEF Parses
<1> QED BY <1>1, <1>4, Zenon

\* A block that is set is the only difference; when it is set to what the
\* Default of its type says, there is none.
LEMMA BlockLoads ==
  ASSUME NEW y, NEW b, NEW v, v # None,
         \/ b = "audit" /\ AuditSettings(v) = AuditSettings_default
         \/ b = "rate_limit" /\ RateLimitSettings(v) = RateLimitSettings_default
         \/ b = "tenant_pools" /\ TenantPoolsSettings(v) = TenantPoolsSettings_default
         \/ b = "health_check" /\ HealthCheckSettings(v) = HealthCheckSettings_default
         \/ b = "shutdown" /\ ShutdownSettings(v) = ShutdownSettings_default
         \/ /\ b = "auth" /\ AuthConfig(v) = AuthConfig_default
            /\ "type" \in DOMAIN v
         \/ /\ b = "affinity_store" /\ AffinityStoreConfig(v) = AffinityStoreConfig_default
            /\ "type" \in DOMAIN v
         \/ /\ b = "tenant_resolver" /\ TenantResolverSettings(v) = TenantResolverSettings_default
            /\ "source" \in DOMAIN v
  PROVE  load(With(y, b, v)) = load(Without(y, b))
<1>1. PICK w, u : w = With(y, b, v) /\ u = Without(y, b)
  BY Zenon
<1>2. /\ \A k : k # b => Same(w, u, k)
      /\ w[b] = v /\ Block(w, b) = v /\ Block(u, b) = None
  BY <1>1, OtherKeys
<1>3. DOMAIN Tags = {"auth", "affinity_store", "tenant_resolver", "backend_discovery"}
      /\ Tags["auth"] = "type" /\ Tags["affinity_store"] = "type"
      /\ Tags["tenant_resolver"] = "source"
  BY DEF Tags
<1>4. Parses(w) <=> Parses(u)
  <2>1. b \in DOMAIN Tags => Tags[b] \in DOMAIN v
    BY <1>3
  <2> QED BY <1>1, <2>1, SameParse, Zenon
<1>5. /\ "auth" # b => Auth_of(w) = Auth_of(u)
      /\ "affinity_store" # b => Store_of(w) = Store_of(u)
      /\ "health_check" # b => Health_of(w) = Health_of(u)
      /\ "shutdown" # b => Shutdown_of(w) = Shutdown_of(u)
      /\ "tenant_resolver" # b => Resolver_of(w) = Resolver_of(u)
      /\ "tenant_pools" # b => Pools_of(w) = Pools_of(u)
      /\ "rate_limit" # b => Limits_of(w) = Limits_of(u)
      /\ "audit" # b => Audit_of(w) = Audit_of(u)
  BY <1>2, SameSettings, Zenon
<1>6. b \notin {"backends", "backend_discovery", "tracing", "bind_addr", "admin_addr"}
  OBVIOUS
<1>7. /\ Discovery(w) = Discovery(u) /\ Tracing_of(w) = Tracing_of(u)
      /\ Bind_of(w) = Bind_of(u) /\ Admin_of(w) = Admin_of(u)
  BY <1>2, <1>6, SameSettings, Zenon
<1>8. /\ "auth" = b => Auth_of(w) = Auth_of(u)
      /\ "affinity_store" = b => Store_of(w) = Store_of(u)
      /\ "health_check" = b => Health_of(w) = Health_of(u)
      /\ "shutdown" = b => Shutdown_of(w) = Shutdown_of(u)
      /\ "tenant_resolver" = b => Resolver_of(w) = Resolver_of(u)
      /\ "tenant_pools" = b => Pools_of(w) = Pools_of(u)
      /\ "rate_limit" = b => Limits_of(w) = Limits_of(u)
      /\ "audit" = b => Audit_of(w) = Audit_of(u)
  BY <1>2, Zenon DEF Auth_of, Store_of, Health_of, Shutdown_of, Resolver_of, Pools_of, Limits_of,
                     Audit_of
<1>9. Alike(w, u)
  BY <1>4, <1>5, <1>7, <1>8, Zenon DEF Alike
<1>10. load(w) = load(u)
  BY <1>7, <1>9, AlikeLoad, Zenon
<1> QED BY <1>1, <1>10, Zenon

\* Tracing has no Default of its own: an empty block and none at all lead to
\* the same exporter.
LEMMA TracingRuns ==
  ASSUME NEW y
  PROVE  Running(With(y, "tracing", Empty)) = Running(Without(y, "tracing"))
<1>1. PICK w, u : w = With(y, "tracing", Empty) /\ u = Without(y, "tracing")
  BY Zenon
<1>2. \A k : k # "tracing" => Same(w, u, k)
  BY <1>1, OtherKeys
<1>3. Block(w, "tracing") = Empty /\ w["tracing"] = Empty /\ Block(u, "tracing") = None
  BY <1>1, OtherKeys
<1>4. Parses(w) <=> Parses(u)
  <2>1. "tracing" \notin DOMAIN Tags
    BY DEF Tags
  <2> QED BY <1>1, <2>1, SameParse, Zenon
<1>5. Alike(w, u)
  BY <1>2, <1>4, SameSettings, Zenon DEF Alike
<1>6. build_tracing(Tracing_of(w)) = build_tracing(Tracing_of(u))
  <2>1. Tracing_of(u) = None /\ Tracing_of(w) = TracingSettings(Empty)
    BY <1>3, NullAssumption, Zenon DEF Tracing_of
  <2>2. \A k, d : Field(Empty, k, d) = d
    BY Zenon DEF Empty, Absent, Field
  <2>3. TracingSettings(Empty) =
          [endpoint |-> None, service_name |-> "spark-connect-gateway", service_version |-> None,
           sample_ratio |-> 100, export_timeout_secs |-> 10]
    BY <2>2, Zenon DEF TracingSettings, Block
  <2>4. build_tracing(TracingSettings(Empty)) = TracingConfig_default
    BY <2>3 DEF build_tracing, TracingConfig_default
  <2> QED BY <2>1, <2>4, Zenon DEF build_tracing
<1>7. CASE ~Parses(w) \/ IsError(Discovery(w))
  <2>1. load(w) = load(u)
    BY <1>5, <1>7, LoadedIs, Zenon DEF load, Loaded, Alike
  <2> QED BY <1>1, <2>1, Zenon DEF Running
<1>8. CASE Parses(w) /\ ~IsError(Discovery(w))
  <2>1. load(w) = from_raw(w) /\ load(u) = from_raw(u) /\ ~IsError(Discovery(u))
    BY <1>5, <1>8, Zenon DEF load, Alike
  <2>2. ASSUME NEW z, ~IsError(Discovery(z))
        PROVE  LET c == from_raw(z)
               IN /\ c.tracing = Tracing_of(z) /\ c.health_check = Health_of(z)
                  /\ c.rate_limit = Limits_of(z) /\ c.auth = Auth_of(z)
                  /\ c.tenant_resolver = Resolver_of(z) /\ c.audit = Audit_of(z)
                  /\ c.tenant_pools = Pools_of(z) /\ c.affinity_store = Store_of(z)
                  /\ c.shutdown = Shutdown_of(z)
    BY <2>2, LoadedIs DEF Loaded
  <2>3. /\ build_tracing(load(w).tracing) = build_tracing(load(u).tracing)
        /\ load(w).health_check = load(u).health_check /\ load(w).rate_limit = load(u).rate_limit
        /\ load(w).auth = load(u).auth /\ load(w).tenant_resolver = load(u).tenant_resolver
        /\ load(w).audit = load(u).audit /\ load(w).tenant_pools = load(u).tenant_pools
        /\ load(w).affinity_store = load(u).affinity_store /\ load(w).shutdown = load(u).shutdown
    BY <1>5, <1>6, <1>8, <2>1, <2>2, Zenon DEF Alike
  <2>4. Running(w) = Running(u)
    BY <2>3, Zenon DEF Running
  <2> QED BY <1>1, <2>4, Zenon
<1> QED BY <1>7, <1>8, Zenon

\* Whatever else a configuration file says, a block that is left out, left
\* empty or given its default tag configures the same gateway (the serde
\* defaults of crates/config and the Default of each type).
THEOREM DefaultsWrittenTwiceAgree == ProcessSpec => []BlockDefaultsAgree
<1>1. BlockDefaultsAgree
  <2>1. /\ Empty # None /\ [redis |-> Empty, default |-> Empty] # None
        /\ [type |-> "none"] # None /\ [type |-> "memory"] # None
        /\ [source |-> "from_claim"] # None
    BY NullAssumption, Zenon
  <2>2. /\ "type" \in DOMAIN [type |-> "none"] /\ "type" \in DOMAIN [type |-> "memory"]
        /\ "source" \in DOMAIN [source |-> "from_claim"]
    OBVIOUS
  <2>3. load(With(yaml, "audit", Empty)) = load(Without(yaml, "audit"))
    BY <2>1, DefaultsAgree, BlockLoads, Zenon
  <2>4. load(With(yaml, "rate_limit", Empty)) = load(Without(yaml, "rate_limit"))
    BY <2>1, DefaultsAgree, BlockLoads, Zenon
  <2>5. load(With(yaml, "tenant_pools", Empty)) = load(Without(yaml, "tenant_pools"))
    BY <2>1, DefaultsAgree, BlockLoads, Zenon
  <2>6. load(With(yaml, "health_check", Empty)) = load(Without(yaml, "health_check"))
    BY <2>1, DefaultsAgree, BlockLoads, Zenon
  <2>7. load(With(yaml, "shutdown", Empty)) = load(Without(yaml, "shutdown"))
    BY <2>1, DefaultsAgree, BlockLoads, Zenon
  <2>8. load(With(yaml, "rate_limit", [redis |-> Empty, default |-> Empty]))
          = load(Without(yaml, "rate_limit"))
    BY <2>1, DefaultsAgree, BlockLoads, Zenon
  <2>9. load(With(yaml, "auth", [type |-> "none"])) = load(Without(yaml, "auth"))
    BY <2>1, <2>2, DefaultsAgree, BlockLoads, Zenon
  <2>10. load(With(yaml, "affinity_store", [type |-> "memory"]))
           = load(Without(yaml, "affinity_store"))
    BY <2>1, <2>2, DefaultsAgree, BlockLoads, Zenon
  <2>11. load(With(yaml, "tenant_resolver", [source |-> "from_claim"]))
           = load(Without(yaml, "tenant_resolver"))
    BY <2>1, <2>2, DefaultsAgree, BlockLoads, Zenon
  <2>12. Running(With(yaml, "tracing", Empty)) = Running(Without(yaml, "tracing"))
    BY TracingRuns, Zenon
  <2> QED BY <2>3, <2>4, <2>5, <2>6, <2>7, <2>8, <2>9, <2>10, <2>11, <2>12, Zenon
          DEF BlockDefaultsAgree
<1> QED BY <1>1, PTL
=============================================================================
