---------------------------- MODULE BackendPool ----------------------------
(***************************************************************************)
(* The two sources of backends: the fixed list of crates/pool-static and   *)
(* the Endpoints watcher of crates/pool-k8s, with their round-robin pick   *)
(* and the gauge scg_backend_pool_size that an observer keeps.             *)
(*                                                                         *)
(* An address stands for "ip:port" of a ready pod; a subset of an          *)
(* Endpoints object keeps what extract_addresses looks at.                 *)
(***************************************************************************)
EXTENDS Integers, Sequences, Functions, FiniteSets, Option

CONSTANTS
  Address,     \* pod addresses
  Discoveries, \* the kinds of BackendDiscovery considered
  Addresses,   \* the configured list, for static discovery
  Objects,     \* Endpoints objects the cluster may hold, sequences of subsets
  MaxChanges,  \* bound: changes of the object and other mishaps
  CursorBits   \* width of the cursor (64 in the code)

\* A subset of an Endpoints object.
Subset == [addresses : Seq(Address), not_ready : Seq(Address), port_matches : BOOLEAN]

ASSUME PoolAssumption ==
  /\ Discoveries \subseteq {"static", "k8s"}
  /\ Addresses \in Seq(Address)
  /\ Objects \subseteq Seq(Subset)
  /\ MaxChanges \in Nat
  /\ CursorBits \in Nat /\ 2 ^ CursorBits \in Nat \ {0}
  /\ None \notin Objects \cup Nat \cup Address

VARIABLES
  discovery, \* "static" or "k8s": where this pool's backends come from
  object,    \* the Endpoints object in the API server, None when absent
  watching,  \* whether the watch is established
  events,    \* what the watcher stream will yield next
  backends,  \* the list pick() draws from
  cursor,    \* fetch_add'ed by every pick
  pending,   \* set_backends has still to call the observer with this size
  gauge,     \* scg_backend_pool_size
  window,    \* history: the picks since the list changed or the cursor wrapped
  changes    \* how many of MaxChanges were used

clusterVars == <<discovery, object, watching, changes>>
poolVars == <<backends, pending, gauge>>
pickVars == <<cursor, window>>
bpVars == <<clusterVars, events, poolVars, pickVars>>

Event == [type : {"Init", "InitDone", "Delete", "Err"}]
         \cup [type : {"Apply", "InitApply"}, object : Objects]

PoolTypeOK ==
  /\ discovery \in Discoveries
  /\ object \in Objects \cup {None}
  /\ watching \in BOOLEAN
  /\ events \in Seq(Event)
  /\ backends \in Seq(Address)
  /\ cursor \in 0 .. (2 ^ CursorBits) - 1
  /\ pending \in Nat \cup {None}
  /\ gauge \in Nat
  /\ window \in Seq(Address)
  /\ changes \in 0 .. MaxChanges

\* StaticPool::new and K8sPool::new, each with the observer attached: it was
\* called with the size of the list.
PoolInit ==
  /\ discovery \in Discoveries
  /\ object \in IF discovery = "k8s" THEN Objects \cup {None} ELSE {None}
  /\ watching = FALSE
  /\ events = <<>>
  /\ backends = IF discovery = "static" THEN Addresses ELSE <<>>
  /\ cursor = 0
  /\ pending = None
  /\ gauge = Len(backends)
  /\ window = <<>>
  /\ changes = 0

----------------------------------------------------------------------------
(* The cluster and the kube watcher (external) *)

\* One of the changes and mishaps that the bound allows.
Mishap == changes < MaxChanges /\ changes' = changes + 1

\* An Endpoints object is written or deleted; an established watch tells.
ObjectChange(o) ==
  /\ discovery = "k8s"
  /\ Mishap
  /\ o # object
  /\ object' = o
  /\ events' = IF ~watching THEN events
               ELSE Append(events, IF o = None THEN [type |-> "Delete"]
                                   ELSE [type |-> "Apply", object |-> o])
  /\ UNCHANGED <<discovery, watching, poolVars, pickVars>>

\* The watch is lost and cannot be resumed.
Desync ==
  /\ Mishap
  /\ watching
  /\ watching' = FALSE
  /\ events' = Append(events, [type |-> "Err"])
  /\ UNCHANGED <<discovery, object, poolVars, pickVars>>

\* The watcher lists the objects and watches from there.
Relist ==
  /\ discovery = "k8s"
  /\ ~watching
  /\ watching' = TRUE
  /\ events' = events \o <<[type |-> "Init"]>>
                      \o (IF object = None THEN <<>>
                          ELSE <<[type |-> "InitApply", object |-> object]>>)
                      \o <<[type |-> "InitDone"]>>
  /\ UNCHANGED <<discovery, object, changes, poolVars, pickVars>>

----------------------------------------------------------------------------
(* K8sPool *)

\* Mutant: pods that are not ready are kept.
extract_addresses_all(ep) ==
  LET out[i \in 0 .. Len(ep)] ==
        IF i = 0 THEN <<>>
        ELSE IF ep[i].port_matches THEN out[i - 1] \o ep[i].addresses \o ep[i].not_ready
                                   ELSE out[i - 1]
  IN out[Len(ep)]

\* The ready addresses of the subsets that have the target port, in order.
extract_addresses(ep) ==
  LET out[i \in 0 .. Len(ep)] ==
        IF i = 0 THEN <<>>
        ELSE IF ep[i].port_matches THEN out[i - 1] \o ep[i].addresses ELSE out[i - 1]
  IN out[Len(ep)]

\* The list is replaced under the write lock; the observer is called after.
set_backends(addrs) ==
  IF backends = addrs THEN UNCHANGED <<poolVars, pickVars>>
  ELSE /\ backends' = addrs
       /\ pending' = Len(addrs)
       /\ window' = <<>>
       /\ UNCHANGED <<gauge, cursor>>

observe ==
  /\ pending # None
  /\ gauge' = pending
  /\ pending' = None
  /\ UNCHANGED <<clusterVars, events, backends, pickVars>>

\* Mutant: only Apply replaces the list.
watcher_step_no_init ==
  /\ events # <<>>
  /\ pending = None
  /\ LET e == Head(events)
     IN CASE e.type = "Apply" -> set_backends(extract_addresses(e.object))
          [] e.type = "Delete" -> set_backends(<<>>)
          [] OTHER -> UNCHANGED <<poolVars, pickVars>>
  /\ events' = Tail(events)
  /\ UNCHANGED clusterVars

\* One turn of the task spawn_watcher starts.
watcher_step ==
  /\ events # <<>>
  /\ pending = None
  /\ LET e == Head(events)
     IN CASE e.type \in {"Apply", "InitApply"} -> set_backends(extract_addresses(e.object))
          [] e.type = "Delete" -> set_backends(<<>>)
          [] e.type \in {"Init", "InitDone", "Err"} -> UNCHANGED <<poolVars, pickVars>>
  /\ events' = Tail(events)
  /\ UNCHANGED clusterVars

----------------------------------------------------------------------------
(* Pool::pick of StaticPool and K8sPool *)

\* Mutant: the last backend is never drawn.
pick_short ==
  /\ backends # <<>>
  /\ cursor' = (cursor + 1) % (2 ^ CursorBits)
  /\ LET n == IF Len(backends) > 1 THEN Len(backends) - 1 ELSE 1
     IN window' = IF cursor' = 0 THEN <<>> ELSE Append(window, backends[(cursor % n) + 1])
  /\ UNCHANGED <<clusterVars, events, poolVars>>

\* An empty list yields None.  Otherwise fetch_add wraps, and the pick is the
\* element under the old cursor.
pick_none == backends = <<>> /\ UNCHANGED bpVars

pick ==
  /\ backends # <<>>
  /\ cursor' = (cursor + 1) % (2 ^ CursorBits)
  /\ window' = IF cursor' = 0 THEN <<>>
               ELSE Append(window, backends[(cursor % Len(backends)) + 1])
  /\ UNCHANGED <<clusterVars, events, poolVars>>

----------------------------------------------------------------------------

Membership ==
  \/ \E o \in Objects \cup {None} : ObjectChange(o)
  \/ Desync
  \/ Relist
  \/ watcher_step
  \/ observe

PoolNext == Membership \/ pick \/ pick_none

PoolSpec == PoolInit /\ [][PoolNext]_bpVars

----------------------------------------------------------------------------
(* Properties *)

Synced == watching /\ events = <<>>

\* Once the watcher has caught up with an object that exists, the pool holds
\* exactly its ready pods, through any order of changes, lost watches and
\* relists (spawn_watcher, extract_addresses).
PoolReflectsObject ==
  Synced /\ object # None =>
    Range(backends) = UNION {Range(object[i].addresses) :
                               i \in {j \in DOMAIN object : object[j].port_matches}}

\* Changes of the cluster come to rest, and then so do the pool and the gauge,
\* which set_backends reports to after it has released its lock.
EventuallyReflects ==
  <>[](object # None => backends = extract_addresses(object) /\ gauge = Len(backends))

Times(a) == Cardinality({i \in DOMAIN window : window[i] = a})

\* While the list stays the same and the cursor does not wrap, picks spread
\* evenly: no backend is drawn more than once more than another (Pool::pick).
RoundRobinEven ==
  IsInjective(backends) =>
    \A a, b \in Range(backends) : Times(a) <= Times(b) + 1

----------------------------------------------------------------------------
(* What makes them inductive *)

\* The watcher will replace the list when it gets to event i.
Replaces(i) == events[i].type \in {"Apply", "InitApply", "Delete"}

\* While the watch is up, the last event that replaces the list brings the
\* object of the API server; without one the list is that object's already.
InStep ==
  watching /\ object # None =>
    /\ \A i \in 1 .. Len(events) :
         Replaces(i) /\ (\A j \in i + 1 .. Len(events) : ~Replaces(j)) =>
           events[i].type # "Delete" /\ events[i].object = object
    /\ (\A i \in 1 .. Len(events) : ~Replaces(i)) => backends = extract_addresses(object)

\* Going round from s, p comes before r.
Passed(s, p, r) == IF s <= r THEN s <= p /\ p < r ELSE s <= p \/ p < r

\* The picks went round the list k times from position s, and then as far as
\* the cursor.
Even ==
  IsInjective(backends) /\ backends # <<>> =>
    \E s \in 0 .. Len(backends) - 1, k \in 0 .. Len(window) :
      \A p \in 1 .. Len(backends) :
        Times(backends[p]) =
          IF Passed(s, p - 1, cursor % Len(backends)) THEN k + 1 ELSE k

PoolInv == PoolTypeOK /\ InStep /\ Even
=============================================================================
