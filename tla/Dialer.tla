------------------------------- MODULE Dialer -------------------------------
(***************************************************************************)
(* The channel cache of crates/proxy/src/dial.rs.  channel() looks an      *)
(* address up under the lock, and inserts what it opened under the lock    *)
(* taken a second time: calls on other threads come in between.            *)
(***************************************************************************)
EXTENDS Integers, Sequences, Option

CONSTANTS
  Thread,
  DialAddress, \* backend addresses
  Malformed,   \* those that make no URI
  MaxOpened    \* bound: channels opened

ASSUME DialerAssumption ==
  /\ Malformed \subseteq DialAddress /\ MaxOpened \in Nat
  /\ None \notin Nat \cup DialAddress

VARIABLES
  inner,   \* inner[a]: the cached channel of a
  at,      \* at[t]: "idle", "open" (missed the cache), "insert"
  addr,    \* addr[t]: the address t asks for
  mine,    \* mine[t]: the channel t has opened or got
  opened   \* opened[n]: the address the n-th channel connects to, and who opened it

dVars == <<inner, at, addr, mine, opened>>

Channels == 1 .. MaxOpened

DialerTypeOK ==
  /\ inner \in [DialAddress -> Channels \cup {None}]
  /\ at \in [Thread -> {"idle", "open", "insert"}]
  /\ addr \in [Thread -> DialAddress \cup {None}]
  /\ mine \in [Thread -> Channels \cup {None}]
  /\ opened \in Seq(DialAddress \X Thread) /\ Len(opened) <= MaxOpened

DialerInit ==
  /\ inner = [a \in DialAddress |-> None]
  /\ at = [t \in Thread |-> "idle"]
  /\ addr = [t \in Thread |-> None]
  /\ mine = [t \in Thread |-> None]
  /\ opened = <<>>

\* The cached channel is returned at once.
lookup(t, a) ==
  /\ at[t] = "idle"
  /\ addr' = [addr EXCEPT ![t] = a]
  /\ mine' = [mine EXCEPT ![t] = inner[a]]
  /\ at' = [at EXCEPT ![t] = IF inner[a] = None THEN "open" ELSE "idle"]
  /\ UNCHANGED <<inner, opened>>

\* Endpoint::from_shared and connect_lazy: a bad URI is an error.
open(t) ==
  /\ at[t] = "open"
  /\ \/ /\ addr[t] \in Malformed
        /\ at' = [at EXCEPT ![t] = "idle"]
        /\ UNCHANGED <<mine, opened>>
     \/ /\ addr[t] \notin Malformed
        /\ Len(opened) < MaxOpened
        /\ opened' = Append(opened, <<addr[t], t>>)
        /\ mine' = [mine EXCEPT ![t] = Len(opened) + 1]
        /\ at' = [at EXCEPT ![t] = "insert"]
  /\ UNCHANGED <<inner, addr>>

\* Mutant: the channel is stored under the URI, which no lookup asks for.
insert_by_uri(t) ==
  /\ at[t] = "insert"
  /\ at' = [at EXCEPT ![t] = "idle"]
  /\ UNCHANGED <<inner, addr, mine, opened>>

\* The last one to insert wins; everybody keeps what they opened.
insert(t) ==
  /\ at[t] = "insert"
  /\ inner' = [inner EXCEPT ![addr[t]] = mine[t]]
  /\ at' = [at EXCEPT ![t] = "idle"]
  /\ UNCHANGED <<addr, mine, opened>>

----------------------------------------------------------------------------
(* Properties *)

\* "Each unique backend address is opened lazily and reused", as far as the two
\* lock sections of channel() allow it: however calls race, a thread opens at
\* most one channel to an address, so that the channels to it never outnumber
\* the threads, and an entry is never lost to a race.
OpenedOncePerThread ==
  \A m, n \in DOMAIN opened : opened[m] = opened[n] => m = n

----------------------------------------------------------------------------
(* What makes it inductive *)

\* A channel is in the cache unless its opener is about to put it there, and a
\* caller that missed the cache has opened none to the address.
DialerInv ==
  /\ DialerTypeOK
  /\ OpenedOncePerThread
  /\ \A t \in Thread :
       /\ at[t] # "idle" => addr[t] # None
       /\ at[t] = "insert" => mine[t] # None
       /\ at[t] = "open" => \A n \in DOMAIN opened : opened[n] # <<addr[t], t>>
  /\ \A n \in DOMAIN opened, a \in DialAddress, t \in Thread :
       opened[n] = <<a, t>> =>
         inner[a] # None \/ (at[t] = "insert" /\ addr[t] = a)
=============================================================================
