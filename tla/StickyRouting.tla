--------------------------- MODULE StickyRouting ---------------------------
(***************************************************************************)
(* What session affinity promises, without handlers, tasks or races: a     *)
(* call of session k is served in one step, by the backend k is pinned to, *)
(* or by any backend k may use, which k is then pinned to; a pin ends only *)
(* by being released.                                                      *)
(***************************************************************************)
CONSTANTS
  Caller,  \* calls, each served at most once
  Key,     \* sessions
  May,     \* [Key -> set of backends]: where a session may be pinned
  None     \* no pin, not served

VARIABLES
  binding,  \* binding[k]: the backend k is pinned to, or None
  route     \* route[r]: <<session, backend>> once r is served

Init ==
  /\ binding = [k \in Key |-> None]
  /\ route = [r \in Caller |-> None]

Serve(r, k, b) ==
  /\ route[r] = None
  /\ binding[k] \in {None, b}
  /\ binding' = [binding EXCEPT ![k] = b]
  /\ route' = [route EXCEPT ![r] = <<k, b>>]

\* A caller that went away before it was served may still leave its pin.
Pin(k, b) ==
  /\ binding[k] = None
  /\ binding' = [binding EXCEPT ![k] = b]
  /\ UNCHANGED route

Release(k) ==
  /\ binding' = [binding EXCEPT ![k] = None]
  /\ UNCHANGED route

Next ==
  \/ \E r \in Caller, k \in Key : \E b \in May[k] : Serve(r, k, b)
  \/ \E k \in Key : \E b \in May[k] : Pin(k, b)
  \/ \E k \in Key : Release(k)

Spec == Init /\ [][Next]_<<binding, route>>
=============================================================================
