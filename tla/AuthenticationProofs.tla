------------------------ MODULE AuthenticationProofs ------------------------
(***************************************************************************)
(* Theorems about Authentication, for any settings, metadata, documents    *)
(* and number of concurrent requests.                                      *)
(***************************************************************************)
EXTENDS Authentication, FiniteSetTheorems, TLAPS

----------------------------------------------------------------------------
(* What each step may change *)

\* The configuration never changes, and with OIDC the floor is a number.
LEMMA SettingsType ==
  ASSUME AuthTypeOK
  PROVE  /\ auth.type \in {"none", "static", "jwt", "oidc"}
         /\ auth.type = "oidc" => auth.refresh_floor \in Nat
BY SettingsAssumption, Zenon DEF AuthTypeOK

\* A step of r moves r only; out changes only when r is done.
Moves(r, s) ==
  /\ pc' = [pc EXCEPT ![r] = s]
  /\ IF s = "done" THEN \E x : out' = [out EXCEPT ![r] = x] ELSE UNCHANGED out

\* Finish ends the request.
LEMMA FinishMoves ==
  ASSUME NEW r \in Request, NEW x, Finish(r, x)
  PROVE  Moves(r, "done")
BY Zenon DEF Finish, Moves

----------------------------------------------------------------------------
(* Types *)

\* No step breaks the types.
LEMMA StepType ==
  ASSUME AuthTypeOK, [Next]_aVars
  PROVE  AuthTypeOK'
<1>1. ASSUME NEW r \in Request, NEW s \in Stages, Moves(r, s)
      PROVE  pc' \in [Request -> Stages] /\ DOMAIN out' = Request
  BY <1>1, Zenon DEF AuthTypeOK, Moves
<1>2. ASSUME NEW r \in Request, NEW m \in Metadata(auth), Arrive(r, m)
      PROVE  AuthTypeOK'
  BY <1>2, Zenon DEF Arrive, AuthTypeOK, Stages, sysVars
<1>3. ASSUME NEW r \in Request, NEW s \in Stages, Moves(r, s),
             UNCHANGED <<sysVars, md>>,
             cache'.last \in 0 .. clock,
             holder' \in Request \cup {None},
             reply' \in [Request -> Documents \cup {None, Failed}],
             excuse' \subseteq Request
      PROVE  AuthTypeOK'
  BY <1>1, <1>3, Zenon DEF AuthTypeOK, sysVars
<1>4. ASSUME NEW r \in Request, authenticate(r) \/ Oidc_authenticate(r) \/ reread(r)
      PROVE  AuthTypeOK'
  <2>1. \E s \in Stages : Moves(r, s)
    BY <1>4, FinishMoves, Zenon
       DEF authenticate, Oidc_authenticate, reread, Stages, Moves
  <2>2. UNCHANGED <<sysVars, md, cache, holder, reply, excuse>>
    BY <1>4, Zenon DEF authenticate, Oidc_authenticate, reread
  <2> QED BY <1>3, <2>1, <2>2, Zenon DEF AuthTypeOK, sysVars
<1>5. ASSUME NEW r \in Request, key_for(r)
      PROVE  AuthTypeOK'
  <2>1. \E s \in Stages : Moves(r, s)
    BY <1>5, FinishMoves, Zenon DEF key_for, Stages, Moves
  <2>2. /\ UNCHANGED <<sysVars, md, cache, reply>>
        /\ holder' \in {holder, r} /\ excuse' \in {excuse, excuse \cup {r}}
    BY <1>5, Zenon DEF key_for
  <2> QED BY <1>3, <2>1, <2>2, Zenon DEF AuthTypeOK, sysVars
<1>6. ASSUME NEW r \in Request, Answer(r)
      PROVE  AuthTypeOK'
  BY <1>6 DEF Answer, AuthTypeOK, sysVars
<1>7. ASSUME NEW r \in Request, refresh(r)
      PROVE  AuthTypeOK'
  <2>1. \E s \in Stages : Moves(r, s)
    BY <1>7, FinishMoves, Zenon DEF refresh, Stages, Moves
  <2>2. /\ UNCHANGED <<sysVars, md>>
        /\ holder' = None /\ excuse' \in {excuse, excuse \cup {r}}
        /\ reply' = [reply EXCEPT ![r] = None]
    BY <1>7, Zenon DEF refresh
  <2>3. UNCHANGED cache \/ cache' = [kids |-> Keys(reply[r]), last |-> clock]
    BY <1>7, Zenon DEF refresh
  <2>4. cache'.last \in 0 .. clock
    BY <2>3 DEF AuthTypeOK
  <2> QED BY <1>3, <2>1, <2>2, <2>4, Zenon DEF AuthTypeOK
<1>8. ASSUME NEW r \in Request, Cancel(r)
      PROVE  AuthTypeOK'
  BY <1>8, Zenon DEF Cancel, AuthTypeOK, Stages, sysVars
<1>9. ASSUME NEW d \in Documents, Rotate(d)
      PROVE  AuthTypeOK'
  BY <1>9, AuthenticationAssumption DEF Rotate, AuthTypeOK
<1>10. CASE Tick
  BY <1>10, AuthenticationAssumption DEF Tick, AuthTypeOK
<1>11. CASE UNCHANGED aVars
  BY <1>11, Zenon DEF aVars, sysVars, AuthTypeOK
<1> QED
  BY <1>2, <1>4, <1>5, <1>6, <1>7, <1>8, <1>9, <1>10, <1>11, Zenon DEF Next, Step

----------------------------------------------------------------------------
(* The refresh lock *)

\* What Moves says of one request at a time.
LEMMA MovesOne ==
  ASSUME AuthTypeOK, NEW r \in Request, NEW s \in Stages, Moves(r, s)
  PROVE  /\ pc'[r] = s
         /\ s # "done" => UNCHANGED out
         /\ \A q \in Request \ {r} : pc'[q] = pc[q] /\ out'[q] = out[q]
BY Zenon DEF Moves, AuthTypeOK

\* A step of r leaves q's part of LockInv alone, if it replaces the cache only
\* while r holds the lock and takes the lock only when it is free.
LEMMA LockElsewhere ==
  ASSUME LockInv, NEW r \in Request, NEW q \in Request \ {r},
         pc'[q] = pc[q], md'[q] = md[q], reply'[q] = reply[q],
         UNCHANGED <<auth, clock>>,
         UNCHANGED cache \/ holder = r,
         \/ UNCHANGED holder
         \/ holder = None /\ holder' = r
         \/ holder = r /\ holder' = None
  PROVE  LockOK(q)'
<1>1. LockOK(q) /\ q # None
  BY AuthenticationAssumption, Zenon DEF LockInv
<1>2. IsJwt(q)' <=> IsJwt(q)
  BY Zenon DEF IsJwt, Token
<1>3. holder' = q <=> holder = q
  BY <1>1, Zenon
<1>4. holder = r => pc[q] # "fetch"
  BY <1>1, Zenon DEF LockOK
<1> QED BY <1>1, <1>2, <1>3, <1>4, Zenon DEF LockOK

\* The steps that touch neither lock, cache nor answers keep LockInv.
LEMMA QuietLock ==
  ASSUME LockInv, AuthTypeOK', NEW r \in Request,
         authenticate(r) \/ Oidc_authenticate(r) \/ reread(r)
  PROVE  LockInv'
<1>1. PICK s \in {"lock", "done"} :
             Moves(r, s) /\ (s = "lock" => auth.type = "oidc" /\ IsJwt(r))
  BY FinishMoves, Zenon
     DEF authenticate, Oidc_authenticate, reread, Moves, IsJwt
<1>2. UNCHANGED <<sysVars, md, cache, holder, reply>> /\ pc[r] # "fetch"
  BY Zenon DEF authenticate, Oidc_authenticate, reread
<1>3. pc'[r] = s /\ \A q \in Request \ {r} : pc'[q] = pc[q]
  BY <1>1, MovesOne, Zenon DEF LockInv, Stages
<1>4. \A q \in Request \ {r} : LockOK(q)'
  BY <1>2, <1>3, LockElsewhere, Zenon DEF sysVars
<1>5. IsJwt(r)' <=> IsJwt(r)
  BY <1>2, Zenon DEF IsJwt, Token
<1>6. LockOK(r)
  BY Zenon DEF LockInv
<1>7. LockOK(r)'
  BY <1>1, <1>2, <1>3, <1>5, <1>6, Zenon DEF LockOK, sysVars
<1> QED BY <1>4, <1>7, Zenon DEF LockInv

\* Taking the lock keeps LockInv: the fetch begins with an old enough cache.
LEMMA KeyForLock ==
  ASSUME LockInv, AuthTypeOK', NEW r \in Request, key_for(r)
  PROVE  LockInv'
<1>1. /\ UNCHANGED <<sysVars, md, cache, reply>> /\ pc[r] = "lock" /\ holder = None
      /\ \/ Moves(r, "done") /\ UNCHANGED holder
         \/ /\ Moves(r, "fetch") /\ holder' = r
            /\ clock - cache.last >= auth.refresh_floor
  BY FinishMoves, Zenon DEF key_for, Moves
<1>2. /\ \A q \in Request \ {r} : pc'[q] = pc[q]
      /\ \/ pc'[r] = "done" /\ UNCHANGED holder
         \/ /\ pc'[r] = "fetch" /\ holder' = r
            /\ clock - cache.last >= auth.refresh_floor
  BY <1>1, MovesOne, Zenon DEF LockInv, Stages
<1>3. \A q \in Request \ {r} : LockOK(q)'
  BY <1>1, <1>2, LockElsewhere, Zenon DEF sysVars
<1>4. IsJwt(r)' <=> IsJwt(r)
  BY <1>1, Zenon DEF IsJwt, Token
<1>5. LockOK(r) /\ r # None
  BY AuthenticationAssumption, Zenon DEF LockInv
<1>6. LockOK(r)'
  BY <1>1, <1>2, <1>4, <1>5, Zenon DEF LockOK, sysVars
<1> QED BY <1>3, <1>6, Zenon DEF LockInv

\* The provider's answer and the end of a fetch, by refresh or because the
\* client went away, keep LockInv: whatever ends the fetch frees the lock.
LEMMA FetchLock ==
  ASSUME LockInv, AuthTypeOK', NEW r \in Request, Answer(r) \/ refresh(r) \/ Cancel(r)
  PROVE  LockInv'
<1>1. LockOK(r) /\ r # None
  BY AuthenticationAssumption, Zenon DEF LockInv
<1>2. CASE Answer(r)
  <2>1. /\ UNCHANGED <<sysVars, md, cache, holder, pc>> /\ pc[r] = "fetch"
        /\ \A q \in Request \ {r} : reply'[q] = reply[q]
    BY <1>2, Zenon DEF Answer, LockInv, AuthTypeOK
  <2>2. \A q \in Request \ {r} : LockOK(q)'
    BY <2>1, LockElsewhere, Zenon DEF sysVars
  <2>3. IsJwt(r)' <=> IsJwt(r)
    BY <2>1, Zenon DEF IsJwt, Token
  <2>4. LockOK(r)'
    BY <1>1, <2>1, <2>3, Zenon DEF LockOK, sysVars
  <2> QED BY <2>2, <2>4, Zenon DEF LockInv
<1>3. CASE refresh(r) \/ Cancel(r)
  <2>1. PICK s \in {"reread", "done"} : Moves(r, s) /\ (s = "reread" => pc[r] = "fetch")
    BY <1>3, FinishMoves, Zenon DEF refresh, Cancel, Moves
  <2>2. pc'[r] = s /\ \A q \in Request \ {r} : pc'[q] = pc[q]
    BY <2>1, MovesOne, Zenon DEF LockInv, Stages
  <2>3. /\ UNCHANGED <<sysVars, md>>
        /\ reply' = [reply EXCEPT ![r] = None]
        /\ UNCHANGED cache \/ pc[r] = "fetch"
        /\ pc[r] = "fetch" \/ Cancel(r)
    BY <1>3, Zenon DEF refresh, Cancel
  <2>4. holder' = IF holder = r THEN None ELSE holder
    BY <1>1, <1>3, Zenon DEF refresh, Cancel, LockOK
  <2>5. reply'[r] = None /\ \A q \in Request \ {r} : reply'[q] = reply[q]
    BY <2>3, Zenon DEF LockInv, AuthTypeOK
  <2>6. UNCHANGED cache \/ holder = r
    BY <1>1, <2>3, Zenon DEF LockOK
  <2>7. ASSUME NEW q \in Request \ {r} PROVE LockOK(q)'
    BY <2>2, <2>3, <2>4, <2>5, <2>6, LockElsewhere, Zenon DEF sysVars
  <2>8. IsJwt(r)' <=> IsJwt(r)
    BY <2>3, Zenon DEF IsJwt, Token
  <2>9. s = "reread" => auth.type = "oidc" /\ IsJwt(r)
    BY <1>1, <2>1, Zenon DEF LockOK
  <2>10. holder' # r
    BY <1>1, <2>4, Zenon
  <2>11. LockOK(r)'
    BY <2>2, <2>3, <2>5, <2>8, <2>9, <2>10, Zenon DEF LockOK, sysVars
  <2> QED BY <2>7, <2>11, Zenon DEF LockInv
<1> QED BY <1>2, <1>3, Zenon

\* LockInv is inductive.
LEMMA NextLock == LockInv /\ [Next]_aVars => LockInv'
<1> SUFFICES ASSUME LockInv, [Next]_aVars PROVE LockInv' BY Zenon
<1>1. AuthTypeOK'
  BY StepType, Zenon DEF LockInv
<1>2. ASSUME NEW r \in Request, NEW m \in Metadata(auth), Arrive(r, m)
      PROVE  LockInv'
  <2>1. /\ UNCHANGED <<sysVars, cache, holder, reply>>
        /\ pc[r] = "new" /\ pc'[r] = "start"
        /\ \A q \in Request \ {r} : pc'[q] = pc[q] /\ md'[q] = md[q]
    BY <1>2, Zenon DEF Arrive, LockInv, AuthTypeOK
  <2>2. \A q \in Request \ {r} : LockOK(q)'
    BY <2>1, LockElsewhere, Zenon DEF sysVars
  <2>3. LockOK(r)
    BY Zenon DEF LockInv
  <2>4. LockOK(r)'
    BY <2>1, <2>3, Zenon DEF LockOK
  <2> QED BY <1>1, <2>2, <2>4, Zenon DEF LockInv
<1>3. ASSUME NEW r \in Request, Step(r) \/ Cancel(r)
      PROVE  LockInv'
  BY <1>1, <1>3, QuietLock, KeyForLock, FetchLock, Zenon DEF Step
<1>4. CASE (\E d \in Documents : Rotate(d)) \/ UNCHANGED aVars
  <2>1. UNCHANGED <<auth, clock, cache, holder, pc, md, reply>>
    BY <1>4, Zenon DEF Rotate, aVars, sysVars
  <2> QED BY <1>1, <2>1, Zenon DEF LockInv, LockOK, IsJwt, Token
<1>5. CASE Tick
  <2>1. UNCHANGED <<auth, cache, holder, pc, md, reply>> /\ clock' = clock + 1
    BY <1>5, Zenon DEF Tick
  <2>2. clock \in Int /\ cache.last \in Int
    BY DEF LockInv, AuthTypeOK
  <2>3. ASSUME NEW r \in Request PROVE LockOK(r)'
    <3>1. LockOK(r)
      BY Zenon DEF LockInv
    <3>2. IsJwt(r)' <=> IsJwt(r)
      BY <2>1, Zenon DEF IsJwt, Token
    <3>3. pc[r] = "fetch" => auth.refresh_floor \in Nat
      BY <3>1, SettingsType, Zenon DEF LockInv, LockOK
    <3> QED BY <2>1, <2>2, <3>1, <3>2, <3>3 DEF LockOK
  <2> QED BY <1>1, <2>3, Zenon DEF LockInv
<1> QED BY <1>2, <1>3, <1>4, <1>5, Zenon DEF Next

\* It holds initially.
LEMMA InitLock == Init => LockInv
<1> SUFFICES ASSUME Init PROVE LockInv BY Zenon
<1>1. AuthTypeOK
  BY AuthenticationAssumption DEF Init, AuthTypeOK, Stages
<1>2. ASSUME NEW r \in Request PROVE LockOK(r)
  BY AuthenticationAssumption, Zenon DEF Init, LockOK
<1> QED BY <1>1, <1>2, Zenon DEF LockInv

\* Every reachable state satisfies LockInv.
THEOREM LockInvariance == Spec => []LockInv
BY InitLock, NextLock, PTL DEF Spec

\* Refreshes are single-flight, and refresh_lock is held exactly while its
\* holder waits for the provider: no failure, success or departure leaks it.
THEOREM SingleFlight == Spec => []RefreshSingleFlight
<1>1. ASSUME LockInv PROVE RefreshSingleFlight
  <2>1. \A r \in Request : holder = r <=> pc[r] = "fetch"
    BY <1>1, Zenon DEF LockInv, LockOK
  <2> DEFINE F == {r \in Request : pc[r] = "fetch"}
  <2>2. F \subseteq {holder}
    BY <2>1, Zenon
  <2>3. IsFiniteSet({holder}) /\ Cardinality({holder}) = 1
    BY FS_Singleton, Zenon
  <2>4. Cardinality(F) <= Cardinality({holder})
    BY <2>2, <2>3, FS_Subset, Zenon
  <2> QED BY <2>1, <2>3, <2>4, Zenon DEF RefreshSingleFlight
<1> QED BY <1>1, LockInvariance, PTL

\* The cached keys are never replaced within refresh_floor of their last
\* replacement, however many requests miss the same key at once.
THEOREM FloorHeld == Spec => RefreshFloorHeld
<1>1. ASSUME LockInv, [Next]_aVars, cache' # cache
      PROVE  clock - cache.last >= auth.refresh_floor
  <2>1. PICK r \in Request : refresh(r)
    BY <1>1, Zenon DEF Next, Step, Arrive, authenticate, Oidc_authenticate, key_for,
                       Answer, reread, Cancel, Rotate, Tick, aVars
  <2> QED BY <1>1, <2>1, Zenon DEF refresh, LockInv, LockOK
<1> QED BY <1>1, LockInvariance, PTL DEF Spec, RefreshFloorHeld

----------------------------------------------------------------------------
(* Rotated keys *)

\* Of the failures, only a key that is not in the cache is an unknown_kid.
LEMMA OtherReason ==
  ASSUME AuthTypeOK, NEW r \in Request, NEW msg, Finish(r, Fail(msg)),
         msg \in {"missing_or_malformed_Bearer_header", "invalid_JWT_header",
                  "JWT_missing_kid", "JWT_missing_required_claim", "invalid_JWT"}
  PROVE  out'[r] # Denied("unknown_kid")
<1>1. out'[r] = Denied(auth_failure_reason(msg))
  BY Zenon DEF Finish, Fail, AuthTypeOK
<1>2. auth_failure_reason(msg) # "unknown_kid"
  BY Zenon DEF auth_failure_reason
<1> QED BY <1>1, <1>2 DEF Denied

\* A sound token whose key is in the cache is never an unknown_kid.
LEMMA SoundReason ==
  ASSUME AuthTypeOK, NEW r \in Request, NEW t, Finish(r, decode(auth, t)),
         t.form = "jwt", t.sound = "yes"
  PROVE  out'[r] # Denied("unknown_kid")
<1>1. decode(auth, t) = identity(auth, t)
  BY Zenon DEF decode
<1>2. CASE claim(t, auth.user_id_claim) = None
  BY <1>1, <1>2, OtherReason, Zenon DEF identity
<1>3. CASE claim(t, auth.user_id_claim) # None
  <2>1. identity(auth, t).ok
    BY <1>3, Zenon DEF identity, Ok
  <2>2. \/ /\ out'[r] = resolve(resolver, md[r], identity(auth, t))
           /\ resolve(resolver, md[r], identity(auth, t)).ok
        \/ out'[r] = Denied("missing_tenant")
    BY <1>1, <2>1, Zenon DEF Finish, AuthTypeOK
  <2> QED BY <2>2 DEF Denied
<1> QED BY <1>2, <1>3, Zenon

\* What a step may do to the parts KeyOK looks at: the cache takes an answer that
\* parses, and a request gets the document published now, a failure or nothing.
KeyStep ==
  /\ \/ UNCHANGED cache
     \/ \E p \in Request : /\ reply[p] # None /\ Parses(reply[p])
                           /\ cache'.kids = Keys(reply[p])
  /\ \A p \in Request : reply'[p] \in {reply[p], document, Failed, None}
  /\ excuse \subseteq excuse'

\* A request that such a step leaves where it is keeps its part of KeyInv.
LEMMA KeyElsewhere ==
  ASSUME LockInv, NEW r \in Request, KeyOK(r), KeyStep,
         pc'[r] = pc[r], md'[r] = md[r], UNCHANGED document
  PROVE  KeyOK(r)'
<1>1. kid(r)' = kid(r) /\ (IsJwt(r)' <=> IsJwt(r))
  BY Zenon DEF IsJwt, kid, Token
<1>2. Published(kid(r))' <=> Published(kid(r))
  BY <1>1, Zenon DEF Published
<1>3. pc[r] \in {"fetch", "reread"} => IsJwt(r)
  BY Zenon DEF LockInv, LockOK
<1>4. pc[r] = "reread" /\ r \notin excuse' => kid(r) \in cache'.kids
  BY Zenon DEF KeyStep, KeyOK
<1>5. ASSUME NEW q \in Request, reply'[q] # None, Parses(reply'[q]),
             pc[r] \in {"fetch", "reread"}, r \notin excuse'
      PROVE  kid(r) \in Keys(reply'[q])
  <2>1. r \notin excuse /\ reply'[q] # Failed
    BY <1>5, Zenon DEF KeyStep, Parses
  <2>2. CASE reply'[q] = reply[q]
    BY <1>5, <2>1, <2>2, Zenon DEF KeyOK
  <2>3. CASE reply'[q] = document
    <3>1. pc[r] \in Stages \ {"new", "done"}
      BY <1>5, Zenon DEF Stages
    <3>2. Published(kid(r))
      BY <1>3, <1>5, <2>1, <3>1, Zenon DEF KeyOK
    <3> QED BY <2>3, <3>2, Zenon DEF Published
  <2> QED BY <1>5, <2>1, <2>2, <2>3, Zenon DEF KeyStep
<1> QED BY <1>1, <1>2, <1>4, <1>5, Zenon DEF KeyOK, KeyStep

\* A request that reaches "start", "lock" or the end keeps its part: it has no
\* answer to look at yet, or none any more.
LEMMA KeyMoved ==
  ASSUME LockInv, NEW r \in Request, KeyOK(r), pc[r] # "new",
         pc'[r] \in {"lock", "done"}, pc'[r] = "lock" => pc[r] = "start",
         md'[r] = md[r], UNCHANGED document, excuse \subseteq excuse'
  PROVE  KeyOK(r)'
<1>1. kid(r)' = kid(r) /\ (IsJwt(r)' <=> IsJwt(r))
  BY Zenon DEF IsJwt, kid, Token
<1>2. Published(kid(r))' <=> Published(kid(r))
  BY <1>1, Zenon DEF Published
<1> QED BY <1>1, <1>2, Zenon DEF KeyOK, Stages

\* RotatedKeyAccepted, one request at a time.
RotatedOK(r) ==
  /\ pc[r] = "done" /\ auth.type = "oidc"
  /\ Token(r) # None /\ Token(r).form = "jwt" /\ Token(r).sound = "yes"
  /\ r \notin excuse
  => out[r] # Denied("unknown_kid")

\* It stays true of a request the step does not move.
LEMMA RotatedElsewhere ==
  ASSUME NEW r \in Request, RotatedOK(r), UNCHANGED auth, excuse \subseteq excuse',
         pc'[r] = pc[r], md'[r] = md[r], out'[r] = out[r]
  PROVE  RotatedOK(r)'
<1>1. Token(r)' = Token(r)
  BY Zenon DEF Token
<1> QED BY <1>1, Zenon DEF RotatedOK

\* So a step that moves r has to be looked at for r only.
LEMMA KeyMoves ==
  ASSUME LockInv, KeyInv, NEW r \in Request, NEW s \in Stages, Moves(r, s),
         UNCHANGED <<sysVars, md>>, KeyStep, KeyOK(r)', RotatedOK(r)'
  PROVE  KeyInv'
<1>1. ASSUME NEW q \in Request \ {r} PROVE KeyOK(q)' /\ RotatedOK(q)'
  <2>1. pc'[q] = pc[q] /\ out'[q] = out[q]
    BY MovesOne, Zenon DEF LockInv
  <2>2. KeyOK(q) /\ RotatedOK(q)
    BY Zenon DEF KeyInv, RotatedKeyAccepted, RotatedOK
  <2>3. KeyOK(q)'
    BY <2>1, <2>2, KeyElsewhere, Zenon DEF sysVars
  <2> QED BY <2>1, <2>2, <2>3, RotatedElsewhere, Zenon DEF KeyStep, sysVars
<1>2. \A q \in Request : KeyOK(q)' /\ RotatedOK(q)'
  BY <1>1, Zenon
<1> QED BY <1>2, Zenon DEF KeyInv, RotatedKeyAccepted, RotatedOK

\* A request that ends without a look at the provider keeps KeyInv, unless it
\* is turned down as unknown_kid without an excuse.
LEMMA KeyDone ==
  ASSUME LockInv, KeyInv, NEW r \in Request, pc[r] # "new", Moves(r, "done"), KeyStep,
         UNCHANGED <<sysVars, md>>,
         \/ auth.type # "oidc" \/ r \in excuse'
         \/ ~(IsJwt(r) /\ Token(r).sound = "yes")
         \/ out'[r] # Denied("unknown_kid")
  PROVE  KeyInv'
<1>1. pc'[r] = "done"
  BY MovesOne, Zenon DEF LockInv, Stages
<1>2. KeyOK(r)
  BY Zenon DEF KeyInv
<1>3. KeyOK(r)'
  BY <1>1, <1>2, KeyMoved, Zenon DEF KeyStep, sysVars
<1>4. Token(r)' = Token(r)
  BY Zenon DEF Token
<1>5. RotatedOK(r)'
  BY <1>4, Zenon DEF RotatedOK, IsJwt, sysVars
<1> QED BY <1>3, <1>5, KeyMoves, Zenon DEF Stages

\* The steps before the lock and after the refresh keep KeyInv.
LEMMA QuietKey ==
  ASSUME LockInv, KeyInv, NEW r \in Request,
         authenticate(r) \/ Oidc_authenticate(r) \/ reread(r)
  PROVE  KeyInv'
<1>1. UNCHANGED <<sysVars, md, cache, holder, reply, excuse>> /\ pc[r] # "new"
  BY Zenon DEF authenticate, Oidc_authenticate, reread
<1>2. KeyStep
  BY <1>1, Zenon DEF KeyStep
<1>3. AuthTypeOK
  BY Zenon DEF LockInv
<1>4. CASE authenticate(r)
  <2>1. Moves(r, "done") /\ auth.type # "oidc"
    BY <1>4, FinishMoves, Zenon DEF authenticate
  <2> QED BY <1>1, <1>2, <2>1, KeyDone, Zenon
<1>5. CASE Oidc_authenticate(r)
  <2>1. ASSUME NEW msg \in {"missing_or_malformed_Bearer_header", "invalid_JWT_header",
                            "JWT_missing_kid"}, Finish(r, Fail(msg))
        PROVE  KeyInv'
    <3>1. Moves(r, "done") /\ out'[r] # Denied("unknown_kid")
      BY <1>3, <2>1, FinishMoves, OtherReason, Zenon
    <3> QED BY <1>1, <1>2, <3>1, KeyDone, Zenon
  <2>2. ASSUME IsJwt(r), Finish(r, decode(auth, Token(r)))
        PROVE  KeyInv'
    <3>1. Moves(r, "done")
      BY <2>2, FinishMoves, Zenon
    <3>2. Token(r).sound = "yes" => out'[r] # Denied("unknown_kid")
      BY <1>3, <2>2, SoundReason, Zenon DEF IsJwt
    <3> QED BY <1>1, <1>2, <3>1, <3>2, KeyDone, Zenon
  <2>3. ASSUME pc' = [pc EXCEPT ![r] = "lock"], UNCHANGED out
        PROVE  KeyInv'
    <3>1. Moves(r, "lock") /\ pc[r] = "start"
      BY <1>5, <2>3, Zenon DEF Moves, Oidc_authenticate
    <3>2. pc'[r] = "lock"
      BY <1>3, <3>1, MovesOne, Zenon DEF Stages
    <3>3. KeyOK(r)
      BY Zenon DEF KeyInv
    <3>4. KeyOK(r)'
      BY <1>1, <3>1, <3>2, <3>3, KeyMoved, Zenon DEF sysVars
    <3>5. RotatedOK(r)'
      BY <3>2, Zenon DEF RotatedOK
    <3> QED BY <1>1, <1>2, <3>1, <3>4, <3>5, KeyMoves, Zenon DEF Stages
  <2> QED BY <1>5, <2>1, <2>2, <2>3, Zenon DEF Oidc_authenticate, IsJwt
<1>6. CASE reread(r)
  <2>1. pc[r] = "reread" /\ IsJwt(r)
    BY <1>6, Zenon DEF reread, LockInv, LockOK
  <2>2. CASE r \in excuse
    <3>1. Moves(r, "done")
      BY <1>6, FinishMoves, Zenon DEF reread
    <3> QED BY <1>1, <1>2, <2>2, <3>1, KeyDone, Zenon
  <2>3. CASE r \notin excuse
    <3>1. kid(r) \in cache.kids
      BY <2>1, <2>3, Zenon DEF KeyInv, KeyOK
    <3>2. Finish(r, decode(auth, Token(r)))
      BY <1>6, <3>1, Zenon DEF reread
    <3>3. Moves(r, "done")
      BY <3>2, FinishMoves, Zenon
    <3>4. Token(r).sound = "yes" => out'[r] # Denied("unknown_kid")
      BY <1>3, <2>1, <3>2, SoundReason, Zenon DEF IsJwt
    <3> QED BY <1>1, <1>2, <3>3, <3>4, KeyDone, Zenon
  <2> QED BY <2>2, <2>3, Zenon
<1> QED BY <1>4, <1>5, <1>6, Zenon

\* While the lock is free there is no answer under way; while r holds it there
\* is none but r's.
LEMMA OneAnswer ==
  ASSUME LockInv, NEW q \in Request, reply[q] # None
  PROVE  holder = q /\ pc[q] = "fetch"
BY Zenon DEF LockInv, LockOK

\* The second look, the floor and the start of a fetch keep KeyInv.
LEMMA KeyForKey ==
  ASSUME LockInv, KeyInv, NEW r \in Request, key_for(r)
  PROVE  KeyInv'
<1>1. /\ UNCHANGED <<sysVars, md, cache, reply>> /\ excuse \subseteq excuse'
      /\ pc[r] = "lock" /\ holder = None
  BY Zenon DEF key_for
<1>2. KeyStep
  BY <1>1, Zenon DEF KeyStep
<1>3. AuthTypeOK /\ IsJwt(r) /\ KeyOK(r)
  BY <1>1, Zenon DEF LockInv, LockOK, KeyInv
<1>4. ASSUME Finish(r, decode(auth, Token(r)))
      PROVE  KeyInv'
  <2>1. Moves(r, "done")
    BY <1>4, FinishMoves, Zenon
  <2>2. Token(r).sound = "yes" => out'[r] # Denied("unknown_kid")
    BY <1>3, <1>4, SoundReason, Zenon DEF IsJwt
  <2> QED BY <1>1, <1>2, <2>1, <2>2, KeyDone, Zenon
<1>5. ASSUME Finish(r, Fail("JWT_kid_not_in_JWKS")), r \in excuse'
      PROVE  KeyInv'
  <2>1. Moves(r, "done")
    BY <1>5, FinishMoves, Zenon
  <2> QED BY <1>1, <1>2, <1>5, <2>1, KeyDone, Zenon
<1>6. ASSUME pc' = [pc EXCEPT ![r] = "fetch"], UNCHANGED <<out, excuse>>
      PROVE  KeyInv'
  <2>1. Moves(r, "fetch")
    BY <1>6, Zenon DEF Moves
  <2>2. pc'[r] = "fetch"
    BY <1>3, <2>1, MovesOne, Zenon DEF Stages
  <2>3. kid(r)' = kid(r) /\ (IsJwt(r)' <=> IsJwt(r))
    BY <1>1, Zenon DEF IsJwt, kid, Token
  <2>4. r \notin excuse => Published(kid(r))
    BY <1>1, <1>3, Zenon DEF KeyOK, Stages
  <2>5. Published(kid(r))' <=> Published(kid(r))
    BY <1>1, <2>3, Zenon DEF Published, sysVars
  <2>6. \A q \in Request : reply'[q] = None
    BY <1>1, OneAnswer, AuthenticationAssumption, Zenon
  <2>7. KeyOK(r)'
    BY <1>6, <2>2, <2>3, <2>4, <2>5, <2>6, Zenon DEF KeyOK
  <2>8. RotatedOK(r)'
    BY <2>2, Zenon DEF RotatedOK
  <2> QED BY <1>1, <1>2, <2>1, <2>7, <2>8, KeyMoves, Zenon DEF Stages
<1> QED BY <1>4, <1>5, <1>6, Zenon DEF key_for

\* A step that moves no request keeps KeyInv.
LEMMA StillKey ==
  ASSUME LockInv, KeyInv, KeyStep, UNCHANGED <<auth, document, pc, md, out>>
  PROVE  KeyInv'
<1>1. ASSUME NEW q \in Request PROVE KeyOK(q)' /\ RotatedOK(q)'
  <2>1. KeyOK(q) /\ RotatedOK(q)
    BY Zenon DEF KeyInv, RotatedKeyAccepted, RotatedOK
  <2>2. KeyOK(q)'
    BY <2>1, KeyElsewhere, Zenon
  <2> QED BY <2>1, <2>2, RotatedElsewhere, Zenon DEF KeyStep
<1> QED BY <1>1, Zenon DEF KeyInv, RotatedKeyAccepted, RotatedOK

\* The provider's answer, the refresh and a departure keep KeyInv: an answer has
\* the key of every waiting request without an excuse.
LEMMA FetchKey ==
  ASSUME LockInv, KeyInv, NEW r \in Request, Answer(r) \/ refresh(r) \/ Cancel(r)
  PROVE  KeyInv'
<1>1. AuthTypeOK /\ KeyOK(r) /\ LockOK(r)
  BY Zenon DEF LockInv, KeyInv
<1>2. CASE Answer(r)
  <2>1. \A p \in Request : reply'[p] \in {reply[p], document, Failed, None}
    BY <1>1, <1>2, Zenon DEF Answer, AuthTypeOK
  <2>2. UNCHANGED <<sysVars, cache, pc, md, out, excuse>>
    BY <1>2, Zenon DEF Answer
  <2>3. KeyStep
    BY <2>1, <2>2, Zenon DEF KeyStep
  <2> QED BY <2>2, <2>3, StillKey, Zenon DEF sysVars
<1>3. ASSUME Moves(r, "done"), UNCHANGED <<sysVars, md, cache>>, excuse \subseteq excuse',
             reply' = [reply EXCEPT ![r] = None],
             r \in excuse' \/ out'[r] # Denied("unknown_kid"),
             pc[r] # "new"
      PROVE  KeyInv'
  <2>1. \A p \in Request : reply'[p] \in {reply[p], None}
    BY <1>1, <1>3, Zenon DEF AuthTypeOK
  <2>2. KeyStep
    BY <1>3, <2>1, Zenon DEF KeyStep
  <2> QED BY <1>3, <2>2, KeyDone, Zenon
<1>4. CASE Cancel(r)
  <2>1. /\ Moves(r, "done") /\ UNCHANGED <<sysVars, md, cache, excuse>> /\ pc[r] # "new"
        /\ reply' = [reply EXCEPT ![r] = None]
    BY <1>4, Zenon DEF Cancel, Moves
  <2>2. out'[r] = Denied("cancelled")
    BY <1>1, <1>4, Zenon DEF Cancel, AuthTypeOK
  <2>3. out'[r] # Denied("unknown_kid")
    BY <2>2 DEF Denied
  <2> QED BY <1>3, <2>1, <2>3, Zenon
<1>5. CASE refresh(r) /\ ~Parses(reply[r])
  <2>1. /\ Moves(r, "done") /\ UNCHANGED <<sysVars, md, cache>> /\ excuse' = excuse \cup {r}
        /\ reply' = [reply EXCEPT ![r] = None] /\ pc[r] # "new"
    BY <1>5, FinishMoves, Zenon DEF refresh
  <2> QED BY <1>3, <2>1, Zenon
<1>6. CASE refresh(r) /\ Parses(reply[r])
  <2>1. /\ pc[r] = "fetch" /\ reply[r] # None /\ UNCHANGED <<sysVars, md, out, excuse>>
        /\ cache' = [kids |-> Keys(reply[r]), last |-> clock]
        /\ pc' = [pc EXCEPT ![r] = "reread"]
        /\ reply' = [reply EXCEPT ![r] = None]
    BY <1>6, Zenon DEF refresh
  <2>2. Moves(r, "reread")
    BY <2>1, Zenon DEF Moves
  <2>3. pc'[r] = "reread" /\ cache'.kids = Keys(reply[r])
    BY <1>1, <2>1, Zenon DEF AuthTypeOK
  <2>4. \A q \in Request : reply'[q] = None
    BY <1>1, <2>1, OneAnswer, Zenon DEF AuthTypeOK
  <2>5. KeyStep
    BY <1>6, <2>1, <2>3, <2>4, Zenon DEF KeyStep
  <2>6. kid(r)' = kid(r) /\ (IsJwt(r)' <=> IsJwt(r))
    BY <2>1, Zenon DEF IsJwt, kid, Token
  <2>7. Published(kid(r))' <=> Published(kid(r))
    BY <2>1, <2>6, Zenon DEF Published, sysVars
  <2>8. r \notin excuse => kid(r) \in Keys(reply[r])
    BY <1>1, <1>6, <2>1, Zenon DEF KeyOK
  <2>9. r \notin excuse /\ IsJwt(r) => Published(kid(r))
    BY <1>1, <2>1, Zenon DEF KeyOK, Stages
  <2>10. KeyOK(r)'
    BY <2>1, <2>3, <2>4, <2>6, <2>7, <2>8, <2>9 DEF KeyOK
  <2>11. RotatedOK(r)'
    BY <2>3, Zenon DEF RotatedOK
  <2> QED BY <2>1, <2>2, <2>5, <2>10, <2>11, KeyMoves, Zenon DEF Stages
<1> QED BY <1>2, <1>4, <1>5, <1>6, Zenon

\* A new request is excused at once if its key is not published.
LEMMA ArriveKey ==
  ASSUME LockInv, KeyInv, NEW r \in Request, NEW m \in Metadata(auth), Arrive(r, m)
  PROVE  KeyInv'
<1>1. /\ UNCHANGED <<sysVars, cache, reply, out>> /\ excuse \subseteq excuse'
      /\ pc'[r] = "start" /\ md'[r] = m
      /\ \A q \in Request \ {r} : pc'[q] = pc[q] /\ md'[q] = md[q]
  BY Zenon DEF Arrive, LockInv, AuthTypeOK
<1>2. KeyStep
  BY <1>1, Zenon DEF KeyStep
<1>3. ASSUME NEW q \in Request \ {r} PROVE KeyOK(q)' /\ RotatedOK(q)'
  <2>1. KeyOK(q) /\ RotatedOK(q)
    BY Zenon DEF KeyInv, RotatedKeyAccepted, RotatedOK
  <2>2. KeyOK(q)'
    BY <1>1, <1>2, <2>1, KeyElsewhere, Zenon DEF sysVars
  <2> QED BY <1>1, <2>1, <2>2, RotatedElsewhere, Zenon DEF sysVars
<1>4. RotatedOK(r)'
  BY <1>1, Zenon DEF RotatedOK
<1>5. Token(r)' = bearer_token(m) /\ kid(r)' = bearer_token(m).kid
  BY <1>1, Zenon DEF Token, kid
<1>6. IsJwt(r)' /\ r \notin excuse' => Published(kid(r)')
  <2>1. r \notin excuse' => ~NotPublished(m)
    BY Zenon DEF Arrive
  <2> QED BY <1>5, <2>1, Zenon DEF NotPublished, IsJwt
<1>7. Published(kid(r))' <=> Published(kid(r)')
  BY <1>1, Zenon DEF Published, sysVars
<1>8. KeyOK(r)'
  BY <1>1, <1>6, <1>7, Zenon DEF KeyOK
<1> QED BY <1>3, <1>4, <1>8, Zenon DEF KeyInv, RotatedKeyAccepted, RotatedOK

\* A rotation excuses every running request whose key it withdraws.
LEMMA RotateKey ==
  ASSUME LockInv, KeyInv, NEW d \in Documents, Rotate(d)
  PROVE  KeyInv'
<1>1. /\ UNCHANGED <<auth, cache, pc, md, reply, out>> /\ document' = d
      /\ excuse \subseteq excuse'
  BY Zenon DEF Rotate
<1>2. ASSUME NEW r \in Request PROVE KeyOK(r)' /\ RotatedOK(r)'
  <2>1. KeyOK(r) /\ RotatedOK(r)
    BY Zenon DEF KeyInv, RotatedKeyAccepted, RotatedOK
  <2>2. kid(r)' = kid(r) /\ (IsJwt(r)' <=> IsJwt(r))
    BY <1>1, Zenon DEF IsJwt, kid, Token
  <2>3. /\ pc[r] \in Stages \ {"new", "done"} /\ IsJwt(r) /\ r \notin excuse'
        => Parses(d) /\ kid(r) \in Keys(d)
    BY Zenon DEF Rotate, IsJwt
  <2>4. Published(kid(r))' <=> Parses(d) /\ kid(r) \in Keys(d)
    BY <1>1, <2>2, Zenon DEF Published
  <2>5. KeyOK(r)'
    BY <1>1, <2>1, <2>2, <2>3, <2>4, Zenon DEF KeyOK
  <2> QED BY <1>1, <2>1, <2>5, RotatedElsewhere, Zenon
<1> QED BY <1>2, Zenon DEF KeyInv, RotatedKeyAccepted, RotatedOK

\* KeyInv is inductive relative to LockInv.
LEMMA NextKey == LockInv /\ KeyInv /\ [Next]_aVars => KeyInv'
<1> SUFFICES ASSUME LockInv, KeyInv, [Next]_aVars PROVE KeyInv' BY Zenon
<1>1. ASSUME NEW r \in Request, Step(r) \/ Cancel(r)
      PROVE  KeyInv'
  BY <1>1, QuietKey, KeyForKey, FetchKey, Zenon DEF Step
<1>2. CASE Tick \/ UNCHANGED aVars
  <2>1. UNCHANGED <<auth, document, cache, pc, md, reply, out, excuse>>
    BY <1>2, Zenon DEF Tick, aVars, sysVars
  <2>2. KeyStep
    BY <2>1, Zenon DEF KeyStep
  <2> QED BY <2>1, <2>2, StillKey, Zenon
<1> QED BY <1>1, <1>2, ArriveKey, RotateKey, Zenon DEF Next

\* It holds initially.
LEMMA InitKey == Init => KeyInv
BY Zenon DEF Init, KeyInv, KeyOK, RotatedKeyAccepted

\* A sound token whose key was published all the time its request ran is turned
\* down as unknown_kid only because of the floor or a failed refresh: between
\* its own refresh and its second look no other refresh can take the key away.
THEOREM RotatedKeys == Spec => []RotatedKeyAccepted
<1>1. KeyInv => RotatedKeyAccepted
  BY Zenon DEF KeyInv
<1> QED BY <1>1, InitKey, NextKey, LockInvariance, PTL DEF Spec

----------------------------------------------------------------------------
(* Callers *)

\* A request that ends with the authenticator's result, or with a failure, keeps
\* its part of CallerInv.
LEMMA CallerFinish ==
  ASSUME AuthTypeOK, NEW r \in Request, NEW x, Finish(r, x),
         x = Authenticated(md[r]) \/ x.ok = FALSE,
         UNCHANGED <<auth, resolver, md>>
  PROVE  CallerOK(r)'
<1>1. \/ out'[r] = Denied(auth_failure_reason(x.msg))
      \/ x.ok # FALSE /\ out'[r] = resolve(resolver, md[r], x)
      \/ out'[r] = Denied("missing_tenant")
  BY Zenon DEF Finish, AuthTypeOK
<1>2. \A why : Denied(why).ok = FALSE
  BY Zenon DEF Denied
<1>3. Authenticated(md[r])' = Authenticated(md[r])
  BY Zenon DEF Authenticated
<1>4. CASE out'[r].ok = FALSE
  BY <1>4, Zenon DEF CallerOK, Accepted
<1>5. CASE x.ok # FALSE /\ out'[r] = resolve(resolver, md[r], x)
  <2>1. x = Authenticated(md[r])
    BY <1>5, Zenon
  <2> QED BY <1>3, <1>5, <2>1, Zenon DEF CallerOK
<1> QED BY <1>1, <1>2, <1>4, <1>5, Zenon

\* With OIDC the authenticator's result is what decode makes of the token.
LEMMA OidcResult ==
  ASSUME auth.type = "oidc", NEW r \in Request
  PROVE  decode(auth, Token(r)) = Authenticated(md[r])
BY Zenon DEF Authenticated, Token

\* A request that does not move keeps its part of CallerInv.
LEMMA CallerElsewhere ==
  ASSUME NEW r \in Request, CallerOK(r), UNCHANGED <<auth, resolver>>,
         pc'[r] = "done" => pc[r] = "done" /\ md'[r] = md[r] /\ out'[r] = out[r]
  PROVE  CallerOK(r)'
<1>1. CASE pc'[r] = "done"
  <2>1. Authenticated(md[r])' = Authenticated(md[r])
    BY <1>1, Zenon DEF Authenticated
  <2> QED BY <1>1, <2>1, Zenon DEF CallerOK, Accepted
<1>2. CASE pc'[r] # "done"
  BY <1>2, Zenon DEF CallerOK, Accepted
<1> QED BY <1>1, <1>2, Zenon

\* CallerInv is inductive relative to LockInv.
LEMMA NextCaller == LockInv /\ CallerInv /\ [Next]_aVars => CallerInv'
<1> SUFFICES ASSUME LockInv, CallerInv, [Next]_aVars PROVE CallerInv' BY Zenon
<1>1. AuthTypeOK
  BY Zenon DEF LockInv
<1>2. ASSUME NEW r \in Request, NEW s \in Stages, Moves(r, s), UNCHANGED <<sysVars, md>>,
             s = "done" => CallerOK(r)'
      PROVE  CallerInv'
  <2>1. ASSUME NEW q \in Request PROVE CallerOK(q)'
    <3>1. pc'[r] = s /\ (q # r => pc'[q] = pc[q] /\ out'[q] = out[q])
      BY <1>1, <1>2, MovesOne, Zenon
    <3>2. CallerOK(q)
      BY Zenon DEF CallerInv
    <3>3. CASE q = r /\ s = "done"
      BY <1>2, <3>3, Zenon
    <3>4. CASE q # r \/ s # "done"
      BY <1>2, <3>1, <3>2, <3>4, CallerElsewhere, Zenon DEF sysVars
    <3> QED BY <3>3, <3>4, Zenon
  <2> QED BY <2>1, Zenon DEF CallerInv
<1>3. ASSUME NEW r \in Request, NEW x, Finish(r, x), UNCHANGED <<sysVars, md>>,
             x = Authenticated(md[r]) \/ x.ok = FALSE
      PROVE  CallerInv'
  <2>1. CallerOK(r)'
    BY <1>1, <1>3, CallerFinish, Zenon DEF sysVars
  <2>2. Moves(r, "done")
    BY <1>3, FinishMoves, Zenon
  <2> QED BY <1>2, <1>3, <2>1, <2>2, Zenon DEF Stages
<1>4. \A msg : Fail(msg).ok = FALSE
  BY Zenon DEF Fail
<1>5. ASSUME NEW r \in Request, authenticate(r)
      PROVE  CallerInv'
  <2>1. /\ UNCHANGED <<sysVars, md>>
        /\ Finish(r, CASE auth.type = "none" -> Anonymous_authenticate
                       [] auth.type = "static" -> StaticToken_authenticate(auth, md[r])
                       [] auth.type = "jwt" -> Jwt_authenticate(auth, md[r]))
        /\ auth.type # "oidc"
    BY <1>5, Zenon DEF authenticate
  <2>2. auth.type \in {"none", "static", "jwt"}
    BY <1>1, <2>1, SettingsType, Zenon
  <2>3. (CASE auth.type = "none" -> Anonymous_authenticate
           [] auth.type = "static" -> StaticToken_authenticate(auth, md[r])
           [] auth.type = "jwt" -> Jwt_authenticate(auth, md[r])) = Authenticated(md[r])
    BY <2>2, Zenon DEF Authenticated
  <2> QED BY <1>3, <2>1, <2>3, Zenon
<1>6. ASSUME NEW r \in Request,
             Oidc_authenticate(r) \/ reread(r) \/ key_for(r) \/ refresh(r)
      PROVE  CallerInv'
  <2>1. UNCHANGED <<sysVars, md>> /\ auth.type = "oidc"
    BY <1>6, Zenon DEF Oidc_authenticate, reread, key_for, refresh, LockInv, LockOK
  <2>2. \/ \E s \in {"lock", "fetch", "reread"} : Moves(r, s)
        \/ Finish(r, decode(auth, Token(r)))
        \/ \E msg : Finish(r, Fail(msg))
    BY <1>6, Zenon DEF Oidc_authenticate, reread, key_for, refresh, Moves
  <2>3. CASE \E s \in {"lock", "fetch", "reread"} : Moves(r, s)
    BY <1>2, <2>1, <2>3, Zenon DEF Stages
  <2>4. CASE Finish(r, decode(auth, Token(r)))
    BY <1>3, <2>1, <2>4, OidcResult, Zenon
  <2>5. CASE \E msg : Finish(r, Fail(msg))
    BY <1>3, <1>4, <2>1, <2>5, Zenon
  <2> QED BY <2>2, <2>3, <2>4, <2>5, Zenon
<1>7. ASSUME NEW r \in Request, Cancel(r)
      PROVE  CallerInv'
  <2>1. UNCHANGED <<sysVars, md>> /\ Moves(r, "done")
    BY <1>7, Zenon DEF Cancel, Moves
  <2>2. out'[r] = Denied("cancelled")
    BY <1>1, <1>7, Zenon DEF Cancel, AuthTypeOK
  <2>3. CallerOK(r)'
    BY <2>2 DEF CallerOK, Accepted, Denied
  <2> QED BY <1>2, <2>1, <2>3, Zenon DEF Stages
<1>8. ASSUME UNCHANGED <<auth, resolver>>,
             \A q \in Request :
               pc'[q] = "done" => pc[q] = "done" /\ md'[q] = md[q] /\ out'[q] = out[q]
      PROVE  CallerInv'
  BY <1>8, CallerElsewhere, Zenon DEF CallerInv
<1>9. ASSUME NEW r \in Request, NEW m \in Metadata(auth), Arrive(r, m)
      PROVE  CallerInv'
  <2>1. UNCHANGED <<auth, resolver, out>>
    BY <1>9, Zenon DEF Arrive, sysVars
  <2>2. pc'[r] = "start" /\ \A q \in Request \ {r} : pc'[q] = pc[q] /\ md'[q] = md[q]
    BY <1>1, <1>9, Zenon DEF Arrive, AuthTypeOK
  <2> QED BY <1>8, <2>1, <2>2, Zenon
<1>10. CASE \/ \E r \in Request : Answer(r)
            \/ \E d \in Documents : Rotate(d)
            \/ Tick
            \/ UNCHANGED aVars
  <2>1. UNCHANGED <<auth, resolver, pc, md, out>>
    BY <1>10, Zenon DEF Answer, Rotate, Tick, aVars, sysVars
  <2> QED BY <1>8, <2>1, Zenon
<1> QED BY <1>5, <1>6, <1>7, <1>9, <1>10, Zenon DEF Next, Step

\* Whom a request acts for is decided by its credential: unless the tenant is
\* configured to come from a header, two accepted requests with the same
\* authorization get the same user and tenant, whichever of the cache, the lock
\* or the provider they went through.
THEOREM SameCaller == Spec => []SameCredentialSameCaller
<1>1. Init => CallerInv
  BY Zenon DEF Init, CallerInv, CallerOK, Accepted
<1>2. ASSUME LockInv, CallerInv PROVE SameCredentialSameCaller
  <2> SUFFICES ASSUME NEW q \in Request, NEW r \in Request, Accepted(q), Accepted(r),
                      resolver.source # "from_metadata",
                      auth.type = "none" \/ md[q].authorization = md[r].authorization
               PROVE  out[q] = out[r]
    BY Zenon DEF SameCredentialSameCaller
  <2>1. /\ out[q] = resolve(resolver, md[q], Authenticated(md[q]))
        /\ out[r] = resolve(resolver, md[r], Authenticated(md[r]))
    BY <1>2, Zenon DEF CallerInv, CallerOK
  <2>2. Authenticated(md[q]) = Authenticated(md[r])
    <3>1. auth.type \in {"none", "static", "jwt", "oidc"}
      BY <1>2, SettingsType, Zenon DEF LockInv
    <3>2. CASE auth.type = "none"
      BY <3>2, Zenon DEF Authenticated
    <3>3. CASE auth.type # "none"
      <4>1. bearer_token(md[q]) = bearer_token(md[r])
        BY <3>3, Zenon DEF bearer_token
      <4>2. StaticToken_authenticate(auth, md[q]) = StaticToken_authenticate(auth, md[r])
        BY <4>1, Zenon DEF StaticToken_authenticate
      <4>3. Jwt_authenticate(auth, md[q]) = Jwt_authenticate(auth, md[r])
        BY <4>1, Zenon DEF Jwt_authenticate
      <4> QED BY <3>1, <3>3, <4>1, <4>2, <4>3, Zenon DEF Authenticated
    <3> QED BY <3>2, <3>3, Zenon
  <2>3. \A x : candidate(resolver, md[q], x) = candidate(resolver, md[r], x)
    BY DEF candidate
  <2>4. \A x : resolve(resolver, md[q], x) = resolve(resolver, md[r], x)
    BY <2>3, Zenon DEF resolve
  <2> QED BY <2>1, <2>2, <2>4, Zenon
<1> QED BY <1>1, <1>2, NextCaller, LockInvariance, PTL DEF Spec
=============================================================================
