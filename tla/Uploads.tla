------------------------------- MODULE Uploads -------------------------------
(***************************************************************************)
(* An AddArtifacts call and the channel cache it shares with the other     *)
(* calls of the gateway: the handler dials, without a point at which it    *)
(* could be dropped, before it starts the pump of ArtifactPump.            *)
(***************************************************************************)
EXTENDS ArtifactPump, Dialer

CONSTANT Uploader  \* the thread that runs the AddArtifacts call

ASSUME UploadsAssumption == Uploader \in Thread

allVars == <<uVars, dVars>>

UploadInit == PumpInit /\ DialerInit

----------------------------------------------------------------------------

Undialled == handler = "dial" /\ addr[Uploader] = None
Dialled == handler = "dial" /\ addr[Uploader] # None /\ at[Uploader] = "idle"

\* client(): the channel of the address the session is bound to.
client_(a) == Undialled /\ lookup(Uploader, a) /\ UNCHANGED uVars
dial == (open(Uploader) \/ insert(Uploader)) /\ UNCHANGED uVars

\* What the handler does with it; routing may have failed before.
Begin ==
  /\ \/ Dialled /\ mine[Uploader] # None /\ add_artifacts
     \/ (Undialled \/ (Dialled /\ mine[Uploader] = None)) /\ no_client
  /\ UNCHANGED dVars

\* Calls of other threads, which leave the last channel of the bound to the
\* uploader.
OtherDials(t) ==
  /\ \/ \E a \in DialAddress : lookup(t, a)
     \/ Len(opened) < MaxOpened - 1 /\ open(t)
     \/ insert(t)
  /\ UNCHANGED uVars

Handler ==
  \/ first_message /\ UNCHANGED dVars
  \/ \E a \in DialAddress : client_(a)
  \/ dial
  \/ Begin

Pump == (pump_message \/ pump_send) /\ UNCHANGED dVars

Leaves ==
  /\ handler = "dial" => Undialled
  /\ ClientLeaves
  /\ UNCHANGED dVars

UploadNext ==
  \/ Handler \/ Pump \/ Leaves
  \/ External /\ UNCHANGED dVars
  \/ \E t \in Thread \ {Uploader} : OtherDials(t)
  \/ Finished /\ UNCHANGED allVars

UploadSpec == UploadInit /\ [][UploadNext]_allVars

\* Tasks are scheduled; the client ends its stream once its call is over, as
\* gRPC libraries do on the status; a backend that is sent everything reads it.
FairUploadSpec ==
  /\ UploadSpec
  /\ WF_allVars(Handler) /\ WF_allVars(Pump)
  /\ WF_allVars(BackendReads /\ UNCHANGED dVars)
  /\ WF_allVars(handler \in {"ok", "failed"} /\ ClientEnds("broken") /\ UNCHANGED dVars)
=============================================================================
