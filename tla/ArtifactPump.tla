---------------------------- MODULE ArtifactPump ----------------------------
(***************************************************************************)
(* AddArtifacts of crates/proxy/src/handler.rs once the caller is known:   *)
(* the handler routes on the first message and a spawned task pumps the    *)
(* others through a bounded channel into the request to the backend.  The  *)
(* client and the backend are external.  Messages are numbered in the      *)
(* order in which the client sends them.                                   *)
(***************************************************************************)
EXTENDS Integers, Sequences

CONSTANTS
  MaxMessages,  \* bound: messages of the client
  ChannelSize   \* room in the channel (8 in the code)

ASSUME PumpAssumption == MaxMessages \in Nat /\ ChannelSize \in Nat \ {0}

VARIABLES
  sent,      \* messages the client has sent
  bad,       \* the first of them that is too large or does not decode, or 0
  client,    \* its side: "open", "closed" (end of stream), "broken" (connection)
  read,      \* messages taken from the inbound stream
  handler,   \* the handler: "first", "dial", "call", "ok" or "failed"
  pump,      \* the task: "off", "read", "send" (holding a message), "ended"
  queue,     \* the channel
  got,       \* messages the backend has received
  backend    \* its side: "none", "reading", "eof" (saw the end of the request),
             \* "answered", and "served" when it answered after the end

uVars == <<sent, bad, client, read, handler, pump, queue, got, backend>>

PumpTypeOK ==
  /\ sent \in 0 .. MaxMessages /\ read \in 0 .. sent /\ bad \in 0 .. sent
  /\ client \in {"open", "closed", "broken"}
  /\ handler \in {"first", "dial", "call", "ok", "failed"}
  /\ pump \in {"off", "read", "send", "ended"}
  /\ queue \in Seq(1 .. MaxMessages) /\ Len(queue) <= ChannelSize
  /\ got \in Seq(1 .. MaxMessages)
  /\ backend \in {"none", "reading", "eof", "answered", "served"}

PumpInit ==
  /\ sent = 0 /\ bad = 0 /\ client = "open" /\ read = 0
  /\ handler = "first" /\ pump = "off"
  /\ queue = <<>> /\ got = <<>> /\ backend = "none"

----------------------------------------------------------------------------
(* The client *)

\* A message, which may be over the size limit or malformed: that is an error of
\* the gateway's inbound stream only, and the client goes on.
ClientSends ==
  /\ client = "open" /\ sent < MaxMessages
  /\ sent' = sent + 1
  /\ bad' \in IF bad = 0 THEN {0, sent + 1} ELSE {bad}
  /\ UNCHANGED <<client, read, handler, pump, queue, got, backend>>

\* It ends its stream, or the connection breaks.
ClientEnds(how) ==
  /\ client = "open"
  /\ client' = how
  /\ UNCHANGED <<sent, bad, read, handler, pump, queue, got, backend>>

\* The client goes away: the handler's future and its request are dropped.
ClientLeaves ==
  /\ handler \in {"first", "dial", "call"}
  /\ handler' = "failed"
  /\ client' = IF client = "open" THEN "broken" ELSE client
  /\ queue' = <<>>
  /\ backend' = IF backend = "none" THEN "none" ELSE "answered"
  /\ UNCHANGED <<sent, bad, read, pump, got>>

----------------------------------------------------------------------------
(* The handler *)

\* The inbound stream yields a message; or an end or an error, for good.  What a
\* broken connection had buffered may be lost.
Readable == read < sent /\ read + 1 # bad
Over ==
  \/ client = "broken"
  \/ client = "closed" /\ read = sent
  \/ read + 1 = bad

\* The first message is read: it says which session the call belongs to.  A
\* stream that is empty or breaks fails.
first_message ==
  /\ handler = "first"
  /\ \/ /\ Readable
        /\ read' = read + 1
        /\ handler' = "dial"
     \/ /\ Over
        /\ handler' = "failed"
        /\ UNCHANGED read
  /\ UNCHANGED <<sent, bad, client, pump, queue, got, backend>>

\* No backend, or no channel to it.
no_client ==
  /\ handler = "dial"
  /\ handler' = "failed"
  /\ UNCHANGED <<sent, bad, client, read, pump, queue, got, backend>>

\* With a channel to the backend: the first message is queued, the pump spawned
\* and the backend called.
add_artifacts ==
  /\ handler = "dial"
  /\ queue' = <<read>>
  /\ handler' = "call" /\ pump' = "read" /\ backend' = "reading"
  /\ UNCHANGED <<sent, bad, client, read, got>>

----------------------------------------------------------------------------
(* The pump *)

\* Mutant: the end of the inbound stream is not noticed.
pump_message_spins ==
  /\ pump = "read"
  /\ Readable
  /\ read' = read + 1
  /\ pump' = "send"
  /\ UNCHANGED <<sent, bad, client, handler, queue, got, backend>>

\* inbound.message(): a message, or the loop ends; an error ends it as the end
\* of the stream does.
pump_message ==
  /\ pump = "read"
  /\ \/ /\ Readable
        /\ read' = read + 1
        /\ pump' = "send"
     \/ /\ Over
        /\ pump' = "ended"
        /\ UNCHANGED read
  /\ UNCHANGED <<sent, bad, client, handler, queue, got, backend>>

Receiving == backend = "reading"

\* Mutant: try_send, whose error for a full channel is ignored.
pump_send_lossy ==
  /\ pump = "send"
  /\ \/ /\ Receiving
        /\ queue' = IF Len(queue) < ChannelSize THEN Append(queue, read) ELSE queue
        /\ pump' = "read"
     \/ /\ ~Receiving
        /\ pump' = "ended"
        /\ UNCHANGED queue
  /\ UNCHANGED <<sent, bad, client, read, handler, got, backend>>

\* Mutant: a closed channel is not noticed.
pump_send_deaf ==
  /\ pump = "send"
  /\ Receiving /\ Len(queue) < ChannelSize
  /\ queue' = Append(queue, read)
  /\ pump' = "read"
  /\ UNCHANGED <<sent, bad, client, read, handler, got, backend>>

\* tx.send: waits for room; fails when the receiver is gone.
pump_send ==
  /\ pump = "send"
  /\ \/ /\ Receiving /\ Len(queue) < ChannelSize
        /\ queue' = Append(queue, read)
        /\ pump' = "read"
     \/ /\ ~Receiving
        /\ pump' = "ended"
        /\ UNCHANGED queue
  /\ UNCHANGED <<sent, bad, client, read, handler, got, backend>>

----------------------------------------------------------------------------
(* The backend (external) *)

BackendReads ==
  /\ Receiving
  /\ \/ /\ queue # <<>>
        /\ got' = Append(got, Head(queue))
        /\ queue' = Tail(queue)
        /\ UNCHANGED backend
     \/ /\ queue = <<>> /\ pump = "ended"
        /\ backend' = "eof"
        /\ UNCHANGED <<got, queue>>
  /\ UNCHANGED <<sent, bad, client, read, handler, pump>>

\* It answers, early or at the end of the request, which is then dropped.
BackendAnswers ==
  /\ handler = "call" /\ backend \in {"reading", "eof"}
  /\ backend' = IF backend = "eof" THEN "served" ELSE "answered"
  /\ handler' \in {"ok", "failed"}
  /\ queue' = <<>>
  /\ UNCHANGED <<sent, bad, client, read, pump, got>>

\* Nobody is left who waits for the call.
Finished == handler \in {"ok", "failed"} /\ client # "open"

External ==
  \/ ClientSends \/ \E how \in {"closed", "broken"} : ClientEnds(how)
  \/ BackendReads \/ BackendAnswers

----------------------------------------------------------------------------
(* Properties *)

\* The messages that reach the gateway whole.
Whole == IF bad = 0 THEN sent ELSE bad - 1

\* What the backend receives is a prefix of what the client sends: no message
\* is lost, repeated or overtaken on the way through handler, pump and bounded
\* channel.  When the client ended its stream, a backend that reads its request
\* to the end has all of it, up to a message that is an error of the inbound
\* stream.
UploadFaithful ==
  /\ Len(queue) <= ChannelSize
  /\ got = [i \in 1 .. Len(got) |-> i]
  /\ backend \in {"eof", "served"} /\ client = "closed" => Len(got) = Whole

\* "We forward it plus the remainder to the chosen backend" (add_artifacts): a
\* client that ended its stream and is told OK, by a backend that read its
\* request to the end, has had all its messages forwarded.
RemainderForwarded ==
  handler = "ok" /\ backend = "served" /\ client = "closed" => Len(got) = sent

\* The pump does not outlive its call for good, however the call ends: the
\* client leaves, the backend fails early, or the answer comes.
PumpEnds == handler \in {"ok", "failed"} ~> pump \in {"off", "ended"}

\* An upload that the client has ended gets through to a backend that keeps
\* reading: the backend sees all of it that is readable, and then its end.
UploadArrives ==
  (handler = "call" /\ client = "closed") ~>
    \/ backend = "eof" /\ got = [i \in 1 .. Whole |-> i]
    \/ backend \in {"answered", "served"}

----------------------------------------------------------------------------
(* What makes UploadFaithful inductive *)

\* The backend has the first messages, the channel those after them, in order.
InOrder ==
  /\ \A i \in 1 .. Len(got) : got[i] = i
  /\ \A i \in 1 .. Len(queue) : queue[i] = Len(got) + i

\* While the backend reads, channel and pump hold what was read and has not
\* arrived yet, and the pump has ended only at the end of the inbound stream; so
\* a backend that saw the end of the request has everything that was readable.
PumpInv ==
  /\ PumpTypeOK
  /\ InOrder
  /\ bad # 0 => read < bad
  /\ handler \in {"first", "dial"} => pump = "off" /\ backend = "none"
  /\ backend = "none" => queue = <<>> /\ got = <<>>
  /\ handler = "first" => read = 0
  /\ handler = "dial" => read = 1
  /\ Receiving =>
       /\ handler = "call"
       /\ pump \in {"read", "send", "ended"}
       /\ Len(got) + Len(queue) + (IF pump = "send" THEN 1 ELSE 0) = read
       /\ pump = "ended" => Over
  /\ backend \in {"eof", "served"} =>
       /\ client # "open" \/ bad # 0
       /\ client = "broken" \/ Len(got) = Whole
=============================================================================
