---------------------------- MODULE HttpsClient ----------------------------
(***************************************************************************)
(* One request of HttpsClient (agentflow/net/https_client.cc): connecting, *)
(* the deadline that closes the socket, cancellation, and a response read  *)
(* in whatever slabs the peer sends, through the decoders of HttpFraming.  *)
(* The mode is the entry point: "post" collects the body, "sse" hands the  *)
(* payloads of a completion stream to a handler, "get" the events of an    *)
(* inbound stream.                                                         *)
(***************************************************************************)
EXTENDS HttpFraming

CONSTANTS Responses,  \* what the peer answers: mode, status, headers, body
          MaxErrorBody, EventLimit

VARIABLES
  resp,       \* the response of this run; wire is its body as sent
  phase,      \* what the coroutine waits for
  sock,       \* "unopened", "open" or "closed"
  armed,      \* the deadline is running
  expired,    \* the deadline's handler is queued
  cancelled,
  wire,       \* symbols the peer has still to send
  eof,        \* the peer has closed
  raw,        \* bytes read of the head, then of an error body
  decoder, framer,
  out,        \* what the caller has: payloads, events, or the body
  flushed,    \* the last payload of out is what Flush found
  result

connVars == <<sock, armed, expired>>
dataVars == <<raw, decoder, framer, out, flushed>>
vars == <<resp, phase, connVars, cancelled, wire, eof, dataVars, result>>

\* The head is two symbols, so that a read may end inside it.
Head2 == <<"h1", "h2">>

Init ==
  /\ resp \in Responses
  /\ phase = "start" /\ sock = "unopened" /\ armed = FALSE /\ expired = FALSE
  /\ cancelled = FALSE /\ wire = Head2 \o resp.wire /\ eof = FALSE
  /\ raw = <<>> /\ decoder = NewDecoder /\ framer = NewFramer
  /\ out = <<>> /\ flushed = FALSE /\ result = "none"

End(r) == phase' = "end" /\ result' = r
Goto(p) == phase' = p /\ UNCHANGED result
Failed(r) == End(IF cancelled THEN "cancelled" ELSE r)

\* DisarmDeadline stops the timer, not a handler that is already queued.
Disarm == armed' = FALSE /\ UNCHANGED expired
Rearm_Once == UNCHANGED <<armed, expired>>
Rearm == armed' = TRUE /\ UNCHANGED expired
-----------------------------------------------------------------------------
(* Connection                                                               *)

\* A bad URL or TLS setup ends the request before any I/O.
Start ==
  /\ phase = "start"
  /\ \/ End("invalid") /\ UNCHANGED <<connVars>>
     \/ Goto("resolve") /\ Rearm /\ UNCHANGED sock
  /\ UNCHANGED <<resp, cancelled, wire, eof, dataVars>>

\* Connecting opens the socket, whatever was closed before.
Resolved ==
  /\ phase = "resolve"
  /\ \/ Failed("unavailable") /\ Disarm /\ UNCHANGED sock
     \/ Goto("connect") /\ sock' = "open" /\ UNCHANGED <<armed, expired>>
  /\ UNCHANGED <<resp, cancelled, wire, eof, dataVars>>

Connected ==
  /\ phase = "connect"
  /\ \/ Failed("unavailable") /\ Disarm /\ UNCHANGED sock
     \/ /\ sock = "open"
        /\ \/ resp.tls /\ Goto("handshake") /\ UNCHANGED connVars
           \/ ~resp.tls /\ Goto("write") /\ Rearm /\ UNCHANGED sock
  /\ UNCHANGED <<resp, cancelled, wire, eof, dataVars>>

Handshaken ==
  /\ phase = "handshake" /\ sock = "open"
  /\ Goto("write") /\ Rearm /\ UNCHANGED <<resp, sock, cancelled, wire, eof, dataVars>>

Written ==
  /\ phase = "write" /\ sock = "open"
  /\ Goto("head") /\ Rearm /\ UNCHANGED <<resp, sock, cancelled, wire, eof, dataVars>>

Waiting == {"handshake", "write", "head", "error", "body"}

\* The operation in flight ends in an error: the socket was closed under it,
\* or the peer reset the connection.  An error body is then taken as it is.
OperationFails ==
  /\ phase \in Waiting
  /\ IF phase = "error" THEN Failed("status") ELSE Failed("unavailable")
  /\ Disarm /\ UNCHANGED <<resp, sock, cancelled, wire, eof, dataVars>>

DeadlineExpires ==
  /\ armed
  /\ armed' = FALSE /\ expired' = TRUE
  /\ UNCHANGED <<resp, phase, sock, cancelled, wire, eof, dataVars, result>>

\* Closing a socket that is not open yet has no effect.
Close == sock' = IF sock = "open" THEN "closed" ELSE sock

DeadlineHandler ==
  /\ expired
  /\ expired' = FALSE /\ Close
  /\ UNCHANGED <<resp, phase, armed, cancelled, wire, eof, dataVars, result>>

\* From any thread, with the callback that OnCancel registered.
Cancel ==
  /\ ~cancelled /\ phase \notin {"start", "end"}
  /\ cancelled' = TRUE /\ Close
  /\ UNCHANGED <<resp, phase, armed, expired, wire, eof, dataVars, result>>
-----------------------------------------------------------------------------
(* The response                                                             *)

\* A slab of body through the decoders to the caller; phase "loop" is the head
\* of the body loop.
Consume(slab) ==
  LET dec == IF resp.chunked THEN ChunkedFeed(decoder, slab) ELSE [decoder EXCEPT !.out = slab]
      frm == CASE resp.mode = "sse" -> SseFeed(framer, dec.out)
               [] resp.mode = "get" -> EventFeed(framer, dec.out, EventLimit)
               [] OTHER -> framer
  IN /\ decoder' = dec
     /\ IF dec.bad THEN End("invalid") /\ UNCHANGED <<framer, out>>
        ELSE /\ framer' = frm
             /\ out' = out \o (IF resp.mode = "post" THEN dec.out ELSE frm.out)
             /\ IF frm.exceeded THEN End("exhausted") ELSE Goto("loop")

\* ReadSome gives a part of what the peer sends; with the rest of the head may
\* come the first bytes of the body.
ReadHead(n) ==
  /\ phase = "head" /\ sock = "open" /\ n <= Len(wire)
  /\ LET all == raw \o Take(wire, n)
         body == Drop(all, 2)
     IN IF Len(all) < 2 THEN raw' = all /\ Goto("head") /\ UNCHANGED <<decoder, framer, out>>
        ELSE \/ /\ resp.status = "malformed" /\ End("invalid")
                /\ raw' = <<>> /\ UNCHANGED <<decoder, framer, out>>
             \/ /\ resp.status = "error" /\ raw' = body
                /\ (IF Len(body) < MaxErrorBody THEN Goto("error") ELSE End("status"))
                /\ UNCHANGED <<decoder, framer, out>>
             \/ /\ resp.status = "ok" /\ resp.mode = "get" /\ ~resp.eventStream
                /\ End("invalid") /\ raw' = <<>> /\ UNCHANGED <<decoder, framer, out>>
             \/ /\ resp.status = "ok" /\ (resp.mode = "get" => resp.eventStream)
                /\ raw' = <<>> /\ Consume(body)
  /\ wire' = Drop(wire, n)
  /\ armed' = (phase' \in {"head", "error"})
  /\ UNCHANGED <<resp, sock, expired, cancelled, eof, flushed>>

ReadErrorBody(n) ==
  /\ phase = "error" /\ sock = "open" /\ n <= Len(wire)
  /\ raw' = raw \o Take(wire, n) /\ wire' = Drop(wire, n)
  /\ IF Len(raw') < MaxErrorBody THEN Goto("error") /\ Rearm ELSE End("status") /\ Disarm
  /\ UNCHANGED <<resp, sock, cancelled, eof, decoder, framer, out, flushed>>

ReadBody(n) ==
  /\ phase = "body" /\ sock = "open" /\ n <= Len(wire)
  /\ Consume(Take(wire, n)) /\ wire' = Drop(wire, n) /\ Disarm
  /\ UNCHANGED <<resp, sock, cancelled, eof, raw, flushed>>

\* The body is over: what the framer still holds is a last frame.
Finish ==
  /\ LET last == IF resp.mode = "sse" /\ ~framer.done THEN Flush(framer) ELSE [framer EXCEPT !.out = <<>>]
     IN framer' = last /\ out' = out \o last.out /\ flushed' = (last.out # <<>>)
  /\ sock' = "closed" /\ End("ok")

\* The peer closed, wherever it was.  Inside the head that is an error.
ReadEof ==
  /\ phase \in {"head", "error", "body"} /\ sock = "open"
  /\ eof' = TRUE /\ Disarm
  /\ \/ phase = "head" /\ End("unavailable") /\ UNCHANGED <<sock, framer, out, flushed>>
     \/ phase = "error" /\ Failed("status") /\ UNCHANGED <<sock, framer, out, flushed>>
     \/ phase = "body" /\ Finish
  /\ UNCHANGED <<resp, cancelled, wire, raw, decoder>>

Complete ==
  \/ resp.mode = "sse" /\ framer.done
  \/ resp.mode = "post" /\ resp.length >= 0 /\ Len(out) >= resp.length
  \/ resp.chunked /\ decoder.complete

LoopTop ==
  /\ phase = "loop"
  /\ \/ cancelled /\ End("cancelled") /\ UNCHANGED <<connVars, framer, out, flushed>>
     \/ ~cancelled /\ Complete /\ Finish /\ UNCHANGED <<armed, expired>>
     \/ ~cancelled /\ ~Complete /\ Goto("body") /\ Rearm
        /\ UNCHANGED <<sock, framer, out, flushed>>
  /\ UNCHANGED <<resp, cancelled, wire, eof, raw, decoder>>

Slab == 1..4

Next ==
  \/ Start \/ Resolved \/ Connected \/ Handshaken \/ Written \/ OperationFails
  \/ DeadlineExpires \/ DeadlineHandler \/ Cancel
  \/ \E n \in Slab : ReadHead(n) \/ ReadErrorBody(n) \/ ReadBody(n)
  \/ ReadEof \/ LoopTop

\* The resolver and the kernel's connect end, time passes, and an operation on
\* a closed socket is aborted.  The peer owes nothing.
Fairness ==
  /\ WF_vars(Start) /\ WF_vars(Resolved) /\ WF_vars(Connected) /\ WF_vars(LoopTop)
  /\ WF_vars(DeadlineExpires) /\ WF_vars(DeadlineHandler)
  /\ WF_vars(OperationFails /\ sock = "closed")

Spec == Init /\ [][Next]_vars /\ Fairness
-----------------------------------------------------------------------------
\* What the caller is given is what the peer meant, however the bytes were cut
\* into reads: whole frames, in order, none twice, none made up.  Only the last
\* payload of a stream that the peer broke off can be a part of a frame,
\* because Flush takes the end of the stream for the end of a frame.  And a
\* request reports success only if the caller has everything up to the
\* sign-off, or if the peer closed before it had sent everything: a body cut
\* short of its Content-Length or of its last chunk counts as complete.
PayloadsWhole ==
  /\ \A i \in DOMAIN out :
       \/ i <= Len(resp.expect) /\ out[i] = resp.expect[i]
       \/ i = Len(out) /\ flushed /\ eof
  /\ result = "ok" => Len(out) >= resp.need \/ (eof /\ wire # <<>>)

\* The deadline has come and gone while there was no socket to close.
Unwatched == phase = "handshake" /\ ~armed /\ ~expired /\ sock = "open"

\* Every request ends, however the peer stalls, because each wait has a
\* deadline that closes the socket.  The exception is a deadline that expires
\* while the name is being resolved: the handshake then waits without one.
RequestEnds == phase # "end" ~> phase = "end" \/ []Unwatched
=============================================================================
