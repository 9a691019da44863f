--------------------------- MODULE MCHttpsClient ---------------------------
(* Responses for HttpsClient: lists of frames with what they should come    *)
(* to, as a plain or a chunked body, with either line ending.               *)
EXTENDS HttpsClient, SequencesExt

\* Frames as lines, with the payload and the event each stands for.
One == [lines |-> <<"d1">>, payload |-> <<"d1">>]
Two == [lines |-> <<"d1", "d2">>, payload |-> <<"d1", "nl", "d2">>]
Noise == [lines |-> <<"c">>, payload |-> <<>>]
Commented == [lines |-> <<"c", "d2">>, payload |-> <<"d2">>]
SignOff == [lines |-> <<"done">>, payload |-> <<"done">>]
Named == [lines |-> <<"id", "d2">>, payload |-> <<"d2">>]
Empty == [lines |-> <<"d0">>, payload |-> <<>>]

Lf == <<"n">>
Crlf == <<"r", "n">>

Bytes(frame, eol) == FlattenSeq([i \in DOMAIN frame.lines |-> <<frame.lines[i]>> \o eol]) \o eol
Body(frames, eol) == FlattenSeq([i \in DOMAIN frames |-> Bytes(frames[i], eol)])

Payloads(frames) ==
  LET kept == SelectSeq(frames, LAMBDA f : f.payload \notin {<<>>, <<"done">>})
  IN [i \in DOMAIN kept |-> kept[i].payload]

Events(frames) ==
  LET kept == SelectSeq(frames, LAMBDA f : f # Noise)
  IN [i \in DOMAIN kept |->
        [data |-> kept[i].payload, id |-> kept[i] = Named, has |-> TRUE]]

BeforeSignOff(frames) ==
  IF \E i \in DOMAIN frames : frames[i] = SignOff
  THEN Take(frames, CHOOSE i \in DOMAIN frames : frames[i + 1] = SignOff) ELSE frames

Size(n) == CHOOSE d \in DOMAIN Digits : Digits[d] = n

\* Chunks of n symbols, the last one shorter, and the end.
RECURSIVE Chunked(_, _)
Chunked(body, n) ==
  IF body = <<>> THEN <<"0", "r", "n", "r", "n">>
  ELSE LET k == Min({n, Len(body)})
       IN <<Size(k), "r", "n">> \o Take(body, k) \o <<"r", "n">> \o Chunked(Drop(body, k), n)

Plain(mode, frames, eol) ==
  [mode |-> mode, tls |-> FALSE, status |-> "ok", chunked |-> FALSE, eventStream |-> TRUE,
   length |-> -1, wire |-> Body(frames, eol),
   expect |-> CASE mode = "sse" -> Payloads(frames) [] mode = "get" -> Events(frames)
                [] OTHER -> Body(frames, eol),
   need |-> CASE mode = "sse" -> Len(Payloads(BeforeSignOff(frames)))
              [] mode = "get" -> Len(Events(frames)) [] OTHER -> Len(Body(frames, eol))]

InChunks(r, n) == [r EXCEPT !.chunked = TRUE, !.wire = Chunked(@, n)]

\* The server closes after its last frame without the blank line.
Unterminated(r) == [r EXCEPT !.wire = Take(@, Len(@) - 1)]

Streams == {<<One, SignOff>>, <<Two, Noise, Commented, SignOff>>, <<Commented, Two>>,
            <<One, SignOff, One>>}
Inbound == {<<Named, Noise, One>>, <<Empty, Two>>}

Base ==
  {Plain("sse", f, eol) : f \in Streams, eol \in {Lf, Crlf}}
  \cup {Plain("get", f, eol) : f \in Inbound, eol \in {Lf, Crlf}}
  \cup {Unterminated(Plain("sse", <<One, Two>>, Lf))}
  \cup {[Plain("post", <<Two>>, Lf) EXCEPT !.length = n] : n \in {-1, 5}}

MCResponses ==
  Base \cup {InChunks(r, n) : r \in Base, n \in {1, 3}}
  \cup {[Plain("sse", <<One, SignOff>>, Lf) EXCEPT !.tls = TRUE],
        [Plain("sse", <<One>>, Lf) EXCEPT !.status = "malformed"],
        [Plain("sse", <<One>>, Lf) EXCEPT !.status = "error"],
        [Plain("get", <<One>>, Lf) EXCEPT !.eventStream = FALSE],
        [Plain("post", <<One>>, Lf) EXCEPT !.chunked = TRUE, !.wire = <<"1", "r", "n", "d1", "r", "n", "?", "r", "n">>]}
=============================================================================
