---------------------------- MODULE HttpFraming ----------------------------
(***************************************************************************)
(* The incremental decoders of agentflow/net/http_parse.cc as functions    *)
(* from a decoder and a slab of input to the decoder after it.  Input is a *)
(* sequence of symbols: "r" and "n" are CR and LF, a digit is the number   *)
(* on a chunk-size line ("?" is no number), the others are contents of     *)
(* one line each: "d1", "d2" and "d0" are data lines with a text or an     *)
(* empty one, "done" is "data: [DONE]", "id" an id line, "c" a comment.    *)
(***************************************************************************)
EXTENDS Integers, Sequences, FiniteSets, FiniteSetsExt, TLC

Digits == "0" :> 0 @@ "1" :> 1 @@ "2" :> 2 @@ "3" :> 3 @@ "4" :> 4

Take(s, n) == SubSeq(s, 1, n)
Drop(s, n) == SubSeq(s, n + 1, Len(s))

\* find: how many symbols precede the first occurrence of pattern, or -1.
Find(s, pattern) ==
  LET at == {i \in 0..(Len(s) - Len(pattern)) : SubSeq(s, i + 1, i + Len(pattern)) = pattern}
  IN IF at = {} THEN -1 ELSE Min(at)
-----------------------------------------------------------------------------
NewDecoder == [buf |-> <<>>, inChunk |-> FALSE, remaining |-> 0, complete |-> FALSE,
               bad |-> FALSE, out |-> <<>>]

\* ChunkedDecoder::Feed; out is what this call decodes.
RECURSIVE ChunkLoop(_)
ChunkLoop(d) ==
  LET take == Min({Len(d.buf), d.remaining})
      eol == Find(d.buf, <<"r", "n">>)
      size == d.buf[1]
  IN IF d.complete THEN d
     ELSE IF d.inChunk THEN
       LET e == [d EXCEPT !.out = @ \o Take(d.buf, take), !.buf = Drop(@, take),
                          !.remaining = @ - take]
       IN IF e.remaining > 0 \/ Len(e.buf) < 2 THEN e
          ELSE ChunkLoop([e EXCEPT !.buf = Drop(@, 2), !.inChunk = FALSE])
     ELSE IF eol = -1 THEN d
     ELSE IF eol = 0 \/ size \notin DOMAIN Digits THEN [d EXCEPT !.bad = TRUE]
     ELSE IF Digits[size] = 0 THEN [d EXCEPT !.complete = TRUE, !.buf = Drop(@, eol + 2)]
     ELSE ChunkLoop([d EXCEPT !.remaining = Digits[size], !.inChunk = TRUE,
                              !.buf = Drop(@, eol + 2)])

ChunkedFeed(d, bytes) == ChunkLoop([d EXCEPT !.buf = @ \o bytes, !.out = <<>>])
-----------------------------------------------------------------------------
\* Where the first frame of a buffer ends and how long its separator is.
FrameEnd(buf) ==
  LET lf == Find(buf, <<"n", "n">>)
      crlf == Find(buf, <<"r", "n", "r", "n">>)
  IN IF crlf # -1 /\ (lf = -1 \/ crlf < lf) THEN [end |-> crlf, sep |-> 4]
                                             ELSE [end |-> lf, sep |-> 2]

Text(line) == IF line = "d0" THEN <<>> ELSE <<line>>
IsData(line) == line \in {"d0", "d1", "d2", "done"}

\* The contents of a frame's lines: every symbol that is not a line ending.
LinesOf(frame) == SelectSeq(frame, LAMBDA s : s \notin {"r", "n"})

\* FramePayload: texts of the data lines joined by newlines, where an empty
\* text at the front leaves no trace.
RECURSIVE Join(_, _)
Join(lines, payload) ==
  IF lines = <<>> THEN payload
  ELSE Join(Tail(lines),
            IF ~IsData(Head(lines)) THEN payload
            ELSE (IF payload = <<>> THEN <<>> ELSE Append(payload, "nl")) \o Text(Head(lines)))

FramePayload(frame) == Join(LinesOf(frame), <<>>)

NewFramer == [buf |-> <<>>, done |-> FALSE, exceeded |-> FALSE, out |-> <<>>]

\* One frame's payload: nothing, the sign-off, or a payload to deliver.
Frame(f, payload) ==
  IF payload = <<>> THEN f
  ELSE IF payload = <<"done">> THEN [f EXCEPT !.done = TRUE]
  ELSE [f EXCEPT !.out = Append(@, payload)]

RECURSIVE SseLoop(_)
SseLoop(f) ==
  LET e == FrameEnd(f.buf)
  IN IF e.end = -1 THEN f
     ELSE SseLoop([Frame(f, FramePayload(Take(f.buf, e.end)))
                     EXCEPT !.buf = Drop(@, e.end + e.sep)])

SseFeed_PerSlab(f, bytes) == SseLoop([f EXCEPT !.buf = bytes, !.out = <<>>])

SseFeed(f, bytes) == SseLoop([f EXCEPT !.buf = @ \o bytes, !.out = <<>>])

Flush(f) == Frame([f EXCEPT !.buf = <<>>, !.out = <<>>], FramePayload(f.buf))

\* SseEventFramer: an event has the data lines, empty ones included, and
\* perhaps an id; one with neither is dropped, one past the limit is an error.
RECURSIVE EventData(_, _, _)
EventData(lines, data, has) ==
  IF lines = <<>> THEN data
  ELSE IF ~IsData(Head(lines)) THEN EventData(Tail(lines), data, has)
  ELSE EventData(Tail(lines),
                 (IF has THEN Append(data, "nl") ELSE data) \o Text(Head(lines)), TRUE)

EventOf(frame) ==
  LET lines == LinesOf(frame)
  IN [data |-> EventData(lines, <<>>, FALSE), id |-> \E i \in DOMAIN lines : lines[i] = "id",
      has |-> \E i \in DOMAIN lines : IsData(lines[i])]

RECURSIVE EventLoop(_, _)
EventLoop(f, limit) ==
  LET e == FrameEnd(f.buf)
      event == EventOf(Take(f.buf, e.end))
  IN IF (IF e.end = -1 THEN Len(f.buf) ELSE e.end) > limit
     THEN [f EXCEPT !.exceeded = TRUE, !.buf = <<>>]
     ELSE IF e.end = -1 THEN f
     ELSE EventLoop([f EXCEPT !.out = IF event.has \/ event.id THEN Append(@, event) ELSE @,
                              !.buf = Drop(@, e.end + e.sep)], limit)

EventFeed(f, bytes, limit) ==
  IF f.exceeded THEN [f EXCEPT !.out = <<>>]
  ELSE EventLoop([f EXCEPT !.buf = @ \o bytes, !.out = <<>>], limit)
=============================================================================
