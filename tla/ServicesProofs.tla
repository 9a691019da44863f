--------------------------- MODULE ServicesProofs ---------------------------
(***************************************************************************)
(* Proofs about three services a run leans on, which share no state, each  *)
(* for every value of its constants: the on-device chat backend (the       *)
(* engine slot, and what a reply delivers), the checkpoint file (it        *)
(* implements an atomic file as long as a flush does not find the disk     *)
(* full) and the tools (the bookkeeping of the client pool, and what a     *)
(* call through a view may start).                                         *)
(***************************************************************************)
EXTENDS LiteRtStream, CheckpointFile, Tools, SequenceTheorems, TLAPS

-----------------------------------------------------------------------------
(* The chat backend                                                        *)

Text == 1 .. N

\* The handlers of conversation c in the io_context's queue p.
Queue(p, c) == {i \in 1 .. Len(p) : p[i].conv = c}

\* A reply on its way: taken by SendAsync (go), in the channel (ch), in the
\* io_context (p).  Later chunks are behind earlier ones, what ends the turn is
\* behind them all, and what was dropped (dr) is in none of the three.
InOrder(c, go, ch, p, dr) ==
  /\ \A i, j \in 1 .. Len(go) : i < j => go[i] < go[j]
  /\ \A i \in 1 .. Len(go), j \in 1 .. Len(ch) : ch[j] \in Text => go[i] < ch[j]
  /\ \A i \in 1 .. Len(go), j \in Queue(p, c) : p[j].chunk \in Text => go[i] < p[j].chunk
  /\ \A i, j \in 1 .. Len(ch) : i < j => ch[i] \in Text /\ (ch[j] \in Text => ch[i] < ch[j])
  /\ \A i \in 1 .. Len(ch), j \in Queue(p, c) :
       ch[i] \in Text /\ (p[j].chunk \in Text => ch[i] < p[j].chunk)
  /\ \A i, j \in Queue(p, c) : i < j =>
       p[i].chunk \in Text /\ ~p[i].final /\ (p[j].chunk \in Text => p[i].chunk < p[j].chunk)
  /\ \A i \in 1 .. Len(go) : go[i] \notin dr
  /\ \A i \in 1 .. Len(ch) : ch[i] \in Text => ch[i] \notin dr
  /\ \A x \in dr, j \in Queue(p, c) : x \in Text /\ p[j].chunk \in Text => x < p[j].chunk

\* The chunks of the reply that left the engine.
Seen(c, go, ch, p, dr) ==
  ({go[i] : i \in 1 .. Len(go)} \cup {ch[i] : i \in 1 .. Len(ch)}
     \cup {p[i].chunk : i \in Queue(p, c)} \cup dr) \cap Text

\* What ends the turn, or fails it, is on its way; the end itself is.
Ending(c, ch, p) ==
  (\E i \in 1 .. Len(ch) : ch[i] \notin Text) \/ (\E i \in Queue(p, c) : p[i].final)
Complete(c, ch, p) ==
  \/ \E i \in 1 .. Len(ch) : ch[i] = Sentinel
  \/ \E i \in Queue(p, c) : p[i].final /\ p[i].chunk # Error

\* A streamed turn.  en is the engine, cl and ca: closed and cancelled.
Stream(c, go, ch, p, dr, en, cl, ca) ==
  /\ InOrder(c, go, ch, p, dr)
  /\ en # Off /\ ~ca => Seen(c, go, ch, p, dr) = 1 .. en
  /\ Complete(c, ch, p) => Seen(c, go, ch, p, dr) = Text
  /\ Ending(c, ch, p) => en = Off
  /\ cl /\ ~ca => en = Off /\ Queue(p, c) = {} /\ \A i \in 1 .. Len(ch) : ch[i] # Sentinel

\* A whole reply, in order, but for what was dropped.
Delivered(go, dr) ==
  /\ {go[i] : i \in DOMAIN go} = Text \ dr
  /\ \A i, j \in DOMAIN go : i < j => go[i] < go[j]

\* A handler h that found ch in the channel leaves s, having lost what it could
\* not send: the chunk is in one of the two.
Advances(h, ch, s, lost) ==
  /\ Len(ch) <= Len(s) /\ \A i \in 1 .. Len(ch) : s[i] = ch[i]
  /\ \A i \in Len(ch) + 1 .. Len(s) :
       s[i] = h.chunk \/ (s[i] = Sentinel /\ h.final /\ h.chunk # Error)
  /\ \A i, j \in Len(ch) + 1 .. Len(s) : i < j => s[i] \in Text /\ s[j] \notin Text
  /\ \A x \in lost : \/ x = h.chunk /\ \A i \in Len(ch) + 1 .. Len(s) : s[i] # x
                     \/ x = Sentinel
  /\ h.chunk \in lost \/ \E i \in Len(ch) + 1 .. Len(s) : s[i] = h.chunk

\* Between turns nothing of the last one is left.
Rest(c, ch, p, cl, ca) == ch = <<>> /\ Queue(p, c) = {} /\ (cl => ca)

SlotInv ==
  /\ free <=> \A c \in Conv : ~Holds(c)
  /\ \A c, d \in Conv : Holds(c) /\ Holds(d) => c = d

ConvInv(c) ==
  /\ engine[c] # Off /\ ~cancelled[c] => Holds(c)
  /\ pc[c] # "idle" => result[c] \in {"none", "Ok"}
  /\ pc[c] \in {"recv", "sink"} =>
       Stream(c, got[c], chan[c], posted, dropped[c], engine[c], closed[c], cancelled[c])
  /\ pc[c] \notin {"recv", "sink"} /\ result[c] \in {"none", "Ok"} =>
       Rest(c, chan[c], posted, closed[c], cancelled[c])
  /\ pc[c] \in {"idle", "slot"} /\ result[c] \in {"none", "Ok"} => engine[c] = Off

StreamInv ==
  /\ TypeOK /\ SlotInv
  /\ \A i \in 1 .. Len(posted) : posted[i].final \/ posted[i].chunk \in Text
  /\ \A c \in Conv : ConvInv(c)

Item == [conv : Conv, chunk : 0 .. Error, final : BOOLEAN]

-----------------------------------------------------------------------------
(* How a reply moves.                                                      *)

LEMMA Alphabet ==
  /\ Text \subseteq 0 .. Error /\ Sentinel \in 0 .. Error /\ Error \in 0 .. Error
  /\ Sentinel \notin Text /\ Error \notin Text /\ Sentinel # Error
  /\ \A x \in 0 .. Error : x \notin Text => x = Sentinel \/ x = Error
  /\ Off \in 0 .. Off /\ \A e \in 0 .. Off : e # Off /\ ~(e < N) /\ e < N + 1 => e = N
BY StreamAssumption DEF Text, Sentinel, Error, Off

\* A queue in which the handlers of another conversation came or went.
LEMMA QueueFrame ==
  ASSUME NEW d, NEW go, NEW ch, NEW p, NEW q, NEW dr, NEW en, NEW cl, NEW ca, NEW k \in Nat,
         \A i \in Queue(q, d) : i \in Int /\ i + k \in Queue(p, d) /\ q[i] = p[i + k],
         \A i \in Queue(p, d) : \E j \in Queue(q, d) : q[j] = p[i]
  PROVE  /\ Stream(d, go, ch, p, dr, en, cl, ca) => Stream(d, go, ch, q, dr, en, cl, ca)
         /\ Rest(d, ch, p, cl, ca) => Rest(d, ch, q, cl, ca)
<1>1. \A i, j \in Queue(q, d) : i < j => i + k < j + k
  OBVIOUS
<1>2. Queue(p, d) = {} => Queue(q, d) = {}
  BY Zenon
<1>3. {q[i].chunk : i \in Queue(q, d)} = {p[i].chunk : i \in Queue(p, d)}
  <2>1. ASSUME NEW i \in Queue(q, d) PROVE \E j \in Queue(p, d) : q[i].chunk = p[j].chunk
    BY Zenon
  <2>2. ASSUME NEW i \in Queue(p, d) PROVE \E j \in Queue(q, d) : p[i].chunk = q[j].chunk
    BY Zenon
  <2>3. QED
    BY <2>1, <2>2
<1>4. ASSUME InOrder(d, go, ch, p, dr) PROVE InOrder(d, go, ch, q, dr)
  <2>1. \A i \in 1 .. Len(go), j \in Queue(q, d) : q[j].chunk \in Text => go[i] < q[j].chunk
    BY <1>4, Zenon DEF InOrder
  <2>2. \A i \in 1 .. Len(ch), j \in Queue(q, d) :
          ch[i] \in Text /\ (q[j].chunk \in Text => ch[i] < q[j].chunk)
    BY <1>4, Zenon DEF InOrder
  <2>3. \A i, j \in Queue(q, d) : i < j =>
          q[i].chunk \in Text /\ ~q[i].final /\ (q[j].chunk \in Text => q[i].chunk < q[j].chunk)
    <3> SUFFICES ASSUME NEW i \in Queue(q, d), NEW j \in Queue(q, d), i < j
                 PROVE  q[i].chunk \in Text /\ ~q[i].final /\ (q[j].chunk \in Text => q[i].chunk < q[j].chunk)
      BY Zenon
    <3>1. i + k < j + k /\ i + k \in Queue(p, d) /\ j + k \in Queue(p, d) /\ q[i] = p[i + k] /\ q[j] = p[j + k]
      BY <1>1, Zenon
    <3>2. p[i + k].chunk \in Text /\ ~p[i + k].final /\ (p[j + k].chunk \in Text => p[i + k].chunk < p[j + k].chunk)
      BY <1>4, <3>1, Zenon DEF InOrder
    <3>3. QED
      BY <3>1, <3>2, Zenon
  <2>4. \A x \in dr, j \in Queue(q, d) : x \in Text /\ q[j].chunk \in Text => x < q[j].chunk
    BY <1>4, Zenon DEF InOrder
  <2>5. QED
    BY <1>4, <2>1, <2>2, <2>3, <2>4, Zenon DEF InOrder
<1>5. Seen(d, go, ch, q, dr) = Seen(d, go, ch, p, dr)
  BY <1>3, Zenon DEF Seen
<1>6. Complete(d, ch, q) => Complete(d, ch, p)
  <2>1. ASSUME NEW i \in Queue(q, d), q[i].final, q[i].chunk # Error
        PROVE  p[i + k].final /\ p[i + k].chunk # Error /\ i + k \in Queue(p, d)
    BY <2>1, Zenon
  <2>2. QED
    BY <2>1, Zenon DEF Complete
<1>7. Ending(d, ch, q) => Ending(d, ch, p)
  BY Zenon DEF Ending
<1>8. QED
  BY <1>2, <1>4, <1>5, <1>6, <1>7, Zenon DEF Stream, Rest

LEMMA QueueAppend ==
  ASSUME NEW p \in Seq(Item), NEW h \in Item
  PROVE  LET q == Append(p, h)
         IN /\ q \in Seq(Item) /\ Len(q) = Len(p) + 1 /\ q[Len(p) + 1] = h /\ Len(p) \in Nat
            /\ \A i \in 1 .. Len(p) : q[i] = p[i]
            /\ \A d : d # h.conv => Queue(q, d) = Queue(p, d)
            /\ Queue(q, h.conv) = Queue(p, h.conv) \cup {Len(p) + 1}
<1> DEFINE q == Append(p, h)
<1>1. /\ q \in Seq(Item) /\ Len(q) = Len(p) + 1 /\ q[Len(p) + 1] = h /\ Len(p) \in Nat
      /\ \A i \in 1 .. Len(p) : q[i] = p[i]
  OBVIOUS
<1>2. 1 .. Len(q) = 1 .. Len(p) \cup {Len(p) + 1}
  BY <1>1
<1> HIDE DEF q
<1>3. \A d : d # h.conv => Queue(q, d) = Queue(p, d)
  BY <1>1, <1>2, Zenon DEF Queue
<1>4. Queue(q, h.conv) = Queue(p, h.conv) \cup {Len(p) + 1}
  BY <1>1, <1>2, Zenon DEF Queue
<1>5. QED
  BY <1>1, <1>3, <1>4, Zenon DEF q

LEMMA QueueTail ==
  ASSUME NEW p \in Seq(Item), p # <<>>
  PROVE  LET q == Tail(p)
             h == Head(p)
         IN /\ q \in Seq(Item) /\ h = p[1] /\ h \in Item /\ 1 \in Queue(p, h.conv)
            /\ \A d : \A i \in Queue(q, d) : i \in Int /\ i >= 1 /\ i + 1 \in Queue(p, d) /\ q[i] = p[i + 1]
            /\ \A d : \A i \in Queue(p, d) : i = 1 \/ (i \in Int /\ 1 < i /\ i - 1 \in Queue(q, d) /\ q[i - 1] = p[i])
<1> DEFINE q == Tail(p)
           h == Head(p)
<1>1. /\ q \in Seq(Item) /\ h = p[1] /\ h \in Item /\ 1 \in 1 .. Len(p)
      /\ \A i \in 1 .. Len(q) : i \in Int /\ i >= 1 /\ i + 1 \in 1 .. Len(p) /\ q[i] = p[i + 1]
      /\ \A i \in 1 .. Len(p) : i = 1 \/ (i \in Int /\ 1 < i /\ i - 1 \in 1 .. Len(q) /\ q[i - 1] = p[i])
  OBVIOUS
<1> HIDE DEF q, h
<1>2. 1 \in Queue(p, h.conv)
  BY <1>1, Zenon DEF Queue
<1>3. ASSUME NEW d, NEW i \in Queue(q, d)
      PROVE  i \in Int /\ i >= 1 /\ i + 1 \in Queue(p, d) /\ q[i] = p[i + 1]
  BY <1>1, Zenon DEF Queue
<1>4. ASSUME NEW d, NEW i \in Queue(p, d)
      PROVE  i = 1 \/ (i \in Int /\ 1 < i /\ i - 1 \in Queue(q, d) /\ q[i - 1] = p[i])
  BY <1>1, Zenon DEF Queue
<1>5. QED
  BY <1>1, <1>2, <1>3, <1>4, Zenon DEF q, h

\* A turn starts with nothing on its way.
LEMMA StreamStarts ==
  ASSUME NEW c, NEW p, Queue(p, c) = {}, NEW cl, NEW ca, cl => ca, NEW en \in {0, Off}
  PROVE  Stream(c, <<>>, <<>>, p, {}, en, cl, ca)
<1>1. 1 .. Len(<<>>) = {} /\ 1 .. 0 = {}
  OBVIOUS
<1>2. InOrder(c, <<>>, <<>>, p, {})
  BY <1>1, Zenon DEF InOrder
<1>3. Seen(c, <<>>, <<>>, p, {}) = {}
  BY <1>1, Zenon DEF Seen
<1>4. ~Complete(c, <<>>, p) /\ ~Ending(c, <<>>, p)
  BY <1>1, Zenon DEF Complete, Ending
<1>5. en # Off => 1 .. en = {}
  BY <1>1, Zenon
<1>6. QED
  BY <1>2, <1>3, <1>4, <1>5, Zenon DEF Stream

\* It fails to start: an error in the channel at most.
LEMMA StreamFailsToStart ==
  ASSUME NEW c, NEW p, Queue(p, c) = {}, NEW ca, NEW ch \in {<<>>, <<Error>>}
  PROVE  Stream(c, <<>>, ch, p, {}, Off, TRUE, ca)
<1>1. 1 .. Len(<<>>) = {} /\ \A i \in 1 .. Len(ch) : i = 1 /\ ch[i] = Error
  OBVIOUS
<1>2. InOrder(c, <<>>, ch, p, {})
  <2>1. \A i, j \in 1 .. Len(ch) : ~(i < j)
    BY <1>1
  <2>2. QED
    BY <1>1, <2>1, Zenon DEF InOrder
<1>3. ~Complete(c, ch, p)
  BY <1>1, Alphabet, Zenon DEF Complete
<1>4. \A i \in 1 .. Len(ch) : ch[i] # Sentinel
  BY <1>1, Alphabet, Zenon
<1>5. QED
  BY <1>2, <1>3, <1>4, Zenon DEF Stream

\* SendAsync takes a chunk.
LEMMA StreamTakes ==
  ASSUME NEW c, NEW go \in Seq(Text), NEW ch \in Seq(0 .. Error), NEW p, NEW dr, NEW en, NEW cl, NEW ca,
         Stream(c, go, ch, p, dr, en, cl, ca), ch # <<>>, Head(ch) \in Text
  PROVE  Stream(c, Append(go, Head(ch)), Tail(ch), p, dr, en, cl, ca)
<1> DEFINE g == Append(go, Head(ch))
           t == Tail(ch)
           x == Head(ch)
<1>1. /\ Len(g) = Len(go) + 1 /\ g[Len(go) + 1] = x /\ Len(go) \in Nat
      /\ \A i \in 1 .. Len(go) : g[i] = go[i]
      /\ x = ch[1] /\ 1 \in 1 .. Len(ch)
      /\ \A i \in 1 .. Len(t) : i + 1 \in 1 .. Len(ch) /\ t[i] = ch[i + 1] /\ 1 < i + 1 /\ i \in Int
      /\ \A i \in 1 .. Len(ch) : i = 1 \/ (i - 1 \in 1 .. Len(t) /\ t[i - 1] = ch[i])
  OBVIOUS
<1>2. /\ \A i \in 1 .. Len(g) : i \in 1 .. Len(go) \/ i = Len(go) + 1
      /\ \A i \in 1 .. Len(go) : i \in 1 .. Len(g) /\ i < Len(go) + 1 /\ ~(Len(go) + 1 < i)
      /\ Len(go) + 1 \in 1 .. Len(g) /\ ~(Len(go) + 1 < Len(go) + 1)
      /\ \A i, j \in 1 .. Len(t) : i < j => i + 1 < j + 1
  BY <1>1
<1> HIDE DEF g, t, x
<1>3. x \in Text
  BY Zenon DEF x
<1>4. InOrder(c, go, ch, p, dr)
  BY Zenon DEF Stream
<1>5. \A i, j \in 1 .. Len(g) : i < j => g[i] < g[j]
  <2> SUFFICES ASSUME NEW i \in 1 .. Len(g), NEW j \in 1 .. Len(g), i < j PROVE g[i] < g[j]
    BY Zenon
  <2>1. i \in 1 .. Len(go)
    <3>1. ASSUME i = Len(go) + 1 PROVE FALSE
      BY <1>2, <3>1, Zenon
    <3>2. QED
      BY <1>2, <3>1, Zenon
  <2>2. CASE j \in 1 .. Len(go)
    BY <1>1, <1>4, <2>1, <2>2, Zenon DEF InOrder
  <2>3. CASE j = Len(go) + 1
    <3>1. go[i] < ch[1]
      BY <1>1, <1>3, <1>4, <2>1, Zenon DEF InOrder
    <3>2. g[i] = go[i] /\ g[j] = ch[1]
      BY <1>1, <2>1, <2>3, Zenon
    <3>3. QED
      BY <3>1, <3>2, Zenon
  <2>4. QED
    BY <1>2, <2>2, <2>3, Zenon
<1>6. \A i \in 1 .. Len(g) : (\E k \in 1 .. Len(go) : g[i] = go[k]) \/ g[i] = ch[1]
  BY <1>1, <1>2, Zenon
<1>7. \A i \in 1 .. Len(g), j \in 1 .. Len(t) : t[j] \in Text => g[i] < t[j]
  <2> SUFFICES ASSUME NEW i \in 1 .. Len(g), NEW j \in 1 .. Len(t), t[j] \in Text PROVE g[i] < t[j]
    BY Zenon
  <2>1. t[j] = ch[j + 1] /\ j + 1 \in 1 .. Len(ch) /\ 1 < j + 1 /\ ch[j + 1] \in Text
    BY <1>1, Zenon
  <2>2. ch[1] < ch[j + 1]
    BY <1>1, <1>4, <2>1, Zenon DEF InOrder
  <2>3. \A k \in 1 .. Len(go) : go[k] < ch[j + 1]
    BY <1>4, <2>1, Zenon DEF InOrder
  <2>4. QED
    BY <1>6, <2>1, <2>2, <2>3, Zenon
<1>8. \A i \in 1 .. Len(g), j \in Queue(p, c) : p[j].chunk \in Text => g[i] < p[j].chunk
  <2> SUFFICES ASSUME NEW i \in 1 .. Len(g), NEW j \in Queue(p, c), p[j].chunk \in Text
               PROVE  g[i] < p[j].chunk
    BY Zenon
  <2>1. ch[1] < p[j].chunk
    BY <1>1, <1>4, Zenon DEF InOrder
  <2>2. \A k \in 1 .. Len(go) : go[k] < p[j].chunk
    BY <1>4, Zenon DEF InOrder
  <2>3. QED
    BY <1>6, <2>1, <2>2, Zenon
<1>9. \A i, j \in 1 .. Len(t) : i < j => t[i] \in Text /\ (t[j] \in Text => t[i] < t[j])
  <2> SUFFICES ASSUME NEW i \in 1 .. Len(t), NEW j \in 1 .. Len(t), i < j
               PROVE  t[i] \in Text /\ (t[j] \in Text => t[i] < t[j])
    BY Zenon
  <2>1. ch[i + 1] \in Text /\ (ch[j + 1] \in Text => ch[i + 1] < ch[j + 1])
    BY <1>1, <1>2, <1>4, Zenon DEF InOrder
  <2>2. QED
    BY <1>1, <2>1, Zenon
<1>10. \A i \in 1 .. Len(t) : \E k \in 1 .. Len(ch) : t[i] = ch[k]
  BY <1>1, Zenon
<1>11. \A i \in 1 .. Len(t), j \in Queue(p, c) : t[i] \in Text /\ (p[j].chunk \in Text => t[i] < p[j].chunk)
  <2> SUFFICES ASSUME NEW i \in 1 .. Len(t), NEW j \in Queue(p, c)
               PROVE  t[i] \in Text /\ (p[j].chunk \in Text => t[i] < p[j].chunk)
    BY Zenon
  <2>1. PICK k \in 1 .. Len(ch) : t[i] = ch[k]
    BY <1>10, Zenon
  <2>2. ch[k] \in Text /\ (p[j].chunk \in Text => ch[k] < p[j].chunk)
    BY <1>4, Zenon DEF InOrder
  <2>3. QED
    BY <2>1, <2>2, Zenon
<1>12. \A i \in 1 .. Len(g) : g[i] \notin dr
  <2>1. ch[1] \in Text
    BY <1>1, <1>3, Zenon
  <2>2. ch[1] \notin dr /\ \A k \in 1 .. Len(go) : go[k] \notin dr
    BY <1>1, <1>4, <2>1, Zenon DEF InOrder
  <2>3. QED
    BY <1>6, <2>2, Zenon
<1>13. \A i \in 1 .. Len(t) : t[i] \in Text => t[i] \notin dr
  BY <1>4, <1>10, Zenon DEF InOrder
<1>14. InOrder(c, g, t, p, dr)
  BY <1>4, <1>5, <1>7, <1>8, <1>9, <1>11, <1>12, <1>13, Zenon DEF InOrder
<1>15. Seen(c, g, t, p, dr) = Seen(c, go, ch, p, dr)
  <2>1. {g[i] : i \in 1 .. Len(g)} \cup {t[i] : i \in 1 .. Len(t)}
          = {go[i] : i \in 1 .. Len(go)} \cup {ch[i] : i \in 1 .. Len(ch)}
    <3>1. ASSUME NEW i \in 1 .. Len(go) PROVE \E k \in 1 .. Len(g) : go[i] = g[k]
      BY <1>1, <1>2, Zenon
    <3>2. ASSUME NEW i \in 1 .. Len(ch)
          PROVE  (\E k \in 1 .. Len(t) : ch[i] = t[k]) \/ (\E k \in 1 .. Len(g) : ch[i] = g[k])
      BY <1>1, <1>2, Zenon
    <3>3. ASSUME NEW i \in 1 .. Len(g)
          PROVE  (\E k \in 1 .. Len(go) : g[i] = go[k]) \/ (\E k \in 1 .. Len(ch) : g[i] = ch[k])
      BY <1>1, <1>6, Zenon
    <3>4. /\ {go[i] : i \in 1 .. Len(go)} \subseteq {g[i] : i \in 1 .. Len(g)}
          /\ {t[i] : i \in 1 .. Len(t)} \subseteq {ch[i] : i \in 1 .. Len(ch)}
      <4>1. {go[i] : i \in 1 .. Len(go)} \subseteq {g[i] : i \in 1 .. Len(g)}
        BY <3>1, Zenon
      <4>2. {t[i] : i \in 1 .. Len(t)} \subseteq {ch[i] : i \in 1 .. Len(ch)}
        BY <1>10, Zenon
      <4>3. QED
        BY <4>1, <4>2, Zenon
    <3>5. {ch[i] : i \in 1 .. Len(ch)} \subseteq {g[i] : i \in 1 .. Len(g)} \cup {t[i] : i \in 1 .. Len(t)}
      BY <3>2, Zenon
    <3>6. {g[i] : i \in 1 .. Len(g)} \subseteq {go[i] : i \in 1 .. Len(go)} \cup {ch[i] : i \in 1 .. Len(ch)}
      BY <3>3, Zenon
    <3>7. \A A, B, C, D : A \subseteq B /\ C \subseteq D /\ D \subseteq B \cup C /\ B \subseteq A \cup D => B \cup C = A \cup D
      BY Zenon
    <3>8. QED
      BY <3>4, <3>5, <3>6, <3>7, Zenon
  <2>2. QED
    BY <2>1, Zenon DEF Seen
<1>16. Complete(c, t, p) => Complete(c, ch, p)
  BY <1>10, Zenon DEF Complete
<1>17. Ending(c, t, p) => Ending(c, ch, p)
  BY <1>10, Zenon DEF Ending
<1>18. (\A i \in 1 .. Len(ch) : ch[i] # Sentinel) => \A i \in 1 .. Len(t) : t[i] # Sentinel
  BY <1>10, Zenon
<1>19. Stream(c, g, t, p, dr, en, cl, ca)
  BY <1>14, <1>15, <1>16, <1>17, <1>18, Zenon DEF Stream
<1>20. QED
  BY <1>19, Zenon DEF g, t, x

\* The engine's callback posts the next chunk, the end or an error.
LEMMA StreamPosts ==
  ASSUME NEW c \in Conv, NEW go \in Seq(Text), NEW ch \in Seq(0 .. Error), NEW p \in Seq(Item),
         NEW dr \in SUBSET (0 .. Error), NEW en \in 0 .. Off, NEW cl,
         Stream(c, go, ch, p, dr, en, cl, FALSE), en # Off,
         \A i \in 1 .. Len(p) : p[i].final \/ p[i].chunk \in Text,
         NEW h \in Item, h.conv = c, NEW e \in 0 .. Off,
         \/ en < N /\ h.chunk = en + 1 /\ ~h.final /\ e = en + 1
         \/ en + 1 = N /\ h.chunk = N /\ h.final /\ e = Off
         \/ en = N /\ h.chunk = Sentinel /\ h.final /\ e = Off
         \/ h.chunk = Error /\ h.final /\ e = Off
  PROVE  Stream(c, go, ch, Append(p, h), dr, e, cl, FALSE)
<1> DEFINE q == Append(p, h)
           n == Len(p) + 1
<1>1. /\ q[n] = h /\ \A i \in 1 .. Len(p) : q[i] = p[i]
      /\ Queue(q, c) = Queue(p, c) \cup {n}
  BY QueueAppend, Zenon
<1> HIDE DEF q
<1>2. \A i \in Queue(p, c) : i \in 1 .. Len(p) /\ i < n /\ ~(n < i) /\ q[i] = p[i]
  <2>1. \A i \in 1 .. Len(p) : i < n /\ ~(n < i)
    OBVIOUS
  <2>2. QED
    BY <1>1, <2>1, Zenon DEF Queue
<1>3. InOrder(c, go, ch, p, dr) /\ Seen(c, go, ch, p, dr) = 1 .. en /\ ~Ending(c, ch, p) /\ ~cl
  BY Zenon DEF Stream
<1>4. /\ \A i \in 1 .. Len(ch) : ch[i] \in Text
      /\ \A i \in Queue(p, c) : ~p[i].final /\ p[i].chunk \in Text
  BY <1>2, <1>3, Zenon DEF Ending
<1>5. h.chunk \in Text => h.chunk = en + 1
  BY Alphabet, StreamAssumption, Zenon
<1>6. ASSUME NEW x \in Seen(c, go, ch, p, dr), h.chunk \in Text PROVE x < h.chunk
  <2>1. x \in 1 .. en
    BY <1>3, Zenon
  <2>2. QED
    BY <1>5, <1>6, <2>1
<1>7. /\ \A i \in 1 .. Len(go) : go[i] \in Seen(c, go, ch, p, dr)
      /\ \A i \in 1 .. Len(ch) : ch[i] \in Seen(c, go, ch, p, dr)
      /\ \A i \in Queue(p, c) : p[i].chunk \in Seen(c, go, ch, p, dr)
      /\ \A x \in dr : x \in Text => x \in Seen(c, go, ch, p, dr)
  <2>1. \A i \in 1 .. Len(go) : go[i] \in Text
    OBVIOUS
  <2>2. QED
    BY <1>4, <2>1, Zenon DEF Seen
<1>8. InOrder(c, go, ch, q, dr)
  <2>1. ASSUME NEW j \in Queue(q, c) PROVE (j \in Queue(p, c) /\ q[j] = p[j]) \/ (j = n /\ q[j] = h)
    BY <1>1, <1>2, Zenon
  <2>2. \A i \in 1 .. Len(go), j \in Queue(q, c) : q[j].chunk \in Text => go[i] < q[j].chunk
    <3> SUFFICES ASSUME NEW i \in 1 .. Len(go), NEW j \in Queue(q, c), q[j].chunk \in Text
                 PROVE  go[i] < q[j].chunk
      BY Zenon
    <3>1. CASE j \in Queue(p, c) /\ q[j] = p[j]
      BY <1>3, <3>1, Zenon DEF InOrder
    <3>2. CASE j = n /\ q[j] = h
      BY <1>6, <1>7, <3>2, Zenon
    <3>3. QED
      BY <2>1, <3>1, <3>2, Zenon
  <2>3. \A i \in 1 .. Len(ch), j \in Queue(q, c) : ch[i] \in Text /\ (q[j].chunk \in Text => ch[i] < q[j].chunk)
    <3> SUFFICES ASSUME NEW i \in 1 .. Len(ch), NEW j \in Queue(q, c)
                 PROVE  ch[i] \in Text /\ (q[j].chunk \in Text => ch[i] < q[j].chunk)
      BY Zenon
    <3>1. CASE j \in Queue(p, c) /\ q[j] = p[j]
      BY <1>3, <3>1, Zenon DEF InOrder
    <3>2. CASE j = n /\ q[j] = h
      BY <1>4, <1>6, <1>7, <3>2, Zenon
    <3>3. QED
      BY <2>1, <3>1, <3>2, Zenon
  <2>4. \A i, j \in Queue(q, c) : i < j =>
          q[i].chunk \in Text /\ ~q[i].final /\ (q[j].chunk \in Text => q[i].chunk < q[j].chunk)
    <3> SUFFICES ASSUME NEW i \in Queue(q, c), NEW j \in Queue(q, c), i < j
                 PROVE  q[i].chunk \in Text /\ ~q[i].final /\ (q[j].chunk \in Text => q[i].chunk < q[j].chunk)
      BY Zenon
    <3>1. i \in Queue(p, c) /\ q[i] = p[i]
      <4>1. ~(n < n)
        OBVIOUS
      <4>2. QED
        BY <1>2, <2>1, <4>1, Zenon
    <3>2. CASE j \in Queue(p, c) /\ q[j] = p[j]
      <4>1. p[i].chunk \in Text /\ ~p[i].final /\ (p[j].chunk \in Text => p[i].chunk < p[j].chunk)
        BY <1>3, <3>1, <3>2, Zenon DEF InOrder
      <4>2. QED
        BY <3>1, <3>2, <4>1, Zenon
    <3>3. CASE j = n /\ q[j] = h
      BY <1>4, <1>6, <1>7, <3>1, <3>3, Zenon
    <3>4. QED
      BY <2>1, <3>2, <3>3, Zenon
  <2>5. \A x \in dr, j \in Queue(q, c) : x \in Text /\ q[j].chunk \in Text => x < q[j].chunk
    <3> SUFFICES ASSUME NEW x \in dr, NEW j \in Queue(q, c), x \in Text, q[j].chunk \in Text
                 PROVE  x < q[j].chunk
      BY Zenon
    <3>1. CASE j \in Queue(p, c) /\ q[j] = p[j]
      BY <1>3, <3>1, Zenon DEF InOrder
    <3>2. CASE j = n /\ q[j] = h
      BY <1>6, <1>7, <3>2, Zenon
    <3>3. QED
      BY <2>1, <3>1, <3>2, Zenon
  <2>6. QED
    BY <1>3, <2>2, <2>3, <2>4, <2>5, Zenon DEF InOrder
<1>9. Seen(c, go, ch, q, dr) = 1 .. en \cup ({h.chunk} \cap Text)
  <2>1. {q[i].chunk : i \in Queue(q, c)} = {p[i].chunk : i \in Queue(p, c)} \cup {h.chunk}
    <3>1. ASSUME NEW i \in Queue(q, c)
          PROVE  q[i].chunk = h.chunk \/ \E j \in Queue(p, c) : q[i].chunk = p[j].chunk
      BY <1>1, <1>2, Zenon
    <3>2. ASSUME NEW i \in Queue(p, c) PROVE \E j \in Queue(q, c) : p[i].chunk = q[j].chunk
      BY <1>1, <1>2, Zenon
    <3>3. \E j \in Queue(q, c) : h.chunk = q[j].chunk
      BY <1>1, Zenon
    <3>4. ASSUME NEW x \in {q[i].chunk : i \in Queue(q, c)}
          PROVE  x \in {p[i].chunk : i \in Queue(p, c)} \cup {h.chunk}
      BY <3>1, Zenon
    <3>5. ASSUME NEW x \in {p[i].chunk : i \in Queue(p, c)} \cup {h.chunk}
          PROVE  x \in {q[i].chunk : i \in Queue(q, c)}
      <4>1. CASE x = h.chunk
        BY <3>3, <4>1, Zenon
      <4>2. CASE x \in {p[i].chunk : i \in Queue(p, c)}
        <5>1. PICK i \in Queue(p, c) : x = p[i].chunk
          BY <4>2, Zenon
        <5>2. QED
          BY <3>2, <5>1, Zenon
      <4>3. QED
        BY <3>5, <4>1, <4>2, Zenon
    <3>6. QED
      BY <3>4, <3>5, Zenon
  <2>2. Seen(c, go, ch, q, dr) = Seen(c, go, ch, p, dr) \cup ({h.chunk} \cap Text)
    BY <2>1, Zenon DEF Seen
  <2>3. QED
    BY <1>3, <2>2, Zenon
<1>10. e # Off => Seen(c, go, ch, q, dr) = 1 .. e
  BY <1>9, StreamAssumption DEF Text, Off
<1>11. Complete(c, ch, q) => Seen(c, go, ch, q, dr) = Text
  <2>1. ~Complete(c, ch, p)
    BY <1>4, Alphabet, Zenon DEF Complete
  <2>2. Complete(c, ch, q) => h.final /\ h.chunk # Error
    BY <1>1, <1>2, <2>1, Zenon DEF Complete
  <2>3. h.final /\ h.chunk # Error => (en + 1 = N /\ h.chunk = N) \/ (en = N /\ h.chunk = Sentinel)
    BY Zenon
  <2>4. h.final /\ h.chunk # Error => 1 .. en \cup ({h.chunk} \cap Text) = Text
    BY <2>3, Alphabet, StreamAssumption DEF Text
  <2>5. QED
    BY <1>9, <2>2, <2>4, Zenon
<1>12. Ending(c, ch, q) => e = Off
  <2>1. Ending(c, ch, q) => h.final
    BY <1>1, <1>2, <1>4, Zenon DEF Ending
  <2>2. QED
    BY <2>1, Zenon
<1>13. Stream(c, go, ch, q, dr, e, cl, FALSE)
  BY <1>3, <1>8, <1>10, <1>11, <1>12, Zenon DEF Stream
<1>14. QED
  BY <1>13, Zenon DEF q

\* A handler: what it sends is behind the channel's content, in order, and the
\* rest is dropped.
LEMMA StreamHandles ==
  ASSUME NEW c \in Conv, NEW go \in Seq(Text), NEW ch \in Seq(0 .. Error), NEW p \in Seq(Item),
         NEW dr \in SUBSET (0 .. Error), NEW en \in 0 .. Off, NEW cl, NEW ca,
         NEW s \in Seq(0 .. Error), NEW lost \in SUBSET (0 .. Error), NEW cn,
         Stream(c, go, ch, p, dr, en, cl, ca), 1 \in Queue(p, c),
         \A i \in 1 .. Len(p) : p[i].final \/ p[i].chunk \in Text,
         Advances(p[1], ch, s, lost), cn => cl \/ p[1].chunk = Error
  PROVE  Stream(c, go, s, Tail(p), dr \cup lost, en, cn, ca)
<1> DEFINE q == Tail(p)
           h == p[1]
           L == Len(ch)
           New == L + 1 .. Len(s)
           d == dr \cup lost
<1>0. /\ L <= Len(s) /\ \A i \in 1 .. L : s[i] = ch[i]
      /\ \A i \in New : s[i] = h.chunk \/ (s[i] = Sentinel /\ h.final /\ h.chunk # Error)
      /\ \A i, j \in New : i < j => s[i] \in Text /\ s[j] \notin Text
      /\ \A x \in lost : (x = h.chunk /\ \A i \in New : s[i] # x) \/ x = Sentinel
      /\ h.chunk \in lost \/ \E i \in New : s[i] = h.chunk
      /\ cn => cl \/ h.chunk = Error
  BY Zenon DEF Advances
<1>1. /\ h = p[1] /\ h \in Item /\ 1 \in Queue(p, c) /\ h.conv = c /\ 1 \in 1 .. Len(p)
      /\ \A i \in Queue(q, c) : i \in Int /\ i + 1 \in Queue(p, c) /\ q[i] = p[i + 1] /\ 1 < i + 1
      /\ \A i \in Queue(p, c) : i = 1 \/ (i - 1 \in Queue(q, c) /\ q[i - 1] = p[i])
  <2>1. /\ h = p[1] /\ h \in Item /\ 1 \in Queue(p, h.conv)
        /\ \A i \in Queue(q, c) : i \in Int /\ i >= 1 /\ i + 1 \in Queue(p, c) /\ q[i] = p[i + 1]
        /\ \A i \in Queue(p, c) : i = 1 \/ (i \in Int /\ 1 < i /\ i - 1 \in Queue(q, c) /\ q[i - 1] = p[i])
    <3> HIDE DEF q, h
    <3>0. p # <<>> /\ h = Head(p)
      BY DEF Queue, h
    <3>1. /\ h = p[1] /\ h \in Item /\ 1 \in Queue(p, h.conv)
          /\ \A e : \A i \in Queue(q, e) : i \in Int /\ i >= 1 /\ i + 1 \in Queue(p, e) /\ q[i] = p[i + 1]
          /\ \A e : \A i \in Queue(p, e) : i = 1 \/ (i \in Int /\ 1 < i /\ i - 1 \in Queue(q, e) /\ q[i - 1] = p[i])
      BY <3>0, QueueTail, Zenon DEF q
    <3>2. QED
      BY <3>1, Zenon
  <2>2. \A i \in Int : i >= 1 => 1 < i + 1
    OBVIOUS
  <2>3. 1 \in 1 .. Len(p)
    BY <2>1, Zenon DEF Queue
  <2>4. h.conv = c
    BY Zenon DEF Queue
  <2>5. QED
    BY <2>1, <2>2, <2>3, <2>4, Zenon
<1>2. /\ L \in Nat /\ Len(s) \in Nat
      /\ \A i \in 1 .. Len(s) : i \in 1 .. L \/ i \in New
      /\ \A i \in 1 .. L : i \in 1 .. Len(s)
      /\ \A i \in New : i \in 1 .. Len(s)
      /\ \A i \in 1 .. L, j \in New : i < j /\ ~(j < i)
      /\ \A i, j \in Queue(q, c) : i < j => i + 1 < j + 1
  BY <1>0, <1>1
<1> HIDE DEF q, h, L, New, d
<1>3. /\ InOrder(c, go, ch, p, dr)
      /\ en # Off /\ ~ca => Seen(c, go, ch, p, dr) = 1 .. en
      /\ Complete(c, ch, p) => Seen(c, go, ch, p, dr) = Text
      /\ Ending(c, ch, p) => en = Off
      /\ cl => ca
  BY <1>1, Zenon DEF Stream
<1>4. /\ \A i \in 1 .. L : s[i] = ch[i]
      /\ \A i \in New : s[i] = h.chunk \/ (s[i] = Sentinel /\ h.final /\ h.chunk # Error)
      /\ \A i, j \in New : i < j => s[i] \in Text /\ s[j] \notin Text
      /\ \A x \in lost : (x = h.chunk /\ \A i \in New : s[i] # x) \/ x = Sentinel
      /\ h.chunk \in lost \/ \E i \in New : s[i] = h.chunk
      /\ h.final \/ h.chunk \in Text
  BY <1>0, <1>1, Zenon DEF h
<1>5. /\ \A i \in New : s[i] \in Text => s[i] = h.chunk
      /\ \A x \in lost : x \in Text => x = h.chunk
  BY <1>4, Alphabet, Zenon
\* What h is behind of, and what is behind h.
<1>6. /\ \A i \in 1 .. L : ch[i] \in Text /\ (h.chunk \in Text => ch[i] < h.chunk)
      /\ h.chunk \in Text => /\ \A i \in 1 .. Len(go) : go[i] < h.chunk
                             /\ \A x \in dr : x \in Text => x < h.chunk
      /\ \A j \in Queue(q, c) : h.chunk \in Text /\ ~h.final /\ (q[j].chunk \in Text => h.chunk < q[j].chunk)
  <2>1. \A j \in Queue(p, c) : 1 < j => h.chunk \in Text /\ ~h.final /\ (p[j].chunk \in Text => h.chunk < p[j].chunk)
    BY <1>1, <1>3, Zenon DEF InOrder
  <2>2. \A j \in Queue(q, c) : h.chunk \in Text /\ ~h.final /\ (q[j].chunk \in Text => h.chunk < q[j].chunk)
    <3> SUFFICES ASSUME NEW j \in Queue(q, c)
                 PROVE  h.chunk \in Text /\ ~h.final /\ (q[j].chunk \in Text => h.chunk < q[j].chunk)
      BY Zenon
    <3>1. j + 1 \in Queue(p, c) /\ 1 < j + 1 /\ q[j] = p[j + 1]
      BY <1>1, Zenon
    <3>2. h.chunk \in Text /\ ~h.final /\ (p[j + 1].chunk \in Text => h.chunk < p[j + 1].chunk)
      BY <2>1, <3>1, Zenon
    <3>3. QED
      BY <3>1, <3>2, Zenon
  <2>3. \A i \in 1 .. L : ch[i] \in Text /\ (h.chunk \in Text => ch[i] < h.chunk)
    BY <1>1, <1>3, Zenon DEF InOrder, L
  <2>4. h.chunk \in Text => /\ \A i \in 1 .. Len(go) : go[i] < h.chunk
                            /\ \A x \in dr : x \in Text => x < h.chunk
    BY <1>1, <1>3, Zenon DEF InOrder
  <2>5. QED
    BY <2>2, <2>3, <2>4, Zenon
<1>7. \A i \in 1 .. Len(s) : (i \in 1 .. L /\ s[i] = ch[i]) \/ i \in New
  BY <1>2, <1>4, Zenon
<1>8. InOrder(c, go, s, q, d)
  <2>1. \A i \in 1 .. Len(go), j \in 1 .. Len(s) : s[j] \in Text => go[i] < s[j]
    <3> SUFFICES ASSUME NEW i \in 1 .. Len(go), NEW j \in 1 .. Len(s), s[j] \in Text PROVE go[i] < s[j]
      BY Zenon
    <3>1. CASE j \in 1 .. L /\ s[j] = ch[j]
      BY <1>3, <3>1, Zenon DEF InOrder, L
    <3>2. CASE j \in New
      BY <1>5, <1>6, <3>2, Zenon
    <3>3. QED
      BY <1>7, <3>1, <3>2, Zenon
  <2>2. \A i \in 1 .. Len(go), j \in Queue(q, c) : q[j].chunk \in Text => go[i] < q[j].chunk
    <3> SUFFICES ASSUME NEW i \in 1 .. Len(go), NEW j \in Queue(q, c), q[j].chunk \in Text
                 PROVE  go[i] < q[j].chunk
      BY Zenon
    <3>1. j + 1 \in Queue(p, c) /\ q[j] = p[j + 1]
      BY <1>1, Zenon
    <3>2. go[i] < p[j + 1].chunk
      BY <1>3, <3>1, Zenon DEF InOrder
    <3>3. QED
      BY <3>1, <3>2, Zenon
  <2>3. \A i, j \in 1 .. Len(s) : i < j => s[i] \in Text /\ (s[j] \in Text => s[i] < s[j])
    <3> SUFFICES ASSUME NEW i \in 1 .. Len(s), NEW j \in 1 .. Len(s), i < j
                 PROVE  s[i] \in Text /\ (s[j] \in Text => s[i] < s[j])
      BY Zenon
    <3>1. CASE (i \in 1 .. L /\ s[i] = ch[i]) /\ (j \in 1 .. L /\ s[j] = ch[j])
      <4>1. ch[i] \in Text /\ (ch[j] \in Text => ch[i] < ch[j])
        BY <1>3, <3>1, Zenon DEF InOrder, L
      <4>2. QED
        BY <3>1, <4>1, Zenon
    <3>2. CASE (i \in 1 .. L /\ s[i] = ch[i]) /\ j \in New
      <4>1. s[j] \in Text => s[j] = h.chunk
        BY <1>5, <3>2, Zenon
      <4>2. QED
        BY <1>6, <3>2, <4>1, Zenon
    <3>3. CASE i \in New /\ j \in New
      BY <1>4, <3>3, Zenon
    <3>4. CASE i \in New /\ j \in 1 .. L
      BY <1>2, <3>4, Zenon
    <3>5. QED
      BY <1>7, <3>1, <3>2, <3>3, <3>4, Zenon
  <2>4. \A i \in 1 .. Len(s), j \in Queue(q, c) : s[i] \in Text /\ (q[j].chunk \in Text => s[i] < q[j].chunk)
    <3> SUFFICES ASSUME NEW i \in 1 .. Len(s), NEW j \in Queue(q, c)
                 PROVE  s[i] \in Text /\ (q[j].chunk \in Text => s[i] < q[j].chunk)
      BY Zenon
    <3>1. CASE i \in 1 .. L /\ s[i] = ch[i]
      <4>1. j + 1 \in Queue(p, c) /\ q[j] = p[j + 1]
        BY <1>1, Zenon
      <4>2. ch[i] \in Text /\ (p[j + 1].chunk \in Text => ch[i] < p[j + 1].chunk)
        BY <1>3, <3>1, <4>1, Zenon DEF InOrder, L
      <4>3. QED
        BY <3>1, <4>1, <4>2, Zenon
    <3>2. CASE i \in New
      <4>1. s[i] = h.chunk
        BY <1>4, <1>6, <3>2, Zenon
      <4>2. QED
        BY <1>6, <4>1, Zenon
    <3>3. QED
      BY <1>7, <3>1, <3>2, Zenon
  <2>5. \A i, j \in Queue(q, c) : i < j =>
          q[i].chunk \in Text /\ ~q[i].final /\ (q[j].chunk \in Text => q[i].chunk < q[j].chunk)
    <3> SUFFICES ASSUME NEW i \in Queue(q, c), NEW j \in Queue(q, c), i < j
                 PROVE  q[i].chunk \in Text /\ ~q[i].final /\ (q[j].chunk \in Text => q[i].chunk < q[j].chunk)
      BY Zenon
    <3>1. i + 1 < j + 1 /\ i + 1 \in Queue(p, c) /\ j + 1 \in Queue(p, c) /\ q[i] = p[i + 1] /\ q[j] = p[j + 1]
      BY <1>1, <1>2, Zenon
    <3>2. p[i + 1].chunk \in Text /\ ~p[i + 1].final /\ (p[j + 1].chunk \in Text => p[i + 1].chunk < p[j + 1].chunk)
      BY <1>3, <3>1, Zenon DEF InOrder
    <3>3. QED
      BY <3>1, <3>2, Zenon
  <2>6. \A i \in 1 .. Len(go) : go[i] \notin d
    <3> SUFFICES ASSUME NEW i \in 1 .. Len(go), go[i] \in lost PROVE FALSE
      BY <1>3, Zenon DEF InOrder, d
    <3>1. go[i] \in Text /\ go[i] \in Int /\ ~(go[i] < go[i])
      BY StreamAssumption DEF Text
    <3>2. go[i] = h.chunk
      BY <1>5, <3>1, Zenon
    <3>3. QED
      BY <1>6, <3>1, <3>2, Zenon
  <2>7. \A i \in 1 .. Len(s) : s[i] \in Text => s[i] \notin d
    <3> SUFFICES ASSUME NEW i \in 1 .. Len(s), s[i] \in Text, s[i] \in d PROVE FALSE
      BY Zenon
    <3>0. ~(s[i] < s[i])
      BY StreamAssumption DEF Text
    <3>1. CASE i \in 1 .. L /\ s[i] = ch[i]
      <4>1. ch[i] \notin dr
        BY <1>3, <3>1, Zenon DEF InOrder, L
      <4>2. ch[i] = h.chunk
        BY <1>5, <3>1, <4>1, Zenon DEF d
      <4>3. ch[i] < h.chunk
        BY <1>6, <3>1, <4>2, Zenon
      <4>4. QED
        BY <3>0, <3>1, <4>2, <4>3, Zenon
    <3>2. CASE i \in New
      <4>1. s[i] = h.chunk
        BY <1>5, <3>2, Zenon
      <4>2. CASE s[i] \in dr
        <5>1. s[i] < h.chunk
          BY <1>6, <4>1, <4>2, Zenon
        <5>2. QED
          BY <3>0, <4>1, <5>1, Zenon
      <4>3. CASE s[i] \in lost
        <5>1. s[i] # Sentinel
          BY Alphabet, Zenon
        <5>2. QED
          BY <1>4, <3>2, <4>3, <5>1, Zenon
      <4>4. QED
        BY <4>2, <4>3, Zenon DEF d
    <3>3. QED
      BY <1>7, <3>1, <3>2, Zenon
  <2>8. \A x \in d, j \in Queue(q, c) : x \in Text /\ q[j].chunk \in Text => x < q[j].chunk
    <3> SUFFICES ASSUME NEW x \in d, NEW j \in Queue(q, c), x \in Text, q[j].chunk \in Text
                 PROVE  x < q[j].chunk
      BY Zenon
    <3>1. CASE x \in dr
      <4>1. j + 1 \in Queue(p, c) /\ q[j] = p[j + 1]
        BY <1>1, Zenon
      <4>2. x < p[j + 1].chunk
        BY <1>3, <3>1, <4>1, Zenon DEF InOrder
      <4>3. QED
        BY <4>1, <4>2, Zenon
    <3>2. CASE x \in lost
      <4>1. x = h.chunk
        BY <1>5, <3>2, Zenon
      <4>2. h.chunk < q[j].chunk
        BY <1>6, Zenon
      <4>3. QED
        BY <4>1, <4>2, Zenon
    <3>3. QED
      BY <3>1, <3>2, Zenon DEF d
  <2>9. QED
    BY <1>3, <2>1, <2>2, <2>3, <2>4, <2>5, <2>6, <2>7, <2>8, Zenon DEF InOrder
<1>9. Seen(c, go, s, q, d) = Seen(c, go, ch, p, dr)
  <2>0. /\ \A x : x \in Seen(c, go, s, q, d) <=>
             x \in Text /\ \/ \E i \in 1 .. Len(go) : x = go[i]
                           \/ \E i \in 1 .. Len(s) : x = s[i]
                           \/ \E i \in Queue(q, c) : x = q[i].chunk
                           \/ x \in dr \/ x \in lost
        /\ \A x : x \in Seen(c, go, ch, p, dr) <=>
             x \in Text /\ \/ \E i \in 1 .. Len(go) : x = go[i]
                           \/ \E i \in 1 .. L : x = ch[i]
                           \/ \E i \in Queue(p, c) : x = p[i].chunk
                           \/ x \in dr
    BY Zenon DEF Seen, d, L
  <2>1. ASSUME NEW x \in Text PROVE x = h.chunk => \E i \in Queue(p, c) : x = p[i].chunk
    BY <1>1, Zenon
  <2>2. ASSUME NEW x \in Text, NEW i \in 1 .. Len(s), x = s[i]
        PROVE  x = h.chunk \/ \E k \in 1 .. L : x = ch[k]
    BY <1>5, <1>7, <2>2, Zenon
  <2>3. ASSUME NEW x, NEW i \in Queue(q, c), x = q[i].chunk PROVE \E k \in Queue(p, c) : x = p[k].chunk
    <3>1. i + 1 \in Queue(p, c) /\ q[i] = p[i + 1]
      BY <1>1, Zenon
    <3>2. QED
      BY <2>3, <3>1, Zenon
  <2>4. ASSUME NEW x, NEW i \in 1 .. L, x = ch[i] PROVE \E k \in 1 .. Len(s) : x = s[k]
    <3>1. i \in 1 .. Len(s) /\ s[i] = ch[i]
      BY <1>2, <1>4, Zenon
    <3>2. QED
      BY <2>4, <3>1, Zenon
  <2>5. h.chunk \in lost \/ \E k \in 1 .. Len(s) : h.chunk = s[k]
    BY <1>2, <1>4, Zenon
  <2>6. ASSUME NEW x, NEW i \in Queue(p, c), x = p[i].chunk
        PROVE  x = h.chunk \/ \E k \in Queue(q, c) : x = q[k].chunk
    <3>1. CASE i = 1
      BY <1>1, <2>6, <3>1, Zenon
    <3>2. CASE i - 1 \in Queue(q, c) /\ q[i - 1] = p[i]
      BY <2>6, <3>2, Zenon
    <3>3. QED
      BY <1>1, <3>1, <3>2, Zenon
  <2>7. ASSUME NEW x \in Seen(c, go, s, q, d) PROVE x \in Seen(c, go, ch, p, dr)
    <3>1. x \in Text
      BY <2>0, Zenon
    <3>2. x \in lost => x = h.chunk
      BY <1>5, <3>1, Zenon
    <3>3. x = h.chunk => x \in Seen(c, go, ch, p, dr)
      BY <2>0, <2>1, <3>1, Zenon
    <3>4. (\E i \in 1 .. Len(s) : x = s[i]) => x \in Seen(c, go, ch, p, dr)
      BY <2>0, <2>2, <3>1, <3>3, Zenon
    <3>5. (\E i \in Queue(q, c) : x = q[i].chunk) => x \in Seen(c, go, ch, p, dr)
      BY <2>0, <2>3, <3>1, Zenon
    <3>6. (\E i \in 1 .. Len(go) : x = go[i]) \/ x \in dr => x \in Seen(c, go, ch, p, dr)
      BY <2>0, <3>1, Zenon
    <3>7. QED
      BY <2>0, <3>2, <3>3, <3>4, <3>5, <3>6, Zenon
  <2>8. ASSUME NEW x \in Seen(c, go, ch, p, dr) PROVE x \in Seen(c, go, s, q, d)
    <3>1. x \in Text
      BY <2>0, Zenon
    <3>2. x = h.chunk => x \in Seen(c, go, s, q, d)
      BY <2>0, <2>5, <3>1, Zenon
    <3>3. QED
      BY <2>0, <2>4, <2>6, <3>1, <3>2, Zenon
  <2>9. QED
    BY <2>7, <2>8, Zenon
<1>10. \A i \in 1 .. Len(s) : s[i] \notin Text => i \in New /\ h.final
  BY <1>4, <1>6, <1>7, Zenon
<1>11. Complete(c, s, q) => Complete(c, ch, p)
  <2>1. ASSUME NEW i \in 1 .. Len(s), s[i] = Sentinel PROVE Complete(c, ch, p)
    <3>1. i \in New /\ h.final /\ h.chunk # Error
      BY <1>4, <1>10, <2>1, Alphabet, Zenon
    <3>2. QED
      BY <1>1, <3>1, Zenon DEF Complete
  <2>2. ASSUME NEW i \in Queue(q, c), q[i].final, q[i].chunk # Error PROVE Complete(c, ch, p)
    <3>1. i + 1 \in Queue(p, c) /\ p[i + 1].final /\ p[i + 1].chunk # Error
      BY <1>1, <2>2, Zenon
    <3>2. QED
      BY <3>1, Zenon DEF Complete
  <2>3. QED
    BY <2>1, <2>2, Zenon DEF Complete
<1>12. Ending(c, s, q) => Ending(c, ch, p)
  BY <1>1, <1>10, Zenon DEF Ending
<1>13. ASSUME h.chunk = Error
       PROVE  en = Off /\ Queue(q, c) = {} /\ \A i \in 1 .. Len(s) : s[i] # Sentinel
  <2>1. h.chunk \notin Text
    BY <1>13, Alphabet, Zenon
  <2>2. en = Off
    BY <1>1, <1>3, <1>4, <2>1, Zenon DEF Ending
  <2>3. Queue(q, c) = {}
    BY <1>6, <2>1, Zenon
  <2>4. \A i \in 1 .. Len(s) : s[i] # Sentinel
    BY <1>4, <1>10, <1>13, Alphabet, Zenon
  <2>5. QED
    BY <2>2, <2>3, <2>4, Zenon
<1>14. Stream(c, go, s, q, d, en, cn, ca)
  BY <1>0, <1>3, <1>8, <1>9, <1>11, <1>12, <1>13, Zenon DEF Stream
<1>15. QED
  BY <1>14, Zenon DEF q, h, d

\* SendAsync takes the end of the turn: nothing is behind it, and the reply is
\* what was taken and what was dropped.
LEMMA StreamEnds ==
  ASSUME NEW c, NEW go \in Seq(Text), NEW ch \in Seq(0 .. Error), NEW p, NEW dr, NEW en, NEW cl, NEW ca,
         Stream(c, go, ch, p, dr, en, cl, ca), ch # <<>>, Head(ch) \notin Text
  PROVE  /\ en = Off
         /\ Head(ch) = Sentinel =>
              Rest(c, Tail(ch), p, cl, ca) /\ Delivered(go, dr)
<1>1. ch[1] = Head(ch) /\ 1 \in 1 .. Len(ch) /\ Len(ch) \in Nat /\ DOMAIN go = 1 .. Len(go)
  OBVIOUS
<1>2. InOrder(c, go, ch, p, dr)
  BY Zenon DEF Stream
<1>3. en = Off
  BY <1>1, Zenon DEF Stream, Ending
<1>4. Queue(p, c) = {} /\ \A j \in 1 .. Len(ch) : ~(1 < j)
  BY <1>1, <1>2, Zenon DEF InOrder
<1>5. Tail(ch) = <<>> /\ \A i \in 1 .. Len(ch) : i = 1
  <2>1. Len(ch) \in 1 .. Len(ch)
    BY <1>1
  <2>2. ~(1 < Len(ch))
    BY <1>4, <2>1, Zenon
  <2>3. Len(ch) = 1
    <3>1. \A n \in Nat : n \in 1 .. n /\ ~(1 < n) => n = 1
      OBVIOUS
    <3>2. QED
      BY <1>1, <2>1, <2>2, <3>1, Zenon
  <2>4. Tail(ch) \in Seq(0 .. Error) /\ Len(Tail(ch)) = Len(ch) - 1
    BY HeadTailProperties, Zenon
  <2>5. Len(Tail(ch)) = 0 /\ \A i \in 1 .. Len(ch) : i = 1
    BY <2>3, <2>4
  <2>6. Tail(ch) = <<>>
    BY <2>4, <2>5, EmptySeq, Zenon
  <2>7. QED
    BY <2>5, <2>6, Zenon
<1>6. ASSUME Head(ch) = Sentinel
      PROVE  Rest(c, Tail(ch), p, cl, ca) /\ Seen(c, go, ch, p, dr) = Text
  BY <1>1, <1>4, <1>5, <1>6, Zenon DEF Stream, Complete, Rest
<1>7. ASSUME Seen(c, go, ch, p, dr) = Text PROVE {go[i] : i \in 1 .. Len(go)} = Text \ dr
  <2>1. \A i \in 1 .. Len(go) : go[i] \in Text /\ go[i] \notin dr
    BY <1>2 DEF InOrder
  <2>2. ASSUME NEW x \in Text \ dr PROVE \E i \in 1 .. Len(go) : x = go[i]
    <3>1. x \in Seen(c, go, ch, p, dr) /\ \A i \in 1 .. Len(ch) : ch[i] # x
      BY <1>1, <1>5, <1>7, Zenon
    <3>2. QED
      BY <1>4, <3>1, Zenon DEF Seen
  <2>3. QED
    BY <2>1, <2>2, Zenon
<1>8. \A i, j \in 1 .. Len(go) : i < j => go[i] < go[j]
  BY <1>2, Zenon DEF InOrder
<1>9. QED
  BY <1>1, <1>3, <1>6, <1>7, <1>8, Zenon DEF Delivered

LEMMA TrySendShape ==
  ASSUME NEW c, NEW s, NEW x, Cap \in Nat, Len(s) \in Nat
  PROVE  TrySend(c, s, x) = s \/ (TrySend(c, s, x) = Append(s, x) /\ Len(s) < Cap + 1)
BY DEF TrySend, Room

LEMMA SentShape ==
  ASSUME TypeOK, NEW c \in Conv, NEW h \in Item, h.final \/ h.chunk \in Text
  PROVE  LET s == Sent(c, h)
             ch == chan[c]
         IN /\ s \in Seq(0 .. Error) /\ Len(ch) <= Len(s) /\ Len(s) <= Cap + 1
            /\ \A i \in 1 .. Len(ch) : s[i] = ch[i]
            /\ \A i \in Len(ch) + 1 .. Len(s) :
                 s[i] = h.chunk \/ (s[i] = Sentinel /\ h.final /\ h.chunk # Error)
            /\ \A i, j \in Len(ch) + 1 .. Len(s) : i < j => s[i] \in Text /\ s[j] \notin Text
<1> DEFINE ch == chan[c]
           t == IF h.chunk = Sentinel THEN ch ELSE TrySend(c, ch, h.chunk)
           s == Sent(c, h)
<1>1. ch \in Seq(0 .. Error) /\ Len(ch) <= Cap + 1 /\ Len(ch) \in Nat /\ Cap \in Nat /\ h.chunk \in 0 .. Error
  BY StreamAssumption DEF TypeOK, Item
<1>2. s = IF h.final /\ h.chunk # Error THEN TrySend(c, t, Sentinel) ELSE t
  BY Zenon DEF Sent
<1> HIDE DEF ch, s
<1>3. t = ch \/ (t = Append(ch, h.chunk) /\ h.chunk # Sentinel /\ Len(ch) < Cap + 1)
  BY <1>1, TrySendShape, Zenon
<1> HIDE DEF t
<1>4. t \in Seq(0 .. Error) /\ Len(t) \in Nat /\ Len(t) <= Cap + 1
  <2>1. CASE t = ch
    BY <1>1, <2>1, Zenon
  <2>2. CASE t = Append(ch, h.chunk) /\ Len(ch) < Cap + 1
    <3>1. t \in Seq(0 .. Error) /\ Len(t) = Len(ch) + 1
      BY <1>1, <2>2, AppendProperties, Zenon
    <3>2. QED
      BY <1>1, <2>2, <3>1
  <2>3. QED
    BY <1>3, <2>1, <2>2, Zenon
<1>5. s = t \/ (s = Append(t, Sentinel) /\ h.final /\ h.chunk # Error /\ Len(t) < Cap + 1)
  BY <1>1, <1>2, <1>4, TrySendShape, Zenon
<1>6. Sentinel \in 0 .. Error /\ Sentinel \notin Text /\ (h.chunk # Sentinel /\ h.chunk # Error => h.chunk \in Text)
  BY <1>1, Alphabet, Zenon
<1>7. CASE t = ch
  <2>1. CASE s = ch
    <3>1. Len(ch) + 1 .. Len(ch) = {} /\ Len(ch) <= Len(ch)
      BY <1>1
    <3>2. QED
      BY <1>1, <2>1, <3>1, Zenon DEF s, ch
  <2>2. CASE s = Append(ch, Sentinel) /\ h.final /\ h.chunk # Error /\ Len(ch) < Cap + 1
    <3>0. LET r == Append(ch, Sentinel)
          IN /\ r \in Seq(0 .. Error) /\ Len(r) = Len(ch) + 1 /\ r[Len(ch) + 1] = Sentinel
             /\ \A i \in 1 .. Len(ch) : r[i] = ch[i]
      BY <1>1, <1>6, AppendProperties
    <3>1. /\ s \in Seq(0 .. Error) /\ Len(s) = Len(ch) + 1 /\ s[Len(ch) + 1] = Sentinel
          /\ \A i \in 1 .. Len(ch) : s[i] = ch[i]
      BY <1>1, <1>6, <2>2, <3>0, Zenon
    <3>2. /\ Len(ch) <= Len(s) /\ Len(s) <= Cap + 1
          /\ \A i \in Len(ch) + 1 .. Len(s) : i = Len(ch) + 1
          /\ \A i, j \in Len(ch) + 1 .. Len(s) : ~(i < j)
      BY <1>1, <2>2, <3>1
    <3>3. QED
      BY <2>2, <3>1, <3>2, Zenon DEF s, ch
  <2>3. QED
    BY <1>5, <1>7, <2>1, <2>2, Zenon
<1>8. CASE t = Append(ch, h.chunk) /\ h.chunk # Sentinel /\ Len(ch) < Cap + 1
  <2>1. CASE s = t
    <3>0. LET r == Append(ch, h.chunk)
          IN /\ r \in Seq(0 .. Error) /\ Len(r) = Len(ch) + 1 /\ r[Len(ch) + 1] = h.chunk
             /\ \A i \in 1 .. Len(ch) : r[i] = ch[i]
      BY <1>1, <1>6, AppendProperties
    <3>1. /\ s \in Seq(0 .. Error) /\ Len(s) = Len(ch) + 1 /\ s[Len(ch) + 1] = h.chunk
          /\ \A i \in 1 .. Len(ch) : s[i] = ch[i]
      BY <1>1, <1>8, <2>1, <3>0, Zenon
    <3>2. /\ Len(ch) <= Len(s) /\ Len(s) <= Cap + 1
          /\ \A i \in Len(ch) + 1 .. Len(s) : i = Len(ch) + 1
          /\ \A i, j \in Len(ch) + 1 .. Len(s) : ~(i < j)
      BY <1>1, <1>8, <3>1
    <3>3. QED
      BY <3>1, <3>2, Zenon DEF s, ch
  <2>2. CASE s = Append(t, Sentinel) /\ h.final /\ h.chunk # Error /\ Len(t) < Cap + 1
    <3>1. /\ Len(s) = Len(ch) + 2 /\ s[Len(ch) + 1] = h.chunk /\ s[Len(ch) + 2] = Sentinel
          /\ s \in Seq(0 .. Error) /\ \A i \in 1 .. Len(ch) : s[i] = ch[i]
      BY <1>1, <1>4, <1>6, <1>8, <2>2
    <3>2. h.chunk \in Text
      BY <1>6, <1>8, <2>2, Zenon
    <3>3. Len(ch) <= Len(s) /\ Len(s) <= Cap + 1
      BY <1>1, <1>8, <2>2, <3>1
    <3>4. \A i \in Len(ch) + 1 .. Len(s) : i = Len(ch) + 1 \/ i = Len(ch) + 2
      BY <1>1, <3>1
    <3>5. \A i, j \in Len(ch) + 1 .. Len(s) : i < j => i = Len(ch) + 1 /\ j = Len(ch) + 2
      BY <1>1, <3>1
    <3>6. QED
      BY <1>6, <2>2, <3>1, <3>2, <3>3, <3>4, <3>5, Zenon DEF s, ch
  <2>3. QED
    BY <1>5, <2>1, <2>2, Zenon
<1>9. QED
  BY <1>3, <1>7, <1>8, Zenon

-----------------------------------------------------------------------------
(* Every step keeps the invariant.                                         *)

\* A step of one conversation leaves the others alone.
Untouched(d) ==
  /\ pc'[d] = pc[d] /\ result'[d] = result[d] /\ got'[d] = got[d] /\ chan'[d] = chan[d]
  /\ dropped'[d] = dropped[d] /\ engine'[d] = engine[d]
  /\ closed'[d] = closed[d] /\ cancelled'[d] = cancelled[d]

LEMMA UntouchedConv ==
  ASSUME NEW d, ConvInv(d), Untouched(d),
         posted' = posted \/ \E k \in Nat :
           /\ \A i \in Queue(posted', d) : i \in Int /\ i + k \in Queue(posted, d) /\ posted'[i] = posted[i + k]
           /\ \A i \in Queue(posted, d) : \E j \in Queue(posted', d) : posted'[j] = posted[i]
  PROVE  ConvInv(d)'
<1>1. /\ Stream(d, got[d], chan[d], posted, dropped[d], engine[d], closed[d], cancelled[d])
           => Stream(d, got[d], chan[d], posted', dropped[d], engine[d], closed[d], cancelled[d])
      /\ Rest(d, chan[d], posted, closed[d], cancelled[d])
           => Rest(d, chan[d], posted', closed[d], cancelled[d])
  <2>1. CASE posted' = posted
    BY <2>1, Zenon
  <2>2. CASE \E k \in Nat :
           /\ \A i \in Queue(posted', d) : i \in Int /\ i + k \in Queue(posted, d) /\ posted'[i] = posted[i + k]
           /\ \A i \in Queue(posted, d) : \E j \in Queue(posted', d) : posted'[j] = posted[i]
    BY <2>2, QueueFrame, Zenon
  <2>3. QED
    BY <2>1, <2>2, Zenon
<1>2. QED
  BY <1>1, Zenon DEF ConvInv, Untouched, Holds

\* A step of conversation c that posts nothing.
LEMMA OneConv ==
  ASSUME StreamInv, NEW c \in Conv, TypeOK', SlotInv', ConvInv(c)',
         \A d \in Conv \ {c} : Untouched(d), posted' = posted
  PROVE  StreamInv'
<1>1. \A d \in Conv : ConvInv(d)'
  BY UntouchedConv, Zenon DEF StreamInv
<1>2. \A i \in 1 .. Len(posted') : posted'[i].final \/ posted'[i].chunk \in Text
  BY Zenon DEF StreamInv
<1>3. QED
  BY <1>1, <1>2, Zenon DEF StreamInv

\* The slot when c takes it, returns it, or keeps what it had.
LEMMA SlotTaken ==
  ASSUME SlotInv, NEW c \in Conv, free, free' = FALSE, Holds(c)',
         \A d \in Conv \ {c} : pc'[d] = pc[d]
  PROVE  SlotInv'
BY Zenon DEF SlotInv, Holds

LEMMA SlotReturned ==
  ASSUME SlotInv, NEW c \in Conv, Holds(c), free' = TRUE, pc'[c] = "idle",
         \A d \in Conv \ {c} : pc'[d] = pc[d]
  PROVE  SlotInv'
<1>1. ~(Holds(c)')
  BY Zenon DEF Holds
<1>2. \A d \in Conv \ {c} : ~(Holds(d)')
  BY Zenon DEF SlotInv, Holds
<1>3. QED
  BY <1>1, <1>2, Zenon DEF SlotInv

LEMMA SlotKept ==
  ASSUME SlotInv, free' = free, \A d \in Conv : Holds(d)' <=> Holds(d)
  PROVE  SlotInv'
BY Zenon DEF SlotInv

LEMMA SendStep ==
  ASSUME StreamInv, NEW c \in Conv, Send(c)
  PROVE  StreamInv'
<1>1. TypeOK /\ SlotInv /\ ConvInv(c) /\ pc[c] = "idle" /\ result[c] \in {"none", "Ok"}
  BY Zenon DEF StreamInv, Send
<1>2. /\ free' = free /\ chan' = chan /\ closed' = closed /\ cancelled' = cancelled /\ engine' = engine
      /\ posted' = posted /\ dropped' = dropped /\ got' = got
  BY Zenon DEF Send
<1>3. /\ pc' \in [Conv -> {"idle", "slot", "recv", "sink", "sync"}]
      /\ result' \in [Conv -> {"none", "Ok", "Internal", "Cancelled"}]
      /\ left' \in [Conv -> 0 .. Turns]
      /\ \A d \in Conv \ {c} : pc'[d] = pc[d] /\ result'[d] = result[d]
      /\ \/ pc'[c] = "idle" /\ result'[c] = "Cancelled"
         \/ pc'[c] = "slot" /\ result'[c] = result[c]
  <2>1. /\ pc \in [Conv -> {"idle", "slot", "recv", "sink", "sync"}]
        /\ result \in [Conv -> {"none", "Ok", "Internal", "Cancelled"}] /\ left \in [Conv -> 0 .. Turns]
    BY <1>1, Zenon DEF TypeOK
  <2>2. left[c] > 0 /\ left' = [left EXCEPT ![c] = left[c] - 1]
    BY Zenon DEF Send
  <2>3. left' \in [Conv -> 0 .. Turns]
    BY <2>1, <2>2, StreamAssumption
  <2>4. CASE result' = [result EXCEPT ![c] = "Cancelled"] /\ pc' = pc
    BY <1>1, <2>1, <2>3, <2>4, Zenon
  <2>5. CASE pc' = [pc EXCEPT ![c] = "slot"] /\ result' = result
    BY <2>1, <2>3, <2>5, Zenon
  <2>6. QED
    BY <2>4, <2>5, Zenon DEF Send
<1>4. TypeOK'
  BY <1>1, <1>2, <1>3, Zenon DEF TypeOK
<1>5. ~Holds(c) /\ ~(Holds(c)') /\ pc'[c] \notin {"recv", "sink"} /\ pc'[c] \in {"idle", "slot"}
      /\ pc[c] \notin {"recv", "sink"} /\ pc[c] \in {"idle", "slot"}
      /\ (result'[c] \in {"none", "Ok"} => result'[c] = result[c])
      /\ (pc'[c] # "idle" => result'[c] = result[c])
  BY <1>1, <1>3, Zenon DEF Holds
<1>6. SlotInv'
  <2>1. \A d \in Conv : Holds(d)' <=> Holds(d)
    BY <1>3, <1>5, Zenon DEF Holds
  <2>2. QED
    BY <1>1, <1>2, <2>1, SlotKept, Zenon
<1>7. ConvInv(c)'
  BY <1>1, <1>2, <1>5, Zenon DEF ConvInv
<1>8. \A d \in Conv \ {c} : Untouched(d)
  BY <1>2, <1>3, Zenon DEF Untouched
<1>9. QED
  BY <1>2, <1>4, <1>6, <1>7, <1>8, OneConv, Zenon

LEMMA SinkDoneStep ==
  ASSUME StreamInv, NEW c \in Conv, SinkDone(c)
  PROVE  StreamInv'
<1>1. TypeOK /\ SlotInv /\ ConvInv(c) /\ pc[c] = "sink"
  BY Zenon DEF StreamInv, SinkDone
<1>2. /\ free' = free /\ left' = left /\ chan' = chan /\ closed' = closed /\ cancelled' = cancelled
      /\ engine' = engine /\ posted' = posted /\ dropped' = dropped /\ got' = got /\ result' = result
  BY Zenon DEF SinkDone
<1>3. /\ pc' \in [Conv -> {"idle", "slot", "recv", "sink", "sync"}]
      /\ \A d \in Conv \ {c} : pc'[d] = pc[d]
      /\ pc'[c] = "recv"
  BY <1>1, Zenon DEF TypeOK, SinkDone
<1>4. TypeOK'
  BY <1>1, <1>2, <1>3, Zenon DEF TypeOK
<1>5. /\ Holds(c) /\ Holds(c)' /\ pc'[c] \in {"recv", "sink"} /\ pc'[c] \notin {"idle", "slot"}
      /\ pc[c] \in {"recv", "sink"} /\ pc[c] # "idle"
  BY <1>1, <1>3, Zenon DEF Holds
<1>6. SlotInv'
  <2>1. \A d \in Conv : Holds(d)' <=> Holds(d)
    BY <1>3, <1>5, Zenon DEF Holds
  <2>2. QED
    BY <1>1, <1>2, <2>1, SlotKept, Zenon
<1>7. ConvInv(c)'
  BY <1>1, <1>2, <1>5, Zenon DEF ConvInv
<1>8. \A d \in Conv \ {c} : Untouched(d)
  BY <1>2, <1>3, Zenon DEF Untouched
<1>9. QED
  BY <1>2, <1>4, <1>6, <1>7, <1>8, OneConv, Zenon

LEMMA CancelStep ==
  ASSUME StreamInv, NEW c \in Conv, Cancel(c)
  PROVE  StreamInv'
<1>1. TypeOK /\ SlotInv /\ ConvInv(c)
  BY Zenon DEF StreamInv
<1>2. /\ free' = free /\ pc' = pc /\ left' = left /\ chan' = chan /\ engine' = engine
      /\ posted' = posted /\ dropped' = dropped /\ got' = got /\ result' = result
  BY Zenon DEF Cancel
<1>3. /\ cancelled' \in [Conv -> BOOLEAN] /\ closed' \in [Conv -> BOOLEAN]
      /\ \A d \in Conv \ {c} : cancelled'[d] = cancelled[d] /\ closed'[d] = closed[d]
      /\ cancelled'[c] = TRUE /\ closed'[c] = TRUE
  BY <1>1, Zenon DEF TypeOK, Cancel
<1>4. TypeOK'
  BY <1>1, <1>2, <1>3, Zenon DEF TypeOK
<1>5. SlotInv'
  BY <1>1, <1>2, Zenon DEF SlotInv, Holds
<1>6. ConvInv(c)'
  BY <1>1, <1>2, <1>3, Zenon DEF ConvInv, Stream, Rest
<1>7. \A d \in Conv \ {c} : Untouched(d)
  BY <1>2, <1>3, Zenon DEF Untouched
<1>8. QED
  BY <1>2, <1>4, <1>5, <1>6, <1>7, OneConv, Zenon

LEMMA GrantedStep ==
  ASSUME StreamInv, NEW c \in Conv, Granted(c)
  PROVE  StreamInv'
<1>1. TypeOK /\ SlotInv /\ ConvInv(c) /\ pc[c] = "slot" /\ free /\ free' = FALSE
  BY Zenon DEF StreamInv, Granted
<1>2. left' = left /\ cancelled' = cancelled /\ posted' = posted /\ result' = result
  BY Zenon DEF Granted
<1>3. pc[c] # "idle" /\ pc[c] \notin {"recv", "sink"} /\ pc[c] \in {"idle", "slot"}
  BY <1>1, Zenon
<1>4. /\ result[c] \in {"none", "Ok"} /\ engine[c] = Off
      /\ chan[c] = <<>> /\ Queue(posted, c) = {} /\ (closed[c] => cancelled[c])
  BY <1>1, <1>3, Zenon DEF ConvInv, Rest
<1>5. /\ got \in [Conv -> Seq(1 .. N)] /\ dropped \in [Conv -> SUBSET (0 .. Error)]
      /\ pc \in [Conv -> {"idle", "slot", "recv", "sink", "sync"}]
      /\ engine \in [Conv -> 0 .. Off] /\ closed \in [Conv -> BOOLEAN]
      /\ chan \in [Conv -> Seq(0 .. Error)] /\ \A d \in Conv : Len(chan[d]) <= Cap + 1
  BY <1>1, Zenon DEF TypeOK
<1>6. /\ got' = [got EXCEPT ![c] = <<>>] /\ dropped' = [dropped EXCEPT ![c] = {}]
  BY Zenon DEF Granted
<1>7. /\ got' \in [Conv -> Seq(1 .. N)] /\ got'[c] = <<>> /\ \A d \in Conv \ {c} : got'[d] = got[d]
      /\ dropped' \in [Conv -> SUBSET (0 .. Error)] /\ dropped'[c] = {}
      /\ \A d \in Conv \ {c} : dropped'[d] = dropped[d]
  BY <1>5, <1>6
<1>8. /\ pc' = [pc EXCEPT ![c] = "recv"] \/ pc' = [pc EXCEPT ![c] = "sync"]
      /\ \/ engine' = engine \/ engine' = [engine EXCEPT ![c] = 0]
      /\ \/ chan' = chan /\ closed' = closed
         \/ /\ chan' = [chan EXCEPT ![c] = IF Len(chan[c]) < Cap /\ ~closed[c] THEN Append(chan[c], Error) ELSE chan[c]]
            /\ closed' = [closed EXCEPT ![c] = TRUE]
  BY Zenon DEF Granted, StartStream
<1>9. /\ pc' \in [Conv -> {"idle", "slot", "recv", "sink", "sync"}]
      /\ \A d \in Conv \ {c} : pc'[d] = pc[d]
      /\ pc'[c] = "recv" \/ pc'[c] = "sync"
  BY <1>5, <1>8, Zenon
<1>10. /\ engine' \in [Conv -> 0 .. Off] /\ \A d \in Conv \ {c} : engine'[d] = engine[d]
  <2>1. 0 \in 0 .. Off
    BY StreamAssumption DEF Off
  <2>2. CASE engine' = engine
    BY <1>5, <2>2, Zenon
  <2>3. CASE engine' = [engine EXCEPT ![c] = 0]
    BY <1>5, <2>1, <2>3, Zenon
  <2>4. QED
    BY <1>8, <2>2, <2>3, Zenon
<1>11. /\ chan' \in [Conv -> Seq(0 .. Error)] /\ \A d \in Conv : Len(chan'[d]) <= Cap + 1
       /\ closed' \in [Conv -> BOOLEAN]
       /\ \A d \in Conv \ {c} : chan'[d] = chan[d] /\ closed'[d] = closed[d]
       /\ \/ chan' = chan /\ closed' = closed
          \/ chan'[c] \in {<<>>, <<Error>>} /\ closed'[c] = TRUE
  <2>1. CASE chan' = chan /\ closed' = closed
    BY <1>5, <2>1, Zenon
  <2>2. CASE \E s \in {<<>>, <<Error>>} :
               chan' = [chan EXCEPT ![c] = s] /\ closed' = [closed EXCEPT ![c] = TRUE]
    <3>1. PICK s \in {<<>>, <<Error>>} :
               chan' = [chan EXCEPT ![c] = s] /\ closed' = [closed EXCEPT ![c] = TRUE]
      BY <2>2, Zenon
    <3>2. s \in Seq(0 .. Error) /\ Len(s) <= Cap + 1
      <4>1. Error \in 0 .. Error /\ Cap \in Nat
        BY Alphabet, StreamAssumption, Zenon
      <4>2. CASE s = <<>>
        BY <4>1, <4>2
      <4>3. CASE s = <<Error>>
        BY <4>1, <4>3
      <4>4. QED
        BY <4>2, <4>3, Zenon
    <3>3. QED
      BY <1>5, <3>1, <3>2, Zenon
  <2>3. Append(<<>>, Error) = <<Error>>
    OBVIOUS
  <2>4. QED
    BY <1>4, <1>8, <2>1, <2>2, <2>3, Zenon
<1>12. TypeOK'
  BY <1>1, <1>2, <1>7, <1>9, <1>10, <1>11, Zenon DEF TypeOK
<1>13. Holds(c)' /\ pc'[c] # "idle" /\ pc'[c] \notin {"idle", "slot"}
  BY <1>9, Zenon DEF Holds
<1>14. SlotInv'
  BY <1>1, <1>9, <1>13, SlotTaken, Zenon
<1>15. ConvInv(c)'
  <2>1. CASE pc' = [pc EXCEPT ![c] = "recv"] /\ StartStream(c)
    <3>1. pc'[c] \in {"recv", "sink"}
      BY <1>5, <2>1, Zenon
    <3>2. Stream(c, <<>>, chan'[c], posted, {}, engine'[c], closed'[c], cancelled[c])
      <4>1. CASE chan' = chan /\ closed' = closed
        <5>1. engine'[c] \in {0, Off}
          BY <1>4, <1>5, <1>8, Zenon
        <5>2. chan'[c] = <<>> /\ (closed'[c] => cancelled[c])
          BY <1>4, <4>1, Zenon
        <5>3. Stream(c, <<>>, <<>>, posted, {}, engine'[c], closed'[c], cancelled[c])
          <6>1. Queue(posted, c) = {} /\ (closed'[c] => cancelled[c])
            BY <1>4, <5>2, Zenon
          <6>2. QED
            BY <5>1, <6>1, StreamStarts, Zenon
        <5>4. QED
          BY <5>2, <5>3, Zenon
      <4>2. CASE engine' = engine /\ chan'[c] \in {<<>>, <<Error>>} /\ closed'[c] = TRUE
        BY <1>4, <4>2, StreamFailsToStart, Zenon
      <4>3. QED
        BY <1>11, <2>1, <4>1, <4>2, Zenon DEF StartStream
    <3>3. QED
      BY <1>2, <1>4, <1>7, <1>13, <3>1, <3>2, Zenon DEF ConvInv
  <2>2. CASE pc' = [pc EXCEPT ![c] = "sync"] /\ chan' = chan /\ closed' = closed
    <3>1. pc'[c] \notin {"recv", "sink"}
      BY <1>5, <2>2, Zenon
    <3>2. Rest(c, chan'[c], posted', closed'[c], cancelled'[c])
      BY <1>2, <1>4, <2>2, Zenon DEF Rest
    <3>3. QED
      BY <1>2, <1>4, <1>13, <3>1, <3>2, Zenon DEF ConvInv
  <2>3. QED
    BY <2>1, <2>2, Zenon DEF Granted
<1>16. \A d \in Conv \ {c} : Untouched(d)
  BY <1>2, <1>7, <1>9, <1>10, <1>11, Zenon DEF Untouched
<1>17. QED
  BY <1>2, <1>12, <1>14, <1>15, <1>16, OneConv, Zenon

\* SendAsync returns: what is left to show when c had the slot.
LEMMA FinishStep ==
  ASSUME StreamInv, NEW c \in Conv, Holds(c), NEW r \in {"Ok", "Internal"}, Finish(c, r),
         left' = left, closed' = closed, cancelled' = cancelled, posted' = posted, dropped' = dropped,
         got' = got, engine' \in [Conv -> 0 .. Off], \A d \in Conv \ {c} : engine'[d] = engine[d],
         chan' \in [Conv -> Seq(0 .. Error)], \A d \in Conv : Len(chan'[d]) <= Cap + 1,
         \A d \in Conv \ {c} : chan'[d] = chan[d],
         engine'[c] # Off => cancelled[c],
         r = "Ok" => engine'[c] = Off /\ Rest(c, chan'[c], posted, closed[c], cancelled[c])
  PROVE  StreamInv'
<1>1. TypeOK /\ SlotInv
  BY Zenon DEF StreamInv
<1>2. /\ pc' = [pc EXCEPT ![c] = "idle"] /\ result' = [result EXCEPT ![c] = r] /\ free' = TRUE
  BY Zenon DEF Finish
<1>3. /\ pc' \in [Conv -> {"idle", "slot", "recv", "sink", "sync"}] /\ pc'[c] = "idle"
      /\ result' \in [Conv -> {"none", "Ok", "Internal", "Cancelled"}] /\ result'[c] = r
      /\ \A d \in Conv \ {c} : pc'[d] = pc[d] /\ result'[d] = result[d]
  BY <1>1, <1>2, Zenon DEF TypeOK
<1>4. TypeOK'
  BY <1>1, <1>2, <1>3, Zenon DEF TypeOK
<1>5. SlotInv'
  BY <1>1, <1>2, <1>3, SlotReturned, Zenon
<1>6. pc'[c] \notin {"recv", "sink"} /\ (result'[c] \in {"none", "Ok"} => r = "Ok")
  BY <1>3, Zenon
<1>7. ConvInv(c)'
  BY <1>3, <1>6, Zenon DEF ConvInv
<1>8. \A d \in Conv \ {c} : Untouched(d)
  BY <1>3, Zenon DEF Untouched
<1>9. QED
  BY <1>4, <1>5, <1>7, <1>8, OneConv, Zenon

LEMMA SyncDoneStep ==
  ASSUME StreamInv, NEW c \in Conv, SyncDone(c)
  PROVE  StreamInv'
<1>1. TypeOK /\ ConvInv(c) /\ pc[c] = "sync"
  BY Zenon DEF StreamInv, SyncDone
<1>2. /\ engine' = [engine EXCEPT ![c] = Off] /\ left' = left /\ chan' = chan /\ closed' = closed
      /\ cancelled' = cancelled /\ posted' = posted /\ dropped' = dropped /\ got' = got
      /\ \E r \in {"Ok", "Internal"} : Finish(c, r)
  BY Zenon DEF SyncDone
<1>3. Holds(c) /\ pc[c] # "idle" /\ pc[c] \notin {"recv", "sink"}
  BY <1>1, Zenon DEF Holds
<1>4. Rest(c, chan[c], posted, closed[c], cancelled[c])
  BY <1>1, <1>3, Zenon DEF ConvInv
<1>5. /\ engine' \in [Conv -> 0 .. Off] /\ engine'[c] = Off /\ \A d \in Conv \ {c} : engine'[d] = engine[d]
  BY <1>1, <1>2, Alphabet, Zenon DEF TypeOK
<1>6. chan' \in [Conv -> Seq(0 .. Error)] /\ \A d \in Conv : Len(chan'[d]) <= Cap + 1
  BY <1>1, <1>2, Zenon DEF TypeOK
<1>7. QED
  BY <1>2, <1>3, <1>4, <1>5, <1>6, FinishStep, Zenon

LEMMA ReceiveStep ==
  ASSUME StreamInv, NEW c \in Conv, Receive(c)
  PROVE  StreamInv'
<1>1. TypeOK /\ SlotInv /\ ConvInv(c) /\ pc[c] = "recv" /\ (chan[c] # <<>> \/ closed[c])
  BY Zenon DEF StreamInv, Receive
<1>2. /\ left' = left /\ closed' = closed /\ cancelled' = cancelled /\ engine' = engine
      /\ posted' = posted /\ dropped' = dropped
  BY Zenon DEF Receive
<1>3. Holds(c) /\ pc[c] \in {"recv", "sink"} /\ pc[c] # "idle"
  BY <1>1, Zenon DEF Holds
<1>4. /\ Stream(c, got[c], chan[c], posted, dropped[c], engine[c], closed[c], cancelled[c])
      /\ result[c] \in {"none", "Ok"}
  BY <1>1, <1>3, Zenon DEF ConvInv
<1>5. /\ engine' \in [Conv -> 0 .. Off] /\ chan \in [Conv -> Seq(0 .. Error)]
      /\ \A d \in Conv : Len(chan[d]) <= Cap + 1
      /\ got \in [Conv -> Seq(Text)] /\ got[c] \in Seq(Text) /\ chan[c] \in Seq(0 .. Error)
      /\ pc \in [Conv -> {"idle", "slot", "recv", "sink", "sync"}]
  BY <1>1, <1>2, Zenon DEF TypeOK, Text
<1>6. CASE chan[c] = <<>>
  <2>1. Finish(c, "Internal") /\ chan' = chan /\ got' = got /\ closed[c]
    BY <1>1, <1>6, Zenon DEF Receive
  <2>2. engine'[c] # Off => cancelled[c]
    BY <1>2, <1>4, <2>1, Zenon DEF Stream
  <2>3. "Internal" \in {"Ok", "Internal"} /\ "Internal" # "Ok"
    BY Zenon
  <2>4. QED
    BY <1>2, <1>3, <1>5, <2>1, <2>2, <2>3, FinishStep, Zenon
<1>7. CASE chan[c] # <<>>
  <2>1. chan' = [chan EXCEPT ![c] = Tail(chan[c])]
    BY <1>7, Zenon DEF Receive
  <2>2. Tail(chan[c]) \in Seq(0 .. Error) /\ Len(Tail(chan[c])) <= Cap + 1 /\ Head(chan[c]) \in 0 .. Error
    <3>1. /\ Tail(chan[c]) \in Seq(0 .. Error) /\ Len(Tail(chan[c])) = Len(chan[c]) - 1
          /\ Head(chan[c]) \in 0 .. Error /\ Len(chan[c]) \in Nat
      BY <1>5, <1>7, HeadTailProperties, LenProperties, Zenon
    <3>2. Len(Tail(chan[c])) <= Cap + 1
      <4>1. Len(chan[c]) <= Cap + 1 /\ Cap \in Nat
        BY <1>5, StreamAssumption, Zenon
      <4>2. \A n, m, k \in Nat : n <= k + 1 => n - 1 <= k + 1
        OBVIOUS
      <4>3. QED
        BY <3>1, <4>1, <4>2, Zenon
    <3>3. QED
      BY <3>1, <3>2, Zenon
  <2>3. /\ chan' \in [Conv -> Seq(0 .. Error)] /\ \A d \in Conv : Len(chan'[d]) <= Cap + 1
        /\ chan'[c] = Tail(chan[c]) /\ \A d \in Conv \ {c} : chan'[d] = chan[d]
    BY <1>5, <2>1, <2>2, Zenon
  <2>4. CASE Head(chan[c]) \notin Text
    <3>1. /\ engine[c] = Off
          /\ Head(chan[c]) = Sentinel => Rest(c, Tail(chan[c]), posted, closed[c], cancelled[c])
      BY <1>4, <1>5, <1>7, <2>4, StreamEnds, Zenon
    <3>2. Head(chan[c]) = Sentinel \/ Head(chan[c]) = Error
      BY <2>2, <2>4, Alphabet, Zenon
    <3>3. /\ got' = got
          /\ \/ Head(chan[c]) = Sentinel /\ Finish(c, "Ok")
             \/ Finish(c, "Internal")
      BY <1>7, <3>2, Alphabet, Zenon DEF Receive
    <3>4. "Internal" \in {"Ok", "Internal"} /\ "Internal" # "Ok" /\ "Ok" \in {"Ok", "Internal"}
      BY Zenon
    <3>5. engine'[c] = Off /\ (Head(chan[c]) = Sentinel => Rest(c, chan'[c], posted, closed[c], cancelled[c]))
      BY <1>2, <2>3, <3>1, Zenon
    <3>6. CASE Head(chan[c]) = Sentinel /\ Finish(c, "Ok")
      BY <1>2, <1>3, <1>5, <2>3, <3>3, <3>4, <3>5, <3>6, FinishStep, Zenon
    <3>7. CASE Finish(c, "Internal")
      BY <1>2, <1>3, <1>5, <2>3, <3>3, <3>4, <3>5, <3>7, FinishStep, Zenon
    <3>8. QED
      BY <3>3, <3>6, <3>7, Zenon
  <2>5. CASE Head(chan[c]) \in Text
    <3>1. /\ got' = [got EXCEPT ![c] = Append(got[c], Head(chan[c]))]
          /\ pc' = [pc EXCEPT ![c] = "sink"] /\ free' = free /\ result' = result
      BY <1>7, <2>5, Alphabet, Zenon DEF Receive
    <3>2. Append(got[c], Head(chan[c])) \in Seq(Text)
      BY <1>5, <2>5, AppendProperties, Zenon
    <3>3. /\ got' \in [Conv -> Seq(Text)] /\ got'[c] = Append(got[c], Head(chan[c]))
          /\ \A d \in Conv \ {c} : got'[d] = got[d]
      BY <1>5, <3>1, <3>2, Zenon
    <3>4. /\ pc' \in [Conv -> {"idle", "slot", "recv", "sink", "sync"}] /\ pc'[c] = "sink"
          /\ \A d \in Conv \ {c} : pc'[d] = pc[d]
      BY <1>5, <3>1, Zenon
    <3>5. TypeOK'
      BY <1>1, <1>2, <2>3, <3>1, <3>3, <3>4, Zenon DEF TypeOK, Text
    <3>6. /\ Holds(c)' /\ pc'[c] \in {"recv", "sink"} /\ pc'[c] # "idle" /\ pc'[c] \notin {"idle", "slot"}
      BY <3>4, Zenon DEF Holds
    <3>7. SlotInv'
      <4>1. \A d \in Conv : Holds(d)' <=> Holds(d)
        BY <1>3, <3>4, <3>6, Zenon DEF Holds
      <4>2. QED
        BY <1>1, <3>1, <4>1, SlotKept, Zenon
    <3>8. Stream(c, Append(got[c], Head(chan[c])), Tail(chan[c]), posted, dropped[c], engine[c], closed[c], cancelled[c])
      BY <1>4, <1>5, <1>7, <2>5, StreamTakes, Zenon
    <3>9. ConvInv(c)'
      BY <1>2, <1>4, <2>3, <3>1, <3>3, <3>6, <3>8, Zenon DEF ConvInv
    <3>10. \A d \in Conv \ {c} : Untouched(d)
      BY <1>2, <2>3, <3>1, <3>3, <3>4, Zenon DEF Untouched
    <3>11. QED
      BY <1>2, <3>5, <3>7, <3>9, <3>10, OneConv, Zenon
  <2>6. QED
    BY <2>4, <2>5, Zenon
<1>8. QED
  BY <1>6, <1>7, Zenon

\* The engine posts h for c, or nothing if c is cancelled, and goes on to e.
LEMMA EngineStep ==
  ASSUME StreamInv, NEW c \in Conv, pc[c] # "sync", engine[c] # Off,
         NEW h \in Item, h.conv = c, NEW e \in 0 .. Off,
         posted' = IF cancelled[c] THEN posted ELSE Append(posted, h),
         engine' = [engine EXCEPT ![c] = e],
         UNCHANGED <<free, pc, left, chan, closed, cancelled, dropped, got, result>>,
         \/ engine[c] < N /\ h.chunk = engine[c] + 1 /\ ~h.final /\ e = engine[c] + 1
         \/ engine[c] + 1 = N /\ h.chunk = N /\ h.final /\ e = Off
         \/ engine[c] = N /\ h.chunk = Sentinel /\ h.final /\ e = Off
         \/ h.chunk = Error /\ h.final /\ e = Off
  PROVE  StreamInv'
<1>1. TypeOK /\ SlotInv /\ ConvInv(c) /\ \A i \in 1 .. Len(posted) : posted[i].final \/ posted[i].chunk \in Text
  BY Zenon DEF StreamInv
<1>2. /\ free' = free /\ pc' = pc /\ left' = left /\ chan' = chan /\ closed' = closed /\ cancelled' = cancelled
      /\ dropped' = dropped /\ got' = got /\ result' = result
  BY Zenon
<1>3. /\ engine \in [Conv -> 0 .. Off] /\ posted \in Seq(Item) /\ got[c] \in Seq(Text) /\ chan[c] \in Seq(0 .. Error)
      /\ dropped[c] \in SUBSET (0 .. Error) /\ engine[c] \in 0 .. Off /\ cancelled[c] \in BOOLEAN
      /\ pc[c] \in {"idle", "slot", "recv", "sink", "sync"}
  BY <1>1, Zenon DEF TypeOK, Text, Item
<1>4. /\ engine' \in [Conv -> 0 .. Off] /\ engine'[c] = e /\ \A d \in Conv \ {c} : engine'[d] = engine[d]
  BY <1>3, Zenon
<1>5. /\ Append(posted, h) \in Seq(Item) /\ Len(Append(posted, h)) = Len(posted) + 1 /\ Len(posted) \in Nat
      /\ Append(posted, h)[Len(posted) + 1] = h
      /\ \A i \in 1 .. Len(posted) : Append(posted, h)[i] = posted[i]
      /\ \A d : d # h.conv => Queue(Append(posted, h), d) = Queue(posted, d)
  BY <1>3, QueueAppend, Zenon
<1>6. posted' \in Seq(Item)
  BY <1>3, <1>5, Zenon
<1>7. TypeOK'
  BY <1>1, <1>2, <1>4, <1>6, Zenon DEF TypeOK, Item
<1>8. SlotInv'
  <2>1. \A d \in Conv : Holds(d)' <=> Holds(d)
    BY <1>2, Zenon DEF Holds
  <2>2. QED
    BY <1>1, <1>2, <2>1, SlotKept, Zenon
<1>9. h.final \/ h.chunk \in Text
  BY <1>3, StreamAssumption DEF Text
<1>10. \A i \in 1 .. Len(posted') : posted'[i].final \/ posted'[i].chunk \in Text
  <2>1. CASE cancelled[c]
    BY <1>1, <2>1, Zenon
  <2>2. CASE ~cancelled[c]
    <3>1. \A i \in 1 .. Len(posted) + 1 : i \in 1 .. Len(posted) \/ i = Len(posted) + 1
      BY <1>5
    <3>2. QED
      BY <1>1, <1>5, <1>9, <2>2, <3>1, Zenon
  <2>3. QED
    BY <2>1, <2>2, Zenon
<1>11. ASSUME NEW d \in Conv \ {c} PROVE ConvInv(d)'
  <2>1. Untouched(d) /\ ConvInv(d)
    BY <1>2, <1>4, Zenon DEF Untouched, StreamInv
  <2>2. CASE cancelled[c]
    BY <2>1, <2>2, UntouchedConv, Zenon
  <2>3. CASE ~cancelled[c]
    <3>1. Queue(posted', d) = Queue(posted, d) /\ \A i \in 1 .. Len(posted) : posted'[i] = posted[i]
      BY <1>5, <2>3, Zenon
    <3>2. \A i \in Queue(posted, d) : i \in 1 .. Len(posted) /\ posted'[i] = posted[i]
      BY <3>1, Zenon DEF Queue
    <3>3. \A i \in Queue(posted, d) : i \in Int /\ i + 0 = i
      BY <1>5, <3>2
    <3>4. \A i \in Queue(posted', d) : i \in Int /\ i + 0 \in Queue(posted, d) /\ posted'[i] = posted[i + 0]
      BY <3>1, <3>2, <3>3, Zenon
    <3>5. \A i \in Queue(posted, d) : \E j \in Queue(posted', d) : posted'[j] = posted[i]
      BY <3>1, <3>2, Zenon
    <3>6. 0 \in Nat
      BY Zenon
    <3>7. QED
      BY <2>1, <3>4, <3>5, <3>6, UntouchedConv, Zenon
  <2>4. QED
    BY <2>2, <2>3, Zenon
<1>12. ConvInv(c)'
  <2>1. CASE pc[c] \in {"recv", "sink"}
    <3>1. /\ Stream(c, got[c], chan[c], posted, dropped[c], engine[c], closed[c], cancelled[c])
          /\ result[c] \in {"none", "Ok"} /\ Holds(c) /\ pc[c] \notin {"idle", "slot"}
      <4>1. pc[c] # "idle" /\ pc[c] \notin {"idle", "slot"}
        BY <2>1, Zenon
      <4>2. QED
        BY <1>1, <2>1, <4>1, Zenon DEF ConvInv, Holds
    <3>2. CASE cancelled[c]
      <4>1. Stream(c, got[c], chan[c], posted, dropped[c], e, closed[c], cancelled[c])
        BY <3>1, <3>2, Zenon DEF Stream
      <4>2. QED
        BY <1>2, <1>4, <2>1, <3>1, <3>2, <4>1, Zenon DEF ConvInv, Holds
    <3>3. CASE ~cancelled[c]
      <4>1. cancelled[c] = FALSE
        BY <1>3, <3>3, Zenon
      <4>2. Stream(c, got[c], chan[c], Append(posted, h), dropped[c], e, closed[c], FALSE)
        <5>1. Stream(c, got[c], chan[c], posted, dropped[c], engine[c], closed[c], FALSE)
          BY <3>1, <4>1, Zenon
        <5>2. QED
          BY <1>1, <1>3, <5>1, StreamPosts, Zenon
      <4>3. QED
        BY <1>2, <1>4, <2>1, <3>1, <4>1, <4>2, Zenon DEF ConvInv, Holds
    <3>4. QED
      BY <3>2, <3>3, Zenon
  <2>2. CASE pc[c] \notin {"recv", "sink"}
    <3>1. pc[c] \in {"idle", "slot"} /\ ~Holds(c)
      BY <1>3, <2>2, Zenon DEF Holds
    <3>2. cancelled[c] /\ ~(result[c] \in {"none", "Ok"})
      BY <1>1, <3>1, Zenon DEF ConvInv
    <3>3. QED
      BY <1>1, <1>2, <2>2, <3>2, Zenon DEF ConvInv
  <2>3. QED
    BY <2>1, <2>2, Zenon
<1>13. QED
  BY <1>7, <1>8, <1>10, <1>11, <1>12, Zenon DEF StreamInv

LEMMA EngineEmitsStep ==
  ASSUME StreamInv, NEW c \in Conv, EngineEmits(c)
  PROVE  StreamInv'
<1>1. /\ pc[c] # "sync" /\ engine[c] < N + 1
      /\ free' = free /\ pc' = pc /\ left' = left /\ chan' = chan /\ closed' = closed /\ cancelled' = cancelled
      /\ dropped' = dropped /\ got' = got /\ result' = result
  BY Zenon DEF EngineEmits
<1>2. engine[c] \in 0 .. Off
  BY Zenon DEF StreamInv, TypeOK
<1>3. engine[c] # Off
  BY <1>1, <1>2, StreamAssumption DEF Off
<1>4. CASE engine[c] < N
  <2>1. PICK final \in {FALSE, engine[c] + 1 = N} :
             /\ Post(c, engine[c] + 1, final)
             /\ engine' = [engine EXCEPT ![c] = IF final THEN Off ELSE engine[c] + 1]
    <3>1. engine[c] # N
      BY <1>2, <1>4, StreamAssumption
    <3>2. QED
      BY <1>4, <3>1, Zenon DEF EngineEmits
  <2> DEFINE h == [conv |-> c, chunk |-> engine[c] + 1, final |-> final]
  <2>2. final \in BOOLEAN /\ (final => engine[c] + 1 = N)
    BY Zenon
  <2>3. engine[c] + 1 \in 0 .. Error /\ engine[c] + 1 \in 0 .. Off /\ Off \in 0 .. Off
    BY <1>2, <1>4, StreamAssumption DEF Error, Off
  <2>4. h \in Item /\ h.conv = c /\ h.chunk = engine[c] + 1 /\ h.final = final
    BY <2>2, <2>3, Zenon DEF Item
  <2>5. posted' = IF cancelled[c] THEN posted ELSE Append(posted, h)
    BY <2>1, Zenon DEF Post
  <2> HIDE DEF h
  <2>6. CASE final
    <3>1. engine' = [engine EXCEPT ![c] = Off] /\ engine[c] + 1 = N /\ h.chunk = N /\ h.final
      BY <2>1, <2>2, <2>4, <2>6, Zenon
    <3>2. QED
      BY <1>1, <1>3, <2>3, <2>4, <2>5, <3>1, EngineStep, Zenon
  <2>7. CASE ~final
    <3>1. engine' = [engine EXCEPT ![c] = engine[c] + 1] /\ ~h.final
      BY <2>1, <2>4, <2>7, Zenon
    <3>2. QED
      BY <1>1, <1>3, <1>4, <2>3, <2>4, <2>5, <3>1, EngineStep, Zenon
  <2>8. QED
    BY <2>6, <2>7, Zenon
<1>5. CASE ~(engine[c] < N)
  <2>1. engine[c] = N /\ Post(c, Sentinel, TRUE) /\ engine' = [engine EXCEPT ![c] = Off]
    BY <1>5, Zenon DEF EngineEmits
  <2> DEFINE h == [conv |-> c, chunk |-> Sentinel, final |-> TRUE]
  <2>2. h \in Item /\ h.conv = c /\ h.chunk = Sentinel /\ h.final = TRUE
    BY Alphabet, Zenon DEF Item
  <2>3. posted' = IF cancelled[c] THEN posted ELSE Append(posted, h)
    BY <2>1, Zenon DEF Post
  <2> HIDE DEF h
  <2>4. h.final /\ Off \in 0 .. Off
    BY <2>2, Alphabet, Zenon
  <2>5. QED
    BY <1>1, <1>3, <2>1, <2>2, <2>3, <2>4, EngineStep, Zenon
<1>6. QED
  BY <1>4, <1>5, Zenon

LEMMA EngineStopsStep ==
  ASSUME StreamInv, NEW c \in Conv, EngineStops(c)
  PROVE  StreamInv'
<1>1. /\ pc[c] # "sync" /\ engine[c] # Off /\ Post(c, Error, TRUE) /\ engine' = [engine EXCEPT ![c] = Off]
      /\ free' = free /\ pc' = pc /\ left' = left /\ chan' = chan /\ closed' = closed /\ cancelled' = cancelled
      /\ dropped' = dropped /\ got' = got /\ result' = result
  BY Zenon DEF EngineStops
<1> DEFINE h == [conv |-> c, chunk |-> Error, final |-> TRUE]
<1>2. h \in Item /\ h.conv = c /\ h.chunk = Error /\ h.final = TRUE
  BY Alphabet, Zenon DEF Item
<1>3. posted' = IF cancelled[c] THEN posted ELSE Append(posted, h)
  BY <1>1, Zenon DEF Post
<1> HIDE DEF h
<1>4. h.final /\ Off \in 0 .. Off
  BY <1>2, Alphabet, Zenon
<1>5. QED
  BY <1>1, <1>2, <1>3, <1>4, EngineStep, Zenon

LEMMA HandlerStep ==
  ASSUME StreamInv, Handler
  PROVE  StreamInv'
<1>0. PICK h, c : h = Head(posted) /\ c = h.conv
  BY Zenon
<1>1. /\ posted # <<>> /\ posted' = Tail(posted)
      /\ chan' = [chan EXCEPT ![c] = Sent(c, h)]
      /\ dropped' = [dropped EXCEPT ![c] = dropped[c] \cup Lost(c, h)]
      /\ closed' = [closed EXCEPT ![c] = closed[c] \/ h.chunk = Error]
      /\ free' = free /\ pc' = pc /\ left' = left /\ cancelled' = cancelled /\ engine' = engine
      /\ got' = got /\ result' = result
  BY <1>0, Zenon DEF Handler
<1>2. TypeOK /\ SlotInv /\ \A i \in 1 .. Len(posted) : posted[i].final \/ posted[i].chunk \in Text
  BY Zenon DEF StreamInv
<1>3. posted \in Seq(Item)
  BY <1>2, Zenon DEF TypeOK, Item
<1>4. /\ Tail(posted) \in Seq(Item) /\ h = posted[1] /\ h \in Item /\ 1 \in Queue(posted, c)
      /\ \A d : \A i \in Queue(Tail(posted), d) :
           i \in Int /\ i >= 1 /\ i + 1 \in Queue(posted, d) /\ Tail(posted)[i] = posted[i + 1]
      /\ \A d : \A i \in Queue(posted, d) :
           i = 1 \/ (i \in Int /\ 1 < i /\ i - 1 \in Queue(Tail(posted), d) /\ Tail(posted)[i - 1] = posted[i])
  BY <1>0, <1>1, <1>3, QueueTail, Zenon
<1>5. c \in Conv /\ h.chunk \in 0 .. Error /\ (h.final \/ h.chunk \in Text)
  <2>1. 1 \in 1 .. Len(posted)
    BY <1>4, Zenon DEF Queue
  <2>2. h.final \/ h.chunk \in Text
    BY <1>2, <1>4, <2>1, Zenon
  <2>3. \A x \in Item : x.conv \in Conv /\ x.chunk \in 0 .. Error
    BY Zenon DEF Item
  <2>4. QED
    BY <1>0, <1>4, <2>2, <2>3, Zenon
<1>6. /\ got[c] \in Seq(Text) /\ chan[c] \in Seq(0 .. Error) /\ dropped[c] \in SUBSET (0 .. Error)
      /\ engine[c] \in 0 .. Off /\ closed[c] \in BOOLEAN /\ cancelled[c] \in BOOLEAN
      /\ chan \in [Conv -> Seq(0 .. Error)] /\ dropped \in [Conv -> SUBSET (0 .. Error)]
      /\ closed \in [Conv -> BOOLEAN] /\ \A d \in Conv : Len(chan[d]) <= Cap + 1
      /\ pc[c] \in {"idle", "slot", "recv", "sink", "sync"}
  BY <1>2, <1>5, Zenon DEF TypeOK, Text
<1>7. /\ Sent(c, h) \in Seq(0 .. Error) /\ Len(chan[c]) <= Len(Sent(c, h)) /\ Len(Sent(c, h)) <= Cap + 1
      /\ \A i \in 1 .. Len(chan[c]) : Sent(c, h)[i] = chan[c][i]
      /\ \A i \in Len(chan[c]) + 1 .. Len(Sent(c, h)) :
           Sent(c, h)[i] = h.chunk \/ (Sent(c, h)[i] = Sentinel /\ h.final /\ h.chunk # Error)
      /\ \A i, j \in Len(chan[c]) + 1 .. Len(Sent(c, h)) : i < j => Sent(c, h)[i] \in Text /\ Sent(c, h)[j] \notin Text
  <2>1. TypeOK /\ c \in Conv /\ h \in Item /\ (h.final \/ h.chunk \in Text)
    BY <1>2, <1>4, <1>5, Zenon
  <2>2. QED
    BY ONLY <2>1, SentShape, Zenon
<1>8. /\ Lost(c, h) \in SUBSET (0 .. Error)
      /\ \A x \in Lost(c, h) : \/ x = h.chunk /\ \A i \in Len(chan[c]) + 1 .. Len(Sent(c, h)) : Sent(c, h)[i] # x
                               \/ x = Sentinel
      /\ h.chunk \in Lost(c, h) \/ \E i \in Len(chan[c]) + 1 .. Len(Sent(c, h)) : Sent(c, h)[i] = h.chunk
  <2> DEFINE n == {Sent(c, h)[i] : i \in Len(chan[c]) + 1 .. Len(Sent(c, h))}
  <2>1. Lost(c, h) = ({h.chunk} \cup (IF h.final /\ h.chunk # Error THEN {Sentinel} ELSE {})) \ n
    BY Zenon DEF Lost
  <2>2. \A x \in Lost(c, h) : (x = h.chunk \/ x = Sentinel) /\ x \notin n
    BY <2>1, Zenon
  <2>3. h.chunk \in Lost(c, h) \/ h.chunk \in n
    BY <2>1, Zenon
  <2>4. \A x \in Lost(c, h) : x \in 0 .. Error
    BY <1>5, <2>2, Alphabet, Zenon
  <2>5. QED
    BY <2>2, <2>3, <2>4, Zenon
<1>9. /\ chan' \in [Conv -> Seq(0 .. Error)] /\ \A d \in Conv : Len(chan'[d]) <= Cap + 1
      /\ chan'[c] = Sent(c, h) /\ \A d \in Conv \ {c} : chan'[d] = chan[d]
  BY <1>1, <1>5, <1>6, <1>7, Zenon
<1>10. /\ dropped' \in [Conv -> SUBSET (0 .. Error)]
       /\ dropped'[c] = dropped[c] \cup Lost(c, h) /\ \A d \in Conv \ {c} : dropped'[d] = dropped[d]
  BY <1>1, <1>5, <1>6, <1>8, Zenon
<1>11. /\ closed' \in [Conv -> BOOLEAN]
       /\ closed'[c] = (closed[c] \/ h.chunk = Error) /\ \A d \in Conv \ {c} : closed'[d] = closed[d]
  BY <1>1, <1>5, <1>6, Zenon
<1>12. TypeOK'
  BY <1>1, <1>2, <1>4, <1>9, <1>10, <1>11, Zenon DEF TypeOK, Item
<1>13. SlotInv'
  <2>1. \A d \in Conv : Holds(d)' <=> Holds(d)
    BY <1>1, Zenon DEF Holds
  <2>2. QED
    BY <1>1, <1>2, <2>1, SlotKept, Zenon
<1>14. \A i \in 1 .. Len(posted') : posted'[i].final \/ posted'[i].chunk \in Text
  <2>1. \A i \in 1 .. Len(Tail(posted)) : i + 1 \in 1 .. Len(posted) /\ Tail(posted)[i] = posted[i + 1]
    BY <1>1, <1>3
  <2>2. QED
    BY <1>1, <1>2, <2>1, Zenon
<1>15. ASSUME NEW d \in Conv \ {c} PROVE ConvInv(d)'
  <2>1. Untouched(d) /\ ConvInv(d)
    BY <1>1, <1>9, <1>10, <1>11, Zenon DEF Untouched, StreamInv
  <2>2. \A i \in Queue(posted', d) : i \in Int /\ i + 1 \in Queue(posted, d) /\ posted'[i] = posted[i + 1]
    BY <1>1, <1>4, Zenon
  <2>3. 1 \notin Queue(posted, d)
    BY <1>0, <1>4, <1>15, Zenon DEF Queue
  <2>4. \A i \in Queue(posted, d) : \E j \in Queue(posted', d) : posted'[j] = posted[i]
    BY <1>1, <1>4, <2>3, Zenon
  <2>5. 1 \in Nat
    BY Zenon
  <2>6. QED
    BY <2>1, <2>2, <2>4, <2>5, UntouchedConv, Zenon
<1>16. ConvInv(c)'
  <2>0. ConvInv(c)
    BY <1>5, Zenon DEF StreamInv
  <2>1. CASE pc[c] \in {"recv", "sink"}
    <3>1. /\ Stream(c, got[c], chan[c], posted, dropped[c], engine[c], closed[c], cancelled[c])
          /\ result[c] \in {"none", "Ok"} /\ Holds(c) /\ pc[c] \notin {"idle", "slot"}
      <4>1. pc[c] # "idle" /\ pc[c] \notin {"idle", "slot"}
        BY <2>1, Zenon
      <4>2. QED
        BY <2>0, <2>1, <4>1, Zenon DEF ConvInv, Holds
    <3>2. Stream(c, got[c], Sent(c, h), Tail(posted), dropped[c] \cup Lost(c, h), engine[c],
                 closed'[c], cancelled[c])
      <4>1. Head(posted).conv = c /\ posted # <<>> /\ Head(posted) = h
        BY <1>0, <1>1, Zenon
      <4> DEFINE s == Sent(c, h)
                 lost == Lost(c, h)
                 ch == chan[c]
                 go == got[c]
                 dr == dropped[c]
                 en == engine[c]
                 cl == closed[c]
                 ca == cancelled[c]
                 cn == closed'[c]
      <4>2. s \in Seq(0 .. Error) /\ lost \in SUBSET (0 .. Error)
        BY <1>7, <1>8, Zenon
      <4>3. Advances(posted[1], ch, s, lost)
        BY <1>4, <1>7, <1>8, Zenon DEF Advances
      <4>4. /\ go \in Seq(Text) /\ ch \in Seq(0 .. Error) /\ dr \in SUBSET (0 .. Error)
            /\ en \in 0 .. Off
            /\ Stream(c, go, ch, posted, dr, en, cl, ca)
        BY <1>6, <3>1, Zenon
      <4>5. cn => cl \/ posted[1].chunk = Error
        BY <1>4, <1>5, <1>11, Zenon
      <4> HIDE DEF s, lost, ch, go, dr, en, cl, ca, cn
      <4>6. Stream(c, go, s, Tail(posted), dr \cup lost, en, cn, ca)
        <5>1. c \in Conv /\ posted \in Seq(Item) /\ \A i \in 1 .. Len(posted) : posted[i].final \/ posted[i].chunk \in Text
          BY <1>2, <1>3, <1>5, Zenon
        <5>2. 1 \in Queue(posted, c)
          BY <1>4, Zenon
        <5>3. QED
          BY <5>1, <5>2, <4>2, <4>3, <4>4, <4>5, StreamHandles, Zenon
      <4>7. QED
        BY <4>6, Zenon DEF s, lost, ch, go, dr, en, cl, ca, cn
    <3>3. QED
      BY <1>1, <1>9, <1>10, <1>11, <2>1, <3>1, <3>2, Zenon DEF ConvInv, Holds
  <2>2. CASE pc[c] \notin {"recv", "sink"}
    <3>1. ~(result[c] \in {"none", "Ok"})
      BY <1>4, <2>0, <2>2, Zenon DEF ConvInv, Rest
    <3>2. QED
      BY <1>1, <2>0, <2>2, <3>1, Zenon DEF ConvInv, Holds
  <2>3. QED
    BY <2>1, <2>2, Zenon
<1>17. QED
  BY <1>12, <1>13, <1>14, <1>15, <1>16, Zenon DEF StreamInv

LEMMA InitInv == Init => StreamInv
<1> SUFFICES ASSUME Init PROVE StreamInv
  BY Zenon
<1>1. TypeOK
  <2>1. Off \in 0 .. Off /\ Cap \in Nat /\ Turns \in Nat
    BY StreamAssumption DEF Off
  <2>2. <<>> \in Seq(0 .. Error) /\ Len(<<>>) <= Cap + 1 /\ <<>> \in Seq(1 .. N) /\ <<>> \in Seq(Item)
    BY <2>1, EmptySeq
  <2>3. QED
    BY <2>1, <2>2 DEF Init, TypeOK, Item
<1>2. SlotInv
  BY Zenon DEF Init, SlotInv, Holds
<1>3. posted = <<>> /\ 1 .. Len(posted) = {}
  BY DEF Init
<1>4. ASSUME NEW c \in Conv PROVE ConvInv(c)
  <2>1. engine[c] = Off /\ pc[c] = "idle" /\ chan[c] = <<>> /\ closed[c] = FALSE /\ result[c] = "none"
    BY Zenon DEF Init
  <2>2. Queue(posted, c) = {}
    BY <1>3, Zenon DEF Queue
  <2>3. QED
    BY <2>1, <2>2, Zenon DEF ConvInv, Rest
<1>5. QED
  BY <1>1, <1>2, <1>3, <1>4, Zenon DEF StreamInv

LEMMA StepInv == StreamInv /\ [Next]_vars => StreamInv'
<1> SUFFICES ASSUME StreamInv, [Next]_vars PROVE StreamInv'
  BY Zenon
<1>1. ASSUME NEW c \in Conv,
             Send(c) \/ Granted(c) \/ SyncDone(c) \/ Receive(c) \/ SinkDone(c)
               \/ EngineEmits(c) \/ EngineStops(c) \/ Cancel(c)
      PROVE  StreamInv'
  BY <1>1, SendStep, GrantedStep, SyncDoneStep, ReceiveStep, SinkDoneStep,
     EngineEmitsStep, EngineStopsStep, CancelStep, Zenon
<1>2. CASE UNCHANGED vars
  <2>1. /\ free' = free /\ pc' = pc /\ left' = left /\ chan' = chan /\ closed' = closed /\ cancelled' = cancelled
        /\ engine' = engine /\ posted' = posted /\ dropped' = dropped /\ got' = got /\ result' = result
    BY <1>2, Zenon DEF vars
  <2>2. TypeOK'
    BY <2>1, Zenon DEF StreamInv, TypeOK
  <2>3. SlotInv'
    BY <2>1, Zenon DEF StreamInv, SlotInv, Holds
  <2>4. \A d \in Conv : Untouched(d)
    BY <2>1, Zenon DEF Untouched
  <2>5. \A d \in Conv : ConvInv(d)'
    BY <2>1, <2>4, UntouchedConv, Zenon DEF StreamInv
  <2>6. QED
    BY <2>1, <2>2, <2>3, <2>5, Zenon DEF StreamInv
<1>3. QED
  BY <1>1, <1>2, HandlerStep, Zenon DEF Next

LEMMA Inductive == Spec => []StreamInv
  BY InitInv, StepInv, PTL DEF Spec

LEMMA SlotFromInv == StreamInv => SlotConserved
  BY Zenon DEF StreamInv, SlotInv, ConvInv, SlotConserved

\* litert_lm_manager.cc, the engine slot: for every number of conversations the
\* slot is free or held by exactly one SendAsync, and two conversations are in
\* the engine together only if one of them was cancelled.
THEOREM SlotIsConserved == Spec => []SlotConserved
  BY Inductive, SlotFromInv, PTL

LEMMA RepliesStep ==
  ASSUME StreamInv, [Next]_vars, NEW c \in Conv, pc[c] = "recv", pc'[c] = "idle", result'[c] = "Ok"
  PROVE  /\ {got[c][i] : i \in DOMAIN got[c]} = (1 .. N) \ dropped[c]
         /\ \A i, j \in DOMAIN got[c] : i < j => got[c][i] < got[c][j]
<1>1. "recv" # "idle" /\ "recv" # "slot" /\ "recv" # "sync" /\ "recv" # "sink" /\ "Internal" # "Ok" /\ "Cancelled" # "Ok"
  BY Zenon
<1>2. TypeOK /\ ConvInv(c) /\ pc \in [Conv -> {"idle", "slot", "recv", "sink", "sync"}]
  BY Zenon DEF StreamInv, TypeOK
<1>3. Receive(c)
  <2>1. ASSUME NEW d \in Conv, Send(d) \/ Granted(d) \/ SyncDone(d) \/ SinkDone(d) \/ Receive(d), d # c
        PROVE  pc'[c] = pc[c]
    BY <1>2, <2>1, Zenon DEF Send, Granted, SyncDone, SinkDone, Receive, Finish
  <2>2. ASSUME NEW d \in Conv, Send(d) \/ Granted(d) \/ SyncDone(d) \/ SinkDone(d)
        PROVE  pc[d] # "recv"
    BY <1>1, <2>2, Zenon DEF Send, Granted, SyncDone, SinkDone
  <2>3. ASSUME NEW d \in Conv, EngineEmits(d) \/ EngineStops(d) \/ Cancel(d)
        PROVE  pc'[c] = pc[c]
    BY <2>3, Zenon DEF EngineEmits, EngineStops, Cancel
  <2>4. Handler \/ UNCHANGED vars => pc' = pc
    BY Zenon DEF Handler, vars
  <2>5. QED
    BY <1>1, <2>1, <2>2, <2>3, <2>4, Zenon DEF Next
<1>4. chan[c] # <<>> /\ Head(chan[c]) = Sentinel
  BY <1>1, <1>2, <1>3, Zenon DEF Receive, Finish, TypeOK
<1>5. Stream(c, got[c], chan[c], posted, dropped[c], engine[c], closed[c], cancelled[c])
  BY <1>2, Zenon DEF ConvInv
<1>6. got[c] \in Seq(Text) /\ chan[c] \in Seq(0 .. Error) /\ Head(chan[c]) \notin Text
  BY <1>2, <1>4, Alphabet, Zenon DEF TypeOK, Text
<1>7. Delivered(got[c], dropped[c])
  BY <1>4, <1>5, <1>6, StreamEnds, Zenon
<1>8. QED
  BY <1>7, Zenon DEF Delivered, Text

\* litert_lm_manager.cc, the streaming loop of SendAsync: for every number of
\* conversations and chunks and every capacity of the channel, a streamed turn
\* that succeeds delivered its own reply in order and once, but for exactly the
\* chunks try_send dropped.
THEOREM RepliesAreComplete == Spec => ReplyComplete
<1> DEFINE A == \A c \in Conv : pc[c] = "recv" /\ pc'[c] = "idle" /\ result'[c] = "Ok"
                   => /\ {got[c][i] : i \in DOMAIN got[c]} = (1 .. N) \ dropped[c]
                      /\ \A i, j \in DOMAIN got[c] : i < j => got[c][i] < got[c][j]
<1>1. StreamInv /\ [Next]_vars => [A]_vars
  BY RepliesStep, Zenon
<1>2. QED
  BY <1>1, Inductive, PTL DEF Spec, ReplyComplete

-----------------------------------------------------------------------------
(* The checkpoint file                                                     *)

\* Only a whole checkpoint reaches the rename, and it is newer than the file.
FileInv ==
  /\ FTypeOK
  /\ path = Absent \/ Whole(path)
  /\ step = "closed" => tmp = [version |-> current, blocks |-> Size]
  /\ step # "idle" => tmp.version = current /\ path.version < current
  /\ path.version <= current
  /\ step = "open" => tmp.blocks = 0
  /\ acked <= path.version
  /\ seen.code # "DataLoss" /\ (seen.code = "Ok" => seen.version > 0)

LEMMA FileInvInductive ==
  ASSUME ~DiskMayFill
  PROVE  /\ FInit => FileInv
         /\ FileInv /\ [FNext]_fvars => FileInv'
<1> USE FileAssumption
<1>1. FInit => FileInv
  BY DEF FInit, FileInv, FTypeOK, Absent, Whole
<1>2. ASSUME FileInv, [FNext]_fvars PROVE FileInv'
  <2> USE <1>2 DEF FileInv
  <2>1. CASE Open
    BY <2>1 DEF Open, FTypeOK, Absent, Whole
  <2>2. CASE WriteBytes
    BY <2>2 DEF WriteBytes, FTypeOK, Absent, Whole
  <2>3. CASE Close
    BY <2>3 DEF Close, FTypeOK, Absent, Whole
  <2>4. CASE Rename
    BY <2>4 DEF Rename, FTypeOK, Absent, Whole
  <2>5. CASE Kill
    BY <2>5, Zenon DEF Kill, FTypeOK, Absent, Whole
  <2>6. CASE Read
    BY <2>6 DEF Read, FTypeOK, Absent, Whole
  <2>7. CASE UNCHANGED fvars
    BY <2>7, Zenon DEF fvars, FTypeOK, Absent, Whole
  <2>8. QED
    BY <2>1, <2>2, <2>3, <2>4, <2>5, <2>6, <2>7, Zenon DEF FNext
<1>3. QED
  BY <1>1, <1>2, Zenon

\* Without a full disk, a Write that returned Ok is in the file for good, and a
\* reader never gets less than a whole checkpoint.
THEOREM WriteIsDurable == ~DiskMayFill /\ FSpec => [](OkMeansStored /\ ReaderSeesWhole)
<1> SUFFICES ASSUME ~DiskMayFill
             PROVE  FSpec => [](OkMeansStored /\ ReaderSeesWhole)
  OBVIOUS
<1>1. FileInv => OkMeansStored /\ ReaderSeesWhole
  BY FileAssumption DEF FileInv, FTypeOK, OkMeansStored, ReaderSeesWhole, Absent, Whole
<1>2. QED
  BY <1>1, FileInvInductive, PTL DEF FSpec

\* Without a full disk, Write implements the atomic file: a kill at any point
\* leaves the prior checkpoint, the new one or no file.
THEOREM WriteIsAtomic == ~DiskMayFill /\ FSpec => ImplementsAtomicFile
<1> SUFFICES ASSUME ~DiskMayFill
             PROVE  FSpec => Atomic!Spec
  BY Zenon DEF ImplementsAtomicFile
<1> DEFINE held == IF path = Absent \/ Whole(path) THEN path.version ELSE MaxVersion + 1
<1>1. FInit => Atomic!Init
  BY DEF FInit, Atomic!Init, Absent
<1>2. FileInv /\ [FNext]_fvars => [Atomic!Replace]_held
  <2> SUFFICES ASSUME FileInv, FileInv', [FNext]_fvars
               PROVE  [Atomic!Replace]_held
    BY FileInvInductive, Zenon
  <2>0. held = path.version /\ held' = path.version'
    BY Zenon DEF FileInv
  <2>1. CASE Rename
    BY <2>0, <2>1, FileAssumption DEF Rename, FileInv, FTypeOK, Atomic!Replace
  <2>2. CASE UNCHANGED path
    BY <2>0, <2>2, Zenon
  <2>3. QED
    BY <2>1, <2>2, Zenon DEF FNext, fvars, Open, WriteBytes, Close, Kill, Read
<1>3. QED
  BY <1>1, <1>2, FileInvInductive, PTL DEF FSpec, Atomic!Spec

-----------------------------------------------------------------------------
(* Tools: the pool                                                         *)

PoolType ==
  /\ made \in Seq(Server) /\ pool \in [Server -> Nat]
  /\ shut \subseteq DOMAIN made /\ taken \subseteq DOMAIN made /\ setting \subseteq DOMAIN made
  /\ handler \in Nat /\ installed \in Seq(Nat) /\ Len(installed) = Len(made)

\* An entry of the pool is a client made for that very server; a pooled client
\* without the current handler is one SetInboundEventHandler is still to visit.
PoolInv ==
  /\ PoolType
  /\ \A s \in Server : pool[s] # 0 => pool[s] \in DOMAIN made /\ made[pool[s]] = s
  /\ \A c \in DOMAIN made :
       /\ c \in Pooled \cup taken \cup shut
       /\ c \in Pooled => c \notin taken \cup shut
       /\ c \in Pooled => c \in setting \/ installed[c] = handler

LEMMA PoolInit == TInit => PoolInv
BY DEF TInit, PoolInv, PoolType, Pooled

\* A coroutine that attaches a server takes the client of the pool or adds one.
LEMMA AttachMcpServerPool ==
  ASSUME PoolInv, NEW t \in Attacher, NEW s \in Server, AttachMcpServer(t, s)
  PROVE  PoolInv'
<1> USE DEF registry
<1>1. CASE UNCHANGED <<pool, made, installed>>
  BY <1>1, Zenon DEF PoolInv, PoolType, Pooled, AttachMcpServer
<1>2. CASE /\ pool[s] = 0 /\ made' = Append(made, s) /\ installed' = Append(installed, handler)
           /\ pool' = [pool EXCEPT ![s] = Len(made) + 1]
  <2>1. /\ made' \in Seq(Server) /\ Len(made') = Len(made) + 1
        /\ \A c \in 1 .. Len(made) : made'[c] = made[c]
        /\ made'[Len(made) + 1] = s
    BY <1>2 DEF PoolInv, PoolType
  <2>2. /\ installed' \in Seq(Nat) /\ Len(installed') = Len(made) + 1
        /\ \A c \in 1 .. Len(made) : installed'[c] = installed[c]
        /\ installed'[Len(made) + 1] = handler
    BY <1>2 DEF PoolInv, PoolType
  <2>3. DOMAIN made = 1 .. Len(made) /\ DOMAIN made' = 1 .. Len(made) + 1 /\ Len(made) \in Nat
    BY <2>1 DEF PoolInv, PoolType
  <2>4. UNCHANGED <<shut, taken, setting, handler>>
    BY Zenon DEF AttachMcpServer
  <2>5. PoolType'
    BY <1>2, <2>1, <2>2, <2>3, <2>4 DEF PoolInv, PoolType
  <2>6. \A r \in Server : pool'[r] # 0 => pool'[r] \in DOMAIN made' /\ made'[pool'[r]] = r
    BY <1>2, <2>1, <2>3 DEF PoolInv, PoolType
  <2>7. Pooled' = Pooled \cup {Len(made) + 1}
    BY <1>2, <2>1, <2>3 DEF PoolInv, PoolType, Pooled
  <2>8. ASSUME NEW c \in DOMAIN made'
        PROVE  /\ c \in Pooled' \cup taken \cup shut
               /\ c \in Pooled' => c \notin taken \cup shut
               /\ c \in Pooled' => c \in setting \/ installed'[c] = handler
    <3>1. CASE c = Len(made) + 1
      BY <2>2, <2>3, <2>7, <3>1 DEF PoolInv, PoolType
    <3>2. CASE c # Len(made) + 1
      BY <2>2, <2>3, <2>7, <3>2 DEF PoolInv
    <3> QED
      BY <3>1, <3>2, Zenon
  <2> QED
    BY <2>4, <2>5, <2>6, <2>8, Zenon DEF PoolInv
<1> QED
  BY <1>1, <1>2, Zenon DEF AttachMcpServer, GetOrCreate

LEMMA PoolStep == PoolInv /\ [TNext]_tvars => PoolInv'
<1> SUFFICES ASSUME PoolInv, [TNext]_tvars PROVE PoolInv'
  OBVIOUS
<1> USE DEF registry, clients, handlers
<1>1. CASE UNCHANGED <<clients, handlers>>
  BY <1>1, Zenon DEF PoolInv, PoolType, Pooled
<1>2. CASE ShutdownMcp
  BY <1>2 DEF ShutdownMcp, PoolInv, PoolType, Pooled
<1>3. CASE SetInboundEventHandler
  BY <1>3 DEF SetInboundEventHandler, PoolInv, PoolType, Pooled
<1>4. ASSUME NEW c \in DOMAIN made, ShutdownOne(c) PROVE PoolInv'
  BY <1>4, Zenon DEF ShutdownOne, PoolInv, PoolType, Pooled
<1>5. ASSUME NEW c \in DOMAIN made, InstallOne(c) PROVE PoolInv'
  <2>1. /\ installed' \in Seq(Nat) /\ Len(installed') = Len(made)
        /\ installed'[c] = handler
        /\ \A d \in DOMAIN made \ {c} : installed'[d] = installed[d]
    <3>1. /\ installed \in Seq(Nat) /\ Len(installed) = Len(made) /\ handler \in Nat
          /\ DOMAIN made = 1 .. Len(made)
      BY DEF PoolInv, PoolType
    <3>2. installed' = [installed EXCEPT ![c] = handler] /\ c \in 1 .. Len(installed)
      BY <1>5, <3>1, Zenon DEF InstallOne
    <3> QED
      BY <3>1, <3>2
  <2>2. /\ setting' = setting \ {c}
        /\ UNCHANGED <<made, pool, shut, taken, handler>>
    BY <1>5, Zenon DEF InstallOne
  <2>3. PoolType'
    BY <2>1, <2>2, Zenon DEF PoolInv, PoolType
  <2>4. Pooled' = Pooled
    BY <2>2, Zenon DEF Pooled
  <2> QED
    BY <2>1, <2>2, <2>3, <2>4, Zenon DEF PoolInv
<1>6. ASSUME NEW t \in Attacher, AttachStep(t) PROVE PoolInv'
  BY <1>1, <1>6, AttachMcpServerPool, Zenon
     DEF AttachStep, Listed, Attached, TryRegisterIfAbsent
<1>7. ASSUME NEW i \in Call, CallStep(i) PROVE PoolInv'
  BY <1>1, <1>7, Zenon
     DEF CallStep, InvokeDirectly, BuildView, Invoke, Decided, NativeEnds, ClientReturns,
         TimerWins, Moves
<1> QED
  BY <1>1, <1>2, <1>3, <1>4, <1>5, <1>6, <1>7, Zenon DEF TNext, Register, CancelRun, tvars

\* No client of an MCP server is lost: whatever AttachMcpServer, ShutdownMcp and
\* SetInboundEventHandler do to the pool at the same time, each client is in the
\* pool, taken out to be shut down, or shut down, and a pooled one gets the
\* handler installed last.
THEOREM NoClientLost == TSpec => []ClientsAccounted
<1>1. PoolInv => ClientsAccounted
  BY Zenon DEF PoolInv, ClientsAccounted
<1> QED
  BY <1>1, PoolInit, PoolStep, PTL DEF TSpec
-----------------------------------------------------------------------------
(* Tools: calls through a view                                             *)

Tool == [kind : {"none", "native", "mcp"}, n : Nat]

AttachState == [at : {"idle", "listing", "registering"}, client : Nat, todo : SUBSET Name]

CallState == [at : {"new", "view", "gate", "none", "native", "mcp", "done"},
              name : Name \cup {""}, tool : Tool, gate : BOOLEAN]

\* What a view holds under a blocked name is nothing, and only a call of a tool
\* it holds reaches the gate.
CallInv ==
  /\ tools \in [Name -> Tool] /\ natives \in Nat
  /\ attach \in [Attacher -> AttachState]
  /\ \A t \in Attacher : attach[t].at # "idle" => attach[t].client \in DOMAIN made
  /\ call \in [Call -> CallState]
  /\ \A i \in Call :
       /\ call[i].at \in {"view", "gate"} /\ call[i].name \in Blocked => call[i].tool = None
       /\ call[i].at = "gate" => call[i].tool # None

LEMMA CallInit == TInit => CallInv
<1>1. None \in Tool /\ IdleAttach \in AttachState
  BY Zenon DEF Tool, None, IdleAttach, AttachState
<1>2. NewCall \in CallState
  BY <1>1, Zenon DEF NewCall, CallState
<1>3. IdleAttach.at = "idle" /\ NewCall.at = "new"
  BY Zenon DEF IdleAttach, NewCall
<1> QED
  BY <1>1, <1>2, <1>3 DEF TInit, CallInv

\* A tool that begins leaves the view and the gate behind.
LEMMA BeginsType ==
  ASSUME NEW c \in CallState
  PROVE  Begins(c) \in CallState /\ Begins(c).at \notin {"view", "gate"}
BY Zenon DEF Begins, Done, NewCall, None, CallState, Tool

LEMMA CallStepInv ==
  ASSUME CallInv, NEW i \in Call, CallStep(i)
  PROVE  CallInv'
<1> USE DEF registry, clients, handlers
<1>1. Done \in CallState /\ Done.at = "done"
  BY Zenon DEF Done, NewCall, None, CallState, Tool
<1>2. ASSUME NEW c \in CallState, Moves(i, c),
             c.at \in {"view", "gate"} /\ c.name \in Blocked => c.tool = None,
             c.at = "gate" => c.tool # None
      PROVE  CallInv'
  BY <1>2, Zenon DEF CallInv, Moves
<1>3. ASSUME NEW n \in Name, InvokeDirectly(i, n) PROVE CallInv'
  <2>1. [NewCall EXCEPT !.name = n, !.tool = tools[n]] \in CallState
    BY Zenon DEF NewCall, None, CallState, CallInv, Tool
  <2> QED
    BY <1>1, <1>2, <1>3, <2>1, BeginsType, Zenon DEF InvokeDirectly
<1>4. ASSUME NEW n \in Name, NEW gate \in BOOLEAN, BuildView(i, n, gate) PROVE CallInv'
  <2> DEFINE c == [at |-> "view", name |-> n, gate |-> gate,
                   tool |-> IF n \in Blocked THEN None ELSE tools[n]]
  <2>1. c \in CallState
    BY Zenon DEF CallState, CallInv, None, Tool
  <2> QED
    BY <1>2, <1>4, <2>1, Zenon DEF BuildView
<1>5. CASE Invoke(i)
  <2>1. call[i] \in CallState /\ call[i].at = "view"
    BY <1>5, Zenon DEF CallInv, Invoke
  <2>2. CASE /\ Moves(i, [call[i] EXCEPT !.at = "gate"])
             /\ call[i].tool # None
    <3>1. /\ [call[i] EXCEPT !.at = "gate"] \in CallState
          /\ [call[i] EXCEPT !.at = "gate"].name = call[i].name
          /\ [call[i] EXCEPT !.at = "gate"].tool = call[i].tool
      BY <2>1, Zenon DEF CallState
    <3>2. call[i].name \in Blocked => call[i].tool = None
      BY <2>1, Zenon DEF CallInv
    <3> QED
      BY <1>2, <2>2, <3>1, <3>2, Zenon
  <2>3. CASE Moves(i, Done) \/ Moves(i, Begins(call[i]))
    BY <1>1, <1>2, <2>1, <2>3, BeginsType, Zenon
  <2> QED
    BY <1>5, <2>2, <2>3, Zenon DEF Invoke
<1>6. ASSUME NEW approved \in BOOLEAN, Decided(i, approved) PROVE CallInv'
  BY <1>1, <1>2, <1>6, BeginsType, Zenon DEF Decided, CallInv
<1>7. CASE NativeEnds(i) \/ ClientReturns(i) \/ TimerWins(i)
  BY <1>1, <1>2, <1>7, Zenon DEF NativeEnds, ClientReturns, TimerWins
<1> QED
  BY <1>3, <1>4, <1>5, <1>6, <1>7, Zenon DEF CallStep

LEMMA AttachStepInv ==
  ASSUME PoolInv, PoolInv', CallInv, NEW t \in Attacher, AttachStep(t)
  PROVE  CallInv'
<1> USE DEF registry, clients, handlers
<1>1. ASSUME NEW s \in Server, AttachMcpServer(t, s) PROVE CallInv'
  <2>1. DOMAIN made \subseteq DOMAIN made'
    <3>1. made \in Seq(Server)
      BY Zenon DEF PoolInv, PoolType
    <3>2. made' = made \/ made' = Append(made, s)
      BY <1>1, Zenon DEF AttachMcpServer, GetOrCreate
    <3>3. DOMAIN made \subseteq DOMAIN Append(made, s)
      BY <3>1
    <3> QED
      BY <3>2, <3>3, Zenon
  <2>2. ASSUME NEW c \in Nat, c \in DOMAIN made', Listing(t, c) PROVE CallInv'
    BY <1>1, <2>1, <2>2, Zenon DEF AttachMcpServer, Listing, IdleAttach, CallInv, AttachState
  <2>3. CASE pool[s] # 0 /\ Listing(t, pool[s])
    BY <2>1, <2>2, <2>3, Zenon DEF PoolInv, PoolType
  <2>4. CASE made' = Append(made, s) /\ Listing(t, Len(made) + 1)
    <3>1. made \in Seq(Server)
      BY Zenon DEF PoolInv, PoolType
    <3>2. Len(made) + 1 \in Nat /\ Len(made) + 1 \in DOMAIN Append(made, s)
      BY <3>1
    <3> QED
      BY <2>2, <2>4, <3>2, Zenon
  <2> QED
    BY <1>1, <2>3, <2>4, Zenon DEF AttachMcpServer, GetOrCreate
<1>2. CASE Listed(t)
  <2>1. CASE attach' = [attach EXCEPT ![t] = IdleAttach]
    BY <1>2, <2>1, Zenon DEF Listed, CallInv, AttachState, IdleAttach
  <2>2. ASSUME NEW kept \in SUBSET Offers[made[attach[t].client]],
               attach' = [attach EXCEPT ![t].at = "registering", ![t].todo = kept]
        PROVE  CallInv'
    <3>1. attach[t].client \in DOMAIN made
      BY <1>2, Zenon DEF Listed, CallInv
    <3>2. kept \subseteq Name
      BY <3>1, ToolsAssumption DEF PoolInv, PoolType
    <3>3. /\ attach' \in [Attacher -> AttachState]
          /\ attach'[t].client = attach[t].client
          /\ \A u \in Attacher \ {t} : attach'[u] = attach[u]
      <4> DEFINE b == [attach EXCEPT ![t].at = "registering"]
      <4>1. attach' = [b EXCEPT ![t].todo = kept]
        BY <2>2, Zenon
      <4>2. /\ b \in [Attacher -> AttachState] /\ b[t].client = attach[t].client
            /\ \A u \in Attacher \ {t} : b[u] = attach[u]
        BY Zenon DEF CallInv, AttachState
      <4> HIDE DEF b
      <4> QED
        BY <3>2, <4>1, <4>2, Zenon DEF AttachState
    <3> QED
      BY <1>2, <3>1, <3>3, Zenon DEF Listed, CallInv
  <2> QED
    BY <1>2, <2>1, <2>2, Zenon DEF Listed
<1>3. ASSUME NEW n \in Name, TryRegisterIfAbsent(t, n) PROVE CallInv'
  BY <1>3, Zenon DEF TryRegisterIfAbsent, CallInv, AttachState, Adapter, Tool
<1>4. CASE Attached(t)
  BY <1>4, Zenon DEF Attached, CallInv, AttachState, IdleAttach
<1> QED
  BY <1>1, <1>2, <1>3, <1>4, Zenon DEF AttachStep

LEMMA CallInvStep == PoolInv /\ PoolInv' /\ CallInv /\ [TNext]_tvars => CallInv'
<1> SUFFICES ASSUME PoolInv, PoolInv', CallInv, [TNext]_tvars PROVE CallInv'
  OBVIOUS
<1> USE DEF registry, clients, handlers
<1>1. CASE UNCHANGED <<registry, attach, call, made>>
  BY <1>1, Zenon DEF CallInv
<1>2. ASSUME NEW n \in Name, Register(n) PROVE CallInv'
  <2>1. natives' \in Nat
    BY <1>2 DEF Register, CallInv
  <2>2. Native(natives') \in Tool
    BY <2>1, Zenon DEF Native, Tool
  <2>3. tools' \in [Name -> Tool]
    BY <1>2, <2>2, Zenon DEF Register, CallInv
  <2> QED
    BY <1>2, <2>1, <2>3, Zenon DEF Register, CallInv
<1> QED
  BY <1>1, <1>2, CallStepInv, AttachStepInv, Zenon
     DEF TNext, ShutdownMcp, ShutdownOne, SetInboundEventHandler, InstallOne, CancelRun, tvars

\* Only InvocationToolView::Invoke and the answer of a gate start a tool of a
\* view, and they keep to the tiers and to the token.
LEMMA StartsApproved ==
  ASSUME CallInv, [TNext]_tvars, NEW i \in Call,
         call[i].at \in {"view", "gate"}, call'[i].at \in {"native", "mcp"}
  PROVE  /\ ~stopped /\ call[i].name \notin Blocked
         /\ call[i].name \in Confirm /\ call[i].gate => call[i].at = "gate"
<1> USE DEF registry, clients, handlers
<1>1. call' # call
  OBVIOUS
<1>2. PICK j \in Call : CallStep(j)
  BY <1>1, Zenon DEF TNext, Register, AttachStep, AttachMcpServer, Listed, Attached, TryRegisterIfAbsent,
     ShutdownMcp, ShutdownOne, SetInboundEventHandler, InstallOne, CancelRun, tvars
<1>3. ASSUME NEW c, Moves(j, c) PROVE i = j /\ call'[i] = c
  BY <1>3, Zenon DEF Moves, CallInv
<1>4. Done.at = "done"
  BY Zenon DEF Done, NewCall
<1>5. Invoke(i) \/ \E approved \in BOOLEAN : Decided(i, approved)
  BY <1>2, <1>3, <1>4, Zenon
     DEF CallStep, InvokeDirectly, BuildView, Invoke, Decided, NativeEnds, ClientReturns, TimerWins
<1>6. CASE Invoke(i)
  <2>1. ~(call[i].tool = None \/ stopped) /\ ~(call[i].name \in Confirm /\ call[i].gate)
    BY <1>4, <1>6, Zenon DEF Invoke, Moves, CallInv, CallState
  <2> QED
    BY <1>6, <2>1, Zenon DEF CallInv
<1>7. ASSUME NEW approved \in BOOLEAN, Decided(i, approved)
      PROVE  ~stopped /\ call[i].at = "gate"
  BY <1>4, <1>7, Zenon DEF Decided, Moves, CallInv
<1> QED
  BY <1>5, <1>6, <1>7, Zenon DEF CallInv

\* Whatever is registered while a run uses its view, and whenever its token is
\* cancelled: a call through the view starts no blocked tool, none under a
\* cancelled token, and one of tier confirm only after the gate approved it.
THEOREM OnlyApprovedToolsStart == TSpec => ApprovedOnly
<1>1. CallInv /\ [TNext]_tvars =>
        [\A i \in Call : call[i].at \in {"view", "gate"} /\ call'[i].at \in {"native", "mcp"} =>
           /\ ~stopped /\ call[i].name \notin Blocked
           /\ call[i].name \in Confirm /\ call[i].gate => call[i].at = "gate"]_tvars
  BY StartsApproved, Zenon
<1> QED
  BY <1>1, PoolInit, PoolStep, CallInit, CallInvStep, PTL DEF TSpec, ApprovedOnly
=============================================================================
