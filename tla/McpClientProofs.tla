-------------------------- MODULE McpClientProofs --------------------------
(***************************************************************************)
(* Proofs about the MCP client over both transports, for every number of   *)
(* callers, requests, child processes, sessions and readers.               *)
(***************************************************************************)
EXTENDS McpClient, SequenceTheorems, TLAPS

-----------------------------------------------------------------------------
(* HTTP: the notification reader                                           *)

ReaderState == [at : {"none", "get", "timer"}, current : BOOLEAN, cancelled : BOOLEAN]

\* A reader runs uncancelled exactly while its generation is current; at most
\* one is, and the flag says whether there is one.
ReaderInv ==
  /\ reader \in [Reader -> ReaderState] /\ active \in BOOLEAN
  /\ \A r \in Reader : reader[r].current <=> reader[r].at # "none" /\ ~reader[r].cancelled
  /\ \A q, r \in Reader : reader[q].current /\ reader[r].current => q = r
  /\ active <=> \E r \in Reader : reader[r].current

LEMMA ReaderInit == H!Init => ReaderInv
<1>1. H!NoReader \in ReaderState /\ ~H!NoReader.current /\ H!NoReader.at = "none"
  BY Zenon DEF H!NoReader, ReaderState
<1> QED
  BY <1>1, Zenon DEF H!Init, ReaderInv

LEMMA StopHttpReaderInv == ReaderInv /\ H!StopHttpReader => ReaderInv'
<1> SUFFICES ASSUME ReaderInv, H!StopHttpReader PROVE ReaderInv'
  OBVIOUS
<1>1. \A r \in Reader : /\ reader'[r] \in ReaderState
                        /\ reader'[r].at = reader[r].at /\ reader'[r].current = FALSE
                        /\ reader'[r].cancelled = (reader[r].cancelled \/ reader[r].current)
  BY ZenonT(30) DEF ReaderInv, ReaderState, H!StopHttpReader, H!Stopped
<1>2. reader' = [r \in Reader |-> reader'[r]] /\ active' = FALSE
  BY Zenon DEF H!StopHttpReader, H!Stopped
<1> QED
  BY <1>1, <1>2, ZenonT(30) DEF ReaderInv

LEMMA MaybeStartHttpReaderInv ==
  ASSUME ReaderInv, NEW st, H!MaybeStartHttpReader(st)
  PROVE  ReaderInv'
<1>1. CASE UNCHANGED <<reader, active>>
  BY <1>1, Zenon DEF ReaderInv
<1>2. ASSUME NEW r \in Reader, reader[r].at = "none", ~active, active' = TRUE,
             reader' = [q \in Reader |-> IF q = r THEN [at |-> "get", current |-> TRUE, cancelled |-> FALSE]
                                                  ELSE [reader[q] EXCEPT !.current = FALSE]]
      PROVE  ReaderInv'
  <2>1. \A q \in Reader : ~reader[q].current
    BY <1>2, Zenon DEF ReaderInv
  <2>2. reader'[r] = [at |-> "get", current |-> TRUE, cancelled |-> FALSE]
    BY <1>2, Zenon
  <2>3. \A q \in Reader \ {r} : reader'[q] = reader[q]
    BY <1>2, <2>1 DEF ReaderInv, ReaderState
  <2>4. reader' \in [Reader -> ReaderState]
    BY <1>2, <2>2, <2>3, Zenon DEF ReaderInv, ReaderState
  <2> QED
    BY <1>2, <2>1, <2>2, <2>3, <2>4, Zenon DEF ReaderInv
<1> QED
  BY <1>1, <1>2, ZenonT(30) DEF H!MaybeStartHttpReader, H!MayStart

LEMMA ExitInv ==
  ASSUME ReaderInv, NEW r \in Reader, H!Exit(r)
  PROVE  ReaderInv'
<1>1. reader'[r] = [at |-> "none", current |-> FALSE, cancelled |-> FALSE]
  BY Zenon DEF H!Exit, H!NoReader, ReaderInv
<1>2. \A q \in Reader \ {r} : reader'[q] = reader[q]
  BY Zenon DEF H!Exit, ReaderInv
<1>3. reader' \in [Reader -> ReaderState]
  <2>1. H!NoReader \in ReaderState
    BY Zenon DEF H!NoReader, ReaderState
  <2> QED
    BY <2>1, Zenon DEF H!Exit, ReaderInv
<1>4. active' = (active /\ ~reader[r].current)
  BY Zenon DEF H!Exit
<1>5. active' <=> \E q \in Reader : reader'[q].current
  <2>1. CASE reader[r].current
    <3>1. \A q \in Reader : ~reader'[q].current
      BY <1>1, <1>2, <2>1 DEF ReaderInv
    <3> QED
      BY <1>4, <2>1, <3>1, ZenonT(30)
  <2>2. CASE ~reader[r].current
    BY <1>1, <1>2, <1>4, <2>2 DEF ReaderInv
  <2> QED
    BY <2>1, <2>2, Zenon
<1> QED
  BY <1>1, <1>2, <1>3, <1>4, <1>5 DEF ReaderInv

LEMMA ReaderStep == ReaderInv /\ [H!Next]_hvars => ReaderInv'
<1> SUFFICES ASSUME ReaderInv, [H!Next]_hvars PROVE ReaderInv'
  OBVIOUS
<1>1. CASE UNCHANGED <<reader, active>>
  BY <1>1, Zenon DEF ReaderInv
<1>2. ASSUME NEW r \in Reader, H!GetReturns(r) PROVE ReaderInv'
  <2>1. CASE reader' = [reader EXCEPT ![r].at = "timer"] /\ UNCHANGED active /\ reader[r].current
    BY <2>1 DEF ReaderInv, ReaderState
  <2> QED
    BY <1>2, <2>1, ExitInv, Zenon DEF H!GetReturns
<1>3. ASSUME NEW r \in Reader, H!TimerFires(r) PROVE ReaderInv'
  <2>1. CASE reader' = [reader EXCEPT ![r].at = "get"] /\ UNCHANGED active /\ reader[r].current
    BY <2>1 DEF ReaderInv, ReaderState
  <2> QED
    BY <1>3, <2>1, ExitInv, Zenon DEF H!TimerFires
<1>4. ASSUME NEW on \in BOOLEAN, H!SetInboundEventHandler(on) PROVE ReaderInv'
  BY <1>4, StopHttpReaderInv, MaybeStartHttpReaderInv, Zenon DEF H!SetInboundEventHandler
<1>5. ASSUME NEW c \in HttpCaller, H!Connect(c) PROVE ReaderInv'
  BY <1>1, <1>5, StopHttpReaderInv, Zenon DEF H!Connect
<1>6. ASSUME NEW c \in HttpCaller, H!AckReply(c) PROVE ReaderInv'
  BY <1>1, <1>6, MaybeStartHttpReaderInv, Zenon DEF H!AckReply, H!HandshakeFails
<1>7. ASSUME NEW c \in HttpCaller,
             \/ H!CallReady(c) \/ H!CallAfterShutdown(c) \/ H!Wait(c) \/ H!Woken(c)
             \/ H!InitReply(c) \/ H!CallReply(c) \/ H!TimesOut(c)
      PROVE  ReaderInv'
  BY <1>1, <1>7, Zenon DEF H!CallReady, H!CallAfterShutdown, H!Wait, H!Woken, H!InitReply,
     H!HandshakeFails, H!CallReply, H!TimesOut
<1>8. CASE H!Shutdown
  BY <1>8, StopHttpReaderInv, Zenon DEF H!Shutdown
<1> QED
  BY <1>1, <1>2, <1>3, <1>4, <1>5, <1>6, <1>7, <1>8, Zenon DEF H!Next, H!Replies, H!Expire, hvars

LEMMA ReaderInvTracks == ReaderInv => ReaderTracked
BY Zenon DEF ReaderInv, ReaderTracked, H!ReaderTracked

\* However often the event handler is changed, the transport breaks and the
\* readers of earlier generations are still on their way out: one reader at
\* most runs uncancelled, and http_reader_active_ says whether it does.
THEOREM OneReader == CSpec => []ReaderTracked
<1>1. ReaderInv /\ [CNext]_<<transport, vars, hvars>> => ReaderInv'
  BY ReaderStep, Zenon DEF CNext, hvars
<1>2. CInit => ReaderInv
  BY ReaderInit, Zenon DEF CInit
<1> QED
  BY <1>1, <1>2, ReaderInvTracks, PTL DEF CSpec
-----------------------------------------------------------------------------
(* Stdio: types of the client's members and of the callers                 *)

Response == {"none", "open", "closed", "result", "error", "left"}

Members == [state : {"Idle", "Ready", "Broken"}, shutdown : BOOLEAN,
            child : {0} \cup Child, open : BOOLEAN, nextId : 1 .. MaxId + 1,
            resp : [Id -> Response], queue : Seq(Line), writing : {0} \cup Child]

CallState == [pc : {"idle", "handshake", "wait", "done"}, id : {0} \cup Id,
              result : {"none", "Ok", "Internal", "Unavailable", "Cancelled"}]

StdioType ==
  /\ cl \in Members /\ call \in [Caller -> CallState]
  /\ readers \subseteq Child /\ alive \subseteq Child /\ answered \subseteq Id
  /\ inbox \in [Child -> Seq(Line)] /\ outbox \in [Child -> Seq(Id)]

\* What was answered: every response in a channel or on its way to one.
AnswerInv ==
  /\ \A i \in Id : cl.resp[i] \in {"result", "error"} => i \in answered
  /\ \A k \in Child : \A n \in DOMAIN outbox[k] : outbox[k][n] \in answered
  /\ OkIsAnswered

\* Who waits for what: callers wait for ids of their own.
WaitInv ==
  /\ \A c \in Caller : Waiting(c) => call[c].id \in Id /\ call[c].id < cl.nextId
  /\ \A c, d \in Caller : Waiting(c) /\ Waiting(d) /\ call[c].id = call[d].id => c = d

\* Operations outstanding are on the current child or an earlier one, and a
\* handshake still to be answered has its descriptors open.
TransportInv ==
  /\ \A k \in readers : k <= cl.child
  /\ cl.writing <= cl.child /\ (cl.writing # 0 => cl.queue # <<>>)
  /\ \A c \in Caller : call[c].pc = "handshake" /\ cl.resp[call[c].id] = "open" => cl.open

StdioInv == StdioType /\ AnswerInv /\ WaitInv /\ TransportInv
-----------------------------------------------------------------------------
(* What the member functions preserve                                      *)

\* t differs from s in the write queue and the outstanding write only.
SameButQueue(s, t) ==
  /\ t.state = s.state /\ t.shutdown = s.shutdown /\ t.child = s.child /\ t.open = s.open
  /\ t.nextId = s.nextId /\ t.resp = s.resp

LEMMA FailPendingFacts ==
  ASSUME NEW s \in Members
  PROVE  /\ FailPending(s) \in Members
         /\ FailPending(s).resp = [i \in Id |-> IF s.resp[i] = "open" THEN "closed" ELSE s.resp[i]]
         /\ FailPending(s).state = s.state /\ FailPending(s).shutdown = s.shutdown
         /\ FailPending(s).child = s.child /\ FailPending(s).open = s.open
         /\ FailPending(s).nextId = s.nextId
         /\ FailPending(s).queue = s.queue /\ FailPending(s).writing = s.writing
<1>1. [i \in Id |-> IF s.resp[i] = "open" THEN "closed" ELSE s.resp[i]] \in [Id -> Response]
  BY Zenon DEF Members, Response
<1> QED
  BY <1>1, Zenon DEF FailPending, Members

LEMMA BrokeFacts ==
  ASSUME NEW s \in Members
  PROVE  /\ Broke(s) \in Members /\ Broke(s).state = "Broken"
         /\ Broke(s).resp = [i \in Id |-> IF s.resp[i] = "open" THEN "closed" ELSE s.resp[i]]
         /\ Broke(s).shutdown = s.shutdown
         /\ Broke(s).child = s.child /\ Broke(s).open = s.open /\ Broke(s).nextId = s.nextId
         /\ Broke(s).queue = s.queue /\ Broke(s).writing = s.writing
BY FailPendingFacts, Zenon DEF Broke, Members

LEMMA PumpWriterFacts ==
  ASSUME NEW s \in Members
  PROVE  /\ PumpWriter(s) \in Members /\ SameButQueue(s, PumpWriter(s))
         /\ PumpWriter(s).queue = s.queue
         /\ PumpWriter(s).writing \in {0, s.child}
         /\ PumpWriter(s).writing # 0 => s.queue # <<>>
BY Zenon DEF PumpWriter, Members, SameButQueue

LEMMA WriteLineFacts ==
  ASSUME NEW s \in Members, NEW l \in Line, s.writing # 0 => s.queue # <<>>
  PROVE  /\ WriteLine(s, l) \in Members /\ SameButQueue(s, WriteLine(s, l))
         /\ WriteLine(s, l).queue # <<>>
         /\ WriteLine(s, l).writing \in {0, s.writing, s.child}
<1> DEFINE q == [s EXCEPT !.queue = Append(@, l)]
<1>1. /\ q \in Members /\ SameButQueue(s, q) /\ q.writing = s.writing
      /\ q.queue = Append(s.queue, l)
  <2>1. Append(s.queue, l) \in Seq(Line)
    BY DEF Members
  <2> QED
    BY <2>1, Zenon DEF Members, SameButQueue
<1>2. q.queue # <<>>
  BY <1>1 DEF Members
<1>3. WriteLine(s, l) = IF s.writing = 0 THEN PumpWriter(q) ELSE q
  BY Zenon DEF WriteLine
<1> HIDE DEF q
<1> QED
  BY <1>1, <1>2, <1>3, PumpWriterFacts DEF SameButQueue

LEMMA SendRequestFacts ==
  ASSUME NEW s \in Members, s.nextId \in Id, s.writing # 0 => s.queue # <<>>,
         NEW method \in {"initialize", "call"}
  PROVE  /\ SendRequest(s, method) \in Members
         /\ SendRequest(s, method).resp = [s.resp EXCEPT ![s.nextId] = "open"]
         /\ SendRequest(s, method).nextId = s.nextId + 1
         /\ SendRequest(s, method).state = s.state /\ SendRequest(s, method).shutdown = s.shutdown
         /\ SendRequest(s, method).child = s.child /\ SendRequest(s, method).open = s.open
         /\ SendRequest(s, method).queue # <<>>
         /\ SendRequest(s, method).writing \in {0, s.writing, s.child}
<1> DEFINE t == [s EXCEPT !.resp[s.nextId] = "open"]
           u == [t EXCEPT !.nextId = @ + 1]
           l == [method |-> method, id |-> s.nextId]
<1>1. /\ t \in Members /\ t.resp = [s.resp EXCEPT ![s.nextId] = "open"]
      /\ t.nextId = s.nextId /\ t.state = s.state /\ t.shutdown = s.shutdown
      /\ t.child = s.child /\ t.open = s.open /\ t.queue = s.queue /\ t.writing = s.writing
  BY Zenon DEF Members, Response
<1>2. l \in Line
  BY Zenon DEF Line
<1>3. s.nextId + 1 \in 1 .. MaxId + 1
  BY StdioAssumption DEF Id
<1>4. SendRequest(s, method) = WriteLine(u, l)
  BY Zenon DEF SendRequest
<1> HIDE DEF t, l
<1>5. /\ u \in Members /\ u.resp = t.resp /\ u.nextId = s.nextId + 1
      /\ u.state = s.state /\ u.shutdown = s.shutdown
      /\ u.child = s.child /\ u.open = s.open /\ u.queue = s.queue /\ u.writing = s.writing
  BY <1>1, <1>3, Zenon DEF Members
<1> HIDE DEF u
<1> QED
  BY <1>1, <1>2, <1>4, <1>5, WriteLineFacts DEF SameButQueue

LEMMA SendNotificationFacts ==
  ASSUME NEW s \in Members, NEW method \in {"initialized", "cancelled"}, NEW id \in Id,
         s.writing # 0 => s.queue # <<>>
  PROVE  /\ SendNotification(s, method, id) \in Members
         /\ SameButQueue(s, SendNotification(s, method, id))
         /\ SendNotification(s, method, id).writing # 0 => SendNotification(s, method, id).queue # <<>>
         /\ SendNotification(s, method, id).writing \in {0, s.writing, s.child}
<1>1. [method |-> method, id |-> id] \in Line
  BY Zenon DEF Line
<1> QED
  BY <1>1, WriteLineFacts, Zenon DEF SendNotification, SameButQueue

LEMMA ShutdownInternalFacts ==
  ASSUME NEW s \in Members, NEW permanent \in BOOLEAN
  PROVE  /\ ShutdownInternal(s, permanent) \in Members
         /\ ShutdownInternal(s, permanent).resp =
              [i \in Id |-> IF s.resp[i] = "open" THEN "closed" ELSE s.resp[i]]
         /\ ShutdownInternal(s, permanent).shutdown = (s.shutdown \/ permanent)
         /\ ShutdownInternal(s, permanent).open = FALSE
         /\ ShutdownInternal(s, permanent).child = s.child
         /\ ShutdownInternal(s, permanent).nextId = s.nextId
         /\ ShutdownInternal(s, permanent).queue = s.queue
         /\ ShutdownInternal(s, permanent).writing = s.writing
<1> DEFINE t == [s EXCEPT !.shutdown = @ \/ permanent]
           u == [t EXCEPT !.open = FALSE]
           f == FailPending(u)
<1>1. /\ t \in Members /\ t.shutdown = (s.shutdown \/ permanent) /\ t.resp = s.resp
      /\ t.nextId = s.nextId /\ t.state = s.state /\ t.child = s.child
      /\ t.queue = s.queue /\ t.writing = s.writing
  BY Zenon DEF Members
<1>2. ShutdownInternal(s, permanent) = [f EXCEPT !.state = IF @ = "Ready" THEN "Broken" ELSE @]
  BY Zenon DEF ShutdownInternal
<1> HIDE DEF t
<1>3. /\ u \in Members /\ u.shutdown = t.shutdown /\ u.resp = s.resp /\ u.open = FALSE
      /\ u.nextId = s.nextId /\ u.state = s.state /\ u.child = s.child
      /\ u.queue = s.queue /\ u.writing = s.writing
  BY <1>1, Zenon DEF Members
<1> HIDE DEF u
<1>4. /\ f \in Members /\ f.shutdown = t.shutdown /\ f.open = FALSE
      /\ f.resp = [i \in Id |-> IF s.resp[i] = "open" THEN "closed" ELSE s.resp[i]]
      /\ f.nextId = s.nextId /\ f.child = s.child
      /\ f.queue = s.queue /\ f.writing = s.writing
  BY <1>3, FailPendingFacts
<1> HIDE DEF f
<1> QED
  BY <1>1, <1>2, <1>4, Zenon DEF Members
-----------------------------------------------------------------------------
(* The steps of the client                                                 *)

\* Channels are only resolved, and with an answer only if one was given.
Resolves ==
  \A i \in Id : \/ cl'.resp[i] = cl.resp[i]
                \/ /\ cl.resp[i] = "open"
                   /\ cl'.resp[i] \in {"result", "error"} => i \in answered'

KeepsOpen == \A i \in Id : cl.resp[i] = "open" => cl'.resp[i] = "open"

\* The operations outstanding after a step.
OperationsOk ==
  /\ \A k \in readers' : k <= cl'.child
  /\ cl'.writing <= cl'.child /\ (cl'.writing # 0 => cl'.queue # <<>>)

LEMMA ReturnsFacts ==
  ASSUME call \in [Caller -> CallState], NEW c \in Caller,
         NEW r \in {"Ok", "Internal", "Unavailable", "Cancelled"}, Returns(c, r)
  PROVE  /\ call' \in [Caller -> CallState]
         /\ call'[c].pc = "done" /\ call'[c].id = call[c].id /\ call'[c].result = r
         /\ \A d \in Caller \ {c} : call'[d] = call[d]
<1> DEFINE b == [call EXCEPT ![c].pc = "done"]
<1>1. call' = [b EXCEPT ![c].result = r]
  BY Zenon DEF Returns
<1>2. /\ b \in [Caller -> CallState] /\ b[c].pc = "done" /\ b[c].id = call[c].id
      /\ \A d \in Caller \ {c} : b[d] = call[d]
  BY Zenon DEF CallState
<1> HIDE DEF b
<1> QED
  BY <1>1, <1>2 DEF CallState

\* A step that opens no channel; at most it returns from a call.
LEMMA ResolvingStep ==
  ASSUME StdioInv, cl' \in Members, cl'.nextId = cl.nextId, Resolves, OperationsOk,
         readers' \subseteq Child, alive' \subseteq Child,
         inbox' \in [Child -> Seq(Line)], UNCHANGED <<outbox, answered>>,
         cl.open => cl'.open \/ \A i \in Id : cl'.resp[i] # "open",
         \/ UNCHANGED call
         \/ \E c \in Caller, r \in {"Ok", "Internal", "Unavailable", "Cancelled"} :
              Returns(c, r) /\ (r = "Ok" => call[c].id \in answered)
  PROVE  StdioInv'
<1> USE DEF StdioInv
<1>1. ASSUME NEW c \in Caller, NEW r \in {"Ok", "Internal", "Unavailable", "Cancelled"},
             Returns(c, r)
      PROVE  /\ call' \in [Caller -> CallState]
             /\ call'[c].pc = "done" /\ call'[c].id = call[c].id /\ call'[c].result = r
             /\ \A d \in Caller \ {c} : call'[d] = call[d]
  BY <1>1, ReturnsFacts, Zenon DEF StdioType
<1>2. call' \in [Caller -> CallState]
  BY <1>1, Zenon DEF StdioType
<1>3. \A c \in Caller :
        /\ call'[c].id = call[c].id
        /\ call'[c] = call[c] \/ call'[c].pc = "done"
        /\ call'[c] = call[c] \/ (call'[c].result = "Ok" => call[c].id \in answered)
  BY <1>1, Zenon
<1>4. StdioType'
  BY <1>2, Zenon DEF StdioType
<1>5. AnswerInv'
  BY <1>3, Zenon DEF AnswerInv, OkIsAnswered, Resolves, StdioType
<1>6. WaitInv'
  BY <1>3, Zenon DEF WaitInv, Waiting
<1>7. TransportInv'
  BY <1>2, <1>3 DEF TransportInv, OperationsOk, Resolves, WaitInv, Waiting
<1> QED
  BY <1>4, <1>5, <1>6, <1>7, Zenon

\* A step that sends a request, for a new id, and awaits its channel.
LEMMA RequestingStep ==
  ASSUME StdioInv, NEW c \in Caller, NEW pc \in {"handshake", "wait"}, Awaits(c, pc),
         cl' \in Members, cl.nextId \in Id, cl'.nextId = cl.nextId + 1,
         NEW r \in [Id -> Response], cl'.resp = [r EXCEPT ![cl.nextId] = "open"],
         \A i \in Id : r[i] = cl.resp[i] \/ (cl.resp[i] = "open" /\ r[i] = "closed"),
         OperationsOk, readers' \subseteq Child, alive' \subseteq Child,
         UNCHANGED <<inbox, outbox, answered>>,
         cl.open \/ pc = "handshake" => cl'.open
  PROVE  StdioInv'
<1> USE DEF StdioInv
<1>1. call' = [call EXCEPT ![c] = [pc |-> pc, id |-> cl.nextId, result |-> "none"]]
  <2>1. cl'.nextId - 1 = cl.nextId
    BY DEF Id
  <2> QED
    BY <2>1, ZenonT(30) DEF Awaits
<1>2. call' \in [Caller -> CallState]
  BY <1>1, Zenon DEF StdioType, CallState
<1>3. /\ call'[c].pc = pc /\ call'[c].id = cl.nextId /\ call'[c].result = "none"
      /\ \A d \in Caller \ {c} : call'[d] = call[d]
  BY <1>1, Zenon DEF StdioType
<1>4. cl'.resp[cl.nextId] = "open" /\ \A i \in Id \ {cl.nextId} : cl'.resp[i] = r[i]
  OBVIOUS
<1>5. StdioType'
  BY <1>2, Zenon DEF StdioType
<1>6. AnswerInv'
  <2>1. \A i \in Id : cl'.resp[i] \in {"result", "error"} => i \in answered'
    BY <1>4, Zenon DEF AnswerInv
  <2>2. OkIsAnswered'
    BY <1>3, Zenon DEF AnswerInv, OkIsAnswered
  <2> QED
    BY <2>1, <2>2, Zenon DEF AnswerInv
<1>7. WaitInv'
  <2>1. cl.nextId < cl'.nextId /\ cl.nextId \in Nat
    BY DEF StdioType, Members
  <2>2. \A d \in Caller \ {c} : Waiting(d)' => Waiting(d) /\ call'[d].id \in Id /\ call'[d].id < cl.nextId
    BY <1>3, Zenon DEF WaitInv, Waiting
  <2>3. \A d \in Caller : Waiting(d)' => call'[d].id \in Id /\ call'[d].id < cl'.nextId
    BY <1>3, <2>1, <2>2, SMTT(30) DEF Id
  <2>4. \A d, e \in Caller : Waiting(d)' /\ Waiting(e)' /\ call'[d].id = call'[e].id => d = e
    BY <1>3, <2>1, <2>2, SMTT(30) DEF WaitInv, Id
  <2> QED
    BY <2>3, <2>4, Zenon DEF WaitInv
<1>8. TransportInv'
  <2>1. ASSUME NEW d \in Caller, call'[d].pc = "handshake", cl'.resp[call'[d].id] = "open"
        PROVE  cl'.open
    <3>1. CASE d = c
      BY <1>3, <2>1, <3>1, Zenon
    <3>2. CASE d # c
      <4>1. call[d].pc = "handshake" /\ call[d].id \in Id /\ call[d].id < cl.nextId /\ call'[d] = call[d]
        BY <1>3, <2>1, <3>2, SMTT(30) DEF WaitInv, Waiting
      <4>2. call[d].id # cl.nextId
        BY <4>1 DEF Id, StdioType, Members
      <4> QED
        BY <1>4, <2>1, <4>1, <4>2, SMTT(30) DEF TransportInv
    <3> QED
      BY <3>1, <3>2, Zenon
  <2> QED
    BY <2>1, Zenon DEF TransportInv, OperationsOk
<1> QED
  BY <1>5, <1>6, <1>7, <1>8, Zenon

LEMMA StdioInit == Init => StdioInv
<1> SUFFICES ASSUME Init PROVE StdioInv
  OBVIOUS
<1>1. cl \in Members /\ cl.writing = 0 /\ cl.child = 0 /\ \A i \in Id : cl.resp[i] = "none"
  BY StdioAssumption DEF Init, Members, Response
<1>2. /\ call \in [Caller -> CallState]
      /\ \A c \in Caller : call[c].pc = "idle" /\ call[c].id = 0 /\ call[c].result = "none"
  BY Zenon DEF Init, CallState
<1>3. StdioType
  BY <1>1, <1>2, SMTT(30) DEF Init, StdioType
<1> QED
  BY <1>1, <1>2, <1>3, SMTT(30) DEF Init, StdioInv, AnswerInv, OkIsAnswered, WaitInv, Waiting, TransportInv

LEMMA CallReadyStep ==
  ASSUME StdioInv, NEW c \in Caller, CallReady(c)
  PROVE  StdioInv' /\ KeepsOpen
<1>1. cl \in Members /\ cl.nextId \in Id /\ (cl.writing # 0 => cl.queue # <<>>)
  BY StdioAssumption DEF StdioInv, StdioType, TransportInv, Members, CallReady, Id
<1>2. cl' = SendRequest(cl, "call") /\ Awaits(c, "wait")
  BY Zenon DEF CallReady
<1>3. cl.resp \in [Id -> Response]
  BY <1>1, Zenon DEF Members
<1>4. /\ cl' \in Members /\ cl'.resp = [cl.resp EXCEPT ![cl.nextId] = "open"]
      /\ cl'.nextId = cl.nextId + 1 /\ cl'.child = cl.child /\ cl'.open = cl.open
      /\ cl'.queue # <<>> /\ cl'.writing \in {0, cl.writing, cl.child}
  BY <1>1, <1>2, SendRequestFacts, Zenon
<1>5. /\ UNCHANGED <<inbox, outbox, answered, readers, alive>>
      /\ readers \subseteq Child /\ alive \subseteq Child
  BY Zenon DEF CallReady, StdioInv, StdioType
<1>6. OperationsOk
  <2>1. cl.child \in Nat /\ cl.writing <= cl.child /\ \A k \in readers : k <= cl.child
    BY <1>1 DEF StdioInv, TransportInv, Members, Child
  <2> QED
    BY <1>4, <1>5, <2>1, SMTT(30) DEF OperationsOk
<1>7. KeepsOpen
  BY <1>1, <1>3, <1>4, Zenon DEF KeepsOpen
<1> QED
  BY <1>1, <1>2, <1>3, <1>4, <1>5, <1>6, <1>7, RequestingStep, Zenon

LEMMA CallAfterShutdownStep ==
  ASSUME StdioInv, NEW c \in Caller, CallAfterShutdown(c)
  PROVE  StdioInv'
BY ResolvingStep, Zenon DEF CallAfterShutdown, StdioInv, StdioType, TransportInv, Resolves, OperationsOk

\* The members before the new child is forked, or failed to be.
LEMMA DroppedFacts ==
  ASSUME StdioInv, NEW s, s = IF cl.state = "Broken" THEN ShutdownInternal(cl, FALSE) ELSE cl
  PROVE  /\ s \in Members /\ s.child = cl.child /\ s.nextId = cl.nextId
         /\ s.queue = cl.queue /\ s.writing = cl.writing /\ s.shutdown = cl.shutdown
         /\ \A i \in Id : s.resp[i] = cl.resp[i] \/ (cl.resp[i] = "open" /\ s.resp[i] = "closed")
         /\ (s.open = cl.open /\ s.resp = cl.resp) \/ \A i \in Id : s.resp[i] # "open"
<1>1. cl \in Members
  BY Zenon DEF StdioInv, StdioType
<1>2. ShutdownInternal(cl, FALSE).shutdown = cl.shutdown
  BY <1>1, ShutdownInternalFacts, Zenon DEF Members
<1>3. CASE cl.state = "Broken"
  <2>1. s \in Members /\ s.resp = [i \in Id |-> IF cl.resp[i] = "open" THEN "closed" ELSE cl.resp[i]]
    BY <1>1, <1>3, ShutdownInternalFacts, Zenon
  <2>2. \A i \in Id : s.resp[i] = IF cl.resp[i] = "open" THEN "closed" ELSE cl.resp[i]
    BY <2>1, Zenon
  <2>3. /\ s.child = cl.child /\ s.nextId = cl.nextId
        /\ s.queue = cl.queue /\ s.writing = cl.writing
    BY <1>1, <1>3, ShutdownInternalFacts, Zenon
  <2>4. s.shutdown = cl.shutdown
    BY <1>2, <1>3, Zenon
  <2>5. \A i \in Id : s.resp[i] # "open"
    BY <2>2, Zenon
  <2> QED
    BY <2>1, <2>2, <2>3, <2>4, <2>5, ZenonT(30)
<1>4. CASE cl.state # "Broken"
  BY <1>1, <1>4, Zenon
<1> QED
  BY <1>3, <1>4, Zenon

LEMMA ConnectStep ==
  ASSUME StdioInv, NEW c \in Caller, Connect(c)
  PROVE  StdioInv' /\ (cl.state = "Broken" \/ KeepsOpen)
<1> DEFINE s == IF cl.state = "Broken" THEN ShutdownInternal(cl, FALSE) ELSE cl
           k == s.child + 1
<1>1. /\ s \in Members /\ s.child = cl.child /\ s.nextId = cl.nextId
      /\ s.queue = cl.queue /\ s.writing = cl.writing
      /\ \A i \in Id : s.resp[i] = cl.resp[i] \/ (cl.resp[i] = "open" /\ s.resp[i] = "closed")
      /\ (s.open = cl.open /\ s.resp = cl.resp) \/ \A i \in Id : s.resp[i] # "open"
  BY DroppedFacts, Zenon
<1>2. /\ cl \in Members /\ readers \subseteq Child /\ alive \subseteq Child
      /\ (cl.writing # 0 => cl.queue # <<>>) /\ cl.writing <= cl.child
      /\ \A q \in readers : q <= cl.child
  BY Zenon DEF StdioInv, StdioType, TransportInv
<1>3. UNCHANGED <<inbox, outbox, answered>> /\ inbox \in [Child -> Seq(Line)]
  BY Zenon DEF Connect, StdioInv, StdioType
<1>6. cl.state = "Broken" \/ s.resp = cl.resp
  BY ZenonT(30)
<1>4. CASE /\ cl' = [s EXCEPT !.state = "Broken"] /\ Returns(c, "Internal")
           /\ alive' \subseteq alive /\ UNCHANGED readers
  <2>1. /\ cl' \in Members /\ cl'.resp = s.resp /\ cl'.child = cl.child /\ cl'.nextId = cl.nextId
        /\ cl'.queue = cl.queue /\ cl'.writing = cl.writing /\ cl'.open = s.open
    BY <1>1, <1>4, ZenonT(30) DEF Members
  <2> HIDE DEF s
  <2>2. Resolves /\ OperationsOk
    BY <1>1, <1>2, <1>4, <2>1, Zenon DEF Resolves, OperationsOk
  <2>3. cl.state = "Broken" \/ KeepsOpen
    BY <1>6, <2>1, Zenon DEF KeepsOpen
  <2> QED
    BY <1>1, <1>2, <1>3, <1>4, <2>1, <2>2, <2>3, ResolvingStep, Zenon
<1>5. CASE /\ cl' = SendRequest([s EXCEPT !.child = k, !.open = TRUE, !.state = "Ready"], "initialize")
           /\ Awaits(c, "handshake")
           /\ alive' \subseteq alive \cup {k} /\ readers' = readers \cup {k}
  <2> DEFINE t == [s EXCEPT !.child = k, !.open = TRUE, !.state = "Ready"]
  <2>1. cl.nextId \in Id /\ k \in Child /\ k > cl.child /\ k = cl.child + 1
    <3>1. cl.nextId < MaxId /\ cl.child < MaxChild /\ k = cl.child + 1
      BY <1>1, Zenon DEF Connect
    <3> HIDE DEF s, k
    <3> QED
      BY <1>2, <3>1, StdioAssumption DEF Members, Id, Child
  <2> HIDE DEF k
  <2>2. /\ t \in Members /\ t.child = k /\ t.open = TRUE /\ t.resp = s.resp
        /\ t.nextId = cl.nextId /\ t.queue = cl.queue /\ t.writing = cl.writing
    <3> HIDE DEF s
    <3> DEFINE t1 == [s EXCEPT !.child = k]
               t2 == [t1 EXCEPT !.open = TRUE]
    <3>1. /\ t1 \in Members /\ t1.child = k /\ t1.resp = s.resp
          /\ t1.nextId = cl.nextId /\ t1.queue = cl.queue /\ t1.writing = cl.writing
      BY <1>1, <2>1, Zenon DEF Members
    <3> HIDE DEF t1
    <3>2. /\ t2 \in Members /\ t2.child = k /\ t2.open = TRUE /\ t2.resp = s.resp
          /\ t2.nextId = cl.nextId /\ t2.queue = cl.queue /\ t2.writing = cl.writing
      BY <3>1, ZenonT(30) DEF Members
    <3>3. t = [t2 EXCEPT !.state = "Ready"]
      BY Zenon DEF t1
    <3> HIDE DEF t2, t
    <3> QED
      BY <3>2, <3>3, Zenon DEF Members
  <2>3. cl' = SendRequest(t, "initialize")
    BY <1>5, Zenon
  <2> HIDE DEF t, s
  <2>4. /\ cl' \in Members /\ cl'.resp = [s.resp EXCEPT ![cl.nextId] = "open"]
        /\ cl'.nextId = cl.nextId + 1 /\ cl'.child = k /\ cl'.open = TRUE
        /\ cl'.queue # <<>> /\ cl'.writing \in {0, cl.writing, k}
    <3>1. t.nextId \in Id /\ (t.writing # 0 => t.queue # <<>>) /\ t \in Members
      BY <1>2, <2>1, <2>2, Zenon
    <3>2. /\ cl' \in Members /\ cl'.resp = [t.resp EXCEPT ![t.nextId] = "open"]
          /\ cl'.nextId = t.nextId + 1 /\ cl'.child = t.child /\ cl'.open = t.open
          /\ cl'.queue # <<>> /\ cl'.writing \in {0, t.writing, t.child}
      BY <2>3, <3>1, SendRequestFacts, Zenon
    <3> QED
      BY <2>2, <3>2, Zenon
  <2>5. OperationsOk
    BY <1>2, <1>5, <2>1, <2>4, SMTT(30) DEF OperationsOk, Members, Child
  <2>6. s.resp \in [Id -> Response]
    BY <1>1, Zenon DEF Members
  <2>7. cl.state = "Broken" \/ KeepsOpen
    BY <1>6, <2>1, <2>4, <2>6, Zenon DEF KeepsOpen
  <2> QED
    BY <1>1, <1>2, <1>3, <1>5, <2>1, <2>4, <2>5, <2>6, <2>7, RequestingStep, SMTT(30)
<1> QED
  BY <1>4, <1>5, Zenon DEF Connect

\* What the steps below need of the state they start from.
LEMMA StdioFacts ==
  ASSUME StdioInv
  PROVE  /\ cl \in Members /\ call \in [Caller -> CallState]
         /\ readers \subseteq Child /\ alive \subseteq Child /\ answered \subseteq Id
         /\ inbox \in [Child -> Seq(Line)] /\ outbox \in [Child -> Seq(Id)]
         /\ cl.resp \in [Id -> Response] /\ cl.child \in Nat /\ cl.writing \in Nat
         /\ cl.writing <= cl.child /\ (cl.writing # 0 => cl.queue # <<>>)
         /\ \A k \in readers : k <= cl.child
         /\ \A c \in Caller : Waiting(c) => call[c].id \in Id
BY DEF StdioInv, StdioType, TransportInv, WaitInv, Members, Child

LEMMA HandshakeDoneStep ==
  ASSUME StdioInv, NEW c \in Caller, HandshakeDone(c)
  PROVE  StdioInv' /\ KeepsOpen
<1>1. /\ call[c].pc = "handshake" /\ call[c].id \in Id
      /\ UNCHANGED <<readers, alive, inbox, outbox, answered>>
  BY StdioFacts, Zenon DEF HandshakeDone, Waiting
<1>2. CASE cl.resp[call[c].id] # "result"
  <2>1. cl' = [cl EXCEPT !.state = "Broken"] /\ Returns(c, Failure(cl.resp[call[c].id]))
    BY <1>2, Zenon DEF HandshakeDone
  <2>2. /\ cl' \in Members /\ cl'.resp = cl.resp /\ cl'.nextId = cl.nextId /\ cl'.open = cl.open
        /\ cl'.child = cl.child /\ cl'.queue = cl.queue /\ cl'.writing = cl.writing
    BY <2>1, StdioFacts, ZenonT(30) DEF Members
  <2>3. Resolves /\ OperationsOk
    BY <1>1, <2>2, StdioFacts, Zenon DEF Resolves, OperationsOk
  <2>4. Failure(cl.resp[call[c].id]) \in {"Internal", "Unavailable"}
    BY Zenon DEF Failure
  <2> QED
    BY <1>1, <2>1, <2>2, <2>3, <2>4, StdioFacts, ResolvingStep, Zenon DEF KeepsOpen
<1>3. CASE cl.resp[call[c].id] = "result"
  <2> DEFINE n == SendNotification(cl, "initialized", call[c].id)
             s == [n EXCEPT !.state = "Ready"]
  <2>1. call[c].id \in answered
    BY <1>1, <1>3, Zenon DEF StdioInv, AnswerInv
  <2>2. /\ n \in Members /\ n.resp = cl.resp /\ n.nextId = cl.nextId /\ n.open = cl.open
        /\ n.child = cl.child /\ (n.writing # 0 => n.queue # <<>>)
        /\ n.writing \in {0, cl.writing, cl.child}
    BY <1>1, StdioFacts, SendNotificationFacts, Zenon DEF SameButQueue
  <2>3. \/ cl' = s /\ Returns(c, "Ok")
        \/ cl.nextId <= MaxId /\ cl' = SendRequest(s, "call") /\ Awaits(c, "wait")
    BY <1>3, Zenon DEF HandshakeDone
  <2> HIDE DEF n
  <2>4. /\ s \in Members /\ s.resp = cl.resp /\ s.nextId = cl.nextId /\ s.open = cl.open
        /\ s.child = cl.child /\ (s.writing # 0 => s.queue # <<>>)
        /\ s.writing \in {0, cl.writing, cl.child}
    BY <2>2, Zenon DEF Members
  <2> HIDE DEF s
  <2>5. CASE cl' = s /\ Returns(c, "Ok")
    <3>1. Resolves /\ OperationsOk
      BY <1>1, <2>4, <2>5, StdioFacts DEF Resolves, OperationsOk
    <3> QED
      BY <1>1, <2>1, <2>4, <2>5, <3>1, StdioFacts, ResolvingStep, Zenon DEF KeepsOpen
  <2>6. CASE cl.nextId <= MaxId /\ cl' = SendRequest(s, "call") /\ Awaits(c, "wait")
    <3>1. cl.nextId \in Id
      BY <2>6, StdioFacts, StdioAssumption, SMTT(30) DEF Members, Id
    <3>2. /\ cl' \in Members /\ cl'.resp = [s.resp EXCEPT ![s.nextId] = "open"]
          /\ cl'.nextId = s.nextId + 1 /\ cl'.child = s.child /\ cl'.open = s.open
          /\ cl'.queue # <<>> /\ cl'.writing \in {0, s.writing, s.child}
      BY <2>4, <2>6, <3>1, SendRequestFacts, ZenonT(30)
    <3>3. /\ cl'.resp = [cl.resp EXCEPT ![cl.nextId] = "open"] /\ cl'.nextId = cl.nextId + 1
          /\ cl'.open = cl.open /\ cl'.child = cl.child /\ cl'.writing \in {0, cl.writing, cl.child}
      BY <2>4, <3>2, Zenon
    <3>4. OperationsOk
      BY <1>1, <3>2, <3>3, StdioFacts, SMTT(30) DEF OperationsOk
    <3>5. KeepsOpen
      BY <3>1, <3>3, StdioFacts, Zenon DEF KeepsOpen
    <3> QED
      BY <1>1, <2>6, <3>1, <3>2, <3>3, <3>4, <3>5, StdioFacts, RequestingStep, ZenonT(30)
  <2> QED
    BY <2>3, <2>5, <2>6, Zenon
<1> QED
  BY <1>2, <1>3, Zenon

LEMMA CallDoneStep ==
  ASSUME StdioInv, NEW c \in Caller, CallDone(c)
  PROVE  StdioInv'
<1>1. /\ UNCHANGED <<cl, readers, alive, inbox, outbox, answered>>
      /\ call[c].id \in Id
  BY StdioFacts, Zenon DEF CallDone, Waiting
<1>2. Resolves /\ OperationsOk
  BY <1>1, StdioFacts, Zenon DEF Resolves, OperationsOk
<1>3. PICK r \in {"Ok", "Internal", "Unavailable"} :
        Returns(c, r) /\ (r = "Ok" => cl.resp[call[c].id] = "result")
  BY Zenon DEF CallDone, Failure
<1>4. r = "Ok" => call[c].id \in answered
  BY <1>1, <1>3, Zenon DEF StdioInv, AnswerInv
<1> QED
  BY <1>1, <1>2, <1>3, <1>4, StdioFacts, ResolvingStep, Zenon

LEMMA CancelStep ==
  ASSUME StdioInv, NEW c \in Caller, Cancel(c)
  PROVE  StdioInv' /\ cl'.resp = [cl.resp EXCEPT ![call[c].id] = "closed"]
<1> DEFINE s == [cl EXCEPT !.resp[call[c].id] = "closed"]
<1>1. /\ UNCHANGED <<call, readers, alive, inbox, outbox, answered>>
      /\ call[c].id \in Id /\ cl.resp[call[c].id] = "open"
  BY StdioFacts, Zenon DEF Cancel, Waiting
<1>2. /\ s \in Members /\ s.resp = [cl.resp EXCEPT ![call[c].id] = "closed"]
      /\ s.nextId = cl.nextId /\ s.open = cl.open
      /\ s.child = cl.child /\ s.queue = cl.queue /\ s.writing = cl.writing
  BY <1>1, StdioFacts, Zenon DEF Members, Response
<1>3. cl' = SendNotification(s, "cancelled", call[c].id)
  BY Zenon DEF Cancel
<1> HIDE DEF s
<1>4. /\ cl' \in Members /\ cl'.resp = s.resp /\ cl'.nextId = s.nextId /\ cl'.open = s.open
      /\ cl'.child = s.child /\ (cl'.writing # 0 => cl'.queue # <<>>)
      /\ cl'.writing \in {0, s.writing, s.child}
  BY <1>1, <1>2, <1>3, StdioFacts, SendNotificationFacts, SMTT(30) DEF SameButQueue
<1>5. Resolves /\ OperationsOk
  BY <1>1, <1>2, <1>4, StdioFacts, SMTT(30) DEF Resolves, OperationsOk
<1> QED
  BY <1>1, <1>2, <1>4, <1>5, StdioFacts, ResolvingStep, ZenonT(30)

LEMMA TimesOutStep ==
  ASSUME StdioInv, NEW c \in Caller, TimesOut(c)
  PROVE  StdioInv' /\ cl'.resp = [cl.resp EXCEPT ![call[c].id] = "left"]
<1>1. /\ UNCHANGED <<call, readers, alive, inbox, outbox, answered>>
      /\ call[c].id \in Id /\ cl.resp[call[c].id] = "open"
      /\ cl' = [cl EXCEPT !.resp[call[c].id] = "left"]
  BY StdioFacts, Zenon DEF TimesOut
<1>2. /\ cl' \in Members /\ cl'.resp = [cl.resp EXCEPT ![call[c].id] = "left"]
      /\ cl'.nextId = cl.nextId /\ cl'.open = cl.open
      /\ cl'.child = cl.child /\ cl'.queue = cl.queue /\ cl'.writing = cl.writing
  BY <1>1, StdioFacts, ZenonT(30) DEF Members, Response
<1>3. Resolves /\ OperationsOk
  BY <1>1, <1>2, StdioFacts DEF Resolves, OperationsOk
<1> QED
  BY <1>1, <1>2, <1>3, StdioFacts, ResolvingStep, Zenon

LEMMA ShutdownStep ==
  ASSUME StdioInv, Shutdown
  PROVE  StdioInv' /\ cl'.shutdown
<1>1. /\ cl' = ShutdownInternal(cl, TRUE) /\ alive' \subseteq alive
      /\ UNCHANGED <<call, readers, inbox, outbox, answered>>
  BY Zenon DEF Shutdown
<1>2. /\ cl' \in Members /\ cl'.shutdown /\ cl'.nextId = cl.nextId
      /\ cl'.resp = [i \in Id |-> IF cl.resp[i] = "open" THEN "closed" ELSE cl.resp[i]]
      /\ cl'.child = cl.child /\ cl'.queue = cl.queue /\ cl'.writing = cl.writing
  BY <1>1, StdioFacts, ShutdownInternalFacts, Zenon
<1>3. Resolves /\ OperationsOk /\ \A i \in Id : cl'.resp[i] # "open"
  BY <1>1, <1>2, StdioFacts, ZenonT(30) DEF Resolves, OperationsOk
<1> QED
  BY <1>1, <1>2, <1>3, StdioFacts, ResolvingStep, ZenonT(30)

\* The write queue without its first line.
LEMMA PoppedFacts ==
  ASSUME StdioInv, cl.writing # 0
  PROVE  /\ Popped \in Members /\ Popped.resp = cl.resp /\ Popped.nextId = cl.nextId
         /\ Popped.open = cl.open /\ Popped.child = cl.child /\ Popped.shutdown = cl.shutdown
<1>1. Tail(cl.queue) \in Seq(Line)
  BY StdioFacts DEF Members
<1> QED
  BY <1>1, StdioFacts, Zenon DEF Popped, Members

LEMMA WriteDoneStep ==
  ASSUME StdioInv, WriteDone
  PROVE  StdioInv' /\ cl'.resp = cl.resp
<1>1. /\ cl.writing # 0 /\ cl' = PumpWriter(Popped)
      /\ UNCHANGED <<call, readers, alive, outbox, answered>>
  BY Zenon DEF WriteDone
<1>2. /\ cl' \in Members /\ cl'.resp = cl.resp /\ cl'.nextId = cl.nextId /\ cl'.open = cl.open
      /\ cl'.child = cl.child /\ cl'.writing \in {0, cl.child}
      /\ cl'.writing # 0 => cl'.queue # <<>>
  BY <1>1, PoppedFacts, PumpWriterFacts, SMTT(30) DEF SameButQueue
<1>3. inbox' \in [Child -> Seq(Line)]
  <2>1. Head(cl.queue) \in Line
    BY <1>1, StdioFacts DEF Members
  <2>2. \A k \in alive : Append(inbox[k], Head(cl.queue)) \in Seq(Line)
    BY <2>1, StdioFacts, SMTT(30)
  <2> QED
    BY <1>1, <2>2, StdioFacts, ZenonT(30) DEF WriteDone
<1>4. Resolves /\ OperationsOk
  BY <1>1, <1>2, StdioFacts, SMTT(30) DEF Resolves, OperationsOk
<1> QED
  BY <1>1, <1>2, <1>3, <1>4, StdioFacts, ResolvingStep, Zenon

LEMMA WriteFailsStep ==
  ASSUME StdioInv, WriteFails
  PROVE  StdioInv'
<1> DEFINE b == Broke(Popped)
<1>1. /\ cl.writing # 0 /\ cl' = [b EXCEPT !.writing = 0]
      /\ UNCHANGED <<call, readers, alive, inbox, outbox, answered>>
  BY Zenon DEF WriteFails
<1>2. /\ b \in Members /\ b.nextId = cl.nextId /\ b.open = cl.open /\ b.child = cl.child
      /\ b.resp = [i \in Id |-> IF cl.resp[i] = "open" THEN "closed" ELSE cl.resp[i]]
  BY <1>1, PoppedFacts, BrokeFacts, SMTT(30)
<1> HIDE DEF b
<1>3. /\ cl' \in Members /\ cl'.resp = b.resp /\ cl'.nextId = b.nextId /\ cl'.open = b.open
      /\ cl'.child = b.child /\ cl'.writing = 0
  BY <1>1, <1>2, Zenon DEF Members
<1>4. Resolves /\ OperationsOk
  BY <1>1, <1>2, <1>3, StdioFacts, SMTT(30) DEF Resolves, OperationsOk
<1> QED
  BY <1>1, <1>2, <1>3, <1>4, StdioFacts, ResolvingStep, Zenon

LEMMA ReadFailsStep ==
  ASSUME StdioInv, NEW k \in Child, ReadFails(k)
  PROVE  StdioInv'
<1>1. /\ cl' = Broke(cl) /\ readers' \subseteq readers
      /\ UNCHANGED <<call, alive, inbox, outbox, answered>>
  BY Zenon DEF ReadFails
<1>2. /\ cl' \in Members /\ cl'.nextId = cl.nextId /\ cl'.open = cl.open /\ cl'.child = cl.child
      /\ cl'.resp = [i \in Id |-> IF cl.resp[i] = "open" THEN "closed" ELSE cl.resp[i]]
      /\ cl'.queue = cl.queue /\ cl'.writing = cl.writing
  BY <1>1, StdioFacts, BrokeFacts, Zenon
<1>3. Resolves /\ OperationsOk
  BY <1>1, <1>2, StdioFacts, Zenon DEF Resolves, OperationsOk
<1> QED
  BY <1>1, <1>2, <1>3, StdioFacts, ResolvingStep, Zenon

LEMMA ReadLineStep ==
  ASSUME StdioInv, NEW k \in Child, ReadLine(k)
  PROVE  StdioInv' /\ \A i \in Id : cl'.resp[i] = cl.resp[i] \/ cl'.resp[i] \in {"result", "error"}
<1> DEFINE i == Head(outbox[k])
<1>1. /\ outbox[k] # <<>> /\ outbox' = [outbox EXCEPT ![k] = Tail(@)]
      /\ UNCHANGED <<call, readers, alive, inbox, answered>>
  BY Zenon DEF ReadLine
<1>2. outbox[k] \in Seq(Id) /\ i \in Id /\ i \in answered
  BY <1>1, StdioFacts DEF StdioInv, AnswerInv
<1>3. PICK answer \in {"result", "error"} :
        cl' = cl \/ (cl.resp[i] = "open" /\ cl' = [cl EXCEPT !.resp[i] = answer])
  BY Zenon DEF ReadLine, DispatchInbound
<1> HIDE DEF i
<1>4. /\ cl' \in Members /\ cl'.nextId = cl.nextId /\ cl'.open = cl.open
      /\ cl'.child = cl.child /\ cl'.queue = cl.queue /\ cl'.writing = cl.writing
      /\ \A j \in Id : cl'.resp[j] = cl.resp[j] \/ (j = i /\ cl.resp[j] = "open" /\ cl'.resp[j] = answer)
  <2>1. CASE cl' = cl
    BY <2>1, StdioFacts, Zenon
  <2>2. CASE cl.resp[i] = "open" /\ cl' = [cl EXCEPT !.resp[i] = answer]
    BY <1>2, <2>2, StdioFacts, ZenonT(30) DEF Members, Response
  <2> QED
    BY <1>3, <2>1, <2>2, Zenon
<1>5. /\ outbox' \in [Child -> Seq(Id)]
      /\ \A q \in Child : \A n \in DOMAIN outbox'[q] : outbox'[q][n] \in answered
  <2>1. Tail(outbox[k]) \in Seq(Id) /\ \A n \in DOMAIN Tail(outbox[k]) : Tail(outbox[k])[n] \in answered
    BY <1>1, <1>2, SMTT(30) DEF StdioInv, AnswerInv
  <2>2. outbox'[k] = Tail(outbox[k]) /\ \A q \in Child \ {k} : outbox'[q] = outbox[q]
    BY <1>1, StdioFacts, Zenon
  <2> QED
    BY <1>1, <2>1, <2>2, StdioFacts, Zenon DEF StdioInv, AnswerInv
<1>6. OperationsOk
  BY <1>1, <1>4, StdioFacts, Zenon DEF OperationsOk
<1>7. StdioType' /\ WaitInv'
  BY <1>1, <1>4, <1>5, Zenon DEF StdioInv, StdioType, WaitInv, Waiting
<1>8. AnswerInv'
  BY <1>1, <1>2, <1>4, <1>5, ZenonT(30) DEF StdioInv, AnswerInv, OkIsAnswered
<1>9. TransportInv'
  BY <1>1, <1>4, <1>6, Zenon DEF StdioInv, TransportInv, OperationsOk, WaitInv, Waiting
<1> QED
  BY <1>4, <1>7, <1>8, <1>9, Zenon DEF StdioInv

LEMMA AppendAnswer ==
  ASSUME NEW ids, NEW s \in Seq(ids), NEW x \in ids, NEW A, \A n \in DOMAIN s : s[n] \in A
  PROVE  /\ Append(s, x) \in Seq(ids)
         /\ \A n \in DOMAIN Append(s, x) : Append(s, x)[n] \in A \cup {x}
BY SMTT(30)

LEMMA ChildRepliesStep ==
  ASSUME StdioInv, NEW k \in Child, ChildReplies(k)
  PROVE  StdioInv'
<1>1. PICK l \in {inbox[k][n] : n \in DOMAIN inbox[k]} :
        /\ outbox' = [outbox EXCEPT ![k] = Append(@, l.id)] /\ answered' = answered \cup {l.id}
  BY ZenonT(30) DEF ChildReplies
<1>2. l.id \in Id /\ UNCHANGED <<cl, call, readers, alive, inbox>>
  <2>1. inbox[k] \in Seq(Line)
    BY StdioFacts, Zenon
  <2>2. l \in Line
    BY <2>1, SMTT(30)
  <2> QED
    BY <2>2, Zenon DEF ChildReplies, Line
<1>3. /\ outbox' \in [Child -> Seq(Id)]
      /\ \A q \in Child : \A n \in DOMAIN outbox'[q] : outbox'[q][n] \in answered'
  <2>1. /\ Append(outbox[k], l.id) \in Seq(Id)
        /\ \A n \in DOMAIN Append(outbox[k], l.id) : Append(outbox[k], l.id)[n] \in answered'
    <3>1. outbox[k] \in Seq(Id) /\ \A n \in DOMAIN outbox[k] : outbox[k][n] \in answered
      BY StdioFacts, ZenonT(30) DEF StdioInv, AnswerInv
    <3> QED
      BY <1>1, <1>2, <3>1, AppendAnswer, ZenonT(30)
  <2>2. outbox'[k] = Append(outbox[k], l.id) /\ \A q \in Child \ {k} : outbox'[q] = outbox[q]
    BY <1>1, StdioFacts, Zenon
  <2> QED
    BY <1>1, <2>1, <2>2, StdioFacts, ZenonT(30) DEF StdioInv, AnswerInv
<1> QED
  BY <1>1, <1>2, <1>3, ZenonT(30)
     DEF StdioInv, StdioType, AnswerInv, OkIsAnswered, WaitInv, Waiting, TransportInv

LEMMA StdioStep == StdioInv /\ [Next]_vars => StdioInv'
<1> SUFFICES ASSUME StdioInv, [Next]_vars PROVE StdioInv'
  BY Zenon
<1>1. CASE UNCHANGED <<cl, call, readers, inbox, outbox, answered>> /\ alive' \subseteq alive
  BY <1>1, Zenon DEF StdioInv, StdioType, AnswerInv, OkIsAnswered, WaitInv, Waiting, TransportInv
<1>2. ASSUME NEW c \in Caller, CallerStep(c) PROVE StdioInv'
  BY <1>2, CallReadyStep, CallAfterShutdownStep, ConnectStep, HandshakeDoneStep, CallDoneStep,
     CancelStep, TimesOutStep, ZenonT(30) DEF CallerStep
<1>3. ASSUME NEW k \in Child, ReadLine(k) \/ ReadFails(k) \/ ChildReplies(k) \/ ChildDies(k)
      PROVE  StdioInv'
  BY <1>1, <1>3, ReadLineStep, ReadFailsStep, ChildRepliesStep, Zenon DEF ChildDies
<1> QED
  BY <1>1, <1>2, <1>3, ShutdownStep, WriteDoneStep, WriteFailsStep, Zenon DEF Next, Armed, vars

\* A call to an MCP server over stdio reports Ok only for a response that a
\* server process gave to that very request, however many children died, were
\* dropped or answered late, and whichever callers were cancelled or timed out.
THEOREM OkOnlyIfAnswered == CSpec => []OkIsAnswered
<1>1. StdioInv /\ [CNext]_<<transport, vars, hvars>> => StdioInv'
  BY StdioStep, Zenon DEF CNext
<1>2. CInit => StdioInv
  BY StdioInit, Zenon DEF CInit
<1>3. StdioInv => OkIsAnswered
  BY Zenon DEF StdioInv, AnswerInv
<1> QED
  BY <1>1, <1>2, <1>3, PTL DEF CSpec

\* The only steps that close the channel of a handshake.
LEMMA HandshakeCause ==
  ASSUME StdioInv, [Next]_vars, NEW c \in Caller, call[c].pc = "handshake",
         cl.resp[call[c].id] = "open", cl'.resp[call[c].id] = "closed"
  PROVE  \/ cl'.shutdown \/ cl.child \notin alive \/ cl.state = "Broken"
         \/ \E k \in readers \cup {cl.writing} : 0 < k /\ k < cl.child
<1>1. call[c].id \in Id /\ cl.open
  BY Zenon DEF StdioInv, WaitInv, Waiting, TransportInv
<1>2. ~KeepsOpen /\ cl' # cl
  BY <1>1, Zenon DEF KeepsOpen
<1>3. ASSUME NEW d \in Caller, CallerStep(d) PROVE cl.state = "Broken"
  <2>1. ~Cancel(d)
    <3> SUFFICES ASSUME Cancel(d) PROVE FALSE
      OBVIOUS
    <3>1. call[d].pc = "wait" /\ call[d].id \in Id /\ cl'.resp = [cl.resp EXCEPT ![call[d].id] = "closed"]
      BY CancelStep, StdioFacts, ZenonT(30) DEF Cancel, Waiting
    <3>2. call[d].id # call[c].id
      BY <3>1, Zenon DEF StdioInv, WaitInv, Waiting
    <3> QED
      BY <1>1, <3>1, <3>2, StdioFacts, Zenon
  <2>2. ~TimesOut(d)
    <3> SUFFICES ASSUME TimesOut(d) PROVE FALSE
      OBVIOUS
    <3>1. call[d].id \in Id /\ cl'.resp = [cl.resp EXCEPT ![call[d].id] = "left"]
      BY TimesOutStep, StdioFacts, Zenon DEF TimesOut
    <3> QED
      BY <1>1, <3>1, StdioFacts, Zenon
  <2> QED
    BY <1>2, <1>3, <2>1, <2>2, CallReadyStep, HandshakeDoneStep, ConnectStep, ZenonT(30)
       DEF CallerStep, CallAfterShutdown, CallDone
<1>4. ASSUME NEW k \in Nat \ {0}, k <= cl.child, k \in readers \cup {cl.writing},
             Stale(k) \/ k \notin alive
      PROVE  \/ cl.child \notin alive
             \/ \E q \in readers \cup {cl.writing} : 0 < q /\ q < cl.child
  BY <1>1, <1>4, StdioFacts, SMTT(30) DEF Stale
<1>5. CASE WriteFails
  <2>1. cl.writing \in Nat \ {0} /\ (Stale(cl.writing) \/ cl.writing \notin alive)
    BY <1>5, StdioFacts, Zenon DEF WriteFails
  <2> QED
    BY <1>4, <2>1, StdioFacts, Zenon
<1>6. ASSUME NEW k \in Child, ReadFails(k)
      PROVE  \/ cl.child \notin alive
             \/ \E q \in readers \cup {cl.writing} : 0 < q /\ q < cl.child
  <2>1. k \in readers /\ k \in Nat \ {0} /\ (Stale(k) \/ k \notin alive)
    BY <1>6, StdioFacts, SMTT(30) DEF ReadFails, Child
  <2> QED
    BY <1>4, <2>1, StdioFacts, Zenon
<1>7. ASSUME NEW k \in Child PROVE ~ReadLine(k) /\ ~ChildReplies(k) /\ ~ChildDies(k)
  BY <1>1, <1>2, ReadLineStep, ZenonT(30) DEF ChildReplies, ChildDies
<1>8. ~WriteDone
  BY WriteDoneStep, Zenon
<1> QED
  BY <1>2, <1>3, <1>5, <1>6, <1>7, <1>8, ShutdownStep, Zenon DEF Next, Armed, vars

\* A handshake over stdio whose server process runs and has not answered fails
\* only for one of three causes: Shutdown, the aborted operation of an earlier
\* child, or a Connect that found the state kBroken behind its back.
THEOREM HandshakeCauses == CSpec => HandshakeFailsForCause
<1>1. StdioInv /\ [CNext]_<<transport, vars, hvars>> => StdioInv'
  BY StdioStep, Zenon DEF CNext
<1>2. CInit => StdioInv
  BY StdioInit, Zenon DEF CInit
<1>3. [CNext]_<<transport, vars, hvars>> => [Next]_vars
  BY Zenon DEF CNext
<1>4. StdioInv /\ [Next]_vars =>
        [\A c \in Caller : call[c].pc = "handshake" /\ cl.resp[call[c].id] = "open"
                             /\ cl'.resp[call[c].id] = "closed"
           => \/ cl'.shutdown \/ cl.child \notin alive \/ cl.state = "Broken"
              \/ \E k \in readers \cup {cl.writing} : 0 < k /\ k < cl.child]_vars
  BY HandshakeCause, Zenon
<1> QED
  BY <1>1, <1>2, <1>3, <1>4, PTL DEF CSpec, HandshakeFailsForCause
=============================================================================
