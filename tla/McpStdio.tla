------------------------------ MODULE McpStdio ------------------------------
(***************************************************************************)
(* McpClient over a child process (agentflow/tools/mcp_client.cc): callers *)
(* share one client on a single-threaded io_context.  A handler runs       *)
(* without interruption up to its next co_await; what the client's members *)
(* become in one handler is computed by operators on the record cl.        *)
(***************************************************************************)
EXTENDS Naturals, Sequences, SequencesExt

CONSTANTS Caller,       \* coroutines that use the client
          MaxId,        \* bound: JSON-RPC ids handed out
          MaxChild,     \* bound: processes forked
          Timed,        \* the callers that are adapters with a call timeout
          CanShutdown,  \* TRUE: the owner may call Shutdown()
          Deaths        \* how a child may die: "clean", "midline" (of its output)

ASSUME StdioAssumption ==
  /\ MaxId \in Nat /\ MaxChild \in Nat /\ Timed \subseteq Caller
  /\ CanShutdown \in BOOLEAN /\ Deaths \subseteq {"clean", "midline"}

VARIABLES
  cl,        \* members of McpClient::Impl
  posted,    \* completions queued in the io_context (Posts)
  call,      \* per caller: pc, the id it waits for, result
  readers,   \* children whose ReadLoop has not returned
  dirty,     \* read_buf_ starts with bytes of an unterminated line
  alive,     \* child processes that run
  truncated, \* children that died in the middle of a line
  inbox,     \* per child: the lines its stdin received
  outbox,    \* per child: ids of the responses on its stdout, not yet read
  answered   \* ids a child has answered

vars == <<cl, posted, call, readers, dirty, alive, truncated, inbox, outbox, answered>>

Id == 1 .. MaxId
Child == 1 .. MaxChild
Line == [method : {"initialize", "initialized", "call", "cancelled"}, id : Id]
IsRequest(l) == l.method \in {"initialize", "call"}
Waiting(c) == call[c].pc \in {"handshake", "wait"}

\* resp[i] is request i's RespChannel; i is in pending_ exactly while it is
\* "open", since whoever erases it closes the channel or sends into it; it also
\* stays there when the receiver was cancelled ("left"), to no effect.
\* writing is the child whose stdin the outstanding async_write uses; it is 0
\* exactly when write_active_ is false.
TypeOK ==
  /\ cl \in [state : {"Idle", "Ready", "Broken"}, shutdown : BOOLEAN,
             child : {0} \cup Child, open : BOOLEAN, nextId : 1 .. MaxId + 1,
             resp : [Id -> {"none", "open", "closed", "result", "error", "left"}],
             queue : Seq(Line), writing : {0} \cup Child]
  /\ posted \in Seq([op : {"resume", "read", "write"}, n : Id \cup Child])
  /\ call \in [Caller -> [pc : {"idle", "handshake", "wait", "done"}, id : {0} \cup Id,
                          result : {"none", "Ok", "Internal", "Unavailable", "Cancelled"}]]
  /\ readers \subseteq Child /\ alive \subseteq Child /\ truncated \subseteq Child
  /\ dirty \in BOOLEAN
  /\ inbox \in [Child -> Seq(Line)] /\ outbox \in [Child -> Seq(Id)]
  /\ answered \subseteq Id

Init ==
  /\ cl = [state |-> "Idle", shutdown |-> FALSE, child |-> 0, open |-> FALSE, nextId |-> 1,
           resp |-> [i \in Id |-> "none"], queue |-> <<>>, writing |-> 0]
  /\ posted = <<>>
  /\ call = [c \in Caller |-> [pc |-> "idle", id |-> 0, result |-> "none"]]
  /\ readers = {} /\ alive = {} /\ truncated = {} /\ dirty = FALSE
  /\ inbox = [k \in Child |-> <<>>] /\ outbox = [k \in Child |-> <<>>]
  /\ answered = {}

-----------------------------------------------------------------------------
(* What the member functions do to the client.                             *)

FailPending_Forget(s) == s

FailPending(s) ==
  [s EXCEPT !.resp = [i \in Id |-> IF @[i] = "open" THEN "closed" ELSE @[i]]]

\* The transport is gone: the end of ReadLoop and of a failed write.
Broke(s) == [FailPending(s) EXCEPT !.state = "Broken"]

PumpWriter(s) ==
  [s EXCEPT !.writing = IF s.queue = <<>> \/ ~s.open THEN 0 ELSE s.child]

WriteLine(s, l) ==
  LET q == [s EXCEPT !.queue = Append(@, l)] IN IF s.writing = 0 THEN PumpWriter(q) ELSE q

SendRequest(s, method) ==
  WriteLine([s EXCEPT !.resp[s.nextId] = "open", !.nextId = @ + 1],
            [method |-> method, id |-> s.nextId])

SendNotification(s, method, id) ==
  IF s.open THEN WriteLine(s, [method |-> method, id |-> id]) ELSE s

\* Closing the descriptors aborts the read and the write outstanding on them;
\* their handlers run later (ReadFails, WriteFails).
ShutdownInternal(s, permanent) ==
  LET f == FailPending([s EXCEPT !.shutdown = @ \/ permanent, !.open = FALSE])
  IN [f EXCEPT !.state = IF @ = "Ready" THEN "Broken" ELSE @]

DispatchInbound(s, i, answer) ==
  IF s.resp[i] = "open" THEN [s EXCEPT !.resp[i] = answer] ELSE s

-----------------------------------------------------------------------------
(* The io_context runs what was posted to it in order.  A resolved channel *)
(* posts its receiver, a closed descriptor the aborted operations.  A read *)
(* or write that has just been started is posted too: it completes no      *)
(* earlier than what was queued before it.  Taken from the queue it is     *)
(* outstanding, until the child or a close completes it.  Events from      *)
(* outside (a new call, a cancellation, Shutdown, the pipes) may have been *)
(* queued before everything posted.                                        *)

Token(op, n) == [op |-> op, n |-> n]
Queued(op, n) == \E j \in DOMAIN posted : posted[j] = Token(op, n)
When(b, t) == IF b THEN <<t>> ELSE <<>>
Due(op, n) == posted # <<>> /\ Head(posted) = Token(op, n)

Aborts ==
  IF cl.open /\ (~cl'.open \/ cl'.child # cl.child)
  THEN When(cl.writing = cl.child /\ ~Queued("write", cl.child), Token("write", cl.child))
       \o When(cl.child \in readers /\ ~Queued("read", cl.child), Token("read", cl.child))
  ELSE <<>>

Resumes ==
  LET resolved == {i \in Id : cl.resp[i] = "open" /\ cl'.resp[i] # "open"}
  IN [n \in DOMAIN SetToSeq(resolved) |-> Token("resume", SetToSeq(resolved)[n])]

\* The queue after a handler that leaves rest of it, and starts the reads in
\* arms and perhaps a write.
Posts(rest, arms) ==
  posted' = rest \o Aborts \o Resumes \o arms
              \o When(cl.writing = 0 /\ cl'.writing # 0, Token("write", cl'.writing))

-----------------------------------------------------------------------------
(* Callers of Connect, CallTool and ListTools; the last two first await    *)
(* EnsureReady.                                                            *)

Returns(c, result) == call' = [call EXCEPT ![c].pc = "done", ![c].result = result]

Awaits(c, pc) ==
  call' = [call EXCEPT ![c] = [pc |-> pc, id |-> cl'.nextId - 1, result |-> "none"]]

\* An adapter exists once tools/list was answered.
Begin(c) == call[c].pc \in {"idle", "done"} /\ (c \in Timed => answered # {})

CallReady(c) ==
  /\ Begin(c) /\ cl.state = "Ready" /\ cl.nextId <= MaxId
  /\ cl' = SendRequest(cl, "call") /\ Posts(posted, <<>>)
  /\ Awaits(c, "wait")
  /\ UNCHANGED <<readers, dirty, alive, truncated, inbox, outbox, answered>>

CallAfterShutdown(c) ==
  /\ Begin(c) /\ cl.state # "Ready" /\ cl.shutdown
  /\ Returns(c, "Cancelled")
  /\ UNCHANGED <<cl, posted, readers, dirty, alive, truncated, inbox, outbox, answered>>

\* Connect over ConnectStdio up to its first co_await, the reply to initialize:
\* a broken transport is dropped, pipes and the child are made and ReadLoop is
\* started.  kConnecting lasts for part of this handler only: ConnectStdio
\* leaves kReady behind, so no other coroutine can find it here.
Connect(c) ==
  /\ Begin(c) /\ cl.state # "Ready" /\ ~cl.shutdown
  /\ cl.nextId < MaxId /\ cl.child < MaxChild
  /\ LET dropped == IF cl.state = "Broken" THEN {cl.child} ELSE {}
         s == IF cl.state = "Broken" THEN ShutdownInternal(cl, FALSE) ELSE cl
         k == s.child + 1
     IN \/ /\ cl' = [s EXCEPT !.state = "Broken"]      \* pipe() or fork() failed
           /\ Returns(c, "Internal")
           /\ alive' = alive \ dropped
           /\ Posts(posted, <<>>) /\ UNCHANGED readers
        \/ /\ cl' = SendRequest([s EXCEPT !.child = k, !.open = TRUE, !.state = "Ready"], "initialize")
           /\ Awaits(c, "handshake")
           /\ alive' = (alive \ dropped) \cup {k}
           /\ readers' = readers \cup {k} /\ Posts(posted, <<Token("read", k)>>)
  /\ UNCHANGED <<dirty, truncated, inbox, outbox, answered>>

Failure(r) == IF r = "error" THEN "Internal" ELSE "Unavailable"

\* The reply to initialize arrived: notifications/initialized, kReady, and
\* Connect() returns or CallTool goes on to its own request; or the handshake
\* failed.
HandshakeDone(c) ==
  /\ call[c].pc = "handshake" /\ Due("resume", call[c].id)
  /\ IF cl.resp[call[c].id] = "result"
     THEN LET s == [SendNotification(cl, "initialized", call[c].id) EXCEPT !.state = "Ready"]
          IN \/ cl' = s /\ Returns(c, "Ok")
             \/ cl.nextId <= MaxId /\ cl' = SendRequest(s, "call") /\ Awaits(c, "wait")
     ELSE /\ cl' = [cl EXCEPT !.state = "Broken"]
          /\ Returns(c, Failure(cl.resp[call[c].id]))
  /\ Posts(Tail(posted), <<>>)
  /\ UNCHANGED <<readers, dirty, alive, truncated, inbox, outbox, answered>>

CallDone_IgnoreEc(c) ==
  /\ call[c].pc = "wait" /\ Due("resume", call[c].id)
  /\ Returns(c, IF cl.resp[call[c].id] = "error" THEN "Internal" ELSE "Ok")
  /\ posted' = Tail(posted)
  /\ UNCHANGED <<cl, readers, dirty, alive, truncated, inbox, outbox, answered>>

\* A channel that close() ended delivers channel_closed, which SendRequest
\* reports as UnavailableError.
CallDone(c) ==
  /\ call[c].pc = "wait" /\ Due("resume", call[c].id)
  /\ Returns(c, IF cl.resp[call[c].id] = "result" THEN "Ok" ELSE Failure(cl.resp[call[c].id]))
  /\ posted' = Tail(posted)
  /\ UNCHANGED <<cl, readers, dirty, alive, truncated, inbox, outbox, answered>>

\* The handler that OnCancel posts.  The handshake has no cancel token.
Cancel(c) ==
  /\ call[c].pc = "wait" /\ cl.resp[call[c].id] = "open"
  /\ cl' = SendNotification([cl EXCEPT !.resp[call[c].id] = "closed"], "cancelled", call[c].id)
  /\ Posts(posted, <<>>)
  /\ UNCHANGED <<call, readers, dirty, alive, truncated, inbox, outbox, answered>>

\* McpToolAdapter's timer wins its race against CallTool and cancels what the
\* coroutine awaits, the channel: the request or the handshake fails, and a
\* late response goes into a channel nobody reads.
TimesOut(c) ==
  /\ c \in Timed /\ Waiting(c) /\ cl.resp[call[c].id] = "open"
  /\ cl' = [cl EXCEPT !.resp[call[c].id] = "left"]
  /\ Posts(posted, <<>>)
  /\ UNCHANGED <<call, readers, dirty, alive, truncated, inbox, outbox, answered>>

Shutdown ==
  /\ CanShutdown
  /\ cl' = ShutdownInternal(cl, TRUE)
  /\ alive' = alive \ {cl.child}
  /\ Posts(posted, <<>>)
  /\ UNCHANGED <<call, readers, dirty, truncated, inbox, outbox, answered>>

-----------------------------------------------------------------------------
(* The write handler and ReadLoop.                                         *)

Stale(k) == k # cl.child \/ ~cl.open
Popped == [cl EXCEPT !.queue = Tail(@)]

\* An operation outstanding on an open descriptor may complete; one on a closed
\* descriptor completes when its abort is due.
Completes(op, k) == IF Stale(k) THEN Due(op, k) ELSE ~Queued(op, k)
Without(op, k) == IF Due(op, k) THEN Tail(posted) ELSE posted

\* An operation that was just started is outstanding from here on.
Armed ==
  /\ posted # <<>> /\ Head(posted).op \in {"read", "write"} /\ ~Stale(Head(posted).n)
  /\ posted' = Tail(posted)
  /\ UNCHANGED <<cl, call, readers, dirty, alive, truncated, inbox, outbox, answered>>

\* A write may also have been done before its descriptor was closed.
WriteDone ==
  /\ cl.writing # 0 /\ Completes("write", cl.writing)
  /\ IF Stale(cl.writing) THEN UNCHANGED inbox
     ELSE /\ cl.writing \in alive
          /\ inbox' = [inbox EXCEPT ![cl.writing] = Append(@, Head(cl.queue))]
  /\ cl' = PumpWriter(Popped)
  /\ posted' = Without("write", cl.writing) \o When(cl'.writing # 0, Token("write", cl'.writing))
  /\ UNCHANGED <<call, readers, dirty, alive, truncated, outbox, answered>>

WriteFails ==
  /\ cl.writing # 0 /\ Completes("write", cl.writing)
  /\ Stale(cl.writing) \/ cl.writing \notin alive
  /\ cl' = [Broke(Popped) EXCEPT !.writing = 0]
  /\ Posts(Without("write", cl.writing), <<>>)
  /\ UNCHANGED <<call, readers, dirty, alive, truncated, inbox, outbox, answered>>

ReadLine_BreakOnMalformed(k) ==
  /\ k \in readers /\ ~Stale(k) /\ Completes("read", k) /\ outbox[k] # <<>>
  /\ outbox' = [outbox EXCEPT ![k] = Tail(@)]
  /\ \E answer \in {"result", "error"} :
       cl' = IF dirty THEN Broke(cl) ELSE DispatchInbound(cl, Head(outbox[k]), answer)
  /\ dirty' = FALSE
  /\ Posts(posted, <<Token("read", k)>>)
  /\ UNCHANGED <<call, readers, alive, truncated, inbox, answered>>

\* A line that starts with another line's leftover does not parse and is
\* dropped.
ReadLine(k) ==
  /\ k \in readers /\ ~Stale(k) /\ Completes("read", k) /\ outbox[k] # <<>>
  /\ outbox' = [outbox EXCEPT ![k] = Tail(@)]
  /\ \E answer \in {"result", "error"} :
       cl' = IF dirty THEN cl ELSE DispatchInbound(cl, Head(outbox[k]), answer)
  /\ dirty' = FALSE
  /\ Posts(posted, <<Token("read", k)>>)
  /\ UNCHANGED <<call, readers, alive, truncated, inbox, answered>>

\* The read is aborted, or meets the end of a dead child's stdout.
ReadFails(k) ==
  /\ k \in readers /\ Completes("read", k)
  /\ \/ Stale(k) /\ UNCHANGED dirty
     \/ /\ ~Stale(k) /\ k \notin alive /\ outbox[k] = <<>>
        /\ dirty' = (dirty \/ k \in truncated)
  /\ cl' = Broke(cl)
  /\ readers' = readers \ {k}
  /\ Posts(Without("read", k), <<>>)
  /\ UNCHANGED <<call, alive, truncated, inbox, outbox, answered>>

-----------------------------------------------------------------------------
(* The server process.  It answers every request it receives, in any order. *)

ChildReplies(k) ==
  /\ k \in alive
  /\ \E l \in {inbox[k][n] : n \in DOMAIN inbox[k]} :
       /\ IsRequest(l) /\ l.id \notin answered
       /\ outbox' = [outbox EXCEPT ![k] = Append(@, l.id)]
       /\ answered' = answered \cup {l.id}
  /\ UNCHANGED <<cl, posted, call, readers, dirty, alive, truncated, inbox>>

ChildDies(k) ==
  /\ k \in alive
  /\ alive' = alive \ {k}
  /\ \/ "clean" \in Deaths /\ UNCHANGED truncated
     \/ "midline" \in Deaths /\ truncated' = truncated \cup {k}
  /\ UNCHANGED <<cl, posted, call, readers, dirty, inbox, outbox, answered>>

CallerStep(c) ==
  \/ CallReady(c) \/ CallAfterShutdown(c) \/ Connect(c)
  \/ HandshakeDone(c) \/ CallDone(c) \/ Cancel(c) \/ TimesOut(c)

Next ==
  \/ \E c \in Caller : CallerStep(c)
  \/ Shutdown \/ Armed \/ WriteDone \/ WriteFails
  \/ \E k \in Child : ReadLine(k) \/ ReadFails(k) \/ ChildReplies(k) \/ ChildDies(k)

\* The io_context runs every handler that is ready, and a live server answers.
Fairness ==
  /\ WF_vars(Armed) /\ WF_vars(WriteDone \/ WriteFails)
  /\ \A c \in Caller : WF_vars(HandshakeDone(c) \/ CallDone(c))
  /\ \A k \in Child : WF_vars(ReadLine(k)) /\ WF_vars(ReadFails(k)) /\ WF_vars(ChildReplies(k))

Spec == Init /\ [][Next]_vars
FairSpec == Spec /\ Fairness

-----------------------------------------------------------------------------
(* Properties.                                                             *)

\* A call reports Ok only for a response that a server process gave to its
\* own request, whatever was cancelled, reconnected or answered late before.
OkIsAnswered ==
  \A c \in Caller : call[c].pc = "done" /\ call[c].result = "Ok" => call[c].id \in answered

\* As long as no server process dies in the middle of a line, every Connect and
\* CallTool returns: death of the child, failed writes, aborted reads, Shutdown
\* and cancellation all release the coroutine that awaits its channel.
CallsEndOnWholeLines ==
  \A c \in Caller : Waiting(c) ~> (call[c].pc = "done" \/ truncated # {})

\* A handshake whose own server process runs and has not answered fails only
\* when the client is shut down; through the aborted read or write of an earlier
\* child, still on its way out when Connect started the new one; or when another
\* Connect drops a transport marked kBroken, as the late failure of an earlier
\* child's handshake marks the new one.
HandshakeFailsForCause ==
  [][\A c \in Caller : call[c].pc = "handshake" /\ cl.resp[call[c].id] = "open"
                         /\ cl'.resp[call[c].id] = "closed"
       => \/ cl'.shutdown \/ cl.child \notin alive \/ cl.state = "Broken"
          \/ \E k \in readers \cup {cl.writing} : 0 < k /\ k < cl.child]_vars
=============================================================================
