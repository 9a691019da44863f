------------------------------- MODULE McpHttp -------------------------------
(***************************************************************************)
(* McpClient over streamable HTTP (agentflow/tools/mcp_client.cc): callers *)
(* share one client and one Mcp-Session-Id; a notification reader keeps a  *)
(* GET stream open.  Each POST is on a connection of its own, so replies   *)
(* arrive in any order.  Session 0 is the empty id.                        *)
(***************************************************************************)
EXTENDS Naturals

CONSTANTS Caller,      \* coroutines that use the client
          MaxSession,  \* bound: sessions the server assigns
          MaxCalls,    \* bound: calls begun
          Reader,      \* slots for reader coroutines (bound); none: no event handler is installed
          Timed,       \* the callers that are adapters with a call timeout
          CanShutdown, \* TRUE: the owner may call Shutdown()
          CanExpire    \* TRUE: the server may forget a session, a POST may fail

VARIABLES
  state, session, shutdown, handler,  \* state_, http_session_id_, shutdown_, inbound_event_handler_
  waiters,   \* callers in connect_waiters_
  active,    \* http_reader_active_
  reader,    \* per slot: where the coroutine is, whether its generation is current and its token cancelled
  call,      \* per caller: pc and the session its POST carries
  calls,     \* calls begun so far
  abandoned, \* a handshake was left without an end (TimesOut)
  live,      \* sessions the server knows
  issued     \* sessions it has assigned so far

vars == <<state, session, shutdown, handler, waiters, active, reader, call, calls, abandoned, live, issued>>

Session == 1 .. MaxSession
NoReader == [at |-> "none", current |-> FALSE, cancelled |-> FALSE]

TypeOK ==
  /\ state \in {"Idle", "Connecting", "Ready", "Broken"}
  /\ session \in {0} \cup Session
  /\ shutdown \in BOOLEAN /\ handler \in BOOLEAN /\ active \in BOOLEAN
  /\ waiters \subseteq Caller /\ issued \in {0} \cup Session /\ live \subseteq 1 .. issued
  /\ reader \in [Reader -> [at : {"none", "get", "timer"}, current : BOOLEAN, cancelled : BOOLEAN]]
  /\ call \in [Caller -> [pc : {"idle", "wait", "init", "ack", "post"}, with : {0} \cup Session]]
  /\ calls \in 0 .. MaxCalls /\ abandoned \in BOOLEAN

Init ==
  /\ state = "Idle" /\ session = 0 /\ shutdown = FALSE /\ handler = FALSE /\ active = FALSE
  /\ waiters = {} /\ live = {} /\ issued = 0
  /\ reader = [r \in Reader |-> NoReader]
  /\ call = [c \in Caller |-> [pc |-> "idle", with |-> 0]]
  /\ calls = 0 /\ abandoned = FALSE

-----------------------------------------------------------------------------
(* The notification reader.                                                *)

Stopped == [r \in Reader |-> [reader[r] EXCEPT !.cancelled = @ \/ reader[r].current, !.current = FALSE]]

StopHttpReader == reader' = Stopped /\ active' = FALSE

MayStart(st) == st = "Ready" /\ ~shutdown /\ handler' /\ ~active

\* Starting bumps the generation: whichever reader was current no longer is,
\* and its token is out of reach.
MaybeStartHttpReader(st) ==
  \/ ~MayStart(st) /\ UNCHANGED <<reader, active>>
  \/ /\ MayStart(st)
     /\ \E r \in Reader :
          /\ reader[r].at = "none"
          /\ reader' = [q \in Reader |-> IF q = r THEN [at |-> "get", current |-> TRUE, cancelled |-> FALSE]
                                                  ELSE [reader[q] EXCEPT !.current = FALSE]]
     /\ active' = TRUE

SetInboundEventHandler(on) ==
  /\ Reader # {}
  /\ handler' = on
  /\ IF on THEN MaybeStartHttpReader(state) ELSE StopHttpReader
  /\ UNCHANGED <<state, session, shutdown, waiters, call, calls, abandoned, live, issued>>

Exit_AnyGeneration(r) ==
  /\ reader' = [reader EXCEPT ![r] = NoReader]
  /\ active' = FALSE

\* The coroutine ends; the flag is cleared only by the current generation.
Exit(r) ==
  /\ reader' = [reader EXCEPT ![r] = NoReader]
  /\ active' = (active /\ ~reader[r].current)

\* GetSse returned: the reader was replaced; the server does not know the
\* session (404); it has no such stream; or the stream ended and a delay follows.
GetReturns(r) ==
  /\ reader[r].at = "get"
  /\ \/ /\ reader[r].cancelled \/ ~reader[r].current
        /\ Exit(r) /\ UNCHANGED state
     \/ /\ ~reader[r].cancelled /\ reader[r].current
        /\ \/ (CanExpire \/ session \notin live) /\ state' = "Broken" /\ Exit(r)
           \/ UNCHANGED state /\ Exit(r)
           \/ /\ reader' = [reader EXCEPT ![r].at = "timer"]
              /\ UNCHANGED <<state, active>>
  /\ UNCHANGED <<session, shutdown, handler, waiters, call, calls, abandoned, live, issued>>

\* The delay is over, or cancelled; the loop's condition decides.
TimerFires(r) ==
  /\ reader[r].at = "timer"
  /\ IF ~reader[r].cancelled /\ ~shutdown /\ reader[r].current /\ state = "Ready" /\ handler
     THEN reader' = [reader EXCEPT ![r].at = "get"] /\ UNCHANGED active
     ELSE Exit(r)
  /\ UNCHANGED <<state, session, shutdown, handler, waiters, call, calls, abandoned, live, issued>>

-----------------------------------------------------------------------------
(* Callers of Connect, ListTools and CallTool.                             *)

\* An adapter exists once a session was established.
Begin(c) == call[c].pc = "idle" /\ calls < MaxCalls /\ (c \in Timed => issued > 0)
Moves(c, pc, with) ==
  call' = [call EXCEPT ![c].pc = pc, ![c].with = with] /\ UNCHANGED calls
Returns(c) == Moves(c, "idle", 0)
Starts(c, pc, with) ==
  /\ call' = [call EXCEPT ![c] = [pc |-> pc, with |-> with]]
  /\ calls' = calls + 1

\* SendRequest: the session id goes into the request's headers now.
CallReady(c) ==
  /\ Begin(c) /\ state = "Ready"
  /\ Starts(c, "post", session)
  /\ UNCHANGED <<state, session, shutdown, handler, waiters, active, reader, abandoned, live, issued>>

CallAfterShutdown(c) ==
  /\ Begin(c) /\ state # "Ready" /\ shutdown
  /\ calls' = calls + 1
  /\ UNCHANGED <<call, state, session, shutdown, handler, waiters, active, reader, abandoned, live, issued>>

Wait(c) ==
  /\ Begin(c) /\ state = "Connecting" /\ ~shutdown
  /\ Starts(c, "wait", 0)
  /\ waiters' = waiters \cup {c}
  /\ UNCHANGED <<state, session, shutdown, handler, active, reader, abandoned, live, issued>>

\* A broken transport is dropped (ShutdownInternal(false): reader, session,
\* waiters); then ConnectHttp sends initialize without a session.
Connect(c) ==
  /\ Begin(c) /\ state \in {"Idle", "Broken"} /\ ~shutdown
  /\ Starts(c, "init", 0)
  /\ state' = "Connecting" /\ session' = 0
  /\ IF state = "Broken" THEN StopHttpReader /\ waiters' = {}
                         ELSE UNCHANGED <<active, reader, waiters>>
  /\ UNCHANGED <<shutdown, handler, abandoned, live, issued>>

Woken_UntilReady(c) ==
  /\ call[c].pc = "wait" /\ c \notin waiters /\ state = "Ready"
  /\ Moves(c, "post", session) \/ Returns(c)
  /\ UNCHANGED <<state, session, shutdown, handler, waiters, active, reader, abandoned, live, issued>>

\* NotifyConnectWaiters woke the caller: the state it finds now decides whether
\* CallTool goes on.
Woken(c) ==
  /\ call[c].pc = "wait" /\ c \notin waiters
  /\ (state = "Ready" /\ Moves(c, "post", session)) \/ Returns(c)
  /\ UNCHANGED <<state, session, shutdown, handler, waiters, active, reader, abandoned, live, issued>>

\* The end of Connect when ConnectHttp failed.
HandshakeFails(c) ==
  /\ state' = "Broken" /\ waiters' = {}
  /\ Returns(c)
  /\ UNCHANGED <<shutdown, handler, active, reader>>

\* A reply may carry a session header, the request's own, even when it failed.
Publishes(c) == session' \in {session} \cup ({call[c].with} \ {0})

\* initialize: the server assigns a session; or the POST fails, is undecodable
\* or names no session.
InitReply(c) ==
  /\ call[c].pc = "init"
  /\ \/ /\ issued < MaxSession /\ issued' = issued + 1
        /\ live' = live \cup {issued'} /\ session' = issued'
        /\ Moves(c, "ack", issued')
        /\ UNCHANGED <<state, waiters, shutdown, handler, active, reader, abandoned>>
     \/ HandshakeFails(c) /\ UNCHANGED <<session, abandoned, live, issued>>

\* notifications/initialized: the end of a successful Connect, or its failure.
AckReply(c) ==
  /\ call[c].pc = "ack" /\ Publishes(c)
  /\ \/ /\ call[c].with \in live
        /\ state' = "Ready" /\ waiters' = {} /\ handler' = handler
        /\ MaybeStartHttpReader("Ready")
        /\ Moves(c, "post", session') \/ Returns(c)
        /\ UNCHANGED shutdown
     \/ HandshakeFails(c)
  /\ UNCHANGED <<abandoned, live, issued>>

\* tools/call: the server's answer, usable or not, or a cancellation; or a
\* failed POST, which breaks the transport.
CallReply(c) ==
  /\ call[c].pc = "post" /\ Publishes(c) /\ Returns(c)
  /\ \/ UNCHANGED state
     \/ (CanExpire \/ call[c].with \notin live) /\ state' = "Broken"
  /\ UNCHANGED <<shutdown, handler, waiters, active, reader, abandoned, live, issued>>

\* McpToolAdapter's timer wins its race against CallTool and cancels what the
\* coroutine awaits.  A waiter leaves; a socket operation fails like any other
\* (InitReply, AckReply, CallReply); but resolving the server's name cannot be
\* cancelled, and the co_await that follows it throws, out of Connect too.
TimesOut(c) ==
  /\ c \in Timed
  /\ \/ /\ call[c].pc = "wait" /\ waiters' = waiters \ {c}
        /\ UNCHANGED abandoned
     \/ /\ call[c].pc \in {"init", "ack", "post"} /\ UNCHANGED waiters
        /\ abandoned' = (abandoned \/ call[c].pc # "post")
  /\ Returns(c)
  /\ UNCHANGED <<state, session, shutdown, handler, active, reader, live, issued>>

Shutdown ==
  /\ CanShutdown
  /\ StopHttpReader
  /\ shutdown' = TRUE /\ session' = 0 /\ waiters' = {} /\ state' = "Broken"
  /\ UNCHANGED <<handler, call, calls, abandoned, live, issued>>

Expire ==
  /\ CanExpire
  /\ \E s \in live : live' = live \ {s}
  /\ UNCHANGED <<state, session, shutdown, handler, waiters, active, reader, call, calls, abandoned, issued>>

Replies(c) == InitReply(c) \/ AckReply(c) \/ CallReply(c)

Next ==
  \/ \E c \in Caller : CallReady(c) \/ CallAfterShutdown(c) \/ Wait(c) \/ Connect(c) \/ Woken(c) \/ Replies(c) \/ TimesOut(c)
  \/ \E r \in Reader : GetReturns(r) \/ TimerFires(r)
  \/ \E on \in BOOLEAN : SetInboundEventHandler(on)
  \/ Shutdown \/ Expire

\* Woken coroutines run; every POST ends, by its timeout if not by a reply.
Fairness == \A c \in Caller : WF_vars(Woken(c)) /\ WF_vars(Replies(c))

Spec == Init /\ [][Next]_vars
FairSpec == Spec /\ Fairness

-----------------------------------------------------------------------------
(* Properties.                                                             *)

\* At most one reader runs that nobody has cancelled, and the flag that keeps
\* a second one from being started says exactly whether it does: readers of
\* an earlier generation, still on their way out, neither count nor clear it.
ReaderTracked ==
  LET running == {r \in Reader : reader[r].at # "none" /\ ~reader[r].cancelled}
  IN (\A q, r \in running : q = r) /\ (active <=> running # {})

\* Every Connect and CallTool returns, whatever broke or was shut down: of the
\* MaxCalls calls that are made, from some point on none is in progress.  The
\* one exception is a caller in connect_waiters_ whose handshake was abandoned
\* by a timeout in the middle of Connect: it waits until the next reconnect or
\* Shutdown, if there is one.
CallsEnd ==
  \/ <>[](\A c \in Caller : call[c].pc = "idle")
  \/ <>[](/\ abandoned /\ waiters # {}
          /\ \A c \in Caller : call[c].pc = "idle" \/ (call[c].pc = "wait" /\ c \in waiters))
=============================================================================
