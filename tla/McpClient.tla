----------------------------- MODULE McpClient -----------------------------
(***************************************************************************)
(* McpClient (agentflow/tools/mcp_client.cc) over the transport its spec   *)
(* names: Connect switches to ConnectStdio or ConnectHttp, SendRequest to  *)
(* the pipe or to PostRpc, and each client stays with its transport.       *)
(***************************************************************************)
EXTENDS McpStdio

CONSTANTS HttpCaller, HttpTimed, MaxSession, MaxCalls, Reader, CanExpire

VARIABLES transport, \* spec_.transport()
          state, session, shutdown, handler, waiters, active, reader, hcall, calls,
          abandoned, live, issued

H == INSTANCE McpHttp WITH Caller <- HttpCaller, Timed <- HttpTimed, call <- hcall

hvars == <<state, session, shutdown, handler, waiters, active, reader, hcall, calls, abandoned, live, issued>>

CInit == transport \in {"STDIO", "HTTP_SSE"} /\ Init /\ H!Init

CNext ==
  \/ transport = "STDIO" /\ Next /\ UNCHANGED <<transport, hvars>>
  \/ transport = "HTTP_SSE" /\ H!Next /\ UNCHANGED <<transport, vars>>

CSpec == CInit /\ [][CNext]_<<transport, vars, hvars>> /\ Fairness /\ H!Fairness

-----------------------------------------------------------------------------
(* Properties, next to those of McpStdio.                                  *)

\* Over HTTP, http_reader_active_ is true exactly while one notification reader
\* runs uncancelled, and there is never a second one (McpHttp).
ReaderTracked == H!ReaderTracked

\* Over HTTP, every Connect and CallTool returns, except a caller queued behind
\* a handshake that a call timeout abandoned (McpHttp).
HttpCallsEnd == H!CallsEnd
=============================================================================
