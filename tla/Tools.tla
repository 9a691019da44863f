------------------------------- MODULE Tools -------------------------------
(***************************************************************************)
(* The tools a run can call (agentflow/tools): ToolRegistry with its       *)
(* McpClientPool, the InvocationToolView of a run, GatedTool and           *)
(* McpToolAdapter.  The registry and the pool have a mutex each and are    *)
(* used from several threads, so a step here is one critical section or    *)
(* the code between two co_awaits.  What an MCP client does inside is the  *)
(* subject of McpStdio and McpHttp; here it answers or fails.              *)
(***************************************************************************)
EXTENDS Naturals, Sequences

CONSTANTS Name,       \* tool names
          Server,     \* what CanonicalKey tells apart: transport, URL, args, headers
          Offers,     \* Offers[s]: the tools that tools/list of s names
          Timed,      \* the servers attached with call_timeout_ms # 0
          Attacher,   \* coroutines that call AttachMcpServer
          Call,       \* tool calls of agents
          Blocked, Confirm,  \* names of these tiers; the others are read-only
          MaxClient,  \* bound: clients the factory makes
          MaxNative,  \* bound: native tools registered
          MaxHandler  \* bound: handlers installed

ASSUME ToolsAssumption ==
  /\ Offers \in [Server -> SUBSET Name] /\ Timed \subseteq Server
  /\ Blocked \subseteq Name /\ Confirm \subseteq Name \ Blocked
  /\ MaxClient \in Nat /\ MaxNative \in Nat /\ MaxHandler \in Nat

VARIABLES
  tools,     \* tools_: per name its tool, or None
  natives,   \* native tools registered so far
  pool,      \* clients_: per server its client, or 0
  made,      \* the server of each client made so far
  shut,      \* clients whose Shutdown ran
  taken,     \* clients Clear has taken out of the pool and not yet shut down
  handler,   \* the pool's inbound_event_handler_
  installed, \* per client: its inbound_event_handler_
  setting,   \* clients SetInboundEventHandler still has to visit
  attach,    \* per attacher: where it is, its client and the tools to register
  call,      \* per call: where it is, what it calls, whether there is a gate
  stopped    \* the run's token

registry == <<tools, natives>>
clients == <<pool, made, shut, taken>>
handlers == <<handler, installed, setting>>
tvars == <<registry, clients, handlers, attach, call, stopped>>

None == [kind |-> "none", n |-> 0]
Native(n) == [kind |-> "native", n |-> n]
Adapter(c) == [kind |-> "mcp", n |-> c]

IdleAttach == [at |-> "idle", client |-> 0, todo |-> {}]
NewCall == [at |-> "new", name |-> "", tool |-> None, gate |-> FALSE]

TTypeOK ==
  /\ tools \in [Name -> {None} \cup {Native(n) : n \in 1 .. MaxNative}
                               \cup {Adapter(c) : c \in 1 .. MaxClient}]
  /\ natives \in 0 .. MaxNative
  /\ made \in Seq(Server) /\ Len(made) <= MaxClient
  /\ pool \in [Server -> 0 .. Len(made)]
  /\ shut \subseteq DOMAIN made /\ taken \subseteq DOMAIN made /\ setting \subseteq DOMAIN made
  /\ handler \in 0 .. MaxHandler /\ installed \in [DOMAIN made -> 0 .. MaxHandler]
  /\ \A t \in Attacher : attach[t].at \in {"idle", "listing", "registering"}
  /\ \A i \in Call : call[i].at \in {"new", "view", "gate", "native", "mcp", "done"}
  /\ stopped \in BOOLEAN

TInit ==
  /\ tools = [n \in Name |-> None] /\ natives = 0
  /\ pool = [s \in Server |-> 0] /\ made = <<>> /\ shut = {} /\ taken = {}
  /\ handler = 0 /\ installed = <<>> /\ setting = {}
  /\ attach = [t \in Attacher |-> IdleAttach]
  /\ call = [i \in Call |-> NewCall]
  /\ stopped = FALSE

-----------------------------------------------------------------------------
(* ToolRegistry and McpClientPool.                                         *)

Register(n) ==
  /\ natives < MaxNative
  /\ natives' = natives + 1 /\ tools' = [tools EXCEPT ![n] = Native(natives + 1)]
  /\ UNCHANGED <<clients, handlers, attach, call, stopped>>

Listing(t, c) == attach' = [attach EXCEPT ![t] = [IdleAttach EXCEPT !.at = "listing", !.client = c]]

\* One critical section: the client of the pool, or a new one that has the
\* pool's handler.
GetOrCreate(t, s) ==
  \/ pool[s] # 0 /\ Listing(t, pool[s]) /\ UNCHANGED <<pool, made, installed>>
  \/ /\ pool[s] = 0 /\ Len(made) < MaxClient
     /\ made' = Append(made, s) /\ installed' = Append(installed, handler)
     /\ pool' = [pool EXCEPT ![s] = Len(made) + 1]
     /\ Listing(t, Len(made) + 1)

AttachMcpServer(t, s) ==
  /\ attach[t].at = "idle" /\ GetOrCreate(t, s)
  /\ UNCHANGED <<registry, shut, taken, handler, setting, call, stopped>>

\* Connect (unless lazy_start) and ListTools are over: attaching ends without
\* tools, or goes on with those that pass the include and exclude lists.  A
\* client that is shut down meanwhile may have answered before.
Listed(t) ==
  /\ attach[t].at = "listing"
  /\ \/ attach' = [attach EXCEPT ![t] = IdleAttach]
     \/ \E kept \in SUBSET Offers[made[attach[t].client]] :
          attach' = [attach EXCEPT ![t].at = "registering", ![t].todo = kept]
  /\ UNCHANGED <<registry, clients, handlers, call, stopped>>

\* One turn of the loop over the tools; the lock is taken anew for each.
TryRegisterIfAbsent(t, n) ==
  /\ attach[t].at = "registering" /\ n \in attach[t].todo
  /\ tools' = IF tools[n] = None THEN [tools EXCEPT ![n] = Adapter(attach[t].client)] ELSE tools
  /\ attach' = [attach EXCEPT ![t].todo = @ \ {n}]
  /\ UNCHANGED <<natives, clients, handlers, call, stopped>>

Attached(t) ==
  /\ attach[t].at = "registering" /\ attach[t].todo = {}
  /\ attach' = [attach EXCEPT ![t] = IdleAttach]
  /\ UNCHANGED <<registry, clients, handlers, call, stopped>>

Pooled == {c \in DOMAIN made : pool[made[c]] = c}

\* Clear: the map is swapped out under the lock, its clients shut down after.
ShutdownMcp ==
  /\ Pooled # {} /\ taken' = taken \cup Pooled
  /\ pool' = [s \in Server |-> 0]
  /\ UNCHANGED <<registry, made, shut, handlers, attach, call, stopped>>

ShutdownOne_EmptiesPool(c) ==
  /\ c \in taken /\ taken' = taken \ {c} /\ shut' = shut \cup {c}
  /\ pool' = [s \in Server |-> 0]
  /\ UNCHANGED <<registry, made, handlers, attach, call, stopped>>

ShutdownOne(c) ==
  /\ c \in taken /\ taken' = taken \ {c} /\ shut' = shut \cup {c}
  /\ UNCHANGED <<registry, pool, made, handlers, attach, call, stopped>>

\* The handler is stored and the clients are copied in one critical section;
\* one thread at a time installs handlers.
SetInboundEventHandler ==
  /\ setting = {} /\ handler < MaxHandler
  /\ handler' = handler + 1 /\ setting' = Pooled
  /\ UNCHANGED <<registry, clients, installed, attach, call, stopped>>

InstallOne(c) ==
  /\ c \in setting /\ setting' = setting \ {c}
  /\ installed' = [installed EXCEPT ![c] = handler]
  /\ UNCHANGED <<registry, clients, handler, attach, call, stopped>>

-----------------------------------------------------------------------------
(* A tool call.  A view is a copy of the registry made when its run starts  *)
(* and keeps the tools it found; a call without a view looks its tool up    *)
(* when it is made.                                                         *)

Moves(i, c) == call' = [call EXCEPT ![i] = c] /\ UNCHANGED <<registry, clients, handlers, attach, stopped>>
Done == [NewCall EXCEPT !.at = "done"]

\* The tool begins: an adapter calls its client unless the token is cancelled
\* already; native code just runs.
Begins(c) ==
  IF c.tool.kind = "mcp" /\ stopped THEN Done ELSE [c EXCEPT !.at = c.tool.kind]

\* InvocationToolView, with or without a gate: a name that is not registered,
\* or blocked, is left out.
BuildView(i, n, gate) ==
  /\ call[i].at = "new"
  /\ Moves(i, [at |-> "view", name |-> n, gate |-> gate,
               tool |-> IF n \in Blocked THEN None ELSE tools[n]])

\* ToolRegistry::Invoke throws for a name it does not have.
InvokeDirectly(i, n) ==
  /\ call[i].at = "new"
  /\ Moves(i, IF tools[n] = None THEN Done
              ELSE Begins([NewCall EXCEPT !.name = n, !.tool = tools[n]]))

\* InvocationToolView::Invoke, then GatedTool::Invoke up to its co_await: of
\* the gate for a tool of tier confirm, if there is a gate, or of the tool.
Invoke(i) ==
  /\ call[i].at = "view"
  /\ Moves(i, IF call[i].tool = None \/ stopped THEN Done
              ELSE IF call[i].name \in Confirm /\ call[i].gate THEN [call[i] EXCEPT !.at = "gate"]
              ELSE Begins(call[i]))

Decided_ChecksNoToken(i, approved) ==
  /\ call[i].at = "gate"
  /\ Moves(i, IF approved THEN Begins(call[i]) ELSE Done)

\* The gate decided, or threw; the token is read again before its answer.
Decided(i, approved) ==
  /\ call[i].at = "gate"
  /\ Moves(i, IF approved /\ ~stopped THEN Begins(call[i]) ELSE Done)

\* NativeFnTool: its function returns or throws, if it ends.
NativeEnds(i) == call[i].at = "native" /\ Moves(i, Done)

\* The client answered or failed, for whatever reason: the adapter turns an
\* error into a result.
ClientReturns(i) == call[i].at = "mcp" /\ Moves(i, Done)

TimerWins_Ignored(i) ==
  /\ call[i].at = "mcp" /\ made[call[i].tool.n] \in Timed
  /\ UNCHANGED tvars

\* call_timeout_ms has passed: the race cancels the call of the client and ends.
TimerWins(i) ==
  /\ call[i].at = "mcp" /\ made[call[i].tool.n] \in Timed
  /\ Moves(i, Done)

CancelRun ==
  /\ ~stopped /\ stopped' = TRUE
  /\ UNCHANGED <<registry, clients, handlers, attach, call>>

CallStep(i) ==
  \/ \E n \in Name : InvokeDirectly(i, n) \/ \E gate \in BOOLEAN : BuildView(i, n, gate)
  \/ Invoke(i) \/ \E approved \in BOOLEAN : Decided(i, approved)
  \/ NativeEnds(i) \/ ClientReturns(i) \/ TimerWins(i)

AttachStep(t) ==
  \/ \E s \in Server : AttachMcpServer(t, s)
  \/ Listed(t) \/ Attached(t)
  \/ \E n \in Name : TryRegisterIfAbsent(t, n)

TNext ==
  \/ \E n \in Name : Register(n)
  \/ \E t \in Attacher : AttachStep(t)
  \/ ShutdownMcp \/ SetInboundEventHandler
  \/ \E c \in DOMAIN made : ShutdownOne(c) \/ InstallOne(c)
  \/ \E i \in Call : CallStep(i)
  \/ CancelRun

\* A view's call is made, a timer expires, and a client lets go of a call that
\* it was shut down under (McpStdio, McpHttp); of a cancelled one only if it is
\* past the handshake, which has no token.  Gates, native functions and
\* servers may take for ever.
Released(i) == ClientReturns(i) /\ call[i].tool.n \in shut

TFairness ==
  /\ \A i \in Call : /\ WF_tvars(Invoke(i))
                     /\ WF_tvars(TimerWins(i)) /\ WF_tvars(Released(i))
  /\ \A c \in 1 .. MaxClient : WF_tvars(ShutdownOne(c)) /\ WF_tvars(InstallOne(c))

TSpec == TInit /\ [][TNext]_tvars /\ TFairness

-----------------------------------------------------------------------------
(* Properties.                                                             *)

\* Every client the factory ever made is in the pool, about to be shut down or
\* shut down, and never two of these, although ShutdownMcp shuts clients down
\* outside the pool's mutex while AttachMcpServer makes new ones: none keeps
\* its child process and the io_context alive with nobody to end it.  And when
\* no SetInboundEventHandler is under way, each client of the pool has the
\* handler installed last, also one made while a call went through its copy of
\* the clients.
ClientsAccounted ==
  \A c \in DOMAIN made :
    /\ c \in Pooled \cup taken \cup shut
    /\ c \in Pooled => c \notin taken \cup shut
    /\ c \in Pooled /\ setting = {} => installed[c] = handler

\* A call through a view starts its tool under a token that is not cancelled,
\* also if the cancellation came while the user was asked; never a blocked
\* tool, whatever was registered since; one of tier confirm, where there is a
\* gate, only by its approval.
ApprovedOnly ==
  [][\A i \in Call : call[i].at \in {"view", "gate"} /\ call'[i].at \in {"native", "mcp"} =>
       /\ ~stopped /\ call[i].name \notin Blocked
       /\ call[i].name \in Confirm /\ call[i].gate => call[i].at = "gate"]_tvars

\* Every call ends, unless the user, a native function, or a server called
\* without timeout never answers; ShutdownMcp releases the last.
CallEnds ==
  \A i \in Call :
    call[i].at \in {"view", "gate", "native", "mcp"} ~>
      \/ call[i].at = "done"
      \/ [](call[i].at \in {"gate", "native"})
      \/ [](/\ call[i].at = "mcp" /\ made[call[i].tool.n] \notin Timed
            /\ call[i].tool.n \notin shut)
=============================================================================
