---------------------------- MODULE LiteRtStream ----------------------------
(***************************************************************************)
(* The on-device chat backend (agentflow/inference/litert_lm): several     *)
(* conversations share one engine through a slot.  The engine's worker     *)
(* thread posts chunks to the io_context, whose handlers try_send them     *)
(* into the conversation's bounded channel; SendAsync drains it.           *)
(***************************************************************************)
EXTENDS Naturals, Sequences

CONSTANTS Conv,       \* conversations of one backend
          Turns,      \* bound: SendAsync calls of each conversation
          N,          \* text chunks of a reply
          Cap,        \* capacity of channel_ (256 in the code)
          MayCancel   \* TRUE: tokens may be cancelled, from any thread

ASSUME StreamAssumption ==
  Turns \in Nat /\ N \in Nat /\ Cap \in Nat \ {0} /\ MayCancel \in BOOLEAN

VARIABLES
  free,       \* engine_slot_ holds its token
  pc,         \* per conversation: where its SendAsync is
  left,       \* per conversation: turns left
  chan,       \* per conversation: channel_, chunks 1..N, 0 = end of turn, N+1 = error
  closed,     \* per conversation: channel_ is closed
  cancelled,  \* per conversation: its token and cancelled_
  engine,     \* per conversation: chunks the engine has produced for it, or Off
  posted,     \* handlers queued in the io_context: chunk, or error, and whether it is final
  dropped,    \* per conversation: what try_send dropped in this turn
  got,        \* per conversation: chunks SendAsync has taken in this turn
  result      \* per conversation: outcome of its last turn

vars == <<free, pc, left, chan, closed, cancelled, engine, posted, dropped, got, result>>

Off == N + 2
Error == N + 1
Sentinel == 0
Holds(c) == pc[c] \in {"recv", "sink", "sync"}
\* SendMessageSync blocks the io_context's only thread.
IoFree == \A c \in Conv : pc[c] # "sync"

TypeOK ==
  /\ free \in BOOLEAN
  /\ pc \in [Conv -> {"idle", "slot", "recv", "sink", "sync"}]
  /\ left \in [Conv -> 0 .. Turns]
  /\ chan \in [Conv -> Seq(0 .. Error)] /\ \A c \in Conv : Len(chan[c]) <= Cap + 1
  /\ closed \in [Conv -> BOOLEAN] /\ cancelled \in [Conv -> BOOLEAN]
  /\ engine \in [Conv -> 0 .. Off]
  /\ posted \in Seq([conv : Conv, chunk : 0 .. Error, final : BOOLEAN])
  /\ dropped \in [Conv -> SUBSET (0 .. Error)] /\ got \in [Conv -> Seq(1 .. N)]
  /\ result \in [Conv -> {"none", "Ok", "Internal", "Cancelled"}]

Init ==
  /\ free = TRUE
  /\ pc = [c \in Conv |-> "idle"] /\ left = [c \in Conv |-> Turns]
  /\ chan = [c \in Conv |-> <<>>] /\ closed = [c \in Conv |-> FALSE]
  /\ cancelled = [c \in Conv |-> FALSE] /\ engine = [c \in Conv |-> Off]
  /\ posted = <<>> /\ dropped = [c \in Conv |-> {}]
  /\ got = [c \in Conv |-> <<>>] /\ result = [c \in Conv |-> "none"]

-----------------------------------------------------------------------------
(* SendAsync.                                                              *)

\* Up to the wait for the engine slot.  The nodes give up a conversation whose
\* send failed.
Send(c) ==
  /\ IoFree /\ pc[c] = "idle" /\ left[c] > 0 /\ result[c] \in {"none", "Ok"}
  /\ left' = [left EXCEPT ![c] = @ - 1]
  /\ IF cancelled[c]
     THEN result' = [result EXCEPT ![c] = "Cancelled"] /\ UNCHANGED pc
     ELSE pc' = [pc EXCEPT ![c] = "slot"] /\ UNCHANGED result
  /\ UNCHANGED <<free, chan, closed, cancelled, engine, posted, dropped, got>>

\* litert_lm_conversation_send_message_stream, not reached by a cancelled
\* conversation, fails to start: an error and the end of the channel.
StartStream(c) ==
  \/ cancelled[c] /\ UNCHANGED <<engine, chan, closed>>
  \/ ~cancelled[c] /\ engine' = [engine EXCEPT ![c] = 0] /\ UNCHANGED <<chan, closed>>
  \/ /\ ~cancelled[c] /\ UNCHANGED engine
     /\ chan' = [chan EXCEPT ![c] = IF Len(@) < Cap /\ ~closed[c] THEN Append(@, Error) ELSE @]
     /\ closed' = [closed EXCEPT ![c] = TRUE]

\* The slot is this conversation's: the turn is streamed, or blocks in
\* SendMessageSync (constrained decoding, or nobody wants deltas).
Granted(c) ==
  /\ IoFree /\ pc[c] = "slot" /\ free
  /\ free' = FALSE
  /\ got' = [got EXCEPT ![c] = <<>>] /\ dropped' = [dropped EXCEPT ![c] = {}]
  /\ \/ pc' = [pc EXCEPT ![c] = "recv"] /\ StartStream(c)
     \/ /\ pc' = [pc EXCEPT ![c] = "sync"]
        /\ engine' = [engine EXCEPT ![c] = 0] /\ UNCHANGED <<chan, closed>>
  /\ UNCHANGED <<left, cancelled, posted, result>>

Finish_KeepSlot(c, r) ==
  /\ pc' = [pc EXCEPT ![c] = "idle"] /\ result' = [result EXCEPT ![c] = r]
  /\ free' = (r = "Ok")

\* Every exit path returns the slot (SlotRelease).
Finish(c, r) ==
  /\ pc' = [pc EXCEPT ![c] = "idle"] /\ result' = [result EXCEPT ![c] = r]
  /\ free' = TRUE

SyncDone(c) ==
  /\ pc[c] = "sync"
  /\ engine' = [engine EXCEPT ![c] = Off]
  /\ Finish(c, "Ok") \/ Finish(c, "Internal")
  /\ UNCHANGED <<left, chan, closed, cancelled, posted, dropped, got>>

\* NextTokenAsync returned a chunk, the end of the turn, or threw.  A closed
\* channel still delivers what it holds; then receiving fails with
\* channel_closed, which is not operation_aborted.
Receive(c) ==
  /\ IoFree /\ pc[c] = "recv" /\ (chan[c] # <<>> \/ closed[c])
  /\ IF chan[c] = <<>> THEN Finish(c, "Internal") /\ UNCHANGED <<chan, got>>
     ELSE /\ chan' = [chan EXCEPT ![c] = Tail(@)]
          /\ CASE Head(chan[c]) = Sentinel -> Finish(c, "Ok") /\ UNCHANGED got
               [] Head(chan[c]) = Error -> Finish(c, "Internal") /\ UNCHANGED got
               [] OTHER -> /\ got' = [got EXCEPT ![c] = Append(@, Head(chan[c]))]
                           /\ pc' = [pc EXCEPT ![c] = "sink"]
                           /\ UNCHANGED <<free, result>>
  /\ UNCHANGED <<left, closed, cancelled, engine, posted, dropped>>

\* co_await on_token is over: the consumer took the delta.
SinkDone(c) ==
  /\ IoFree /\ pc[c] = "sink"
  /\ pc' = [pc EXCEPT ![c] = "recv"]
  /\ UNCHANGED <<free, left, chan, closed, cancelled, engine, posted, dropped, got, result>>

-----------------------------------------------------------------------------
(* The engine's worker, StreamCallback and the handlers it posts.          *)

Post(c, chunk, final) ==
  posted' = IF cancelled[c] THEN posted ELSE Append(posted, [conv |-> c, chunk |-> chunk, final |-> final])

\* The next chunk of text; the last one is final, or an empty final one follows.
EngineEmits(c) ==
  /\ engine[c] < N + 1 /\ pc[c] # "sync"
  /\ \/ /\ engine[c] < N
        /\ \E final \in {FALSE, engine[c] + 1 = N} :
             /\ Post(c, engine[c] + 1, final)
             /\ engine' = [engine EXCEPT ![c] = IF final THEN Off ELSE @ + 1]
     \/ /\ engine[c] = N
        /\ Post(c, Sentinel, TRUE) /\ engine' = [engine EXCEPT ![c] = Off]
  /\ UNCHANGED <<free, pc, left, chan, closed, cancelled, dropped, got, result>>

\* The engine fails, or stops after cancel_process (at a time of its own:
\* StreamCallback expects chunks after Cancel).
EngineStops(c) ==
  /\ engine[c] # Off /\ pc[c] # "sync"
  /\ Post(c, Error, TRUE)
  /\ engine' = [engine EXCEPT ![c] = Off]
  /\ UNCHANGED <<free, pc, left, chan, closed, cancelled, dropped, got, result>>

\* A receiver that waits in NextTokenAsync holds the first item, outside the
\* buffer; a closed channel takes nothing.
Room(c, s) == ~closed[c] /\ Len(s) < Cap + (IF pc[c] = "recv" THEN 1 ELSE 0)
TrySend(c, s, x) == IF Room(c, s) THEN Append(s, x) ELSE s

Sent_SentinelFirst(c, h) ==
  LET end == IF h.final /\ h.chunk # Error THEN TrySend(c, chan[c], Sentinel) ELSE chan[c]
  IN IF h.chunk = Sentinel THEN end ELSE TrySend(c, end, h.chunk)

\* The channel after a posted handler has sent the text, then for the final
\* chunk the empty string that ends the turn.
Sent(c, h) ==
  LET text == IF h.chunk = Sentinel THEN chan[c] ELSE TrySend(c, chan[c], h.chunk)
  IN IF h.final /\ h.chunk # Error THEN TrySend(c, text, Sentinel) ELSE text

\* try_send drops what does not fit.
Lost(c, h) ==
  ({h.chunk} \cup (IF h.final /\ h.chunk # Error THEN {Sentinel} ELSE {}))
    \ {Sent(c, h)[n] : n \in Len(chan[c]) + 1 .. Len(Sent(c, h))}

\* A handler of the io_context; an error closes the channel.
Handler ==
  /\ IoFree /\ posted # <<>>
  /\ posted' = Tail(posted)
  /\ LET h == Head(posted)
         c == h.conv
     IN /\ chan' = [chan EXCEPT ![c] = Sent(c, h)]
        /\ dropped' = [dropped EXCEPT ![c] = @ \cup Lost(c, h)]
        /\ closed' = [closed EXCEPT ![c] = @ \/ h.chunk = Error]
  /\ UNCHANGED <<free, pc, left, cancelled, engine, got, result>>

Cancel_NoClose(c) ==
  /\ MayCancel /\ ~cancelled[c]
  /\ cancelled' = [cancelled EXCEPT ![c] = TRUE]
  /\ UNCHANGED <<free, pc, left, chan, closed, engine, posted, dropped, got, result>>

\* LiteRtLmConversation::Cancel, from the token's callback on any thread.
Cancel(c) ==
  /\ MayCancel /\ ~cancelled[c]
  /\ cancelled' = [cancelled EXCEPT ![c] = TRUE] /\ closed' = [closed EXCEPT ![c] = TRUE]
  /\ UNCHANGED <<free, pc, left, chan, engine, posted, dropped, got, result>>

Next ==
  \/ \E c \in Conv : \/ Send(c) \/ Granted(c) \/ SyncDone(c) \/ Receive(c) \/ SinkDone(c)
                     \/ EngineEmits(c) \/ EngineStops(c) \/ Cancel(c)
  \/ Handler

\* The io_context and the engine make progress, consumers take their deltas,
\* and the slot's channel serves its receivers in turn.
Fairness ==
  /\ WF_vars(Handler)
  /\ \A c \in Conv : /\ SF_vars(Granted(c)) /\ WF_vars(SyncDone(c)) /\ WF_vars(Receive(c))
                     /\ WF_vars(SinkDone(c)) /\ WF_vars(EngineEmits(c) \/ EngineStops(c))

Spec == Init /\ [][Next]_vars
FairSpec == Spec /\ Fairness

-----------------------------------------------------------------------------
(* Properties.                                                             *)

\* The slot is free or held by exactly one SendAsync, over cancellation, failed
\* starts, stream errors and blocking turns alike; and at most one conversation
\* that nobody cancelled is in the engine, since who returned the slot has seen
\* the engine's last chunk or told it to stop.
SlotConserved ==
  /\ free <=> \A c \in Conv : ~Holds(c)
  /\ \A c, d \in Conv : Holds(c) /\ Holds(d) => c = d
  /\ \A c, d \in Conv : engine[c] # Off /\ engine[d] # Off /\ c # d => cancelled[c] \/ cancelled[d]

\* A streamed turn that succeeds delivered the chunks of its own reply in order
\* and once, except exactly those that found the channel full: nothing else is
\* missing, and nothing is left over from an earlier turn.
ReplyComplete ==
  [][\A c \in Conv : pc[c] = "recv" /\ pc'[c] = "idle" /\ result'[c] = "Ok"
       => /\ {got[c][i] : i \in DOMAIN got[c]} = (1 .. N) \ dropped[c]
          /\ \A i, j \in DOMAIN got[c] : i < j => got[c][i] < got[c][j]]_vars

\* Every SendAsync returns, whoever fails or is cancelled, unless some turn lost
\* the empty string that ends it to a full channel: that one waits for ever,
\* and the others for the slot it holds.
TurnEnds ==
  \A c \in Conv :
    pc[c] # "idle" ~>
      (pc[c] = "idle" \/ \E d \in Conv : [](pc[d] = "recv" /\ Sentinel \in dropped[d] /\ ~closed[d]))
=============================================================================
