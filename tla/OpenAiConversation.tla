------------------------- MODULE OpenAiConversation -------------------------
(***************************************************************************)
(* A conversation with an OpenAI-compatible server                         *)
(* (agentflow/inference/openai).  The server keeps nothing: every request  *)
(* carries messages_, so whatever a failed turn leaves in it is sent again *)
(* with every later one.  The client sends one message at a time.          *)
(***************************************************************************)
EXTENDS Naturals, Sequences, FiniteSets, SequencesExt

CONSTANTS CallId,      \* ids of tool calls, numbers; each reply uses them again
          Key,         \* object keys of images
          NoId, NoKey, \* a call without an id, a message without an image
          MaxImages,   \* images in one session (20 in the code)
          MaxRetries,  \* max_retries
          MaxSends,    \* bound: SendAsync calls
          MaxFrames    \* bound: deltas and tool calls of one reply

ASSUME ConversationAssumption ==
  /\ CallId \subseteq Nat /\ NoId \notin CallId /\ NoKey \notin Key
  /\ MaxImages \in Nat /\ MaxSends \in Nat /\ MaxFrames \in Nat /\ MaxRetries \in Nat \ {0}

VARIABLES
  messages,  \* messages_
  previous,  \* SendAsync's copy of messages_ to roll back to
  pc,        \* where SendAsync is: "idle", "resolve", "post", "sink", "backoff"
  attempt,   \* attempts of this SendAsync before the current one
  acc,       \* the attempt's StreamAccumulator: deltas of text, ids of tool calls
  shown,     \* deltas on_token got in this SendAsync
  cancelled, \* its token
  resolver,  \* an image_ref_resolver is configured
  gone,      \* images the resolver no longer finds
  reported,  \* images a SendAsync has reported as invalid
  result,    \* of the last SendAsync
  sends

vars == <<messages, previous, pc, attempt, acc, shown, cancelled, resolver, gone, reported, result, sends>>

User(img)      == [role |-> "user", calls |-> {}, text |-> 0, id |-> NoId, img |-> img]
Assistant(a)   == [role |-> "assistant", calls |-> a.calls, text |-> a.text, id |-> NoId, img |-> NoKey]
ToolResult(id) == [role |-> "tool", calls |-> {}, text |-> 1, id |-> id, img |-> NoKey]
NotExecuted(id) == [ToolResult(id) EXCEPT !.text = 0]

NoReply == [text |-> 0, calls |-> {}]
Message == [role : {"user", "assistant", "tool"}, calls : SUBSET (CallId \cup {NoId}),
            text : 0 .. MaxFrames + 1, id : CallId \cup {NoId}, img : Key \cup {NoKey}]

TypeOK ==
  /\ messages \in Seq(Message) /\ previous \in Seq(Message)
  /\ pc \in {"idle", "resolve", "post", "sink", "backoff"}
  /\ attempt \in 0 .. MaxRetries - 1
  /\ acc \in [text : 0 .. MaxFrames, calls : SUBSET (CallId \cup {NoId})]
  /\ shown \in Nat /\ cancelled \in BOOLEAN /\ resolver \in BOOLEAN
  /\ gone \subseteq Key /\ reported \subseteq Key
  /\ result \in {"none", "Ok", "Cancelled", "Interrupted", "Failed", "Invalid", "Rejected"}
  /\ sends \in 0 .. MaxSends

Init ==
  /\ messages = <<>> /\ previous = <<>> /\ pc = "idle" /\ attempt = 0
  /\ acc = NoReply /\ shown = 0 /\ cancelled = FALSE
  /\ resolver \in BOOLEAN /\ gone = {} /\ reported = {}
  /\ result = "none" /\ sends = 0

-----------------------------------------------------------------------------
(* Operators on a history.                                                 *)

CollectImageRefKeys(s) == {s[n].img : n \in DOMAIN s} \ {NoKey}

MarkImageRefsExpired(s, keys) ==
  [n \in DOMAIN s |-> [s[n] EXCEPT !.img = IF @ \in keys THEN NoKey ELSE @]]

\* The assistant message with tool calls whose run of tool messages reaches n.
Answers(s, i, n) ==
  /\ s[i].role = "assistant" /\ s[i].calls # {}
  /\ \A k \in i + 1 .. n : s[k].role = "tool"

EndOfRun(s, n) == n = Len(s) \/ s[n + 1].role # "tool"

Missing(s, i, n) == (s[i].calls \ {NoId}) \ {s[k].id : k \in i + 1 .. n}

\* The calls that the run of results ending at n leaves without one.
Unanswered(s, n) ==
  UNION {Missing(s, i, n) : i \in {j \in 1 .. n : Answers(s, j, n) /\ EndOfRun(s, n)}}

\* The results that stand in for them.
Placeholders(s, n) ==
  LET ids == SetToSeq(Unanswered(s, n)) IN [k \in DOMAIN ids |-> NotExecuted(ids[k])]

\* At the end of each run of results, one placeholder for every call of the
\* assistant message before it that has an id and no result.
RepairToolCallPairing(s) == FlattenSeq([n \in DOMAIN s |-> <<s[n]>> \o Placeholders(s, n)])

-----------------------------------------------------------------------------
(* SendAsync.                                                              *)

Return(r) ==
  /\ pc' = "idle" /\ result' = r
  /\ previous' = <<>> /\ attempt' = 0 /\ acc' = NoReply /\ cancelled' = FALSE

\* No turn that failed for an image enters the history, which was accepted
\* before it; images known to be invalid leave it.
Reject(accepted, missing) ==
  /\ Return("Rejected")
  /\ messages' = MarkImageRefsExpired(accepted, missing)
  /\ reported' = reported \cup missing

\* Attempt number n up to its first co_await, on history s.
Attempt(n, s, accepted, cut) ==
  \/ cut /\ Return("Cancelled") /\ messages' = s /\ UNCHANGED reported
  \/ /\ ~cut /\ CollectImageRefKeys(s) # {} /\ ~resolver
     /\ Reject(accepted, CollectImageRefKeys(s))
  \/ /\ ~cut /\ (CollectImageRefKeys(s) = {} \/ resolver)
     /\ pc' = IF CollectImageRefKeys(s) = {} THEN "post" ELSE "resolve"
     /\ messages' = s /\ previous' = accepted /\ attempt' = n
     /\ acc' = NoReply /\ cancelled' = FALSE /\ result' = "none"
     /\ UNCHANGED reported

SendAll_RepairFirst(incoming) == RepairToolCallPairing(messages) \o incoming

\* The history with the incoming messages, repaired after they are appended.
SendAll(incoming) == RepairToolCallPairing(messages \o incoming)

\* The limit of a session, on the distinct keys of old and new messages.
TooManyImages(s) == Cardinality(CollectImageRefKeys(s)) > MaxImages

\* SendAsync with a token that may be cancelled already.
SendAsync(incoming) ==
  /\ pc = "idle" /\ sends < MaxSends
  /\ sends' = sends + 1 /\ shown' = 0
  /\ LET s == SendAll(incoming)
     IN IF TooManyImages(s)
        THEN /\ messages' = IF CollectImageRefKeys(incoming) # {} THEN messages ELSE s
             /\ Return("Invalid") /\ UNCHANGED reported
        ELSE \E cut \in BOOLEAN : Attempt(0, s, messages, cut)
  /\ UNCHANGED <<resolver, gone>>

\* A client does not attach an image again that it was told is invalid.
SendUser == \E img \in (Key \ reported) \cup {NoKey} : SendAsync(<<User(img)>>)

\* The results of some or all calls of the reply just received.
SendTool ==
  /\ messages # <<>> /\ Last(messages).calls # {}
  /\ \E ids \in SUBSET (Last(messages).calls \ {NoId}) :
       SendAsync([n \in DOMAIN SetToSeq(ids) |-> ToolResult(SetToSeq(ids)[n])])

\* ToOpenAiMessages refuses a result without an id.
SendToolWithoutId ==
  /\ pc = "idle" /\ sends < MaxSends
  /\ messages # <<>> /\ NoId \in Last(messages).calls
  /\ sends' = sends + 1 /\ Return("Invalid")
  /\ UNCHANGED <<messages, shown, resolver, gone, reported>>

Posting == pc' = "post" /\ UNCHANGED <<messages, previous, attempt, acc, cancelled, result, reported>>

Resolved_KeepTurn ==
  /\ pc = "resolve"
  /\ LET missing == CollectImageRefKeys(messages) \cap gone
     IN \/ Reject(messages, {})
        \/ missing # {} /\ Reject(messages, missing)
        \/ missing = {} /\ Posting
  /\ UNCHANGED <<shown, resolver, gone, sends>>

\* The resolver failed, left out some keys, or gave a URL for each.
Resolved ==
  /\ pc = "resolve"
  /\ LET missing == CollectImageRefKeys(messages) \cap gone
     IN \/ Reject(previous, {})
        \/ missing # {} /\ Reject(previous, missing)
        \/ missing = {} /\ Posting
  /\ UNCHANGED <<shown, resolver, gone, sends>>

\* StreamAccumulator::Feed: a delta of text, which on_token is awaited for, or
\* a piece of a tool call (the ids of a reply are numbered in order).
Feed ==
  /\ pc = "post" /\ acc.text + Cardinality(acc.calls) < MaxFrames
  /\ \/ /\ acc' = [acc EXCEPT !.text = @ + 1]
        /\ shown' = shown + 1 /\ pc' = "sink"
     \/ \E id \in {NoId} \cup {i \in CallId : \A j \in CallId : j < i => j \in acc.calls} :
          /\ acc' = [acc EXCEPT !.calls = @ \cup {id}]
          /\ UNCHANGED <<shown, pc>>
  /\ UNCHANGED <<messages, previous, attempt, cancelled, resolver, gone, reported, result, sends>>

SinkDone ==
  /\ pc = "sink" /\ pc' = "post"
  /\ UNCHANGED <<messages, previous, attempt, acc, shown, cancelled, resolver, gone, reported, result, sends>>

\* PostSse returned Ok: the reply enters the history.
ReplyComplete ==
  /\ pc = "post"
  /\ messages' = Append(messages, Assistant(acc))
  /\ Return("Ok")
  /\ UNCHANGED <<shown, resolver, gone, reported, sends>>

\* A status that IsRetryable, and an attempt is left.
Retry ==
  /\ attempt + 1 < MaxRetries
  /\ pc' = "backoff" /\ UNCHANGED <<previous, attempt, acc, cancelled, result>>

PostFails_AlwaysRetry ==
  /\ pc = "post"
  /\ Return(IF cancelled THEN "Cancelled" ELSE "Failed") \/ Retry
  /\ UNCHANGED <<messages, shown, resolver, gone, reported, sends>>

\* PostSse failed: cancelled, after partial output, for good, or to be retried.
PostFails ==
  /\ pc = "post"
  /\ \/ cancelled /\ Return("Cancelled")
     \/ ~cancelled /\ acc.text > 0 /\ Return("Interrupted")
     \/ ~cancelled /\ acc.text = 0 /\ (Return("Failed") \/ Retry)
  /\ UNCHANGED <<messages, shown, resolver, gone, reported, sends>>

BackoffDone_SameAttempt ==
  /\ pc = "backoff"
  /\ Attempt(attempt, messages, previous, cancelled)
  /\ UNCHANGED <<shown, resolver, gone, sends>>

\* The timer is not cancelled with the token; the next attempt looks at it.
BackoffDone ==
  /\ pc = "backoff"
  /\ Attempt(attempt + 1, messages, previous, cancelled)
  /\ UNCHANGED <<shown, resolver, gone, sends>>

-----------------------------------------------------------------------------
Cancel ==
  /\ pc # "idle" /\ ~cancelled /\ cancelled' = TRUE
  /\ UNCHANGED <<messages, previous, pc, attempt, acc, shown, resolver, gone, reported, result, sends>>

ImageExpires ==
  /\ \E k \in CollectImageRefKeys(messages) \ gone : gone' = gone \cup {k}
  /\ UNCHANGED <<messages, previous, pc, attempt, acc, shown, cancelled, resolver, reported, result, sends>>

Request == Resolved \/ SinkDone \/ ReplyComplete \/ PostFails \/ BackoffDone

Next == SendUser \/ SendTool \/ SendToolWithoutId \/ Request \/ Feed \/ Cancel \/ ImageExpires

Spec == Init /\ [][Next]_vars

\* A resolver, a consumer, a timer and a POST all come to an end (the POST by
\* its timeout); a stream has finitely many frames.
FairSpec == Spec /\ WF_vars(Request)

-----------------------------------------------------------------------------
(* Properties.                                                             *)

\* The tool messages behind an assistant message answer each of its calls that
\* has an id exactly once, and no tool message is anywhere else.
Paired(s) ==
  \A n \in DOMAIN s :
    /\ \A id \in s[n].calls \ {NoId} :
         Cardinality({k \in n + 1 .. Len(s) : Answers(s, n, k) /\ s[k].id = id}) = 1
    /\ s[n].role = "tool" =>
         \E i \in 1 .. n - 1 : Answers(s, i, n) /\ s[n].id \in s[i].calls

\* Every request can be accepted by the server: its history is paired, whatever
\* turns were abandoned, failed or rolled back before (RepairToolCallPairing,
\* appended results first).
RequestPaired == pc = "post" => Paired(messages)

\* The user sees each piece of an answer once, and sees what the history
\* records: attempts that failed before the successful one have shown nothing.
ShownIsRecorded ==
  /\ pc \in {"post", "sink"} => shown = acc.text
  /\ pc = "idle" /\ result = "Ok" => shown = Last(messages).text

\* A turn rejected for an image leaves the history as it was before the turn,
\* but for the images found to be invalid, which leave it and so cannot fail
\* the next turn again; also when an earlier attempt of the same turn got
\* through the resolver.
RejectedLeavesNoTrace ==
  [][pc' = "idle" /\ pc # "idle" /\ result' = "Rejected" =>
       /\ CollectImageRefKeys(messages') \cap reported' = {}
       /\ messages' = MarkImageRefsExpired(previous, Key \ CollectImageRefKeys(messages'))]_vars

\* Every SendAsync returns.
SendEnds == pc # "idle" ~> pc = "idle"
=============================================================================
