----------------------------- MODULE NodesProofs -----------------------------
(***************************************************************************)
(* For any number of calls, turns, deltas and any capacity: the results an *)
(* agent sends back match its calls, and no tool coroutine outlives a turn.*)
(* For any number of members and turns: a gather merges in the order of    *)
(* the members, and no loop starts a member after a cancellation.          *)
(***************************************************************************)
EXTENDS Nodes, TLAPS

Running(n) == task[n] \in {"spawned", "running"}

\* Channel n tells how coroutine n ended.
ChannelsAgree ==
  \A n \in DOMAIN calls :
    chan[n] = IF Running(n) THEN Empty
              ELSE IF task[n] = "escaped" THEN Closed ELSE ResultOf(n, task[n])

\* The results collected so far are those of the first calls, whose coroutines
\* have ended.
CollectedPrefix ==
  \A n \in DOMAIN content :
    ~Running(n) /\ content[n] = [id |-> calls[n].id, value |-> ResultOf(n, task[n])]

\* While Run collects a result is missing; otherwise none is.
Remaining ==
  IF pc = "collect" THEN Len(content) < Len(calls) ELSE Len(content) = Len(calls)

Types ==
  /\ calls \in Seq(Call) /\ Len(calls) <= MaxCalls
  /\ task \in [1 .. Len(calls) -> {"spawned", "running"} \cup Outcome]
  /\ chan \in [1 .. Len(calls) -> Result \cup {Empty, Closed}]
  /\ content \in Seq([id : CallId, value : Result])

IInv == Types /\ ChannelsAgree /\ CollectedPrefix /\ Remaining

\* A reply has a sequence of at most MaxCalls calls (Run, the loop over tool_calls).
LEMMA CallSeqsAreSequences ==
  ASSUME NEW cs \in CallSeqs
  PROVE  cs \in Seq(Call) /\ Len(cs) <= MaxCalls
<1>1. PICK n \in 0 .. MaxCalls : cs \in [1 .. n -> Call]
  BY Zenon DEF CallSeqs
<1>2. n \in Nat /\ n <= MaxCalls
  BY AgentAssumption
<1>3. QED
  BY <1>1, <1>2

\* Before the first turn nothing was called and nothing collected.
LEMMA InitIInv == Init => IInv
  BY AgentAssumption DEF Init, IInv, Types, ChannelsAgree, CollectedPrefix, Remaining

\* Collecting the result of the next call extends the prefix by one.
LEMMA CollectIInv ==
  ASSUME IInv, Collect
  PROVE  IInv'
<1> DEFINE n == Len(content) + 1
<1>1. pc = "collect" /\ chan[n] # Empty /\ content' = Append(content, Entry(n, chan[n]))
      /\ UNCHANGED <<calls, task, chan>>
  BY Zenon DEF Collect, Take, tasks
<1>2. n \in 1 .. Len(calls) /\ DOMAIN calls = 1 .. Len(calls) /\ calls[n] \in Call
  BY <1>1 DEF IInv, Types, Remaining
<1>3. ~Running(n)
  BY <1>1, <1>2, Zenon DEF IInv, ChannelsAgree
<1>4. task[n] \in Outcome
  BY <1>2, <1>3, Zenon DEF IInv, Types, Running
<1>5. Entry(n, chan[n]) = [id |-> calls[n].id, value |-> ResultOf(n, task[n])]
  <2>1. CASE task[n] = "escaped"
    BY <2>1, <1>2, <1>3, Zenon DEF IInv, ChannelsAgree, Entry
  <2>2. CASE task[n] # "escaped"
    <3>1. chan[n] = ResultOf(n, task[n])
      BY <2>2, <1>2, <1>3, Zenon DEF IInv, ChannelsAgree
    <3>2. ResultOf(n, task[n]) # Closed
      BY <1>4, Zenon DEF ResultOf, Closed, Outcome
    <3>3. QED
      BY <3>1, <3>2, Zenon DEF Entry
  <2>3. QED
    BY <2>1, <2>2, Zenon
<1>6. Entry(n, chan[n]) \in [id : CallId, value : Result]
  <2>1. ResultOf(n, task[n]) \in Result
    BY <1>2, <1>4, AgentAssumption DEF ResultOf, Result, IInv, Types
  <2>2. calls[n].id \in CallId
    BY <1>2, Zenon DEF Call
  <2>3. QED
    BY <1>5, <2>1, <2>2
<1>7. Types'
  BY <1>1, <1>6 DEF IInv, Types
<1>8. ChannelsAgree'
  BY <1>1, Zenon DEF IInv, ChannelsAgree, Running
<1>9. CollectedPrefix'
  <2> SUFFICES ASSUME NEW k \in DOMAIN content'
               PROVE  ~Running(k) /\ content'[k] = [id |-> calls[k].id, value |-> ResultOf(k, task[k])]
    BY <1>1, Zenon DEF CollectedPrefix, Running
  <2>1. content \in Seq([id : CallId, value : Result])
    BY Zenon DEF IInv, Types
  <2>2. DOMAIN content' = 1 .. n /\ DOMAIN content = 1 .. Len(content) /\ Len(content) \in Nat
    BY <1>1, <1>6, <2>1
  <2>3. CASE k = n
    BY <2>3, <1>1, <1>3, <1>5, <1>6, <2>1
  <2>4. CASE k # n
    <3>1. k \in DOMAIN content /\ content'[k] = content[k]
      BY <2>4, <2>2, <2>1, <1>1, <1>6
    <3>2. QED
      BY <3>1, Zenon DEF IInv, CollectedPrefix
  <2>5. QED
    BY <2>3, <2>4, Zenon
<1>10. Remaining'
  <2>1. content \in Seq([id : CallId, value : Result]) /\ calls \in Seq(Call)
    BY Zenon DEF IInv, Types
  <2>2. Len(content') = Len(content) + 1 /\ Len(calls') = Len(calls)
    BY <1>1, <1>6, <2>1
  <2>3. CASE Len(content) + 1 = Len(calls)
    <3>1. pc' # "collect"
      BY <2>3, Zenon DEF Collect, Take, LoopTop, Finish
    <3>2. QED
      BY <3>1, <2>2, <2>3, Zenon DEF Remaining
  <2>4. CASE Len(content) + 1 # Len(calls)
    <3>1. pc' = pc
      BY <2>4, Zenon DEF Collect, Take
    <3>2. Len(content) < Len(calls) /\ Len(content) \in Nat /\ Len(calls) \in Nat
      BY <1>1, <2>1 DEF IInv, Remaining
    <3>3. QED
      BY <3>1, <3>2, <2>2, <2>4, <1>1 DEF Remaining
  <2>5. QED
    BY <2>3, <2>4, Zenon
<1>11. QED
  BY <1>7, <1>8, <1>9, <1>10, Zenon DEF IInv

\* A coroutine that runs has not been collected, so it may change its task and
\* its channel.
LEMMA ReportsIInv ==
  ASSUME IInv, NEW n \in DOMAIN calls, Running(n), NEW o \in Outcome,
         Reports(n, o), UNCHANGED <<pc, calls, content>>
  PROVE  IInv'
<1>1. n \in 1 .. Len(calls) /\ DOMAIN calls = 1 .. Len(calls)
  BY DEF IInv, Types
<1>2. ResultOf(n, o) \in Result
  BY <1>1, AgentAssumption DEF IInv, Types, ResultOf, Result
<1>3. Types'
  BY <1>1, <1>2, Zenon DEF IInv, Types, Reports
<1>4. ChannelsAgree'
  <2> SUFFICES ASSUME NEW k \in DOMAIN calls
               PROVE  chan'[k] = IF Running(k)' THEN Empty
                                 ELSE IF task'[k] = "escaped" THEN Closed ELSE ResultOf(k, task'[k])
    BY Zenon DEF ChannelsAgree, Running
  <2>1. CASE k = n
    <3>1. task'[k] = o /\ chan'[k] = IF o = "escaped" THEN Closed ELSE ResultOf(n, o)
      BY <2>1, <1>1, Zenon DEF IInv, Types, Reports
    <3>2. ~Running(k)'
      BY <3>1, Zenon DEF Running, Outcome
    <3>3. QED
      BY <2>1, <3>1, <3>2, Zenon
  <2>2. CASE k # n
    <3>1. task'[k] = task[k] /\ chan'[k] = chan[k]
      BY <2>2, <1>1, Zenon DEF IInv, Types, Reports
    <3>2. QED
      BY <3>1, Zenon DEF IInv, ChannelsAgree, Running
  <2>3. QED
    BY <2>1, <2>2, Zenon
<1>5. CollectedPrefix'
  <2> SUFFICES ASSUME NEW k \in DOMAIN content
               PROVE  ~Running(k)' /\ content[k] = [id |-> calls[k].id, value |-> ResultOf(k, task'[k])]
    BY Zenon DEF CollectedPrefix
  <2>1. ~Running(k) /\ content[k] = [id |-> calls[k].id, value |-> ResultOf(k, task[k])]
    BY Zenon DEF IInv, CollectedPrefix
  <2>2. k \in 1 .. Len(calls)
    BY <1>1 DEF IInv, Types, Remaining
  <2>3. task'[k] = task[k]
    BY <2>1, <2>2, Zenon DEF IInv, Types, Reports
  <2>4. QED
    BY <2>1, <2>3, Zenon DEF Running
<1>6. QED
  BY <1>3, <1>4, <1>5, Zenon DEF IInv, Remaining

\* Every step of the agent, its tools and its environment preserves IInv.
LEMMA NextIInv ==
  ASSUME IInv, [Next]_vars
  PROVE  IInv'
<1>1. ASSUME UNCHANGED <<calls, task, chan, content>>, pc = "collect" <=> pc' = "collect"
      PROVE  IInv'
  BY <1>1, Zenon DEF IInv, Types, ChannelsAgree, CollectedPrefix, Remaining, Running
<1>2. CASE Start
  BY <1>1, <1>2, Zenon DEF Start, LoopTop, Finish, tasks
<1>3. CASE ReplyText
  BY <1>1, <1>3, Zenon DEF ReplyText, Finish, tasks
<1>4. CASE ReplyTools
  <2>1. PICK cs \in CallSeqs :
          /\ calls' = cs
          /\ task' = [n \in DOMAIN cs |-> "spawned"]
          /\ chan' = [n \in DOMAIN cs |-> Empty]
          /\ IF cs = <<>> THEN LoopTop(iter + 1) ELSE pc' = "collect" /\ UNCHANGED <<iter, output>>
    BY <1>4, Zenon DEF ReplyTools
  <2>2. content' = <<>>
    BY <1>4, Zenon DEF ReplyTools
  <2>3. cs \in Seq(Call) /\ Len(cs) <= MaxCalls
    BY CallSeqsAreSequences, Zenon
  <2>4. Types'
    BY <2>1, <2>2, <2>3 DEF Types
  <2>5. ChannelsAgree' /\ CollectedPrefix'
    BY <2>1, <2>2, <2>3 DEF ChannelsAgree, CollectedPrefix, Running
  <2>6. Remaining'
    <3>1. CASE cs = <<>>
      <4>1. pc' # "collect"
        BY <3>1, <2>1, Zenon DEF LoopTop, Finish
      <4>2. QED
        BY <3>1, <4>1, <2>1, <2>2, Zenon DEF Remaining
    <3>2. CASE cs # <<>>
      BY <3>2, <2>1, <2>2, <2>3 DEF Remaining
    <3>3. QED
      BY <3>1, <3>2, Zenon
  <2>7. QED
    BY <2>4, <2>5, <2>6, Zenon DEF IInv
<1>5. CASE SendFails
  BY <1>1, <1>5, Zenon DEF SendFails, Finish, tasks
<1>6. CASE Collect
  BY <1>6, CollectIInv, Zenon
<1>7. CASE SinkDone
  BY <1>1, <1>7, Zenon DEF SinkDone, tasks
<1>8. CASE Delta
  BY <1>1, <1>8, Zenon DEF Delta, tasks
<1>9. CASE Receive \/ CloseChannel \/ Cancel
  BY <1>1, <1>9, Zenon DEF Receive, CloseChannel, Cancel, tasks
<1>10. ASSUME NEW n \in DOMAIN calls, DispatchTool(n)
       PROVE  IInv'
  <2>1. Running(n) /\ UNCHANGED <<pc, calls, content>>
    BY <1>10, Zenon DEF DispatchTool, Running
  <2>2. CASE calls[n].tool = "extra" \/ config.registry
    <3>1. task' = [task EXCEPT ![n] = "running"] /\ UNCHANGED chan
      BY <2>2, <1>10, Zenon DEF DispatchTool
    <3>2. task' \in [1 .. Len(calls) -> {"spawned", "running"} \cup Outcome]
      BY <3>1, Zenon DEF IInv, Types
    <3>3. \A k \in 1 .. Len(calls) : (Running(k)' <=> Running(k)) /\ (~Running(k) => task'[k] = task[k])
      BY <3>1, <2>1, Zenon DEF IInv, Types, Running
    <3>4. DOMAIN calls = 1 .. Len(calls) /\ DOMAIN content \subseteq 1 .. Len(calls)
      BY DEF IInv, Types, Remaining
    <3>5. ChannelsAgree'
      BY <2>1, <3>1, <3>3, <3>4, Zenon DEF IInv, ChannelsAgree
    <3>6. CollectedPrefix'
      BY <2>1, <3>1, <3>3, <3>4, Zenon DEF IInv, CollectedPrefix
    <3>7. QED
      BY <2>1, <3>1, <3>2, <3>5, <3>6, Zenon DEF IInv, Types, Remaining
  <2>3. CASE ~(calls[n].tool = "extra" \/ config.registry)
    BY <2>1, <2>3, <1>10, ReportsIInv, Zenon DEF DispatchTool, Outcome
  <2>4. QED
    BY <2>2, <2>3, Zenon
<1>11. ASSUME NEW n \in DOMAIN calls, ToolDone(n)
       PROVE  IInv'
  <2>1. Running(n) /\ UNCHANGED <<pc, calls, content>>
    BY <1>11, Zenon DEF ToolDone, Running
  <2>2. PICK o \in {"value", "error", "escaped"} : Reports(n, o)
    BY <1>11, Zenon DEF ToolDone
  <2>3. QED
    BY <2>1, <2>2, ReportsIInv, Zenon DEF Outcome
<1>12. CASE UNCHANGED vars
  BY <1>1, <1>12, Zenon DEF vars
<1>13. QED
  BY <1>2, <1>3, <1>4, <1>5, <1>6, <1>7, <1>8, <1>9, <1>10, <1>11, <1>12, Zenon DEF Next, Run, Reply

\* What ties channels, coroutines and collected results together always holds.
THEOREM Inductive == Spec => []IInv
<1>1. IInv /\ [Next]_vars => IInv'
  BY NextIInv, Zenon
<1>2. QED
  BY InitIInv, <1>1, PTL DEF Spec

\* A run of the composition takes an agent through steps of AgentNode only.
LEMMA AgentSteps == NSpec => Spec
<1>1. NInit => Init
  BY Zenon DEF NInit
<1>2. [NNext]_<<kind, vars, teamVars>> => [Next]_vars
  BY Zenon DEF NNext, vars
<1>3. QED
  BY <1>1, <1>2, PTL DEF NSpec, Spec

\* For any number of concurrent calls: what AgentNode::Run sends back to the
\* model answers the calls of the reply one to one, in order, each with the
\* result of its own coroutine.
THEOREM ResultsAlwaysMatch == NSpec => []ResultsMatchCalls
<1>1. IInv => ResultsMatchCalls
  <2> SUFFICES ASSUME IInv, pc = "send"
               PROVE  content = [n \in DOMAIN calls |-> [id |-> calls[n].id, value |-> ResultOf(n, task[n])]]
    BY Zenon DEF ResultsMatchCalls
  <2>1. DOMAIN content = DOMAIN calls
    BY DEF IInv, Types, Remaining
  <2>2. content = [n \in DOMAIN content |-> content[n]]
    BY DEF IInv, Types
  <2>3. QED
    BY <2>1, <2>2, Zenon DEF IInv, CollectedPrefix
<1>2. QED
  BY AgentSteps, Inductive, <1>1, PTL

\* For any number of concurrent calls: when AgentNode::Run returns, throws or
\* starts a turn, every coroutine it spawned has ended.
THEOREM NeverOrphaned == NSpec => []NoOrphan
<1>1. IInv => NoOrphan
  <2> SUFFICES ASSUME IInv, pc # "collect", NEW n \in DOMAIN task
               PROVE  ~Running(n)
    BY Zenon DEF NoOrphan, Ended, Running
  <2>1. n \in DOMAIN content
    BY DEF IInv, Types, Remaining
  <2>2. QED
    BY <2>1, Zenon DEF IInv, CollectedPrefix
<1>2. QED
  BY AgentSteps, Inductive, <1>1, PTL
-----------------------------------------------------------------------------
(* Teams *)

\* The branches received from so far have ended, and outs is their outputs in
\* the order of the members; a gather returns after the last one.
GatherInv ==
  policy = "ParallelGather" =>
    /\ tpc \in {"start", "gather", "returned"}
    /\ turn \in 0 .. Len(Members)
    /\ tpc = "returned" => turn = Len(Members)
    /\ tpc # "returned" => state = <<>>
    /\ outs \in Seq(Seq(T!Ids))
    /\ DOMAIN branch = T!Ids
    /\ \A m \in T!Ids : branch[m].at = "sent" => branch[m].out \in Seq(T!Ids)
    /\ tpc = "start" => turn = 0 /\ outs = <<>>
    /\ tpc = "gather" => \A m \in T!Ids : branch[m].at \in {"running", "sent", "closed"}
    /\ \A i \in 1 .. turn : branch[Members[i]].at \in {"sent", "closed"}
    /\ T!Merged(turn)

\* The members' ids are what Members lists.
LEMMA MembersIds ==
  /\ \A i \in 1 .. Len(Members) : Members[i] \in T!Ids
  /\ \A m \in T!Ids : \E i \in 1 .. Len(Members) : Members[i] = m
BY TeamAssumption DEF T!Ids, T!ToSet

\* Branches that were received from, and what was received, do not change: nor
\* does what they say of outs.
LEMMA MergedFrame ==
  ASSUME T!Merged(turn), turn' = turn, outs' = outs,
         \A i \in 1 .. turn : branch'[Members[i]] = branch[Members[i]]
  PROVE  T!Merged(turn)'
<1>1. PICK f \in [1 .. Len(outs) -> 1 .. turn] :
        /\ \A i, j \in 1 .. Len(outs) : i < j => f[i] < f[j]
        /\ \A j \in 1 .. turn : branch[Members[j]].at = "sent" <=> \E i \in 1 .. Len(outs) : f[i] = j
        /\ \A i \in 1 .. Len(outs) : outs[i] = branch[Members[f[i]]].out
  BY Zenon DEF T!Merged
<1>2. f \in [1 .. Len(outs') -> 1 .. turn'] /\ \A i \in 1 .. Len(outs') : f[i] \in 1 .. turn
  BY <1>1, Zenon
<1>3. \A i, j \in 1 .. Len(outs') : i < j => f[i] < f[j]
  BY <1>1, Zenon
<1>4. \A j \in 1 .. turn' : branch'[Members[j]].at = "sent" <=> \E i \in 1 .. Len(outs') : f[i] = j
  BY <1>1, Zenon
<1>5. \A i \in 1 .. Len(outs') : outs'[i] = branch'[Members[f[i]]].out
  BY <1>1, <1>2, Zenon
<1>6. QED
  BY <1>2, <1>3, <1>4, <1>5, Zenon DEF T!Merged

\* Before the first channel is received from nothing is merged.
LEMMA MergedNothing ==
  /\ turn = 0 /\ outs = <<>> => T!Merged(turn)
  /\ turn' = 0 /\ outs' = <<>> => T!Merged(turn)'
<1> DEFINE f == [i \in {} |-> i]
<1>1. 1 .. Len(<<>>) = {} /\ 1 .. 0 = {} /\ f \in [{} -> {}]
  OBVIOUS
<1>2. ASSUME turn = 0, outs = <<>> PROVE T!Merged(turn)
  BY <1>1, <1>2, Zenon DEF T!Merged
<1>3. ASSUME turn' = 0, outs' = <<>> PROVE T!Merged(turn)'
  BY <1>1, <1>3, Zenon DEF T!Merged
<1>4. QED
  BY <1>2, <1>3, Zenon

\* Receiving from the next member's channel extends what is merged by it.
LEMMA MergedCollect ==
  ASSUME GatherInv, policy = "ParallelGather", T!Collect
  PROVE  /\ outs' \in Seq(Seq(T!Ids))
         /\ T!Merged(turn)'
<1> DEFINE m == Members[turn + 1]
           n == Len(outs)
<1>1. /\ turn \in Nat /\ turn + 1 \in 1 .. Len(Members) /\ m \in T!Ids
      /\ turn' = turn + 1 /\ branch' = branch
      /\ outs' = IF branch[m].at = "sent" THEN Append(outs, branch[m].out) ELSE outs
  BY MembersIds, TeamAssumption DEF GatherInv, T!Collect, T!Take
<1>2. outs \in Seq(Seq(T!Ids)) /\ n \in Nat /\ T!Merged(turn)
  BY DEF GatherInv
<1>3. PICK f \in [1 .. n -> 1 .. turn] :
        /\ \A i, j \in 1 .. n : i < j => f[i] < f[j]
        /\ \A j \in 1 .. turn : branch[Members[j]].at = "sent" <=> \E i \in 1 .. n : f[i] = j
        /\ \A i \in 1 .. n : outs[i] = branch[Members[f[i]]].out
  BY <1>2, Zenon DEF T!Merged
<1>4. CASE branch[m].at = "sent"
  <2> DEFINE h == [i \in 1 .. n + 1 |-> IF i = n + 1 THEN turn + 1 ELSE f[i]]
  <2>1. branch[m].out \in Seq(T!Ids)
    BY <1>1, <1>4, Zenon DEF GatherInv
  <2>2. /\ outs' \in Seq(Seq(T!Ids)) /\ Len(outs') = n + 1
        /\ outs'[n + 1] = branch[m].out /\ \A i \in 1 .. n : outs'[i] = outs[i]
    BY <1>1, <1>2, <1>4, <2>1
  <2>3. h \in [1 .. Len(outs') -> 1 .. turn']
    BY <1>1, <1>2, <1>3, <2>2
  <2>4. h[n + 1] = turn + 1 /\ \A i \in 1 .. n : h[i] = f[i] /\ f[i] \in 1 .. turn
    BY <1>2, <1>3
  <2> HIDE DEF h
  <2>5. \A i, j \in 1 .. Len(outs') : i < j => h[i] < h[j]
    BY <1>1, <1>2, <1>3, <2>2, <2>4
  <2>6. \A j \in 1 .. turn' :
          branch'[Members[j]].at = "sent" <=> \E i \in 1 .. Len(outs') : h[i] = j
    <3> SUFFICES ASSUME NEW j \in 1 .. turn + 1
                 PROVE  branch[Members[j]].at = "sent" <=> \E i \in 1 .. n + 1 : h[i] = j
      BY <1>1, <2>2, Zenon
    <3>1. CASE j = turn + 1
      BY <3>1, <1>2, <1>4, <2>4
    <3>2. CASE j \in 1 .. turn
      <4>1. j # turn + 1 /\ \A i \in 1 .. n + 1 : i = n + 1 \/ i \in 1 .. n
        BY <3>2, <1>1, <1>2
      <4>2. (\E i \in 1 .. n + 1 : h[i] = j) <=> \E i \in 1 .. n : f[i] = j
        <5>1. ASSUME NEW i \in 1 .. n, f[i] = j PROVE i \in 1 .. n + 1 /\ h[i] = j
          BY <5>1, <1>2, <2>4
        <5>2. ASSUME NEW i \in 1 .. n + 1, h[i] = j PROVE i \in 1 .. n /\ f[i] = j
          BY <5>2, <4>1, <1>2, <2>4, Zenon
        <5>3. QED
          BY <5>1, <5>2, Zenon
      <4>3. QED
        BY <3>2, <4>2, <1>3, Zenon
    <3>3. QED
      BY <3>1, <3>2, <1>1
  <2>7. \A i \in 1 .. Len(outs') : outs'[i] = branch'[Members[h[i]]].out
    BY <1>1, <1>2, <1>3, <2>2, <2>4
  <2>8. QED
    BY <2>2, <2>3, <2>5, <2>6, <2>7, Zenon DEF T!Merged
<1>5. CASE branch[m].at # "sent"
  <2>1. outs' = outs
    BY <1>1, <1>5, Zenon
  <2>2. f \in [1 .. Len(outs') -> 1 .. turn']
    BY <1>1, <1>3, <2>1
  <2>3. \A j \in 1 .. turn' :
          branch'[Members[j]].at = "sent" <=> \E i \in 1 .. Len(outs') : f[i] = j
    <3> SUFFICES ASSUME NEW j \in 1 .. turn + 1
                 PROVE  branch[Members[j]].at = "sent" <=> \E i \in 1 .. n : f[i] = j
      BY <1>1, <2>1, Zenon
    <3>1. CASE j = turn + 1
      BY <3>1, <1>1, <1>3, <1>5, Zenon
    <3>2. CASE j \in 1 .. turn
      BY <3>2, <1>3, Zenon
    <3>3. QED
      BY <3>1, <3>2, <1>1
  <2>4. \A i, j \in 1 .. Len(outs') : i < j => f[i] < f[j]
    BY <1>3, <2>1, Zenon
  <2>5. \A i \in 1 .. Len(outs') : outs'[i] = branch'[Members[f[i]]].out
    BY <1>1, <1>3, <2>1, Zenon
  <2>6. QED
    BY <1>2, <2>1, <2>2, <2>3, <2>4, <2>5, Zenon DEF T!Merged
<1>6. QED
  BY <1>4, <1>5, Zenon

\* Every step of a team keeps GatherInv.
LEMMA GatherStep == GatherInv /\ [NNext]_<<kind, vars, teamVars>> => GatherInv'
<1> SUFFICES ASSUME GatherInv, [NNext]_<<kind, vars, teamVars>>
             PROVE  GatherInv'
  OBVIOUS
<1>1. policy' = policy
  BY Zenon DEF NNext, teamVars, T!Next, T!Start, T!Goes, T!LoopEnds, T!Route, T!Runs, T!Moderate,
     T!Replied, T!Decision, T!MemberReturns, T!MemberThrows, T!BranchReturns, T!BranchThrows,
     T!Collect, T!Take, T!GatherEnds, T!Cancel
<1>2. SUFFICES ASSUME policy = "ParallelGather" PROVE GatherInv'
  BY <1>1, Zenon DEF GatherInv
<1> DEFINE Kept == /\ outs \in Seq(Seq(T!Ids)) /\ DOMAIN branch = T!Ids
                   /\ \A m \in T!Ids : branch[m].at = "sent" => branch[m].out \in Seq(T!Ids)
<1>3. /\ tpc \in {"start", "gather", "returned"} /\ turn \in 0 .. Len(Members)
      /\ tpc = "returned" => turn = Len(Members)
      /\ tpc # "returned" => state = <<>>
      /\ Kept /\ T!Merged(turn)
      /\ tpc = "start" => turn = 0 /\ outs = <<>>
      /\ tpc = "gather" => \A m \in T!Ids : branch[m].at \in {"running", "sent", "closed"}
      /\ \A i \in 1 .. turn : branch[Members[i]].at \in {"sent", "closed"}
  BY <1>2, Zenon DEF GatherInv
<1>4. turn \in Nat /\ Len(Members) \in Nat
  BY <1>3, TeamAssumption
<1>5. CASE UNCHANGED teamVars
  <2>1. T!Merged(turn)'
    BY <1>3, <1>5, MergedFrame, Zenon DEF teamVars
  <2>2. QED
    BY <1>3, <1>5, <2>1, Zenon DEF GatherInv, teamVars
<1>6. CASE T!Start
  <2>1. /\ tpc = "start" /\ tpc' = "gather" /\ branch' = [m \in T!Ids |-> T!Branch("running", <<>>)]
        /\ UNCHANGED <<state, turn, outs>>
    BY <1>2, <1>6, Zenon DEF T!Start
  <2>2. turn' = 0 /\ outs' = <<>>
    BY <1>3, <2>1, Zenon
  <2>3. T!Merged(turn)'
    BY <2>2, MergedNothing, Zenon
  <2>4. Kept' /\ \A m \in T!Ids : branch'[m].at = "running"
    BY <1>3, <2>1, Zenon DEF T!Branch
  <2>5. QED
    BY <1>3, <1>4, <2>1, <2>2, <2>3, <2>4 DEF GatherInv
<1>7. ASSUME NEW m \in T!Ids, T!BranchReturns(m) \/ T!BranchThrows(m)
      PROVE  GatherInv'
  <2>1. branch[m].at = "running" /\ UNCHANGED <<tpc, state, turn, outs>>
    BY <1>7, Zenon DEF T!BranchReturns, T!BranchThrows
  <2>2. \A i \in 1 .. turn : Members[i] # m
    BY <1>3, <2>1, Zenon
  <2>3. tpc # "returned"
    BY <1>3, <2>2, MembersIds, Zenon
  <2>4. PICK b \in {T!Branch("sent", Append(<<>>, m)), T!Branch("sent", <<>>), T!Branch("closed", <<>>)} :
          branch' = [branch EXCEPT ![m] = b]
    <3>1. CASE T!BranchThrows(m)
      BY <3>1, Zenon DEF T!BranchThrows
    <3>2. CASE T!BranchReturns(m)
      <4>1. state = <<>>
        BY <1>3, <2>3, Zenon
      <4>2. PICK out \in T!Outputs(m, state) : branch' = [branch EXCEPT ![m] = T!Branch("sent", out)]
        BY <3>2, Zenon DEF T!BranchReturns
      <4>3. out = Append(<<>>, m) \/ out = <<>>
        BY <4>1, <4>2, Zenon DEF T!Outputs
      <4>4. QED
        BY <4>2, <4>3, Zenon
    <3>3. QED
      BY <1>7, <3>1, <3>2, Zenon
  <2>5. b.at = "sent" => b.out \in Seq(T!Ids)
    <3>1. <<>> \in Seq(T!Ids) /\ Append(<<>>, m) \in Seq(T!Ids)
      OBVIOUS
    <3>2. b.out = <<>> \/ b.out = Append(<<>>, m)
      BY <2>4 DEF T!Branch
    <3>3. QED
      BY <3>1, <3>2, Zenon
  <2>6. Kept'
    BY <1>3, <2>1, <2>4, <2>5, Zenon
  <2>7. \A i \in 1 .. turn : branch'[Members[i]] = branch[Members[i]]
    BY <1>3, <2>2, <2>4
  <2>8. T!Merged(turn)'
    BY <1>3, <2>1, <2>7, MergedFrame, Zenon
  <2>9. tpc = "gather" => \A k \in T!Ids : branch'[k].at \in {"running", "sent", "closed"}
    BY <1>3, <2>4 DEF T!Branch
  <2>10. tpc = "start" => turn = 0 /\ outs = <<>>
    BY <1>3, Zenon
  <2>11. QED
    BY <1>3, <2>1, <2>3, <2>6, <2>7, <2>8, <2>9, <2>10, Zenon DEF GatherInv
<1>8. CASE T!Collect
  <2>1. /\ turn < Len(Members) /\ turn' = turn + 1 /\ UNCHANGED <<tpc, state, branch>> /\ tpc = "gather"
        /\ branch[Members[turn + 1]].at # "running"
    BY <1>8, Zenon DEF T!Collect, T!Take
  <2>2. outs' \in Seq(Seq(T!Ids)) /\ T!Merged(turn)'
    BY <1>2, <1>8, MergedCollect, Zenon
  <2>3. Members[turn + 1] \in T!Ids /\ turn' \in 0 .. Len(Members)
    BY <1>4, <2>1, MembersIds
  <2>4. \A i \in 1 .. turn' : branch'[Members[i]].at \in {"sent", "closed"}
    <3> SUFFICES ASSUME NEW i \in 1 .. turn + 1
                 PROVE  branch[Members[i]].at \in {"sent", "closed"}
      BY <2>1, Zenon
    <3>1. CASE i = turn + 1
      BY <3>1, <1>3, <2>1, <2>3, Zenon
    <3>2. CASE i \in 1 .. turn
      BY <3>2, <1>3, Zenon
    <3>3. QED
      BY <3>1, <3>2, <1>4
  <2>5. QED
    BY <1>3, <2>1, <2>2, <2>3, <2>4, Zenon DEF GatherInv
<1>9. CASE T!GatherEnds
  <2>1. turn = Len(Members) /\ tpc' = "returned" /\ UNCHANGED <<turn, branch, outs>>
    BY <1>9, Zenon DEF T!GatherEnds
  <2>2. T!Merged(turn)'
    BY <1>3, <2>1, MergedFrame, Zenon
  <2>3. QED
    BY <1>3, <1>4, <2>1, <2>2, Zenon DEF GatherInv
<1>10. CASE T!Cancel
  <2>1. UNCHANGED <<tpc, state, turn, branch, outs>>
    BY <1>10, Zenon DEF T!Cancel
  <2>2. T!Merged(turn)'
    BY <1>3, <2>1, MergedFrame, Zenon
  <2>3. QED
    BY <1>3, <2>1, <2>2, Zenon DEF GatherInv
<1>11. ~(T!LoopEnds \/ T!Route \/ T!Moderate \/ T!Replied \/ T!MemberReturns \/ T!MemberThrows)
  BY <1>2, <1>3, Zenon DEF T!LoopEnds, T!Route, T!Moderate, T!Replied, T!MemberReturns, T!MemberThrows, T!MayTurn
<1>12. QED
  BY <1>5, <1>6, <1>7, <1>8, <1>9, <1>10, <1>11, Zenon DEF NNext, T!Next

\* For any number of members, whatever the order in which their branches end and
\* whichever throw: what RunParallelGather merges is in the members' order.
THEOREM GatherKeepsOrder == NSpec => []GatherInOrder
<1>1. NInit => GatherInv
  BY TeamAssumption, MembersIds, MergedNothing DEF NInit, T!Init, T!Branch, GatherInv
<1>2. GatherInv => GatherInOrder
  BY MembersIds, Zenon DEF GatherInv, GatherInOrder, T!GatherInOrder
<1>3. QED
  BY <1>1, <1>2, GatherStep, PTL DEF NSpec

\* For any number of members and turns: no member of a team's loop is started by a
\* step taken after the cancellation.
THEOREM CancelStopsLoops == NSpec => NoStartAfterCancel
<1>1. [NNext]_<<kind, vars, teamVars>> => [tpc # "member" /\ tpc' = "member" => ~tcancelled]_teamVars
  BY Zenon DEF NNext, teamVars, T!Next, T!Start, T!Goes, T!LoopEnds, T!Route, T!Runs, T!Moderate,
     T!MayTurn, T!Replied, T!Decision, T!MemberReturns, T!MemberThrows, T!BranchReturns,
     T!BranchThrows, T!Collect, T!Take, T!GatherEnds, T!Cancel
<1>2. QED
  BY <1>1, PTL DEF NSpec, NoStartAfterCancel
=============================================================================
