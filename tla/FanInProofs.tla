----------------------------- MODULE FanInProofs -----------------------------
(***************************************************************************)
(* Fan-in in graphs of ALL edges without cycle groups: what NodeReady, the *)
(* counters and the checkpoint on disk guarantee across cancellations,     *)
(* errors, crashes and resumes; and, if the graph is acyclic with one      *)
(* entry, what a run that returned has done.                               *)
(***************************************************************************)
EXTENDS RunnerProofs

AllDelivered(n) == \A e \in Edge : To[e] = n => Delivered(e)
Undelivered(n)  == {e \in In(n, 0) : ~Delivered(e)}

\* A node fires when its counter, which is the number of edges still to
\* deliver, has drained; then nothing can be delivered to it again.
FiringInv ==
  /\ \A n \in Node : timesFired[n] \in {0, 1}
  /\ \A n \in Node : timesFired[n] = 1 => pending[n] = None /\ AllDelivered(n)
  /\ \A n \in next : timesFired[n] = 0 /\ AllDelivered(n)
  /\ \A n \in Node \ loaded : 0 \in Groups =>
       remaining[n][0] = Cardinality(Undelivered(n))
  /\ \A n \in Node : phase[n] # "idle" => timesFired[n] = 1 /\ n \notin loaded
  /\ \A n \in loaded : timesFired[n] = 1

\* What the completion log says of the nodes and of the edges they fired.
LogInv ==
  /\ \A n \in Node : completed[n] \in {0, 1}
  /\ \A n \in Node : completed[n] = 1 =>
       timesFired[n] = 1 /\ phase[n] \notin {"body", "record"}
  /\ \A n \in loaded : completed[n] = 1
  /\ \A e \in edgeFires : /\ From[e] \notin loaded
                           /\ completed[From[e]] = 1
                           /\ phase[From[e]] # "fanout"
  /\ \A n \in Node : phase[n] = "fanout" /\ ~cancelled => completed[n] = 1
  /\ \A n \in Node : phase[n] = "checkpoint" /\ (inner \/ ~cancelled) =>
       completed[n] = 1
  /\ \A n \in Node : phase[n] \in {"record", "fanout", "checkpoint"} => n \in data[n]

\* The checkpoint is a cut, and lists each node once.
FileInv ==
  /\ CheckpointIsCut
  /\ checkpoint # None => \A n \in Node : checkpoint.completed[n] \in {0, 1}

FanInInv == FiringInv /\ LogInv /\ FileInv

LEMMA FanInInit == PureFanIn /\ Init => FanInInv
<1> SUFFICES ASSUME PureFanIn, Init PROVE FanInInv
  OBVIOUS
<1>1. \A n \in Node : Undelivered(n) = In(n, 0)
  BY Zenon DEF Init, Undelivered, Delivered, In
<1>2. \A n \in EntryNodeIds : AllDelivered(n)
  BY Zenon DEF PureFanIn, EntryNodeIds, In, AllDelivered
<1>3. \A n \in Node : 0 \in Groups => remaining[n][0] = Cardinality(In(n, 0))
  BY Zenon DEF Init, Baseline
<1>4. EntryNodeIds \subseteq Node
  BY Zenon DEF EntryNodeIds
<1>5. FiringInv
  BY <1>1, <1>2, <1>3, <1>4 DEF Init, FiringInv
<1>6. LogInv
  BY Zenon DEF Init, LogInv
<1>7. FileInv
  BY Zenon DEF Init, FileInv, CheckpointIsCut
<1> QED
  BY <1>5, <1>6, <1>7, Zenon DEF FanInInv

\* Only loaded and edgeFires matter for what has been delivered.
LEMMA SameDelivered ==
  UNCHANGED <<loaded, edgeFires>> =>
    \A n \in Node : /\ AllDelivered(n)' <=> AllDelivered(n)
                    /\ Undelivered(n)' = Undelivered(n)
BY Zenon DEF AllDelivered, Undelivered, Delivered, In

LEMMA UndeliveredFinite ==
  \A n \in Node : IsFiniteSet(Undelivered(n)) /\ Cardinality(Undelivered(n)) \in Nat
BY EdgeSetFinite, Zenon DEF Undelivered, In

\* What the drain loop collects has not fired and has all its inputs.
LEMMA ReadyIsDelivered ==
  ASSUME PureFanIn, TypeOK, FiringInv, NEW n \in Ready
  PROVE  timesFired[n] = 0 /\ AllDelivered(n)
<1>1. n \in Node /\ timesFired[n] = 0 /\ n \notin loaded
  BY Zenon DEF Ready, FiringInv
<1>2. ASSUME NEW e \in Edge, To[e] = n PROVE Delivered(e)
  <2>1. Group[e] = 0 /\ Cond[e] = "ALL" /\ 0 \in Groups /\ e \in In(n, 0)
    BY <1>2, Zenon DEF PureFanIn, Groups, In
  <2>2. remaining[n][0] <= 0
    BY <1>2, <2>1 DEF Ready, NodeReady
  <2>3. Cardinality(Undelivered(n)) = 0
    BY <1>1, <2>1, <2>2, UndeliveredFinite DEF FiringInv
  <2>4. Undelivered(n) = {}
    BY <1>1, <2>3, UndeliveredFinite, FS_EmptySet, Zenon
  <2> QED
    BY <2>1, <2>4, Zenon DEF Undelivered
<1> QED
  BY <1>1, <1>2, Zenon DEF AllDelivered

\* What the steps below need of TypeOK.
LEMMA FrameTypes ==
  TypeOK => /\ next \subseteq Node /\ edgeFires \subseteq Edge
            /\ DOMAIN phase = Node /\ DOMAIN data = Node
            /\ DOMAIN timesFired = Node /\ DOMAIN pending = Node
            /\ DOMAIN completed = Node
BY Zenon DEF TypeOK

\* Most steps only move a coroutine on and deliver nothing.
LEMMA FiringFrame ==
  ASSUME TypeOK, FiringInv, UNCHANGED <<pending, remaining, timesFired, loaded, edgeFires>>,
         next' \subseteq next,
         \A m \in Node : phase'[m] # "idle" => phase[m] # "idle"
  PROVE  FiringInv'
<1>1. \A m \in Node : AllDelivered(m)' <=> AllDelivered(m)
  BY SameDelivered, Zenon
<1>2. \A m \in Node : Undelivered(m)' = Undelivered(m)
  BY SameDelivered, Zenon
<1>3. next \subseteq Node
  BY FrameTypes, Zenon
<1> QED
  BY <1>1, <1>2, <1>3, Zenon DEF FiringInv

LEMMA LogFrame ==
  ASSUME TypeOK, LogInv, UNCHANGED <<completed, loaded, edgeFires, inner>>,
         cancelled => cancelled',
         \A m \in Node : completed[m] = 1 => timesFired'[m] = timesFired[m],
         \A m \in Node :
           \/ phase'[m] = phase[m] /\ data'[m] = data[m]
           \/ phase'[m] \in {"retire", "idle"}
           \/ phase'[m] = "body" /\ completed[m] # 1
           \/ phase'[m] = "record" /\ phase[m] = "body" /\ m \in data'[m]
           \/ phase'[m] = "checkpoint" /\ phase[m] = "fanout" /\ data'[m] = data[m]
              /\ cancelled /\ ~inner
  PROVE  LogInv'
<1>1. \A e \in edgeFires : From[e] \in Node
  BY FrameTypes, GraphAssumption, Zenon DEF EndpointsKnown
<1>2. \A e \in edgeFires : phase'[From[e]] # "fanout"
  BY <1>1, Zenon DEF LogInv
<1>3. \A m \in Node : completed[m] = 1 =>
         timesFired'[m] = 1 /\ phase'[m] \notin {"body", "record"}
  BY Zenon DEF LogInv
<1>4. \A m \in Node : phase'[m] = "fanout" /\ ~cancelled' => completed[m] = 1
  BY Zenon DEF LogInv
<1>5. \A m \in Node : phase'[m] = "checkpoint" /\ (inner \/ ~cancelled') => completed[m] = 1
  BY Zenon DEF LogInv
<1>6. \A m \in Node : phase'[m] \in {"record", "fanout", "checkpoint"} => m \in data'[m]
  BY Zenon DEF LogInv
<1> QED
  BY <1>2, <1>3, <1>4, <1>5, <1>6, Zenon DEF LogInv

LEMMA FileFrame == FileInv /\ checkpoint' = checkpoint => FileInv'
BY Zenon DEF FileInv, CheckpointIsCut, Done

\* Steps of the scheduler.
LEMMA FanInScheduler == PureFanIn /\ TypeOK /\ FanInInv /\ Scheduler => FanInInv'
<1> SUFFICES ASSUME PureFanIn, TypeOK, FiringInv, LogInv, FileInv, Scheduler
             PROVE  FiringInv' /\ LogInv' /\ FileInv'
  BY Zenon DEF FanInInv
<1> USE DEF activation, coroutine, outcome, process
<1>1. CASE Drain
  <2>1. /\ UNCHANGED <<pending, remaining, timesFired, phase, data, loaded, edgeFires,
                       completed, inner, cancelled, checkpoint>>
        /\ next' = Ready
    BY <1>1, Zenon DEF Drain
  <2>2. \A n \in next' : timesFired[n] = 0 /\ AllDelivered(n) /\ n \in Node
    BY <2>1, ReadyIsDelivered, Zenon DEF Ready
  <2>3. \A m \in Node : /\ AllDelivered(m)' <=> AllDelivered(m)
                        /\ Undelivered(m)' = Undelivered(m)
    BY <2>1, SameDelivered, Zenon
  <2>4. FiringInv'
    BY <2>1, <2>2, <2>3, Zenon DEF FiringInv
  <2> QED
    BY <2>1, <2>4, LogFrame, FileFrame, Zenon
<1>2. CASE Await \/ Wake \/ Finish
  <2>1. UNCHANGED <<pending, remaining, timesFired, phase, data, next, loaded, edgeFires,
                    completed, inner, cancelled, checkpoint>>
    BY <1>2, Zenon DEF Await, Wake, Finish
  <2> QED
    BY <2>1, FiringFrame, LogFrame, FileFrame, Zenon
<1>3. ASSUME NEW n \in Node, Launch(n) PROVE FiringInv' /\ LogInv' /\ FileInv'
  <2>1. timesFired[n] = 0 /\ AllDelivered(n) /\ n \notin loaded /\ completed[n] # 1
    BY <1>3, SMTT(30) DEF Launch, FiringInv, LogInv
  <2>2. /\ timesFired' = [timesFired EXCEPT ![n] = timesFired[n] + 1]
        /\ phase' = [phase EXCEPT ![n] = "body"]
        /\ pending' = [pending EXCEPT ![n] = None]
        /\ next' = next \ {n}
        /\ \A m \in Node \ {n} : data'[m] = data[m]
        /\ UNCHANGED <<loaded, edgeFires, completed, inner, cancelled, checkpoint>>
    BY <1>3, FrameTypes, Zenon DEF Launch
  <2>3. /\ \A m \in Node : timesFired'[m] = IF m = n THEN 1 ELSE timesFired[m]
        /\ \A m \in Node : phase'[m] = IF m = n THEN "body" ELSE phase[m]
        /\ \A m \in Node : pending'[m] = IF m = n THEN None ELSE pending[m]
    BY <2>1, <2>2, FrameTypes
  <2>4. 0 \in Groups => \A m \in Node : remaining'[m][0] = remaining[m][0]
    BY <1>3, Zenon DEF Launch, TypeOK
  <2>5. \A m \in Node : /\ AllDelivered(m)' <=> AllDelivered(m)
                        /\ Undelivered(m)' = Undelivered(m)
    BY <2>2, SameDelivered, Zenon
  <2>6. FiringInv'
    BY <2>1, <2>2, <2>3, <2>4, <2>5, FrameTypes, SMTT(30) DEF FiringInv
  <2>7. LogInv'
    BY <2>1, <2>2, <2>3, LogFrame, SMTT(30)
  <2> QED
    BY <2>2, <2>6, <2>7, FileFrame, Zenon
<1> QED
  BY <1>1, <1>2, <1>3, Zenon DEF Scheduler

\* Fan-out: the counters of the targets follow the edges that deliver.
LEMMA FanInDeliver ==
  ASSUME PureFanIn, TypeOK, FiringInv, LogInv, FileInv, NEW n \in Node, FanOut(n), ~cancelled
  PROVE  FiringInv' /\ LogInv' /\ FileInv'
<1>1. /\ phase[n] = "fanout" /\ Deliver(n)
      /\ phase' = [phase EXCEPT ![n] = "checkpoint"]
      /\ UNCHANGED <<data, cancelled, completed, checkpoint, next, loaded, inner, timesFired>>
  BY Zenon DEF FanOut, Deliver, scheduler, process
<1>2. timesFired[n] = 1 /\ n \notin loaded /\ completed[n] = 1
  BY <1>1, Zenon DEF FiringInv, LogInv
<1>3. \A e \in Out(n) : ~Delivered(e)
  BY <1>1, <1>2, Zenon DEF Out, Delivered, LogInv
<1>4. \A e \in Edge : Delivered(e)' <=> Delivered(e) \/ e \in Out(n)
  BY <1>1, Zenon DEF Deliver, Delivered
<1>5. \A m \in Node : AllDelivered(m) => AllDelivered(m)'
  BY <1>4, Zenon DEF AllDelivered
<1>6. \A e \in Out(n) : timesFired[To[e]] = 0 /\ To[e] \in Node
  BY <1>3, GraphAssumption, Zenon DEF FiringInv, AllDelivered, Out, EndpointsKnown
<1>7. ASSUME NEW m \in Node \ loaded, 0 \in Groups
      PROVE  remaining'[m][0] = Cardinality(Undelivered(m)')
  <2> DEFINE D == {e \in Between(n, m, 0) : Cond[e] = "ALL"}
  <2>1. Undelivered(m)' = Undelivered(m) \ Out(n)
    BY <1>4, Zenon DEF Undelivered, In
  <2>2. Undelivered(m) \cap Out(n) = D
    BY <1>3, Zenon DEF Undelivered, In, Between, Out, PureFanIn
  <2>3. Cardinality(Undelivered(m) \ Out(n))
          = Cardinality(Undelivered(m)) - Cardinality(Undelivered(m) \cap Out(n))
    BY <1>7, UndeliveredFinite, FS_Difference, Zenon
  <2>4. remaining'[m][0] = remaining[m][0] - Cardinality(D)
    BY <1>1, <1>7, Zenon DEF Deliver
  <2>5. remaining[m][0] = Cardinality(Undelivered(m))
    BY <1>7, Zenon DEF FiringInv
  <2> QED
    BY <2>1, <2>2, <2>3, <2>4, <2>5, Zenon
<1>8. \A m \in Node : timesFired[m] = 1 => pending'[m] = pending[m]
  BY <1>1, <1>6, SMTT(30) DEF Deliver
<1>9. FiringInv'
  <2>1. \A m \in Node : timesFired'[m] = 1 => pending'[m] = None /\ AllDelivered(m)'
    BY <1>1, <1>5, <1>8, Zenon DEF FiringInv
  <2>2. \A m \in next' : timesFired'[m] = 0 /\ AllDelivered(m)'
    BY <1>1, <1>5, FrameTypes, Zenon DEF FiringInv
  <2>3. \A m \in Node : phase'[m] # "idle" => timesFired'[m] = 1 /\ m \notin loaded'
    BY <1>1, <1>2, FrameTypes, Zenon DEF FiringInv
  <2> QED
    BY <1>1, <1>7, <2>1, <2>2, <2>3, Zenon DEF FiringInv
<1>10. LogInv'
  <2>1. \A m \in Node : phase'[m] = IF m = n THEN "checkpoint" ELSE phase[m]
    BY <1>1, FrameTypes, Zenon
  <2>2. edgeFires' = edgeFires \cup Out(n) /\ \A e \in Out(n) : From[e] = n
    BY <1>1, Zenon DEF Deliver, Out
  <2>3. \A e \in edgeFires : From[e] \in Node
    BY FrameTypes, GraphAssumption, Zenon DEF EndpointsKnown
  <2>4. \A e \in edgeFires' : /\ From[e] \notin loaded'
                              /\ completed'[From[e]] = 1
                              /\ phase'[From[e]] # "fanout"
    BY <1>1, <1>2, <2>1, <2>2, <2>3, SMTT(30) DEF LogInv
  <2> QED
    BY <1>1, <1>2, <2>1, <2>4, SMTT(30) DEF LogInv
<1> QED
  BY <1>1, <1>9, <1>10, FileFrame, Zenon

\* The checkpoint hook writes a cut.
LEMMA FanInWrite ==
  ASSUME TypeOK, FiringInv, LogInv, FileInv, NEW n \in Node, WriteCheckpoint(n)
  PROVE  FiringInv' /\ LogInv' /\ FileInv'
<1>1. /\ phase[n] = "checkpoint"
      /\ phase' = [phase EXCEPT ![n] = "retire"]
      /\ UNCHANGED <<pending, remaining, timesFired, next, loaded, edgeFires, data,
                     completed, inner, cancelled>>
  BY Zenon DEF WriteCheckpoint, activation, scheduler, outcome, process
<1>2. \A m \in Node : phase'[m] = IF m = n THEN "retire" ELSE phase[m]
  BY <1>1, FrameTypes, Zenon
<1>3. FiringInv'
  BY <1>1, <1>2, FiringFrame, Zenon
<1>4. LogInv'
  BY <1>1, <1>2, LogFrame, Zenon
<1>5. CASE checkpoint' # checkpoint
  <2>1. checkpoint' = [completed |-> completed, state |-> data[n]] /\ (inner \/ ~cancelled)
    BY <1>5, Zenon DEF WriteCheckpoint
  <2>2. completed[n] = 1 /\ n \in data[n]
    BY <1>1, <2>1, Zenon DEF LogInv
  <2>3. Done(checkpoint)' = {m \in Node : completed[m] = 1}
    BY <2>1, SMTT(30) DEF Done, LogInv
  <2>4. \A m \in Node : completed[m] = 1 =>
          \A e \in Edge : To[e] = m => completed[From[e]] = 1
    BY Zenon DEF LogInv, FiringInv, AllDelivered, Delivered
  <2>5. \A m \in Done(checkpoint)' : Preds(m) \subseteq Done(checkpoint)'
    BY <2>3, <2>4, GraphAssumption, Zenon DEF Preds, EndpointsKnown
  <2>6. FileInv'
    BY <2>1, <2>2, <2>3, <2>5, Zenon DEF FileInv, CheckpointIsCut, LogInv
  <2> QED
    BY <1>3, <1>4, <2>6, Zenon
<1> QED
  BY <1>3, <1>4, <1>5, FileFrame, Zenon

\* Steps of a node coroutine.
LEMMA FanInNode ==
  ASSUME NEW n \in Node
  PROVE  PureFanIn /\ TypeOK /\ FanInInv /\ NodeStep(n) => FanInInv'
<1> SUFFICES ASSUME PureFanIn, TypeOK, FiringInv, LogInv, FileInv, NodeStep(n)
             PROVE  FiringInv' /\ LogInv' /\ FileInv'
  BY Zenon DEF FanInInv
<1> DEFINE Quiet == UNCHANGED <<pending, remaining, timesFired, next, loaded, edgeFires,
                                inner, checkpoint>>
<1> USE DEF activation, scheduler, outcome, process
<1>1. CASE BodyReturns(n) \/ BodyThrows(n) \/ Retire(n) \/ (FanOut(n) /\ cancelled)
  <2>1. Quiet /\ UNCHANGED <<completed, cancelled>> /\ phase[n] # "idle"
    BY <1>1, Zenon DEF BodyReturns, BodyThrows, Retire, FanOut, AtBody
  <2>2. \A m \in Node \ {n} : phase'[m] = phase[m] /\ data'[m] = data[m]
    BY <1>1, FrameTypes, Zenon DEF BodyReturns, BodyThrows, Retire, FanOut
  <2>3. \/ phase'[n] \in {"retire", "idle"}
        \/ phase'[n] = "record" /\ phase[n] = "body" /\ n \in data'[n]
        \/ phase'[n] = "checkpoint" /\ phase[n] = "fanout" /\ data'[n] = data[n]
           /\ cancelled /\ ~inner
    BY <1>1, FrameTypes, SMTT(30) DEF BodyReturns, BodyThrows, Retire, FanOut, AtBody
  <2> HIDE DEF activation, scheduler, outcome, process
  <2>4. FiringInv'
    BY <2>1, <2>2, FiringFrame, Zenon
  <2>5. LogInv'
    BY <2>1, <2>2, <2>3, LogFrame, Zenon
  <2> QED
    BY <2>1, <2>4, <2>5, FileFrame, Zenon
<1>2. CASE Record(n)
  <2>1. /\ Quiet /\ UNCHANGED <<data, cancelled>> /\ phase[n] = "record"
        /\ phase' = [phase EXCEPT ![n] = "fanout"]
        /\ completed' = IF cancelled THEN completed
                        ELSE [completed EXCEPT ![n] = completed[n] + 1]
    BY <1>2, Zenon DEF Record
  <2>2. \A m \in Node : phase'[m] = IF m = n THEN "fanout" ELSE phase[m]
    BY <2>1, FrameTypes, Zenon
  <2>3. timesFired[n] = 1 /\ n \notin loaded /\ completed[n] = 0
    BY <2>1, Zenon DEF FiringInv, LogInv
  <2>4. \A m \in Node : completed'[m] = IF m = n /\ ~cancelled THEN 1 ELSE completed[m]
    BY <2>1, <2>3, FrameTypes
  <2>5. \A e \in edgeFires : From[e] # n /\ From[e] \in Node
    BY <2>3, FrameTypes, GraphAssumption, SMTT(30) DEF LogInv, EndpointsKnown
  <2>6. \A m \in loaded : m \in Node
    BY Zenon DEF TypeOK
  <2> HIDE DEF activation, scheduler, outcome, process
  <2>7. FiringInv'
    BY <2>1, <2>2, FiringFrame, Zenon
  <2>8. LogInv'
    BY <2>1, <2>2, <2>3, <2>4, <2>5, <2>6, SMTT(30) DEF LogInv
  <2> QED
    BY <2>1, <2>7, <2>8, FileFrame, Zenon
<1>3. CASE FanOut(n) /\ ~cancelled
  BY <1>3, FanInDeliver, Zenon
<1>4. CASE WriteCheckpoint(n)
  BY <1>4, FanInWrite, Zenon
<1> QED
  BY <1>1, <1>2, <1>3, <1>4, Zenon DEF NodeStep, AfterBody

\* When the log lists each node once, Resume decrements a counter once for every
\* edge out of a completed node.
LEMMA DecrementsCount ==
  ASSUME PureFanIn, NEW m \in Node, NEW cp,
         cp \in [completed : [Node -> Nat], state : Lineage],
         \A k \in Node : cp.completed[k] \in {0, 1}, m \notin Done(cp)
  PROVE  LET S == {e \in In(m, 0) : From[e] \in Done(cp)}
         IN  Cardinality(Decrements(cp, m, 0)) = Cardinality(S)
<1> DEFINE S == {e \in In(m, 0) : From[e] \in Done(cp)}
           T == {<<e, 1>> : e \in S}
           f == [e \in S |-> <<e, 1>>]
<1>1. {d \in Seeding(cp, m) : Group[d] = 0 /\ Cond[d] = "ALL"} = S
  BY Zenon DEF PureFanIn, Seeding, In
<1>2. \A e \in S : cp.completed[From[e]] = 1
  BY DEF Done
<1>3. Decrements(cp, m, 0) = UNION {{e} \X (1 .. 1) : e \in S}
  <2>1. Decrements(cp, m, 0) = UNION {{e} \X (1 .. cp.completed[From[e]]) : e \in S}
    BY <1>1, Zenon DEF Decrements
  <2> HIDE DEF S
  <2> QED
    BY <1>2, <2>1
<1>4. UNION {{e} \X (1 .. 1) : e \in S} = T
  <2> HIDE DEF S
  <2>1. 1 .. 1 = {1}
    OBVIOUS
  <2>2. \A e : {e} \X {1} = {<<e, 1>>}
    OBVIOUS
  <2>3. UNION {{<<e, 1>>} : e \in S} = T
    OBVIOUS
  <2> QED
    BY <2>1, <2>2, <2>3
<1>5. f \in Bijection(S, T)
  <2> HIDE DEF S
  <2>1. f \in [S -> T] /\ \A e \in S : f[e] = <<e, 1>>
    BY Zenon
  <2>2. \A d, e \in S : f[d] = f[e] => d = e
    BY <2>1, Zenon
  <2>3. \A t \in T : \E e \in S : f[e] = t
    BY <2>1, Zenon
  <2> HIDE DEF f, T
  <2> QED
    BY <2>1, <2>2, <2>3, Zenon DEF Bijection, Injection, IsInjective, Surjection
<1>6. IsFiniteSet(S)
  BY EdgeSetFinite, Zenon DEF In
<1> HIDE DEF S, T, f
<1>7. ExistsBijection(S, T)
  BY <1>5, Zenon DEF ExistsBijection
<1>8. Cardinality(T) = Cardinality(S)
  BY <1>6, <1>7, FS_Bijection, Zenon
<1> QED
  BY <1>3, <1>4, <1>8, Zenon DEF S

\* Resume from a cut restores the firing invariant.
LEMMA FanInResume == PureFanIn /\ TypeOK /\ FanInInv /\ Resume => FanInInv'
<1> SUFFICES ASSUME PureFanIn, TypeOK, FiringInv, LogInv, FileInv, Resume
             PROVE  FiringInv' /\ LogInv' /\ FileInv'
  BY Zenon DEF FanInInv
<1> DEFINE done == Done(checkpoint)
<1>1. /\ checkpoint \in [completed : [Node -> Nat], state : Lineage]
      /\ \A n \in Node : checkpoint.completed[n] \in {0, 1}
      /\ \A n \in done : Preds(n) \subseteq done
  BY Zenon DEF TypeOK, Resume, FileInv, CheckpointIsCut
<1>2. /\ loaded' = done /\ edgeFires' = {} /\ next' = {} /\ checkpoint' = checkpoint
      /\ completed' = checkpoint.completed
      /\ timesFired' = [n \in Node |-> IF n \in done THEN 1 ELSE 0]
      /\ phase' = [n \in Node |-> "idle"]
      /\ pending' = [n \in Node |-> SeededInput(checkpoint, n)]
  BY Zenon DEF Resume, FreshRunner, ReplayedLog
<1>3. done \subseteq Node /\ \A n \in Node : n \in done <=> checkpoint.completed[n] = 1
  BY <1>1 DEF Done
<1>4. \A e \in Edge : Delivered(e)' <=> From[e] \in done
  BY <1>2, Zenon DEF Delivered
<1>5. \A n \in done : AllDelivered(n)' /\ pending'[n] = None
  <2>1. \A n \in done : AllDelivered(n)'
    BY <1>1, <1>4, Zenon DEF AllDelivered, Preds
  <2>2. \A n \in done : Seeding(checkpoint, n) = {}
    BY Zenon DEF Seeding
  <2> QED
    BY <1>2, <1>3, <2>1, <2>2, Zenon DEF SeededInput
<1>6. ASSUME NEW m \in Node \ done, 0 \in Groups
      PROVE  remaining'[m][0] = Cardinality(Undelivered(m)')
  <2> DEFINE S == {e \in In(m, 0) : From[e] \in done}
  <2>1. remaining'[m][0] = Cardinality(In(m, 0)) - Cardinality(Decrements(checkpoint, m, 0))
    BY <1>6, Zenon DEF Resume, Baseline
  <2>2. Cardinality(Decrements(checkpoint, m, 0)) = Cardinality(S)
    BY <1>1, <1>6, DecrementsCount, Zenon
  <2>3. Undelivered(m)' = In(m, 0) \ S
    BY <1>4, Zenon DEF Undelivered, In
  <2>4. In(m, 0) \cap S = S
    BY Zenon
  <2>5. IsFiniteSet(In(m, 0))
    BY EdgeSetFinite, Zenon DEF In
  <2> HIDE DEF S
  <2>6. Cardinality(In(m, 0) \ S) = Cardinality(In(m, 0)) - Cardinality(In(m, 0) \cap S)
    BY <2>5, FS_Difference, Zenon
  <2> QED
    BY <2>1, <2>2, <2>3, <2>4, <2>6, Zenon
<1> HIDE DEF done
<1>7. FiringInv'
  <2>1. \A n \in Node : timesFired'[n] = IF n \in done THEN 1 ELSE 0
    BY <1>2, Zenon
  <2>2. \A n \in Node : /\ timesFired'[n] \in {0, 1}
                        /\ timesFired'[n] = 1 => n \in done
    BY <2>1
  <2>3. \A n \in Node : timesFired'[n] = 1 => pending'[n] = None /\ AllDelivered(n)'
    BY <2>2, <1>5, Zenon
  <2>4. \A n \in Node \ loaded' : 0 \in Groups =>
           remaining'[n][0] = Cardinality(Undelivered(n)')
    BY <1>2, <1>6, Zenon
  <2>5. \A n \in loaded' : timesFired'[n] = 1
    BY <1>2, <1>3, <2>1, Zenon
  <2>6. \A n \in Node : phase'[n] = "idle"
    BY <1>2, Zenon
  <2>7. next' = {}
    BY <1>2, Zenon
  <2> QED
    BY <2>2, <2>3, <2>4, <2>5, <2>6, <2>7, Zenon DEF FiringInv
<1>8. LogInv'
  BY <1>1, <1>2, <1>3, Zenon DEF LogInv
<1>9. FileInv'
  BY <1>2, Zenon DEF FileInv, CheckpointIsCut, Done
<1> QED
  BY <1>7, <1>8, <1>9, Zenon

\* Steps of the environment.
LEMMA FanInEnvironment == PureFanIn /\ TypeOK /\ FanInInv /\ Environment => FanInInv'
<1> SUFFICES ASSUME PureFanIn, TypeOK, FiringInv, LogInv, FileInv, Environment
             PROVE  FiringInv' /\ LogInv' /\ FileInv'
  BY Zenon DEF FanInInv
<1>1. CASE Cancel \/ Crash
  <2>1. /\ UNCHANGED <<pending, remaining, timesFired, loaded, edgeFires, completed,
                       inner, checkpoint>>
        /\ next' \subseteq next
        /\ cancelled => cancelled'
    BY <1>1, SMTT(30) DEF Cancel, Crash, activation, scheduler, outcome, process
  <2>2. \A m \in Node : \/ phase'[m] = phase[m] /\ data'[m] = data[m]
                        \/ phase'[m] = "idle"
    BY <1>1, Zenon DEF Cancel, Crash, coroutine
  <2>3. FiringInv'
    BY <2>1, <2>2, FiringFrame, Zenon
  <2>4. LogInv'
    BY <2>1, <2>2, LogFrame, Zenon
  <2> QED
    BY <2>1, <2>3, <2>4, FileFrame, Zenon
<1>2. CASE RestartEmpty
  <2>1. /\ loaded' = {} /\ edgeFires' = {} /\ checkpoint' = None
        /\ next' \subseteq EntryNodeIds
        /\ completed' = [n \in Node |-> 0] /\ timesFired' = [n \in Node |-> 0]
        /\ phase' = [n \in Node |-> "idle"]
        /\ remaining' = Baseline
    BY <1>2, Zenon DEF RestartEmpty, FreshRunner, SeedEntries
  <2>2. \A n \in Node : Undelivered(n)' = In(n, 0)
    BY <2>1, Zenon DEF Undelivered, Delivered, In
  <2>3. \A n \in EntryNodeIds : n \in Node /\ AllDelivered(n)'
    BY Zenon DEF PureFanIn, EntryNodeIds, In, AllDelivered
  <2>4. \A n \in Node : 0 \in Groups => remaining'[n][0] = Cardinality(In(n, 0))
    BY <2>1, Zenon DEF Baseline
  <2>5. FiringInv'
    BY <2>1, <2>2, <2>3, <2>4, SMTT(30) DEF FiringInv
  <2>6. LogInv'
    BY <2>1, Zenon DEF LogInv
  <2>7. FileInv'
    BY <2>1, Zenon DEF FileInv, CheckpointIsCut
  <2> QED
    BY <2>5, <2>6, <2>7, Zenon
<1>3. CASE Resume
  BY <1>3, FanInResume, Zenon DEF FanInInv
<1> QED
  BY <1>1, <1>2, <1>3, Zenon DEF Environment

LEMMA FanInStep == PureFanIn /\ TypeOK /\ FanInInv /\ [Next]_vars => FanInInv'
<1> SUFFICES ASSUME PureFanIn, TypeOK, FanInInv, [Next]_vars PROVE FanInInv'
  OBVIOUS
<1>1. CASE UNCHANGED vars
  <2>1. UNCHANGED <<pending, remaining, timesFired, phase, data, next, loaded, edgeFires,
                    completed, inner, cancelled, checkpoint>>
    BY <1>1, Zenon DEF vars, activation, coroutine, scheduler, outcome, process
  <2> QED
    BY <2>1, FiringFrame, LogFrame, FileFrame, Zenon DEF FanInInv
<1> QED
  BY <1>1, FanInScheduler, FanInNode, FanInEnvironment, Zenon DEF Next, Terminated

LEMMA FanInAlways == PureFanIn /\ Spec => []FanInInv
<1> SUFFICES ASSUME PureFanIn PROVE Spec => []FanInInv
  OBVIOUS
<1>1. Init => FanInInv
  BY FanInInit, Zenon
<1>2. TypeOK /\ FanInInv /\ [Next]_vars => FanInInv'
  BY FanInStep, Zenon
<1> QED
  BY <1>1, <1>2, TypeCorrect, PTL DEF Spec

\* For every graph of ALL edges without cycle groups, whatever is cancelled,
\* fails or crashes: a node is launched only when every one of its edges has
\* delivered, at most once per run, and never when the checkpoint the run
\* resumed from lists it (NodeReady and launch, runner.cc:142-193; the fan-out,
\* 231-250; Resume, 337-415).
THEOREM FanIn == PureFanIn /\ Spec => [](JoinWaitsForAll /\ FiresOnce)
<1>1. FanInInv => JoinWaitsForAll /\ FiresOnce
  <2> SUFFICES ASSUME FanInInv PROVE JoinWaitsForAll /\ FiresOnce
    OBVIOUS
  <2>1. \A n \in InFlight : n \in Node /\ timesFired[n] = 1 /\ n \notin loaded
    BY Zenon DEF FanInInv, FiringInv, InFlight
  <2>2. \A n \in Node : timesFired[n] = 1 => AllDelivered(n)
    BY Zenon DEF FanInInv, FiringInv
  <2>3. JoinWaitsForAll
    BY <2>1, <2>2, Zenon DEF JoinWaitsForAll, AllDelivered, In
  <2>4. \A n \in Node : timesFired[n] \in {0, 1}
    BY Zenon DEF FanInInv, FiringInv
  <2>5. FiresOnce
    BY <2>1, <2>4, SMTT(30) DEF FiresOnce
  <2> QED
    BY <2>3, <2>5, Zenon
<1> QED
  BY <1>1, FanInAlways, PTL

\* In such a graph every checkpoint that reaches the disk is a consistent cut:
\* it lists all predecessors of what it lists, and its State was produced by a
\* node it lists (the checkpoint hook, runner.cc:94-119).
THEOREM CheckpointsAreCuts == PureFanIn /\ Spec => []CheckpointIsCut
<1>1. FanInInv => CheckpointIsCut
  BY Zenon DEF FanInInv, FileInv
<1> QED
  BY <1>1, FanInAlways, PTL

-----------------------------------------------------------------------------
(* The result *)

HasTerminal(lineage) == \E n \in lineage : n \in Node /\ IsTerminal(n)

\* Nodes that have their inputs wait for the drain loop, nodes that fired are
\* logged or the run is cancelled or failed.
ProgressInv ==
  /\ \A n \in Node : timesFired[n] = 0 /\ AllDelivered(n) => pending[n] # None
  /\ \A n \in Node : timesFired[n] = 1 =>
       \/ completed[n] = 1 \/ phase[n] \in {"body", "record"}
       \/ cancelled \/ firstError # NoNode \/ schedPc = "down"
  /\ \A n \in loaded : Preds(n) \subseteq loaded

\* The terminal state and the one in the file stem from terminal nodes.
TerminalInv ==
  /\ \A n \in Node \ loaded : IsTerminal(n) /\ completed[n] = 1 =>
       terminal # None \/ phase[n] = "fanout" \/ cancelled \/ schedPc = "down"
  /\ loaded = Node => terminal # None
  /\ terminal # None => HasTerminal(terminal)
  /\ \A n \in Node : phase[n] = "checkpoint" => \A e \in Out(n) : timesFired[To[e]] = 0
  /\ checkpoint # None /\ Done(checkpoint) = Node => HasTerminal(checkpoint.state)

ResultInv == ProgressInv /\ TerminalInv /\ ReturnMeansDone

\* One node without incoming edges; a checkpoint of such a graph lists it.
SingleEntry == \E r \in Node : EntryNodeIds = {r}

LEMMA EntryIsDone ==
  ASSUME PureFanIn, Acyclic, SingleEntry, NEW D \in SUBSET Node, D # {},
         \A n \in D : Preds(n) \subseteq D
  PROVE  EntryNodeIds \subseteq D
<1>1. PICK n \in D : Preds(n) \cap D = {}
  BY Zenon DEF Acyclic
<1>2. Preds(n) = {}
  BY <1>1, Zenon
<1>3. In(n, 0) = {}
  BY <1>2, Zenon DEF Preds, In
<1>4. n \in EntryNodeIds
  BY <1>3, Zenon DEF EntryNodeIds
<1> QED
  BY <1>4, Zenon DEF SingleEntry

\* The last node of a set that is closed under successors is terminal.
LEMMA LastIsTerminal ==
  ASSUME Acyclic, NEW D \in SUBSET Node, D # Node, \A n \in D : Preds(n) \subseteq D
  PROVE  \E n \in Node \ D : IsTerminal(n)
<1>1. PICK n \in Node \ D : \A e \in Out(n) : To[e] \notin Node \ D
  BY Zenon DEF Acyclic
<1>2. ASSUME NEW e \in Out(n) PROVE FALSE
  <2>1. To[e] \in D /\ e \in Edge /\ From[e] = n
    BY <1>1, GraphAssumption, Zenon DEF Out, EndpointsKnown
  <2>2. From[e] \in Preds(To[e])
    BY <2>1, Zenon DEF Preds
  <2> QED
    BY <2>1, <2>2, Zenon
<1> QED
  BY <1>2, Zenon DEF IsTerminal

LEMMA LineageNotNone == \A S \in Lineage : S # None
BY RunnerAssumption, Zenon DEF Lineage

LEMMA ProgressFrame ==
  ASSUME ProgressInv, UNCHANGED <<pending, timesFired, loaded, edgeFires>>,
         \A m \in Node : completed[m] = 1 => completed'[m] = 1,
         cancelled => cancelled', firstError # NoNode => firstError' # NoNode,
         schedPc = "down" => schedPc' = "down",
         \A m \in Node : phase[m] \in {"body", "record"} =>
           \/ phase'[m] \in {"body", "record"} \/ completed'[m] = 1
           \/ cancelled' \/ firstError' # NoNode \/ schedPc' = "down"
  PROVE  ProgressInv'
<1>1. \A n \in Node : AllDelivered(n)' <=> AllDelivered(n)
  BY SameDelivered, Zenon
<1> QED
  BY <1>1, Zenon DEF ProgressInv

LEMMA TerminalFrame ==
  ASSUME TypeOK, TerminalInv, UNCHANGED <<completed, loaded, terminal, checkpoint>>,
         cancelled => cancelled', schedPc = "down" => schedPc' = "down",
         \A m \in Node : phase[m] = "fanout" =>
           phase'[m] = "fanout" \/ cancelled' \/ schedPc' = "down",
         \A m \in Node : phase'[m] = "checkpoint" =>
           phase[m] = "checkpoint" /\ timesFired' = timesFired
  PROVE  TerminalInv'
<1>1. \A m \in Node \ loaded : IsTerminal(m) /\ completed[m] = 1 =>
         terminal # None \/ phase'[m] = "fanout" \/ cancelled' \/ schedPc' = "down"
  BY Zenon DEF TerminalInv
<1>2. \A m \in Node : phase'[m] = "checkpoint" => \A e \in Out(m) : timesFired'[To[e]] = 0
  BY Zenon DEF TerminalInv
<1>3. checkpoint' # None /\ Done(checkpoint') = Node => HasTerminal(checkpoint'.state)
  BY Zenon DEF TerminalInv
<1>4. loaded' = Node => terminal' # None
  BY Zenon DEF TerminalInv
<1>5. terminal' # None => HasTerminal(terminal')
  BY Zenon DEF TerminalInv
<1> QED
  BY <1>1, <1>2, <1>3, <1>4, <1>5, Zenon DEF TerminalInv, HasTerminal, Done, IsTerminal, Out

LEMMA ReturnFrame ==
  ASSUME ReturnMeansDone, schedPc' = "returned" => schedPc = "returned",
         cancelled => cancelled', \A m \in Node : completed[m] > 0 => completed'[m] > 0,
         terminal' = terminal \/ (terminal' # None /\ HasTerminal(terminal'))
  PROVE  ReturnMeansDone'
BY Zenon DEF ReturnMeansDone, HasTerminal

\* What is known of a run before the result is looked at.
RunInv == TypeOK /\ ThreadInv /\ LoggedInv /\ FanInInv

\* The heart: with nothing ready and nothing in flight, the first node in graph
\* order that is not logged would have to be ready.
LEMMA FinishComplete ==
  ASSUME PureFanIn, Acyclic, RunInv, ProgressInv, Finish, ~cancelled, firstError = NoNode
  PROVE  \A n \in Node : completed[n] = 1
<1> DEFINE S == {n \in Node : completed[n] # 1}
<1> SUFFICES ASSUME S # {} PROVE FALSE
  OBVIOUS
<1>1. PICK n \in S : Preds(n) \cap S = {}
  BY Zenon DEF Acyclic
<1>2. schedPc = "launch" /\ Ready = {} /\ \A m \in Node : phase[m] = "idle"
  BY Zenon DEF Finish, InFlight
<1>3. \A e \in Edge : To[e] = n => From[e] \in Node /\ completed[From[e]] = 1
  BY <1>1, GraphAssumption, Zenon DEF Preds, EndpointsKnown
<1>4. \A e \in Edge : To[e] = n => Delivered(e)
  BY <1>2, <1>3 DEF RunInv, LoggedInv
<1>5. AllDelivered(n) /\ n \in Node
  BY <1>4, Zenon DEF AllDelivered
<1>6. timesFired[n] = 0
  BY <1>1, <1>2, Zenon DEF RunInv, FanInInv, FiringInv, ProgressInv
<1>7. pending[n] # None
  BY <1>5, <1>6, Zenon DEF ProgressInv
<1>8. Undelivered(n) = {}
  BY <1>5, Zenon DEF Undelivered, AllDelivered, In
<1>9. n \notin loaded
  BY <1>6 DEF RunInv, FanInInv, FiringInv
<1>10. 0 \in Groups => remaining[n][0] = 0
  BY <1>5, <1>8, <1>9, FS_EmptySet, Zenon DEF RunInv, FanInInv, FiringInv
<1>11. NodeReady(n)
  BY <1>10 DEF NodeReady, PureFanIn, Groups
<1> QED
  BY <1>2, <1>5, <1>7, <1>11, Zenon DEF Ready

LEMMA ResultScheduler ==
  ASSUME PureFanIn, Acyclic, RunInv, ResultInv, Scheduler
  PROVE  ResultInv'
<1> USE DEF activation, coroutine, scheduler, outcome, process
<1>1. CASE Drain \/ Await \/ Wake \/ Finish
  <2>1. UNCHANGED <<pending, timesFired, loaded, edgeFires, completed, cancelled, firstError, phase,
                    terminal, checkpoint>>
    BY <1>1, Zenon DEF Drain, Await, Wake, Finish
  <2>2. schedPc \in {"launch", "await"}
    BY <1>1, Zenon DEF Drain, Await, Wake, Finish
  <2>3. ProgressInv'
    BY <2>1, <2>2, ProgressFrame, Zenon DEF ResultInv
  <2>4. TerminalInv'
    BY <2>1, <2>2, TerminalFrame, Zenon DEF ResultInv, RunInv
  <2>5. CASE schedPc' # "returned"
    BY <2>3, <2>4, <2>5, Zenon DEF ResultInv, ReturnMeansDone
  <2>6. CASE schedPc' = "returned"
    <3>1. Finish /\ firstError = NoNode
      BY <1>1, <2>6, Zenon DEF Drain, Await, Wake, Finish
    <3>2. ~cancelled => \A n \in Node : completed[n] = 1
      BY <3>1, FinishComplete, Zenon DEF ResultInv
    <3>3. ~cancelled => terminal # None
      <4> SUFFICES ASSUME ~cancelled, loaded # Node PROVE terminal # None
        BY Zenon DEF ResultInv, TerminalInv
      <4>1. PICK n \in Node \ loaded : IsTerminal(n)
        BY LastIsTerminal, ZenonT(30) DEF ResultInv, ProgressInv, RunInv, TypeOK
      <4>2. phase[n] = "idle" /\ schedPc = "launch"
        BY <3>1, Zenon DEF Finish, InFlight
      <4> QED
        BY <3>2, <4>1, <4>2, Zenon DEF ResultInv, TerminalInv
    <3>4. ~cancelled => HasTerminal(terminal)
      BY <3>3, Zenon DEF ResultInv, TerminalInv
    <3> QED
      BY <2>1, <2>3, <2>4, <3>2, <3>3, <3>4 DEF ResultInv, ReturnMeansDone, HasTerminal
  <2> QED
    BY <2>5, <2>6, Zenon
<1>2. ASSUME NEW n \in Node, Launch(n) PROVE ResultInv'
  <2>1. /\ UNCHANGED <<loaded, edgeFires, completed, cancelled, firstError, terminal, checkpoint, schedPc>>
        /\ schedPc = "launch" /\ running = NoNode
    BY <1>2, Zenon DEF Launch
  <2>2. \A m \in Node : phase'[m] = IF m = n THEN "body" ELSE phase[m]
    BY <1>2, OnePhase, Zenon DEF Launch, RunInv
  <2>3. \A m \in Node : m # n => pending'[m] = pending[m] /\ timesFired'[m] = timesFired[m]
    BY <1>2, Zenon DEF Launch, RunInv, TypeOK
  <2>4. timesFired'[n] # 0
    BY <1>2 DEF Launch, RunInv, TypeOK
  <2>5. \A m \in Node : AllDelivered(m)' <=> AllDelivered(m)
    BY <2>1, SameDelivered, Zenon
  <2>6. ProgressInv'
    BY <2>1, <2>2, <2>3, <2>4, <2>5, Zenon DEF ResultInv, ProgressInv
  <2>7. \A m \in Node : phase[m] \in {"idle", "body"}
    BY <2>1, RunnerAssumption, Zenon DEF RunInv, ThreadInv
  <2>8. TerminalInv'
    BY <2>1, <2>2, <2>7, TerminalFrame, Zenon DEF ResultInv, RunInv
  <2>9. ReturnMeansDone'
    BY <2>1, Zenon DEF ReturnMeansDone
  <2> QED
    BY <2>6, <2>8, <2>9, Zenon DEF ResultInv
<1> QED
  BY <1>1, <1>2, Zenon DEF Scheduler

LEMMA ResultFanOut ==
  ASSUME PureFanIn, RunInv, ResultInv, NEW n \in Node, FanOut(n)
  PROVE  ResultInv'
<1> USE DEF scheduler, process
<1>1. /\ UNCHANGED <<loaded, completed, cancelled, firstError, checkpoint, schedPc, timesFired>>
      /\ running = n /\ phase[n] = "fanout" /\ schedPc # "down"
  BY Zenon DEF FanOut, Deliver, activation, RunInv, ThreadInv
<1>2. \A m \in Node : m # n => phase'[m] = phase[m] /\ phase[m] \in {"idle", "body"}
  <2>1. \A m \in Node : m # n => phase'[m] = phase[m]
    BY Zenon DEF FanOut, RunInv, TypeOK
  <2>2. \A m \in Node : m # n => phase[m] \in {"idle", "body"}
    BY <1>1, RunnerAssumption, Zenon DEF RunInv, ThreadInv
  <2> QED
    BY <2>1, <2>2, Zenon
<1>3. phase'[n] \in {"retire", "checkpoint"}
  BY Zenon DEF FanOut, RunInv, TypeOK
<1>4. n \in data[n] /\ data[n] \in Lineage /\ data[n] # None /\ timesFired[n] = 1 /\ n \notin loaded
  BY <1>1, LineageNotNone, Zenon DEF RunInv, TypeOK, FanInInv, FiringInv, LogInv
<1>5. ASSUME NEW e \in Out(n) PROVE timesFired[To[e]] = 0 /\ To[e] \in Node
  <2>1. e \in Edge /\ From[e] = n /\ To[e] \in Node
    BY GraphAssumption, Zenon DEF Out, EndpointsKnown
  <2>2. ~Delivered(e)
    BY <1>1, <1>4, <2>1, Zenon DEF Delivered, RunInv, FanInInv, LogInv
  <2>3. ~AllDelivered(To[e])
    BY <2>1, <2>2, Zenon DEF AllDelivered
  <2> QED
    BY <2>1, <2>3, Zenon DEF RunInv, FanInInv, FiringInv
<1>6. \A m \in Node : timesFired[m] = 1 =>
        \/ completed[m] = 1 \/ phase'[m] \in {"body", "record"}
        \/ cancelled \/ firstError # NoNode \/ schedPc = "down"
  BY <1>1, <1>2, Zenon DEF ResultInv, ProgressInv
<1>7. \A m \in Node : phase'[m] = "checkpoint" => \A e \in Out(m) : timesFired'[To[e]] = 0
  BY <1>1, <1>2, <1>5, Zenon
<1>8. CASE cancelled
  <2>1. UNCHANGED <<pending, terminal, edgeFires>>
    BY <1>8, Zenon DEF FanOut, activation
  <2>2. ProgressInv'
    BY <1>1, <1>2, <1>8, <2>1, ProgressFrame, Zenon DEF ResultInv
  <2>3. TerminalInv'
    BY <1>1, <1>7, <1>8, <2>1, Zenon DEF ResultInv, TerminalInv, HasTerminal, Done, IsTerminal, Out
  <2>4. ReturnMeansDone'
    BY <1>1, <1>8, Zenon DEF ReturnMeansDone
  <2> QED
    BY <2>2, <2>3, <2>4, Zenon DEF ResultInv
<1>9. CASE ~cancelled
  <2>1. /\ edgeFires' = edgeFires \cup Out(n)
        /\ \A m \in Node : pending'[m] = IF \E e \in Out(n) : To[e] = m THEN data[n] ELSE pending[m]
        /\ terminal' = IF IsTerminal(n) THEN data[n] ELSE terminal
    BY <1>9, Zenon DEF FanOut, Deliver
  <2>2. ASSUME NEW m \in Node, timesFired[m] = 0, AllDelivered(m)' PROVE pending'[m] # None
    <3>1. CASE \E e \in Out(n) : To[e] = m
      BY <1>4, <2>1, <3>1, Zenon
    <3>2. CASE ~\E e \in Out(n) : To[e] = m
      <4>1. AllDelivered(m)
        BY <1>1, <2>1, <2>2, <3>2, Zenon DEF AllDelivered, Delivered
      <4> QED
        BY <2>1, <2>2, <3>2, <4>1, Zenon DEF ResultInv, ProgressInv
    <3> QED
      BY <3>1, <3>2, Zenon
  <2>3. ProgressInv'
    BY <1>1, <1>6, <2>2, Zenon DEF ResultInv, ProgressInv
  <2>4. IsTerminal(n) => terminal' # None /\ HasTerminal(terminal')
    BY <1>4, <2>1, Zenon DEF HasTerminal
  <2>5. ~IsTerminal(n) => terminal' = terminal
    BY <2>1, Zenon
  <2>6. terminal # None => terminal' # None
    BY <2>4, <2>5, Zenon
  <2>7. terminal' # None => HasTerminal(terminal')
    BY <2>4, <2>5, Zenon DEF ResultInv, TerminalInv
  <2>8. \A m \in Node \ loaded : IsTerminal(m) /\ completed[m] = 1 =>
          terminal' # None \/ phase'[m] = "fanout" \/ cancelled' \/ schedPc' = "down"
    BY <1>1, <1>2, <2>4, <2>6, Zenon DEF ResultInv, TerminalInv
  <2>9. loaded = Node => terminal' # None
    BY <1>4, Zenon
  <2>10. TerminalInv'
    BY <1>1, <1>7, <2>7, <2>8, <2>9, Zenon
    DEF ResultInv, TerminalInv, HasTerminal, Done, IsTerminal, Out
  <2>11. ReturnMeansDone'
    BY <1>1, <2>4, <2>5, ReturnFrame, Zenon DEF ResultInv
  <2> QED
    BY <2>3, <2>10, <2>11, Zenon DEF ResultInv
<1> QED
  BY <1>8, <1>9, Zenon

LEMMA ResultWrite ==
  ASSUME RunInv, ResultInv, NEW n \in Node, WriteCheckpoint(n)
  PROVE  ResultInv'
<1> USE DEF activation, scheduler, outcome, process
<1>1. /\ UNCHANGED <<pending, timesFired, loaded, edgeFires, completed, cancelled, firstError, data,
                     terminal, schedPc, inner>>
      /\ phase[n] = "checkpoint"
  BY Zenon DEF WriteCheckpoint
<1>2. \A m \in Node : phase'[m] = IF m = n THEN "retire" ELSE phase[m]
  BY OnePhase, Zenon DEF WriteCheckpoint, RunInv
<1>3. ProgressInv'
  BY <1>1, <1>2, ProgressFrame, Zenon DEF ResultInv
<1>4. ReturnMeansDone'
  BY <1>1, Zenon DEF ResultInv, ReturnMeansDone
<1>5. CASE checkpoint' = checkpoint
  BY <1>1, <1>2, <1>3, <1>4, <1>5, TerminalFrame, ZenonT(30) DEF ResultInv, RunInv
<1>6. CASE checkpoint' # checkpoint
  <2>1. checkpoint' = [completed |-> completed, state |-> data[n]] /\ (inner \/ ~cancelled)
    BY <1>6, Zenon DEF WriteCheckpoint
  <2>2. n \in data[n]
    BY <1>1, ZenonT(30) DEF RunInv, FanInInv, LogInv
  <2>3. ASSUME Done(checkpoint') = Node PROVE IsTerminal(n)
    <3> SUFFICES ASSUME NEW e \in Out(n) PROVE FALSE
      BY Zenon DEF IsTerminal
    <3>1. timesFired[To[e]] = 0 /\ To[e] \in Node
      BY <1>1, GraphAssumption, Zenon DEF ResultInv, TerminalInv, Out, EndpointsKnown
    <3>2. completed[To[e]] > 0
      BY <2>1, <2>3, <3>1, Zenon DEF Done
    <3> QED
      BY <3>1, <3>2 DEF RunInv, FanInInv, LogInv
  <2>4. Done(checkpoint') = Node => HasTerminal(checkpoint'.state)
    BY <2>1, <2>2, <2>3, Zenon DEF HasTerminal
  <2>5. \A m \in Node \ loaded : IsTerminal(m) /\ completed[m] = 1 =>
          terminal # None \/ phase'[m] = "fanout" \/ cancelled \/ schedPc = "down"
    BY <1>1, <1>2, Zenon DEF ResultInv, TerminalInv
  <2>6. \A m \in Node : phase'[m] = "checkpoint" => \A e \in Out(m) : timesFired[To[e]] = 0
    BY <1>2, Zenon DEF ResultInv, TerminalInv
  <2>7. TerminalInv'
    BY <1>1, <2>4, <2>5, <2>6, Zenon DEF ResultInv, TerminalInv, HasTerminal, Done, IsTerminal, Out
  <2> QED
    BY <1>3, <1>4, <2>7, Zenon DEF ResultInv
<1> QED
  BY <1>5, <1>6, Zenon

LEMMA ResultNode ==
  ASSUME PureFanIn, RunInv, ResultInv, NEW n \in Node, NodeStep(n)
  PROVE  ResultInv'
<1> USE DEF activation, scheduler, outcome, process
<1>1. CASE BodyReturns(n) \/ BodyThrows(n) \/ Retire(n)
  <2>1. /\ UNCHANGED <<pending, timesFired, loaded, edgeFires, completed, cancelled, terminal,
                       checkpoint, schedPc>>
        /\ phase[n] \in {"body", "retire"}
    BY <1>1, Zenon DEF BodyReturns, BodyThrows, Retire, AtBody
  <2>2. PICK p \in {"record", "retire", "idle"} : phase' = [phase EXCEPT ![n] = p]
    BY <1>1, Zenon DEF BodyReturns, BodyThrows, Retire
  <2>3. \A m \in Node : phase'[m] = IF m = n THEN p ELSE phase[m]
    BY <2>2, OnePhase, Zenon DEF RunInv
  <2>4. firstError # NoNode => firstError' # NoNode
    BY <1>1, Zenon DEF BodyReturns, BodyThrows, Retire
  <2>5. phase[n] = "body" => p = "record" \/ firstError' # NoNode
    <3>1. CASE BodyReturns(n)
      BY <2>3, <3>1, Zenon DEF BodyReturns, RunInv, TypeOK
    <3>2. CASE BodyThrows(n)
      BY <3>2, RunnerAssumption, Zenon DEF BodyThrows
    <3>3. CASE Retire(n)
      BY <3>3, Zenon DEF Retire
    <3> QED
      BY <1>1, <3>1, <3>2, <3>3, Zenon
  <2>6. ProgressInv'
    BY <2>1, <2>3, <2>4, <2>5, ProgressFrame, Zenon DEF ResultInv
  <2>7. TerminalInv'
    BY <2>1, <2>3, TerminalFrame, Zenon DEF ResultInv, RunInv
  <2>8. ReturnMeansDone'
    BY <2>1, Zenon DEF ResultInv, ReturnMeansDone
  <2> QED
    BY <2>6, <2>7, <2>8, Zenon DEF ResultInv
<1>2. CASE Record(n)
  <2>1. /\ UNCHANGED <<pending, timesFired, loaded, edgeFires, cancelled, firstError, terminal,
                       checkpoint, schedPc>>
        /\ phase[n] = "record"
    BY <1>2, Zenon DEF Record
  <2>2. \A m \in Node : phase'[m] = IF m = n THEN "fanout" ELSE phase[m]
    BY <1>2, OnePhase, Zenon DEF Record, RunInv
  <2>3. \A m \in Node : m # n => completed'[m] = completed[m]
    BY <1>2, Zenon DEF Record, RunInv, TypeOK
  <2>4. completed[n] = 0 /\ (cancelled \/ completed'[n] = 1)
    <3>1. completed[n] = 0
      BY <2>1, Zenon DEF RunInv, FanInInv, LogInv
    <3> QED
      BY <1>2, <3>1, SMTT(30) DEF Record, RunInv, TypeOK
  <2>5. ProgressInv'
    <3>1. ProgressInv
      BY Zenon DEF ResultInv
    <3>2. \A m \in Node : completed[m] = 1 => completed'[m] = 1
      BY <2>3, <2>4, SMTT(30)
    <3>3. \A m \in Node : phase[m] \in {"body", "record"} =>
            phase'[m] \in {"body", "record"} \/ completed'[m] = 1 \/ cancelled'
      BY <2>1, <2>2, <2>4, Zenon
    <3> QED
      BY <2>1, <3>1, <3>2, <3>3, ProgressFrame, ZenonT(30)
  <2>6. \A m \in Node \ loaded : IsTerminal(m) /\ completed'[m] = 1 =>
          terminal # None \/ phase'[m] = "fanout" \/ cancelled \/ schedPc = "down"
    BY <2>2, <2>3, Zenon DEF ResultInv, TerminalInv
  <2>7. \A m \in Node : phase'[m] = "checkpoint" => \A e \in Out(m) : timesFired[To[e]] = 0
    BY <2>2, Zenon DEF ResultInv, TerminalInv
  <2>8. TerminalInv'
    BY <2>1, <2>6, <2>7, Zenon DEF ResultInv, TerminalInv, HasTerminal, Done, IsTerminal, Out
  <2>9. ReturnMeansDone'
    BY <2>1, <2>3, <2>4, ReturnFrame DEF ResultInv
  <2> QED
    BY <2>5, <2>8, <2>9, Zenon DEF ResultInv
<1> QED
  BY <1>1, <1>2, ResultFanOut, ResultWrite, Zenon DEF NodeStep, AfterBody

LEMMA ResultEnvironment ==
  ASSUME PureFanIn, Acyclic, SingleEntry, RunInv, ResultInv, Environment
  PROVE  ResultInv'
<1> USE DEF activation, coroutine, scheduler, outcome, process
<1>1. CASE Cancel
  <2>1. /\ UNCHANGED <<pending, timesFired, loaded, edgeFires, completed, firstError, terminal,
                       checkpoint, schedPc, phase>>
        /\ cancelled' = TRUE
    BY <1>1, Zenon DEF Cancel
  <2>2. ProgressInv' /\ TerminalInv'
    BY <2>1, ProgressFrame, TerminalFrame, Zenon DEF ResultInv, RunInv
  <2> QED
    BY <2>1, <2>2, Zenon DEF ResultInv, ReturnMeansDone
<1>2. CASE Crash
  <2>1. /\ UNCHANGED <<pending, timesFired, loaded, edgeFires, completed, firstError, terminal,
                       checkpoint, cancelled>>
        /\ schedPc' = "down" /\ phase' = [m \in Node |-> "idle"]
    BY <1>2, Zenon DEF Crash
  <2>2. ProgressInv' /\ TerminalInv'
    BY <2>1, ProgressFrame, TerminalFrame, Zenon DEF ResultInv, RunInv
  <2> QED
    BY <2>1, <2>2, Zenon DEF ResultInv, ReturnMeansDone
<1>3. CASE RestartEmpty
  <2>1. /\ loaded' = {} /\ edgeFires' = {} /\ terminal' = None /\ checkpoint' = checkpoint
        /\ \A m \in Node : completed'[m] = 0 /\ timesFired'[m] = 0 /\ phase'[m] = "idle"
        /\ \A m \in Node : pending'[m] = IF m \in EntryNodeIds THEN {} ELSE None
        /\ schedPc' = "launch" /\ checkpoint = None
    BY <1>3, Zenon DEF RestartEmpty, FreshRunner, SeedEntries
  <2>2. {} # None
    BY LineageNotNone, Zenon DEF Lineage
  <2>3. ASSUME NEW m \in Node, AllDelivered(m)' PROVE m \in EntryNodeIds
    BY <2>1, <2>3, Zenon DEF AllDelivered, Delivered, EntryNodeIds, In
  <2>4. ProgressInv'
    BY <2>1, <2>2, <2>3, Zenon DEF ProgressInv
  <2>5. loaded' # Node
    BY <2>1, Zenon DEF SingleEntry
  <2>6. TerminalInv'
    BY <2>1, <2>5 DEF TerminalInv
  <2> QED
    BY <2>1, <2>4, <2>6, Zenon DEF ResultInv, ReturnMeansDone
<1>4. CASE Resume
  <2> DEFINE done == Done(checkpoint)
  <2>1. /\ loaded' = done /\ edgeFires' = {} /\ checkpoint' = checkpoint
        /\ completed' = checkpoint.completed
        /\ timesFired' = [m \in Node |-> IF m \in done THEN 1 ELSE 0]
        /\ phase' = [m \in Node |-> "idle"]
        /\ pending' = [m \in Node |-> SeededInput(checkpoint, m)]
        /\ terminal' = IF (\A m \in done : IsTerminal(m)) \/ done = Node
                        THEN checkpoint.state ELSE None
        /\ schedPc' = "launch" /\ checkpoint # None
    BY <1>4, Zenon DEF Resume, FreshRunner, ReplayedLog
  <2>2. /\ checkpoint \in [completed : [Node -> Nat], state : Lineage]
        /\ done \in SUBSET Node
        /\ \A m \in done : Preds(m) \subseteq done
        /\ \E m \in done : m \in checkpoint.state
        /\ \A m \in Node : checkpoint.completed[m] = 1 <=> m \in done
    BY <2>1 DEF RunInv, TypeOK, FanInInv, FileInv, CheckpointIsCut, Done
  <2>3. checkpoint.state # None
    BY <2>2, LineageNotNone, Zenon
  <2>4. EntryNodeIds \subseteq done
    BY <2>2, EntryIsDone, Zenon
  <2> HIDE DEF done
  <2>5. ASSUME NEW m \in Node, m \notin done, AllDelivered(m)' PROVE pending'[m] # None
    <3>1. PICK e \in Edge : To[e] = m
      BY <2>4, <2>5, Zenon DEF EntryNodeIds, In
    <3>2. From[e] \in done
      BY <2>1, <2>5, <3>1, Zenon DEF AllDelivered, Delivered
    <3>3. e \in Seeding(checkpoint, m)
      BY <2>5, <3>1, <3>2, Zenon DEF Seeding, done
    <3> QED
      BY <2>1, <2>3, <3>3, Zenon DEF SeededInput
  <2>6. ProgressInv'
    <3>1. \A m \in Node : timesFired'[m] = 0 => m \notin done
      BY <2>1
    <3>2. \A m \in Node : timesFired'[m] = 1 => completed'[m] = 1
      BY <2>1, <2>2, SMTT(30)
    <3> QED
      BY <2>1, <2>2, <2>5, <3>1, <3>2, Zenon DEF ProgressInv
  <2>7. (\A m \in done : IsTerminal(m)) \/ done = Node => HasTerminal(checkpoint.state)
    BY <2>1, <2>2, Zenon DEF HasTerminal, ResultInv, TerminalInv, done
  <2>8. \A m \in Node \ done : completed'[m] # 1
    BY <2>1, <2>2, Zenon
  <2>9. \A m \in Node : phase'[m] = "idle"
    BY <2>1, Zenon
  <2>10. terminal' # None => HasTerminal(terminal')
    BY <2>1, <2>7, Zenon
  <2>11. loaded' = Node => terminal' # None
    BY <2>1, <2>3, Zenon
  <2>12. checkpoint' # None /\ Done(checkpoint') = Node => HasTerminal(checkpoint'.state)
    BY <2>1, Zenon DEF ResultInv, TerminalInv
  <2>13. TerminalInv'
    BY <2>1, <2>8, <2>9, <2>10, <2>11, <2>12, Zenon DEF TerminalInv, HasTerminal, Done
  <2> QED
    BY <2>1, <2>6, <2>13, Zenon DEF ResultInv, ReturnMeansDone
<1> QED
  BY <1>1, <1>2, <1>3, <1>4, Zenon DEF Environment

LEMMA ResultInit == PureFanIn /\ SingleEntry /\ Init => ResultInv
<1> SUFFICES ASSUME PureFanIn, SingleEntry, Init PROVE ResultInv
  OBVIOUS
<1>1. {} # None
  BY LineageNotNone, Zenon DEF Lineage
<1>2. \A m \in Node : AllDelivered(m) => m \in EntryNodeIds
  BY Zenon DEF Init, AllDelivered, Delivered, EntryNodeIds, In
<1>3. ProgressInv
  BY <1>1, <1>2, Zenon DEF Init, ProgressInv
<1>4. TerminalInv
  BY DEF Init, TerminalInv, SingleEntry
<1> QED
  BY <1>3, <1>4, Zenon DEF Init, ResultInv, ReturnMeansDone

LEMMA ResultStep ==
  PureFanIn /\ Acyclic /\ SingleEntry /\ RunInv /\ ResultInv /\ [Next]_vars => ResultInv'
<1> SUFFICES ASSUME PureFanIn, Acyclic, SingleEntry, RunInv, ResultInv, [Next]_vars
             PROVE  ResultInv'
  OBVIOUS
<1>1. CASE UNCHANGED vars
  <2>1. UNCHANGED <<pending, timesFired, loaded, edgeFires, completed, cancelled, firstError, phase,
                    terminal, checkpoint, schedPc>>
    BY <1>1, Zenon DEF vars, activation, coroutine, scheduler, outcome, process
  <2>2. ProgressInv' /\ TerminalInv'
    BY <2>1, ProgressFrame, TerminalFrame, Zenon DEF ResultInv, RunInv
  <2> QED
    BY <2>1, <2>2, Zenon DEF ResultInv, ReturnMeansDone
<1> QED
  BY <1>1, ResultScheduler, ResultNode, ResultEnvironment, Zenon DEF Next, Terminated

\* In an acyclic graph of ALL edges with one entry node, a run that returns
\* without an error and was not cancelled has completed every node and returns
\* what a terminal node produced, however often it crashed and was resumed
\* (runner.cc: the drain loop and the result, 296-335; Resume, 337-415).
THEOREM ReturnIsComplete ==
  PureFanIn /\ Acyclic /\ SingleEntry /\ Spec => []ReturnMeansDone
<1> SUFFICES ASSUME PureFanIn, Acyclic, SingleEntry PROVE Spec => []ReturnMeansDone
  OBVIOUS
<1>1. Init => TypeOK /\ ThreadInv /\ LoggedInv /\ FanInInv /\ ResultInv
  BY InitType, ThreadInit, FanInInit, ResultInit, Zenon
<1>2. Init => RunInv /\ ResultInv
  BY <1>1, Zenon DEF RunInv
<1>3. RunInv /\ ResultInv /\ [Next]_vars => (RunInv /\ ResultInv)'
  BY TypeStep, ThreadStep, LoggedStep, FanInStep, ResultStep, Zenon DEF RunInv
<1>4. ResultInv => ReturnMeansDone
  BY Zenon DEF ResultInv
<1> QED
  BY <1>2, <1>3, <1>4, PTL DEF Spec
=============================================================================
