--------------------------- MODULE WorkflowLoader ---------------------------
(***************************************************************************)
(* WorkflowLoader::Load (agentflow/workflow/workflow_loader.cc): the JSON  *)
(* document becomes a WorkflowSpec, then come the validation passes in     *)
(* their order, the depth-first search for delegation cycles step by step, *)
(* the signature and the dynamic state type.                               *)
(***************************************************************************)
EXTENDS Integers, Sequences, FiniteSets

CONSTANTS Agent,         \* agent names, declared or not
          ToolName,      \* tool names, "delegate" among them
          HostTool,      \* the names in the host's registry
          Docs,          \* the documents to be loaded, with the load options
          Word,          \* uint32_t holds 0 .. Word - 1
          CurrentSchema, \* kCurrentWorkflowSchemaVersion
          MaxAgents, MaxToolsPerAgent, MaxDelegateAgents, MaxDelegateDepth

\* The value under a key: not there, an object, or of another type.
Kind == {"absent", "object", "other"}

\* An agent's JSON: typed says that no member it has is of the wrong type,
\* fields which state fields its delegate templates refer to, prompt whether
\* its system prompt parses as a template.
AgentDoc ==
  [typed : BOOLEAN, tools : SUBSET ToolName, backend : {"", "named", "unknown"},
   prompt : {"ok", "bad"}, delegates : Kind, parallel : BOOLEAN,
   agents : Seq(Agent), maxDepth : Int, fields : SUBSET {"known", "unknown"}]

\* A document; mac says whether the signature is that of the canonical form
\* under the key, pool what building the descriptor pool of a proto_dynamic
\* state comes to.  resolver and required are Options.
DocType ==
  [kind : Kind, version : Int, main : Agent, declared : SUBSET Agent,
   agents : [Agent -> AgentDoc], state : Kind, pool : {"static", "built", "failed"},
   signing : Kind, algo : {"", "HMAC-SHA256", "other"}, key : {"known", "unknown"},
   mac : {"", "right", "wrong"}, resolver : BOOLEAN, required : BOOLEAN]

ASSUME DocsAssumption == Docs \subseteq DocType
ASSUME WordAssumption == Word \in Nat \ {0}
ASSUME AgentAssumption == IsFiniteSet(Agent)

VARIABLES
  doc,     \* the document and the options it is loaded with
  spec,    \* the WorkflowSpec, meaningful once parsed
  load,    \* the next pass, "loaded" or "rejected"
  color,   \* CheckAcyclic: "white", "gray" or "black" per agent
  stack,   \* CheckAcyclic: pairs (agent, index of its next child)
  rank,    \* history: the how-manieth agent to turn black, 0 if it has not
  nblack   \* history: how many agents are black

lvars == <<doc, spec, load, color, stack, rank, nblack>>
-----------------------------------------------------------------------------
ParseDelegateSpec(d) ==
  [agents |-> IF d.delegates = "object" THEN d.agents ELSE <<>>,
   maxDepth |-> IF d.delegates = "object" THEN d.maxDepth % Word ELSE 0]

DelegateSpecOk(d) == d.delegates # "absent" => d.delegates = "object" /\ ~d.parallel

ParseAgentDef(d) ==
  [tools |-> d.tools, backend |-> d.backend, prompt |-> d.prompt, fields |-> d.fields,
   hasDelegates |-> d.delegates # "absent", delegates |-> ParseDelegateSpec(d)]

ParseSigning(d) ==
  IF d.signing = "object" THEN [algo |-> d.algo, key |-> d.key, mac |-> d.mac]
                          ELSE [algo |-> "", key |-> "unknown", mac |-> ""]

ParseRoot(d) ==
  [main |-> d.main, declared |-> d.declared,
   agents |-> [a \in Agent |-> ParseAgentDef(d.agents[a])],
   signing |-> ParseSigning(d)]

RootOk(d) ==
  /\ d.kind = "object" /\ d.state # "other" /\ d.signing # "other"
  /\ \A a \in d.declared : d.agents[a].typed /\ DelegateSpecOk(d.agents[a])

\* A schema version of 0 counts as 1.
SchemaOk(d) ==
  LET v == d.version % Word IN (IF v = 0 THEN 1 ELSE v) <= CurrentSchema

LInit ==
  /\ doc \in Docs
  /\ spec = ParseRoot(doc)
  /\ load = "parse"
  /\ color = [a \in Agent |-> "white"]
  /\ stack = <<>>
  /\ rank = [a \in Agent |-> 0]
  /\ nblack = 0

Pass(this, ok, next) ==
  /\ load = this
  /\ load' = IF ok THEN next ELSE "rejected"
  /\ UNCHANGED <<doc, spec, color, stack, rank, nblack>>

Parse == Pass("parse", RootOk(doc) /\ SchemaOk(doc), "limits")

Def(a) == spec.agents[a]
Dels(a) == spec.agents[a].delegates.agents

CheckResourceLimits ==
  Pass("limits",
       /\ Cardinality(spec.declared) <= MaxAgents
       /\ \A a \in spec.declared :
            /\ Cardinality(Def(a).tools) <= MaxToolsPerAgent
            /\ Len(Dels(a)) <= MaxDelegateAgents
            /\ Def(a).delegates.maxDepth <= MaxDelegateDepth,
       "references")

CheckReferences_ToolsOnly ==
  Pass("references",
       /\ spec.main \in spec.declared
       /\ \A a \in spec.declared : Def(a).tools \subseteq HostTool,
       "acyclic")

CheckReferences ==
  Pass("references",
       /\ spec.main \in spec.declared
       /\ \A a \in spec.declared :
            /\ "delegate" \notin Def(a).tools /\ Def(a).tools \subseteq HostTool
            /\ \A i \in DOMAIN Dels(a) : Dels(a)[i] \in spec.declared,
       "acyclic")
-----------------------------------------------------------------------------
(* CheckAcyclic.  The order of the roots is that of a hash map: any.        *)

Top == stack[Len(stack)]
Below == SubSeq(stack, 1, Len(stack) - 1)
Child == Dels(Top.agent)[Top.next]

StartRoot(a) ==
  /\ load = "acyclic" /\ stack = <<>>
  /\ a \in spec.declared /\ color[a] = "white"
  /\ color' = [color EXCEPT ![a] = "gray"]
  /\ stack' = <<[agent |-> a, next |-> 1]>>
  /\ UNCHANGED <<doc, spec, load, rank, nblack>>

\* A gray child closes a cycle, a white one is searched next.
VisitChild ==
  /\ load = "acyclic" /\ stack # <<>> /\ Top.next <= Len(Dels(Top.agent))
  /\ LET seen == Append(Below, [Top EXCEPT !.next = @ + 1])
     IN \/ /\ color[Child] = "gray"
           /\ load' = "rejected" /\ stack' = seen /\ UNCHANGED color
        \/ /\ color[Child] = "white"
           /\ stack' = Append(seen, [agent |-> Child, next |-> 1])
           /\ color' = [color EXCEPT ![Child] = "gray"] /\ UNCHANGED load
        \/ /\ color[Child] = "black"
           /\ stack' = seen /\ UNCHANGED <<color, load>>
  /\ UNCHANGED <<doc, spec, rank, nblack>>

FinishAgent ==
  /\ load = "acyclic" /\ stack # <<>> /\ Top.next > Len(Dels(Top.agent))
  /\ color' = [color EXCEPT ![Top.agent] = "black"]
  /\ nblack' = nblack + 1
  /\ rank' = [rank EXCEPT ![Top.agent] = nblack + 1]
  /\ stack' = Below
  /\ UNCHANGED <<doc, spec, load>>

\* No agent is left white; the search's locals go.
AcyclicEnds ==
  /\ load = "acyclic" /\ stack = <<>> /\ \A a \in spec.declared : color[a] # "white"
  /\ load' = "templates"
  /\ color' = [a \in Agent |-> "white"] /\ rank' = [a \in Agent |-> 0] /\ nblack' = 0
  /\ UNCHANGED <<doc, spec, stack>>
-----------------------------------------------------------------------------
CheckTemplates ==
  Pass("templates",
       \A a \in spec.declared : Def(a).hasDelegates => Def(a).fields \subseteq {"known"},
       "signing")

VerifySignature(sig) == sig.algo = "HMAC-SHA256" /\ sig.key = "known" /\ sig.mac = "right"

HasSigning(sig) == sig.algo # "" \/ sig.mac # ""

\* A signature is verified where there is a key resolver and ignored where
\* there is none; a missing one matters only when one is required.
CheckSigning ==
  Pass("signing",
       IF HasSigning(spec.signing) THEN doc.resolver => VerifySignature(spec.signing)
                                   ELSE ~doc.required,
       "pool")

\* proto_dynamic state: the descriptor pool and the message type in it.
BuildStatePool == Pass("pool", doc.pool # "failed", "loaded")

LNext ==
  \/ Parse \/ CheckResourceLimits \/ CheckReferences
  \/ \E a \in Agent : StartRoot(a)
  \/ VisitChild \/ FinishAgent \/ AcyclicEnds
  \/ CheckTemplates \/ CheckSigning \/ BuildStatePool
-----------------------------------------------------------------------------
Edge(a, b) == a \in spec.declared /\ \E i \in DOMAIN Dels(a) : Dels(a)[i] = b

\* A nonempty set of agents each of which can delegate to one of the set: finite as
\* it is, one of them can be delegated to by itself, through others or directly.
Cyclic == \E S \in SUBSET Agent : S # {} /\ \A a \in S : \E b \in S : Edge(a, b)

\* The search for cycles is right: from whichever root and in whichever order
\* it went, it reports a cycle exactly when some agent can be delegated to by
\* itself through others.  And what is loaded delegates only to declared agents
\* and, where signatures are required and can be verified, is signed.
LoadDecides ==
  /\ load \in {"templates", "signing", "pool", "loaded"} => ~Cyclic
  /\ load = "rejected" /\ stack # <<>> => Cyclic
  /\ load = "loaded" =>
       /\ \A a, b \in Agent : Edge(a, b) => b \in spec.declared
       /\ doc.resolver /\ doc.required => doc.signing = "object" /\ doc.mac = "right"
=============================================================================
