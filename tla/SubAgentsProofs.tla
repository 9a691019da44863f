-------------------------- MODULE SubAgentsProofs --------------------------
(***************************************************************************)
(* The delegation graph of a loaded workflow has no cycle, no agent is at  *)
(* work twice in one delegate call, and the tokens of every call reach the *)
(* tool in the order they were made, for any set of agents and documents   *)
(* and any capacity.  The search's ranks are the certificate of the first: *)
(* they are in the invariant while it runs and below an existential        *)
(* quantifier after.                                                       *)
(***************************************************************************)
EXTENDS SubAgents, SequenceTheorems, WellFoundedInduction, TLAPS

Entry == [agent : Agent, next : Nat \ {0}]

SpecType ==
  /\ spec.main \in Agent /\ spec.declared \subseteq Agent
  /\ \A a \in Agent : Dels(a) \in Seq(Agent)

SearchType ==
  /\ color \in [Agent -> {"white", "gray", "black"}]
  /\ rank \in [Agent -> Nat] /\ nblack \in Nat /\ stack \in Seq(Entry)

\* The gray agents are those on the stack, each once.
GrayIsStack ==
  /\ \A i \in 1..Len(stack) : color[stack[i].agent] = "gray"
  /\ \A i, j \in 1..Len(stack) : stack[i].agent = stack[j].agent => i = j
  /\ \A a \in Agent : color[a] = "gray" => \E i \in 1..Len(stack) : stack[i].agent = a

\* The children an entry has been past are black, but for the one above it.
PassedIsBlack ==
  \A i \in 1..Len(stack) : \A c \in 1..Len(Dels(stack[i].agent)) :
    c < stack[i].next =>
      \/ color[Dels(stack[i].agent)[c]] = "black"
      \/ i < Len(stack) /\ Dels(stack[i].agent)[c] = stack[i + 1].agent

\* Black agents delegate only to agents that turned black before them.
BlackDescends ==
  \A a \in Agent : color[a] = "black" =>
    /\ rank[a] <= nblack
    /\ \A c \in 1..Len(Dels(a)) :
         color[Dels(a)[c]] = "black" /\ rank[Dels(a)[c]] < rank[a]

Searching == {"parse", "limits", "references", "acyclic"}
Past == {"templates", "signing", "pool", "loaded"}

SearchInv == SearchType /\ GrayIsStack /\ PassedIsBlack /\ BlackDescends

\* A certificate that the delegation graph has no cycle.
Certifies(r) ==
  r \in [Agent -> Nat] /\ \A a, b \in Agent : Edge(a, b) => r[b] < r[a]

Declared ==
  /\ spec.main \in spec.declared
  /\ \A a \in spec.declared : \A c \in 1..Len(Dels(a)) : Dels(a)[c] \in spec.declared

LoaderInv ==
  /\ SpecType
  /\ load \in Searching => SearchInv
  /\ load \in Past \cup {"acyclic"} => Declared
  /\ load \in Past => \E r : Certifies(r)
-----------------------------------------------------------------------------
\* A document that has not been looked at satisfies the invariant.
LEMMA InitLoader == LInit => LoaderInv
<1> SUFFICES ASSUME LInit PROVE LoaderInv
  OBVIOUS
<1>1. doc \in DocType
  BY DocsAssumption, Zenon DEF LInit
<1>2. SpecType
  <2>1. \A a \in Agent : doc.agents[a] \in AgentDoc
    BY <1>1, Zenon DEF DocType
  <2>2. \A a \in Agent : Dels(a) = ParseDelegateSpec(doc.agents[a]).agents
    BY Zenon DEF LInit, ParseRoot, ParseAgentDef, Dels
  <2>3. \A a \in Agent : Dels(a) \in Seq(Agent)
    <3>1. \A a \in Agent : doc.agents[a].agents \in Seq(Agent)
      BY <2>1, Zenon DEF AgentDoc
    <3>2. \A d : ParseDelegateSpec(d).agents \in {d.agents, <<>>}
      BY Zenon DEF ParseDelegateSpec
    <3>3. <<>> \in Seq(Agent)
      OBVIOUS
    <3>4. QED
      BY <2>2, <3>1, <3>2, <3>3, Zenon
  <2>4. QED
    BY <1>1, <2>3, Zenon DEF LInit, ParseRoot, DocType, SpecType
<1>3. SearchInv
  BY DEF LInit, SearchInv, SearchType, GrayIsStack, PassedIsBlack, BlackDescends
<1>4. load = "parse"
  BY Zenon DEF LInit
<1>5. QED
  BY <1>2, <1>3, <1>4, Zenon DEF LoaderInv, Searching, Past

\* Nothing the invariant speaks of changes but load.
LEMMA LoaderFrame ==
  ASSUME UNCHANGED <<spec, color, stack, rank, nblack>>
  PROVE  /\ SpecType => SpecType'
         /\ SearchInv => SearchInv'
         /\ Declared => Declared'
         /\ \A r : Certifies(r) => Certifies(r)'
<1>1. SpecType => SpecType'
  BY Zenon DEF SpecType, Dels
<1>2. SearchInv => SearchInv'
  <2>1. SearchType => SearchType'
    BY Zenon DEF SearchType
  <2>2. GrayIsStack => GrayIsStack'
    BY Zenon DEF GrayIsStack
  <2>3. (PassedIsBlack => PassedIsBlack') /\ (BlackDescends => BlackDescends')
    BY Zenon DEF PassedIsBlack, BlackDescends, Dels
  <2>4. QED
    BY <2>1, <2>2, <2>3, Zenon DEF SearchInv
<1>3. Declared => Declared'
  BY Zenon DEF Declared, Dels
<1>4. \A r : Certifies(r) => Certifies(r)'
  BY Zenon DEF Certifies, Edge, Dels
<1>5. QED
  BY <1>1, <1>2, <1>3, <1>4, Zenon

\* A new root is gray and alone on the stack.
LEMMA StartRootStep ==
  ASSUME LoaderInv, NEW a \in Agent, StartRoot(a)
  PROVE  LoaderInv'
<1>1. SearchInv /\ Declared /\ SpecType
  BY Zenon DEF LoaderInv, StartRoot, Searching, Past
<1>2. SpecType' /\ Declared'
  BY <1>1, Zenon DEF StartRoot, SpecType, Declared, Dels
<1>3. SearchType'
  BY <1>1 DEF SearchInv, SearchType, StartRoot, Entry
<1>4. /\ Len(stack') = 1 /\ stack'[1].agent = a /\ stack'[1].next = 1
      /\ color'[a] = "gray" /\ \A b \in Agent : b # a => color'[b] = color[b]
      /\ color[a] # "black" /\ Len(stack) = 0
  BY <1>1, Zenon DEF StartRoot, SearchInv, SearchType
<1>5. GrayIsStack'
  BY <1>1, <1>4 DEF SearchInv, GrayIsStack
<1>6. PassedIsBlack'
  BY <1>1, <1>4, <1>2 DEF PassedIsBlack, SpecType
<1>7. BlackDescends'
  <2>1. \A b \in Agent : Dels(b)' = Dels(b)
    BY Zenon DEF StartRoot, Dels
  <2>2. rank' = rank /\ nblack' = nblack
    BY Zenon DEF StartRoot
  <2>3. \A b \in Agent : \A c \in 1..Len(Dels(b)) : Dels(b)[c] \in Agent
    BY <1>1 DEF SpecType
  <2>4. \A b \in Agent : color[b] = "black" => color'[b] = "black"
    BY <1>4, Zenon
  <2>5. \A b \in Agent : color'[b] = "black" => color[b] = "black"
    BY <1>4, Zenon
  <2>6. QED
    BY <1>1, <2>1, <2>2, <2>3, <2>4, <2>5 DEF SearchInv, BlackDescends
<1>8. load' = "acyclic"
  BY Zenon DEF StartRoot
<1>9. QED
  BY <1>2, <1>3, <1>5, <1>6, <1>7, <1>8, Zenon DEF LoaderInv, SearchInv, Searching, Past

\* A pass that leaves the search alone.
LEMMA PassStep ==
  ASSUME LoaderInv, NEW this, NEW ok \in BOOLEAN, NEW next, Pass(this, ok, next),
         {this, next} \subseteq Searching \/ {this, next} \subseteq Past,
         ok /\ next = "acyclic" => Declared
  PROVE  LoaderInv'
<1>1. UNCHANGED <<spec, color, stack, rank, nblack>> /\ load = this
  BY Zenon DEF Pass
<1>2. load' = IF ok THEN next ELSE "rejected"
  BY Zenon DEF Pass
<1>3. CASE ~ok
  BY <1>1, <1>2, <1>3, LoaderFrame, Zenon DEF LoaderInv, Searching, Past
<1>4. CASE ok /\ {this, next} \subseteq Searching
  BY <1>1, <1>2, <1>4, LoaderFrame, Zenon DEF LoaderInv, Searching, Past
<1>5. CASE ok /\ {this, next} \subseteq Past
  BY <1>1, <1>2, <1>5, LoaderFrame, Zenon DEF LoaderInv, Searching, Past
<1>6. QED
  BY <1>3, <1>4, <1>5, Zenon

\* What a stack is without its last entry.
LEMMA BelowIs ==
  ASSUME NEW S, NEW s \in Seq(S), s # <<>>
  PROVE  LET below == SubSeq(s, 1, Len(s) - 1)
         IN /\ Len(s) \in Nat \ {0} /\ s[Len(s)] \in S
            /\ below \in Seq(S) /\ Len(below) = Len(s) - 1
            /\ \A i \in 1..(Len(s) - 1) : below[i] = s[i] /\ s[i] \in S
<1>1. Len(s) \in Nat \ {0} /\ \A i \in 1..Len(s) : s[i] \in S
  OBVIOUS
<1>2. Len(s) - 1 \in Int /\ \A i \in 1..(Len(s) - 1) : s[i] \in S
  BY <1>1
<1>3. /\ SubSeq(s, 1, Len(s) - 1) \in Seq(S)
      /\ Len(SubSeq(s, 1, Len(s) - 1)) = IF 1 <= Len(s) - 1 THEN Len(s) - 1 - 1 + 1 ELSE 0
      /\ \A i \in 1..(Len(s) - 1 - 1 + 1) : SubSeq(s, 1, Len(s) - 1)[i] = s[1 + i - 1]
  BY <1>2, SubSeqProperties
<1>4. Len(SubSeq(s, 1, Len(s) - 1)) = Len(s) - 1
  <2>1. \A m \in Nat \ {0} : (IF 1 <= m - 1 THEN m - 1 - 1 + 1 ELSE 0) = m - 1
    OBVIOUS
  <2>2. QED
    BY <1>1, <1>3, <2>1, Zenon
<1>5. \A i \in 1..(Len(s) - 1) : SubSeq(s, 1, Len(s) - 1)[i] = s[i]
  <2> SUFFICES ASSUME NEW i \in 1..(Len(s) - 1)
               PROVE  SubSeq(s, 1, Len(s) - 1)[i] = s[i]
    OBVIOUS
  <2>1. i \in 1..(Len(s) - 1 - 1 + 1) /\ 1 + i - 1 = i
    BY <1>1
  <2>2. QED
    BY <1>3, <2>1, Zenon
<1>6. s[Len(s)] \in S
  BY <1>1
<1>7. QED
  BY <1>1, <1>2, <1>3, <1>4, <1>5, <1>6, Zenon

\* An agent all of whose children are black turns black after them.
LEMMA FinishAgentStep == LoaderInv /\ FinishAgent => LoaderInv'
<1> SUFFICES ASSUME LoaderInv, FinishAgent PROVE LoaderInv'
  OBVIOUS
<1> DEFINE n == Len(stack)
           a == stack[n].agent
<1>1. SearchInv /\ Declared /\ SpecType /\ stack \in Seq(Entry) /\ stack # <<>>
  BY Zenon DEF LoaderInv, FinishAgent, Searching, Past, SearchInv, SearchType
<1>2. /\ n \in Nat \ {0} /\ a \in Agent /\ stack[n].next \in Nat
      /\ stack' \in Seq(Entry) /\ Len(stack') = n - 1
      /\ \A i \in 1..(n - 1) : stack'[i] = stack[i] /\ stack[i].agent \in Agent
  <2>1. stack' = SubSeq(stack, 1, Len(stack) - 1)
    BY Zenon DEF FinishAgent, Below
  <2>2. /\ n \in Nat \ {0} /\ stack[n] \in Entry
        /\ stack' \in Seq(Entry) /\ Len(stack') = n - 1
        /\ \A i \in 1..(n - 1) : stack'[i] = stack[i] /\ stack[i] \in Entry
    BY <1>1, <2>1, BelowIs, Zenon
  <2>3. QED
    BY <2>2, Zenon DEF Entry
<1>3. /\ color' = [color EXCEPT ![a] = "black"] /\ rank' = [rank EXCEPT ![a] = nblack + 1]
      /\ nblack' = nblack + 1 /\ stack[n].next > Len(Dels(a))
      /\ load' = "acyclic" /\ spec' = spec
  BY Zenon DEF FinishAgent, Top
<1>4. SpecType' /\ Declared'
  BY <1>1, <1>3, Zenon DEF SpecType, Declared, Dels
<1>5. SearchType'
  BY <1>1, <1>2, <1>3 DEF SearchInv, SearchType
<1>6. color'[a] = "black" /\ \A b \in Agent : b # a => color'[b] = color[b] /\ rank'[b] = rank[b]
  BY <1>1, <1>2, <1>3, Zenon DEF SearchInv, SearchType
<1>7. \A b \in Agent : Dels(b)' = Dels(b) /\ \A c \in 1..Len(Dels(b)) : Dels(b)[c] \in Agent
  BY <1>1, <1>3 DEF SpecType, Dels
<1>8. \A i \in 1..(n - 1) : stack[i].agent # a
  BY <1>1, <1>2 DEF SearchInv, GrayIsStack
<1>9. GrayIsStack'
  <2>1. \A b \in Agent : color'[b] = "gray" => b # a /\ color[b] = "gray"
    BY <1>6, Zenon
  <2>2. \A b \in Agent : color'[b] = "gray" => \E i \in 1..(n - 1) : stack[i].agent = b
    BY <1>1, <1>2, <2>1 DEF SearchInv, GrayIsStack
  <2>3. \A i \in 1..(n - 1) : color'[stack[i].agent] = "gray"
    BY <1>1, <1>2, <1>6, <1>8 DEF SearchInv, GrayIsStack
  <2>4. \A i, j \in 1..(n - 1) : stack[i].agent = stack[j].agent => i = j
    BY <1>1, <1>2 DEF SearchInv, GrayIsStack
  <2>5. QED
    BY <1>2, <2>2, <2>3, <2>4, Zenon DEF GrayIsStack
<1>10. \A c \in 1..Len(Dels(a)) : color[Dels(a)[c]] = "black"
  <2>1. n \in 1..n /\ Len(Dels(a)) \in Nat /\ PassedIsBlack
    BY <1>1, <1>2 DEF SpecType, SearchInv
  <2>2. \A c \in 1..Len(Dels(a)) : c < stack[n].next
    BY <1>2, <1>3, <2>1
  <2>3. QED
    BY <2>1, <2>2 DEF PassedIsBlack
<1>11. PassedIsBlack'
  <2> SUFFICES ASSUME NEW i \in 1..(n - 1), NEW c \in 1..Len(Dels(stack[i].agent)),
                      c < stack[i].next
               PROVE  \/ color'[Dels(stack[i].agent)[c]] = "black"
                      \/ i < n - 1 /\ Dels(stack[i].agent)[c] = stack'[i + 1].agent
    BY <1>2, <1>7 DEF PassedIsBlack
  <2>1. Dels(stack[i].agent)[c] \in Agent
    BY <1>2, <1>7, Zenon
  <2>2. \/ color[Dels(stack[i].agent)[c]] = "black"
        \/ Dels(stack[i].agent)[c] = stack[i + 1].agent
    <3>1. i \in 1..n /\ PassedIsBlack
      BY <1>1, <1>2 DEF SearchInv
    <3>2. QED
      BY <3>1, Zenon DEF PassedIsBlack
  <2>3. CASE i = n - 1
    BY <1>2, <1>6, <2>1, <2>2, <2>3
  <2>4. CASE i # n - 1
    BY <1>2, <1>6, <2>1, <2>2, <2>4
  <2>5. QED
    BY <2>3, <2>4, Zenon
<1>12. BlackDescends'
  <2> SUFFICES ASSUME NEW b \in Agent, color'[b] = "black"
               PROVE  /\ rank'[b] <= nblack'
                      /\ \A c \in 1..Len(Dels(b)) :
                           color'[Dels(b)[c]] = "black" /\ rank'[Dels(b)[c]] < rank'[b]
    BY <1>7, Zenon DEF BlackDescends
  <2>1. color[a] # "black"
    BY <1>1, <1>2 DEF SearchInv, GrayIsStack
  <2>2. nblack \in Nat /\ rank \in [Agent -> Nat] /\ rank'[a] = nblack + 1
    BY <1>1, <1>2, <1>3, Zenon DEF SearchInv, SearchType
  <2>3. CASE b = a
    BY <1>1, <1>3, <1>6, <1>7, <1>10, <2>1, <2>2, <2>3 DEF SearchInv, BlackDescends
  <2>4. CASE b # a
    BY <1>1, <1>3, <1>6, <1>7, <2>1, <2>2, <2>4 DEF SearchInv, BlackDescends
  <2>5. QED
    BY <2>3, <2>4, Zenon
<1>13. QED
  BY <1>3, <1>4, <1>5, <1>9, <1>11, <1>12, Zenon DEF LoaderInv, SearchInv, Searching, Past

\* The stack with the index of its last entry advanced.
Seen == Append(Below, [Top EXCEPT !.next = @ + 1])

LEMMA PassChild ==
  ASSUME NEW e \in Entry
  PROVE  LET p == [e EXCEPT !.next = @ + 1] IN
         p \in Entry /\ p.agent = e.agent /\ p.next = e.next + 1
BY DEF Entry

\* It has the same agents, and one more child is passed.
LEMMA SeenIs ==
  ASSUME stack \in Seq(Entry), stack # <<>>
  PROVE  /\ Len(stack) \in Nat \ {0} /\ Seen \in Seq(Entry) /\ Len(Seen) = Len(stack)
         /\ \A i \in 1..Len(stack) : stack[i] \in Entry
         /\ \A i \in 1..Len(stack) : Seen[i].agent = stack[i].agent
         /\ \A i \in 1..(Len(stack) - 1) : Seen[i] = stack[i]
         /\ Seen[Len(stack)].next = stack[Len(stack)].next + 1
<1> DEFINE n == Len(stack)
           last == [Top EXCEPT !.next = @ + 1]
<1>1. /\ n \in Nat \ {0} /\ stack[n] \in Entry /\ Below \in Seq(Entry) /\ Len(Below) = n - 1
      /\ \A i \in 1..(n - 1) : Below[i] = stack[i] /\ stack[i] \in Entry
  BY BelowIs, Zenon DEF Below
<1>2. last \in Entry /\ last.agent = stack[n].agent /\ last.next = stack[n].next + 1
  BY <1>1, PassChild, Zenon DEF Top
<1> HIDE DEF last
<1>3. /\ Append(Below, last) \in Seq(Entry) /\ Len(Append(Below, last)) = n
      /\ \A i \in 1..(n - 1) : Append(Below, last)[i] = Below[i]
      /\ Append(Below, last)[n] = last
  BY <1>1, <1>2
<1>4. Seen = Append(Below, last)
  BY Zenon DEF Seen, last
<1>5. \A i \in 1..n : i = n \/ i \in 1..(n - 1)
  BY <1>1
<1>6. QED
  BY <1>1, <1>2, <1>3, <1>4, <1>5, Zenon

\* One more child of the top entry has been passed, or a cycle is reported.
LEMMA VisitChildStep == LoaderInv /\ VisitChild => LoaderInv'
<1> SUFFICES ASSUME LoaderInv, VisitChild PROVE LoaderInv'
  OBVIOUS
<1> DEFINE n == Len(stack)
           a == stack[n].agent
           m == stack[n].next
<1>1. SearchInv /\ Declared /\ SpecType /\ stack \in Seq(Entry) /\ stack # <<>>
  BY Zenon DEF LoaderInv, VisitChild, Searching, Past, SearchInv, SearchType
<1>2. /\ n \in Nat \ {0} /\ Seen \in Seq(Entry) /\ Len(Seen) = n
      /\ \A i \in 1..n : stack[i] \in Entry
      /\ \A i \in 1..n : Seen[i].agent = stack[i].agent
      /\ \A i \in 1..(n - 1) : Seen[i] = stack[i]
      /\ Seen[n].next = m + 1
  BY <1>1, SeenIs, Zenon
<1>3. a \in Agent /\ m \in Nat \ {0} /\ \A i \in 1..n : stack[i].agent \in Agent /\ stack[i].next \in Nat
  BY <1>2 DEF Entry
<1>4. /\ m <= Len(Dels(a)) /\ Child = Dels(a)[m]
      /\ rank' = rank /\ nblack' = nblack /\ spec' = spec
  BY Zenon DEF VisitChild, Top, Child
<1>5. \A b \in Agent : /\ Dels(b)' = Dels(b) /\ Len(Dels(b)) \in Nat
                      /\ \A c \in 1..Len(Dels(b)) : Dels(b)[c] \in Agent
  <2>1. \A b : Dels(b)' = Dels(b)
    BY <1>4, Zenon DEF Dels
  <2>2. QED
    BY <1>1, <2>1 DEF SpecType
<1>6. m \in 1..Len(Dels(a)) /\ Child \in Agent
  BY <1>3, <1>4, <1>5
<1>7. SpecType' /\ Declared'
  BY <1>1, <1>4, Zenon DEF SpecType, Declared, Dels
<1>8. CASE load' = "rejected"
  BY <1>7, <1>8, Zenon DEF LoaderInv, Searching, Past
\* Of the last entry, one more child has been passed.
<1>9. ASSUME NEW i \in 1..n, NEW c \in 1..Len(Dels(stack[i].agent)), c < Seen[i].next
      PROVE  \/ color[Dels(stack[i].agent)[c]] = "black"
             \/ i < n /\ Dels(stack[i].agent)[c] = stack[i + 1].agent
             \/ i = n /\ Dels(stack[i].agent)[c] = Child
  <2>1. PassedIsBlack
    BY <1>1, Zenon DEF SearchInv
  <2>2. CASE c < stack[i].next
    BY <2>1, <2>2, Zenon DEF PassedIsBlack
  <2>3. CASE ~(c < stack[i].next)
    <3>1. i = n
      BY <1>2, <1>3, <1>9, <2>3
    <3>2. c = m
      BY <1>2, <1>3, <1>5, <1>9, <2>3, <3>1
    <3>3. QED
      BY <1>4, <3>1, <3>2, Zenon
  <2>4. QED
    BY <2>2, <2>3, Zenon
<1>10. CASE color[Child] = "black" /\ stack' = Seen /\ UNCHANGED <<color, load>>
  <2>1. SearchType'
    BY <1>1, <1>2, <1>4, <1>10, Zenon DEF SearchInv, SearchType
  <2>2. GrayIsStack'
    BY <1>1, <1>2, <1>10 DEF SearchInv, GrayIsStack
  <2>3. PassedIsBlack'
    <3>1. \A i \in 1..n : i < n => i + 1 \in 1..n
      BY <1>2
    <3>2. \A i \in 1..n : \A c \in 1..Len(Dels(stack[i].agent)) : c < Seen[i].next =>
            \/ color[Dels(stack[i].agent)[c]] = "black"
            \/ i < n /\ Dels(stack[i].agent)[c] = Seen[i + 1].agent
      BY <1>2, <1>9, <1>10, <3>1, Zenon
    <3>3. Len(stack') = n /\ stack' = Seen /\ color' = color
      BY <1>2, <1>10, Zenon
    <3>4. \A i \in 1..n : Dels(stack[i].agent)' = Dels(stack[i].agent)
      BY <1>2, <1>4, <3>3, Zenon DEF Dels
    <3>5. \A i \in 1..Len(stack') : \A c \in 1..Len(Dels(stack[i].agent)') : c < stack'[i].next =>
            \/ color'[Dels(stack[i].agent)'[c]] = "black"
            \/ i < Len(stack') /\ Dels(stack[i].agent)'[c] = stack'[i + 1].agent
      BY <3>2, <3>3, <3>4
    <3>6. QED
      BY <3>5 DEF PassedIsBlack
  <2>4. BlackDescends'
    BY <1>1, <1>4, <1>5, <1>10, Zenon DEF SearchInv, BlackDescends
  <2>5. load' = "acyclic"
    BY <1>10, Zenon DEF VisitChild
  <2>6. QED
    BY <1>7, <2>1, <2>2, <2>3, <2>4, <2>5, Zenon DEF LoaderInv, SearchInv, Searching, Past
<1>11. CASE /\ color[Child] = "white" /\ load' = load
            /\ stack' = Append(Seen, [agent |-> Child, next |-> 1])
            /\ color' = [color EXCEPT ![Child] = "gray"]
  <2> DEFINE e == [agent |-> Child, next |-> 1]
  <2>1. e \in Entry /\ e.agent = Child /\ e.next = 1
    BY <1>6 DEF Entry
  <2> HIDE DEF e
  <2>2. /\ stack' \in Seq(Entry) /\ Len(stack') = n + 1 /\ stack'[n + 1] = e
        /\ \A i \in 1..n : stack'[i] = Seen[i]
    BY <1>2, <1>11, <2>1 DEF e
  <2>3. SearchType'
    BY <1>1, <1>4, <1>6, <1>11, <2>2, Zenon DEF SearchInv, SearchType
  <2>4. color'[Child] = "gray" /\ \A b \in Agent : b # Child => color'[b] = color[b]
    BY <1>1, <1>6, <1>11, Zenon DEF SearchInv, SearchType
  <2>5. \A i \in 1..n : stack[i].agent # Child
    BY <1>1, <1>11, Zenon DEF SearchInv, GrayIsStack
  <2>6. \A i \in 1..(n + 1) : i = n + 1 \/ i \in 1..n
    BY <1>2
  <2>7. GrayIsStack'
    <3>1. \A i \in 1..n : stack'[i].agent = stack[i].agent /\ color'[stack[i].agent] = "gray"
      BY <1>1, <1>2, <1>3, <2>2, <2>4, <2>5, Zenon DEF SearchInv, GrayIsStack
    <3>2. \A i \in 1..(n + 1) : color'[stack'[i].agent] = "gray"
      BY <2>1, <2>2, <2>4, <2>6, <3>1, Zenon
    <3>3. \A i, j \in 1..n : stack[i].agent = stack[j].agent => i = j
      BY <1>1, Zenon DEF SearchInv, GrayIsStack
    <3>4. \A i, j \in 1..(n + 1) : stack'[i].agent = stack'[j].agent => i = j
      BY <2>1, <2>2, <2>5, <2>6, <3>1, <3>3, Zenon
    <3>5. \A b \in Agent : color'[b] = "gray" => \E i \in 1..(n + 1) : stack'[i].agent = b
      <4> SUFFICES ASSUME NEW b \in Agent, color'[b] = "gray"
                   PROVE  \E i \in 1..(n + 1) : stack'[i].agent = b
        OBVIOUS
      <4>1. CASE b = Child
        BY <1>2, <2>1, <2>2, <4>1
      <4>2. CASE b # Child
        <5>1. PICK i \in 1..n : stack[i].agent = b
          BY <1>1, <2>4, <4>2, Zenon DEF SearchInv, GrayIsStack
        <5>2. i \in 1..(n + 1)
          BY <1>2
        <5>3. QED
          BY <3>1, <5>1, <5>2, Zenon
      <4>3. QED
        BY <4>1, <4>2, Zenon
    <3>6. QED
      BY <2>2, <3>2, <3>4, <3>5, Zenon DEF GrayIsStack
  <2>8. PassedIsBlack'
    <3> SUFFICES ASSUME NEW i \in 1..(n + 1), NEW c \in 1..Len(Dels(stack'[i].agent)),
                        c < stack'[i].next
                 PROVE  \/ color'[Dels(stack'[i].agent)[c]] = "black"
                        \/ i < n + 1 /\ Dels(stack'[i].agent)[c] = stack'[i + 1].agent
      BY <1>4, <2>2, Zenon DEF PassedIsBlack, Dels
    <3>1. CASE i = n + 1
      BY <2>1, <2>2, <3>1
    <3>2. CASE i \in 1..n
      <4>1. stack'[i].agent = stack[i].agent /\ stack'[i].next = Seen[i].next
        BY <1>2, <2>2, <3>2, Zenon
      <4>2. Dels(stack[i].agent)[c] \in Agent
        BY <1>3, <1>5, <3>2, <4>1, Zenon
      <4>3. i < n => i + 1 \in 1..n /\ stack'[i + 1].agent = stack[i + 1].agent
        BY <1>2, <2>2, <3>2
      <4>4. i = n => stack'[i + 1].agent = Child
        BY <2>1, <2>2, Zenon
      <4>5. i < n + 1
        BY <1>2, <3>2
      <4>6. CASE color[Dels(stack[i].agent)[c]] = "black"
        BY <1>11, <2>4, <4>1, <4>2, <4>6, Zenon
      <4>7. QED
        <5>1. /\ c \in 1..Len(Dels(stack[i].agent)) /\ c < Seen[i].next
              /\ Dels(stack'[i].agent) = Dels(stack[i].agent)
          BY <4>1, Zenon
        <5>2. \/ color[Dels(stack[i].agent)[c]] = "black"
              \/ i < n /\ Dels(stack[i].agent)[c] = stack[i + 1].agent
              \/ i = n /\ Dels(stack[i].agent)[c] = Child
          BY <1>9, <3>2, <5>1, Zenon
        <5>3. QED
          BY <4>3, <4>4, <4>5, <4>6, <5>1, <5>2, Zenon
    <3>3. QED
      BY <2>6, <3>1, <3>2, Zenon
  <2>9. BlackDescends'
    <3>1. \A b \in Agent : color'[b] = "black" <=> color[b] = "black"
      BY <1>11, <2>4, Zenon
    <3>2. QED
      BY <1>1, <1>4, <1>5, <3>1, Zenon DEF SearchInv, BlackDescends
  <2>10. load' = "acyclic"
    BY <1>11, Zenon DEF VisitChild
  <2>11. QED
    BY <1>7, <2>3, <2>7, <2>8, <2>9, <2>10, Zenon DEF LoaderInv, SearchInv, Searching, Past
<1>12. QED
  BY <1>8, <1>10, <1>11, Zenon DEF VisitChild, Seen

\* When nothing is white or on the stack, the ranks certify that there is no
\* cycle, and go.
LEMMA AcyclicEndsStep == LoaderInv /\ AcyclicEnds => LoaderInv'
<1> SUFFICES ASSUME LoaderInv, AcyclicEnds PROVE LoaderInv'
  OBVIOUS
<1>1. SearchInv /\ Declared /\ SpecType /\ Len(stack) = 0
  BY Zenon DEF LoaderInv, AcyclicEnds, Searching, Past
<1>2. \A a \in spec.declared : color[a] = "black"
  BY <1>1 DEF AcyclicEnds, SearchInv, SearchType, GrayIsStack, SpecType
<1>3. Certifies(rank)
  <2> SUFFICES ASSUME NEW a \in Agent, NEW b \in Agent, Edge(a, b)
               PROVE  rank[b] < rank[a]
    BY <1>1, Zenon DEF Certifies, SearchInv, SearchType
  <2>1. a \in spec.declared /\ \E i \in 1..Len(Dels(a)) : Dels(a)[i] = b
    BY <1>1 DEF Edge, SpecType
  <2>2. QED
    BY <1>1, <1>2, <2>1, Zenon DEF SearchInv, BlackDescends
<1>4. load' = "templates" /\ spec' = spec
  BY Zenon DEF AcyclicEnds
<1>5. SpecType' /\ Declared' /\ \A r : Certifies(r) => Certifies(r)'
  BY <1>1, <1>4, Zenon DEF SpecType, Declared, Certifies, Edge, Dels
<1>6. QED
  BY <1>3, <1>4, <1>5, Zenon DEF LoaderInv, Searching, Past

\* Every step of Load keeps the invariant.
LEMMA LoaderStep == LoaderInv /\ [LNext]_lvars => LoaderInv'
<1> SUFFICES ASSUME LoaderInv, [LNext]_lvars PROVE LoaderInv'
  OBVIOUS
<1>0. /\ "parse" \in Searching /\ "limits" \in Searching /\ "references" \in Searching
      /\ "acyclic" \in Searching /\ "limits" # "acyclic" /\ "references" # "acyclic"
  BY Zenon DEF Searching
<1>1. CASE Parse
  <2> DEFINE ok == RootOk(doc) /\ SchemaOk(doc)
  <2>1. Pass("parse", ok, "limits") /\ ok \in BOOLEAN
    BY <1>1, Zenon DEF Parse
  <2> HIDE DEF ok
  <2>2. QED
    BY <1>0, <2>1, PassStep, Zenon
<1>2. CASE CheckResourceLimits
  <2> DEFINE ok == /\ Cardinality(spec.declared) <= MaxAgents
                   /\ \A a \in spec.declared :
                        /\ Cardinality(Def(a).tools) <= MaxToolsPerAgent
                        /\ Len(Dels(a)) <= MaxDelegateAgents
                        /\ Def(a).delegates.maxDepth <= MaxDelegateDepth
  <2>1. Pass("limits", ok, "references") /\ ok \in BOOLEAN
    BY <1>2, Zenon DEF CheckResourceLimits
  <2> HIDE DEF ok
  <2>2. QED
    BY <1>0, <2>1, PassStep, Zenon
<1>3. CASE CheckReferences
  <2> DEFINE ok == /\ spec.main \in spec.declared
                   /\ \A a \in spec.declared :
                        /\ "delegate" \notin Def(a).tools /\ Def(a).tools \subseteq HostTool
                        /\ \A i \in DOMAIN Dels(a) : Dels(a)[i] \in spec.declared
  <2>1. ok => Declared
    BY DEF Declared, LoaderInv, SpecType
  <2>2. Pass("references", ok, "acyclic") /\ ok \in BOOLEAN
    BY <1>3, Zenon DEF CheckReferences
  <2> HIDE DEF ok
  <2>3. QED
    BY <1>0, <2>1, <2>2, PassStep, Zenon
<1>4. CASE \E a \in Agent : StartRoot(a)
  BY <1>4, StartRootStep, Zenon
<1>5. CASE VisitChild
  BY <1>5, VisitChildStep, Zenon
<1>6. CASE FinishAgent
  BY <1>6, FinishAgentStep, Zenon
<1>7. CASE AcyclicEnds
  BY <1>7, AcyclicEndsStep, Zenon
<1>8. CASE CheckTemplates
  BY <1>8, PassStep, Zenon DEF CheckTemplates, Past
<1>9. CASE CheckSigning
  <2> DEFINE ok == IF HasSigning(spec.signing) THEN doc.resolver => VerifySignature(spec.signing)
                                               ELSE ~doc.required
  <2>1. Pass("signing", ok, "pool") /\ ok \in BOOLEAN
    BY <1>9, Zenon DEF CheckSigning
  <2> HIDE DEF ok
  <2>2. QED
    BY <2>1, PassStep, Zenon DEF Past
<1>10. CASE BuildStatePool
  BY <1>10, PassStep, Zenon DEF BuildStatePool, Past
<1>11. CASE UNCHANGED lvars
  BY <1>11, LoaderFrame, Zenon DEF LoaderInv, lvars
<1>12. QED
  BY <1>1, <1>2, <1>3, <1>4, <1>5, <1>6, <1>7, <1>8, <1>9, <1>10, <1>11, Zenon DEF LNext
-----------------------------------------------------------------------------
(* The run.                                                                 *)

Frame == [agent : Agent, iter : Nat]

\* Who is at work at level i of a stack; level 0 is the main agent.
Level(f, i) == IF i = 0 THEN spec.main ELSE f[i].agent

\* Levels descend under every certificate: all pairs, since neighbours alone
\* would need an induction to say it.
StackOk(f) ==
  /\ f \in Seq(Frame)
  /\ \A i \in 1..Len(f) : /\ Level(f, i) \in spec.declared
                          /\ i - 1 < Def(Level(f, i - 1)).delegates.maxDepth
  /\ \A r : Certifies(r) =>
       \A i, j \in 0..Len(f) : i < j => r[Level(f, j)] < r[Level(f, i)]

CallInv(k) ==
  /\ StackOk(frames[k])
  /\ call[k] = "idle" => frames[k] = <<>>
  /\ call[k] # "idle" => load = "loaded"
  /\ at[k] # "none" => frames[k] # <<>>

RunInv ==
  /\ DOMAIN frames = Call /\ DOMAIN call = Call /\ DOMAIN at = Call
  /\ frames = [k \in Call |-> frames[k]]
  /\ call = [k \in Call |-> call[k]] /\ at = [k \in Call |-> at[k]]
  /\ run # "no" => load = "loaded"
  /\ \A k \in Call : CallInv(k)

\* A call starts with the main agent alone.
LEMMA EmptyOk == StackOk(<<>>)
BY DEF StackOk

\* What is right about a stack depends on nothing but the workflow.
LEMMA StackFrame == ASSUME spec' = spec PROVE \A f : StackOk(f) => StackOk(f)'
BY ZenonT(30) DEF StackOk, Level, Def, Certifies, Edge, Dels

\* A stack with the same agents up to some level.
LEMMA ShorterOk ==
  ASSUME NEW f, StackOk(f), NEW g \in Seq(Frame), Len(g) <= Len(f),
         \A i \in 1..Len(g) : g[i].agent = f[i].agent
  PROVE  StackOk(g)
<1>1. Len(f) \in Nat /\ Len(g) \in Nat /\ Len(g) <= Len(f)
  BY DEF StackOk
<1>2. \A i \in 0..Len(g) : i \in 0..Len(f) /\ Level(g, i) = Level(f, i)
  BY <1>1 DEF Level
<1>3. \A i \in 1..Len(g) : i \in 1..Len(f) /\ i \in 0..Len(g) /\ i - 1 \in 0..Len(g)
  BY <1>1
<1>4. \A i \in 1..Len(g) : /\ Level(g, i) \in spec.declared
                           /\ i - 1 < Def(Level(g, i - 1)).delegates.maxDepth
  BY <1>2, <1>3, Zenon DEF StackOk
<1>5. \A r : Certifies(r) =>
        \A i, j \in 0..Len(g) : i < j => r[Level(g, j)] < r[Level(g, i)]
  BY <1>2, Zenon DEF StackOk
<1>6. QED
  BY <1>4, <1>5, Zenon DEF StackOk

\* The child is of the roster of the innermost agent: every certificate puts
\* it below that agent, which is below all the others.
LEMMA PushOk ==
  ASSUME SpecType, Declared, NEW f, StackOk(f), NEW child \in Agent,
         InRoster(Level(f, Len(f)), child),
         Len(f) < Def(Level(f, Len(f))).delegates.maxDepth
  PROVE  /\ StackOk(Append(f, [agent |-> child, iter |-> 0]))
         /\ Append(f, [agent |-> child, iter |-> 0]) # <<>>
<1> DEFINE e == [agent |-> child, iter |-> 0]
           g == Append(f, e)
           n == Len(f)
           parent == Level(f, n)
<1>1. f \in Seq(Frame) /\ n \in Nat /\ e \in Frame /\ e.agent = child
  BY DEF StackOk, Frame
<1> HIDE DEF e
<1>2. /\ g \in Seq(Frame) /\ Len(g) = n + 1 /\ g # <<>> /\ g[n + 1] = e
      /\ \A i \in 1..n : g[i] = f[i]
  BY <1>1
<1> HIDE DEF g
<1>3. \A i \in 0..n : Level(g, i) = Level(f, i)
  BY <1>1, <1>2 DEF Level
<1>4. Level(g, n + 1) = child
  BY <1>1, <1>2 DEF Level
<1>5. \A i \in 0..n : Level(f, i) \in spec.declared
  BY <1>1 DEF StackOk, Level, Declared
<1>6. parent \in spec.declared /\ parent \in Agent /\ Dels(parent) \in Seq(Agent)
  BY <1>1, <1>5 DEF SpecType
<1>7. Edge(parent, child)
  BY <1>6, Zenon DEF Edge, InRoster
<1>8. child \in spec.declared
  BY <1>6 DEF InRoster, Declared
<1>9. \A i \in 1..(n + 1) : (i \in 1..n \/ i = n + 1) /\ i - 1 \in 0..n
  BY <1>1
<1>10. \A i \in 1..(n + 1) : /\ Level(g, i) \in spec.declared
                            /\ i - 1 < Def(Level(g, i - 1)).delegates.maxDepth
  <2> SUFFICES ASSUME NEW i \in 1..(n + 1)
               PROVE  /\ Level(g, i) \in spec.declared
                      /\ i - 1 < Def(Level(g, i - 1)).delegates.maxDepth
    OBVIOUS
  <2>1. CASE i = n + 1
    BY <1>1, <1>3, <1>4, <1>8, <1>9, <2>1
  <2>2. CASE i \in 1..n
    BY <1>1, <1>3, <1>5, <1>9, <2>2 DEF StackOk
  <2>3. QED
    BY <1>9, <2>1, <2>2, Zenon
<1>11. ASSUME NEW r, Certifies(r), NEW i \in 0..(n + 1), NEW j \in 0..(n + 1), i < j
       PROVE  r[Level(g, j)] < r[Level(g, i)]
  <2>1. i \in 0..n
    BY <1>1, <1>11
  <2>2. /\ r \in [Agent -> Nat] /\ r[child] < r[parent]
        /\ \A l \in 0..n : Level(f, l) \in Agent
    BY <1>5, <1>6, <1>7, <1>11, Zenon DEF Certifies, SpecType
  <2>3. CASE j \in 0..n
    BY <1>3, <1>11, <2>1, <2>3, Zenon DEF StackOk
  <2>4. CASE j = n + 1
    <3>1. r[parent] <= r[Level(f, i)]
      BY <1>1, <1>6, <1>11, <2>1, <2>2 DEF StackOk
    <3>2. r[child] \in Nat /\ r[parent] \in Nat /\ r[Level(f, i)] \in Nat
      BY <1>6, <2>1, <2>2, Zenon
    <3>3. QED
      BY <1>3, <1>4, <2>1, <2>2, <2>4, <3>1, <3>2
  <2>5. QED
    BY <1>1, <2>3, <2>4
<1>12. QED
  BY <1>2, <1>10, <1>11, Zenon DEF StackOk, g, e

\* No call is at work before the run.
LEMMA InitRun == Init => RunInv
BY EmptyOk DEF Init, RunInv, CallInv

\* One call's stack is replaced by one that is right.
LEMMA StackStep ==
  ASSUME RunInv, spec' = spec, load' = load, run' = run, NEW k \in Call,
         NEW g, NEW x, NEW y, StackOk(g),
         frames' = [frames EXCEPT ![k] = g],
         at' = [at EXCEPT ![k] = x], call' = [call EXCEPT ![k] = y],
         load = "loaded", y # "idle", x # "none" => g # <<>>
  PROVE  RunInv'
<1>1. /\ DOMAIN frames' = Call /\ DOMAIN call' = Call /\ DOMAIN at' = Call
      /\ frames' = [j \in Call |-> frames'[j]]
      /\ call' = [j \in Call |-> call'[j]] /\ at' = [j \in Call |-> at'[j]]
  BY Zenon DEF RunInv
<1>2. frames'[k] = g /\ at'[k] = x /\ call'[k] = y
  BY Zenon DEF RunInv
<1>3. \A j \in Call : j # k => frames'[j] = frames[j] /\ at'[j] = at[j] /\ call'[j] = call[j]
  BY Zenon DEF RunInv
<1>4. CallInv(k)'
  BY <1>2, StackFrame, Zenon DEF CallInv
<1>5. \A j \in Call : j # k => CallInv(j)'
  BY <1>3, StackFrame, Zenon DEF CallInv, RunInv
<1>6. QED
  BY <1>1, <1>4, <1>5, Zenon DEF RunInv

\* A sub-agent that ends leaves the stack below it.
LEMMA ReturnsStep ==
  ASSUME RunInv, spec' = spec, load' = load, run' = run, load = "loaded",
         NEW k \in Call, NEW outer, StackOk(outer), Returns(k, outer)
  PROVE  RunInv'
<1> DEFINE x == IF outer = <<>> THEN "none" ELSE "tools"
           y == IF outer = <<>> THEN "sentinel" ELSE "running"
<1>1. /\ frames' = [frames EXCEPT ![k] = outer]
      /\ at' = [at EXCEPT ![k] = x] /\ call' = [call EXCEPT ![k] = y]
  BY Zenon DEF Returns
<1>2. y # "idle" /\ (x # "none" => outer # <<>>)
  OBVIOUS
<1> HIDE DEF x, y
<1>3. QED
  BY <1>1, <1>2, StackStep, Zenon

\* RunAsync refuses, fails, or starts a child of the innermost roster.
LEMMA EnterStep ==
  ASSUME LoaderInv, RunInv, spec' = spec, load' = load, run' = run, load = "loaded",
         NEW k \in Call, NEW child \in Agent,
         Enter(k, Level(frames[k], Len(frames[k])), child, Len(frames[k]))
  PROVE  RunInv'
<1> DEFINE parent == Level(frames[k], Len(frames[k]))
           pushed == Append(frames[k], [agent |-> child, iter |-> 0])
<1>1. StackOk(frames[k]) /\ SpecType /\ Declared
  BY Zenon DEF RunInv, CallInv, LoaderInv, Past
<1>2. CASE Returns(k, frames[k])
  BY <1>1, <1>2, ReturnsStep, Zenon
<1>3. CASE /\ frames[k] = <<>> /\ call' = [call EXCEPT ![k] = "done"] /\ UNCHANGED <<frames, at>>
  <2>1. frames' = [frames EXCEPT ![k] = <<>>] /\ at' = [at EXCEPT ![k] = at[k]]
    BY <1>3, Zenon DEF RunInv
  <2>2. at[k] = "none"
    BY <1>3, Zenon DEF RunInv, CallInv
  <2>3. QED
    BY <1>3, <2>1, <2>2, EmptyOk, StackStep, Zenon
<1>4. CASE /\ Len(frames[k]) < Def(parent).delegates.maxDepth /\ InRoster(parent, child)
           /\ frames' = [frames EXCEPT ![k] = pushed]
           /\ at' = [at EXCEPT ![k] = "turn"] /\ call' = [call EXCEPT ![k] = "running"]
  <2>1. StackOk(pushed) /\ pushed # <<>>
    BY <1>1, <1>4, PushOk, Zenon
  <2> HIDE DEF pushed
  <2>2. QED
    BY <1>4, <2>1, StackStep, Zenon
<1>5. QED
  BY <1>2, <1>3, <1>4, Zenon DEF Enter

\* A call that is somewhere in RunAsync has a stack, and its workflow is loaded.
LEMMA AtWork ==
  ASSUME RunInv, NEW k \in Call, at[k] # "none"
  PROVE  /\ load = "loaded" /\ StackOk(frames[k]) /\ frames[k] # <<>>
         /\ Len(frames[k]) \in Nat \ {0} /\ Inner(k) \in Frame
         /\ Level(frames[k], Len(frames[k])) = Inner(k).agent
         /\ Outer(k) \in Seq(Frame) /\ Len(Outer(k)) = Len(frames[k]) - 1
         /\ \A i \in 1..(Len(frames[k]) - 1) : Outer(k)[i] = frames[k][i]
         /\ StackOk(Outer(k))
<1>1. load = "loaded" /\ StackOk(frames[k]) /\ frames[k] # <<>> /\ frames[k] \in Seq(Frame)
  BY Zenon DEF RunInv, CallInv, StackOk
<1>2. /\ Len(frames[k]) \in Nat \ {0} /\ Inner(k) \in Frame
      /\ Outer(k) \in Seq(Frame) /\ Len(Outer(k)) = Len(frames[k]) - 1
      /\ \A i \in 1..(Len(frames[k]) - 1) : Outer(k)[i] = frames[k][i]
  BY <1>1, BelowIs DEF Inner, Outer
<1>3. StackOk(Outer(k))
  BY <1>1, <1>2, ShorterOk
<1>4. Level(frames[k], Len(frames[k])) = Inner(k).agent
  BY <1>2, Zenon DEF Level, Inner
<1>5. QED
  BY <1>1, <1>2, <1>3, <1>4, Zenon

\* Steps inside a turn move at[k] only.
LEMMA AtStep ==
  ASSUME RunInv, spec' = spec, load' = load, run' = run, NEW k \in Call, at[k] # "none",
         UNCHANGED <<frames, call>>, NEW x, at' = [at EXCEPT ![k] = x]
  PROVE  RunInv'
<1>1. frames' = [frames EXCEPT ![k] = frames[k]] /\ call' = [call EXCEPT ![k] = call[k]]
  BY Zenon DEF RunInv
<1>2. call[k] # "idle" /\ StackOk(frames[k]) /\ frames[k] # <<>> /\ load = "loaded"
  BY AtWork, Zenon DEF RunInv, CallInv
<1>3. QED
  BY <1>1, <1>2, StackStep, Zenon

\* Steps that leave the calls alone.
LEMMA RunFrame ==
  ASSUME RunInv, spec' = spec, UNCHANGED <<frames, call, at>>,
         load = "loaded" => load' = "loaded", run' # "no" => load' = "loaded"
  PROVE  RunInv'
BY StackFrame, Zenon DEF RunInv, CallInv

\* The delegate tool starts at level 0.
LEMMA DelegateStep ==
  ASSUME LoaderInv, RunInv, NEW k \in Call, NEW child \in Agent, Delegate(k, child)
  PROVE  RunInv'
<1>1. spec' = spec /\ load' = load /\ run' = run /\ load = "loaded" /\ frames[k] = <<>>
  BY Zenon DEF Delegate, lvars, RunInv, CallInv
<1>2. CASE call' = [call EXCEPT ![k] = "done"] /\ UNCHANGED <<frames, at>>
  <2>1. frames' = [frames EXCEPT ![k] = <<>>] /\ at' = [at EXCEPT ![k] = at[k]]
    BY <1>1, <1>2, Zenon DEF RunInv
  <2>2. at[k] = "none"
    BY <1>1, Zenon DEF RunInv, CallInv
  <2>3. QED
    BY <1>1, <1>2, <2>1, <2>2, EmptyOk, StackStep, Zenon
<1>3. CASE Enter(k, spec.main, child, 0)
  <2>1. Len(frames[k]) = 0 /\ Level(frames[k], Len(frames[k])) = spec.main
    BY <1>1, Zenon DEF Level
  <2>2. QED
    BY <1>1, <1>3, <2>1, EnterStep, Zenon
<1>4. QED
  BY <1>2, <1>3, Zenon DEF Delegate

\* A nested call starts at the level of its stack.
LEMMA NestedDelegateStep ==
  ASSUME LoaderInv, RunInv, NEW k \in Call, NEW child \in Agent, NestedDelegate(k, child)
  PROVE  RunInv'
<1>1. spec' = spec /\ load' = load /\ run' = run /\ at[k] # "none"
  BY Zenon DEF NestedDelegate, lvars
<1>2. load = "loaded" /\ Level(frames[k], Len(frames[k])) = Inner(k).agent
  BY <1>1, AtWork, Zenon
<1>3. QED
  BY <1>1, <1>2, EnterStep, Zenon DEF NestedDelegate

\* A turn never adds an agent.
LEMMA CallStepStep ==
  ASSUME RunInv, NEW k \in Call, CallStep(k)
  PROVE  RunInv'
<1>1. spec' = spec /\ load' = load /\ run' = run
  BY Zenon DEF CallStep, Turn, StreamToken, SendToken, Reply, NextTurn, SendSentinel, lvars
<1>2. CASE Turn(k)
  <2>1. at[k] # "none"
    BY <1>2, Zenon DEF Turn
  <2>2. CASE Returns(k, Outer(k))
    BY <1>1, <2>1, <2>2, AtWork, ReturnsStep, Zenon
  <2>3. CASE at' = [at EXCEPT ![k] = "stream"] /\ UNCHANGED <<frames, call>>
    BY <1>1, <2>1, <2>3, AtStep, Zenon
  <2>4. QED
    BY <1>2, <2>2, <2>3, Zenon DEF Turn
<1>3. CASE StreamToken(k)
  BY <1>1, <1>3, AtStep, Zenon DEF StreamToken
<1>4. CASE SendToken(k)
  BY <1>1, <1>4, AtStep, Zenon DEF SendToken
<1>5. CASE Reply(k)
  <2>1. at[k] # "none"
    BY <1>5, Zenon DEF Reply
  <2>2. CASE Returns(k, Outer(k))
    BY <1>1, <2>1, <2>2, AtWork, ReturnsStep, Zenon
  <2>3. CASE at' = [at EXCEPT ![k] = "tools"] /\ UNCHANGED <<frames, call>>
    BY <1>1, <2>1, <2>3, AtStep, Zenon
  <2>4. QED
    BY <1>5, <2>2, <2>3, Zenon DEF Reply
<1>6. CASE NextTurn(k)
  <2> DEFINE e == [Inner(k) EXCEPT !.iter = @ + 1]
             g == Append(Outer(k), e)
             n == Len(frames[k])
  <2>1. at[k] # "none" /\ UNCHANGED call
    BY <1>6, Zenon DEF NextTurn
  <2>2. /\ n \in Nat \ {0} /\ Outer(k) \in Seq(Frame) /\ Len(Outer(k)) = n - 1
        /\ \A i \in 1..(n - 1) : Outer(k)[i] = frames[k][i]
        /\ Inner(k) \in Frame /\ load = "loaded" /\ StackOk(frames[k])
    BY <2>1, AtWork, Zenon
  <2>3. e \in Frame /\ e.agent = frames[k][n].agent
    BY <2>2 DEF Frame, Inner
  <2> HIDE DEF e
  <2>4. /\ g \in Seq(Frame) /\ Len(g) = n /\ g # <<>> /\ g[n] = e
        /\ \A i \in 1..(n - 1) : g[i] = frames[k][i]
    <3>1. /\ g \in Seq(Frame) /\ Len(g) = n /\ g[n] = e
          /\ \A i \in 1..(n - 1) : g[i] = Outer(k)[i]
      BY <2>2, <2>3
    <3>2. QED
      BY <2>2, <3>1, Zenon
  <2> HIDE DEF g
  <2>5. \A i \in 1..n : i = n \/ i \in 1..(n - 1)
    BY <2>2
  <2>6. StackOk(g)
    <3>1. \A i \in 1..Len(g) : g[i].agent = frames[k][i].agent
      BY <2>3, <2>4, <2>5, Zenon
    <3>2. Len(g) <= Len(frames[k])
      BY <2>2, <2>4
    <3>3. QED
      BY <2>2, <2>4, <3>1, <3>2, ShorterOk, Zenon
  <2>7. frames' = [frames EXCEPT ![k] = g] /\ at' = [at EXCEPT ![k] = "turn"]
    BY <1>6, Zenon DEF NextTurn, g, e
  <2>8. call' = [call EXCEPT ![k] = call[k]] /\ call[k] # "idle"
    BY <2>1, Zenon DEF RunInv, CallInv
  <2>9. QED
    BY <1>1, <2>2, <2>4, <2>6, <2>7, <2>8, StackStep, Zenon
<1>7. CASE SendSentinel(k)
  <2>1. /\ frames' = [frames EXCEPT ![k] = frames[k]] /\ at' = [at EXCEPT ![k] = at[k]]
        /\ call' = [call EXCEPT ![k] = "done"] /\ call[k] # "idle"
    BY <1>7, Zenon DEF SendSentinel, RunInv
  <2>2. StackOk(frames[k]) /\ load = "loaded" /\ (at[k] # "none" => frames[k] # <<>>)
    BY <2>1, Zenon DEF RunInv, CallInv
  <2>3. QED
    BY <1>1, <2>1, <2>2, StackStep, Zenon
<1>8. QED
  BY <1>2, <1>3, <1>4, <1>5, <1>6, <1>7, Zenon DEF CallStep

\* Every step keeps both invariants.
LEMMA NextStep == LoaderInv /\ RunInv /\ [Next]_vars => LoaderInv' /\ RunInv'
<1> SUFFICES ASSUME LoaderInv, RunInv, [Next]_vars PROVE LoaderInv' /\ RunInv'
  OBVIOUS
<1>1. CASE LNext /\ UNCHANGED rvars
  <2>1. spec' = spec /\ load # "loaded"
    BY <1>1, Zenon DEF LNext, Parse, CheckResourceLimits, CheckReferences, StartRoot, VisitChild,
                FinishAgent, AcyclicEnds, CheckTemplates, CheckSigning, BuildStatePool, Pass
  <2>2. run' = "no"
    BY <1>1, <2>1, Zenon DEF RunInv, rvars
  <2>3. QED
    BY <1>1, <2>1, <2>2, LoaderStep, RunFrame, Zenon DEF rvars
<1>2. (LNext /\ UNCHANGED rvars) \/ UNCHANGED lvars
  BY Zenon DEF Next, BuildAgentNode, Delegate, NestedDelegate, CallStep, Turn, StreamToken,
         SendToken, Reply, NextTurn, SendSentinel, DrainReceives, DrainSends, Consume,
         MainEnds, Cancel, vars
<1>3. CASE UNCHANGED lvars
  <2>1. LoaderInv'
    BY <1>3, LoaderStep, Zenon
  <2>2. spec' = spec /\ load' = load
    BY <1>3, Zenon DEF lvars
  <2>3. CASE \E failClosed \in BOOLEAN : BuildAgentNode(failClosed)
    BY <2>1, <2>2, <2>3, RunFrame, Zenon DEF BuildAgentNode
  <2>4. CASE \E k \in Call, child \in Agent : Delegate(k, child) \/ NestedDelegate(k, child)
    BY <2>1, <2>4, DelegateStep, NestedDelegateStep, Zenon
  <2>5. CASE \E k \in Call : CallStep(k)
    BY <2>1, <2>5, CallStepStep, Zenon
  <2>6. CASE \/ \E k \in Call : DrainReceives(k) \/ DrainSends(k)
             \/ Consume \/ MainEnds \/ Cancel \/ UNCHANGED vars
    <3>1. UNCHANGED <<frames, call, at>> /\ (run' # "no" => run # "no")
      BY <2>6, Zenon DEF DrainReceives, DrainSends, Consume, MainEnds, Cancel, vars, rvars
    <3>2. QED
      BY <2>1, <2>2, <3>1, RunFrame, Zenon DEF RunInv
  <2>7. QED
    BY <1>1, <2>1, <2>3, <2>4, <2>5, <2>6, LoaderStep, Zenon DEF Next
<1>4. QED
  BY <1>1, <1>2, <1>3, Zenon
-----------------------------------------------------------------------------
\* The search's and the run's invariants hold, for every set of documents.
THEOREM Inductive == Spec => [](LoaderInv /\ RunInv)
<1>1. Init => LoaderInv /\ RunInv
  BY InitLoader, InitRun, Zenon DEF Init
<1>2. QED
  BY <1>1, NextStep, PTL DEF Spec

\* What CheckAcyclic lets pass has no cycle: there is a numbering of the agents
\* that every delegation descends (WorkflowLoader::Load).
THEOREM AcceptedIsAcyclic ==
  Spec => [](load = "loaded" =>
               \E r \in [Agent -> Nat] : \A a, b \in Agent : Edge(a, b) => r[b] < r[a])
<1>1. LoaderInv => (load = "loaded" =>
        \E r \in [Agent -> Nat] : \A a, b \in Agent : Edge(a, b) => r[b] < r[a])
  BY Zenon DEF LoaderInv, Past, Certifies
<1>2. QED
  BY Inductive, <1>1, PTL

-----------------------------------------------------------------------------
(* The verdict of Load *)

\* A nonempty set of naturals has a least element.
LEMMA LeastNatural ==
  ASSUME NEW N \in SUBSET Nat, N # {}
  PROVE  \E x \in N : \A y \in N : ~(y < x)
<1> DEFINE R == OpToRel(<, Nat)
<1>1. IsWellFoundedOn(R, Nat)
  BY NatLessThanWellFounded, Zenon
<1>2. \A x, y \in Nat : x < y => <<x, y>> \in R
  BY Zenon DEF OpToRel
<1> HIDE DEF R
<1>3. PICK x \in N : \A y \in N : ~(<<y, x>> \in R)
  BY <1>1, WFMin, Zenon
<1>4. \A y \in N : ~(y < x)
  BY <1>2, <1>3, Zenon
<1>5. QED
  BY <1>4, Zenon

\* The search's certificate excludes every cycle.
LEMMA CertifiedNotCyclic ==
  ASSUME NEW r, Certifies(r)
  PROVE  ~Cyclic
<1> SUFFICES ASSUME NEW S \in SUBSET Agent, S # {}, \A a \in S : \E b \in S : Edge(a, b)
             PROVE  FALSE
  BY Zenon DEF Cyclic
<1> DEFINE N == {r[a] : a \in S}
<1>1. N \in SUBSET Nat /\ N # {}
  BY Zenon DEF Certifies
<1>2. PICK x \in N : \A y \in N : ~(y < x)
  BY <1>1, LeastNatural, Zenon
<1>3. PICK a \in S : x = r[a]
  BY <1>2, Zenon
<1>4. PICK b \in S : Edge(a, b)
  BY <1>3, Zenon
<1>5. r[b] < r[a] /\ r[b] \in N
  BY <1>4, Zenon DEF Certifies
<1>6. QED
  BY <1>2, <1>3, <1>5, Zenon

\* On the stack each agent delegates to the one above it.
Chained(s) ==
  /\ \A i \in 1..Len(s) : s[i].agent \in spec.declared
  /\ \A i \in 1..(Len(s) - 1) :
       \E c \in 1..Len(Dels(s[i].agent)) : Dels(s[i].agent)[c] = s[i + 1].agent

\* The spec is what the document says; the stack is used only by the search, and
\* each of its agents is declared and delegates to the one above.
VerdictInv ==
  /\ spec = ParseRoot(doc)
  /\ load \in {"parse", "limits", "references"} \cup Past => stack = <<>>
  /\ load = "acyclic" => Chained(stack)
  /\ load = "rejected" /\ stack # <<>> => Cyclic
  /\ load \in {"pool", "loaded"} /\ doc.resolver /\ doc.required =>
       doc.signing = "object" /\ doc.mac = "right"

\* A gray child of the top entry is on the stack: from it upwards it is a cycle.
LEMMA GrayChildIsCycle ==
  ASSUME SpecType, SearchInv, stack # <<>>, Chained(stack),
         Top.next <= Len(Dels(Top.agent)), color[Child] = "gray"
  PROVE  Cyclic
<1> DEFINE n == Len(stack)
<1>1. /\ n \in Nat \ {0} /\ \A i \in 1..n : stack[i] \in Entry
      /\ \A i \in 1..n : stack[i].agent \in Agent /\ stack[i].next \in Nat \ {0}
  <2>1. stack \in Seq(Entry)
    BY Zenon DEF SearchInv, SearchType
  <2>2. n \in Nat \ {0} /\ \A i \in 1..n : stack[i] \in Entry
    BY <2>1
  <2>3. QED
    BY <2>2, Zenon DEF Entry
<1>2. /\ Top = stack[n] /\ Top.agent \in Agent /\ Top.next \in 1..Len(Dels(Top.agent))
      /\ Dels(Top.agent) \in Seq(Agent)
  BY <1>1 DEF Top, SpecType
<1>3. Child \in Agent /\ Child = Dels(Top.agent)[Top.next]
  BY <1>2 DEF Child
<1>4. PICK j \in 1..n : stack[j].agent = Child
  BY <1>3, Zenon DEF SearchInv, GrayIsStack
<1> DEFINE S == {stack[i].agent : i \in j..n}
<1>5. \A i \in j..n : i \in 1..n
  BY <1>1, <1>4
<1>6. S \in SUBSET Agent /\ Child \in S
  <2>1. j \in j..n
    BY <1>1, <1>4
  <2>2. QED
    BY <1>1, <1>4, <1>5, <2>1, Zenon
<1>7. ASSUME NEW i \in j..n PROVE \E b \in S : Edge(stack[i].agent, b)
  <2>1. stack[i].agent \in Agent /\ stack[i].agent \in spec.declared
    BY <1>1, <1>5, Zenon DEF Chained
  <2>2. Dels(stack[i].agent) \in Seq(Agent)
    BY <2>1, Zenon DEF SpecType
  <2>3. CASE i = n
    <3>1. Edge(stack[i].agent, Child)
      BY <1>2, <1>3, <2>1, <2>2, <2>3 DEF Edge
    <3>2. QED
      BY <1>6, <3>1, Zenon
  <2>4. CASE i # n
    <3>1. i \in 1..(n - 1) /\ i + 1 \in j..n
      BY <1>1, <1>4, <2>4
    <3>2. PICK c \in 1..Len(Dels(stack[i].agent)) : Dels(stack[i].agent)[c] = stack[i + 1].agent
      BY <3>1, Zenon DEF Chained
    <3>3. Edge(stack[i].agent, stack[i + 1].agent)
      BY <2>1, <2>2, <3>2 DEF Edge
    <3>4. QED
      BY <3>1, <3>3, Zenon
  <2>5. QED
    BY <2>3, <2>4, Zenon
<1>8. QED
  BY <1>6, <1>7, Zenon DEF Cyclic

\* A chain that depends on the agents only.
LEMMA ChainedFrame ==
  ASSUME Chained(stack), spec' = spec, Len(stack) \in Nat, Len(stack') \in Nat,
         Len(stack') <= Len(stack),
         \A i \in 1..Len(stack') : stack'[i].agent = stack[i].agent
  PROVE  Chained(stack)'
<1>1. \A a : Dels(a)' = Dels(a)
  BY Zenon DEF Dels
<1>2. \A i \in 1..Len(stack') : i \in 1..Len(stack)
  OBVIOUS
<1>3. \A i \in 1..(Len(stack') - 1) : i \in 1..(Len(stack) - 1) /\ i \in 1..Len(stack') /\ i + 1 \in 1..Len(stack')
  OBVIOUS
<1>4. QED
  BY <1>1, <1>2, <1>3, Zenon DEF Chained

\* Whether there is a cycle is a matter of the spec.
LEMMA CyclicFrame == ASSUME spec' = spec PROVE Cyclic => Cyclic'
<1>1. \A a, b : Edge(a, b)' <=> Edge(a, b)
  BY Zenon DEF Edge, Dels
<1>2. SUFFICES ASSUME Cyclic PROVE Cyclic'
  OBVIOUS
<1>3. PICK S \in SUBSET Agent : S # {} /\ \A a \in S : \E b \in S : Edge(a, b)
  BY <1>2, Zenon DEF Cyclic
<1>4. \A a \in S : \E b \in S : Edge(a, b)'
  BY <1>1, <1>3, Zenon
<1>5. QED
  BY <1>3, <1>4, Zenon DEF Cyclic

\* A pass may only reject with an empty stack, and what it checks of a signature
\* is what the document says.
LEMMA VerdictPass ==
  ASSUME VerdictInv, NEW this, NEW ok \in BOOLEAN, NEW next, Pass(this, ok, next),
         this \in {"parse", "limits", "references"} \cup Past,
         next \in {"limits", "references", "acyclic"} \cup Past,
         ok /\ next \in {"pool", "loaded"} =>
           (doc.resolver /\ doc.required => doc.signing = "object" /\ doc.mac = "right")
  PROVE  VerdictInv'
<1>1. UNCHANGED <<doc, spec, stack>> /\ load = this /\ load' \in {next, "rejected"}
      /\ (load' # "rejected" => ok /\ load' = next)
  BY Zenon DEF Pass
<1>2. stack' = <<>>
  BY <1>1, Zenon DEF VerdictInv
<1>3. (spec = ParseRoot(doc))'
  BY <1>1, Zenon DEF VerdictInv, ParseRoot, ParseAgentDef, ParseSigning, ParseDelegateSpec
<1>4. Chained(stack)'
  BY <1>2 DEF Chained
<1>5. load' \in {"pool", "loaded"} /\ doc'.resolver /\ doc'.required =>
        doc'.signing = "object" /\ doc'.mac = "right"
  BY <1>1, Zenon DEF Past
<1>6. QED
  BY <1>2, <1>3, <1>4, <1>5, Zenon DEF VerdictInv

\* A step of the search keeps the chain, or has found a cycle.
LEMMA VerdictSearch ==
  ASSUME LoaderInv, VerdictInv,
         (\E a \in Agent : StartRoot(a)) \/ VisitChild \/ FinishAgent \/ AcyclicEnds
  PROVE  VerdictInv'
<1>1. load = "acyclic" /\ UNCHANGED <<doc, spec>>
  BY Zenon DEF StartRoot, VisitChild, FinishAgent, AcyclicEnds
<1>2. /\ SpecType /\ SearchInv /\ Chained(stack) /\ stack \in Seq(Entry) /\ Len(stack) \in Nat
      /\ spec = ParseRoot(doc)
  BY <1>1 DEF LoaderInv, VerdictInv, Searching, SearchInv, SearchType
<1>3. (spec = ParseRoot(doc))'
  BY <1>1, <1>2, Zenon DEF ParseRoot, ParseAgentDef, ParseSigning, ParseDelegateSpec
<1>4. Cyclic => Cyclic'
  BY <1>1, CyclicFrame, Zenon
<1>5. ASSUME NEW a \in Agent, StartRoot(a) PROVE VerdictInv'
  <2>1. load' = "acyclic" /\ stack' = <<[agent |-> a, next |-> 1]>> /\ a \in spec.declared
    BY <1>1, <1>5, Zenon DEF StartRoot
  <2>2. Len(stack') = 1 /\ stack'[1].agent = a
    BY <2>1, Zenon
  <2>3. Chained(stack)'
    BY <1>1, <2>1, <2>2 DEF Chained
  <2>4. QED
    BY <1>3, <2>1, <2>3, Zenon DEF VerdictInv, Past
<1>6. CASE VisitChild
  <2>0. stack # <<>> /\ Top.next <= Len(Dels(Top.agent))
    BY <1>6, Zenon DEF VisitChild
  <2>1. /\ Len(Seen) = Len(stack) /\ Seen \in Seq(Entry)
        /\ \A i \in 1..Len(stack) : Seen[i].agent = stack[i].agent
    BY <1>2, <2>0, SeenIs, Zenon
  <2>2. CASE color[Child] = "gray"
    <3>1. load' = "rejected" /\ Cyclic'
      BY <1>2, <1>4, <1>6, <2>0, <2>2, GrayChildIsCycle, Zenon DEF VisitChild
    <3>2. QED
      BY <1>3, <3>1, Zenon DEF VerdictInv, Past
  <2>3. CASE color[Child] = "black"
    <3>1. load' = "acyclic" /\ stack' = Seen
      BY <1>1, <1>6, <2>3, Zenon DEF VisitChild, Seen
    <3>2. Chained(stack)'
      BY <1>1, <1>2, <2>1, <3>1, ChainedFrame
    <3>3. QED
      BY <1>3, <3>1, <3>2, Zenon DEF VerdictInv, Past
  <2>4. CASE color[Child] = "white"
    <3> DEFINE n == Len(stack)
    <3>1. load' = "acyclic" /\ stack' = Append(Seen, [agent |-> Child, next |-> 1])
      BY <1>1, <1>6, <2>4, Zenon DEF VisitChild, Seen
    <3>2. /\ n \in Nat \ {0} /\ Top = stack[n] /\ Top.agent \in Agent
          /\ Top.next \in 1..Len(Dels(Top.agent)) /\ Child = Dels(Top.agent)[Top.next]
      <4>1. n \in Nat \ {0} /\ stack[n] \in Entry /\ Top = stack[n]
        BY <1>2, <2>0 DEF Top
      <4>2. Top.agent \in Agent /\ Top.next \in Nat \ {0}
        BY <4>1, Zenon DEF Entry
      <4>3. Len(Dels(Top.agent)) \in Nat
        BY <1>2, <4>2 DEF SpecType
      <4>4. QED
        BY <2>0, <4>1, <4>2, <4>3 DEF Child
    <3>3. Top.agent \in spec.declared
      BY <1>2, <3>2 DEF Chained
    <3>4. Child \in spec.declared /\ Child \in Agent
      BY <1>1, <1>2, <3>2, <3>3, Zenon DEF LoaderInv, Declared, SpecType, Past
    <3>5. /\ Len(stack') = n + 1 /\ stack'[n + 1].agent = Child
          /\ \A i \in 1..n : stack'[i].agent = stack[i].agent
      <4>1. [agent |-> Child, next |-> 1] \in Entry
        BY <3>4 DEF Entry
      <4>2. QED
        BY <2>1, <3>1, <3>2, <4>1
    <3>6. \A a : Dels(a)' = Dels(a)
      BY <1>1, Zenon DEF Dels
    <3>7. \A i \in 1..Len(stack') : stack'[i].agent \in spec'.declared
      <4> SUFFICES ASSUME NEW i \in 1..(n + 1) PROVE stack'[i].agent \in spec.declared
        BY <1>1, <3>5, Zenon
      <4>1. i = n + 1 \/ i \in 1..n
        BY <3>2
      <4>2. QED
        BY <1>2, <3>4, <3>5, <4>1, Zenon DEF Chained
    <3>8. ASSUME NEW i \in 1..n
          PROVE  \E c \in 1..Len(Dels(stack[i].agent)) : Dels(stack[i].agent)[c] = stack'[i + 1].agent
      <4>1. CASE i = n
        BY <3>2, <3>5, <4>1, Zenon
      <4>2. CASE i # n
        <5>1. i \in 1..(n - 1) /\ i + 1 \in 1..n
          BY <3>2, <4>2
        <5>2. QED
          BY <1>2, <3>5, <5>1, Zenon DEF Chained
      <4>3. QED
        BY <4>1, <4>2, Zenon
    <3>9. Chained(stack)'
      <4>1. Len(stack') - 1 = n
        BY <3>2, <3>5
      <4>2. QED
        BY <3>5, <3>6, <3>7, <3>8, <4>1, Zenon DEF Chained
    <3>10. QED
      BY <1>3, <3>1, <3>9, Zenon DEF VerdictInv, Past
  <2>5. QED
    BY <1>6, <2>2, <2>3, <2>4, Zenon DEF VisitChild
<1>7. CASE FinishAgent
  <2>1. load' = "acyclic" /\ stack' = Below /\ stack # <<>>
    BY <1>1, <1>7, Zenon DEF FinishAgent
  <2>2. /\ Below \in Seq(Entry) /\ Len(Below) = Len(stack) - 1
        /\ \A i \in 1..(Len(stack) - 1) : Below[i] = stack[i]
    BY <1>2, <2>1, BelowIs, Zenon DEF Below
  <2>3. Len(Below) \in Nat
    BY <2>2
  <2>4. Chained(stack)'
    BY <1>1, <1>2, <2>1, <2>2, <2>3, ChainedFrame
  <2>5. QED
    BY <1>3, <2>1, <2>4, Zenon DEF VerdictInv, Past
<1>8. CASE AcyclicEnds
  <2>1. load' = "templates" /\ stack' = <<>>
    BY <1>8, Zenon DEF AcyclicEnds
  <2>2. QED
    BY <1>3, <2>1, Zenon DEF VerdictInv, Past
<1>9. QED
  BY <1>5, <1>6, <1>7, <1>8, Zenon

\* Every step of Load keeps the verdict right.
LEMMA VerdictStep == LoaderInv /\ VerdictInv /\ [LNext]_lvars => VerdictInv'
<1> SUFFICES ASSUME LoaderInv, VerdictInv, [LNext]_lvars PROVE VerdictInv'
  OBVIOUS
<1>0. Past = {"templates", "signing", "pool", "loaded"}
  BY Zenon DEF Past
<1>1. CASE Parse
  <2> DEFINE ok == RootOk(doc) /\ SchemaOk(doc)
  <2>1. Pass("parse", ok, "limits") /\ ok \in BOOLEAN
    BY <1>1, Zenon DEF Parse
  <2> HIDE DEF ok
  <2>2. QED
    BY <2>1, VerdictPass, Zenon
<1>2. CASE CheckResourceLimits
  <2> DEFINE ok == /\ Cardinality(spec.declared) <= MaxAgents
                   /\ \A a \in spec.declared :
                        /\ Cardinality(Def(a).tools) <= MaxToolsPerAgent
                        /\ Len(Dels(a)) <= MaxDelegateAgents
                        /\ Def(a).delegates.maxDepth <= MaxDelegateDepth
  <2>1. Pass("limits", ok, "references") /\ ok \in BOOLEAN
    BY <1>2, Zenon DEF CheckResourceLimits
  <2> HIDE DEF ok
  <2>2. QED
    BY <2>1, VerdictPass, Zenon
<1>3. CASE CheckReferences
  <2> DEFINE ok == /\ spec.main \in spec.declared
                   /\ \A a \in spec.declared :
                        /\ "delegate" \notin Def(a).tools /\ Def(a).tools \subseteq HostTool
                        /\ \A i \in DOMAIN Dels(a) : Dels(a)[i] \in spec.declared
  <2>1. Pass("references", ok, "acyclic") /\ ok \in BOOLEAN
    BY <1>3, Zenon DEF CheckReferences
  <2> HIDE DEF ok
  <2>2. QED
    BY <2>1, VerdictPass, Zenon
<1>4. CASE (\E a \in Agent : StartRoot(a)) \/ VisitChild \/ FinishAgent \/ AcyclicEnds
  BY <1>4, VerdictSearch, Zenon
<1>5. CASE CheckTemplates
  <2> DEFINE ok == \A a \in spec.declared : Def(a).hasDelegates => Def(a).fields \subseteq {"known"}
  <2>1. Pass("templates", ok, "signing") /\ ok \in BOOLEAN
    BY <1>5, Zenon DEF CheckTemplates
  <2> HIDE DEF ok
  <2>2. QED
    BY <1>0, <2>1, VerdictPass, Zenon
<1>6. CASE CheckSigning
  <2> DEFINE ok == IF HasSigning(spec.signing) THEN doc.resolver => VerifySignature(spec.signing)
                                               ELSE ~doc.required
  <2>1. Pass("signing", ok, "pool") /\ ok \in BOOLEAN
    BY <1>6, Zenon DEF CheckSigning
  <2>2. spec.signing = ParseSigning(doc)
    BY Zenon DEF VerdictInv, ParseRoot
  <2>3. ParseSigning(doc).mac = "right" => doc.signing = "object" /\ doc.mac = "right"
    BY Zenon DEF ParseSigning
  <2>4. ok /\ doc.resolver /\ doc.required => doc.signing = "object" /\ doc.mac = "right"
    BY <2>2, <2>3, Zenon DEF VerifySignature
  <2> HIDE DEF ok
  <2>5. QED
    BY <1>0, <2>1, <2>4, VerdictPass, Zenon
<1>7. CASE BuildStatePool
  <2>1. Pass("pool", doc.pool # "failed", "loaded") /\ load = "pool"
    BY <1>7, Zenon DEF BuildStatePool, Pass
  <2>2. QED
    BY <1>0, <2>1, VerdictPass, Zenon DEF VerdictInv
<1>8. CASE UNCHANGED lvars
  <2>1. UNCHANGED <<doc, spec, load, stack>>
    BY <1>8, Zenon DEF lvars
  <2>2. (spec = ParseRoot(doc))'
    BY <2>1, Zenon DEF VerdictInv, ParseRoot, ParseAgentDef, ParseSigning, ParseDelegateSpec
  <2>3. Cyclic => Cyclic'
    BY <2>1, CyclicFrame, Zenon
  <2>4. Chained(stack) => Chained(stack)'
    BY <2>1, Zenon DEF Chained, Dels
  <2>5. QED
    BY <2>1, <2>2, <2>3, <2>4, Zenon DEF VerdictInv
<1>9. QED
  BY <1>1, <1>2, <1>3, <1>4, <1>5, <1>6, <1>7, <1>8, Zenon DEF LNext

\* For every set of agents and documents, in whatever order the search takes the
\* roots: WorkflowLoader::Load reports a cycle exactly when there is one, and what
\* it loads delegates to declared agents only and is signed where it must be.
THEOREM LoadIsRight == Spec => []LoadDecides
<1>1. Init => VerdictInv
  BY Zenon DEF Init, LInit, VerdictInv, Past
<1>2. [Next]_vars => [LNext]_lvars
  BY Zenon DEF Next, BuildAgentNode, Delegate, NestedDelegate, CallStep, Turn, StreamToken,
         SendToken, Reply, NextTurn, SendSentinel, DrainReceives, DrainSends, Consume,
         MainEnds, Cancel, vars
<1>3. LoaderInv /\ VerdictInv => LoadDecides
  <2> SUFFICES ASSUME LoaderInv, VerdictInv PROVE LoadDecides
    OBVIOUS
  <2>1. load \in Past => ~Cyclic
    BY CertifiedNotCyclic, Zenon DEF LoaderInv
  <2>2. load \in Past => \A a, b \in Agent : Edge(a, b) => b \in spec.declared
    <3> SUFFICES ASSUME load \in Past, NEW a \in Agent, NEW b \in Agent, Edge(a, b)
                 PROVE  b \in spec.declared
      OBVIOUS
    <3>1. Declared /\ Dels(a) \in Seq(Agent)
      BY Zenon DEF LoaderInv, SpecType
    <3>2. a \in spec.declared /\ \E i \in 1..Len(Dels(a)) : Dels(a)[i] = b
      BY <3>1 DEF Edge
    <3>3. QED
      BY <3>1, <3>2, Zenon DEF Declared
  <2>3. QED
    BY <2>1, <2>2, Zenon DEF VerdictInv, LoadDecides, Past
<1>4. VerdictInv /\ LoaderInv /\ [Next]_vars => VerdictInv'
  BY <1>2, VerdictStep, Zenon
<1>5. QED
  BY <1>1, <1>3, <1>4, Inductive, PTL DEF Spec

\* The chain of a call, by levels.
LEMMA ChainIs ==
  ASSUME RunInv, NEW k \in Call
  PROVE  /\ Len(frames[k]) \in Nat /\ DOMAIN frames[k] = 1..Len(frames[k])
         /\ DOMAIN Chain(k) = 1..(Len(frames[k]) + 1)
         /\ \A i \in 1..(Len(frames[k]) + 1) : Chain(k)[i] = Level(frames[k], i - 1)
<1> DEFINE f == frames[k]
           n == Len(f)
           names == [i \in DOMAIN f |-> f[i].agent]
<1>1. f \in Seq(Frame) /\ n \in Nat /\ DOMAIN f = 1..n
  BY DEF RunInv, CallInv, StackOk
<1>2. names \in Seq(Agent) /\ Len(names) = n /\ \A i \in 1..n : names[i] = f[i].agent
  <2>1. \A i \in 1..n : f[i].agent \in Agent
    <3>1. \A i \in 1..n : f[i] \in Frame
      BY <1>1
    <3>2. QED
      BY <3>1, Zenon DEF Frame
  <2>2. names \in [1..n -> Agent]
    BY <1>1, <2>1, Zenon
  <2>3. \A i \in 1..n : names[i] = f[i].agent
    BY <1>1, Zenon
  <2> HIDE DEF names
  <2>4. names \in Seq(Agent) /\ Len(names) = n
    BY <1>1, <2>2
  <2>5. QED
    BY <2>3, <2>4, Zenon
<1> HIDE DEF names
<1>3. /\ DOMAIN (<<spec.main>> \o names) = 1..(n + 1)
      /\ \A i \in 1..(n + 1) :
           (<<spec.main>> \o names)[i] = IF i = 1 THEN spec.main ELSE names[i - 1]
  BY <1>1, <1>2
<1>4. Chain(k) = <<spec.main>> \o names
  BY Zenon DEF Chain, names
<1>5. ASSUME NEW i \in 1..(n + 1) PROVE Chain(k)[i] = Level(f, i - 1)
  <2>1. CASE i = 1
    BY <1>3, <1>4, <2>1 DEF Level
  <2>2. CASE i # 1
    <3>1. i - 1 \in 1..n /\ i - 1 # 0
      BY <1>1, <2>2
    <3>2. QED
      BY <1>2, <1>3, <1>4, <2>2, <3>1, Zenon DEF Level
  <2>3. QED
    BY <2>1, <2>2, Zenon
<1>6. QED
  BY <1>1, <1>3, <1>4, <1>5, Zenon

\* For every set of agents, documents, concurrent calls and capacities: no
\* agent is at work twice in one delegate call, and every level is within the
\* max_depth of the agent that opened it (SubAgentRuntime::RunAsync).
THEOREM NeverRecursive == Spec => []NoRecursion
<1>1. LoaderInv /\ RunInv => NoRecursion
  <2> SUFFICES ASSUME LoaderInv, RunInv, NEW k \in Call
               PROVE  /\ \A i, j \in DOMAIN Chain(k) : Chain(k)[i] = Chain(k)[j] => i = j
                      /\ \A i \in DOMAIN frames[k] :
                           i - 1 < Def(Chain(k)[i]).delegates.maxDepth
    BY Zenon DEF NoRecursion
  <2> DEFINE f == frames[k]
             n == Len(f)
  <2>1. /\ n \in Nat /\ DOMAIN f = 1..n /\ DOMAIN Chain(k) = 1..(n + 1)
        /\ \A i \in 1..(n + 1) : Chain(k)[i] = Level(f, i - 1)
    BY ChainIs, Zenon
  <2>2. StackOk(f) /\ (f # <<>> => load = "loaded") /\ (n # 0 => f # <<>>)
    BY DEF RunInv, CallInv
  <2>3. \A i \in 1..n : i \in 1..(n + 1) /\ i - 1 < Def(Level(f, i - 1)).delegates.maxDepth
    <3>1. \A i \in 1..n : i \in 1..(n + 1)
      BY <2>1
    <3>2. \A i \in 1..n : i - 1 < Def(Level(f, i - 1)).delegates.maxDepth
      BY <2>2, Zenon DEF StackOk
    <3>3. QED
      BY <3>1, <3>2, Zenon
  <2>4. ASSUME NEW i \in 1..(n + 1), NEW j \in 1..(n + 1), i < j
        PROVE  Chain(k)[i] # Chain(k)[j]
    <3>1. n # 0
      BY <2>1, <2>4
    <3>2. PICK r : Certifies(r)
      BY <2>2, <3>1, Zenon DEF LoaderInv, Past
    <3>3. i - 1 \in 0..n /\ j - 1 \in 0..n /\ i - 1 < j - 1
      BY <2>1, <2>4
    <3>4. r[Level(f, j - 1)] < r[Level(f, i - 1)]
      BY <2>2, <3>2, <3>3, Zenon DEF StackOk
    <3>5. Level(f, i - 1) \in Agent /\ r \in [Agent -> Nat]
      <4>1. SpecType /\ r \in [Agent -> Nat]
        BY <3>2, Zenon DEF LoaderInv, Certifies
      <4>2. CASE i - 1 = 0
        BY <4>1, <4>2, Zenon DEF Level, SpecType
      <4>3. CASE i - 1 # 0
        <5>1. i - 1 \in 1..n
          BY <2>1, <3>3, <4>3
        <5>2. Level(f, i - 1) \in spec.declared
          BY <2>2, <5>1, Zenon DEF StackOk
        <5>3. QED
          BY <4>1, <5>2, Zenon DEF SpecType
      <4>4. QED
        BY <4>1, <4>2, <4>3, Zenon
    <3>6. QED
      BY <2>1, <3>4, <3>5
  <2>5. QED
    BY <2>1, <2>3, <2>4
<1>2. QED
  BY Inductive, <1>1, PTL
-----------------------------------------------------------------------------
(* The tokens of a call on their way to the consumer: taken by it (se), in *)
(* the run's channel (tp), in the drain's hand (ha), in the call's channel *)
(* (su).                                                                   *)

Mine(k, tp) == {i \in 1..Len(tp) : tp[i][1] = k}
Live(su) == {i \in 1..Len(su) : su[i] # 0}

\* What is nearer to the consumer was streamed earlier.
Ordered(k, se, tp, ha, su) ==
  /\ \A i, j \in 1..Len(se) : i < j => se[i] < se[j]
  /\ \A i \in 1..Len(se), j \in Mine(k, tp) : se[i] < tp[j][2]
  /\ \A i \in 1..Len(se) : ha # 0 => se[i] < ha
  /\ \A i \in 1..Len(se), j \in Live(su) : se[i] < su[j]
  /\ \A i, j \in Mine(k, tp) : i < j => tp[i][2] < tp[j][2]
  /\ \A i \in Mine(k, tp) : ha # 0 => tp[i][2] < ha
  /\ \A i \in Mine(k, tp), j \in Live(su) : tp[i][2] < su[j]
  /\ \A j \in Live(su) : ha # 0 => ha < su[j]
  /\ \A i, j \in Live(su) : i < j => su[i] < su[j]

Carried(k, se, tp, ha, su) ==
  {se[i] : i \in 1..Len(se)} \cup {tp[i][2] : i \in Mine(k, tp)}
    \cup ({ha} \ {0}) \cup {su[i] : i \in Live(su)}

Carries(k, se, tp, ha, su, n) == Carried(k, se, tp, ha, su) = 1..n

\* The places of a sequence before and after a send, and a receive.
LEMMA AppendPlaces ==
  ASSUME NEW S, NEW s \in Seq(S), NEW x \in S
  PROVE  LET t == Append(s, x)
             n == Len(t)
         IN /\ t \in Seq(S) /\ n \in 1..n /\ t[n] = x /\ ~(n < n)
            /\ \A i \in 1..Len(s) : i \in 1..n /\ t[i] = s[i] /\ i < n /\ ~(n < i)
            /\ \A i \in 1..n : i = n \/ i \in 1..Len(s)
  OBVIOUS

LEMMA TailPlaces ==
  ASSUME NEW S, NEW s \in Seq(S), s # <<>>
  PROVE  LET t == Tail(s)
         IN /\ t \in Seq(S) /\ 1 \in 1..Len(s) /\ Head(s) = s[1] /\ s[1] \in S
            /\ \A i \in 1..Len(t) : i \in Int /\ i + 1 \in 1..Len(s) /\ t[i] = s[i + 1] /\ 1 < i + 1
            /\ \A i \in 1..Len(s) : i = 1 \/ (i - 1 \in 1..Len(t) /\ t[i - 1] = s[i])
            /\ \A i, j \in 1..Len(t) : i < j => i + 1 < j + 1
  OBVIOUS

\* A token, or the sentinel, enters the call's channel.
LEMMA TokenEnters ==
  ASSUME NEW k, NEW se, NEW tp, NEW ha, NEW su \in Seq(Nat), NEW x \in Nat,
         Ordered(k, se, tp, ha, su), x # 0 => \A t \in Carried(k, se, tp, ha, su) : t < x
  PROVE  /\ Ordered(k, se, tp, ha, Append(su, x))
         /\ Carried(k, se, tp, ha, Append(su, x)) = Carried(k, se, tp, ha, su) \cup ({x} \ {0})
<1> DEFINE t == Append(su, x)
           n == Len(t)
<1>1. /\ n \in 1..n /\ t[n] = x /\ ~(n < n)
      /\ \A i \in 1..Len(su) : i \in 1..n /\ t[i] = su[i] /\ i < n /\ ~(n < i)
      /\ \A i \in 1..n : i = n \/ i \in 1..Len(su)
  BY AppendPlaces, Zenon
<1> HIDE DEF t
<1>2. \A i \in Live(su) : i \in Live(t) /\ t[i] = su[i] /\ i < n /\ ~(n < i)
  BY <1>1, Zenon DEF Live
<1>3. \A i \in Live(t) : (i = n /\ t[i] = x /\ x # 0) \/ (i \in Live(su) /\ t[i] = su[i])
  BY <1>1, Zenon DEF Live
<1>4. x # 0 => n \in Live(t)
  BY <1>1, Zenon DEF Live
<1>5. x # 0 => /\ \A i \in 1..Len(se) : se[i] < x
               /\ \A i \in Mine(k, tp) : tp[i][2] < x
               /\ ha # 0 => ha < x
               /\ \A i \in Live(su) : su[i] < x
  BY Zenon DEF Carried
<1>6. Ordered(k, se, tp, ha, t)
  <2>1. \A i \in 1..Len(se), j \in Live(t) : se[i] < t[j]
    BY <1>3, <1>5, Zenon DEF Ordered
  <2>2. \A i \in Mine(k, tp), j \in Live(t) : tp[i][2] < t[j]
    BY <1>3, <1>5, Zenon DEF Ordered
  <2>3. \A j \in Live(t) : ha # 0 => ha < t[j]
    BY <1>3, <1>5, Zenon DEF Ordered
  <2>4. \A i, j \in Live(t) : i < j => t[i] < t[j]
    BY <1>1, <1>2, <1>3, <1>5, Zenon DEF Ordered
  <2>5. QED
    BY <2>1, <2>2, <2>3, <2>4, Zenon DEF Ordered
<1>7. {t[i] : i \in Live(t)} = {su[i] : i \in Live(su)} \cup ({x} \ {0})
  <2>1. \A i \in Live(t) : t[i] \in {su[j] : j \in Live(su)} \cup ({x} \ {0})
    BY <1>3, Zenon
  <2>2. \A i \in Live(su) : su[i] \in {t[j] : j \in Live(t)}
    BY <1>2, Zenon
  <2>3. \A y \in {x} \ {0} : y \in {t[j] : j \in Live(t)}
    BY <1>1, <1>4, Zenon
  <2>4. QED
    BY <2>1, <2>2, <2>3, Zenon
<1>8. Carried(k, se, tp, ha, t) = Carried(k, se, tp, ha, su) \cup ({x} \ {0})
  BY <1>7, Zenon DEF Carried
<1>9. QED
  BY <1>6, <1>8, Zenon DEF t

\* The drain takes a token, or the sentinel, from the call's channel.
LEMMA TokenTaken ==
  ASSUME NEW k, NEW se, NEW tp, NEW su \in Seq(Nat), su # <<>>, Ordered(k, se, tp, 0, su)
  PROVE  /\ Ordered(k, se, tp, Head(su), Tail(su))
         /\ \A m : Carries(k, se, tp, 0, su, m) => Carries(k, se, tp, Head(su), Tail(su), m)
<1> DEFINE t == Tail(su)
           x == Head(su)
<1>1. /\ 1 \in 1..Len(su) /\ x = su[1]
      /\ \A i \in 1..Len(t) : i \in Int /\ i + 1 \in 1..Len(su) /\ t[i] = su[i + 1] /\ 1 < i + 1
      /\ \A i \in 1..Len(su) : i = 1 \/ (i - 1 \in 1..Len(t) /\ t[i - 1] = su[i])
      /\ \A i, j \in 1..Len(t) : i < j => i + 1 < j + 1
  BY TailPlaces, Zenon
<1> HIDE DEF t, x
<1>2. \A i \in Live(t) : i + 1 \in Live(su) /\ t[i] = su[i + 1] /\ 1 < i + 1
  BY <1>1, Zenon DEF Live
<1>3. \A i \in Live(su) : (i = 1 /\ x # 0) \/ (i - 1 \in Live(t) /\ t[i - 1] = su[i])
  BY <1>1, Zenon DEF Live
<1>4. x # 0 => 1 \in Live(su)
  BY <1>1, Zenon DEF Live
<1>5. \A i, j \in Live(t) : i < j => i + 1 < j + 1
  BY <1>1, Zenon DEF Live
<1>6. Ordered(k, se, tp, x, t)
  <2>1. \A i \in 1..Len(se) : x # 0 => se[i] < x
    BY <1>1, <1>4, Zenon DEF Ordered
  <2>2. \A i \in 1..Len(se), j \in Live(t) : se[i] < t[j]
    BY <1>2, Zenon DEF Ordered
  <2>3. \A i \in Mine(k, tp) : x # 0 => tp[i][2] < x
    BY <1>1, <1>4, Zenon DEF Ordered
  <2>4. \A i \in Mine(k, tp), j \in Live(t) : tp[i][2] < t[j]
    BY <1>2, Zenon DEF Ordered
  <2>5. \A j \in Live(t) : x # 0 => x < t[j]
    BY <1>1, <1>2, <1>4, Zenon DEF Ordered
  <2>6. \A i, j \in Live(t) : i < j => t[i] < t[j]
    BY <1>2, <1>5, Zenon DEF Ordered
  <2>7. QED
    BY <2>1, <2>2, <2>3, <2>4, <2>5, <2>6, Zenon DEF Ordered
<1>7. ({x} \ {0}) \cup {t[i] : i \in Live(t)} = {su[i] : i \in Live(su)}
  <2>1. \A i \in Live(t) : t[i] \in {su[j] : j \in Live(su)}
    BY <1>2, Zenon
  <2>2. \A i \in Live(su) : su[i] \in ({x} \ {0}) \cup {t[j] : j \in Live(t)}
    BY <1>1, <1>3, Zenon
  <2>3. \A y \in {x} \ {0} : y \in {su[j] : j \in Live(su)}
    BY <1>1, <1>4, Zenon
  <2>4. QED
    BY <2>1, <2>2, <2>3, Zenon
<1>8. Carried(k, se, tp, x, t) = Carried(k, se, tp, 0, su)
  BY <1>7, Zenon DEF Carried
<1>9. QED
  BY <1>6, <1>8, Zenon DEF Carries, t, x

\* The drain puts its token into the run's channel.
LEMMA TokenSent ==
  ASSUME NEW k \in Call, NEW se, NEW tp \in Seq(Call \X Nat), NEW ha \in Nat, NEW su, ha # 0,
         Ordered(k, se, tp, ha, su)
  PROVE  /\ Ordered(k, se, Append(tp, <<k, ha>>), 0, su)
         /\ \A m : Carries(k, se, tp, ha, su, m) => Carries(k, se, Append(tp, <<k, ha>>), 0, su, m)
<1> DEFINE t == Append(tp, <<k, ha>>)
           n == Len(t)
<1>1. /\ n \in 1..n /\ t[n] = <<k, ha>> /\ ~(n < n)
      /\ \A i \in 1..Len(tp) : i \in 1..n /\ t[i] = tp[i] /\ i < n /\ ~(n < i)
      /\ \A i \in 1..n : i = n \/ i \in 1..Len(tp)
  <2>1. <<k, ha>> \in Call \X Nat
    BY Zenon
  <2>2. QED
    BY <2>1, AppendPlaces, Zenon
<1>2. t[n][1] = k /\ t[n][2] = ha
  BY <1>1
<1> HIDE DEF t
<1>3. \A i \in Mine(k, tp) : i \in Mine(k, t) /\ t[i] = tp[i] /\ i < n /\ ~(n < i)
  BY <1>1, Zenon DEF Mine
<1>4. \A i \in Mine(k, t) : i = n \/ (i \in Mine(k, tp) /\ t[i] = tp[i])
  BY <1>1, Zenon DEF Mine
<1>5. n \in Mine(k, t)
  BY <1>1, <1>2, Zenon DEF Mine
<1>6. Ordered(k, se, t, 0, su)
  <2>1. \A i \in 1..Len(se), j \in Mine(k, t) : se[i] < t[j][2]
    BY <1>2, <1>4, Zenon DEF Ordered
  <2>2. \A i, j \in Mine(k, t) : i < j => t[i][2] < t[j][2]
    <3>1. \A i \in Mine(k, tp) : tp[i][2] < ha
      BY Zenon DEF Ordered
    <3>2. \A i, j \in Mine(k, tp) : i < j => tp[i][2] < tp[j][2]
      BY Zenon DEF Ordered
    <3>3. ASSUME NEW i \in Mine(k, t), NEW j \in Mine(k, t), i < j PROVE t[i][2] < t[j][2]
      <4>1. i # n /\ i \in Mine(k, tp) /\ t[i] = tp[i]
        BY <1>1, <1>3, <1>4, <3>3, Zenon
      <4>2. CASE j = n
        BY <1>2, <3>1, <4>1, <4>2, Zenon
      <4>3. CASE j # n
        BY <1>4, <3>2, <3>3, <4>1, <4>3, Zenon
      <4>4. QED
        BY <4>2, <4>3, Zenon
    <3>4. QED
      BY <3>3, Zenon
  <2>3. \A i \in Mine(k, t), j \in Live(su) : t[i][2] < su[j]
    BY <1>2, <1>4, Zenon DEF Ordered
  <2>4. QED
    BY <2>1, <2>2, <2>3, Zenon DEF Ordered
<1>7. {t[i][2] : i \in Mine(k, t)} = {tp[i][2] : i \in Mine(k, tp)} \cup ({ha} \ {0})
  <2>1. \A i \in Mine(k, t) : t[i][2] \in {tp[j][2] : j \in Mine(k, tp)} \cup ({ha} \ {0})
    BY <1>2, <1>4, Zenon
  <2>2. \A i \in Mine(k, tp) : tp[i][2] \in {t[j][2] : j \in Mine(k, t)}
    BY <1>3, Zenon
  <2>3. ha \in {t[j][2] : j \in Mine(k, t)}
    BY <1>2, <1>5, Zenon
  <2>4. QED
    BY <2>1, <2>2, <2>3, Zenon
<1>8. Carried(k, se, t, 0, su) = Carried(k, se, tp, ha, su)
  BY <1>7, Zenon DEF Carried
<1>9. QED
  BY <1>6, <1>8, Zenon DEF Carries, t

\* The consumer takes the next token of the run's channel.
LEMMA TokenConsumed ==
  ASSUME NEW k \in Call, NEW se \in Seq(Nat), NEW tp \in Seq(Call \X Nat), NEW ha, NEW su, tp # <<>>,
         Head(tp)[1] = k, Ordered(k, se, tp, ha, su)
  PROVE  /\ Ordered(k, Append(se, Head(tp)[2]), Tail(tp), ha, su)
         /\ \A m : Carries(k, se, tp, ha, su, m) => Carries(k, Append(se, Head(tp)[2]), Tail(tp), ha, su, m)
<1> DEFINE q == Tail(tp)
           x == Head(tp)[2]
           t == Append(se, x)
           n == Len(t)
<1>1. /\ 1 \in 1..Len(tp) /\ Head(tp) = tp[1] /\ tp[1] \in Call \X Nat
      /\ \A i \in 1..Len(q) : i \in Int /\ i + 1 \in 1..Len(tp) /\ q[i] = tp[i + 1] /\ 1 < i + 1
      /\ \A i \in 1..Len(tp) : i = 1 \/ (i - 1 \in 1..Len(q) /\ q[i - 1] = tp[i])
      /\ \A i, j \in 1..Len(q) : i < j => i + 1 < j + 1
  BY TailPlaces, Zenon
<1>2. x \in Nat
  BY <1>1, Zenon
<1> HIDE DEF q, x
<1>3. /\ n \in 1..n /\ t[n] = x /\ ~(n < n)
      /\ \A i \in 1..Len(se) : i \in 1..n /\ t[i] = se[i] /\ i < n /\ ~(n < i)
      /\ \A i \in 1..n : i = n \/ i \in 1..Len(se)
  BY <1>2, AppendPlaces, Zenon
<1> HIDE DEF t, n
<1>4. 1 \in Mine(k, tp) /\ tp[1][2] = x
  BY <1>1, Zenon DEF Mine, x
<1>5. \A i \in Mine(k, q) : i + 1 \in Mine(k, tp) /\ q[i] = tp[i + 1] /\ 1 < i + 1
  BY <1>1, Zenon DEF Mine
<1>6. \A i \in Mine(k, tp) : i = 1 \/ (i - 1 \in Mine(k, q) /\ q[i - 1] = tp[i])
  BY <1>1, Zenon DEF Mine
<1>7. \A i, j \in Mine(k, q) : i < j => i + 1 < j + 1
  BY <1>1, Zenon DEF Mine
<1>8. \A i \in 1..n : (i = n /\ t[i] = x) \/ (i \in 1..Len(se) /\ t[i] = se[i])
  BY <1>3, Zenon
<1>9. Ordered(k, t, q, ha, su)
  <2>1. \A i, j \in 1..n : i < j => t[i] < t[j]
    <3>1. \A i \in 1..Len(se) : se[i] < x
      BY <1>4, Zenon DEF Ordered
    <3>2. QED
      BY <1>3, <1>8, <3>1, Zenon DEF Ordered
  <2>2. \A i \in 1..n, j \in Mine(k, q) : t[i] < q[j][2]
    <3>1. \A j \in Mine(k, q) : x < q[j][2]
      BY <1>4, <1>5, Zenon DEF Ordered
    <3>2. \A i \in 1..Len(se), j \in Mine(k, q) : se[i] < q[j][2]
      BY <1>5, Zenon DEF Ordered
    <3>3. QED
      BY <1>8, <3>1, <3>2, Zenon
  <2>3. \A i \in 1..n : ha # 0 => t[i] < ha
    BY <1>4, <1>8, Zenon DEF Ordered
  <2>4. \A i \in 1..n, j \in Live(su) : t[i] < su[j]
    BY <1>4, <1>8, Zenon DEF Ordered
  <2>5. \A i, j \in Mine(k, q) : i < j => q[i][2] < q[j][2]
    BY <1>5, <1>7, Zenon DEF Ordered
  <2>6. \A i \in Mine(k, q) : ha # 0 => q[i][2] < ha
    BY <1>5, Zenon DEF Ordered
  <2>7. \A i \in Mine(k, q), j \in Live(su) : q[i][2] < su[j]
    BY <1>5, Zenon DEF Ordered
  <2>8. QED
    BY <2>1, <2>2, <2>3, <2>4, <2>5, <2>6, <2>7, Zenon DEF Ordered, n
<1>10. {t[i] : i \in 1..n} \cup {q[i][2] : i \in Mine(k, q)}
         = {se[i] : i \in 1..Len(se)} \cup {tp[i][2] : i \in Mine(k, tp)}
  <2>1. \A i \in 1..n : t[i] \in {se[j] : j \in 1..Len(se)} \cup {tp[j][2] : j \in Mine(k, tp)}
    BY <1>4, <1>8, Zenon
  <2>2. \A i \in Mine(k, q) : q[i][2] \in {tp[j][2] : j \in Mine(k, tp)}
    BY <1>5, Zenon
  <2>3. \A i \in 1..Len(se) : se[i] \in {t[j] : j \in 1..n}
    BY <1>3, Zenon
  <2>4. \A i \in Mine(k, tp) : tp[i][2] \in {t[j] : j \in 1..n} \cup {q[j][2] : j \in Mine(k, q)}
    <3>1. x \in {t[j] : j \in 1..n}
      BY <1>3, Zenon
    <3>2. ASSUME NEW i \in Mine(k, tp), i # 1 PROVE tp[i][2] \in {q[j][2] : j \in Mine(k, q)}
      BY <1>6, <3>2, Zenon
    <3>3. QED
      BY <1>4, <3>1, <3>2, Zenon
  <2>5. QED
    <3> DEFINE A == {t[i] : i \in 1..n}
               B == {q[i][2] : i \in Mine(k, q)}
               C == {se[i] : i \in 1..Len(se)}
               D == {tp[i][2] : i \in Mine(k, tp)}
    <3>1. A \subseteq C \cup D /\ B \subseteq D
      BY <2>1, <2>2, Zenon
    <3>2. C \subseteq A /\ D \subseteq A \cup B
      BY <2>3, <2>4, Zenon
    <3> HIDE DEF A, B, C, D
    <3>3. A \cup B = C \cup D
      BY <3>1, <3>2, Zenon
    <3>4. QED
      BY <3>3, Zenon DEF A, B, C, D
<1>11. Carried(k, t, q, ha, su) = Carried(k, se, tp, ha, su)
  BY <1>10, Zenon DEF Carried, n
<1>12. QED
  BY <1>9, <1>11, Zenon DEF Carries, t, q, x

\* In the run's channel the tokens of k are all there still, n places up.
MovedUp(k, tp, q, n) ==
  /\ \A i, j \in Mine(k, q) : i < j => i + n < j + n
  /\ \A i \in Mine(k, q) : i + n \in Mine(k, tp) /\ q[i] = tp[i + n]
  /\ \A i \in Mine(k, tp) : \E j \in Mine(k, q) : q[j] = tp[i]

LEMMA OthersMove ==
  ASSUME NEW k, NEW se, NEW tp, NEW ha, NEW su, NEW q, NEW n, MovedUp(k, tp, q, n), Ordered(k, se, tp, ha, su)
  PROVE  /\ Ordered(k, se, q, ha, su)
         /\ \A m : Carries(k, se, tp, ha, su, m) => Carries(k, se, q, ha, su, m)
<1>0. /\ \A i, j \in Mine(k, q) : i < j => i + n < j + n
      /\ \A i \in Mine(k, q) : i + n \in Mine(k, tp) /\ q[i] = tp[i + n]
      /\ \A i \in Mine(k, tp) : \E j \in Mine(k, q) : q[j] = tp[i]
  BY Zenon DEF MovedUp
<1> USE <1>0
<1>1. \A i \in 1..Len(se), j \in Mine(k, q) : se[i] < q[j][2]
  BY Zenon DEF Ordered
<1>2. \A i, j \in Mine(k, q) : i < j => q[i][2] < q[j][2]
  BY Zenon DEF Ordered
<1>3. \A i \in Mine(k, q) : ha # 0 => q[i][2] < ha
  BY Zenon DEF Ordered
<1>4. \A i \in Mine(k, q), j \in Live(su) : q[i][2] < su[j]
  BY Zenon DEF Ordered
<1>5. {q[i][2] : i \in Mine(k, q)} = {tp[i][2] : i \in Mine(k, tp)}
  <2>1. \A i \in Mine(k, q) : q[i][2] \in {tp[j][2] : j \in Mine(k, tp)}
    BY Zenon
  <2>2. \A i \in Mine(k, tp) : tp[i][2] \in {q[j][2] : j \in Mine(k, q)}
    BY Zenon
  <2>3. QED
    BY <2>1, <2>2, Zenon
<1>6. Carried(k, se, q, ha, su) = Carried(k, se, tp, ha, su)
  BY <1>5, Zenon DEF Carried
<1>7. QED
  BY <1>1, <1>2, <1>3, <1>4, <1>6, Zenon DEF Ordered, Carries

-----------------------------------------------------------------------------
(* The run.                                                                *)

Sent(k) == made[k] - (IF at[k] = "send" THEN 1 ELSE 0)

TokType ==
  /\ seen \in [Call -> Seq(Nat)] /\ top \in Seq(Call \X Nat) /\ hand \in [Call -> Nat]
  /\ sub \in [Call -> Seq(Nat)] /\ made \in [Call -> Nat]
  /\ drain \in [Call -> {"off", "receiving", "sending", "ended"}]

\* Who streams, and who holds a token.
Phases(k) ==
  /\ at[k] # "none" => call[k] = "running"
  /\ call[k] \in {"running", "sentinel"} => run = "running"
  /\ call[k] = "idle" => drain[k] = "off"
  /\ at[k] = "send" => made[k] # 0
  /\ hand[k] = 0 <=> drain[k] # "sending"

Flow(k) ==
  /\ Ordered(k, seen[k], top, hand[k], sub[k])
  /\ run # "ended" => Carries(k, seen[k], top, hand[k], sub[k], Sent(k))

TokInv == TokType /\ \A k \in Call : Phases(k) /\ Flow(k)

\* What a step that leaves call d alone may do to the run's channel.
Spared(d) ==
  /\ seen'[d] = seen[d] /\ hand'[d] = hand[d] /\ sub'[d] = sub[d] /\ made'[d] = made[d]
  /\ drain'[d] = drain[d] /\ at'[d] = at[d] /\ call'[d] = call[d] /\ run' = run
  /\ top' = top \/ \E n \in {0, 1} : MovedUp(d, top, top', n)

LEMMA SparedStep ==
  ASSUME NEW d \in Call, Phases(d), Flow(d), Spared(d)
  PROVE  Phases(d)' /\ Flow(d)'
<1>1. Phases(d)'
  BY Zenon DEF Phases, Spared
<1>2. Ordered(d, seen[d], top, hand[d], sub[d])
  BY Zenon DEF Flow
<1>3. /\ Ordered(d, seen[d], top', hand[d], sub[d])
      /\ run # "ended" => Carries(d, seen[d], top', hand[d], sub[d], Sent(d))
  <2>1. CASE top' = top
    BY <1>2, <2>1, Zenon DEF Flow
  <2>2. CASE \E n \in {0, 1} : MovedUp(d, top, top', n)
    BY <1>2, <2>2, OthersMove, Zenon DEF Flow
  <2>3. QED
    BY <2>1, <2>2, Zenon DEF Spared
<1>4. Sent(d)' = Sent(d)
  BY Zenon DEF Sent, Spared
<1>5. /\ Ordered(d, seen'[d], top', hand'[d], sub'[d])
      /\ run # "ended" => Carries(d, seen'[d], top', hand'[d], sub'[d], Sent(d))
  BY <1>3, Zenon DEF Spared
<1>6. run' = run
  BY Zenon DEF Spared
<1>7. QED
  BY <1>1, <1>4, <1>5, <1>6, Zenon DEF Flow

\* A step of call k alone.
LEMMA OneCallStep ==
  ASSUME TokInv, NEW k \in Call, TokType', Phases(k)', Flow(k)', \A d \in Call \ {k} : Spared(d)
  PROVE  TokInv'
<1>1. \A d \in Call \ {k} : Phases(d)' /\ Flow(d)'
  BY SparedStep, Zenon DEF TokInv
<1>2. QED
  BY <1>1, Zenon DEF TokInv

\* A step that moves no token: call k goes on or returns, and may spawn its
\* drain.
LEMMA ControlStep ==
  ASSUME TokInv, NEW k \in Call, run = "running", run' = run, UNCHANGED <<made, sub, hand, top, seen>>,
         at[k] # "send", at'[k] # "send", at'[k] # "none" => call'[k] = "running", call'[k] # "idle",
         \/ drain' = drain
         \/ call[k] = "idle" /\ drain' = [drain EXCEPT ![k] = "receiving"],
         \A d \in Call \ {k} : at'[d] = at[d] /\ call'[d] = call[d]
  PROVE  TokInv'
<1>1. TokType /\ Phases(k) /\ Flow(k)
  BY Zenon DEF TokInv
<1>2. drain \in [Call -> {"off", "receiving", "sending", "ended"}]
  BY <1>1, Zenon DEF TokType
<1>3. /\ drain' \in [Call -> {"off", "receiving", "sending", "ended"}]
      /\ drain'[k] # "sending" <=> drain[k] # "sending"
      /\ \A d \in Call \ {k} : drain'[d] = drain[d]
  <2>1. CASE drain' = drain
    BY <1>2, <2>1, Zenon
  <2>2. CASE call[k] = "idle" /\ drain' = [drain EXCEPT ![k] = "receiving"]
    <3>1. drain'[k] = "receiving" /\ drain[k] = "off" /\ \A d \in Call \ {k} : drain'[d] = drain[d]
      BY <1>1, <1>2, <2>2, Zenon DEF Phases
    <3>2. drain' \in [Call -> {"off", "receiving", "sending", "ended"}]
      BY <1>2, <2>2, Zenon
    <3>3. "receiving" # "sending" /\ "off" # "sending"
      BY Zenon
    <3>4. QED
      BY <3>1, <3>2, <3>3, Zenon
  <2>3. QED
    BY <2>1, <2>2, Zenon
<1>4. TokType'
  BY <1>1, <1>3, Zenon DEF TokType
<1>5. Phases(k)'
  BY <1>1, <1>3, Zenon DEF Phases
<1>6. Sent(k)' = Sent(k)
  BY Zenon DEF Sent
<1>7. Flow(k)'
  BY <1>1, <1>6, Zenon DEF Flow
<1>8. \A d \in Call \ {k} : Spared(d)
  BY <1>3, Zenon DEF Spared
<1>9. QED
  BY <1>4, <1>5, <1>7, <1>8, OneCallStep, Zenon

\* Where RunAsync leaves a call when it returns, refuses or starts a sub-agent.
LEMMA ReturnsAt ==
  ASSUME RunInv, NEW k \in Call, NEW outer, Returns(k, outer)
  PROVE  /\ at'[k] # "send" /\ (at'[k] # "none" => call'[k] = "running") /\ call'[k] # "idle"
         /\ \A d \in Call \ {k} : at'[d] = at[d] /\ call'[d] = call[d]
<1>1. /\ at'[k] = IF outer = <<>> THEN "none" ELSE "tools"
      /\ call'[k] = IF outer = <<>> THEN "sentinel" ELSE "running"
      /\ \A d \in Call \ {k} : at'[d] = at[d] /\ call'[d] = call[d]
  BY Zenon DEF RunInv, Returns
<1>2. QED
  BY <1>1, Zenon

LEMMA EnterAt ==
  ASSUME RunInv, NEW k \in Call, NEW parent, NEW child, NEW depth, Enter(k, parent, child, depth),
         at[k] # "send"
  PROVE  /\ at'[k] # "send" /\ (at'[k] # "none" => call'[k] = "running") /\ call'[k] # "idle"
         /\ \A d \in Call \ {k} : at'[d] = at[d] /\ call'[d] = call[d]
<1>1. CASE Returns(k, frames[k])
  BY <1>1, ReturnsAt, Zenon
<1>2. CASE frames[k] = <<>> /\ call' = [call EXCEPT ![k] = "done"] /\ UNCHANGED <<frames, at>>
  <2>1. call'[k] = "done" /\ at' = at /\ \A d \in Call \ {k} : call'[d] = call[d]
    BY <1>2, Zenon DEF RunInv
  <2>2. at[k] = "none"
    BY <1>2, Zenon DEF RunInv, CallInv
  <2>3. "done" # "idle"
    BY Zenon
  <2>4. QED
    BY <2>1, <2>2, <2>3, Zenon
<1>3. CASE at' = [at EXCEPT ![k] = "turn"] /\ call' = [call EXCEPT ![k] = "running"]
  <2>1. at'[k] = "turn" /\ call'[k] = "running" /\ \A d \in Call \ {k} : at'[d] = at[d] /\ call'[d] = call[d]
    BY <1>3, Zenon DEF RunInv
  <2>2. "turn" # "send" /\ "running" # "idle"
    BY Zenon
  <2>3. QED
    BY <2>1, <2>2, Zenon
<1>4. QED
  BY <1>1, <1>2, <1>3, Zenon DEF Enter

LEMMA ReturnsTok ==
  ASSUME TokInv, RunInv, NEW k \in Call, NEW outer, Returns(k, outer), at[k] \notin {"send", "none"},
         run' = run, UNCHANGED <<made, sub, drain, hand, top, seen>>
  PROVE  TokInv'
<1>1. at[k] # "send" /\ at[k] # "none"
  BY Zenon
<1>2. run = "running"
  BY <1>1, Zenon DEF TokInv, Phases
<1>3. QED
  BY <1>1, <1>2, ReturnsAt, ControlStep, Zenon

\* A step within the sub-agent's loop.
LEMMA LoopTok ==
  ASSUME TokInv, RunInv, NEW k \in Call, NEW a, at[k] \notin {"send", "none"}, a # "send", a # "none",
         at' = [at EXCEPT ![k] = a], call' = call, run' = run,
         UNCHANGED <<made, sub, drain, hand, top, seen>>
  PROVE  TokInv'
<1>1. at[k] # "send" /\ at[k] # "none"
  BY Zenon
<1>2. run = "running" /\ call[k] = "running"
  BY <1>1, Zenon DEF TokInv, Phases
<1>3. at'[k] = a /\ \A d \in Call \ {k} : at'[d] = at[d]
  BY Zenon DEF RunInv
<1>4. "running" # "idle"
  BY Zenon
<1>5. QED
  BY <1>1, <1>2, <1>3, <1>4, ControlStep, Zenon

LEMMA DelegateTok ==
  ASSUME TokInv, RunInv, NEW k \in Call, NEW child, Delegate(k, child)
  PROVE  TokInv'
<1>1. /\ run = "running" /\ run' = run /\ call[k] = "idle" /\ UNCHANGED <<made, sub, hand, top, seen>>
      /\ \/ call' = [call EXCEPT ![k] = "done"] /\ at' = at /\ drain' = drain
         \/ drain' = [drain EXCEPT ![k] = "receiving"] /\ Enter(k, spec.main, child, 0)
  BY Zenon DEF Delegate
<1>2. at[k] = "none"
  BY <1>1, Zenon DEF TokInv, Phases
<1>3. "none" # "send" /\ "done" # "idle"
  BY Zenon
<1>4. CASE call' = [call EXCEPT ![k] = "done"] /\ at' = at /\ drain' = drain
  <2>1. call'[k] = "done" /\ \A d \in Call \ {k} : call'[d] = call[d]
    BY <1>4, Zenon DEF RunInv
  <2>2. QED
    BY <1>1, <1>2, <1>3, <1>4, <2>1, ControlStep, Zenon
<1>5. CASE drain' = [drain EXCEPT ![k] = "receiving"] /\ Enter(k, spec.main, child, 0)
  BY <1>1, <1>2, <1>3, <1>5, EnterAt, ControlStep, Zenon
<1>6. QED
  BY <1>1, <1>4, <1>5, Zenon

LEMMA NestedDelegateTok ==
  ASSUME TokInv, RunInv, NEW k \in Call, NEW child, NestedDelegate(k, child)
  PROVE  TokInv'
<1>1. /\ at[k] = "tools" /\ Enter(k, Inner(k).agent, child, Len(frames[k]))
      /\ run' = run /\ drain' = drain /\ UNCHANGED <<made, sub, hand, top, seen>>
  BY Zenon DEF NestedDelegate
<1>2. at[k] # "none" /\ at[k] # "send"
  BY <1>1, Zenon
<1>3. run = "running"
  BY <1>2, Zenon DEF TokInv, Phases
<1>4. QED
  BY <1>1, <1>2, <1>3, EnterAt, ControlStep, Zenon

LEMMA StreamTokenTok ==
  ASSUME TokInv, RunInv, NEW k \in Call, StreamToken(k)
  PROVE  TokInv'
<1>1. /\ at[k] = "stream" /\ made' = [made EXCEPT ![k] = made[k] + 1] /\ at' = [at EXCEPT ![k] = "send"]
      /\ run' = run /\ call' = call /\ UNCHANGED <<sub, drain, hand, top, seen>>
  BY Zenon DEF StreamToken
<1>2. TokType /\ Phases(k) /\ Flow(k) /\ made \in [Call -> Nat]
  BY Zenon DEF TokInv, TokType
<1>3. /\ made' \in [Call -> Nat] /\ made'[k] = made[k] + 1 /\ \A d \in Call \ {k} : made'[d] = made[d]
      /\ made[k] + 1 # 0 /\ (made[k] + 1) - 1 = made[k] - 0
  BY <1>1, <1>2
<1>4. at'[k] = "send" /\ \A d \in Call \ {k} : at'[d] = at[d]
  BY <1>1, Zenon DEF RunInv
<1>5. TokType'
  BY <1>1, <1>2, <1>3, Zenon DEF TokType
<1>6. at[k] # "none" /\ at[k] # "send"
  BY <1>1, Zenon
<1>7. Phases(k)'
  BY <1>1, <1>2, <1>3, <1>6, Zenon DEF Phases
<1>8. Sent(k)' = Sent(k)
  BY <1>3, <1>4, <1>6, Zenon DEF Sent
<1>9. Flow(k)'
  BY <1>1, <1>2, <1>8, Zenon DEF Flow
<1>10. \A d \in Call \ {k} : Spared(d)
  BY <1>1, <1>3, <1>4, Zenon DEF Spared
<1>11. QED
  BY <1>5, <1>7, <1>9, <1>10, OneCallStep, Zenon

LEMMA SendTokenTok ==
  ASSUME TokInv, RunInv, NEW k \in Call, SendToken(k)
  PROVE  TokInv'
<1>1. /\ at[k] = "send" /\ sub' = [sub EXCEPT ![k] = Append(sub[k], made[k])] /\ at' = [at EXCEPT ![k] = "stream"]
      /\ run' = run /\ call' = call /\ UNCHANGED <<made, drain, hand, top, seen>>
  BY Zenon DEF SendToken
<1>2. TokType /\ Phases(k) /\ Flow(k) /\ made[k] \in Nat /\ sub[k] \in Seq(Nat) /\ sub \in [Call -> Seq(Nat)]
  BY Zenon DEF TokInv, TokType
<1>3. at[k] # "none" /\ "stream" # "send" /\ "running" # "ended"
  BY <1>1, Zenon
<1>4. made[k] # 0 /\ run = "running" /\ call[k] = "running"
  BY <1>1, <1>2, <1>3, Zenon DEF Phases
<1>5. /\ Append(sub[k], made[k]) \in Seq(Nat) /\ sub' \in [Call -> Seq(Nat)]
      /\ sub'[k] = Append(sub[k], made[k]) /\ \A d \in Call \ {k} : sub'[d] = sub[d]
  <2>1. Append(sub[k], made[k]) \in Seq(Nat)
    BY <1>2, AppendProperties, Zenon
  <2>2. QED
    BY <1>1, <1>2, <2>1, Zenon
<1>6. at'[k] = "stream" /\ \A d \in Call \ {k} : at'[d] = at[d]
  BY <1>1, Zenon DEF RunInv
<1>7. TokType'
  BY <1>1, <1>2, <1>5, Zenon DEF TokType
<1>8. Phases(k)'
  BY <1>1, <1>2, <1>3, <1>4, <1>6, Zenon DEF Phases
<1>9. Sent(k) = made[k] - 1 /\ Sent(k)' = made[k] - 0
  BY <1>1, <1>3, <1>6, Zenon DEF Sent
<1>10. Flow(k)'
  <2> DEFINE was == Carried(k, seen[k], top, hand[k], sub[k])
             now == Carried(k, seen[k], top, hand[k], Append(sub[k], made[k]))
  <2>1. Ordered(k, seen[k], top, hand[k], sub[k]) /\ was = 1..(made[k] - 1)
    BY <1>2, <1>3, <1>4, <1>9, Zenon DEF Flow, Carries
  <2>2. \A t \in was : t < made[k]
    BY <1>2, <2>1
  <2>3. /\ Ordered(k, seen[k], top, hand[k], Append(sub[k], made[k]))
        /\ now = was \cup ({made[k]} \ {0})
    <3>1. Ordered(k, seen[k], top, hand[k], Append(sub[k], made[k]))
      BY <1>2, <2>1, <2>2, TokenEnters, Zenon
    <3>2. now = was \cup ({made[k]} \ {0})
      <4>1. /\ made[k] \in Nat /\ sub[k] \in Seq(Nat) /\ Ordered(k, seen[k], top, hand[k], sub[k])
            /\ made[k] # 0 => \A t \in Carried(k, seen[k], top, hand[k], sub[k]) : t < made[k]
        BY <1>2, <2>1, <2>2, Zenon
      <4>2. QED
        BY ONLY <4>1, TokenEnters
    <3>3. QED
      BY <3>1, <3>2, Zenon
  <2> HIDE DEF was, now
  <2>4. \A n \in Nat : n # 0 => (1..(n - 1)) \cup ({n} \ {0}) = 1..(n - 0)
    OBVIOUS
  <2>5. now = 1..Sent(k)'
    BY <1>2, <1>4, <1>9, <2>1, <2>3, <2>4, Zenon
  <2>6. Ordered(k, seen'[k], top', hand'[k], sub'[k]) /\ Carried(k, seen'[k], top', hand'[k], sub'[k]) = now
    BY <1>1, <1>5, <2>3, Zenon DEF now
  <2>7. QED
    BY <2>5, <2>6, Zenon DEF Flow, Carries
<1>11. \A d \in Call \ {k} : Spared(d)
  BY <1>1, <1>5, <1>6, Zenon DEF Spared
<1>12. QED
  BY <1>7, <1>8, <1>10, <1>11, OneCallStep, Zenon

LEMMA SendSentinelTok ==
  ASSUME TokInv, RunInv, NEW k \in Call, SendSentinel(k)
  PROVE  TokInv'
<1>1. /\ call[k] = "sentinel" /\ sub' = [sub EXCEPT ![k] = Append(sub[k], 0)] /\ call' = [call EXCEPT ![k] = "done"]
      /\ run' = run /\ at' = at /\ UNCHANGED <<made, drain, hand, top, seen>>
  BY Zenon DEF SendSentinel
<1>2. TokType /\ Phases(k) /\ Flow(k) /\ sub[k] \in Seq(Nat) /\ sub \in [Call -> Seq(Nat)]
  BY Zenon DEF TokInv, TokType
<1>3. at[k] = "none"
  BY <1>1, <1>2, Zenon DEF Phases
<1>4. /\ Append(sub[k], 0) \in Seq(Nat) /\ sub' \in [Call -> Seq(Nat)]
      /\ sub'[k] = Append(sub[k], 0) /\ \A d \in Call \ {k} : sub'[d] = sub[d]
  <2>1. Append(sub[k], 0) \in Seq(Nat)
    BY <1>2
  <2>2. QED
    BY <1>1, <1>2, <2>1, Zenon
<1>5. call'[k] = "done" /\ \A d \in Call \ {k} : call'[d] = call[d]
  BY <1>1, Zenon DEF RunInv
<1>6. TokType'
  BY <1>1, <1>2, <1>4, Zenon DEF TokType
<1>7. Phases(k)'
  <2>1. call'[k] \notin {"running", "sentinel"} /\ call'[k] # "idle" /\ at'[k] # "send"
    BY <1>1, <1>3, <1>5, Zenon
  <2>2. QED
    BY <1>1, <1>2, <1>3, <2>1, Zenon DEF Phases
<1>8. Sent(k)' = Sent(k)
  BY <1>1, Zenon DEF Sent
<1>9. Flow(k)'
  <2> DEFINE was == Carried(k, seen[k], top, hand[k], sub[k])
             now == Carried(k, seen[k], top, hand[k], Append(sub[k], 0))
  <2>1. Ordered(k, seen[k], top, hand[k], sub[k]) /\ (run # "ended" => was = 1..Sent(k))
    BY <1>2, Zenon DEF Flow, Carries
  <2>2. 0 \in Nat
    BY Zenon
  <2>3. Ordered(k, seen[k], top, hand[k], Append(sub[k], 0)) /\ now = was \cup ({0} \ {0})
    <3>1. Ordered(k, seen[k], top, hand[k], Append(sub[k], 0))
      BY <1>2, <2>1, <2>2, TokenEnters, Zenon
    <3>2. now = was \cup ({0} \ {0})
      BY <1>2, <2>1, <2>2, TokenEnters
    <3>3. QED
      BY <3>1, <3>2, Zenon
  <2> HIDE DEF was, now
  <2>4. now = was
    BY <2>3, Zenon
  <2>5. Ordered(k, seen'[k], top', hand'[k], sub'[k]) /\ Carried(k, seen'[k], top', hand'[k], sub'[k]) = now
    BY <1>1, <1>4, <2>3, Zenon DEF now
  <2>6. QED
    BY <1>1, <1>8, <2>1, <2>4, <2>5, Zenon DEF Flow, Carries
<1>10. \A d \in Call \ {k} : Spared(d)
  BY <1>1, <1>4, <1>5, Zenon DEF Spared
<1>11. QED
  BY <1>6, <1>7, <1>9, <1>10, OneCallStep, Zenon

LEMMA DrainReceivesTok ==
  ASSUME TokInv, NEW k \in Call, DrainReceives(k)
  PROVE  TokInv'
<1>1. /\ drain[k] = "receiving" /\ sub[k] # <<>>
      /\ sub' = [sub EXCEPT ![k] = Tail(sub[k])] /\ hand' = [hand EXCEPT ![k] = Head(sub[k])]
      /\ drain' = [drain EXCEPT ![k] = IF Head(sub[k]) = 0 THEN "ended" ELSE "sending"]
      /\ run' = run /\ at' = at /\ call' = call /\ UNCHANGED <<made, top, seen>>
  BY Zenon DEF DrainReceives
<1>2. /\ TokType /\ Phases(k) /\ Flow(k) /\ sub[k] \in Seq(Nat) /\ sub \in [Call -> Seq(Nat)]
      /\ hand \in [Call -> Nat] /\ drain \in [Call -> {"off", "receiving", "sending", "ended"}]
  BY Zenon DEF TokInv, TokType
<1>3. Tail(sub[k]) \in Seq(Nat) /\ Head(sub[k]) \in Nat
  BY <1>1, <1>2, HeadTailProperties, Zenon
<1>4. sub' \in [Call -> Seq(Nat)] /\ sub'[k] = Tail(sub[k]) /\ \A d \in Call \ {k} : sub'[d] = sub[d]
  BY <1>1, <1>2, <1>3, Zenon
<1>5. hand' \in [Call -> Nat] /\ hand'[k] = Head(sub[k]) /\ \A d \in Call \ {k} : hand'[d] = hand[d]
  BY <1>1, <1>2, <1>3, Zenon
<1>6. /\ drain' \in [Call -> {"off", "receiving", "sending", "ended"}]
      /\ drain'[k] # "sending" <=> Head(sub[k]) = 0 /\ \A d \in Call \ {k} : drain'[d] = drain[d]
  BY <1>1, <1>2, Zenon
<1>7. TokType'
  BY <1>1, <1>2, <1>4, <1>5, <1>6, Zenon DEF TokType
<1>8. hand[k] = 0 /\ call[k] # "idle"
  BY <1>1, <1>2, Zenon DEF Phases
<1>9. Phases(k)'
  <2>1. hand'[k] = 0 <=> drain'[k] # "sending"
    BY <1>1, <1>2, <1>3, <1>5, Zenon
  <2>2. QED
    BY <1>1, <1>2, <1>8, <2>1, Zenon DEF Phases
<1>10. Sent(k)' = Sent(k)
  BY <1>1, Zenon DEF Sent
<1>11. Flow(k)'
  <2>1. /\ Ordered(k, seen[k], top, 0, sub[k])
        /\ run # "ended" => Carries(k, seen[k], top, 0, sub[k], Sent(k))
    BY <1>2, <1>8, Zenon DEF Flow
  <2>2. /\ Ordered(k, seen[k], top, Head(sub[k]), Tail(sub[k]))
        /\ run # "ended" => Carries(k, seen[k], top, Head(sub[k]), Tail(sub[k]), Sent(k))
    BY <1>1, <1>2, <2>1, TokenTaken, Zenon
  <2>3. /\ Ordered(k, seen'[k], top', hand'[k], sub'[k])
        /\ run # "ended" => Carries(k, seen'[k], top', hand'[k], sub'[k], Sent(k))
    BY <1>1, <1>4, <1>5, <2>2, Zenon
  <2>4. QED
    BY <1>1, <1>10, <2>1, <2>3, Zenon DEF Flow
<1>12. \A d \in Call \ {k} : Spared(d)
  BY <1>1, <1>4, <1>5, <1>6, Zenon DEF Spared
<1>13. QED
  BY <1>7, <1>9, <1>11, <1>12, OneCallStep, Zenon

LEMMA DrainSendsTok ==
  ASSUME TokInv, NEW k \in Call, DrainSends(k)
  PROVE  TokInv'
<1>1. /\ drain[k] = "sending" /\ hand' = [hand EXCEPT ![k] = 0]
      /\ \/ top' = Append(top, <<k, hand[k]>>) /\ drain' = [drain EXCEPT ![k] = "receiving"]
         \/ run = "ended" /\ drain' = [drain EXCEPT ![k] = "ended"] /\ top' = top
      /\ run' = run /\ at' = at /\ call' = call /\ UNCHANGED <<made, sub, seen>>
  BY Zenon DEF DrainSends
<1>2. /\ TokType /\ Phases(k) /\ Flow(k) /\ hand \in [Call -> Nat] /\ top \in Seq(Call \X Nat)
      /\ drain \in [Call -> {"off", "receiving", "sending", "ended"}] /\ hand[k] \in Nat
  BY Zenon DEF TokInv, TokType
<1>3. hand' \in [Call -> Nat] /\ hand'[k] = 0 /\ \A d \in Call \ {k} : hand'[d] = hand[d]
  BY <1>1, <1>2, Zenon
<1>4. /\ drain' \in [Call -> {"off", "receiving", "sending", "ended"}]
      /\ drain'[k] # "sending" /\ \A d \in Call \ {k} : drain'[d] = drain[d]
  BY <1>1, <1>2, Zenon
<1>5. hand[k] # 0 /\ call[k] # "idle" /\ Ordered(k, seen[k], top, hand[k], sub[k])
  BY <1>1, <1>2, Zenon DEF Phases, Flow
<1>6. Phases(k)'
  BY <1>1, <1>2, <1>3, <1>4, <1>5, Zenon DEF Phases
<1>7. Sent(k)' = Sent(k)
  BY <1>1, Zenon DEF Sent
<1>8. CASE top' = Append(top, <<k, hand[k]>>)
  <2>1. <<k, hand[k]>> \in Call \X Nat
    BY <1>2, Zenon
  <2>2. top' \in Seq(Call \X Nat)
    BY <1>2, <1>8, <2>1, AppendProperties, Zenon
  <2>3. TokType'
    BY <1>1, <1>2, <1>3, <1>4, <2>2, Zenon DEF TokType
  <2>4. Flow(k)'
    <3>1. run # "ended" => Carries(k, seen[k], top, hand[k], sub[k], Sent(k))
      BY <1>2, Zenon DEF Flow
    <3>2. /\ Ordered(k, seen[k], Append(top, <<k, hand[k]>>), 0, sub[k])
          /\ run # "ended" => Carries(k, seen[k], Append(top, <<k, hand[k]>>), 0, sub[k], Sent(k))
      BY <1>2, <1>5, <3>1, TokenSent, Zenon
    <3>3. /\ Ordered(k, seen'[k], top', hand'[k], sub'[k])
          /\ run # "ended" => Carries(k, seen'[k], top', hand'[k], sub'[k], Sent(k))
      BY <1>1, <1>3, <1>8, <3>2, Zenon
    <3>4. QED
      BY <1>1, <1>2, <1>7, <3>3, Zenon DEF Flow
  <2>5. ASSUME NEW d \in Call \ {k} PROVE Spared(d)
    <3> DEFINE n == Len(top')
    <3>1. /\ n \in 1..n /\ top'[n] = <<k, hand[k]>>
          /\ \A i \in 1..Len(top) : i \in 1..n /\ top'[i] = top[i]
          /\ \A i \in 1..n : i \in Int /\ (i = n \/ i \in 1..Len(top))
      BY <1>2, <1>8, <2>1, AppendPlaces
    <3>2. top'[n][1] # d
      BY <3>1
    <3>3. \A i \in Mine(d, top') : i \in Int /\ i \in Mine(d, top) /\ top'[i] = top[i]
      BY <3>1, <3>2, Zenon DEF Mine
    <3>4. \A i \in Mine(d, top) : i \in Mine(d, top') /\ top'[i] = top[i]
      BY <3>1, Zenon DEF Mine
    <3>5. \A i, j \in Mine(d, top') : i < j => i + 0 < j + 0
      BY <3>3
    <3>6. \A i \in Mine(d, top') : i + 0 \in Mine(d, top) /\ top'[i] = top[i + 0]
      BY <3>3
    <3>7. MovedUp(d, top, top', 0)
      BY <3>4, <3>5, <3>6, Zenon DEF MovedUp
    <3>8. QED
      BY <1>1, <1>3, <1>4, <3>7, Zenon DEF Spared
  <2>6. QED
    BY <1>6, <2>3, <2>4, <2>5, OneCallStep, Zenon
<1>9. CASE run = "ended" /\ top' = top
  <2>1. TokType'
    BY <1>1, <1>2, <1>3, <1>4, <1>9, Zenon DEF TokType
  <2>2. Ordered(k, seen'[k], top', hand'[k], sub'[k])
    BY <1>1, <1>3, <1>5, <1>9, Zenon DEF Ordered
  <2>3. Flow(k)'
    BY <1>1, <1>9, <2>2, Zenon DEF Flow
  <2>4. \A d \in Call \ {k} : Spared(d)
    BY <1>1, <1>3, <1>4, <1>9, Zenon DEF Spared
  <2>5. QED
    BY <1>6, <2>1, <2>3, <2>4, OneCallStep, Zenon
<1>10. QED
  BY <1>1, <1>8, <1>9, Zenon

LEMMA ConsumeTok ==
  ASSUME TokInv, Consume
  PROVE  TokInv'
<1>1. PICK k, x : k = Head(top)[1] /\ x = Head(top)[2]
  BY Zenon
<1>2. /\ top # <<>> /\ seen' = [seen EXCEPT ![k] = Append(seen[k], x)] /\ top' = Tail(top)
      /\ run' = run /\ at' = at /\ call' = call /\ UNCHANGED <<made, sub, hand, drain>>
  BY <1>1, Zenon DEF Consume
<1>3. TokType /\ top \in Seq(Call \X Nat) /\ seen \in [Call -> Seq(Nat)]
  BY Zenon DEF TokInv, TokType
<1>4. /\ top' \in Seq(Call \X Nat) /\ Head(top) = top[1] /\ top[1] \in Call \X Nat
      /\ \A i \in 1..Len(top') : i \in Int /\ i + 1 \in 1..Len(top) /\ top'[i] = top[i + 1]
      /\ \A i \in 1..Len(top) : i = 1 \/ (i - 1 \in 1..Len(top') /\ top'[i - 1] = top[i])
      /\ \A i, j \in 1..Len(top') : i < j => i + 1 < j + 1
  BY <1>2, <1>3, TailPlaces, Zenon
<1>5. k \in Call /\ x \in Nat
  BY <1>1, <1>4, Zenon
<1>6. Phases(k) /\ Flow(k) /\ seen[k] \in Seq(Nat)
  BY <1>3, <1>5, Zenon DEF TokInv
<1>7. seen' \in [Call -> Seq(Nat)] /\ seen'[k] = Append(seen[k], x) /\ \A d \in Call \ {k} : seen'[d] = seen[d]
  <2>1. Append(seen[k], x) \in Seq(Nat)
    BY <1>5, <1>6, AppendProperties, Zenon
  <2>2. QED
    BY <1>2, <1>3, <1>5, <2>1, Zenon
<1>8. TokType'
  BY <1>2, <1>3, <1>4, <1>7, Zenon DEF TokType
<1>9. Phases(k)'
  BY <1>2, <1>6, Zenon DEF Phases
<1>10. Sent(k)' = Sent(k)
  BY <1>2, Zenon DEF Sent
<1>11. Flow(k)'
  <2>1. /\ Ordered(k, seen[k], top, hand[k], sub[k]) /\ Head(top)[1] = k
        /\ run # "ended" => Carries(k, seen[k], top, hand[k], sub[k], Sent(k))
    BY <1>1, <1>6, Zenon DEF Flow
  <2>2. /\ Ordered(k, Append(seen[k], Head(top)[2]), Tail(top), hand[k], sub[k])
        /\ run # "ended" => Carries(k, Append(seen[k], Head(top)[2]), Tail(top), hand[k], sub[k], Sent(k))
    BY <1>2, <1>3, <1>5, <1>6, <2>1, TokenConsumed, Zenon
  <2>3. /\ Ordered(k, seen'[k], top', hand'[k], sub'[k])
        /\ run # "ended" => Carries(k, seen'[k], top', hand'[k], sub'[k], Sent(k))
    BY <1>1, <1>2, <1>7, <2>2, Zenon
  <2>4. QED
    BY <1>2, <1>10, <2>3, Zenon DEF Flow
<1>12. ASSUME NEW d \in Call \ {k} PROVE Spared(d)
  <2>1. top[1][1] # d
    BY <1>1, <1>4, Zenon
  <2>2. \A i \in Mine(d, top') : i + 1 \in Mine(d, top) /\ top'[i] = top[i + 1]
    BY <1>4, Zenon DEF Mine
  <2>3. \A i \in Mine(d, top) : \E j \in Mine(d, top') : top'[j] = top[i]
    BY <1>4, <2>1, Zenon DEF Mine
  <2>4. \A i, j \in Mine(d, top') : i < j => i + 1 < j + 1
    BY <1>4, Zenon DEF Mine
  <2>5. MovedUp(d, top, top', 1)
    BY <2>2, <2>3, <2>4, Zenon DEF MovedUp
  <2>6. QED
    BY <1>2, <1>7, <2>5, Zenon DEF Spared
<1>13. QED
  BY <1>5, <1>8, <1>9, <1>11, <1>12, OneCallStep, Zenon

\* A step of the run as a whole.
LEMMA WholeRunTok ==
  ASSUME TokInv, UNCHANGED <<made, sub, hand, drain, top, seen, at, call>>,
         \A k \in Call : call[k] \in {"running", "sentinel"} => run' = "running",
         run' # "ended" => run # "ended"
  PROVE  TokInv'
<1>1. TokType'
  BY Zenon DEF TokInv, TokType
<1>2. ASSUME NEW k \in Call PROVE Phases(k)' /\ Flow(k)'
  <2>1. Phases(k) /\ Flow(k)
    BY Zenon DEF TokInv
  <2>2. Sent(k)' = Sent(k)
    BY Zenon DEF Sent
  <2>3. Phases(k)'
    BY <2>1, Zenon DEF Phases
  <2>4. Flow(k)'
    BY <2>1, <2>2, Zenon DEF Flow
  <2>5. QED
    BY <2>3, <2>4, Zenon
<1>3. QED
  BY <1>1, <1>2, Zenon DEF TokInv

LEMMA CallStepTok ==
  ASSUME TokInv, RunInv, NEW k \in Call, CallStep(k)
  PROVE  TokInv'
<1>1. CASE Turn(k)
  <2>1. /\ at[k] = "turn" /\ run' = run /\ UNCHANGED <<made, sub, drain, hand, top, seen>>
        /\ \/ Returns(k, Outer(k))
           \/ at' = [at EXCEPT ![k] = "stream"] /\ call' = call
    BY <1>1, Zenon DEF Turn
  <2>2. at[k] \notin {"send", "none"} /\ "stream" # "send" /\ "stream" # "none"
    BY <2>1, Zenon
  <2>3. QED
    BY <2>1, <2>2, ReturnsTok, LoopTok, Zenon
<1>2. CASE Reply(k)
  <2>1. /\ at[k] = "stream" /\ run' = run /\ UNCHANGED <<made, sub, drain, hand, top, seen>>
        /\ \/ Returns(k, Outer(k))
           \/ at' = [at EXCEPT ![k] = "tools"] /\ call' = call
    BY <1>2, Zenon DEF Reply
  <2>2. at[k] \notin {"send", "none"} /\ "tools" # "send" /\ "tools" # "none"
    BY <2>1, Zenon
  <2>3. QED
    BY <2>1, <2>2, ReturnsTok, LoopTok, Zenon
<1>3. CASE NextTurn(k)
  <2>1. /\ at[k] = "tools" /\ run' = run /\ UNCHANGED <<made, sub, drain, hand, top, seen>>
        /\ at' = [at EXCEPT ![k] = "turn"] /\ call' = call
    BY <1>3, Zenon DEF NextTurn
  <2>2. at[k] \notin {"send", "none"} /\ "turn" # "send" /\ "turn" # "none"
    BY <2>1, Zenon
  <2>3. QED
    BY <2>1, <2>2, LoopTok, Zenon
<1>4. QED
  BY <1>1, <1>2, <1>3, StreamTokenTok, SendTokenTok, SendSentinelTok, Zenon DEF CallStep

LEMMA NextTok == TokInv /\ RunInv /\ [Next]_vars => TokInv'
<1> SUFFICES ASSUME TokInv, RunInv, [Next]_vars PROVE TokInv'
  BY Zenon
<1>1. \A k \in Call : call[k] \in {"running", "sentinel"} => run = "running"
  BY Zenon DEF TokInv, Phases
<1>2. CASE UNCHANGED rvars
  <2>1. UNCHANGED <<made, sub, hand, drain, top, seen, at, call>> /\ run' = run
    BY <1>2, Zenon DEF rvars
  <2>2. QED
    BY <1>1, <2>1, WholeRunTok, Zenon
<1>3. ASSUME NEW failClosed \in BOOLEAN, BuildAgentNode(failClosed) PROVE TokInv'
  <2>1. /\ run = "no" /\ run' \in {"refused", "running"}
        /\ UNCHANGED <<made, sub, hand, drain, top, seen, at, call>>
    BY <1>3, Zenon DEF BuildAgentNode
  <2>2. run # "running" /\ run # "ended"
    BY <2>1, Zenon
  <2>3. QED
    BY <1>1, <2>1, <2>2, WholeRunTok, Zenon
<1>4. CASE MainEnds
  <2>1. /\ \A k \in Call : call[k] \in {"idle", "done"}
        /\ run' = "ended" /\ UNCHANGED <<made, sub, hand, drain, top, seen, at, call>>
    BY <1>4, Zenon DEF MainEnds
  <2>2. \A k \in Call : ~(call[k] \in {"running", "sentinel"})
    BY <2>1, Zenon
  <2>3. QED
    BY <2>1, <2>2, WholeRunTok, Zenon
<1>5. CASE Cancel
  <2>1. UNCHANGED <<made, sub, hand, drain, top, seen, at, call>> /\ run' = run
    BY <1>5, Zenon DEF Cancel
  <2>2. QED
    BY <1>1, <2>1, WholeRunTok, Zenon
<1>6. ASSUME NEW k \in Call, NEW child \in Agent, Delegate(k, child) \/ NestedDelegate(k, child) PROVE TokInv'
  BY <1>6, DelegateTok, NestedDelegateTok, Zenon
<1>7. ASSUME NEW k \in Call, CallStep(k) \/ DrainReceives(k) \/ DrainSends(k) PROVE TokInv'
  BY <1>7, CallStepTok, DrainReceivesTok, DrainSendsTok, Zenon
<1>8. UNCHANGED vars => UNCHANGED rvars
  BY Zenon DEF vars
<1>9. QED
  BY <1>2, <1>3, <1>4, <1>5, <1>6, <1>7, <1>8, ConsumeTok, Zenon DEF Next

LEMMA InitTok == Init => TokInv
<1> SUFFICES ASSUME Init PROVE TokInv
  BY Zenon
<1>1. TokType
  <2>1. <<>> \in Seq(Nat) /\ <<>> \in Seq(Call \X Nat) /\ 0 \in Nat
    OBVIOUS
  <2>2. QED
    BY <2>1, Zenon DEF Init, TokType
<1>2. ASSUME NEW k \in Call PROVE Phases(k) /\ Flow(k)
  <2>1. /\ at[k] = "none" /\ call[k] = "idle" /\ run = "no" /\ made[k] = 0 /\ hand[k] = 0 /\ drain[k] = "off"
        /\ seen[k] = <<>> /\ sub[k] = <<>> /\ top = <<>>
    BY Zenon DEF Init
  <2>2. Phases(k)
    BY <2>1, Zenon DEF Phases
  <2>3. 1..Len(<<>>) = {} /\ 1..0 = {}
    OBVIOUS
  <2>4. Mine(k, top) = {} /\ Live(sub[k]) = {} /\ 1..Len(seen[k]) = {}
    BY <2>1, <2>3, Zenon DEF Mine, Live
  <2>5. Ordered(k, seen[k], top, hand[k], sub[k])
    BY <2>4, Zenon DEF Ordered
  <2>6. Sent(k) = 0
    BY <2>1 DEF Sent
  <2>7. Carries(k, seen[k], top, hand[k], sub[k], Sent(k))
    BY <2>1, <2>3, <2>4, <2>6, Zenon DEF Carries, Carried
  <2>8. QED
    BY <2>2, <2>5, <2>7, Zenon DEF Flow
<1>3. QED
  BY <1>1, <1>2, Zenon DEF TokInv

\* The places of Way are those of Ordered.
LEMMA WayIs ==
  ASSUME TokInv, NEW k \in Call
  PROVE  /\ \A p \in Way(k) :
              \/ p[1] = 1 /\ p[2] \in 1..Len(seen[k]) /\ p[3] = seen[k][p[2]]
              \/ p[1] = 2 /\ p[2] \in Mine(k, top) /\ p[3] = top[p[2]][2]
              \/ p[1] = 3 /\ p[2] = 1 /\ hand[k] # 0 /\ p[3] = hand[k]
              \/ p[1] = 4 /\ p[2] \in Live(sub[k]) /\ p[3] = sub[k][p[2]]
         /\ {p[3] : p \in Way(k)} = Carried(k, seen[k], top, hand[k], sub[k])
<1>1. DOMAIN seen[k] = 1..Len(seen[k]) /\ DOMAIN top = 1..Len(top) /\ DOMAIN sub[k] = 1..Len(sub[k])
  BY DEF TokInv, TokType
<1>2. Way(k) = {<<1, i, seen[k][i]>> : i \in 1..Len(seen[k])}
                 \cup {<<2, i, top[i][2]>> : i \in Mine(k, top)}
                 \cup {<<3, 1, t>> : t \in {hand[k]} \ {0}}
                 \cup {<<4, i, sub[k][i]>> : i \in Live(sub[k])}
  BY <1>1, Zenon DEF Way, Mine, Live
<1>3. \A a, b, c : <<a, b, c>>[1] = a /\ <<a, b, c>>[2] = b /\ <<a, b, c>>[3] = c
  BY Zenon
<1>4. ASSUME NEW p \in Way(k)
      PROVE  \/ p[1] = 1 /\ p[2] \in 1..Len(seen[k]) /\ p[3] = seen[k][p[2]]
             \/ p[1] = 2 /\ p[2] \in Mine(k, top) /\ p[3] = top[p[2]][2]
             \/ p[1] = 3 /\ p[2] = 1 /\ hand[k] # 0 /\ p[3] = hand[k]
             \/ p[1] = 4 /\ p[2] \in Live(sub[k]) /\ p[3] = sub[k][p[2]]
  <2>1. ASSUME NEW i \in 1..Len(seen[k]), p = <<1, i, seen[k][i]>>
        PROVE  p[1] = 1 /\ p[2] \in 1..Len(seen[k]) /\ p[3] = seen[k][p[2]]
    <3>1. p[1] = 1 /\ p[2] = i /\ p[3] = seen[k][i]
      BY <2>1, Zenon
    <3>2. QED
      BY <3>1, Zenon
  <2>2. ASSUME NEW i \in Mine(k, top), p = <<2, i, top[i][2]>>
        PROVE  p[1] = 2 /\ p[2] \in Mine(k, top) /\ p[3] = top[p[2]][2]
    <3>1. p[1] = 2 /\ p[2] = i /\ p[3] = top[i][2]
      BY <2>2, Zenon
    <3>2. QED
      BY <3>1, Zenon
  <2>3. ASSUME NEW t \in {hand[k]} \ {0}, p = <<3, 1, t>>
        PROVE  p[1] = 3 /\ p[2] = 1 /\ hand[k] # 0 /\ p[3] = hand[k]
    BY <2>3, Zenon
  <2>4. ASSUME NEW i \in Live(sub[k]), p = <<4, i, sub[k][i]>>
        PROVE  p[1] = 4 /\ p[2] \in Live(sub[k]) /\ p[3] = sub[k][p[2]]
    <3>1. p[1] = 4 /\ p[2] = i /\ p[3] = sub[k][i]
      BY <2>4, Zenon
    <3>2. QED
      BY <3>1, Zenon
  <2>5. QED
    BY <1>2, <2>1, <2>2, <2>3, <2>4, Zenon
<1>5. ASSUME NEW t \in Carried(k, seen[k], top, hand[k], sub[k]) PROVE \E p \in Way(k) : p[3] = t
  <2>1. ASSUME NEW i \in 1..Len(seen[k]), t = seen[k][i] PROVE <<1, i, t>> \in Way(k)
    BY <1>2, <2>1, Zenon
  <2>2. ASSUME NEW i \in Mine(k, top), t = top[i][2] PROVE <<2, i, t>> \in Way(k)
    BY <1>2, <2>2, Zenon
  <2>3. t \in {hand[k]} \ {0} => <<3, 1, t>> \in Way(k)
    BY <1>2, Zenon
  <2>4. ASSUME NEW i \in Live(sub[k]), t = sub[k][i] PROVE <<4, i, t>> \in Way(k)
    BY <1>2, <2>4, Zenon
  <2>5. \E a, b : <<a, b, t>> \in Way(k)
    BY <2>1, <2>2, <2>3, <2>4, Zenon DEF Carried
  <2>6. QED
    BY <1>3, <2>5, Zenon
<1>6. ASSUME NEW p \in Way(k) PROVE p[3] \in Carried(k, seen[k], top, hand[k], sub[k])
  BY <1>4, Zenon DEF Carried
<1>7. {p[3] : p \in Way(k)} = Carried(k, seen[k], top, hand[k], sub[k])
  BY <1>5, <1>6, Zenon
<1>8. QED
  BY <1>4, <1>7, Zenon

LEMMA OrderedWay ==
  ASSUME TokInv, NEW k \in Call, NEW p \in Way(k), NEW q \in Way(k), Ahead(p, q)
  PROVE  p[3] < q[3]
<1>1. Ordered(k, seen[k], top, hand[k], sub[k])
  BY Zenon DEF TokInv, Flow
<1>2. \A r \in Way(k) :
        \/ r[1] = 1 /\ r[2] \in 1..Len(seen[k]) /\ r[3] = seen[k][r[2]]
        \/ r[1] = 2 /\ r[2] \in Mine(k, top) /\ r[3] = top[r[2]][2]
        \/ r[1] = 3 /\ r[2] = 1 /\ hand[k] # 0 /\ r[3] = hand[k]
        \/ r[1] = 4 /\ r[2] \in Live(sub[k]) /\ r[3] = sub[k][r[2]]
  BY WayIs, Zenon
<1>3. /\ ~(1 < 1) /\ ~(2 < 1) /\ ~(2 < 2) /\ ~(3 < 1) /\ ~(3 < 2) /\ ~(3 < 3) /\ ~(4 < 1) /\ ~(4 < 2)
      /\ ~(4 < 3) /\ ~(4 < 4) /\ 1 # 2 /\ 1 # 3 /\ 1 # 4 /\ 2 # 3 /\ 2 # 4 /\ 3 # 4
  OBVIOUS
<1>4. p[1] < q[1] \/ (p[1] = q[1] /\ p[2] < q[2])
  BY Zenon DEF Ahead
<1>5. CASE p[1] = 1 /\ p[2] \in 1..Len(seen[k]) /\ p[3] = seen[k][p[2]]
  BY <1>1, <1>2, <1>3, <1>4, <1>5, Zenon DEF Ordered
<1>6. CASE p[1] = 2 /\ p[2] \in Mine(k, top) /\ p[3] = top[p[2]][2]
  BY <1>1, <1>2, <1>3, <1>4, <1>6, Zenon DEF Ordered
<1>7. CASE p[1] = 3 /\ p[2] = 1 /\ hand[k] # 0 /\ p[3] = hand[k]
  BY <1>1, <1>2, <1>3, <1>4, <1>7, Zenon DEF Ordered
<1>8. CASE p[1] = 4 /\ p[2] \in Live(sub[k]) /\ p[3] = sub[k][p[2]]
  BY <1>1, <1>2, <1>3, <1>4, <1>8, Zenon DEF Ordered
<1>9. QED
  BY <1>2, <1>5, <1>6, <1>7, <1>8, Zenon

LEMMA TokInvOrders == TokInv => TokensInOrder
<1> SUFFICES ASSUME TokInv, NEW k \in Call
             PROVE  /\ \A p, q \in Way(k) : Ahead(p, q) => p[3] < q[3]
                    /\ run = "running" =>
                         {p[3] : p \in Way(k)} = 1..(made[k] - (IF at[k] = "send" THEN 1 ELSE 0))
  BY Zenon DEF TokensInOrder
<1>1. ASSUME run = "running" PROVE {p[3] : p \in Way(k)} = 1..Sent(k)
  <2>1. run # "ended"
    BY <1>1, Zenon
  <2>2. Carried(k, seen[k], top, hand[k], sub[k]) = 1..Sent(k)
    BY <2>1, Zenon DEF TokInv, Flow, Carries
  <2>3. {p[3] : p \in Way(k)} = Carried(k, seen[k], top, hand[k], sub[k])
    BY WayIs, Zenon
  <2>4. QED
    BY <2>2, <2>3, Zenon
<1>2. QED
  BY <1>1, OrderedWay, Zenon DEF Sent

\* sub_agent_runtime.cc and delegate_tool.cc: for any number of concurrent
\* delegate calls and tokens, and channels of any capacity, what the sub-agents
\* of a call stream reaches the run's consumer in the order they streamed it,
\* and until the run ends none of it is lost or delivered twice.
THEOREM TokensStayInOrder == Spec => []TokensInOrder
  BY InitTok, NextTok, Inductive, TokInvOrders, PTL DEF Spec
=============================================================================
