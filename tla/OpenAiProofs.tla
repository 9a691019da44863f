---------------------------- MODULE OpenAiProofs ----------------------------
(***************************************************************************)
(* Proofs about a conversation with a cloud model, for every number of     *)
(* turns, retries and images and every set of tool-call ids: each request  *)
(* pairs its tool calls with answers, what a turn showed is what the       *)
(* history records, and a rejected turn leaves no trace.  The facts about  *)
(* FlattenSeq and the histories that need induction over a sequence are    *)
(* proved by its least counterexample (LeastNatural).                      *)
(***************************************************************************)
EXTENDS OpenAiConversation, SequenceTheorems, FiniteSetTheorems, WellFoundedInduction, TLAPS

\* A set of natural numbers has a least element.
LEMMA LeastNatural ==
  ASSUME NEW N \in SUBSET Nat, N # {}
  PROVE  \E x \in N : \A y \in N : ~(y < x)
<1> DEFINE R == OpToRel(<, Nat)
<1>1. IsWellFoundedOn(R, Nat)
  BY NatLessThanWellFounded, Zenon
<1>2. \A x, y \in Nat : x < y => <<x, y>> \in R
  BY Zenon DEF OpToRel
<1> HIDE DEF R
<1>3. PICK x \in N : \A y \in N : ~(<<y, x>> \in R)
  BY <1>1, WFMin, Zenon
<1>4. \A y \in N : ~(y < x)
  BY <1>2, <1>3, Zenon
<1>5. QED
  BY <1>4, Zenon

\* The first i blocks of q, concatenated, for every i up to n.
PrefixesOf(q, n, f) ==
  f = [i \in 1 .. n |-> IF i = 1 THEN q[i] ELSE f[i - 1] \o q[i]]

\* There is such a function of prefixes.
LEMMA FlattenExists ==
  ASSUME NEW q, NEW n \in Nat
  PROVE  \E f : PrefixesOf(q, n, f)
<1> DEFINE Bad == {m \in Nat : ~ \E f : PrefixesOf(q, m, f)}
<1>1. SUFFICES ASSUME Bad # {} PROVE FALSE
  BY Zenon
<1>2. PICK m \in Bad : \A y \in Bad : ~(y < m)
  BY <1>1, LeastNatural, Zenon
<1>3. m # 0
  <2>1. PrefixesOf(q, 0, [i \in 1 .. 0 |-> q[i]])
    BY DEF PrefixesOf
  <2>2. QED
    BY <2>1, <1>2, Zenon
<1>4. m - 1 \in Nat /\ m - 1 < m
  BY <1>2, <1>3
<1>5. PICK f : PrefixesOf(q, m - 1, f)
  BY <1>2, <1>4, Zenon
<1> DEFINE g == [i \in 1 .. m |-> IF i < m THEN f[i] ELSE IF i = 1 THEN q[i] ELSE f[i - 1] \o q[i]]
<1>6. PrefixesOf(q, m, g)
  <2>1. \A i \in 1 .. m - 1 : f[i] = IF i = 1 THEN q[i] ELSE f[i - 1] \o q[i]
    BY <1>5, <1>4, Zenon DEF PrefixesOf
  <2>2. \A i \in 1 .. m : g[i] = IF i = 1 THEN q[i] ELSE g[i - 1] \o q[i]
    BY <2>1, <1>2, <1>4
  <2> HIDE DEF g
  <2>3. g = [i \in 1 .. m |-> g[i]]
    BY Zenon DEF g
  <2>4. g = [i \in 1 .. m |-> IF i = 1 THEN q[i] ELSE g[i - 1] \o q[i]]
    BY <2>2, <2>3, Zenon
  <2>5. QED
    BY <2>4, Zenon DEF PrefixesOf
<1>7. QED
  BY <1>2, <1>6, Zenon

\* FlattenSeq is the last of the prefixes.
LEMMA FlattenIsPrefix ==
  ASSUME NEW q, Len(q) \in Nat \ {0}
  PROVE  \E f : PrefixesOf(q, Len(q), f) /\ FlattenSeq(q) = f[Len(q)]
<1> DEFINE P(g) == g = [i \in 1 .. Len(q) |-> IF i = 1 THEN q[i] ELSE g[i - 1] \o q[i]]
<1>1. P(CHOOSE g : P(g))
  BY FlattenExists, Zenon DEF PrefixesOf
<1>2. FlattenSeq(q) = (CHOOSE g : P(g))[Len(q)]
  BY Zenon DEF FlattenSeq
<1>3. QED
  BY <1>1, <1>2, Zenon DEF PrefixesOf

\* SetToSeq lists each element of a finite set once.
LEMMA SetToSeqOnto ==
  ASSUME NEW S, IsFiniteSet(S)
  PROVE  /\ SetToSeq(S) \in Seq(S) /\ Len(SetToSeq(S)) = Cardinality(S)
         /\ Cardinality(S) \in Nat
         /\ \A i, j \in 1 .. Cardinality(S) : SetToSeq(S)[i] = SetToSeq(S)[j] => i = j
         /\ \A x \in S : \E i \in 1 .. Cardinality(S) : SetToSeq(S)[i] = x
<1> DEFINE n == Cardinality(S)
           f == SetToSeq(S)
<1>1. n \in Nat /\ ExistsBijection(1 .. n, S)
  BY FS_CardinalityType, Zenon
<1>2. PICK b : b \in Bijection(1 .. n, S)
  BY <1>1, Zenon DEF ExistsBijection
<1>3. b \in [1 .. n -> S] /\ IsInjective(b)
  BY <1>2, Zenon DEF Bijection, Injection, Surjection, IsInjective
<1>4. f \in [1 .. n -> S] /\ IsInjective(f)
  BY <1>3, Zenon DEF SetToSeq
<1> HIDE DEF f, n
<1>5. \A i, j \in 1 .. n : f[i] = f[j] => i = j
  BY <1>4, Zenon DEF IsInjective
<1>6. f \in Injection(1 .. n, S)
  BY <1>4, <1>5, Zenon DEF Injection, IsInjective
<1>7. Cardinality(1 .. n) = n
  BY <1>1, FS_Interval
<1>8. f \in Surjection(1 .. n, S)
  BY <1>6, <1>7, FS_Injection, Zenon DEF n
<1>9. \A x \in S : \E i \in 1 .. n : f[i] = x
  BY <1>8, Zenon DEF Surjection
<1>10. f \in Seq(S) /\ Len(f) = n
  BY <1>1, <1>4
<1>11. QED
  BY <1>1, <1>5, <1>9, <1>10, Zenon DEF f, n

\* How many placeholders the run that ends at n gets.
NumberOf(s, n) == Cardinality(Unanswered(s, n))

\* The placeholders of one run.
LEMMA PlaceholdersShape ==
  ASSUME NEW s, NEW n, IsFiniteSet(Unanswered(s, n)), Unanswered(s, n) \subseteq CallId
  PROVE  /\ Placeholders(s, n) \in Seq(Message)
         /\ Len(Placeholders(s, n)) = NumberOf(s, n) /\ NumberOf(s, n) \in Nat
         /\ \A k \in 1 .. NumberOf(s, n) : Placeholders(s, n)[k] = NotExecuted(SetToSeq(Unanswered(s, n))[k])
<1> DEFINE ids == SetToSeq(Unanswered(s, n))
           K == NumberOf(s, n)
<1>1. ids \in Seq(CallId) /\ Len(ids) = K /\ K \in Nat
  <2>1. ids \in Seq(Unanswered(s, n)) /\ Len(ids) = K /\ K \in Nat
    BY SetToSeqOnto, Zenon DEF NumberOf
  <2>2. QED
    BY <2>1, SeqMonotonic, Zenon
<1>2. Placeholders(s, n) = [k \in DOMAIN ids |-> NotExecuted(ids[k])]
  BY Zenon DEF Placeholders
<1> HIDE DEF ids, K
<1>3. DOMAIN ids = 1 .. K /\ \A k \in 1 .. K : ids[k] \in CallId
  BY <1>1
<1>4. \A id \in CallId : NotExecuted(id) \in Message
  BY ConversationAssumption DEF NotExecuted, ToolResult, Message
<1>5. QED
  BY <1>1, <1>2, <1>3, <1>4 DEF ids, K

\* What RepairToolCallPairing makes of a history in which one run at most is
\* incomplete: the placeholders stand behind that run, nothing else moves.
LEMMA RepairShape ==
  ASSUME NEW s \in Seq(Message), NEW m \in 1 .. Len(s),
         \A n \in 1 .. Len(s) : n # m => Unanswered(s, n) = {},
         IsFiniteSet(Unanswered(s, m)), Unanswered(s, m) \subseteq CallId
  PROVE  LET r == RepairToolCallPairing(s)
             K == NumberOf(s, m)
         IN /\ K \in Nat /\ r \in Seq(Message) /\ Len(r) = Len(s) + K
            /\ \A j \in 1 .. m : r[j] = s[j]
            /\ \A j \in 1 .. K : r[m + j] = NotExecuted(SetToSeq(Unanswered(s, m))[j])
            /\ \A j \in m + 1 .. Len(s) : r[K + j] = s[j]
<1> DEFINE K == NumberOf(s, m)
           ids == SetToSeq(Unanswered(s, m))
           q == [n \in DOMAIN s |-> <<s[n]>> \o Placeholders(s, n)]
           Val(j) == IF j <= m THEN s[j] ELSE IF j <= m + K THEN NotExecuted(ids[j - m]) ELSE s[j - K]
           Size(i) == IF i < m THEN i ELSE i + K
           Block(i) == /\ q[i] \in Seq(Message)
                       /\ Len(q[i]) = IF i = m THEN 1 + K ELSE 1
                       /\ q[i][1] = s[i]
                       /\ i = m => \A j \in 1 .. K : q[i][1 + j] = NotExecuted(ids[j])
<1>0. Len(s) \in Nat \ {0} /\ DOMAIN s = 1 .. Len(s) /\ m \in Nat /\ m >= 1 /\ m <= Len(s)
  OBVIOUS
<1>1. K \in Nat
  BY PlaceholdersShape, Zenon
<1>2. ASSUME NEW i \in 1 .. Len(s) PROVE Block(i)
  <2> DEFINE b == Placeholders(s, i)
  <2>1. IsFiniteSet(Unanswered(s, i)) /\ Unanswered(s, i) \subseteq CallId
    BY FS_EmptySet, Zenon
  <2>2. b \in Seq(Message) /\ Len(b) = NumberOf(s, i)
    BY <2>1, PlaceholdersShape, Zenon
  <2>3. i # m => NumberOf(s, i) = 0
    BY FS_EmptySet, Zenon DEF NumberOf
  <2>4. i = m => \A j \in 1 .. K : b[j] = NotExecuted(ids[j])
    BY <2>1, PlaceholdersShape, Zenon
  <2>5. q[i] = <<s[i]>> \o b
    BY <1>0, Zenon
  <2> HIDE DEF b, q, ids, K
  <2>6. s[i] \in Message
    OBVIOUS
  <2>7. K = NumberOf(s, m)
    BY Zenon DEF K
  <2>8. <<s[i]>> \in Seq(Message) /\ Len(<<s[i]>>) = 1 /\ <<s[i]>>[1] = s[i]
    BY <2>6
  <2>9. q[i] \in Seq(Message) /\ Len(q[i]) = 1 + NumberOf(s, i)
    BY <2>2, <2>5, <2>8, ConcatProperties
  <2>10. q[i][1] = s[i]
    BY <2>2, <2>5, <2>8
  <2>11. \A j \in 1 .. NumberOf(s, i) : q[i][1 + j] = b[j]
    BY <2>2, <2>5, <2>8
  <2>12. QED
    BY <1>1, <2>3, <2>4, <2>7, <2>9, <2>10, <2>11
<1>3. Len(q) = Len(s)
  BY <1>0
<1>4. PICK f : PrefixesOf(q, Len(s), f) /\ FlattenSeq(q) = f[Len(s)]
  BY <1>0, <1>3, FlattenIsPrefix, Zenon
<1>5. RepairToolCallPairing(s) = f[Len(s)]
  BY <1>4, Zenon DEF RepairToolCallPairing
<1> HIDE DEF q, K, ids
<1>6. \A i \in 1 .. Len(s) : f[i] = IF i = 1 THEN q[i] ELSE f[i - 1] \o q[i]
  BY <1>4, Zenon DEF PrefixesOf
<1> DEFINE Good(i) == /\ f[i] \in Seq(Message) /\ Len(f[i]) = Size(i)
                      /\ \A j \in 1 .. Size(i) : f[i][j] = Val(j)
           Bad == {i \in 1 .. Len(s) : ~Good(i)}
<1>7. Good(1)
  BY <1>0, <1>1, <1>2, <1>6
<1>8. ASSUME NEW i \in 2 .. Len(s), Good(i - 1) PROVE Good(i)
  <2> DEFINE a == f[i - 1]
             b == q[i]
  <2>1. i \in 1 .. Len(s) /\ i # 1 /\ i - 1 \in 1 .. Len(s) /\ i \in Nat
    BY <1>0
  <2>2. Block(i)
    BY <1>2, <2>1, Zenon
  <2>3. f[i] = a \o b
    BY <1>6, <2>1, Zenon
  <2>4. a \in Seq(Message) /\ Len(a) = Size(i - 1) /\ \A j \in 1 .. Size(i - 1) : a[j] = Val(j)
    BY <1>8, Zenon
  <2>5. b \in Seq(Message) /\ Len(b) = (IF i = m THEN 1 + K ELSE 1) /\ b[1] = s[i]
    BY <2>2, Zenon
  <2>6. i = m => \A j \in 1 .. K : b[1 + j] = NotExecuted(ids[j])
    BY <2>2, Zenon
  <2> HIDE DEF a, b, Val
  <2>7. f[i] \in Seq(Message) /\ Len(f[i]) = Len(a) + Len(b)
    BY <2>3, <2>4, <2>5, ConcatProperties
  <2>8. \A j \in 1 .. Len(a) + Len(b) : f[i][j] = IF j <= Len(a) THEN a[j] ELSE b[j - Len(a)]
    BY <2>3, <2>4, <2>5, ConcatProperties
  <2>9. Len(a) + Len(b) = Size(i) /\ Size(i) \in Nat /\ Size(i - 1) \in Nat
    BY <1>0, <1>1, <2>1, <2>4, <2>5
  <2>10. ASSUME NEW j \in 1 .. Size(i) PROVE f[i][j] = Val(j)
    <3>0. f[i][j] = IF j <= Len(a) THEN a[j] ELSE b[j - Len(a)]
      BY <2>8, <2>9, Zenon
    <3>1. CASE j <= Size(i - 1)
      <4>1. j \in 1 .. Size(i - 1)
        BY <2>9, <3>1
      <4>2. QED
        BY <2>4, <3>0, <3>1, <4>1, Zenon
    <3>2. CASE j > Size(i - 1) /\ i # m
      <4>1. j = Size(i) /\ j - Len(a) = 1 /\ ~(j <= Len(a))
        BY <1>0, <1>1, <2>1, <2>4, <2>5, <2>9, <3>2
      <4>2. f[i][j] = s[i]
        BY <2>5, <3>0, <4>1, Zenon
      <4>3. Val(j) = s[i]
        BY <1>0, <1>1, <2>1, <3>2, <4>1 DEF Val
      <4>4. QED
        BY <4>2, <4>3, Zenon
    <3>3. CASE j > Size(i - 1) /\ i = m
      <4>1. Len(a) = m - 1 /\ j - Len(a) \in 1 .. 1 + K /\ ~(j <= Len(a)) /\ j >= m
        BY <1>0, <1>1, <2>4, <2>5, <2>9, <3>3
      <4>2. f[i][j] = b[j - Len(a)]
        BY <3>0, <4>1, Zenon
      <4>3. CASE j = m
        <5>1. j - Len(a) = 1
          BY <1>0, <4>1, <4>3
        <5>2. Val(j) = s[m]
          BY <1>0, <4>3 DEF Val
        <5>3. QED
          BY <2>5, <3>3, <4>2, <5>1, <5>2, Zenon
      <4>4. CASE j # m
        <5>1. j - m \in 1 .. K /\ j - Len(a) = 1 + (j - m)
          BY <1>0, <1>1, <4>1, <4>4
        <5>2. b[1 + (j - m)] = NotExecuted(ids[j - m])
          BY <2>6, <3>3, <5>1, Zenon
        <5>3. Val(j) = NotExecuted(ids[j - m])
          BY <1>0, <1>1, <5>1 DEF Val
        <5>4. QED
          BY <4>2, <5>1, <5>2, <5>3, Zenon
      <4>5. QED
        BY <4>3, <4>4, Zenon
    <3>4. QED
      BY <2>9, <3>1, <3>2, <3>3
  <2>11. QED
    BY <2>7, <2>9, <2>10, Zenon
<1>9. Bad = {}
  <2> SUFFICES ASSUME Bad # {} PROVE FALSE
    BY Zenon
  <2>1. Bad \in SUBSET Nat
    OBVIOUS
  <2>2. PICK i \in Bad : \A y \in Bad : ~(y < i)
    BY <2>1, LeastNatural, Zenon
  <2> HIDE DEF Good
  <2>3. i \in 1 .. Len(s) /\ i # 1
    BY <1>7, <2>2, Zenon
  <2>4. i \in 2 .. Len(s) /\ i - 1 \in 1 .. Len(s) /\ i - 1 < i
    BY <2>3
  <2>5. Good(i - 1)
    BY <2>2, <2>4, Zenon
  <2>6. QED
    BY <1>8, <2>2, <2>4, <2>5, Zenon
<1>10. Good(Len(s)) /\ Size(Len(s)) = Len(s) + K
  BY <1>0, <1>1, <1>9
<1>11. QED
  <2> DEFINE r == RepairToolCallPairing(s)
  <2>1. r \in Seq(Message) /\ Len(r) = Len(s) + K
    BY <1>5, <1>10, Zenon
  <2>2. \A j \in 1 .. Len(s) + K : r[j] = Val(j)
    BY <1>5, <1>10, Zenon
  <2> HIDE DEF r
  <2>3. \A j \in 1 .. m : r[j] = s[j]
    BY <1>0, <1>1, <2>2
  <2>4. \A j \in 1 .. K : r[m + j] = NotExecuted(ids[j])
    BY <1>0, <1>1, <2>2
  <2>5. \A j \in m + 1 .. Len(s) : r[K + j] = s[j]
    BY <1>0, <1>1, <2>2
  <2>6. QED
    BY <1>1, <2>1, <2>3, <2>4, <2>5, Zenon DEF r, K, ids

-----------------------------------------------------------------------------
(* Histories.                                                              *)

\* Only assistant messages have calls, and finitely many.
Regular(s) ==
  \A n \in 1 .. Len(s) :
    IsFiniteSet(s[n].calls) /\ (s[n].role # "assistant" => s[n].calls = {})

\* The first n messages of s are paired among themselves: each call with an id
\* has one result, each result belongs to a call.
AnsweredOnce(s, j, id, n) ==
  \E k \in j + 1 .. n : /\ Answers(s, j, k) /\ s[k].id = id
                        /\ \A l \in j + 1 .. n : Answers(s, j, l) /\ s[l].id = id => l = k

Belongs(s, j) ==
  s[j].role = "tool" => \E i \in 1 .. j - 1 : Answers(s, i, j) /\ s[j].id \in s[i].calls

PairedTo(s, n) ==
  \A j \in 1 .. n :
    Belongs(s, j) /\ \A id \in s[j].calls \ {NoId} : AnsweredOnce(s, j, id, n)

\* What a conversation is left with between two sends: all paired, or all but
\* the reply just received.
Open(s) ==
  \/ PairedTo(s, Len(s))
  \/ Len(s) > 0 /\ PairedTo(s, Len(s) - 1) /\ s[Len(s)].role = "assistant"

\* r and s do not differ in what pairing is about, up to n.
Agree(r, s, n) ==
  \A i \in 1 .. n : r[i].role = s[i].role /\ r[i].calls = s[i].calls /\ r[i].id = s[i].id

LEMMA PairedToIsPaired ==
  ASSUME NEW s \in Seq(Message), PairedTo(s, Len(s))
  PROVE  Paired(s)
<1>0. Len(s) \in Nat /\ DOMAIN s = 1 .. Len(s)
  OBVIOUS
<1>1. ASSUME NEW n \in 1 .. Len(s), NEW id \in s[n].calls \ {NoId}
      PROVE  Cardinality({k \in n + 1 .. Len(s) : Answers(s, n, k) /\ s[k].id = id}) = 1
  <2>1. PICK k \in n + 1 .. Len(s) :
          /\ Answers(s, n, k) /\ s[k].id = id
          /\ \A l \in n + 1 .. Len(s) : Answers(s, n, l) /\ s[l].id = id => l = k
    BY <1>1, Zenon DEF PairedTo, AnsweredOnce
  <2>2. {l \in n + 1 .. Len(s) : Answers(s, n, l) /\ s[l].id = id} = {k}
    BY <2>1, Zenon
  <2>3. QED
    BY <2>2, FS_Singleton, Zenon
<1>2. ASSUME NEW n \in 1 .. Len(s), s[n].role = "tool"
      PROVE  \E i \in 1 .. n - 1 : Answers(s, i, n) /\ s[n].id \in s[i].calls
  BY <1>2, Zenon DEF PairedTo, Belongs
<1>3. QED
  <2> SUFFICES ASSUME NEW n \in DOMAIN s
               PROVE  /\ \A id \in s[n].calls \ {NoId} :
                           Cardinality({k \in n + 1 .. Len(s) : Answers(s, n, k) /\ s[k].id = id}) = 1
                      /\ s[n].role = "tool" =>
                           \E i \in 1 .. n - 1 : Answers(s, i, n) /\ s[n].id \in s[i].calls
    BY Zenon DEF Paired
  <2>1. n \in 1 .. Len(s)
    BY <1>0, Zenon
  <2>2. s[n].role = "tool" => \E i \in 1 .. n - 1 : Answers(s, i, n) /\ s[n].id \in s[i].calls
    BY <1>2, <2>1, Zenon
  <2>3. \A id \in s[n].calls \ {NoId} :
          Cardinality({k \in n + 1 .. Len(s) : Answers(s, n, k) /\ s[k].id = id}) = 1
    BY <1>1, <2>1, Zenon
  <2>4. QED
    BY <2>2, <2>3, Zenon

LEMMA AnsweredOnceFrame ==
  ASSUME NEW r, NEW s, NEW j, NEW id, NEW n, NEW m, AnsweredOnce(s, j, id, n),
         \A k \in j + 1 .. n : Answers(s, j, k) /\ s[k].id = id
                                 => k \in j + 1 .. m /\ Answers(r, j, k) /\ r[k].id = id,
         \A l \in j + 1 .. m : Answers(r, j, l) /\ r[l].id = id
                                 => l \in j + 1 .. n /\ Answers(s, j, l) /\ s[l].id = id
  PROVE  AnsweredOnce(r, j, id, m)
<1>1. PICK k \in j + 1 .. n :
        /\ Answers(s, j, k) /\ s[k].id = id
        /\ \A l \in j + 1 .. n : Answers(s, j, l) /\ s[l].id = id => l = k
  BY Zenon DEF AnsweredOnce
<1>2. k \in j + 1 .. m /\ Answers(r, j, k) /\ r[k].id = id
  BY <1>1, Zenon
<1>3. \A l \in j + 1 .. m : Answers(r, j, l) /\ r[l].id = id => l = k
  BY <1>1, Zenon
<1>4. QED
  BY <1>2, <1>3, Zenon DEF AnsweredOnce

LEMMA AnswersFrame ==
  ASSUME NEW r, NEW s, NEW n \in Nat, Agree(r, s, n), NEW j \in 1 .. n, NEW k \in Int, k <= n
  PROVE  Answers(r, j, k) <=> Answers(s, j, k)
<1>1. \A l \in j + 1 .. k : l \in 1 .. n
  OBVIOUS
<1>2. QED
  BY <1>1, Zenon DEF Agree, Answers

LEMMA PairedToFrame ==
  ASSUME NEW r, NEW s, NEW n \in Nat, Agree(r, s, n), PairedTo(s, n)
  PROVE  PairedTo(r, n)
<1> SUFFICES ASSUME NEW j \in 1 .. n
             PROVE  Belongs(r, j) /\ \A id \in r[j].calls \ {NoId} : AnsweredOnce(r, j, id, n)
  BY Zenon DEF PairedTo
<1>1. \A l \in j + 1 .. n : l \in 1 .. n /\ l \in Int /\ l <= n
  OBVIOUS
<1>2. \A i \in 1 .. j - 1 : i \in 1 .. n
  OBVIOUS
<1>3. j \in Int /\ j <= n
  OBVIOUS
<1>4. \A l \in j + 1 .. n : /\ Answers(r, j, l) <=> Answers(s, j, l)
                            /\ r[l].id = s[l].id
  BY <1>1, AnswersFrame, Zenon DEF Agree
<1>5. \A i \in 1 .. j - 1 : /\ Answers(r, i, j) <=> Answers(s, i, j)
                            /\ r[i].calls = s[i].calls
  BY <1>2, <1>3, AnswersFrame, Zenon DEF Agree
<1>6. r[j].calls = s[j].calls /\ r[j].role = s[j].role /\ r[j].id = s[j].id
  BY Zenon DEF Agree
<1>7. \A id \in s[j].calls \ {NoId} : AnsweredOnce(s, j, id, n)
  BY Zenon DEF PairedTo
<1>8. Belongs(s, j)
  BY Zenon DEF PairedTo
<1>9. Belongs(r, j)
  BY <1>5, <1>6, <1>8, Zenon DEF Belongs
<1>10. \A id \in s[j].calls \ {NoId} : AnsweredOnce(r, j, id, n)
  BY <1>4, <1>7, AnsweredOnceFrame, Zenon
<1>11. QED
  BY <1>6, <1>9, <1>10, Zenon

\* A run of results that ends inside the paired part answers everything.
LEMMA NothingMissing ==
  ASSUME NEW s, Len(s) \in Nat, NEW n \in 0 .. Len(s), PairedTo(s, n), NEW e \in 1 .. n
  PROVE  Unanswered(s, e) = {}
<1> SUFFICES ASSUME NEW j \in 1 .. e, Answers(s, j, e), EndOfRun(s, e)
             PROVE  Missing(s, j, e) = {}
  BY Zenon DEF Unanswered
<1> SUFFICES ASSUME NEW id \in s[j].calls \ {NoId}
             PROVE  \E k \in j + 1 .. e : s[k].id = id
  BY Zenon DEF Missing
<1>1. j \in 1 .. n
  OBVIOUS
<1>2. PICK k \in j + 1 .. n : Answers(s, j, k) /\ s[k].id = id
  BY <1>1, Zenon DEF PairedTo, AnsweredOnce
<1>3. CASE k <= e
  <2>1. k \in j + 1 .. e
    BY <1>3
  <2>2. QED
    BY <1>2, <2>1, Zenon
<1>4. CASE ~(k <= e)
  <2>1. e + 1 \in j + 1 .. k /\ e # Len(s)
    BY <1>4
  <2>2. s[e + 1].role = "tool"
    BY <1>2, <2>1, Zenon DEF Answers
  <2>3. QED
    BY <2>1, <2>2, Zenon DEF EndOfRun
<1>5. QED
  BY <1>3, <1>4, Zenon

\* A user message behind a paired history.
LEMMA PairedUser ==
  ASSUME NEW r, NEW n \in Nat, PairedTo(r, n), r[n + 1].role = "user", r[n + 1].calls = {}
  PROVE  PairedTo(r, n + 1)
<1> SUFFICES ASSUME NEW j \in 1 .. n + 1
             PROVE  Belongs(r, j) /\ \A id \in r[j].calls \ {NoId} : AnsweredOnce(r, j, id, n + 1)
  BY Zenon DEF PairedTo
<1>1. CASE j = n + 1
  BY <1>1, Zenon DEF Belongs
<1>2. CASE j # n + 1
  <2>1. j \in 1 .. n /\ n + 1 \in j + 1 .. n + 1
    BY <1>2
  <2>2. \A l \in j + 1 .. n + 1 : l \in j + 1 .. n \/ l = n + 1
    OBVIOUS
  <2>3. \A l \in j + 1 .. n : l \in j + 1 .. n + 1
    OBVIOUS
  <2>4. ~Answers(r, j, n + 1)
    BY <2>1, Zenon DEF Answers
  <2>5. \A id \in r[j].calls \ {NoId} : AnsweredOnce(r, j, id, n)
    BY <2>1, Zenon DEF PairedTo
  <2>6. Belongs(r, j)
    BY <2>1, Zenon DEF PairedTo
  <2>7. \A id \in r[j].calls \ {NoId} : AnsweredOnce(r, j, id, n + 1)
    <3>1. \A l \in j + 1 .. n + 1 : Answers(r, j, l) => l \in j + 1 .. n
      BY <2>2, <2>4, Zenon
    <3>2. QED
      BY <2>3, <2>5, <3>1, AnsweredOnceFrame, Zenon
  <2>8. QED
    BY <2>6, <2>7, Zenon
<1>3. QED
  BY <1>1, <1>2, Zenon

\* A reply with one result for each of its calls behind a paired history.
LEMMA PairedReply ==
  ASSUME NEW r, NEW L \in Nat \ {0}, NEW e \in Nat, L <= e, PairedTo(r, L - 1),
         r[L].role = "assistant",
         \A k \in L + 1 .. e : r[k].role = "tool" /\ r[k].calls = {} /\ r[k].id \in r[L].calls \ {NoId},
         \A k, l \in L + 1 .. e : r[k].id = r[l].id => k = l,
         \A id \in r[L].calls \ {NoId} : \E k \in L + 1 .. e : r[k].id = id
  PROVE  PairedTo(r, e)
<1> SUFFICES ASSUME NEW j \in 1 .. e
             PROVE  Belongs(r, j) /\ \A id \in r[j].calls \ {NoId} : AnsweredOnce(r, j, id, e)
  BY Zenon DEF PairedTo
<1>0. ASSUME NEW k \in L + 1 .. e PROVE Answers(r, L, k)
  <2>1. \A l \in L + 1 .. k : l \in L + 1 .. e
    OBVIOUS
  <2>2. r[L].calls # {}
    BY Zenon
  <2>3. QED
    BY <2>1, <2>2, Zenon DEF Answers
<1>1. CASE j < L
  <2>1. j \in 1 .. L - 1
    BY <1>1
  <2>2. \A l \in j + 1 .. e : l \in j + 1 .. L - 1 \/ L \in j + 1 .. l
    BY <1>1
  <2>3. \A l \in j + 1 .. L - 1 : l \in j + 1 .. e
    BY <1>1
  <2>4. \A l \in j + 1 .. e : Answers(r, j, l) => l \in j + 1 .. L - 1
    BY <2>2, Zenon DEF Answers
  <2>5. \A id \in r[j].calls \ {NoId} : AnsweredOnce(r, j, id, L - 1)
    BY <2>1, Zenon DEF PairedTo
  <2>6. Belongs(r, j)
    BY <2>1, Zenon DEF PairedTo
  <2>7. \A id \in r[j].calls \ {NoId} : AnsweredOnce(r, j, id, e)
    BY <2>3, <2>4, <2>5, AnsweredOnceFrame, Zenon
  <2>8. QED
    BY <2>6, <2>7, Zenon
<1>2. CASE j = L
  <2>1. \A id \in r[j].calls \ {NoId} : AnsweredOnce(r, j, id, e)
    <3> SUFFICES ASSUME NEW id \in r[L].calls \ {NoId}
                 PROVE  AnsweredOnce(r, L, id, e)
      BY <1>2, Zenon
    <3>1. PICK k \in L + 1 .. e : r[k].id = id
      BY Zenon
    <3>2. Answers(r, L, k) /\ \A l \in L + 1 .. e : Answers(r, L, l) /\ r[l].id = id => l = k
      BY <1>0, <3>1, Zenon
    <3>3. QED
      BY <3>1, <3>2, Zenon DEF AnsweredOnce
  <2>2. QED
    BY <1>2, <2>1, Zenon DEF Belongs
<1>3. CASE j > L
  <2>1. j \in L + 1 .. e /\ L \in 1 .. j - 1
    BY <1>3
  <2>2. QED
    BY <1>0, <2>1, Zenon DEF Belongs
<1>4. QED
  BY <1>1, <1>2, <1>3

\* No run is incomplete: the history stays as it is.
LEMMA RepairNothing ==
  ASSUME NEW s \in Seq(Message), Len(s) > 0,
         \A n \in 1 .. Len(s) : Unanswered(s, n) = {}
  PROVE  RepairToolCallPairing(s) = s
<1> DEFINE m == Len(s)
           r == RepairToolCallPairing(s)
<1>1. m \in 1 .. Len(s) /\ m \in Nat
  OBVIOUS
<1>2. IsFiniteSet(Unanswered(s, m)) /\ Unanswered(s, m) \subseteq CallId /\ NumberOf(s, m) = 0
  BY <1>1, FS_EmptySet, Zenon DEF NumberOf
<1>3. /\ r \in Seq(Message) /\ Len(r) = Len(s) + NumberOf(s, m)
      /\ \A j \in 1 .. m : r[j] = s[j]
  BY <1>1, <1>2, RepairShape, Zenon
<1> HIDE DEF r
<1>4. Len(r) = Len(s)
  BY <1>1, <1>2, <1>3
<1>5. r = s
  BY <1>3, <1>4, SeqEqual, Zenon
<1>6. QED
  BY <1>5, Zenon DEF r

\* A user message behind a paired history needs no repair.
LEMMA RepairUser ==
  ASSUME NEW t \in Seq(Message), Len(t) > 0, PairedTo(t, Len(t) - 1),
         t[Len(t)].role = "user", t[Len(t)].calls = {}
  PROVE  RepairToolCallPairing(t) = t /\ PairedTo(t, Len(t))
<1> DEFINE n == Len(t) - 1
<1>0. n \in Nat /\ Len(t) = n + 1 /\ n \in 0 .. Len(t) /\ Len(t) \in Nat /\ Len(t) \in 1 .. Len(t)
  OBVIOUS
<1>1. ASSUME NEW e \in 1 .. n PROVE Unanswered(t, e) = {}
  BY <1>0, NothingMissing, Zenon
<1>2. Unanswered(t, Len(t)) = {}
  <2>1. ASSUME NEW j \in 1 .. Len(t) PROVE ~Answers(t, j, Len(t))
    <3>1. j = Len(t) \/ Len(t) \in j + 1 .. Len(t)
      <4>1. Len(t) \in Nat
        BY <1>0, Zenon
      <4>2. QED
        BY <4>1
    <3>2. QED
      BY <3>1, Zenon DEF Answers
  <2>2. QED
    BY <2>1, Zenon DEF Unanswered
<1>3. \A e \in 1 .. Len(t) : e \in 1 .. n \/ e = Len(t)
  <2>1. Len(t) \in Nat
    BY <1>0, Zenon
  <2>2. QED
    BY <2>1
<1>4. RepairToolCallPairing(t) = t
  BY <1>1, <1>2, <1>3, RepairNothing, Zenon
<1>5. PairedTo(t, Len(t))
  BY <1>0, PairedUser, Zenon
<1>6. QED
  BY <1>4, <1>5, Zenon

\* The images that the messages of s refer to.
Keys(s) == {s[n].img : n \in 1 .. Len(s)} \ {NoKey}

\* The reply at L with some of its results up to m, and at most a user message
\* behind them: the repair adds the missing results at m.
LEMMA RepairReply ==
  ASSUME NEW t \in Seq(Message), Regular(t), NEW L \in 1 .. Len(t), NEW m \in L .. Len(t),
         PairedTo(t, L - 1), t[L].role = "assistant",
         \A k \in L + 1 .. m : t[k].role = "tool" /\ t[k].id \in t[L].calls \ {NoId},
         \A k, l \in L + 1 .. m : t[k].id = t[l].id => k = l,
         m = Len(t) \/ (m + 1 = Len(t) /\ t[Len(t)].role = "user")
  PROVE  LET r == RepairToolCallPairing(t)
         IN r \in Seq(Message) /\ Regular(r) /\ PairedTo(r, Len(r)) /\ Keys(r) \subseteq Keys(t)
<1> DEFINE r == RepairToolCallPairing(t)
           U == Unanswered(t, m)
           K == NumberOf(t, m)
           ids == SetToSeq(U)
<1>0. Len(t) \in Nat /\ m \in Nat /\ L \in Nat /\ L >= 1 /\ L <= m /\ m <= Len(t) /\ m \in 1 .. Len(t)
  OBVIOUS
<1>1. EndOfRun(t, m)
  BY <1>0, Zenon DEF EndOfRun
<1>2. ASSUME NEW j \in 1 .. m, Answers(t, j, m) PROVE j = L
  <2>1. CASE j < L
    <3>1. L \in j + 1 .. m
      BY <1>0, <2>1
    <3>2. QED
      BY <1>2, <3>1, Zenon DEF Answers
  <2>2. CASE j > L
    <3>1. j \in L + 1 .. m
      BY <1>0, <2>2
    <3>2. QED
      BY <1>2, <3>1, Zenon DEF Answers
  <2>3. QED
    BY <1>0, <2>1, <2>2
<1>3. t[L].calls # {} => Answers(t, L, m)
  BY Zenon DEF Answers
<1>4. U = (t[L].calls \ {NoId}) \ {t[k].id : k \in L + 1 .. m}
  <2>1. L \in 1 .. m
    BY <1>0
  <2>2. U \subseteq Missing(t, L, m)
    BY <1>2, Zenon DEF Unanswered
  <2>3. t[L].calls # {} => Missing(t, L, m) \subseteq U
    BY <1>1, <1>3, <2>1, Zenon DEF Unanswered
  <2> HIDE DEF U
  <2>4. QED
    BY <2>2, <2>3, Zenon DEF Missing
<1>5. IsFiniteSet(U) /\ U \subseteq CallId
  <2>1. IsFiniteSet(t[L].calls)
    BY Zenon DEF Regular
  <2>2. t[L] \in Message
    OBVIOUS
  <2>3. t[L].calls \subseteq CallId \cup {NoId}
    BY <2>2, Zenon DEF Message
  <2>4. U \in SUBSET t[L].calls
    BY <1>4, Zenon
  <2> HIDE DEF U
  <2>5. IsFiniteSet(U)
    BY <2>1, <2>4, FS_Subset, Zenon
  <2>6. U \subseteq CallId
    BY <1>4, <2>3, Zenon
  <2>7. QED
    BY <2>5, <2>6, Zenon
<1>6. ASSUME NEW n \in 1 .. Len(t), n # m PROVE Unanswered(t, n) = {}
  <2>1. CASE n < L
    <3>1. L - 1 \in 0 .. Len(t) /\ n \in 1 .. L - 1
      BY <1>0, <2>1
    <3>2. QED
      BY <1>0, <3>1, NothingMissing, Zenon
  <2>2. CASE L <= n /\ n < m
    <3>1. n + 1 \in L + 1 .. m /\ n # Len(t)
      BY <1>0, <2>2
    <3>2. ~EndOfRun(t, n)
      BY <3>1, Zenon DEF EndOfRun
    <3>3. QED
      BY <3>2, Zenon DEF Unanswered
  <2>3. CASE n > m
    <3>1. n = Len(t) /\ t[n].role = "user"
      BY <1>0, <2>3
    <3>2. ASSUME NEW j \in 1 .. n PROVE ~Answers(t, j, n)
      <4>1. j = n \/ n \in j + 1 .. n
        BY <1>0, <3>1
      <4>2. QED
        BY <3>1, <4>1, Zenon DEF Answers
    <3>3. QED
      BY <3>2, Zenon DEF Unanswered
  <2>4. QED
    BY <1>0, <1>6, <2>1, <2>2, <2>3
<1>7. /\ K \in Nat /\ r \in Seq(Message) /\ Len(r) = Len(t) + K
      /\ \A j \in 1 .. m : r[j] = t[j]
      /\ \A j \in 1 .. K : r[m + j] = NotExecuted(ids[j])
      /\ \A j \in m + 1 .. Len(t) : r[K + j] = t[j]
  BY <1>0, <1>5, <1>6, RepairShape, Zenon
<1>8. /\ ids \in Seq(U) /\ Len(ids) = K
      /\ \A i, j \in 1 .. K : ids[i] = ids[j] => i = j
      /\ \A x \in U : \E i \in 1 .. K : ids[i] = x
  BY <1>5, SetToSeqOnto, Zenon DEF NumberOf
<1> HIDE DEF r, ids, U, K
<1>9. \A j \in 1 .. K : ids[j] \in U
  BY <1>7, <1>8, ElementOfSeq, Zenon
<1>10. \A id : /\ NotExecuted(id).role = "tool" /\ NotExecuted(id).calls = {}
               /\ NotExecuted(id).id = id /\ NotExecuted(id).img = NoKey
  BY Zenon DEF NotExecuted, ToolResult
<1>11. ASSUME NEW k \in L + 1 .. m + K
       PROVE  k \in L + 1 .. m \/ (k - m \in 1 .. K /\ k = m + (k - m))
  BY <1>0, <1>7
<1>12. \A k \in L + 1 .. m : r[k] = t[k] /\ k \in 1 .. Len(t)
  <2>1. \A k \in L + 1 .. m : k \in 1 .. m /\ k \in 1 .. Len(t)
    BY <1>0
  <2>2. QED
    BY <1>7, <2>1, Zenon
<1>13. r[L] = t[L]
  BY <1>0, <1>7
<1>14. ASSUME NEW k \in L + 1 .. m + K
       PROVE  r[k].role = "tool" /\ r[k].calls = {} /\ r[k].id \in r[L].calls \ {NoId}
  <2>1. CASE k \in L + 1 .. m
    <3>1. t[k].role = "tool" /\ t[k].id \in t[L].calls \ {NoId}
      BY <2>1, Zenon
    <3>2. t[k].calls = {}
      BY <1>12, <2>1, <3>1, Zenon DEF Regular
    <3>3. QED
      BY <1>12, <1>13, <2>1, <3>1, <3>2, Zenon
  <2>2. CASE k - m \in 1 .. K /\ k = m + (k - m)
    <3>1. r[k] = NotExecuted(ids[k - m])
      BY <1>7, <2>2, Zenon
    <3>2. ids[k - m] \in t[L].calls \ {NoId}
      BY <1>4, <1>9, <2>2, Zenon
    <3>3. QED
      BY <1>10, <1>13, <3>1, <3>2, Zenon
  <2>3. QED
    BY <1>11, <2>1, <2>2, Zenon
<1>15. ASSUME NEW k \in L + 1 .. m + K, NEW l \in L + 1 .. m + K, r[k].id = r[l].id PROVE k = l
  <2>1. ASSUME NEW i \in L + 1 .. m, NEW j \in 1 .. K PROVE r[i].id # r[m + j].id
    <3>1. r[i].id = t[i].id /\ r[m + j].id = ids[j]
      BY <1>7, <1>10, <1>12, Zenon
    <3>2. ids[j] \in U /\ ids[j] \notin {t[h].id : h \in L + 1 .. m}
      BY <1>4, <1>9, Zenon
    <3>3. ids[j] # t[i].id
      BY <3>2, Zenon
    <3>4. QED
      BY <3>1, <3>3, Zenon
  <2>2. ASSUME NEW i \in 1 .. K, NEW j \in 1 .. K, r[m + i].id = r[m + j].id PROVE i = j
    <3>1. r[m + i].id = ids[i] /\ r[m + j].id = ids[j]
      BY <1>7, <1>10, Zenon
    <3>2. ids[i] = ids[j]
      BY <2>2, <3>1, Zenon
    <3>3. QED
      BY <1>8, <3>2, Zenon
  <2>3. CASE k \in L + 1 .. m /\ l \in L + 1 .. m
    BY <1>12, <1>15, <2>3, Zenon
  <2>4. CASE k \in L + 1 .. m /\ l - m \in 1 .. K /\ l = m + (l - m)
    BY <1>15, <2>1, <2>4, Zenon
  <2>5. CASE l \in L + 1 .. m /\ k - m \in 1 .. K /\ k = m + (k - m)
    BY <1>15, <2>1, <2>5, Zenon
  <2>6. CASE k - m \in 1 .. K /\ k = m + (k - m) /\ l - m \in 1 .. K /\ l = m + (l - m)
    BY <1>15, <2>2, <2>6, Zenon
  <2>7. QED
    BY <1>11, <2>3, <2>4, <2>5, <2>6, Zenon
<1>16. ASSUME NEW id \in r[L].calls \ {NoId} PROVE \E k \in L + 1 .. m + K : r[k].id = id
  <2>0. \A k \in L + 1 .. m : k \in L + 1 .. m + K
    BY <1>0, <1>7
  <2>1. \A j \in 1 .. K : m + j \in L + 1 .. m + K
    BY <1>0, <1>7
  <2>2. CASE id \in U
    <3>1. PICK j \in 1 .. K : ids[j] = id
      BY <1>8, <2>2, Zenon
    <3>2. r[m + j].id = id
      BY <1>7, <1>10, <3>1, Zenon
    <3>3. QED
      BY <2>1, <3>2, Zenon
  <2>3. CASE id \notin U
    <3>1. PICK k \in L + 1 .. m : t[k].id = id
      BY <1>4, <1>13, <2>3, Zenon
    <3>2. QED
      BY <1>12, <2>0, <3>1, Zenon
  <2>4. QED
    BY <2>2, <2>3, Zenon
<1>17. PairedTo(r, L - 1)
  <2>1. L - 1 \in Nat /\ \A i \in 1 .. L - 1 : i \in 1 .. m
    BY <1>0
  <2>2. Agree(r, t, L - 1)
    BY <1>7, <2>1, Zenon DEF Agree
  <2>3. QED
    BY <2>1, <2>2, PairedToFrame, Zenon
<1>18. PairedTo(r, m + K)
  <2>1. L \in Nat \ {0} /\ m + K \in Nat /\ L <= m + K
    BY <1>0, <1>7
  <2>2. r[L].role = "assistant"
    BY <1>13, Zenon
  <2>3. QED
    BY <1>14, <1>15, <1>16, <1>17, <2>1, <2>2, PairedReply, Zenon
<1>19. PairedTo(r, Len(r))
  <2>1. CASE m = Len(t)
    <3>1. Len(r) = m + K
      BY <1>0, <1>7, <2>1, Zenon
    <3>2. QED
      BY <1>18, <3>1, Zenon
  <2>2. CASE m + 1 = Len(t) /\ t[Len(t)].role = "user"
    <3>1. Len(r) = (m + K) + 1 /\ m + K \in Nat /\ K + Len(t) = (m + K) + 1 /\ Len(t) \in m + 1 .. Len(t)
      BY <1>0, <1>7, <2>2
    <3>2. r[(m + K) + 1] = t[Len(t)]
      BY <1>7, <3>1, Zenon
    <3>3. Len(t) \in 1 .. Len(t)
      BY <1>0
    <3>4. t[Len(t)].calls = {}
      BY <2>2, <3>3, Zenon DEF Regular
    <3>5. QED
      BY <1>18, <2>2, <3>1, <3>2, <3>4, PairedUser, Zenon
  <2>3. QED
    BY <2>1, <2>2, Zenon
<1>20. ASSUME NEW j \in 1 .. Len(r)
       PROVE  (\E i \in 1 .. Len(t) : r[j] = t[i]) \/ (\E id : r[j] = NotExecuted(id))
  <2>1. CASE j <= m
    <3>1. j \in 1 .. m /\ j \in 1 .. Len(t)
      BY <1>0, <2>1
    <3>2. QED
      BY <1>7, <3>1, Zenon
  <2>2. CASE m < j /\ j <= m + K
    <3>1. j - m \in 1 .. K /\ j = m + (j - m)
      BY <1>0, <1>7, <2>2
    <3>2. r[m + (j - m)] = NotExecuted(ids[j - m])
      BY <1>7, <3>1, Zenon
    <3>3. r[j] = NotExecuted(ids[j - m])
      BY <3>1, <3>2, Zenon
    <3>4. QED
      BY <3>3, Zenon
  <2>3. CASE m + K < j
    <3>1. j - K \in m + 1 .. Len(t) /\ j = K + (j - K) /\ j - K \in 1 .. Len(t)
      BY <1>0, <1>7, <2>3
    <3>2. r[j] = t[j - K]
      BY <1>7, <3>1, Zenon
    <3>3. QED
      BY <3>1, <3>2, Zenon
  <2>4. QED
    BY <1>0, <1>7, <2>1, <2>2, <2>3
<1>21. Regular(r)
  <2> SUFFICES ASSUME NEW j \in 1 .. Len(r)
               PROVE  IsFiniteSet(r[j].calls) /\ (r[j].role # "assistant" => r[j].calls = {})
    BY Zenon DEF Regular
  <2>1. ASSUME NEW i \in 1 .. Len(t), r[j] = t[i]
        PROVE  IsFiniteSet(r[j].calls) /\ (r[j].role # "assistant" => r[j].calls = {})
    BY <2>1, Zenon DEF Regular
  <2>2. ASSUME NEW id, r[j] = NotExecuted(id)
        PROVE  IsFiniteSet(r[j].calls) /\ (r[j].role # "assistant" => r[j].calls = {})
    BY <1>10, <2>2, FS_EmptySet, Zenon
  <2>3. QED
    BY <1>20, <2>1, <2>2, Zenon
<1>22. Keys(r) \subseteq Keys(t)
  <2> SUFFICES ASSUME NEW j \in 1 .. Len(r), r[j].img # NoKey
               PROVE  \E i \in 1 .. Len(t) : r[j].img = t[i].img
    BY Zenon DEF Keys
  <2>1. \E i \in 1 .. Len(t) : r[j] = t[i]
    BY <1>10, <1>20, Zenon
  <2>2. QED
    BY <2>1, Zenon
<1>23. QED
  BY <1>7, <1>19, <1>21, <1>22, Zenon DEF r

-----------------------------------------------------------------------------
(* The inductive invariant.                                                *)

\* A history that a send may start from: Open, and without the images in bad.
History(s, bad) ==
  s \in Seq(Message) /\ Regular(s) /\ Open(s) /\ CollectImageRefKeys(s) \cap bad = {}

\* Between two sends the history is Open; during one it is paired, and what was
\* shown is what the accumulated reply says.  An attempt that is to be retried
\* has shown nothing.
ConvInv ==
  /\ TypeOK /\ IsFiniteSet(acc.calls)
  /\ History(messages, reported) /\ History(previous, reported)
  /\ pc # "idle" => PairedTo(messages, Len(messages)) /\ shown = acc.text
  /\ pc = "backoff" => shown = 0 /\ attempt + 1 < MaxRetries
  /\ pc = "idle" /\ result = "Ok" => messages # <<>> /\ shown = Last(messages).text

LEMMA KeysCollected ==
  ASSUME NEW s \in Seq(Message)
  PROVE  CollectImageRefKeys(s) = Keys(s) /\ CollectImageRefKeys(s) \subseteq Key
<1>1. DOMAIN s = 1 .. Len(s) /\ \A n \in 1 .. Len(s) : s[n] \in Message
  OBVIOUS
<1>2. \A x \in Message : x.img \in Key \cup {NoKey}
  BY Zenon DEF Message
<1>3. CollectImageRefKeys(s) = Keys(s)
  BY <1>1, Zenon DEF CollectImageRefKeys, Keys
<1>4. CollectImageRefKeys(s) \subseteq Key
  <2>1. \A n \in 1 .. Len(s) : s[n].img \in Key \cup {NoKey}
    BY <1>1, <1>2, Zenon
  <2>2. QED
    BY <1>3, <2>1, Zenon DEF Keys
<1>5. QED
  BY <1>3, <1>4, Zenon

LEMMA OpenFrame ==
  ASSUME NEW s, NEW r, Len(s) \in Nat, Len(r) = Len(s), Agree(r, s, Len(s))
  PROVE  /\ PairedTo(s, Len(s)) => PairedTo(r, Len(r))
         /\ Open(s) => Open(r)
<1>1. PairedTo(s, Len(s)) => PairedTo(r, Len(r))
  BY PairedToFrame, Zenon
<1>2. ASSUME Len(s) > 0, PairedTo(s, Len(s) - 1), s[Len(s)].role = "assistant"
      PROVE  Len(r) > 0 /\ PairedTo(r, Len(r) - 1) /\ r[Len(r)].role = "assistant"
  <2>1. Len(s) - 1 \in Nat /\ Len(s) \in 1 .. Len(s) /\ \A i \in 1 .. Len(s) - 1 : i \in 1 .. Len(s)
    BY <1>2
  <2>2. Agree(r, s, Len(s) - 1)
    BY <2>1, Zenon DEF Agree
  <2>3. PairedTo(r, Len(s) - 1)
    BY <1>2, <2>1, <2>2, PairedToFrame, Zenon
  <2>4. r[Len(s)].role = "assistant"
    BY <1>2, <2>1, Zenon DEF Agree
  <2>5. QED
    BY <1>2, <2>3, <2>4, Zenon
<1>3. QED
  BY <1>1, <1>2, Zenon DEF Open

\* Marking images as expired changes nothing else.
LEMMA Marked ==
  ASSUME NEW s \in Seq(Message), NEW keys
  PROVE  LET r == MarkImageRefsExpired(s, keys)
         IN /\ r \in Seq(Message) /\ Len(r) = Len(s) /\ Agree(r, s, Len(s))
            /\ \A n \in 1 .. Len(s) : r[n].img = IF s[n].img \in keys THEN NoKey ELSE s[n].img
            /\ CollectImageRefKeys(r) = CollectImageRefKeys(s) \ keys
            /\ Regular(s) => Regular(r)
<1> DEFINE r == MarkImageRefsExpired(s, keys)
<1>0. DOMAIN s = 1 .. Len(s) /\ Len(s) \in Nat /\ \A n \in 1 .. Len(s) : s[n] \in Message
  OBVIOUS
<1>1. r = [n \in 1 .. Len(s) |-> [s[n] EXCEPT !.img = IF s[n].img \in keys THEN NoKey ELSE s[n].img]]
  BY <1>0, Zenon DEF MarkImageRefsExpired
<1> HIDE DEF r
<1>2. ASSUME NEW n \in 1 .. Len(s)
      PROVE  /\ r[n] \in Message
             /\ r[n].role = s[n].role /\ r[n].calls = s[n].calls /\ r[n].id = s[n].id
             /\ r[n].img = IF s[n].img \in keys THEN NoKey ELSE s[n].img
  BY <1>0, <1>1, Zenon DEF Message
<1>3. r \in Seq(Message) /\ Len(r) = Len(s) /\ DOMAIN r = 1 .. Len(s)
  <2>1. r \in [1 .. Len(s) -> Message]
    BY <1>1, <1>2, Zenon
  <2>2. QED
    BY <1>0, <2>1
<1>4. Agree(r, s, Len(s))
  BY <1>2, Zenon DEF Agree
<1>5. CollectImageRefKeys(r) = Keys(s) \ keys
  BY <1>2, <1>3, Zenon DEF CollectImageRefKeys, Keys
<1>6. CollectImageRefKeys(s) = Keys(s)
  BY KeysCollected, Zenon
<1>7. Regular(s) => Regular(r)
  BY <1>2, <1>3, Zenon DEF Regular
<1>8. QED
  BY <1>2, <1>3, <1>4, <1>5, <1>6, <1>7, Zenon DEF r

\* The history of a request: everything paired, no image that the history and
\* the incoming message do not have.
Sendable(r, keys) ==
  r \in Seq(Message) /\ Regular(r) /\ PairedTo(r, Len(r)) /\ Keys(r) \subseteq keys

LEMMA SendUserHistory ==
  ASSUME NEW s \in Seq(Message), Regular(s), Open(s), NEW img \in Key \cup {NoKey}
  PROVE  Sendable(RepairToolCallPairing(s \o <<User(img)>>), Keys(s) \cup ({img} \ {NoKey}))
<1> DEFINE u == User(img)
           t == s \o <<u>>
           N == Len(s)
<1>0. N \in Nat
  OBVIOUS
<1>1. u \in Message /\ u.role = "user" /\ u.calls = {} /\ u.img = img
  BY ConversationAssumption DEF User, Message
<1> HIDE DEF u
<1>2. /\ t \in Seq(Message) /\ Len(t) = N + 1 /\ t[N + 1] = u
      /\ \A i \in 1 .. N : t[i] = s[i]
  BY <1>0, <1>1
<1> HIDE DEF t
<1>3. Regular(t) /\ Keys(t) \subseteq Keys(s) \cup ({img} \ {NoKey})
  <2>1. \A n \in 1 .. Len(t) : n \in 1 .. N \/ n = N + 1
    BY <1>0, <1>2
  <2>2. Regular(t)
    BY <1>1, <1>2, <2>1, FS_EmptySet, Zenon DEF Regular
  <2>3. Keys(t) \subseteq Keys(s) \cup ({img} \ {NoKey})
    BY <1>1, <1>2, <2>1, Zenon DEF Keys
  <2>4. QED
    BY <2>2, <2>3, Zenon
<1>4. Len(t) > 0 /\ Len(t) - 1 = N
  BY <1>0, <1>2
<1>5. CASE PairedTo(s, N)
  <2>1. Agree(t, s, N)
    BY <1>2, Zenon DEF Agree
  <2>2. PairedTo(t, Len(t) - 1)
    BY <1>0, <1>4, <1>5, <2>1, PairedToFrame, Zenon
  <2>3. RepairToolCallPairing(t) = t /\ PairedTo(t, Len(t))
    BY <1>1, <1>2, <1>4, <2>2, RepairUser, Zenon
  <2>4. QED
    BY <1>2, <1>3, <2>3, Zenon DEF Sendable, t, u
<1>6. CASE Len(s) > 0 /\ PairedTo(s, Len(s) - 1) /\ s[Len(s)].role = "assistant"
  <2>1. /\ N \in 1 .. Len(t) /\ N \in N .. Len(t) /\ N - 1 \in Nat
        /\ \A i \in 1 .. N - 1 : i \in 1 .. N
        /\ N \in 1 .. N /\ N + 1 .. N = {} /\ N + 1 = Len(t)
    BY <1>0, <1>2, <1>6
  <2>2. Agree(t, s, N - 1)
    BY <1>2, <2>1, Zenon DEF Agree
  <2>3. PairedTo(t, N - 1)
    BY <1>6, <2>1, <2>2, PairedToFrame, Zenon
  <2>4. t[N].role = "assistant" /\ t[Len(t)].role = "user"
    BY <1>1, <1>2, <1>6, <2>1, Zenon
  <2>5. /\ \A k \in N + 1 .. N : t[k].role = "tool" /\ t[k].id \in t[N].calls \ {NoId}
        /\ \A k, l \in N + 1 .. N : t[k].id = t[l].id => k = l
    BY <2>1, Zenon
  <2> HIDE DEF N
  <2>6. Sendable(RepairToolCallPairing(t), Keys(t))
    BY <1>2, <1>3, <2>1, <2>3, <2>4, <2>5, RepairReply, Zenon DEF Sendable
  <2>7. QED
    BY <1>3, <2>6, Zenon DEF Sendable, t, u
<1>7. QED
  BY <1>5, <1>6, Zenon DEF Open

LEMMA SendToolHistory ==
  ASSUME NEW s \in Seq(Message), Regular(s), Open(s), s # <<>>,
         NEW ids \in SUBSET (Last(s).calls \ {NoId}), Last(s).calls # {}
  PROVE  Sendable(RepairToolCallPairing(
                    s \o [n \in DOMAIN SetToSeq(ids) |-> ToolResult(SetToSeq(ids)[n])]), Keys(s))
<1> DEFINE q == SetToSeq(ids)
           inc == [n \in DOMAIN q |-> ToolResult(q[n])]
           t == s \o inc
           N == Len(s)
           M == Cardinality(ids)
<1>0. N \in Nat /\ N > 0 /\ N \in 1 .. N /\ Last(s) = s[N] /\ s[N] \in Message
  BY DEF Last
<1>1. IsFiniteSet(s[N].calls) /\ s[N].role = "assistant"
  BY <1>0, Zenon DEF Regular
<1>2. IsFiniteSet(ids) /\ ids \subseteq s[N].calls \ {NoId} /\ ids \subseteq CallId
  <2>1. s[N].calls \subseteq CallId \cup {NoId}
    BY <1>0, Zenon DEF Message
  <2>2. ids \in SUBSET s[N].calls /\ ids \subseteq s[N].calls \ {NoId}
    BY <1>0, Zenon
  <2>3. IsFiniteSet(ids)
    BY <1>1, <2>2, FS_Subset, Zenon
  <2>4. QED
    BY <2>1, <2>2, <2>3, Zenon
<1>3. /\ q \in Seq(ids) /\ Len(q) = M /\ M \in Nat
      /\ \A i, j \in 1 .. M : q[i] = q[j] => i = j
  BY <1>2, SetToSeqOnto, Zenon
<1> HIDE DEF q, M
<1>4. DOMAIN q = 1 .. M /\ \A i \in 1 .. M : q[i] \in ids
  BY <1>3
<1>5. \A id \in CallId : /\ ToolResult(id) \in Message /\ ToolResult(id).role = "tool"
                         /\ ToolResult(id).calls = {} /\ ToolResult(id).id = id
                         /\ ToolResult(id).img = NoKey
  BY ConversationAssumption DEF ToolResult, Message
<1>6. ASSUME NEW i \in 1 .. M
      PROVE  /\ inc[i] \in Message /\ inc[i].role = "tool" /\ inc[i].calls = {}
             /\ inc[i].id = q[i] /\ inc[i].img = NoKey
  <2>1. inc[i] = ToolResult(q[i]) /\ q[i] \in CallId
    BY <1>2, <1>4, Zenon
  <2> HIDE DEF inc
  <2>2. /\ ToolResult(q[i]) \in Message /\ ToolResult(q[i]).role = "tool"
        /\ ToolResult(q[i]).calls = {} /\ ToolResult(q[i]).id = q[i]
        /\ ToolResult(q[i]).img = NoKey
    BY <1>5, <2>1, Zenon
  <2>3. QED
    BY <2>1, <2>2, Zenon
<1>7. inc \in Seq(Message) /\ Len(inc) = M
  <2>1. inc \in [1 .. M -> Message]
    BY <1>4, <1>6, Zenon
  <2> HIDE DEF inc
  <2>2. QED
    BY <1>3, <2>1
<1> HIDE DEF inc
<1>8. /\ t \in Seq(Message) /\ Len(t) = N + M
      /\ \A i \in 1 .. N : t[i] = s[i]
      /\ \A i \in 1 .. M : t[N + i] = inc[i]
  BY <1>0, <1>3, <1>7
<1> HIDE DEF t
<1>9. \A n \in 1 .. Len(t) : n \in 1 .. N \/ (n - N \in 1 .. M /\ n = N + (n - N))
  BY <1>0, <1>3, <1>8
<1>10. Regular(t) /\ Keys(t) \subseteq Keys(s)
  <2>1. ASSUME NEW n \in 1 .. Len(t)
        PROVE  (n \in 1 .. N /\ t[n] = s[n]) \/ (\E i \in 1 .. M : t[n] = inc[i])
    <3>1. CASE n \in 1 .. N
      BY <1>8, <3>1, Zenon
    <3>2. CASE n - N \in 1 .. M /\ n = N + (n - N)
      <4>1. t[N + (n - N)] = inc[n - N]
        BY <1>8, <3>2, Zenon
      <4>2. t[n] = inc[n - N]
        BY <3>2, <4>1, Zenon
      <4>3. QED
        BY <3>2, <4>2, Zenon
    <3>3. QED
      BY <1>9, <3>1, <3>2, Zenon
  <2>2. Regular(t)
    <3> SUFFICES ASSUME NEW n \in 1 .. Len(t)
                 PROVE  IsFiniteSet(t[n].calls) /\ (t[n].role # "assistant" => t[n].calls = {})
      BY Zenon DEF Regular
    <3>1. CASE n \in 1 .. N /\ t[n] = s[n]
      BY <3>1, Zenon DEF Regular
    <3>2. CASE \E i \in 1 .. M : t[n] = inc[i]
      BY <1>6, <3>2, FS_EmptySet, Zenon
    <3>3. QED
      BY <2>1, <3>1, <3>2, Zenon
  <2>3. Keys(t) \subseteq Keys(s)
    <3> SUFFICES ASSUME NEW n \in 1 .. Len(t), t[n].img # NoKey
                 PROVE  \E i \in 1 .. Len(s) : t[n].img = s[i].img
      BY Zenon DEF Keys
    <3>1. n \in 1 .. N /\ t[n] = s[n]
      BY <1>6, <2>1, Zenon
    <3>2. QED
      BY <3>1, Zenon
  <2>4. QED
    BY <2>2, <2>3, Zenon
<1>11. CASE PairedTo(s, N)
  <2>1. ids = {}
    <3>1. ASSUME NEW id \in s[N].calls \ {NoId} PROVE FALSE
      <4>1. AnsweredOnce(s, N, id, N)
        BY <1>0, <1>11, Zenon DEF PairedTo
      <4>2. N + 1 .. N = {}
        BY <1>0
      <4>3. QED
        BY <4>1, <4>2, Zenon DEF AnsweredOnce
    <3>2. QED
      BY <1>2, <3>1, Zenon
  <2>2. M = 0
    BY <2>1, FS_EmptySet, Zenon DEF M
  <2>3. Len(t) = N /\ Len(t) > 0
    BY <1>0, <1>8, <2>2
  <2>4. Agree(t, s, N)
    BY <1>8, Zenon DEF Agree
  <2>5. PairedTo(t, Len(t))
    BY <1>0, <1>11, <2>3, <2>4, PairedToFrame, Zenon
  <2>6. Len(t) \in Nat /\ Len(t) \in 0 .. Len(t)
    BY <1>0, <2>3
  <2>7. \A n \in 1 .. Len(t) : Unanswered(t, n) = {}
    BY <2>5, <2>6, NothingMissing, Zenon
  <2>8. RepairToolCallPairing(t) = t
    BY <1>8, <2>3, <2>7, RepairNothing, Zenon
  <2>9. QED
    BY <1>8, <1>10, <2>5, <2>8, Zenon DEF Sendable, t, inc, q
<1>12. CASE Len(s) > 0 /\ PairedTo(s, Len(s) - 1) /\ s[Len(s)].role = "assistant"
  <2>1. /\ N \in 1 .. Len(t) /\ Len(t) \in N .. Len(t) /\ N - 1 \in Nat
        /\ \A i \in 1 .. N - 1 : i \in 1 .. N
    BY <1>0, <1>3, <1>8
  <2>2. Agree(t, s, N - 1)
    BY <1>8, <2>1, Zenon DEF Agree
  <2>3. PairedTo(t, N - 1)
    BY <1>12, <2>1, <2>2, PairedToFrame, Zenon
  <2>4. t[N] = s[N]
    BY <1>0, <1>8, Zenon
  <2>5. \A k \in N + 1 .. Len(t) : k - N \in 1 .. M /\ k = N + (k - N)
    BY <1>0, <1>3, <1>8
  <2>6. ASSUME NEW k \in N + 1 .. Len(t)
        PROVE  t[k].role = "tool" /\ t[k].id = q[k - N] /\ t[k].id \in t[N].calls \ {NoId}
    <3>1. t[N + (k - N)] = inc[k - N]
      BY <1>8, <2>5, Zenon
    <3>2. t[k] = inc[k - N]
      BY <2>5, <3>1, Zenon
    <3>3. t[k].role = "tool" /\ t[k].id = q[k - N]
      BY <1>6, <2>5, <3>2, Zenon
    <3>4. q[k - N] \in t[N].calls \ {NoId}
      BY <1>2, <1>4, <2>4, <2>5, Zenon
    <3>5. QED
      BY <3>3, <3>4, Zenon
  <2>7. ASSUME NEW k \in N + 1 .. Len(t), NEW l \in N + 1 .. Len(t), t[k].id = t[l].id PROVE k = l
    <3>1. q[k - N] = q[l - N]
      BY <2>6, <2>7, Zenon
    <3>2. k - N = l - N
      BY <1>3, <2>5, <3>1, Zenon
    <3>3. QED
      BY <1>0, <2>5, <3>2, Zenon
  <2>8. t[N].role = "assistant"
    BY <1>12, <2>4, Zenon
  <2> HIDE DEF N
  <2>9. Sendable(RepairToolCallPairing(t), Keys(t))
    BY <1>8, <1>10, <2>1, <2>3, <2>6, <2>7, <2>8, RepairReply, Zenon DEF Sendable
  <2>10. QED
    BY <1>10, <2>9, Zenon DEF Sendable, t, inc, q
<1>13. QED
  BY <1>11, <1>12, Zenon DEF Open

-----------------------------------------------------------------------------
(* Every step keeps the invariant.                                         *)

LEMMA EmptyHistory ==
  ASSUME NEW bad
  PROVE  History(<<>>, bad)
<1>1. <<>> \in Seq(Message) /\ Len(<<>>) = 0 /\ DOMAIN <<>> = {} /\ 1 .. Len(<<>>) = {}
  OBVIOUS
<1>2. Regular(<<>>) /\ PairedTo(<<>>, Len(<<>>)) /\ CollectImageRefKeys(<<>>) = {}
  BY <1>1, Zenon DEF Regular, PairedTo, CollectImageRefKeys
<1>3. QED
  BY <1>1, <1>2, Zenon DEF History, Open

\* A SendAsync that returns anything but Ok.
LEMMA ReturnStep ==
  ASSUME TypeOK, NEW r \in {"Cancelled", "Interrupted", "Failed", "Invalid", "Rejected"}, Return(r),
         History(messages', reported'), reported' \subseteq Key, gone' \subseteq Key,
         shown' \in Nat, sends' \in 0 .. MaxSends, resolver' \in BOOLEAN
  PROVE  ConvInv'
<1>1. /\ pc' = "idle" /\ result' = r /\ previous' = <<>> /\ attempt' = 0
      /\ acc' = NoReply /\ cancelled' = FALSE
  BY Zenon DEF Return
<1>2. History(previous', reported') /\ previous' \in Seq(Message) /\ messages' \in Seq(Message)
  BY <1>1, EmptyHistory, Zenon DEF History
<1>3. NoReply \in [text : 0 .. MaxFrames, calls : SUBSET (CallId \cup {NoId})] /\ NoReply.calls = {}
  BY ConversationAssumption DEF NoReply
<1>4. 0 \in 0 .. MaxRetries - 1
  BY ConversationAssumption
<1>5. result' \in {"none", "Ok", "Cancelled", "Interrupted", "Failed", "Invalid", "Rejected"} /\ result' # "Ok"
  BY <1>1, Zenon
<1>6. TypeOK'
  BY <1>1, <1>2, <1>3, <1>4, <1>5, Zenon DEF TypeOK
<1>7. IsFiniteSet(acc'.calls)
  BY <1>1, <1>3, FS_EmptySet, Zenon
<1>8. pc' # "post" /\ pc' # "sink" /\ pc' # "resolve" /\ pc' # "backoff"
  BY <1>1, Zenon
<1>9. QED
  BY <1>1, <1>2, <1>5, <1>6, <1>7, <1>8, Zenon DEF ConvInv

LEMMA RejectStep ==
  ASSUME TypeOK, NEW s, History(s, reported), NEW missing \in SUBSET Key, Reject(s, missing),
         gone' \subseteq Key, shown' \in Nat, sends' \in 0 .. MaxSends, resolver' \in BOOLEAN
  PROVE  ConvInv'
<1> DEFINE r == MarkImageRefsExpired(s, missing)
<1>1. Return("Rejected") /\ messages' = r /\ reported' = reported \cup missing
  BY Zenon DEF Reject
<1>2. s \in Seq(Message) /\ Len(s) \in Nat /\ Regular(s) /\ Open(s) /\ CollectImageRefKeys(s) \cap reported = {}
  <2>1. s \in Seq(Message)
    BY Zenon DEF History
  <2>2. Len(s) \in Nat
    BY <2>1
  <2>3. QED
    BY <2>1, <2>2, Zenon DEF History
<1>3. /\ r \in Seq(Message) /\ Len(r) = Len(s) /\ Agree(r, s, Len(s)) /\ Regular(r)
      /\ CollectImageRefKeys(r) = CollectImageRefKeys(s) \ missing
  BY <1>2, Marked, Zenon
<1> HIDE DEF r
<1>4. Open(r)
  BY <1>2, <1>3, OpenFrame, Zenon
<1>5. CollectImageRefKeys(r) \cap (reported \cup missing) = {}
  BY <1>2, <1>3, Zenon
<1>6. History(messages', reported')
  BY <1>1, <1>3, <1>4, <1>5, Zenon DEF History
<1>7. reported' \subseteq Key
  BY <1>1, Zenon DEF TypeOK
<1>8. "Rejected" \in {"Cancelled", "Interrupted", "Failed", "Invalid", "Rejected"}
  BY Zenon
<1>9. QED
  BY <1>1, <1>6, <1>7, <1>8, ReturnStep, Zenon

LEMMA AttemptStep ==
  ASSUME TypeOK, NEW n \in 0 .. MaxRetries - 1, NEW s, History(s, reported), PairedTo(s, Len(s)),
         NEW accepted, History(accepted, reported), NEW cut, Attempt(n, s, accepted, cut),
         shown' = 0, sends' \in 0 .. MaxSends, resolver' = resolver, gone' = gone
  PROVE  ConvInv'
<1>1. shown' \in Nat /\ resolver' \in BOOLEAN /\ gone' \subseteq Key /\ reported \subseteq Key
  <2>1. resolver' \in BOOLEAN /\ gone' \subseteq Key /\ reported \subseteq Key
    BY Zenon DEF TypeOK
  <2>2. shown' \in Nat
    BY Zenon
  <2>3. QED
    BY <2>1, <2>2, Zenon
<1>2. CASE Return("Cancelled") /\ messages' = s /\ reported' = reported
  <2>1. "Cancelled" \in {"Cancelled", "Interrupted", "Failed", "Invalid", "Rejected"}
    BY Zenon
  <2>2. History(messages', reported') /\ reported' \subseteq Key
    BY <1>1, <1>2, Zenon
  <2>3. QED
    BY <1>1, <1>2, <2>1, <2>2, ReturnStep, Zenon
<1>3. CASE Reject(accepted, CollectImageRefKeys(s))
  <2>1. s \in Seq(Message)
    BY Zenon DEF History
  <2>2. CollectImageRefKeys(s) \in SUBSET Key
    BY <2>1, KeysCollected, Zenon
  <2>3. QED
    BY <1>1, <1>3, <2>2, RejectStep, Zenon
<1>4. CASE /\ pc' = IF CollectImageRefKeys(s) = {} THEN "post" ELSE "resolve"
           /\ messages' = s /\ previous' = accepted /\ attempt' = n
           /\ acc' = NoReply /\ cancelled' = FALSE /\ result' = "none"
           /\ reported' = reported
  <2>1. pc' = "post" \/ pc' = "resolve"
    BY <1>4, Zenon
  <2>2. pc' # "idle" /\ pc' # "backoff" /\ pc' \in {"idle", "resolve", "post", "sink", "backoff"}
    BY <2>1, Zenon
  <2>3. /\ NoReply \in [text : 0 .. MaxFrames, calls : SUBSET (CallId \cup {NoId})]
        /\ NoReply.calls = {} /\ NoReply.text = 0
    BY ConversationAssumption DEF NoReply
  <2>4. s \in Seq(Message) /\ accepted \in Seq(Message)
    BY Zenon DEF History
  <2>5. result' \in {"none", "Ok", "Cancelled", "Interrupted", "Failed", "Invalid", "Rejected"}
    BY <1>4, Zenon
  <2>6. TypeOK'
    BY <1>1, <1>4, <2>2, <2>3, <2>4, <2>5, Zenon DEF TypeOK
  <2>7. IsFiniteSet(acc'.calls) /\ shown' = acc'.text
    BY <1>4, <2>3, FS_EmptySet, Zenon
  <2>8. History(messages', reported') /\ History(previous', reported') /\ PairedTo(messages', Len(messages'))
    BY <1>4, Zenon
  <2>9. QED
    BY <2>2, <2>6, <2>7, <2>8, Zenon DEF ConvInv
<1>5. QED
  BY <1>2, <1>3, <1>4, Zenon DEF Attempt

LEMMA SendAsyncStep ==
  ASSUME ConvInv, NEW incoming, SendAsync(incoming), NEW keys,
         Sendable(SendAll(incoming), keys), keys \cap reported = {}
  PROVE  ConvInv'
<1> DEFINE s == SendAll(incoming)
<1>1. TypeOK /\ History(messages, reported)
  BY Zenon DEF ConvInv
<1>2. /\ shown' = 0 /\ sends' = sends + 1 /\ sends < MaxSends /\ resolver' = resolver /\ gone' = gone
      /\ IF TooManyImages(s)
         THEN /\ messages' = IF CollectImageRefKeys(incoming) # {} THEN messages ELSE s
              /\ Return("Invalid") /\ reported' = reported
         ELSE \E cut \in BOOLEAN : Attempt(0, s, messages, cut)
  BY Zenon DEF SendAsync
<1> HIDE DEF s
<1>3. s \in Seq(Message) /\ Regular(s) /\ PairedTo(s, Len(s)) /\ Keys(s) \subseteq keys
  BY Zenon DEF Sendable, s
<1>4. History(s, reported)
  <2>1. CollectImageRefKeys(s) \cap reported = {}
    BY <1>3, KeysCollected, Zenon
  <2>2. QED
    BY <1>3, <2>1, Zenon DEF History, Open
<1>5. sends' \in 0 .. MaxSends /\ shown' \in Nat /\ 0 \in 0 .. MaxRetries - 1
  <2>1. sends \in 0 .. MaxSends
    BY <1>1, Zenon DEF TypeOK
  <2>2. QED
    BY <1>2, <2>1, ConversationAssumption
<1>6. resolver' \in BOOLEAN /\ gone' \subseteq Key /\ reported \subseteq Key
  BY <1>1, <1>2, Zenon DEF TypeOK
<1>7. CASE TooManyImages(s)
  <2>1. Return("Invalid") /\ reported' = reported /\ (messages' = messages \/ messages' = s)
    BY <1>2, <1>7, Zenon
  <2>2. History(messages', reported')
    BY <1>1, <1>4, <2>1, Zenon
  <2>3. "Invalid" \in {"Cancelled", "Interrupted", "Failed", "Invalid", "Rejected"}
    BY Zenon
  <2>4. reported' \subseteq Key
    BY <1>6, <2>1, Zenon
  <2>5. QED
    BY <1>1, <1>5, <1>6, <2>1, <2>2, <2>3, <2>4, ReturnStep, Zenon
<1>8. CASE ~TooManyImages(s)
  <2>1. PICK cut \in BOOLEAN : Attempt(0, s, messages, cut)
    BY <1>2, <1>8, Zenon
  <2>2. QED
    BY <1>1, <1>2, <1>3, <1>4, <1>5, <2>1, AttemptStep, Zenon
<1>9. QED
  BY <1>7, <1>8, Zenon

LEMMA SendUserStep ==
  ASSUME ConvInv, SendUser
  PROVE  ConvInv'
<1>1. PICK img \in (Key \ reported) \cup {NoKey} : SendAsync(<<User(img)>>)
  BY Zenon DEF SendUser
<1>2. /\ messages \in Seq(Message) /\ Regular(messages) /\ Open(messages)
      /\ CollectImageRefKeys(messages) \cap reported = {}
  BY Zenon DEF ConvInv, History
<1>3. Sendable(SendAll(<<User(img)>>), Keys(messages) \cup ({img} \ {NoKey}))
  BY <1>2, SendUserHistory, Zenon DEF SendAll
<1>4. (Keys(messages) \cup ({img} \ {NoKey})) \cap reported = {}
  BY <1>2, KeysCollected, Zenon
<1>5. QED
  BY <1>1, <1>3, <1>4, SendAsyncStep, Zenon

LEMMA SendToolStep ==
  ASSUME ConvInv, SendTool
  PROVE  ConvInv'
<1>1. messages # <<>> /\ Last(messages).calls # {}
  BY Zenon DEF SendTool
<1>2. PICK ids \in SUBSET (Last(messages).calls \ {NoId}) :
             SendAsync([n \in DOMAIN SetToSeq(ids) |-> ToolResult(SetToSeq(ids)[n])])
  BY Zenon DEF SendTool
<1>3. /\ messages \in Seq(Message) /\ Regular(messages) /\ Open(messages)
      /\ CollectImageRefKeys(messages) \cap reported = {}
  BY Zenon DEF ConvInv, History
<1>4. Sendable(SendAll([n \in DOMAIN SetToSeq(ids) |-> ToolResult(SetToSeq(ids)[n])]), Keys(messages))
  BY <1>1, <1>3, SendToolHistory, Zenon DEF SendAll
<1>5. Keys(messages) \cap reported = {}
  BY <1>3, KeysCollected, Zenon
<1>6. QED
  BY <1>2, <1>4, <1>5, SendAsyncStep, Zenon

LEMMA SendToolWithoutIdStep ==
  ASSUME ConvInv, SendToolWithoutId
  PROVE  ConvInv'
<1>1. TypeOK /\ History(messages, reported)
  BY Zenon DEF ConvInv
<1>2. /\ sends < MaxSends /\ sends' = sends + 1 /\ Return("Invalid") /\ messages' = messages
      /\ shown' = shown /\ resolver' = resolver /\ gone' = gone /\ reported' = reported
  BY Zenon DEF SendToolWithoutId
<1>3. "Invalid" \in {"Cancelled", "Interrupted", "Failed", "Invalid", "Rejected"}
  BY Zenon
<1>4. /\ shown \in Nat /\ resolver \in BOOLEAN /\ gone \subseteq Key /\ reported \subseteq Key
      /\ sends \in 0 .. MaxSends
  BY <1>1, Zenon DEF TypeOK
<1>5. sends' \in 0 .. MaxSends
  BY <1>2, <1>4, ConversationAssumption
<1>6. /\ History(messages', reported') /\ reported' \subseteq Key /\ gone' \subseteq Key
      /\ shown' \in Nat /\ resolver' \in BOOLEAN
  BY <1>1, <1>2, <1>4, Zenon
<1>7. QED
  BY <1>1, <1>2, <1>3, <1>5, <1>6, ReturnStep, Zenon

\* A turn that ends without Ok and leaves the history and the images alone.
LEMMA FailStep ==
  ASSUME ConvInv, NEW r \in {"Cancelled", "Interrupted", "Failed", "Invalid", "Rejected"}, Return(r),
         UNCHANGED <<messages, shown, resolver, gone, reported, sends>>
  PROVE  ConvInv'
<1>1. TypeOK /\ History(messages, reported)
  BY Zenon DEF ConvInv
<1>2. /\ shown \in Nat /\ resolver \in BOOLEAN /\ gone \subseteq Key /\ reported \subseteq Key
      /\ sends \in 0 .. MaxSends
  BY <1>1, Zenon DEF TypeOK
<1>3. /\ History(messages', reported') /\ reported' \subseteq Key /\ gone' \subseteq Key
      /\ shown' \in Nat /\ resolver' \in BOOLEAN /\ sends' \in 0 .. MaxSends
  BY <1>1, <1>2, Zenon
<1>4. QED
  BY <1>1, <1>3, ReturnStep, Zenon

LEMMA PostFailsStep ==
  ASSUME ConvInv, PostFails
  PROVE  ConvInv'
<1>1. /\ pc = "post" /\ messages' = messages /\ shown' = shown /\ resolver' = resolver
      /\ gone' = gone /\ reported' = reported /\ sends' = sends
      /\ \/ \E r \in {"Cancelled", "Interrupted", "Failed", "Invalid", "Rejected"} : Return(r)
         \/ acc.text = 0 /\ Retry
  BY Zenon DEF PostFails
<1>2. CASE \E r \in {"Cancelled", "Interrupted", "Failed", "Invalid", "Rejected"} : Return(r)
  BY <1>1, <1>2, FailStep, Zenon
<1>3. CASE acc.text = 0 /\ Retry
  <2>1. /\ attempt + 1 < MaxRetries /\ pc' = "backoff" /\ previous' = previous /\ attempt' = attempt
        /\ acc' = acc /\ cancelled' = cancelled /\ result' = result
    BY <1>3, Zenon DEF Retry
  <2>2. pc' # "idle" /\ pc' # "post" /\ pc' # "sink" /\ pc # "idle" /\ pc \in {"post", "sink"}
    BY <1>1, <2>1, Zenon
  <2>3. shown = 0 /\ PairedTo(messages, Len(messages))
    BY <1>3, <2>2, Zenon DEF ConvInv
  <2>4. TypeOK'
    BY <1>1, <2>1, Zenon DEF ConvInv, TypeOK
  <2>5. History(messages', reported') /\ History(previous', reported') /\ IsFiniteSet(acc'.calls)
    BY <1>1, <2>1, Zenon DEF ConvInv
  <2>6. QED
    BY <1>1, <2>1, <2>2, <2>3, <2>4, <2>5, Zenon DEF ConvInv
<1>4. QED
  BY <1>1, <1>2, <1>3, Zenon

LEMMA ResolvedStep ==
  ASSUME ConvInv, Resolved
  PROVE  ConvInv'
<1> DEFINE missing == CollectImageRefKeys(messages) \cap gone
<1>1. /\ pc = "resolve" /\ shown' = shown /\ resolver' = resolver /\ gone' = gone /\ sends' = sends
      /\ \/ Reject(previous, {})
         \/ Reject(previous, missing)
         \/ Posting
  BY Zenon DEF Resolved
<1>2. /\ TypeOK /\ History(messages, reported) /\ History(previous, reported)
      /\ shown \in Nat /\ resolver \in BOOLEAN /\ gone \subseteq Key /\ sends \in 0 .. MaxSends
  BY Zenon DEF ConvInv, TypeOK
<1>3. missing \in SUBSET Key /\ {} \in SUBSET Key
  BY <1>2, Zenon
<1> HIDE DEF missing
<1>4. /\ shown' \in Nat /\ resolver' \in BOOLEAN /\ gone' \subseteq Key /\ sends' \in 0 .. MaxSends
  BY <1>1, <1>2, Zenon
<1>5. CASE Reject(previous, {})
  BY <1>2, <1>3, <1>4, <1>5, RejectStep, Zenon
<1>6. CASE Reject(previous, missing)
  BY <1>2, <1>3, <1>4, <1>6, RejectStep, Zenon
<1>7. CASE Posting
  <2>1. /\ pc' = "post" /\ messages' = messages /\ previous' = previous /\ attempt' = attempt
        /\ acc' = acc /\ cancelled' = cancelled /\ result' = result /\ reported' = reported
    BY <1>7, Zenon DEF Posting
  <2>2. QED
    BY <1>1, <1>2, <2>1, Zenon DEF ConvInv, TypeOK
<1>8. QED
  BY <1>1, <1>5, <1>6, <1>7, Zenon

LEMMA FeedStep ==
  ASSUME ConvInv, Feed
  PROVE  ConvInv'
<1>1. /\ pc = "post" /\ acc.text + Cardinality(acc.calls) < MaxFrames
      /\ messages' = messages /\ previous' = previous /\ attempt' = attempt /\ cancelled' = cancelled
      /\ resolver' = resolver /\ gone' = gone /\ reported' = reported /\ result' = result /\ sends' = sends
  BY Zenon DEF Feed
<1>2. /\ TypeOK /\ IsFiniteSet(acc.calls) /\ History(messages, reported) /\ History(previous, reported)
      /\ acc \in [text : 0 .. MaxFrames, calls : SUBSET (CallId \cup {NoId})] /\ shown \in Nat
  BY Zenon DEF ConvInv, TypeOK
<1>3. pc # "idle"
  BY <1>1, Zenon
<1>4. PairedTo(messages, Len(messages)) /\ shown = acc.text
  BY <1>3, Zenon DEF ConvInv
<1>5. acc.text + 1 \in 0 .. MaxFrames
  <2>1. Cardinality(acc.calls) \in Nat
    BY <1>2, FS_CardinalityType, Zenon
  <2>2. QED
    BY <1>1, <1>2, <2>1, ConversationAssumption
<1>6. /\ pc' \in {"post", "sink"} /\ shown' \in Nat /\ shown' = acc'.text /\ IsFiniteSet(acc'.calls)
      /\ acc' \in [text : 0 .. MaxFrames, calls : SUBSET (CallId \cup {NoId})]
  <2>1. CASE acc' = [acc EXCEPT !.text = acc.text + 1] /\ shown' = shown + 1 /\ pc' = "sink"
    <3>1. acc'.calls = acc.calls
      BY <1>2, <2>1, Zenon
    <3>2. IsFiniteSet(acc'.calls)
      BY <1>2, <3>1, Zenon
    <3>3. QED
      BY <1>2, <1>4, <1>5, <2>1, <3>2
  <2>2. ASSUME NEW id \in CallId \cup {NoId}, acc' = [acc EXCEPT !.calls = acc.calls \cup {id}],
               shown' = shown, pc' = pc
        PROVE  <1>6!:
    <3>1. acc'.calls = acc.calls \cup {id}
      BY <1>2, <2>2, Zenon
    <3>2. IsFiniteSet(acc'.calls)
      <4>1. IsFiniteSet(acc.calls \cup {id})
        BY <1>2, FS_AddElement, Zenon
      <4>2. QED
        BY <3>1, <4>1, Zenon
    <3>3. QED
      BY <1>1, <1>2, <1>4, <2>2, <3>2, Zenon
  <2>3. QED
    BY <2>1, <2>2, Zenon DEF Feed
<1>7. /\ pc' \in {"idle", "resolve", "post", "sink", "backoff"} /\ pc' # "idle" /\ pc' # "backoff"
  BY <1>6, Zenon
<1>8. TypeOK'
  BY <1>1, <1>2, <1>6, <1>7, Zenon DEF TypeOK
<1>9. History(messages', reported') /\ History(previous', reported') /\ PairedTo(messages', Len(messages'))
  BY <1>1, <1>2, <1>4, Zenon
<1>10. QED
  BY <1>6, <1>7, <1>8, <1>9, Zenon DEF ConvInv

LEMMA ReplyCompleteStep ==
  ASSUME ConvInv, ReplyComplete
  PROVE  ConvInv'
<1> DEFINE a == Assistant(acc)
           t == Append(messages, a)
           N == Len(messages)
<1>1. /\ pc = "post" /\ messages' = t /\ Return("Ok") /\ shown' = shown /\ resolver' = resolver
      /\ gone' = gone /\ reported' = reported /\ sends' = sends
  BY Zenon DEF ReplyComplete
<1>2. /\ TypeOK /\ IsFiniteSet(acc.calls) /\ messages \in Seq(Message) /\ Regular(messages)
      /\ CollectImageRefKeys(messages) \cap reported = {}
      /\ acc \in [text : 0 .. MaxFrames, calls : SUBSET (CallId \cup {NoId})]
  BY Zenon DEF ConvInv, TypeOK, History
<1>3. pc # "idle"
  BY <1>1, Zenon
<1>4. PairedTo(messages, N) /\ shown = acc.text
  BY <1>3, Zenon DEF ConvInv
<1>5. /\ a \in Message /\ a.role = "assistant" /\ a.calls = acc.calls /\ a.text = acc.text /\ a.img = NoKey
  BY <1>2, ConversationAssumption DEF Assistant, Message
<1> HIDE DEF a
<1>6. /\ t \in Seq(Message) /\ Len(t) = N + 1 /\ t[Len(t)] = a /\ N \in Nat /\ Last(t) = a /\ t # <<>>
      /\ \A i \in 1 .. N : t[i] = messages[i]
      /\ \A n \in 1 .. Len(t) : n \in 1 .. N \/ n = Len(t)
      /\ Len(t) > 0 /\ Len(t) - 1 = N
  BY <1>2, <1>5 DEF Last
<1> HIDE DEF t
<1>7. Regular(t)
  BY <1>2, <1>5, <1>6, Zenon DEF Regular
<1>8. Open(t)
  <2>1. Agree(t, messages, N)
    BY <1>6, Zenon DEF Agree
  <2>2. PairedTo(t, Len(t) - 1)
    BY <1>4, <1>6, <2>1, PairedToFrame, Zenon
  <2>3. QED
    BY <1>5, <1>6, <2>2, Zenon DEF Open
<1>9. CollectImageRefKeys(t) \cap reported = {}
  <2>1. Keys(t) \subseteq Keys(messages)
    BY <1>5, <1>6, Zenon DEF Keys
  <2>2. QED
    BY <1>2, <1>6, <2>1, KeysCollected, Zenon
<1>10. History(messages', reported')
  BY <1>1, <1>6, <1>7, <1>8, <1>9, Zenon DEF History
<1>11. /\ pc' = "idle" /\ result' = "Ok" /\ previous' = <<>> /\ attempt' = 0
       /\ acc' = NoReply /\ cancelled' = FALSE
  BY <1>1, Zenon DEF Return
<1>12. History(previous', reported') /\ previous' \in Seq(Message) /\ messages' \in Seq(Message)
  BY <1>10, <1>11, EmptyHistory, Zenon DEF History
<1>13. NoReply \in [text : 0 .. MaxFrames, calls : SUBSET (CallId \cup {NoId})] /\ NoReply.calls = {}
  BY ConversationAssumption DEF NoReply
<1>14. 0 \in 0 .. MaxRetries - 1 /\ pc' # "backoff"
  BY <1>11, ConversationAssumption
<1>15. TypeOK'
  BY <1>1, <1>2, <1>11, <1>12, <1>13, <1>14, Zenon DEF TypeOK
<1>16. IsFiniteSet(acc'.calls)
  BY <1>11, <1>13, FS_EmptySet, Zenon
<1>17. messages' # <<>> /\ shown' = Last(messages').text
  BY <1>1, <1>4, <1>5, <1>6, Zenon
<1>18. QED
  BY <1>10, <1>11, <1>12, <1>14, <1>15, <1>16, <1>17, Zenon DEF ConvInv

LEMMA BackoffDoneStep ==
  ASSUME ConvInv, BackoffDone
  PROVE  ConvInv'
<1>1. /\ pc = "backoff" /\ Attempt(attempt + 1, messages, previous, cancelled)
      /\ shown' = shown /\ resolver' = resolver /\ gone' = gone /\ sends' = sends
  BY Zenon DEF BackoffDone
<1>2. pc # "idle"
  BY <1>1, Zenon
<1>3. /\ TypeOK /\ History(messages, reported) /\ History(previous, reported) /\ shown = 0
      /\ PairedTo(messages, Len(messages)) /\ attempt + 1 < MaxRetries
      /\ attempt \in 0 .. MaxRetries - 1 /\ sends \in 0 .. MaxSends
  BY <1>1, <1>2, Zenon DEF ConvInv, TypeOK
<1>4. attempt + 1 \in 0 .. MaxRetries - 1
  BY <1>3, ConversationAssumption
<1>5. shown' = 0 /\ sends' \in 0 .. MaxSends
  BY <1>1, <1>3, Zenon
<1>6. QED
  BY <1>1, <1>3, <1>4, <1>5, AttemptStep, Zenon

\* Steps of the sink, the canceller and the resolver's store change neither a
\* history nor the reply.
LEMMA OtherStep ==
  ASSUME ConvInv, SinkDone \/ Cancel \/ ImageExpires \/ UNCHANGED vars
  PROVE  ConvInv'
<1>1. /\ messages' = messages /\ previous' = previous /\ attempt' = attempt /\ acc' = acc
      /\ shown' = shown /\ resolver' = resolver /\ reported' = reported /\ result' = result /\ sends' = sends
      /\ pc' = pc \/ (pc = "sink" /\ pc' = "post")
      /\ cancelled' = cancelled \/ cancelled' = TRUE
      /\ gone' = gone \/ \E k \in CollectImageRefKeys(messages) : gone' = gone \cup {k}
  BY Zenon DEF SinkDone, Cancel, ImageExpires, vars
<1>2. /\ TypeOK /\ History(messages, reported) /\ History(previous, reported) /\ IsFiniteSet(acc.calls)
      /\ messages \in Seq(Message)
  BY Zenon DEF ConvInv, History
<1>3. cancelled' \in BOOLEAN
  BY <1>1, <1>2, Zenon DEF TypeOK
<1>4. gone' \subseteq Key
  <2>1. gone \subseteq Key /\ CollectImageRefKeys(messages) \subseteq Key
    BY <1>2, KeysCollected, Zenon DEF TypeOK
  <2>2. QED
    BY <1>1, <2>1, Zenon
<1>5. /\ pc' \in {"idle", "resolve", "post", "sink", "backoff"}
      /\ pc' = "idle" <=> pc = "idle"
      /\ pc' = "backoff" <=> pc = "backoff"
  BY <1>1, <1>2, Zenon DEF TypeOK
<1>6. TypeOK'
  BY <1>1, <1>2, <1>3, <1>4, <1>5, Zenon DEF TypeOK
<1>7. QED
  BY <1>1, <1>2, <1>5, <1>6, Zenon DEF ConvInv

LEMMA ConvInitInv == Init => ConvInv
<1> SUFFICES ASSUME Init PROVE ConvInv
  BY Zenon
<1>1. /\ messages = <<>> /\ previous = <<>> /\ pc = "idle" /\ attempt = 0 /\ acc = NoReply /\ shown = 0
      /\ cancelled = FALSE /\ resolver \in BOOLEAN /\ gone = {} /\ reported = {}
      /\ result = "none" /\ sends = 0
  BY Zenon DEF Init
<1>2. History(messages, reported) /\ History(previous, reported)
      /\ messages \in Seq(Message) /\ previous \in Seq(Message)
  BY <1>1, EmptyHistory, Zenon DEF History
<1>3. NoReply \in [text : 0 .. MaxFrames, calls : SUBSET (CallId \cup {NoId})] /\ NoReply.calls = {}
  BY ConversationAssumption DEF NoReply
<1>4. 0 \in 0 .. MaxRetries - 1 /\ 0 \in 0 .. MaxSends /\ 0 \in Nat
  BY ConversationAssumption
<1>5. TypeOK
  BY <1>1, <1>2, <1>3, <1>4, Zenon DEF TypeOK
<1>6. IsFiniteSet(acc.calls)
  BY <1>1, <1>3, FS_EmptySet, Zenon
<1>7. pc # "backoff" /\ result # "Ok"
  BY <1>1, Zenon
<1>8. QED
  BY <1>1, <1>2, <1>5, <1>6, <1>7, Zenon DEF ConvInv

LEMMA ConvNextInv == ConvInv /\ [Next]_vars => ConvInv'
<1> SUFFICES ASSUME ConvInv, [Next]_vars PROVE ConvInv'
  BY Zenon
<1>1. CASE SendUser BY <1>1, SendUserStep, Zenon
<1>2. CASE SendTool BY <1>2, SendToolStep, Zenon
<1>3. CASE SendToolWithoutId BY <1>3, SendToolWithoutIdStep, Zenon
<1>4. CASE Resolved BY <1>4, ResolvedStep, Zenon
<1>5. CASE ReplyComplete BY <1>5, ReplyCompleteStep, Zenon
<1>6. CASE PostFails BY <1>6, PostFailsStep, Zenon
<1>7. CASE BackoffDone BY <1>7, BackoffDoneStep, Zenon
<1>8. CASE Feed BY <1>8, FeedStep, Zenon
<1>9. CASE SinkDone \/ Cancel \/ ImageExpires \/ UNCHANGED vars BY <1>9, OtherStep, Zenon
<1>10. QED
  BY <1>1, <1>2, <1>3, <1>4, <1>5, <1>6, <1>7, <1>8, <1>9, Zenon DEF Next, Request

LEMMA ConvAlways == Spec => []ConvInv
<1>1. QED
  BY ConvInitInv, ConvNextInv, PTL DEF Spec

\* Whatever number of sends, results left out, retries and rolled back turns:
\* every POST carries a history in which each tool call with an id has exactly
\* one result and no result stands alone (SendAll and RepairToolCallPairing).
THEOREM RequestsArePaired == Spec => []RequestPaired
<1>1. ConvInv => RequestPaired
  <2> SUFFICES ASSUME ConvInv, pc = "post" PROVE Paired(messages)
    BY Zenon DEF RequestPaired
  <2>1. pc # "idle"
    BY Zenon
  <2>2. messages \in Seq(Message) /\ PairedTo(messages, Len(messages))
    BY <2>1, Zenon DEF ConvInv, History
  <2>3. QED
    BY <2>2, PairedToIsPaired, Zenon
<1>2. QED
  BY <1>1, ConvAlways, PTL

\* What on_token got in a SendAsync is the text its reply has in the history,
\* for every number of retries (PostFails' condition on partial output).
THEOREM ShownTextIsRecorded == Spec => []ShownIsRecorded
<1>1. ConvInv => ShownIsRecorded
  <2>1. pc \in {"post", "sink"} => pc # "idle"
    BY Zenon
  <2>2. QED
    BY <2>1, Zenon DEF ConvInv, ShownIsRecorded
<1>2. QED
  BY <1>1, ConvAlways, PTL

\* Marking the images that are invalid is marking all that the result lacks.
LEMMA MarkedByResult ==
  ASSUME NEW s \in Seq(Message), NEW keys \in SUBSET Key
  PROVE  MarkImageRefsExpired(s, keys)
           = MarkImageRefsExpired(s, Key \ CollectImageRefKeys(MarkImageRefsExpired(s, keys)))
<1> DEFINE other == Key \ CollectImageRefKeys(MarkImageRefsExpired(s, keys))
<1>1. other = Key \ (CollectImageRefKeys(s) \ keys)
  BY Marked, Zenon
<1> HIDE DEF other
<1>2. \A n \in DOMAIN s : s[n].img \in Key \cup {NoKey}
  <2>1. \A n \in DOMAIN s : s[n] \in Message
    OBVIOUS
  <2>2. \A x \in Message : x.img \in Key \cup {NoKey}
    BY Zenon DEF Message
  <2>3. QED
    BY <2>1, <2>2, Zenon
<1>3. ASSUME NEW n \in DOMAIN s
      PROVE  (IF s[n].img \in keys THEN NoKey ELSE s[n].img)
               = (IF s[n].img \in other THEN NoKey ELSE s[n].img)
  <2>1. s[n].img # NoKey => s[n].img \in CollectImageRefKeys(s)
    BY Zenon DEF CollectImageRefKeys
  <2>2. NoKey \notin keys
    BY ConversationAssumption, Zenon
  <2>3. QED
    BY <1>1, <1>2, <2>1, <2>2, Zenon
<1>4. [n \in DOMAIN s |-> [s[n] EXCEPT !.img = IF s[n].img \in keys THEN NoKey ELSE s[n].img]]
        = [n \in DOMAIN s |-> [s[n] EXCEPT !.img = IF s[n].img \in other THEN NoKey ELSE s[n].img]]
  BY <1>3, Zenon
<1>5. QED
  BY <1>4, Zenon DEF MarkImageRefsExpired, other

\* Only an image can have a running turn rejected, and then to the history from
\* before the turn.
LEMMA RejectedIsReject ==
  ASSUME ConvInv, [Next]_vars, pc' = "idle", pc # "idle", result' = "Rejected"
  PROVE  \E missing \in SUBSET Key : Reject(previous, missing)
<1>0. /\ "Cancelled" # "Rejected" /\ "Interrupted" # "Rejected" /\ "Failed" # "Rejected"
      /\ "Ok" # "Rejected" /\ "post" # "idle" /\ "sink" # "idle" /\ "resolve" # "idle" /\ "backoff" # "idle"
  BY Zenon
<1>1. \A r : Return(r) => r = "Rejected"
  BY Zenon DEF Return
<1>2. /\ ~SendUser /\ ~SendTool /\ ~SendToolWithoutId
  BY Zenon DEF SendUser, SendTool, SendToolWithoutId, SendAsync
<1>3. ~ReplyComplete /\ ~PostFails
  BY <1>0, <1>1, Zenon DEF ReplyComplete, PostFails, Retry
<1>4. ~Feed /\ ~SinkDone /\ ~Cancel /\ ~ImageExpires /\ ~UNCHANGED vars
  BY <1>0, Zenon DEF Feed, SinkDone, Cancel, ImageExpires, vars
<1>5. Resolved \/ BackoffDone
  BY <1>2, <1>3, <1>4, Zenon DEF Next, Request
<1>6. CollectImageRefKeys(messages) \subseteq Key
  <2>1. messages \in Seq(Message)
    BY Zenon DEF ConvInv, TypeOK
  <2>2. QED
    BY <2>1, KeysCollected, Zenon
<1>7. CASE Resolved
  <2>1. ~Posting
    BY <1>0, Zenon DEF Posting
  <2>2. Reject(previous, {}) \/ Reject(previous, CollectImageRefKeys(messages) \cap gone)
    BY <1>7, <2>1, Zenon DEF Resolved
  <2>3. {} \in SUBSET Key /\ CollectImageRefKeys(messages) \cap gone \in SUBSET Key
    BY <1>6, Zenon
  <2>4. QED
    BY <2>2, <2>3, Zenon
<1>8. CASE BackoffDone
  <2>1. Attempt(attempt + 1, messages, previous, cancelled)
    BY <1>8, Zenon DEF BackoffDone
  <2>2. Reject(previous, CollectImageRefKeys(messages))
    BY <1>0, <1>1, <2>1, Zenon DEF Attempt
  <2>3. QED
    BY <1>6, <2>2, Zenon
<1>9. QED
  BY <1>5, <1>7, <1>8, Zenon

\* A turn rejected for an image, at its first attempt or at a later one, takes
\* everything of itself out of the history, and the invalid images with it, so
\* that no later turn fails for them again (SendAsync's copy to roll back to).
THEOREM RejectedTurnLeavesNoTrace == Spec => RejectedLeavesNoTrace
<1> DEFINE Step ==
      pc' = "idle" /\ pc # "idle" /\ result' = "Rejected" =>
        /\ CollectImageRefKeys(messages') \cap reported' = {}
        /\ messages' = MarkImageRefsExpired(previous, Key \ CollectImageRefKeys(messages'))
<1>1. ConvInv /\ [Next]_vars => [Step]_vars
  <2> SUFFICES ASSUME ConvInv, [Next]_vars, pc' = "idle", pc # "idle", result' = "Rejected"
               PROVE  /\ CollectImageRefKeys(messages') \cap reported' = {}
                      /\ messages' = MarkImageRefsExpired(previous, Key \ CollectImageRefKeys(messages'))
    BY Zenon
  <2>1. PICK missing \in SUBSET Key : Reject(previous, missing)
    BY RejectedIsReject, Zenon
  <2>2. previous \in Seq(Message) /\ messages' = MarkImageRefsExpired(previous, missing)
    BY <2>1, Zenon DEF ConvInv, TypeOK, Reject
  <2>3. ConvInv'
    BY ConvNextInv, Zenon
  <2>4. CollectImageRefKeys(messages') \cap reported' = {}
    BY <2>3, Zenon DEF ConvInv, History
  <2>5. QED
    BY <2>2, <2>4, MarkedByResult, Zenon
<1>2. QED
  BY <1>1, ConvAlways, PTL DEF Spec, RejectedLeavesNoTrace
=============================================================================
