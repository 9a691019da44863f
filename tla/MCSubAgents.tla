---------------------------- MODULE MCSubAgents ----------------------------
(* Instances of SubAgents: every delegation graph over three agents for the *)
(* loader, a few for the run, and one document for each other check.        *)
EXTENDS SubAgents, SequencesExt

CONSTANTS a, b, c

Plain(targets, depth) ==
  [typed |-> TRUE, tools |-> {}, backend |-> "", prompt |-> "ok",
   delegates |-> IF targets = <<>> THEN "absent" ELSE "object", parallel |-> FALSE,
   agents |-> targets, maxDepth |-> depth, fields |-> {"known"}]

Doc(graph, depth) ==
  [kind |-> "object", version |-> 1, main |-> a, declared |-> Agent,
   agents |-> [x \in Agent |-> Plain(graph[x], depth)], state |-> "absent",
   pool |-> "static", signing |-> "absent", algo |-> "", key |-> "unknown", mac |-> "",
   resolver |-> FALSE, required |-> FALSE]

\* All graphs, with max_depth left out: every delegate call is refused.
Graphs3 == {Doc([x \in Agent |-> SetToSeq(g[x])], 0) : g \in [Agent -> SUBSET Agent]}

Line == a :> <<b>> @@ b :> <<c>> @@ c :> <<>>
Triangle == a :> <<b, c>> @@ b :> <<c>> @@ c :> <<>>

With(key, d) == [Doc(Line, 0) EXCEPT !.agents[b] = [@ EXCEPT ![key] = d]]
Signed(alg, k, m, res, req) ==
  [Doc(Line, 0) EXCEPT !.signing = "object", !.algo = alg, !.key = k, !.mac = m,
                       !.resolver = res, !.required = req]

\* Depths that wrap in uint32_t, each way a check refuses, each way it lets pass.
Others ==
  {Doc(Line, -1), Doc(Line, 9), Doc(Line, Word),
   [Doc(Line, 0) EXCEPT !.kind = "other"], [Doc(Line, 0) EXCEPT !.state = "other"],
   [Doc(Line, 0) EXCEPT !.signing = "other"], [Doc(Line, 0) EXCEPT !.version = 0],
   [Doc(Line, 0) EXCEPT !.version = 2], [Doc(Line, 0) EXCEPT !.declared = {a, b}],
   [Doc(Line, 0) EXCEPT !.declared = {b, c}], [Doc(Line, 0) EXCEPT !.pool = "built"],
   [Doc(Line, 0) EXCEPT !.pool = "failed"], [Doc(Line, 0) EXCEPT !.required = TRUE],
   With("typed", FALSE), With("delegates", "other"), With("parallel", TRUE),
   With("tools", {"echo"}), With("tools", {"delegate"}), With("tools", {"missing"}),
   With("fields", {"unknown"}), [Doc(Line, 0) EXCEPT !.agents[a].backend = "unknown"]}
  \cup {Signed(alg, k, m, res, req) : alg \in {"", "HMAC-SHA256", "other"},
          k \in {"known", "unknown"}, m \in {"", "right", "wrong"},
          res \in BOOLEAN, req \in BOOLEAN}

\* Documents whose runs delegate, were they all loaded: one is a cycle.
Running ==
  {Doc(Triangle, 2), Doc([Line EXCEPT ![b] = <<a>>], 2),
   [Doc(Line, 2) EXCEPT !.agents[b].backend = "unknown"],
   [Doc(Line, 2) EXCEPT !.agents[b].prompt = "bad"]}

MCDocs == Graphs3 \cup Others \cup Running
=============================================================================
