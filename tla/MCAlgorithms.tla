---------------------------- MODULE MCAlgorithms ----------------------------
(***************************************************************************)
(* The pure algorithms of rl on every input of a small domain: each state  *)
(* but the first is one input, and the invariants compare what the code    *)
(* computes from it with what it should compute.                           *)
(***************************************************************************)
EXTENDS Views, Homes, MirrorSet, SearchText, Verbs, Names, Adapter, Relation

VARIABLE probe

InOrder == [t \in 1..4 |-> t]
Nobody == [rel |-> {}, life |-> "Open", sync |-> "Synced", ws |-> "w", prio |-> 1, who |-> {},
           pending |-> 0, item |-> "null", filing |-> "null", repo |-> "r"]
Three == 1..3
\* Letters of one and two bytes, one that folds to two letters, a sentence end, a
\* blank; and words, each a scalar of its own.
Words == {"load", "doDrain", "A2"}
MCWidths == [c \in {"a", "w", "s", "ss", ".", " "} \cup Words |-> IF c \in {"w", "ss"} THEN 2 ELSE 1]
MCFolds == [c \in DOMAIN MCWidths |-> IF c = "ss" THEN <<"s", "s">> ELSE <<c>>]
MCShapes == [w \in Words |-> [load |-> <<"lower", "lower">>, doDrain |-> <<"lower", "upper">>,
                              A2 |-> <<"upper", "digit">>][w]]
\* Letters in pairs, a word of three letters in the vocabulary; an end of a sentence
\* is a token, a wide letter two; two tokens frame the text.
MCTokens(text) ==
  LET runs == {<<i, j>> \in (1..Len(text)) \X (1..Len(text)) :
                 /\ i <= j /\ \A k \in i..j : text[k] = "a"
                 /\ (i = 1 \/ text[i - 1] # "a") /\ (j = Len(text) \/ text[j + 1] # "a")}
      cost(r) == LET n == r[2] - r[1] + 1 IN IF n = 3 THEN 1 ELSE (n + 1) \div 2
      count(c) == Cardinality({k \in DOMAIN text : text[k] = c})
  IN 2 + MapThenSumSet(cost, runs) + count(".") + count("[") + 2 * count("w")
MCCorpusPrefix == <<"[">>
MCQueryPrefix == <<"[", "[">>

ASSUME AlgorithmsConstants == SearchTextConstants /\ EmbeddingConstants

AllOf == [ws |-> {}, open |-> {}, sync |-> {}, prios |-> {}, who |-> {}]

\* The first states only split the work between the checker's threads.
Init == \E s \in SUBSET (0..4) : probe = [alg |-> "none", seed |-> s]

\* Any blockers, the task itself and one the table does not have included.
PickBlocked ==
  /\ 0 \notin probe.seed
  /\ \E by \in [2..3 -> SUBSET (1..4)], life \in [Three -> {"Open", "Completed"}] :
     probe' = [alg |-> "blocked",
              db |-> [t \in Three |-> [Nobody EXCEPT !.life = life[t],
                                                     !.sync = IF t = 3 THEN "Conflict" ELSE "Synced",
                                                     !.rel = {"BlockedBy"} \X
                                                       (IF t = 1 THEN probe.seed ELSE by[t])]]]

\* Any parents, recorded on either side or on both.
PickTree ==
  LET others == {f \in [Three -> SUBSET Three] : \A t \in Three : t \notin f[t]} IN
  \E up \in {f \in others : f[1] \cup f[2] = probe.seed}, down \in others :
     probe' = [alg |-> "tree",
               db |-> [t \in Three |-> [Nobody EXCEPT !.prio = 3 - t,
                         !.rel = ({"ChildOf"} \X up[t]) \cup ({"ParentOf"} \X down[t])]]]

\* Any retained fields; all of them share one option list.
PickBoard ==
  \E names \in BoundedSeq({"Status", "Priority", "Type", "Types"}, 3),
     options \in BoundedSeq({"todo", "doing", "done", "bug"}, 3) :
    /\ IsInjective(options)
    /\ {Len(names), Len(options)} = probe.seed
    /\ probe' = [alg |-> "board",
                 fields |-> [i \in DOMAIN names |->
                   [name |-> names[i],
                    options |-> [j \in DOMAIN options |-> [id |-> options[j], name |-> options[j]]]]]]

\* A title, a body of two paragraphs and a comment.
PickText ==
  \E title \in BoundedSeq({"a", "w"}, 3), one \in BoundedSeq({"a", "w", "."}, 3),
     two \in BoundedSeq({"a", ".", " "}, 2) :
    /\ {Len(one), Len(two)} = probe.seed
    /\ probe' = [alg |-> "text", title |-> title, body |-> <<one, two>>]

\* A chunk and a query for the model.
PickInput ==
  \E text \in BoundedSeq({"a", "w", ".", " "}, 6) :
    /\ Len(text) = Cardinality(probe.seed) \/ (Len(text) = 6 /\ probe.seed = {})
    /\ probe' = [alg |-> "input", text |-> text]

\* A text and what is looked for in it.
PickNeedle ==
  \E text \in BoundedSeq({"a", "w", "ss", "s"}, 4), needle \in BoundedSeq({"a", "ss", "s"}, 2) :
    /\ {Len(text), Len(needle)} = probe.seed
    /\ probe' = [alg |-> "needle", text |-> text, needle |-> needle]

\* The titles and bodies of two tasks, and where a third is only in the lanes that
\* come from outside.
PickQuery ==
  \E one \in BoundedSeq(Words, 2), two \in BoundedSeq(Words, 1),
     lexical \in {s \in BoundedSeq(1..3, 2) : IsInjective(s)} :
    /\ {Len(one), Len(two), Len(lexical)} = probe.seed
    /\ \E query \in BoundedSeq(Words, 2) \ {<<>>}, exact \in BOOLEAN, semantic \in {<<>>, <<2, 3, 1>>} :
         probe' = [alg |-> "query", query |-> query, exact |-> exact, lexical |-> lexical, semantic |-> semantic,
                   columns |-> <<<<one, <<>>>>, <<two, <<"load">>>>, <<<<>>, <<>>>>>>]

\* Anything that the file system, SQLite and the model cache may answer.
PickSidecar ==
  \E env \in [policy : BOOLEAN, fix : {"ok", "denied", "other"}, connect : {"ok", "denied", "cantopen", "other"},
              write : {"ok", "denied", "cantopen", "other"}, rungs : SUBSET {"readonly", "immutable"},
              wal : BOOLEAN, tables : {"current", "old", "empty", "fails"}, owner : {Profile, NoOwner, "another"},
              model : {"none", "broken", "loads"}] :
    /\ probe.seed = {0} \cup {IF env.policy THEN 1 ELSE 2} \cup {IF env.wal THEN 3 ELSE 4}
    /\ probe' = [alg |-> "sidecar", env |-> env]

\* Two repos, two workspaces in any state, and a directory.
PickScope ==
  \E bound \in SUBSET ({"u", "v"} \X {"r", "q"}), u, v \in {"active", "archived", "deleted"}, cwd \in {"r", "none"} :
    /\ Cardinality(bound) = Cardinality(probe.seed)
    /\ probe' = [alg |-> "scope", world |-> [bound |-> bound, status |-> [u |-> u, v |-> v], cwd |-> cwd]]

\* Two tasks and the refs of a claim, which may repeat and miss.
PickClaim ==
  \E refs \in BoundedSeq(1..3, 3), task \in [open : BOOLEAN, who : SUBSET {"me", "you"}, remote : BOOLEAN] :
    /\ refs # <<>> /\ Len(refs) + Cardinality(task.who) = Cardinality(probe.seed)
    /\ probe' = [alg |-> "claim", refs |-> refs,
                 db |-> <<task, [open |-> TRUE, who |-> {}, remote |-> TRUE]>>]

\* A command with some of its flags, and up to two things that do not work.
Shape(a) == [ws |-> a.a, repo |-> a.b, filing |-> a.c, filed |-> a.c, issue |-> a.d,
             refresh |-> a.a, exact |-> a.d, offline |-> a.d, cwdOnly |-> a.c, noLink |-> a.d,
             github |-> a.c, target |-> a.b, repair |-> a.c, prune |-> a.d, owner |-> a.b,
             remove |-> a.a, kind |-> a.b, other |-> a.c, there |-> a.b, relink |-> a.a, nodeless |-> a.b,
             tracked |-> a.b, cascade |-> a.c, subTracked |-> a.d, staged |-> a.a, recorded |-> a.b, orphan |-> a.c,
             dirty |-> a.a, differs |-> a.b, pending |-> a.c, more |-> a.d, changed |-> a.a, related |-> a.c,
             missing |-> a.c, away |-> a.c]
PickVerb ==
  \E a \in [a : BOOLEAN, b : BOOLEAN, c : BOOLEAN, d : BOOLEAN] :
    \E verb \in DOMAIN Commands(Shape(a)) :
      LET steps == Commands(Shape(a))[verb]
          needs == {step.what : step \in Range(steps)}
      IN \E one, other \in needs \cup {"nothing"} :
           /\ probe.seed = {k \in 1..4 : [i \in 1..4 |-> <<a.a, a.b, a.c, a.d>>[i]][k]}
           /\ probe' = [alg |-> "verb", verb |-> verb, flags |-> Shape(a), steps |-> steps, broken |-> {one, other}]

\* A batch whose refs may repeat, of which some cannot be changed.
PickBatch ==
  \E refs \in BoundedSeq(1..3, 3) :
    /\ refs # <<>>
    /\ probe' = [alg |-> "batch", refs |-> refs, broken |-> probe.seed]

\* The ways to write the address of a repo, and another one.
Canonical(o, r) == <<"github.com", "/", o, "/", r>>
PickUrl ==
  \E o, r, p, q \in {"o", "r"}, n, m \in Numbers, way \in Schemes \cup {"git@"}, user \in {<<>>, <<"user@">>, <<"git@">>},
     end \in {<<>>, <<"/">>, <<".git">>, <<".git", "/">>} :
    /\ Cardinality(probe.seed) = Len(end)
    /\ way = "git@" => user = <<>>
    /\ probe' = [alg |-> "url", o |-> o, r |-> r, n |-> n, there |-> [o |-> p, r |-> q, n |-> m], end |-> end,
                 url |-> IF way = "git@" THEN <<way, "github.com", ":", o, "/", r>> \o end
                         ELSE <<way>> \o user \o Canonical(o, r) \o end]
PickPieces ==
  \E url \in BoundedSeq({"https://", "github.com", "/", "o", "issues", "1"}, 4) :
    /\ Len(url) \in probe.seed
    /\ probe' = [alg |-> "pieces", url |-> <<"github.com", "/">> \o url]

\* Two issues and the places they have been at, and a transfer or a deletion between
\* the first request of a call and the next one.
Places == 1..3
PickHub ==
  \E at \in {f \in [Places -> {0, 11, 12}] : \A a, b \in Places : f[a] = f[b] => a = b \/ f[a] = 0},
     goes \in {g \in [Places -> {0} \cup Places] : \A a \in Places : g[a] # a}, links \in {{}, {<<11, 12>>}, {<<13, 12>>}},
     down \in SUBSET {1, 2} :
    LET hub == [at |-> at, goes |-> goes, links |-> links,
                issue |-> [i \in {11, 12} |-> [title |-> "old", closed |-> FALSE, reason |-> "none"]]]
        moved == {TransferIssue(hub, a, b, {}).hub : a, b \in Places}
        fewer == {[hub EXCEPT !.at[a] = 0] : a \in Places}
    IN \E then \in {hub} \cup moved \cup fewer :
         /\ probe.seed = {a \in Places : goes[a] # 0} /\ \A a \in Places : goes[a] # 0 => at[a] = 0
         /\ probe' = [alg |-> "hub", net |-> [first |-> hub, then |-> then, down |-> down]]

\* Two items with values in up to three fields, and one that is gone.
PickItems ==
  \E values \in BoundedSeq({[field |-> f, option |-> 9] : f \in {7, 8}} \cup {[field |-> 0, option |-> 0]}, 3),
     content \in {"Issue", "DraftIssue", "PullRequest"}, ids \in {s \in BoundedSeq(1..3, 3) : IsInjective(s)},
     down \in SUBSET {1, 2} :
    /\ Len(values) = Cardinality(probe.seed)
    /\ probe' = [alg |-> "items", ids |-> ids, down |-> down,
                 board |-> [i \in 1..2 |-> [id |-> i, content |-> IF i = 1 THEN "Issue" ELSE content, state |-> "OPEN",
                                            values |-> values, text |-> [title |-> "old", body |-> "old"]]]]

PickName ==
  \E one \in BoundedSeq({"a", "b", "c", "2"}, 3), two, three \in BoundedSeq({"a", "b", "2"}, 2), noise \in BOOLEAN :
    /\ {Len(one), Len(two)} = probe.seed
    /\ probe' = [alg |-> "name", words |-> <<one, two, three>> \o (IF noise THEN <<<<"app">>>> ELSE <<>>)]

\* A tree with links in it, of which a directory goes away.
Tree == {<<"/">>, <<"/", "v">>, <<"/", "v", "a">>, <<"/", "v", "a", "b">>}
Links == [w \in {<<"/", "w">>, <<"/", "v", "c">>} |-> IF w = <<"/", "w">> THEN <<"/", "v">> ELSE <<"/", "v", "a">>]
PickPath ==
  \E gone \in Tree \cup {<<"nothing">>}, path \in {<<"/", v, a, "b">> : v \in {"v", "w"}, a \in {"a", "c"}} :
    /\ Len(path) = Cardinality(probe.seed) /\ gone # <<"/">>
    /\ probe' = [alg |-> "path", path |-> path,
                 after |-> [links |-> Links, dirs |-> {d \in Tree : ~IsPrefix(gone, d)}]]

PickAgents ==
  \E text \in BoundedSeq({"text", "start", "bound", "end"}, 5), bound \in BOOLEAN, there \in BOOLEAN :
    /\ Len(text) \in probe.seed
    /\ probe' = [alg |-> "agents", file |-> IF there THEN {text} ELSE {}, bound |-> bound]

\* A copy of a task, and a world in which its workspace, its instance, the origin it
\* is filed in, the board or a repo on GitHub may be gone. Boards with a Type field,
\* with two and with none; one origin is not on GitHub.
HomeFields(n) == <<[name |-> "Status", options |-> <<[id |-> "todo", name |-> "todo"]>>]>>
                 \o [i \in 1..n |-> [name |-> "Type", options |-> <<[id |-> "b", name |-> "bug"]>>]]
HomeWorld(h) ==
  [workspaces |-> [s \in IF 0 \in h.there THEN {"w"} ELSE {} |->
                     [filing |-> h.default, project |-> h.project,
                      bound |-> SelectSeq(<<1, 2, 3>>, LAMBDA i : i \in h.there)]],
   instances |-> [i \in h.there \ {0, 4} |-> IF i = 2 THEN "p" ELSE "o"],
   origins |-> {"o", "p"}, owners |-> [o |-> <<"acme">>, p |-> <<>>, gone |-> <<>>],
   boards |-> [b \in IF h.types = 3 THEN {} ELSE {"board"} |->
                 CHOOSE project \in LinkFromSnapshot(HomeFields(h.types)) : TRUE],
   types |-> [acme |-> {"bug"}],
   hub |-> [o \in IF 4 \in h.there THEN {"o", "p"} ELSE {"o"} |-> IF o = "o" THEN {7, 8} ELSE h.issues]]
PickHome ==
  \E default, filing \in {None, <<"o">>, <<"p">>, <<"gone">>}, project \in {None, <<"board">>}, types \in 0..3,
     repo \in {None, <<1>>, <<2>>}, remote \in {None, <<7>>}, item \in {None, <<"card">>}, mirror \in BOOLEAN,
     type \in {"null", "bug", "odd"}, issues \in {{}, {7}} :
    /\ remote # None => mirror
    /\ probe' = [alg |-> "home",
                 w |-> HomeWorld([there |-> probe.seed, default |-> default, project |-> project, types |-> types,
                                  issues |-> issues]),
                 task |-> [ws |-> "w", filing |-> filing, repo |-> repo, remote |-> remote, item |-> item, type |-> type,
                           provider |-> IF filing = <<"o">> THEN "github" ELSE "remote", mirror |-> mirror,
                           node |-> remote # None, open |-> TRUE, prio |-> 0]]

\* A task, its baseline and the issue, each with any lifecycle and logins; the seed
\* says which texts differ and how many logins there may be.
PickMirror ==
  \E life, old \in Lifecycle, closed \in BOOLEAN, who, were, are \in BoundedSeq({"a", "b"}, 2) :
    LET text(k) == IF k \in probe.seed THEN "new" ELSE "old"
    IN /\ 4 \in probe.seed \/ Len(are) = 1
       /\ probe' = [alg |-> "mirror", task |-> [title |-> text(0), body |-> text(1), life |-> life, who |-> who],
                    baseline |-> [title |-> text(2), body |-> "old", life |-> old, who |-> were],
                    issue |-> [title |-> text(3), body |-> "old", closed |-> closed, who |-> are]]
PickType ==
  \E name, other \in {"bug", "epic"} \X {"lower", "title"} :
    probe' = [alg |-> "type", name |-> name, other |-> other]

Next == probe.alg = "none" /\ (\/ PickHome \/ PickMirror \/ PickType \/ PickBlocked \/ PickTree \/ PickBoard
                              \/ PickText \/ PickInput \/ PickNeedle \/ PickQuery \/ PickSidecar
                              \/ PickScope \/ PickClaim \/ PickVerb \/ PickBatch
                              \/ PickHub \/ PickItems \/ PickUrl \/ PickPieces \/ PickName \/ PickPath \/ PickAgents)
Spec == Init /\ [][Next]_probe
-----------------------------------------------------------------------------
\* A task is in rl query ready exactly when it is open, not in conflict, and no
\* open task is reachable from it along BlockedBy through closed tasks.
ReadyIsFrontier ==
  probe.alg = "blocked" =>
    LET db == probe.db
        hop == [t, u \in 1..4 |-> t \in Three /\ u \in BlockedBy(db[t])]
        far == TransitiveClosure(hop, 1..4)
        waits(t) == \E b \in Three : far[t, b] /\ IsOpen(db[b])
    IN SelectReady(db, Three) = {t \in Three : IsOpen(db[t]) /\ db[t].sync # "Conflict" /\ ~waits(t)}

\* Following --offset from page to page shows every row of the unpaged view of
\* blocked tasks once, in its order, and no page before the last is short.
PagesCoverView ==
  probe.alg = "blocked" =>
    \A n \in 1..2, desc \in BOOLEAN :
      LET all == BlockedTasks(probe.db, AllOf, desc, [offset |-> 0, limit |-> 9])
          page(i) == BlockedTasks(probe.db, AllOf, desc, [offset |-> i * n, limit |-> n])
      IN \A i \in 0..2 : page(i) = SubSeq(all, i * n + 1, IF (i + 1) * n < Len(all) THEN (i + 1) * n
                                                          ELSE Len(all))

\* A task and one above it, all of it inside S: chains of up to three edges.
Ancestry(db, S) ==
  LET up == {e \in S \X S : ParentTask(db, e[1]) = e[2]}
      then(E, F) == {e \in S \X S : \E u \in S : <<e[1], u>> \in E /\ <<u, e[2]>> \in F}
  IN up \cup then(up, up) \cup then(up, then(up, up))

\* Every ready task whose parents end at a root, inside the workspace or at its
\* border, is a node of the ready tree, and every node is ready or an ancestor
\* of a ready task in the same workspace.
ReadyIsShown ==
  probe.alg = "tree" =>
    LET db == probe.db IN
    \A S \in {Three, {1, 2}, {2, 3}} :
      LET above == Ancestry(db, S)
      IN \A ready \in SUBSET S :
         /\ Shown(db, S, ready) \subseteq ready \cup {u \in S : \E t \in ready : <<t, u>> \in above}
         /\ \A t \in ready : (<<t, t>> \notin above /\ \A u \in S : <<t, u>> \in above => <<u, u>> \notin above)
                               => t \in Shown(db, S, ready)

\* Without a cycle of parents the branch of a node sorts by the best priority of
\* a ready task in it.
RankIsBest ==
  probe.alg = "tree" =>
    LET db == probe.db IN
    \A S \in {Three, {1, 2}, {2, 3}} :
      LET above == Ancestry(db, S)
      IN (\A t \in S : <<t, t>> \notin above) =>
           \A ready \in SUBSET S, t \in S :
             LET best == {db[u].prio : u \in {v \in ready : v = t \/ <<v, t>> \in above}}
             IN SubtreePriority(db, S, ready, t) = MinOf(best \cup {LowestPriority})

\* The echo of a pushed priority leaves the task alone: whatever is linked and
\* remapped, the poller reads the option a priority was pushed as back as that
\* priority, also where the clamp gives several priorities one option.
EchoKeepsPriority ==
  probe.alg = "board" =>
    \A linked \in LinkFromSnapshot(probe.fields) :
      \A p, q \in Priorities, option \in {"todo", "done"} :
        \A project \in {linked} \cup MapPriority(linked, q, option) :
          p \in DOMAIN project.priority
            => PolledPriority(project, p, ResolvedPriorityOptionIdFor(project, p)) = p

\* A linked board shows a task where its name says: an open task is in a finished
\* column only if nothing better is on the board, and a fresh catalog that drops
\* columns leaves no mapping to a column that is gone.
ColumnsMakeSense ==
  probe.alg = "board" =>
    \A project \in LinkFromSnapshot(probe.fields) :
      LET options == OptionsOf(project.fields, "Status")
          fewer == IF options = <<>> THEN options ELSE Tail(options)
      IN /\ ResolvedOptionIdFor(project, TRUE) \in InFlow \cup Finished
              => OptionIds(options) \cap Backlog = {}
         /\ \A open \in BOOLEAN : ResolvedOptionIdFor(ReplaceStatusOptions(project, fewer), open)
                                   \in OptionIds(fewer) \cup {"null"}

\* A default type that promote keeps and whose name the board or the org knows
\* is sent now or with the card, and never on both rails.
DefaultIsCarried ==
  probe.alg = "board" =>
    \A project \in LinkFromSnapshot(probe.fields) \cup {NoProject},
       types \in SUBSET {"bug"}, owner, node, isSub \in BOOLEAN :
      LET task == [type |-> "null", item |-> "null", node |-> node]
          after == PromoteType(project, types, owner, task,
                               DeriveDefaultIssueType(isSub, "bug", "null"))
          onCard == SetProjectTypeMutation(project, [task EXCEPT !.type = after.type, !.item = "card"])
          known == TypeField(project) = 0 \/ ResolvedTypeOptionIdFor(project, "bug") # "null"
      IN after.type # "null" /\ known => Cardinality(after.mutation \cup onCard) = 1

\* Chunks lose nothing: their bodies put together are the paragraphs of the body and
\* of the comment, some chunk has the whole title, and a chunk is within the budget
\* unless it is the title's own or down to one scalar.
ChunksCover ==
  probe.alg = "text" =>
    \A chunks \in {ChunkTask(probe.title, probe.body, <<<<probe.title>>>>)},
       core \in {ChunkFormatted(probe.title, probe.body, TRUE)} :
       LET text(cs) == FlattenSeq(FlattenSeq([i \in DOMAIN cs |-> cs[i].body]))
       IN
       /\ text(core) = IF IsBlank(probe.body) THEN <<>> ELSE FlattenSeq(probe.body)
       /\ text(chunks) = text(core) \o probe.title
       /\ \E i \in DOMAIN core : core[i].anchor = [title |-> probe.title, marked |-> FALSE]
       /\ \A i \in DOMAIN chunks : LET body == chunks[i].body IN
            \/ AnchorBytes(chunks[i].anchor) + BodyBytes(body) <= ChunkBudget
            \/ body = <<>> \/ Len(FlattenSeq(body)) = 1

\* The inputs of a chunk put together are the chunk, none is empty, and the model
\* gets each of them whole, in rows of one length; only a query may be cut.
InputsCover ==
  probe.alg = "input" =>
    LET inputs == PlanSemanticInputs(probe.text)
        rows == EmbedBatch(inputs, FALSE)
        row(i) == rows[i].kept + rows[i].filled
    IN /\ FlattenSeq(inputs) = probe.text
       /\ \A i \in DOMAIN inputs : inputs[i] # <<>> /\ rows[i].kept = Encode(inputs[i], FALSE)
       /\ \A i, j \in DOMAIN inputs : row(i) = row(j) /\ row(i) <= MaxInputTokens
       /\ \A answer \in EmbedQuery(probe.text) : answer.filled = 0 /\ answer.kept <= MaxInputTokens

\* The matcher finds every occurrence, overlapping ones too, and a span is the
\* scalars that a match touches, a half-matched expansion whole; the excerpt has
\* the whole span in it.
SpansAreExact ==
  probe.alg = "needle" =>
    LET text == probe.text
        spans == FindLiteralSpans(text, probe.needle)
        word == FoldPlain(probe.needle)
        n(i, j) == Len(FoldPlain(SubSeq(text, i, j)))
        hits == {i \in 1..n(1, Len(text)) - Len(word) + 1 :
                  word # <<>> /\ SubSeq(FoldPlain(text), i, i + Len(word) - 1) = word}
        touches(i, k) == i <= n(1, k) /\ i + Len(word) - 1 > n(1, k - 1)
    IN /\ Len(spans) = Cardinality(hits)
       /\ {k[1]..k[2] : k \in Range(spans)} = {{k \in DOMAIN text : touches(i, k)} : i \in hits}
       /\ \A k \in Range(spans), limit \in 0..3 : LET e == Excerpt(text, k, limit) IN
            e[1] <= k[1] /\ k[2] <= e[2]

\* A task that says the query comes before one that does not where the mode
\* promises it, none of those is left out, a shorter list is the head of a longer
\* one, and among equals a task that no lane puts lower comes first.
RankingIsRight ==
  probe.alg = "query" =>
    \A mode \in {Classify(probe.query, probe.exact)} :
    \A literal \in {[t \in 1..3 |-> LiteralLane(probe.columns[t], probe.query, mode)]} :
    \A result \in {[n \in {1, 2, 3, 9} |-> Assemble(mode, literal, probe.lexical, probe.semantic, n)]} :
    LET all == result[9]
        place(s, t) == IF t \in Range(s) THEN CHOOSE i \in DOMAIN s : s[i] = t ELSE 9
        says(t) == Ahead(mode, literal[t])
        lanes == {probe.lexical, probe.semantic, LiteralOccurrenceRanking(literal)}
    IN /\ {t \in 1..3 : literal[t].full} \subseteq Range(all)
       /\ \A n \in 1..3 : IsPrefix(result[n], all)
       /\ \A t, u \in Range(all) :
            \/ place(all, t) < place(all, u)
            \/ t = u
            \/ says(u) /\ ~says(t)
            \/ ~(says(t) /\ ~says(u)) /\ \E lane \in lanes : place(lane, u) < place(lane, t)
            \/ ~(says(t) /\ ~says(u)) /\ u < t /\ \A lane \in lanes : place(lane, u) = place(lane, t)
       /\ \A t \in Range(all) : Evidence(literal[t], probe.lexical, t) = "title" =>
            t \in Range(probe.semantic) \/ literal[t].allTokens

\* No sidecar that others can write or that is a symlink is ever read, one that is
\* open for reading only was refused to the writer by permissions and is never
\* handed to a writer, and pages that wait in the -wal file are never ignored.
SidecarIsGuarded ==
  probe.alg = "sidecar" =>
    LET env == probe.env
        pool == OpenReadable(env)
    IN /\ pool # "none" => env.policy
       /\ pool \in {"readonly", "immutable"} =>
            /\ \E step \in {"fix", "connect", "write"} :
                 env[step] \in {"denied", "cantopen"} /\ ~OpenWritable([env EXCEPT !.policy = TRUE], "none")
            /\ ~OpenWritable(env, pool) /\ pool \in env.rungs
       /\ pool = "immutable" => ~env.wal
       /\ pool = "writable" <=> OpenWritable(env, "none")

\* rl task search-index status tells what a search would do right after it: the
\* lanes that it reports available are those that answer, with the same reasons,
\* as long as the row of metadata can be read, a verified model loads and every
\* chunk has its vectors.
StatusTellsSearch ==
  probe.alg = "sidecar" =>
    LET env == probe.env IN
    (Metadata(env).available \/ OpenReadable(env) = "none") /\ env.model # "broken" =>
      /\ StatusLexicalLane(env) = SearchLexicalLane(env, TRUE)
      /\ StatusSemanticLane(env) = SearchSemanticLane(env, FALSE, TRUE, TRUE)

\* rl task search: chunks, literal matches and the order of the results
\* (chunk_task, plan_semantic_inputs, find_literal_spans, assemble), and the sidecar behind it
\* (open_readable, open_writable, search_index_dispatch).
SearchIsRight == ChunksCover /\ InputsCover /\ SpansAreExact /\ RankingIsRight /\ SidecarIsGuarded /\ StatusTellsSearch

\* From one directory the commands mean one place: the task that rl task create
\* makes there without flags is in the workspace and the repo that the others
\* derive, is shown by rl query ready with and without --local, and where one of
\* them finds several workspaces or none, so do the others. With flags a task
\* never gets a repo of another workspace, and what a directory gave it --local
\* shows from there. rl here lists each of those places once.
ScopesAgree ==
  probe.alg = "scope" =>
    LET w == probe.world
        bare == ResolveTaskCreateScope(w, "none", NoHandle)
        flags == {"u", "v", "none"} \X (w.bound \cup {AnyOf("r"), AnyOf("q"), NoHandle})
    IN /\ bare = ResolveRepoOrCwd(w, NoHandle) /\ {b[1] : b \in bare} = ResolveWorkspace(w, "none")
       /\ \A b \in bare, localOnly \in BOOLEAN :
            /\ {b} = ResolveTaskCreateScope(w, "none", AnyOf(b[2])) /\ {b} = ResolveTaskCreateScope(w, b[1], NoHandle)
            /\ \A ws \in {"none", b[1]} : \E scope \in ResolveReadyScope(w, ws, localOnly) : InReadyScope(scope, b)
       /\ \A f \in flags : \A t \in ResolveTaskCreateScope(w, f[1], f[2]) :
            /\ f[1] \in {"none", t[1]} /\ (t[2] = "none" \/ t \in w.bound)
            /\ f[2] = NoHandle /\ t[2] # "none" => \E scope \in ResolveReadyScope(w, "none", TRUE) : InReadyScope(scope, t)
       /\ {h.at : h \in HereDispatch(w)} = CwdRepoMemberships(w)
       /\ \A h \in HereDispatch(w) : h.at \notin h.roster /\ \A c \in w.bound : c[1] = h.at[1] => c \in h.roster \cup {h.at}

\* A claim adds the login and nothing else, tells of every ref in order, fails
\* where it met a closed or unknown task, and a second one has nothing to push;
\* without login or token no task is touched; and rl query mine without
\* --assignee looks for the login that the claim assigned.
ClaimIsIdempotent ==
  probe.alg = "claim" =>
    LET db == probe.db
        once(push) == ClaimDispatch(db, probe.refs, "me", push, TRUE)
        again(push) == ClaimDispatch(once(push).db, probe.refs, "me", push, TRUE)
        hit == {r \in Range(probe.refs) \cap DOMAIN db : db[r].open}
    IN /\ \A push \in BOOLEAN :
            /\ once(push).db = [t \in DOMAIN db |-> IF t \in hit THEN [db[t] EXCEPT !.who = @ \cup {"me"}] ELSE db[t]]
            /\ again(push).db = once(push).db /\ "push" \notin Range(again(push).rows)
            /\ once(push).ok <=> Range(probe.refs) \subseteq hit
            /\ Len(once(push).rows) = Len(probe.refs)
       /\ \A t \in DOMAIN db : t \in hit /\ "me" \notin db[t].who /\ db[t].remote =>
            Cardinality({i \in DOMAIN probe.refs : probe.refs[i] = t /\ once(TRUE).rows[i] = "push"}) = 1
       /\ ClaimDispatch(db, probe.refs, "", FALSE, TRUE).db = db
       /\ ClaimDispatch(db, probe.refs, "me", TRUE, FALSE).db = db
       /\ \A git, user \in {"", "you"} : ResolveMineAssignee(<<"", "me", git, user>>) = "me"

\* What the next run of a command finds after one that has done these steps.
Resumed(f, done) ==
  [f EXCEPT !.staged = @ \/ "staged" \in done, !.recorded = @ \/ "staged" \in done, !.orphan = @ \/ "create" \in done,
            !.dirty = @ /\ "task" \notin done, !.pending = @ /\ "mark" \notin done,
            !.more = @ /\ "another mark" \notin done, !.changed = @ /\ "task" \notin done,
            !.away = @ \/ "transfer" \in done, !.tracked = @ \/ "root" \in done, !.subTracked = @ \/ "child" \in done]

\* A command that fails has written nothing, but for those that write more than once:
\* promote stages the task before the issue is created, push and pull save content
\* before they get to comments and edges, an import saves each issue before the next
\* request, attach saves two rows, doctor and reconcile save row by row, and a link
\* may lack its comments. Repeated when everything works such a command writes what
\* was missing, creates no second issue and posts no comment twice whose mark could be
\* saved; but rl task link leaves the comments to the next pull, and a transfer that was
\* carried out and not saved is refused from then on, which asks for a relink. Content
\* is kept before a pull overwrites it. GitHub is only asked with a token, and except
\* by promote, push, pull, import and attach before the first write; a command that
\* asks for no token needs no GitHub either; and what rl query, rl repo find and
\* rl task list read they never write.
VerbsAreSound ==
  probe.alg = "verb" =>
    LET whats(run, kinds) == {run.did[i].what : i \in {j \in DOMAIN run.did : run.did[j].does \in kinds}}
        run == RunCommand(probe.steps, probe.broken)
        again == RunCommand(Commands(Resumed(probe.flags, whats(run, {"net", "write"})))[probe.verb], {})
        whole == RunCommand(probe.steps, {})
        both(what) == \A r \in {run, again} : what \in whats(r, {"net"})
        before(i, does) == \E j \in 1..(i - 1) : run.did[j].does = does
        insists(does) == \E step \in Range(probe.steps) : step.does = does /\ step.hard
    IN /\ ~run.ok /\ whats(run, {"write"}) # {} =>
            probe.verb \in {"promote", "push", "pull", "import", "link", "attach", "doctor", "reconcile"}
       /\ ~run.ok /\ "transfer" \in whats(run, {"net"}) => ~again.ok
       /\ ~run.ok /\ whole.ok /\ probe.verb # "link" /\ "transfer" \notin whats(run, {"net"}) =>
            /\ again.ok /\ whats(whole, {"write"}) \subseteq whats(run, {"write"}) \cup whats(again, {"write"})
            /\ ~both("create") /\ (both("post") => "mark" \in probe.broken)
            /\ both("another post") => "another mark" \in probe.broken
       /\ probe.verb = "pull" /\ "task" \in whats(run, {"write"}) => "kept" \in whats(run, {"write"})
       /\ \A i \in DOMAIN run.did : run.did[i].does = "net" =>
            before(i, "token") /\ (before(i, "write") => probe.verb \in {"promote", "push", "pull", "import", "attach"})
       /\ ~insists("token") /\ whole.ok /\ probe.broken \subseteq {"token", "remote", "nothing"} => run.ok
       /\ probe.verb \in {"list", "snapshots", "outbox", "listRemote", "view", "overview", "drift", "ready", "mine",
                          "children", "repos", "repo", "find", "discover", "locate"} => whats(run, {"write"}) = {}

\* A batch does every task it can, tells of each ref in order which it was, and
\* fails if one failed.
BatchTellsAll ==
  probe.alg = "batch" =>
    LET batch == BatchTaskOp(probe.refs, probe.broken)
    IN /\ [i \in DOMAIN batch.rows |-> batch.rows[i].ref] = probe.refs
       /\ Range(batch.wrote) = {row.ref : row \in {r \in Range(batch.rows) : r.ok}}
       /\ batch.ok <=> Len(batch.wrote) = Len(probe.refs)

\* One repo has one name: every way to write its remote, the address of an issue in
\* it and the answers of the API lead to the same canonical URL, from which owner
\* and repo come back; and an answer from elsewhere is a move, named such that
\* rl task link --relink with it leads there.
UrlsAgree ==
  probe.alg = "url" =>
    LET canonical == Canonical(probe.o, probe.r)
        there == Canonical(probe.there.o, probe.there.r)
        answer == [url |-> <<"https://", "api.github.com", "/", "repos", "/", probe.there.o, "/", probe.there.r>>,
                   number |-> probe.there.n]
        moved == DetectMoveFromIssue(canonical, probe.n, answer)
        issue(repo, n) == <<"https://">> \o repo \o <<"/", "issues", "/", n>>
    IN /\ ParseCanonical(probe.url) = {canonical}
       /\ SplitOwnerRepo(canonical) = {<<<<probe.o>>, <<probe.r>>>>}
       /\ GithubOwnerFromCanonical(canonical) = {<<probe.o>>}
       /\ moved = {} <=> <<there, probe.there.n>> = <<canonical, probe.n>>
       /\ \A a \in moved \cup {[repo |-> canonical, number |-> probe.n]} :
            ParseIssueUrl(issue(a.repo, a.number)) = {a} /\ ParseIssueUrl(issue(a.repo, a.number) \o <<"/">>) = {a}

\* Whatever is typed, an issue is only read from an address whose owner and repo the
\* adapter can split again, and both readers of a canonical URL agree.
PiecesAgree ==
  probe.alg = "pieces" =>
    /\ \A a \in ParseIssueUrl(probe.url) : SplitOwnerRepo(a.repo) # {}
    /\ \A c \in SplitOwnerRepo(probe.url) : GithubOwnerFromCanonical(probe.url) = {c[1]}
    /\ SplitOwnerRepo(probe.url) # {} => ParseCanonical(<<"https://">> \o probe.url) = {probe.url}

\* What a read answers is of the issue that was at the address when the call began,
\* also if it moves before the next request; a moved issue is never taken for it but
\* named with its place; and nothing is only said to be missing when it is.
ReadsAreOwn ==
  probe.alg = "hub" =>
    LET net == probe.net IN
    \A a \in Places :
      /\ \A read \in {FetchIssue(net, a), FetchSubIssues(net, a), FetchBlockedBy(net, a), FetchComments(net, a)} :
           /\ read.kind = "Ok" => read.is = net.first.at[a] /\ read.is # 0
           /\ read.kind = "IssueMoved" => net.first.at[a] = 0 /\ net.first.at[read.is] # 0 /\ Home(net.first, a) = read.is
           /\ read.kind = "NotFound" => Home(net.first, a) = 0 \/ Home(net.then, a) = 0
           /\ read.kind = "Network" => net.down # {}
      /\ LET parent == FetchParent(net, a)
             i == net.first.at[a]
         IN parent.kind = "Ok" => IF parent.is = 0 THEN Home(net.then, a) = 0 \/ ParentOf(net.then, i) = {}
                                  ELSE parent.is \in ParentOf(net.then, i)

\* A write reaches the issue at the address that was given or none, and changes what
\* it was asked to; a transferred issue is reported with its place; a link that was
\* removed with success is gone, one that was added is there unless GitHub refused it
\* (then nothing changed, and the code reports success), and doing it again is a success.
WritesAreOwn ==
  probe.alg = "hub" =>
    LET net == probe.net
        still(hub) == [first |-> hub, then |-> hub, down |-> {}]
    IN
    \A a, b \in Places :
      /\ \A patch \in {[title |-> "new", reason |-> "done"], [closed |-> TRUE, reason |-> "done"]} :
           LET w == UpdateIssue(net, a, patch)
               i == net.first.at[a]
           IN /\ w.out.kind = "Ok" => i # 0 /\ \A j \in {11, 12}, f \in {"title", "closed", "reason"} :
                    w.hub.issue[j][f] = IF j # i \/ f \notin DOMAIN patch \/ (f = "reason" /\ "closed" \notin DOMAIN patch)
                                        THEN net.first.issue[j][f] ELSE patch[f]
              /\ w.out.kind # "Ok" => w.hub = net.first
              /\ w.out.kind = "IssueMoved" => Home(net.then, a) = w.out.is /\ w.out.is # a
      /\ \A axis \in {"sub_issue", "blocked_by"} :
           LET add == AddLink(net, axis, a, b)
               link == <<net.then.at[a], net.first.at[Home(net.first, b)]>>
           IN /\ add.out.kind = "Ok" =>
                   /\ 0 \notin ToSet(link)
                   /\ add.hub.links = net.then.links \cup (IF Refuses(net.then, axis, link) THEN {} ELSE {link})
              /\ add.out.kind # "Ok" => add.hub = net.then
              /\ add.out.kind = "Ok" /\ Home(net.then, b) # 0 =>
                   AddLink(still(add.hub), axis, a, b) = [out |-> Done(0), hub |-> add.hub]
      /\ LET remove == RemoveLink(net, a, b)
             link == <<net.then.at[a], net.first.at[Home(net.first, b)]>>
         IN remove.out.kind = "Ok" => Home(net.first, b) = 0 \/ remove.hub.links = net.then.links \ {link}
      /\ LET t == TransferIssue(net.first, a, b, net.down)
         IN IF t.out.kind = "Ok" THEN FetchIssue(still(t.hub), a) = Moved(b) /\ a # b ELSE t.hub = net.first
      /\ \A i \in {11, 12} : Fresh(net.first, a) /\ i \notin Range(net.first.at) =>
           LET c == CreateIssue(net.first, a, i, "new", net.down)
           IN c.out.kind = "Ok" => FetchIssue(still(c.hub), c.out.is) = Done(i) /\ Home(c.hub, b) \in {a, Home(net.first, b)}

\* A live read of statuses tells the truth about every item it has, has all of them
\* unless it says that it is partial, and agrees with the poller about every item
\* that has no more values than the poller asks for; a field that is single-select
\* is only left out behind the cap.
StatusesAreTrue ==
  probe.alg = "items" =>
    LET board == probe.board
        page == FetchItemStatuses(board, probe.ids, 8, probe.down)
        truth(i) == OptionIn(board[i].values, 8)
        project == FetchProject({[fields |-> [i \in DOMAIN board[1].values |->
                                   [id |-> i, kind |-> IF board[1].values[i].field = 0 THEN "text" ELSE "single"]]]})
    IN /\ \A i \in DOMAIN page.statuses : i \in DOMAIN board /\ page.statuses[i] = truth(i)
       /\ page.kind = "whole" => DOMAIN page.statuses = ToSet(probe.ids)
       /\ page.kind = "whole" <=> probe.down \cap 1..Len(probe.ids) = {} /\ Len(probe.ids) <= 2 /\ 3 \notin ToSet(probe.ids)
       /\ \A i \in DOMAIN board : \A item \in MapPollItem(board[i], 8) :
            Len(board[i].values) <= PollCap => item.status = truth(i)
       /\ Len(board[1].values) <= FieldCap =>
            Len(project.is) = Cardinality({i \in DOMAIN board[1].values : board[1].values[i].field # 0})
       /\ LET draft == UpdateDraftIssue(board[2], [title |-> "new"], probe.down)
          IN draft.item.text = [title |-> IF draft.out.kind = "Ok" THEN "new" ELSE "old", body |-> "old"]

\* Every name gives a prefix of three letters, which is a valid one.
PrefixFits ==
  probe.alg = "name" =>
    LET p == DerivePrefix(probe.words)
    IN IsValidPrefix(p) /\ Len(p) = 3 /\ Range(p) \subseteq Alphabetic

\* rl worktree unlink finds what rl worktree link stored for the same path, also when
\* the directory is gone, unless a link was on the part that is gone.
LookupFindsLink ==
  probe.alg = "path" =>
    LET before == [links |-> Links, dirs |-> Tree]
        part(k) == SubSeq(probe.path, 1, k)
        plain(k) == Real(before, part(k)) = {Append(up, probe.path[k]) : up \in Real(before, part(k - 1))}
    IN (\A k \in 2..Len(probe.path) : Real(probe.after, part(k)) = {} => plain(k))
         => CanonicalizeForLookup(probe.after, probe.path) = CanonicalizeForLink(before, probe.path)

\* rl agents docs changes nothing but its block, a second run changes nothing, and a
\* file with one marker or with both in the wrong order is left alone.
AgentsKeepsText ==
  probe.alg = "agents" =>
    LET body == RenderBlock(probe.bound)
        block(t) == {i \in 1..(Len(t) - 2) : SubSeq(t, i, i + 2) = MarkerBlock(body)}
    IN /\ \A new \in WriteAgentsMd(probe.file, body) :
            /\ WriteAgentsMd({new}, body) = {new}
            /\ \A old \in probe.file : \E i \in block(new) :
                 /\ IsPrefix(SubSeq(new, 1, i - 1), old) \/ SubSeq(new, 1, i - 1) = Append(old, "using")
                 /\ IsSuffix(SubSeq(new, i + 3, Len(new)), old)
                 /\ SelectSeq(old, LAMBDA p : p = "start") = <<>> \/ "start" \notin Range(SubSeq(new, 1, i - 1))
       /\ \A old \in probe.file :
            WriteAgentsMd(probe.file, body) = {} <=>
              \E a, b \in {"start", "end"} : FirstOf(old, a) # {} /\ a # b
                 /\ (FirstOf(old, b) = {} \/ (a = "end" /\ \A i \in FirstOf(old, a), j \in FirstOf(old, b) : i < j))

\* Whoever resolves the home of an issue names the same repo or none, the recorded
\* one if there is one, whatever has gone since the task was read; once recorded it
\* does not follow the default of the workspace; and a change is only dropped when
\* nobody knows the home.
AddressesAgree ==
  probe.alg = "home" =>
    LET w == probe.w
        task == probe.task
        plans == PlanMirrorMutations(w, task)
        coords == RelationRemoteCoords(w, task)
        named(S) == UNION {Range(s) : s \in S}
        homes == named(FilingCanonicalFor(w, task)) \cup named(SyncFilingCanonicalFor(w, task))
                 \cup {c[1] : c \in named(coords)} \cup {plan.update[1][1] : plan \in {p \in plans : p.update # None}}
    IN /\ Cardinality(homes) <= 1
       /\ task.filing # None => homes \subseteq Range(task.filing) /\ named(ResolveFilingOrigin(w, task)) = homes
       /\ task.filing = None /\ WorkspaceDefault(w, task) = None => homes \subseteq named(LogicalCanonicalFor(w, task))
       /\ RelationRemoteCoordsCached(w, task) = SyncRelationRemoteCoords(w, task)
       /\ IF "w" \in DOMAIN w.workspaces THEN SyncRelationRemoteCoords(w, task) = coords
          ELSE SyncRelationRemoteCoords(w, task) = {None}
       /\ \A entries \in PlanRelationEntries(w, task, [task EXCEPT !.filing = <<"p">>]) :
            entries # <<>> => entries[1].from[1] \in homes /\ entries[1].to[1] = "p"
       /\ \A plan \in plans :
            /\ plan.task = [task EXCEPT !.filing = plan.task.filing]
            /\ task.filing # None => plan.task = task
            /\ plan.task.filing # None /\ "w" \in DOMAIN w.workspaces => \A d \in {None, <<"o">>, <<"p">>} :
                 SyncFilingCanonicalFor([w EXCEPT !.workspaces["w"].filing = d], plan.task) = SyncFilingCanonicalFor(w, task)
            /\ plan.dropped => homes = {}
            /\ task.remote # None /\ homes # {} => plan.update = <<<<CHOOSE h \in homes : TRUE, 7>>>>

\* The hooks that owe a type to GitHub agree on its rail and its value: the one of a
\* new card, the one of a converted draft and the drainer's later look.
RailsAgree ==
  probe.alg = "home" =>
    LET w == probe.w
        task == probe.task
        converted == UNION {EnqueueIssueTypeFollowUp(w, task, o[1]) : o \in SyncFilingCanonicalFor(w, task)}
        cards == UNION {f.type : f \in StatusFollowUp(w, task, "board")}
    IN task.mirror =>
         /\ Cardinality(converted \cup cards \cup PendingIssueType(w, task)) <= 1
         /\ converted \cup cards \subseteq PendingIssueType(w, task)

\* rl sync list-remote lists the default first and each repo once, leaves out no repo
\* that has issues, and says of an issue that it is tracked exactly when the changes
\* of the task would be pushed to it.
TrackedIsAddressed ==
  probe.alg = "home" =>
    LET w == probe.w
        task == probe.task
        pushed == {<<o[1], 7>> : o \in SyncFilingCanonicalFor(w, task)}
        known == task.filing # None /\ task.remote # None
    IN \A repo \in {None, task.repo} : \A groups \in ListRemote(w, {task}, "w", repo) :
         LET listed == {groups[i].repo : i \in DOMAIN groups}
         IN /\ Cardinality(listed) = Len(groups)
            /\ \A i \in DOMAIN groups : \A n \in groups[i].issues :
                 known => (n \in groups[i].tracked <=> <<groups[i].repo, n>> \in pushed)
            /\ repo = None =>
                 /\ {w.instances[i] : i \in Range(w.workspaces["w"].bound)} \cup Range(w.workspaces["w"].filing)
                       \subseteq listed \cup {o \in DOMAIN w.hub : w.hub[o] = {}}
                 /\ \A i \in DOMAIN groups : groups[i].repo \in Range(w.workspaces["w"].filing) <=> groups[i].role = "Filing"
                 /\ \A i \in DOMAIN groups : groups[i].role = "Filing" => i = 1
            /\ repo # None => listed = {w.instances[repo[1]]}

\* A push of the differences alone brings an issue that was at the baseline to the
\* task, a forced push any issue, and fetching the issue afterwards supersedes
\* nothing; nothing is sent exactly when nothing differs; and closed always has a
\* reason that says so.
EchoIsQuiet ==
  probe.alg = "mirror" =>
    LET task == probe.task
        diff == DiffOf(task, probe.baseline)
        quiet(issue) == /\ InboundMirrorsBaseline(issue, task) /\ SupersededInboundFields(task, issue) = {}
                        /\ DiffOf(CopyInboundMirrorFromSnap(task, issue), task) = <<>>
    IN /\ \A update \in BuildUpdateFromPatch(FullMirrorPatch(task)) : quiet(PatchedIssue(probe.issue, update))
       /\ InboundMirrorsBaseline(probe.issue, probe.baseline) =>
            IF DOMAIN diff = {} THEN quiet(probe.issue)
            ELSE \A update \in BuildUpdateFromPatch(diff) : quiet(PatchedIssue(probe.issue, update))
       /\ BuildUpdateFromPatch(diff) = {} <=> /\ SameAssignees(task.who, probe.baseline.who)
                                              /\ \A f \in {"title", "body", "life"} : task[f] = probe.baseline[f]
       /\ OpenLife(task.life) <=> StateReason(task.life) \in {"none", "reopened"}

\* A pull that takes the issue ends at the issue, keeps why a task was closed, does
\* nothing a second time, and tells of every proposal of an unpushed task that it
\* overwrote; one that does not take it had nothing to take.
PullTellsLosses ==
  probe.alg = "mirror" =>
    LET task == probe.task
        issue == probe.issue
        ahead == DOMAIN DiffOf(task, probe.baseline)
        state == IF ahead = {} THEN "Synced" ELSE "DirtyLocal"
    IN \A force \in BOOLEAN : \A s \in {state, "Conflict"} : \A pulled \in PullOutcome(task, probe.baseline, s, issue, force) :
         /\ IF pulled.task = task /\ pulled.baseline = probe.baseline
            THEN InboundMirrorsBaseline(issue, probe.baseline) \/ InboundMirrorsBaseline(issue, task)
            ELSE InboundMirrorsBaseline(issue, pulled.task)
         /\ PullOutcome(pulled.task, pulled.baseline, "Synced", issue, force) \subseteq {[pulled EXCEPT !.note = {}]}
         /\ ahead \cap {f \in MirroredFields : DiffersFrom(pulled.task, task, f)} \subseteq pulled.note
         /\ pulled.note \subseteq {f \in MirroredFields : DiffersFrom(pulled.task, task, f)}
         /\ issue.closed # OpenLife(task.life) => pulled.task.life = task.life

\* A stored type reads back as itself, and names that differ in case only are one
\* type exactly when it is a well-known one.
TypesReadBack ==
  probe.alg = "type" =>
    LET type == IssueTypeFrom(probe.name)
    IN /\ IssueTypeFrom(IssueTypeDisplay(type)) = type /\ IssueTypeDisplay(type)[1] = probe.name[1]
       /\ type = IssueTypeFrom(probe.other) <=>
            probe.name[1] = probe.other[1] /\ (probe.name[2] = probe.other[2] \/ probe.name[1] \in WellKnown)

\* The query views: who is ready, what the pages and the ready tree show, and in
\* which order branches come (QueryService).
ViewsAreRight == ReadyIsFrontier /\ PagesCoverView /\ ReadyIsShown /\ RankIsBest
                 /\ ScopesAgree /\ ClaimIsIdempotent /\ VerbsAreSound /\ BatchTellsAll

\* The names rl gives and reads (parse_canonical, parse_issue_url, derive_prefix,
\* canonicalize_for_lookup, write_agents_md) and what the adapter answers for the
\* name of an issue or an item (RestClient, GraphqlClient).
NamesAreRight == UrlsAgree /\ PiecesAgree /\ PrefixFits /\ LookupFindsLink /\ AgentsKeepsText
                 /\ ReadsAreOwn /\ WritesAreOwn /\ StatusesAreTrue

\* The project mappings: priorities survive their echo, columns fit the lifecycle
\* and a default type travels on one rail (Project, derive_status_mappings,
\* derive_priority_mappings, resolve_issue_type_projection); every walk of the
\* filing chain (filing_canonical_for and its copies) ends at the same repo.
MappingsAreRight == EchoKeepsPriority /\ ColumnsMakeSense /\ DefaultIsCarried
                    /\ AddressesAgree /\ RailsAgree /\ TrackedIsAddressed
                    /\ EchoIsQuiet /\ PullTellsLosses /\ TypesReadBack
=============================================================================
