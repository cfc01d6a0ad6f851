------------------------------ MODULE Adapter ------------------------------
(***************************************************************************)
(* One call of the GitHub adapter: which requests it sends, what it makes  *)
(* of their answers and which error the caller gets. GitHub is external:   *)
(* an issue has an address (repo and number); a transferred one leaves a   *)
(* redirect behind, which GETs follow and writes answer with 301. `net` is *)
(* GitHub at the first request of a call, GitHub at the later ones, and    *)
(* the requests that get no answer.                                        *)
(***************************************************************************)
EXTENDS Integers, SequencesExt, FiniteSetsExt

CONSTANTS Nowhere,   \* no address, no issue
          FieldCap, PollCap, StatusCap,  \* first: 50, 20 and 100 in the queries
          ChunkSize, Chunks              \* POLL_PAGE_SIZE, MAX_POLL_PAGES

-----------------------------------------------------------------------------
(* GitHub: which issue an address has, where it redirects to, and per issue *)
(* its record and its links.                                                *)

\* Through up to two redirects, each of which is there as long as the issue is not.
Hop(hub, a) == IF a # Nowhere /\ hub.at[a] = Nowhere THEN hub.goes[a] ELSE a
Home(hub, a) == LET b == Hop(hub, Hop(hub, a)) IN IF b # Nowhere /\ hub.at[b] # Nowhere THEN b ELSE Nowhere
Answers(hub, a, get) ==
  CASE hub.at[a] # Nowhere -> 200
    [] hub.at[a] = Nowhere /\ Home(hub, a) # Nowhere -> IF get THEN 200 ELSE 301
    [] OTHER -> 404

-----------------------------------------------------------------------------
(* Outcomes: a kind and what was found or where.                            *)

Done(x) == [kind |-> "Ok", is |-> x]
Fails(kind) == [kind |-> kind, is |-> Nowhere]
Moved(a) == [kind |-> "IssueMoved", is |-> a]

\* The kinds of error that the application layer tells apart; 0 is a request
\* without an answer.
MapErr(status) == CASE status = 404 -> "NotFound"
                    [] status \in {409, 422} -> "Conflict"
                    [] OTHER -> "Network"
MapGqlErr(status) == CASE status = "errors" -> "Backend"
                       [] status = "404" -> "NotFound"
                       [] OTHER -> "Network"

\* A GET of an issue: its home, at the time of the request.
GetIssue(hub, a, down) ==
  IF down THEN Fails("Network")
  ELSE IF Answers(hub, a, TRUE) # 200 THEN Fails(MapErr(Answers(hub, a, TRUE))) ELSE Done(Home(hub, a))

\* Where the issue is now, if that is not where it was asked for.
DiscoverMoveTarget(hub, a, down) ==
  LET got == GetIssue(hub, a, down)
  IN IF got.kind = "Ok" /\ got.is = a THEN Done(Nowhere) ELSE got

EnsureNotMoved(hub, a, down) ==
  LET there == DiscoverMoveTarget(hub, a, down)
  IN IF there.kind = "Ok" /\ there.is # Nowhere THEN Moved(there.is) ELSE there

\* A 301 is looked into; the redirect may be gone by then.
DetectMoveOrMap(hub, a, status, down) ==
  CASE status = 200 -> Done(Nowhere)
    [] status = 301 -> LET there == DiscoverMoveTarget(hub, a, down)
                       IN IF there.kind # "Ok" THEN there
                          ELSE IF there.is = Nowhere THEN Fails("Backend") ELSE Moved(there.is)
    [] OTHER -> Fails(MapErr(status))

-----------------------------------------------------------------------------
(* Reads. The issue that the answer is about, or nothing.                   *)

FetchIssue(net, a) ==
  LET got == GetIssue(net.first, a, 1 \in net.down)
  IN CASE got.kind # "Ok" -> got
       [] got.kind = "Ok" /\ got.is # a -> Moved(got.is)
       [] OTHER -> Done(net.first.at[a])

\* A list names no issue: its home is looked at before, and the pages follow
\* redirects.
ReadOf(net, a) ==
  LET before == EnsureNotMoved(net.first, a, 1 \in net.down)
      got == GetIssue(net.then, a, 2 \in net.down)
  IN IF before.kind # "Ok" THEN before
     ELSE IF got.kind # "Ok" THEN got ELSE Done(net.then.at[got.is])
FetchSubIssues(net, a) == ReadOf(net, a)
FetchBlockedBy(net, a) == ReadOf(net, a)
FetchComments(net, a) == ReadOf(net, a)

\* An issue without a parent answers 404 at /parent.
ParentOf(hub, i) == {l[1] : l \in {k \in hub.links : k[2] = i}}
FetchParent(net, a) ==
  LET got == ReadOf(net, a)
      parents == ParentOf(net.then, got.is)
  IN IF got.kind = "NotFound" /\ Answers(net.first, a, TRUE) = 200 THEN Done(Nowhere)
     ELSE IF got.kind # "Ok" THEN got
     ELSE Done(IF parents = {} THEN Nowhere ELSE CHOOSE p \in parents : TRUE)

-----------------------------------------------------------------------------
(* Writes: the outcome and GitHub after it. A patch has the fields that are *)
(* given; a reason goes along with a state only.                            *)

PatchBody(patch) ==
  [f \in DOMAIN patch \ (IF "closed" \in DOMAIN patch THEN {} ELSE {"reason"}) |-> patch[f]]

\* A title or a reason says nothing of the fields that are not sent.
Patched(issue, body) == [f \in DOMAIN issue |-> IF f \in DOMAIN body THEN body[f] ELSE issue[f]]

UpdateIssue(net, a, patch) ==
  LET i == net.first.at[a]
      status == IF 1 \in net.down THEN 0 ELSE Answers(net.first, a, FALSE)
      out == DetectMoveOrMap(net.then, a, status, 2 \in net.down)
  IN IF out.kind # "Ok" THEN [out |-> out, hub |-> net.first]
     ELSE [out |-> Done(i), hub |-> [net.first EXCEPT !.issue[i] = Patched(@, PatchBody(patch))]]

\* A number is given once.
Fresh(hub, a) == hub.at[a] = Nowhere /\ \A b \in DOMAIN hub.goes : hub.goes[a] = Nowhere /\ hub.goes[b] # a

\* The issue gets the next number; it starts open whatever is asked.
CreateIssue(hub, a, i, title, down) ==
  IF 1 \in down THEN [out |-> Fails("Network"), hub |-> hub]
  ELSE [out |-> Done(a), hub |-> [hub EXCEPT !.at[a] = i,
                                             !.issue[i] = [title |-> title, closed |-> FALSE, reason |-> "none"]]]

\* The destination is looked up first.
TransferIssue(hub, from, to, down) ==
  CASE 1 \in down -> [out |-> Fails("Network"), hub |-> hub]
    [] 1 \notin down /\ (2 \in down \/ hub.at[from] = Nowhere \/ ~Fresh(hub, to)) ->
         [out |-> Fails(MapGqlErr(IF 2 \in down THEN "none" ELSE "errors")), hub |-> hub]
    [] OTHER -> [out |-> Done(to), hub |-> [hub EXCEPT !.at = [@ EXCEPT ![from] = Nowhere, ![to] = hub.at[from]],
                                                       !.goes[from] = to]]

ResolveIssueDbId(hub, a, down) ==
  LET got == GetIssue(hub, a, down)
  IN IF got.kind = "Ok" THEN Done(hub.at[got.is]) ELSE got
ResolveIssueDbIdOrGone(hub, a, down) ==
  LET id == ResolveIssueDbId(hub, a, down)
  IN IF id.kind = "NotFound" THEN Done(Nowhere) ELSE id

RestOkOrErr(status, idempotent) ==
  IF status \in 200..299 \/ status = idempotent THEN Done(Nowhere)
  ELSE Fails(IF status = 0 THEN "Network" ELSE "Backend")

\* GitHub takes a link once, no issue under two parents, and no loop.
Refuses(hub, axis, link) ==
  \/ link[1] = link[2]
  \/ {link, <<link[2], link[1]>>} \cap hub.links # {}
  \/ axis = "sub_issue" /\ ParentOf(hub, link[2]) # {}

\* add_sub_issue and add_blocked_by: the far end follows redirects, the near end
\* is written to where it was asked for. Every 422 passes for a link that exists.
AddLink(net, axis, a, b) ==
  LET far == ResolveIssueDbId(net.first, b, 1 \in net.down)
      at == Answers(net.then, a, FALSE)
      link == <<net.then.at[a], far.is>>
      status == IF 2 \in net.down THEN 0
                ELSE IF at # 200 THEN at ELSE IF Refuses(net.then, axis, link) THEN 422 ELSE 201
  IN IF far.kind # "Ok" THEN [out |-> far, hub |-> net.then]
     ELSE [out |-> RestOkOrErr(status, 422),
           hub |-> IF status = 201 THEN [net.then EXCEPT !.links = @ \cup {link}] ELSE net.then]

\* remove_sub_issue and remove_blocked_by: without a far end there is no link.
RemoveLink(net, a, b) ==
  LET far == ResolveIssueDbIdOrGone(net.first, b, 1 \in net.down)
      at == Answers(net.then, a, FALSE)
      link == <<net.then.at[a], far.is>>
      status == IF 2 \in net.down THEN 0
                ELSE IF at # 200 THEN at ELSE IF link \in net.then.links THEN 204 ELSE 404
  IN IF far.kind # "Ok" \/ far.is = Nowhere THEN [out |-> far, hub |-> net.then]
     ELSE [out |-> RestOkOrErr(status, 404),
           hub |-> IF status = 204 THEN [net.then EXCEPT !.links = @ \ {link}] ELSE net.then]

-----------------------------------------------------------------------------
(* The board. An item has its values as GitHub lists them, and a content.   *)

First(s, n) == SubSeq(s, 1, Min({n, Len(s)}))
OptionIn(values, f) ==
  LET at == {i \in DOMAIN values : values[i].field = f}
  IN IF at = {} THEN Nowhere ELSE values[Min(at)].option

\* Single-select fields, of the first that the query asks for.
FetchProject(project) ==
  IF project = {} THEN Fails("NotFound")
  ELSE LET p == CHOOSE q \in project : TRUE
           kept == SelectSeq(First(p.fields, FieldCap), LAMBDA f : f.kind = "single")
       IN IF \E i \in DOMAIN kept : kept[i].id = Nowhere THEN Fails("Backend") ELSE [kind |-> "Ok", is |-> kept]

\* A user, who has no types, and an unknown owner are no errors.
FetchOrgIssueTypes(owner) ==
  IF owner = {} THEN <<>> ELSE LET o == CHOOSE q \in owner : TRUE IN First(o.types, StatusCap)

MapPollItem(item, f) ==
  IF item.content \notin {"Issue", "DraftIssue"} THEN {}
  ELSE {[id |-> item.id, backed |-> item.content = "Issue", closed |-> item.content = "Issue" /\ item.state = "CLOSED",
         status |-> OptionIn(First(item.values, PollCap), f)]}

\* In chunks; one that fails ends the reading and leaves what was read before.
FetchItemStatuses(board, ids, f, down) ==
  LET Read(i) == LET item == board[i] IN OptionIn(First(item.values, StatusCap), f)
      chunk(k) == SubSeq(ids, (k - 1) * ChunkSize + 1, Min({k * ChunkSize, Len(ids)}))
      n == Min({Chunks, (Len(ids) + ChunkSize - 1) \div ChunkSize})
      failing == {k \in 1..n : k \in down \/ \E i \in ToSet(chunk(k)) : i \notin DOMAIN board}
      last == IF failing = {} THEN n ELSE Min(failing) - 1
      got == UNION {ToSet(chunk(k)) : k \in 1..last}
  IN IF failing # {} /\ got = {} THEN [kind |-> "failed", statuses |-> <<>>]
     ELSE [kind |-> IF failing # {} \/ Len(ids) > Chunks * ChunkSize THEN "truncated" ELSE "whole",
           statuses |-> [i \in got |-> Read(i)]]

\* The text of a draft has a node of its own, which is looked up first.
UpdateDraftIssue(item, patch, down) ==
  CASE 1 \in down -> [out |-> Fails("Network"), item |-> item]
    [] 1 \notin down /\ item.content # "DraftIssue" -> [out |-> Fails("NotFound"), item |-> item]
    [] 1 \notin down /\ item.content = "DraftIssue" /\ 2 \in down -> [out |-> Fails("Network"), item |-> item]
    [] OTHER -> [out |-> Done(Nowhere), item |-> [item EXCEPT !.text = Patched(@, patch)]]
=============================================================================
