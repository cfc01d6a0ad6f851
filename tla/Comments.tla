------------------------------ MODULE Comments ------------------------------
(***************************************************************************)
(* The comments of one task. rl task comment adds a pending row; rl sync   *)
(* push posts the pending rows it has read, one by one, and records each   *)
(* answer; rl sync pull and rl task link replace the synced rows by what   *)
(* GitHub lists. Posting has no idempotency key and nothing locks the      *)
(* task, so pushes, pulls and links interleave, answers get lost and       *)
(* processes die between a post and its record.                            *)
(***************************************************************************)
EXTENDS Integers, FiniteSets, SequencesExt

CONSTANTS Texts,      \* comments that rl task comment adds
          CommentIssues, \* issues the task is linked to in turn
          CommentProcs,
          CommentCommands, \* pushes, pulls and links
          CommentFaults,   \* lost calls, failed calls, killed processes
          ForeignComments  \* comments that others write

ASSUME CommentsAssumption ==
  {CommentCommands, CommentFaults, ForeignComments} \subseteq Nat /\ CommentIssues # {} /\ CommentProcs # {}

VARIABLES
  pending,  \* rows with remote_comment_id '', in the order of created_at
  synced,   \* rows with a remote_comment_id, which is unique
  issue,    \* the issue the task is linked to
  remote,   \* comments of every issue, on GitHub
  commentProc, \* where each command is
  posts,    \* how often each text was posted
  hurt,     \* why a post of a text may have to be repeated
  commentSpent

commentVars == <<pending, synced, issue, remote, commentProc, posts, hurt, commentSpent>>

Foreign == "foreign"
\* A comment on GitHub: its issue, its text and a number that makes its id unique.
RemoteComment == [on: CommentIssues, of: Texts \cup {Foreign}, no: Nat]

\* What a command holds: the rows still to post, the number of the last post, what
\* was fetched, and whether nobody disturbed it.
CommentIdle == [pc |-> "idle", op |-> "none", todo |-> <<>>, on |-> CHOOSE i \in CommentIssues : TRUE,
                no |-> 0, fetched |-> {}, quiet |-> FALSE]

CommentsInit ==
  /\ pending = <<>> /\ synced = {}
  /\ issue \in CommentIssues
  /\ remote = {}
  /\ commentProc = [p \in CommentProcs |-> CommentIdle]
  /\ posts = [c \in Texts |-> 0]
  /\ hurt = [c \in Texts |-> {}]
  /\ commentSpent = [commands |-> 0, faults |-> 0, foreign |-> 0]

CommentSpend(b) ==
  /\ commentSpent[b] < [commands |-> CommentCommands, faults |-> CommentFaults, foreign |-> ForeignComments][b]
  /\ commentSpent' = [commentSpent EXCEPT ![b] = @ + 1]
CommentAt(p, pc) == commentProc[p].pc = pc
CommentGoes(p, r) == commentProc' = [commentProc EXCEPT ![p] = r]

\* The step changes rows or comments under the other commands' feet.
CommentGoesAlone(p, r) ==
  commentProc' = [q \in CommentProcs |-> IF q = p THEN r ELSE [commentProc[q] EXCEPT !.quiet = FALSE]]

On(i) == {r \in remote : r.on = i}

-----------------------------------------------------------------------------
(* The rows.                                                                *)

ReplaceComments(fetched) == synced' = fetched /\ UNCHANGED pending

\* The answer is recorded next to the pending row.
MarkBeside(c, answer) ==
  /\ answer \notin synced
  /\ synced' = synced \cup {answer} /\ UNCHANGED pending

\* No text has two pending rows.
WithoutRow(rows, c) ==
  IF c \in ToSet(rows) THEN RemoveAt(rows, CHOOSE n \in DOMAIN rows : rows[n] = c) ELSE rows

\* One transaction: the drained row goes, if it is still there, and the answer comes.
MarkCommentsPushed(c, answer) ==
  /\ answer \notin synced
  /\ pending' = WithoutRow(pending, c)
  /\ synced' = synced \cup {answer}

\* load_comments: the pending rows of the task as it was read.
LoadPending == pending

-----------------------------------------------------------------------------
AddComment(c) ==
  /\ posts[c] = 0 /\ c \notin ToSet(pending)
  /\ pending' = Append(pending, c)
  /\ UNCHANGED <<synced, issue, remote, commentProc, posts, hurt, commentSpent>>

Holds(q, c) == c \in ToSet(commentProc[q].todo)

Pushing(pc, todo, on, no) ==
  [pc |-> pc, op |-> "push", todo |-> todo, on |-> on, no |-> no, fetched |-> {}, quiet |-> FALSE]
\* What GitHub answered to the last post.
Answer(r) == [on |-> r.on, of |-> Head(r.todo), no |-> r.no]

\* rl sync push. A task that is also dirty sends its fields first; without
\* dirty fields there must be a pending comment.
PushReads(p, dirty) ==
  /\ CommentAt(p, "idle") /\ CommentSpend("commands")
  /\ dirty \/ LoadPending # <<>>
  /\ CommentGoes(p, Pushing(IF dirty THEN "update" ELSE "post", LoadPending, issue, 0))
  /\ hurt' = [c \in Texts |-> IF c \in ToSet(LoadPending) /\ \E q \in CommentProcs : Holds(q, c)
                              THEN hurt[c] \cup {"raced"} ELSE hurt[c]]
  /\ UNCHANGED <<pending, synced, issue, remote, posts>>

\* update_remote and the save of the task, which has no part in its comments.
PushUpdates(p) ==
  /\ CommentAt(p, "update")
  /\ CommentGoes(p, [commentProc[p] EXCEPT !.pc = "post"])
  /\ UNCHANGED <<pending, synced, issue, remote, posts, hurt, commentSpent>>

\* GitHub takes the comment and answers with its id.
CreateComment(c, i) ==
  /\ remote' = remote \cup {[on |-> i, of |-> c, no |-> posts[c] + 1]}
  /\ posts' = [posts EXCEPT ![c] = @ + 1]

PushPosts(p) ==
  LET c == Head(commentProc[p].todo)
      i == commentProc[p].on
  IN /\ CommentAt(p, "post") /\ commentProc[p].todo # <<>>
     /\ CreateComment(c, i)
     /\ CommentGoesAlone(p, Pushing("mark", commentProc[p].todo, i, posts[c] + 1))
     /\ UNCHANGED <<pending, synced, issue, hurt, commentSpent>>

PushMarks(p) ==
  /\ CommentAt(p, "mark")
  /\ MarkCommentsPushed(Head(commentProc[p].todo), Answer(commentProc[p]))
  /\ CommentGoesAlone(p, Pushing("post", Tail(commentProc[p].todo), commentProc[p].on, 0))
  /\ UNCHANGED <<issue, remote, posts, hurt, commentSpent>>

\* A pull or link has already mirrored the new comment: the unique index refuses
\* the row, the transaction rolls back and the push ends with the error.
PushMarkRefused(p) ==
  /\ CommentAt(p, "mark") /\ Answer(commentProc[p]) \in synced
  /\ CommentGoes(p, CommentIdle)
  /\ hurt' = [hurt EXCEPT ![Head(commentProc[p].todo)] = @ \cup {"refused"}]
  /\ UNCHANGED <<pending, synced, issue, remote, posts, commentSpent>>

PushEnds(p) ==
  /\ CommentAt(p, "post") /\ commentProc[p].todo = <<>>
  /\ CommentGoes(p, CommentIdle)
  /\ UNCHANGED <<pending, synced, issue, remote, posts, hurt, commentSpent>>

-----------------------------------------------------------------------------
(* rl sync pull, the last part of it: what it does to the fields is another *)
(* axis. rl task link with --relink fetches like a pull, without it clears. *)

Mirroring(pc, op, on, fetched, quiet) ==
  [pc |-> pc, op |-> op, todo |-> <<>>, on |-> on, no |-> 0, fetched |-> fetched, quiet |-> quiet]

PullReads(p) ==
  /\ CommentAt(p, "idle") /\ CommentSpend("commands")
  /\ CommentGoes(p, Mirroring("fetch", "pull", issue, {}, TRUE))
  /\ UNCHANGED <<pending, synced, issue, remote, posts, hurt>>

LinkReads(p, to, relink) ==
  /\ CommentAt(p, "idle") /\ CommentSpend("commands") /\ to # issue
  /\ CommentGoes(p, Mirroring(IF relink THEN "fetch" ELSE "save", "link", to, {}, relink))
  /\ UNCHANGED <<pending, synced, issue, remote, posts, hurt>>

Fetches(p) ==
  /\ CommentAt(p, "fetch")
  /\ CommentGoes(p, [commentProc[p] EXCEPT !.pc = IF commentProc[p].op = "link" THEN "save" ELSE "replace",
                                         !.fetched = On(commentProc[p].on)])
  /\ UNCHANGED <<pending, synced, issue, remote, posts, hurt, commentSpent>>

\* The link is saved before the comments: "a comment-write failure can't leave
\* a deleted-but-not-relinked state".
LinkSaves(p) ==
  /\ CommentAt(p, "save")
  /\ issue' = commentProc[p].on
  /\ CommentGoesAlone(p, [commentProc[p] EXCEPT !.pc = "replace"])
  /\ UNCHANGED <<pending, synced, remote, posts, hurt, commentSpent>>

Replaces(p) ==
  /\ CommentAt(p, "replace")
  /\ ReplaceComments(commentProc[p].fetched)
  /\ CommentGoesAlone(p, [commentProc[p] EXCEPT !.pc = "replaced"])
  /\ UNCHANGED <<issue, remote, posts, hurt, commentSpent>>

\* The relations that a pull reconciles next are a model of their own.
PullEnds(p) ==
  /\ CommentAt(p, "replaced")
  /\ CommentGoes(p, CommentIdle)
  /\ UNCHANGED <<pending, synced, issue, remote, posts, hurt, commentSpent>>

-----------------------------------------------------------------------------
(* Failures and the other users of GitHub.                                  *)

\* A call of GitHub or of the store fails, or the process dies, before it took effect.
CommandFails(p) ==
  /\ ~CommentAt(p, "idle") /\ CommentSpend("faults")
  /\ CommentGoes(p, CommentIdle)
  /\ hurt' = IF CommentAt(p, "mark") THEN [hurt EXCEPT ![Head(commentProc[p].todo)] = @ \cup {"crash"}] ELSE hurt
  /\ UNCHANGED <<pending, synced, issue, remote, posts>>

\* The comment was created and the answer lost.
AnswerLost(p) ==
  LET c == Head(commentProc[p].todo)
  IN /\ CommentAt(p, "post") /\ commentProc[p].todo # <<>> /\ CommentSpend("faults")
     /\ CreateComment(c, commentProc[p].on)
     /\ CommentGoesAlone(p, CommentIdle)
     /\ hurt' = [hurt EXCEPT ![c] = @ \cup {"crash"}]
     /\ UNCHANGED <<pending, synced, issue>>

\* Someone comments on the issue, or deletes a comment. Fetches under way are
\* no longer up to date.
ForeignChange ==
  /\ CommentSpend("foreign")
  /\ \/ remote' = remote \cup {[on |-> issue, of |-> Foreign, no |-> commentSpent.foreign]}
     \/ \E r \in remote : remote' = remote \ {r}
  /\ commentProc' = [q \in CommentProcs |-> [commentProc[q] EXCEPT !.quiet = FALSE]]
  /\ UNCHANGED <<pending, synced, issue, posts, hurt>>

CommentsNext ==
  \/ \E c \in Texts : AddComment(c)
  \/ \E p \in CommentProcs :
       \/ \E dirty \in BOOLEAN : PushReads(p, dirty)
       \/ PushUpdates(p) \/ PushPosts(p) \/ PushMarks(p) \/ PushMarkRefused(p) \/ PushEnds(p)
       \/ PullReads(p) \/ Fetches(p) \/ LinkSaves(p) \/ Replaces(p) \/ PullEnds(p)
       \/ \E to \in CommentIssues, relink \in BOOLEAN : LinkReads(p, to, relink)
       \/ CommandFails(p) \/ AnswerLost(p)
  \/ ForeignChange

CommentsSpec == CommentsInit /\ [][CommentsNext]_commentVars

-----------------------------------------------------------------------------
\* Pending rows are texts, each once; synced rows are comments that GitHub made.
CommentsTypeOK ==
  /\ pending \in Seq(Texts) /\ \A m, n \in DOMAIN pending : pending[m] = pending[n] => m = n
  /\ synced \subseteq RemoteComment /\ remote \subseteq RemoteComment
  /\ issue \in CommentIssues
  /\ \A r \in synced : r.of = Foreign \/ r.no <= posts[r.of]

\* A comment that was written is never lost: once it stops being pending it has
\* been posted, whatever pulls, links and other pushes did to the rows meanwhile
\* ("lands in the next drain rather than being silently destroyed").
WrittenIsKept ==
  [][\A c \in Texts : c \in ToSet(pending) => c \in ToSet(pending') \/ posts[c] > 0]_commentVars

\* A comment is posted twice only after a gap in its own record: the process or
\* the answer was lost between the post and the row, a pull mirrored the comment
\* in that moment, or another push had read the same pending row. A failure at
\* another comment of the same push is no reason.
RepostsAreExplained == \A c \in Texts : posts[c] > 1 => hurt[c] # {}

\* "the only residual gap is a crash between a POST's success and this comment's
\* single-row write".
OnlyCrashesRepost == \A c \in Texts : posts[c] > 1 => "crash" \in hurt[c]

\* A pull or relink that nobody disturbed leaves the rows as the issue is: what
\* was deleted there or belongs to a former issue is gone, and the pending rows
\* are not among them.
PullMirrors ==
  \A p \in CommentProcs : CommentAt(p, "replaced") /\ commentProc[p].quiet =>
    issue = commentProc[p].on /\ synced = On(issue)

\* A comment is posted again only after a gap in its own record, and an
\* undisturbed pull leaves the rows as the issue is (push_inner, replace_comments).
CommentsAreSound == CommentsTypeOK /\ RepostsAreExplained /\ PullMirrors
=============================================================================
