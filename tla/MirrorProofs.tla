---------------------------- MODULE MirrorProofs ----------------------------
(***************************************************************************)
(* What the comments and the relations of mirrored issues guarantee, for   *)
(* every number of texts, issues, tasks and commands and every bound on    *)
(* faults and edits, the relations for commands that do not overlap; what  *)
(* the ids do for every number of processes, tasks and hash lengths, what  *)
(* is read of a list for every page size and cap, and what cascading       *)
(* imports leave for every tree, depth limit and number of imports.        *)
(***************************************************************************)
EXTENDS Mirror, FiniteSetTheorems, SequenceTheorems, WellFoundedInduction, TLAPS

-----------------------------------------------------------------------------
(***************************************************************************)
(* Comments: sequences of texts without a repetition.                      *)
(***************************************************************************)

Apart(s) == \A m, n \in DOMAIN s : s[m] = s[n] => m = n

\* What RemoveAt leaves of a sequence.
LEMMA RemoveAtFacts ==
  ASSUME NEW S, NEW s \in Seq(S), NEW i \in DOMAIN s
  PROVE  /\ RemoveAt(s, i) \in Seq(S)
         /\ DOMAIN RemoveAt(s, i) = 1..(Len(s) - 1)
         /\ \A j \in DOMAIN RemoveAt(s, i) :
              /\ j \in DOMAIN s /\ j + 1 \in DOMAIN s
              /\ RemoveAt(s, i)[j] = s[IF j < i THEN j ELSE j + 1]
         /\ \A j \in DOMAIN s : j # i =>
              \E m \in DOMAIN RemoveAt(s, i) : RemoveAt(s, i)[m] = s[j] /\ m = IF j < i THEN j ELSE j - 1
<1> DEFINE l == SubSeq(s, 1, i-1)
           r == SubSeq(s, i+1, Len(s))
<1>1. Len(s) \in Nat /\ DOMAIN s = 1..Len(s) /\ i \in 1..Len(s)
  OBVIOUS
<1>2. l \in Seq(S) /\ Len(l) = i - 1 /\ \A j \in 1..(i-1) : l[j] = s[j]
  <2>1. \A j \in 1..(i-1) : s[j] \in S
    BY <1>1
  <2>2. 1 \in Int /\ i - 1 \in Int /\ Len(l) = i - 1
    BY <1>1
  <2> QED
    BY <1>1, <2>1, <2>2
<1>3. r \in Seq(S) /\ Len(r) = Len(s) - i /\ \A j \in 1..(Len(s) - i) : r[j] = s[i + j]
  <2>1. \A j \in (i+1)..Len(s) : s[j] \in S
    BY <1>1
  <2> QED
    BY <1>1, <2>1
<1>4. RemoveAt(s, i) = l \o r
  BY <1>1 DEF RemoveAt
<1> HIDE DEF l, r
<1>5. l \o r \in Seq(S) /\ Len(l \o r) = Len(s) - 1
  <2>1. l \o r \in Seq(S)
    BY <1>2, <1>3, ConcatProperties
  <2>2. Len(l \o r) = Len(l) + Len(r)
    BY <1>2, <1>3, ConcatProperties
  <2> QED
    BY <1>1, <1>2, <1>3, <2>1, <2>2
<1>6. DOMAIN (l \o r) = 1..(Len(s) - 1)
  <2>1. DOMAIN (l \o r) = 1..Len(l \o r)
    BY <1>5
  <2> QED
    BY <1>5, <2>1
<1>7. ASSUME NEW j \in 1..(Len(s) - 1)
      PROVE  (l \o r)[j] = s[IF j < i THEN j ELSE j + 1]
  <2>1. CASE j < i
    <3>1. j \in 1..(i - 1) /\ j \in 1..Len(l) /\ l[j] = s[j]
      BY <1>1, <1>2, <2>1
    <3>2. (l \o r)[j] = l[j]
      BY <1>1, <1>2, <1>3, <3>1
    <3> QED
      BY <2>1, <3>1, <3>2
  <2>2. CASE ~(j < i)
    <3>1. (l \o r)[j] = r[j - (i - 1)] /\ j - (i - 1) \in 1..(Len(s) - i)
      BY <1>1, <1>2, <1>3, <2>2
    <3>2. r[j - (i - 1)] = s[i + (j - (i - 1))] /\ i + (j - (i - 1)) = j + 1
      BY <1>1, <1>3, <3>1
    <3> QED
      BY <2>2, <3>1, <3>2
  <2> QED
    BY <2>1, <2>2
<1>8. ASSUME NEW j \in DOMAIN s, j # i
      PROVE  \E m \in 1..(Len(s) - 1) : (l \o r)[m] = s[j] /\ m = IF j < i THEN j ELSE j - 1
  <2>1. CASE j < i
    <3>1. j \in 1..(Len(s) - 1)
      BY <1>1, <1>8, <2>1
    <3>2. (l \o r)[j] = s[j]
      BY <1>7, <2>1, <3>1
    <3> QED
      BY <2>1, <3>1, <3>2
  <2>2. CASE ~(j < i)
    <3>1. j - 1 \in 1..(Len(s) - 1) /\ ~(j - 1 < i) /\ (j - 1) + 1 = j
      BY <1>1, <1>8, <2>2
    <3> QED
      BY <1>7, <2>2, <3>1
  <2> QED
    BY <2>1, <2>2
<1> DEFINE w == l \o r
<1>9. \A j \in 1..(Len(s) - 1) : j \in DOMAIN s /\ j + 1 \in DOMAIN s
  BY <1>1
<1>10. /\ w \in Seq(S) /\ DOMAIN w = 1..(Len(s) - 1) /\ RemoveAt(s, i) = w
       /\ \A j \in DOMAIN w : w[j] = s[IF j < i THEN j ELSE j + 1]
       /\ \A j \in DOMAIN s : j # i => \E m \in DOMAIN w : w[m] = s[j] /\ m = IF j < i THEN j ELSE j - 1
  BY <1>4, <1>5, <1>6, <1>7, <1>8
<1> HIDE DEF w
<1> QED
  BY <1>9, <1>10

\* The rows without the row of one text.
LEMMA WithoutFacts ==
  ASSUME NEW S, NEW s \in Seq(S), Apart(s), NEW c
  PROVE  /\ WithoutRow(s, c) \in Seq(S) /\ Apart(WithoutRow(s, c))
         /\ ToSet(WithoutRow(s, c)) = ToSet(s) \ {c}
<1>1. CASE c \notin ToSet(s)
  BY <1>1 DEF WithoutRow
<1>2. CASE c \in ToSet(s)
  <2> DEFINE i == CHOOSE n \in DOMAIN s : s[n] = c
             w == RemoveAt(s, i)
  <2>1. i \in DOMAIN s /\ s[i] = c
    BY <1>2 DEF ToSet
  <2>2. WithoutRow(s, c) = w
    BY <1>2 DEF WithoutRow
  <2> HIDE DEF i
  <2>3. /\ w \in Seq(S) /\ DOMAIN w = 1..(Len(s) - 1)
        /\ \A j \in DOMAIN w : j \in DOMAIN s /\ j + 1 \in DOMAIN s /\ w[j] = s[IF j < i THEN j ELSE j + 1]
        /\ \A j \in DOMAIN s : j # i => \E m \in DOMAIN w : w[m] = s[j]
    BY <2>1, RemoveAtFacts
  <2> HIDE DEF w
  <2>4. DOMAIN s = 1..Len(s) /\ Len(s) \in Nat
    OBVIOUS
  <2>5. Apart(w)
    <3>1. SUFFICES ASSUME NEW m \in DOMAIN w, NEW n \in DOMAIN w, w[m] = w[n]  PROVE m = n
      BY DEF Apart
    <3> DEFINE at(j) == IF j < i THEN j ELSE j + 1
    <3>2. at(m) \in DOMAIN s /\ at(n) \in DOMAIN s /\ s[at(m)] = s[at(n)]
      BY <2>3, <3>1
    <3>3. at(m) = at(n)
      BY <3>2 DEF Apart
    <3> QED
      BY <2>1, <2>3, <2>4, <3>3
  <2>6. ToSet(w) \subseteq ToSet(s) \ {c}
    <3>1. SUFFICES ASSUME NEW m \in DOMAIN w  PROVE w[m] \in ToSet(s) \ {c}
      BY DEF ToSet
    <3> DEFINE k == IF m < i THEN m ELSE m + 1
    <3>2. k \in DOMAIN s /\ w[m] = s[k] /\ k # i
      BY <2>1, <2>3, <2>4
    <3> HIDE DEF k
    <3>3. s[k] # c
      BY <2>1, <3>2 DEF Apart
    <3> QED
      BY <3>2, <3>3 DEF ToSet
  <2>7. ToSet(s) \ {c} \subseteq ToSet(w)
    <3>1. SUFFICES ASSUME NEW j \in DOMAIN s, s[j] # c  PROVE s[j] \in ToSet(w)
      BY DEF ToSet
    <3>2. j # i
      BY <2>1, <3>1
    <3>3. PICK m \in DOMAIN w : w[m] = s[j]
      BY <2>3, <3>2
    <3> QED
      BY <3>3 DEF ToSet
  <2> QED
    BY <2>2, <2>3, <2>5, <2>6, <2>7
<1> QED
  BY <1>1, <1>2

\* The rows that are still to post after the first one.
LEMMA TailFacts ==
  ASSUME NEW S, NEW s \in Seq(S), s # <<>>, Apart(s)
  PROVE  /\ Head(s) \in S /\ Head(s) \in ToSet(s)
         /\ Tail(s) \in Seq(S) /\ Apart(Tail(s)) /\ ToSet(Tail(s)) = ToSet(s) \ {Head(s)}
<1>1. Len(s) \in Nat /\ DOMAIN s = 1..Len(s) /\ 1 \in DOMAIN s /\ Head(s) = s[1] /\ s[1] \in S
  OBVIOUS
<1>2. /\ Tail(s) \in Seq(S) /\ DOMAIN Tail(s) = 1..(Len(s) - 1)
      /\ \A j \in 1..(Len(s) - 1) : Tail(s)[j] = s[j + 1]
  BY <1>1
<1>3. Apart(Tail(s))
  <2>1. SUFFICES ASSUME NEW m \in DOMAIN Tail(s), NEW n \in DOMAIN Tail(s), Tail(s)[m] = Tail(s)[n]
                 PROVE m = n
    BY DEF Apart
  <2>2. m + 1 \in DOMAIN s /\ n + 1 \in DOMAIN s /\ s[m + 1] = s[n + 1]
    BY <1>1, <1>2, <2>1
  <2>3. m + 1 = n + 1
    BY <2>2 DEF Apart
  <2> QED
    BY <1>2, <2>3
<1>4. ToSet(Tail(s)) \subseteq ToSet(s) \ {Head(s)}
  <2>1. SUFFICES ASSUME NEW m \in DOMAIN Tail(s)  PROVE Tail(s)[m] \in ToSet(s) \ {s[1]}
    BY <1>1 DEF ToSet
  <2>2. Tail(s)[m] = s[m + 1] /\ m + 1 \in DOMAIN s /\ m + 1 # 1
    BY <1>1, <1>2
  <2>3. s[m + 1] # s[1]
    BY <1>1, <2>2 DEF Apart
  <2> QED
    BY <2>2, <2>3 DEF ToSet
<1>5. ToSet(s) \ {Head(s)} \subseteq ToSet(Tail(s))
  <2>1. SUFFICES ASSUME NEW j \in DOMAIN s, s[j] # s[1]  PROVE s[j] \in ToSet(Tail(s))
    BY <1>1 DEF ToSet
  <2>2. j - 1 \in 1..(Len(s) - 1) /\ (j - 1) + 1 = j
    BY <1>1, <2>1
  <2>3. Tail(s)[j - 1] = s[j] /\ j - 1 \in DOMAIN Tail(s)
    BY <1>2, <2>2
  <2> QED
    BY <2>3 DEF ToSet
<1>6. ToSet(Tail(s)) = ToSet(s) \ {Head(s)}
  BY <1>4, <1>5
<1>7. Head(s) \in ToSet(s)
  BY <1>1 DEF ToSet
<1> QED
  BY <1>1, <1>2, <1>3, <1>6, <1>7

\* The rows with a new one at the end.
LEMMA AppendFacts ==
  ASSUME NEW S, NEW s \in Seq(S), Apart(s), NEW c \in S, c \notin ToSet(s)
  PROVE  /\ Append(s, c) \in Seq(S) /\ Apart(Append(s, c))
         /\ ToSet(Append(s, c)) = ToSet(s) \cup {c}
<1> DEFINE a == Append(s, c)
           l == Len(s) + 1
<1>1. /\ Len(s) \in Nat /\ DOMAIN s = 1..Len(s) /\ a \in Seq(S) /\ DOMAIN a = 1..l
      /\ a[l] = c /\ \A j \in DOMAIN s : a[j] = s[j]
  OBVIOUS
<1>2. \A j \in DOMAIN s : s[j] # c /\ j # l
  BY <1>1 DEF ToSet
<1>3. \A j \in DOMAIN a : j = l \/ j \in DOMAIN s
  BY <1>1
<1>4. DOMAIN s \subseteq DOMAIN a /\ l \in DOMAIN a
  BY <1>1
<1> HIDE DEF a, l
<1>5. Apart(a)
  BY <1>1, <1>2, <1>3 DEF Apart
<1>6. ToSet(a) = ToSet(s) \cup {c}
  BY <1>1, <1>3, <1>4 DEF ToSet
<1>7. a \in Seq(S)
  BY <1>1
<1> QED
  BY <1>5, <1>6, <1>7 DEF a

-----------------------------------------------------------------------------
(***************************************************************************)
(* Comments: the invariant.                                                *)
(***************************************************************************)

CommandState ==
  [pc : {"idle", "update", "post", "mark", "fetch", "save", "replace", "replaced"},
   op : {"none", "push", "pull", "link"}, todo : Seq(Texts), on : CommentIssues, no : Nat,
   fetched : SUBSET RemoteComment, quiet : BOOLEAN]

CommentTypes ==
  /\ pending \in Seq(Texts)
  /\ synced \in SUBSET RemoteComment /\ remote \in SUBSET RemoteComment
  /\ issue \in CommentIssues
  /\ commentProc \in [CommentProcs -> CommandState]
  /\ posts \in [Texts -> Nat]
  /\ hurt \in [Texts -> SUBSET {"raced", "refused", "crash"}]
  /\ commentSpent \in [{"commands", "faults", "foreign"} -> Nat]

(* Only a push has rows to post, each once, and it waits for the answer to  *)
(* one of them.                                                             *)
Todo(r) ==
  /\ Apart(r.todo)
  /\ r.pc \notin {"update", "post", "mark"} => r.todo = <<>>
  /\ r.pc = "mark" => r.todo # <<>>

(* The comments are numbered by the posts of their text.                    *)
Numbered(S, n) == \A x \in S : x.of = Foreign \/ x.no <= n[x.of]
AnswerNumbered(r, n) == r.pc = "mark" => 1 <= r.no /\ r.no <= n[Head(r.todo)]

Held(r, c) == c \in ToSet(r.todo)
Marks(r, c) == r.pc = "mark" /\ Head(r.todo) = c

(* A text whose record has no gap: at most one push has it to post, and once *)
(* it was posted only the push that is about to record this has its row.     *)
Whole(c, rows, procs, n) ==
  /\ n[c] <= 1
  /\ \A p, q \in CommentProcs : Held(procs[p], c) /\ Held(procs[q], c) => p = q
  /\ n[c] = 1 => \/ c \notin ToSet(rows) /\ \A p \in CommentProcs : ~Held(procs[p], c)
                 \/ \E p \in CommentProcs : Marks(procs[p], c)

(* What an undisturbed pull or relink knows at each of its places.          *)
Mirrored(r, iss, rem, syn) == r.quiet =>
  /\ r.pc = "fetch" /\ r.op # "link" => iss = r.on
  /\ r.pc \in {"save", "replace"} => r.fetched = {x \in rem : x.on = r.on}
  /\ r.pc = "replace" => iss = r.on
  /\ r.pc = "replaced" => iss = r.on /\ syn = {x \in rem : x.on = r.on}

CommentsInv ==
  /\ CommentTypes /\ Apart(pending)
  /\ Numbered(synced, posts) /\ Numbered(remote, posts)
  /\ \A p \in CommentProcs :
       /\ Todo(commentProc[p]) /\ AnswerNumbered(commentProc[p], posts)
       /\ Numbered(commentProc[p].fetched, posts)
       /\ Mirrored(commentProc[p], issue, remote, synced)
  /\ \A c \in Texts : hurt[c] # {} \/ Whole(c, pending, commentProc, posts)

\* A place that holds nothing satisfies the invariant.
LEMMA IdleFacts ==
  /\ CommentIdle \in CommandState /\ Todo(CommentIdle) /\ CommentIdle.pc = "idle"
  /\ CommentIdle.fetched = {} /\ CommentIdle.todo = <<>> /\ CommentIdle.quiet = FALSE
  /\ \A c : ~Held(CommentIdle, c) /\ ~Marks(CommentIdle, c)
  /\ \A n : AnswerNumbered(CommentIdle, n) /\ Numbered(CommentIdle.fetched, n)
  /\ \A iss, rem, syn : Mirrored(CommentIdle, iss, rem, syn)
<1>1. (CHOOSE i \in CommentIssues : TRUE) \in CommentIssues
  BY CommentsAssumption
<1>2. CommentIdle \in CommandState
  BY <1>1 DEF CommentIdle, CommandState
<1>3. /\ CommentIdle.pc = "idle" /\ CommentIdle.fetched = {} /\ CommentIdle.todo = <<>>
      /\ CommentIdle.quiet = FALSE
  BY DEF CommentIdle
<1>4. Apart(<<>>) /\ ToSet(<<>>) = {}
  BY DEF Apart, ToSet
<1> QED
  BY <1>2, <1>3, <1>4 DEF Todo, Held, Marks, AnswerNumbered, Numbered, Mirrored

\* The records of the commands.
LEMMA StateOfFields ==
  ASSUME NEW pc \in {"idle", "update", "post", "mark", "fetch", "save", "replace", "replaced"},
         NEW op \in {"none", "push", "pull", "link"}, NEW todo \in Seq(Texts),
         NEW on \in CommentIssues, NEW no \in Nat, NEW fetched \in SUBSET RemoteComment,
         NEW quiet \in BOOLEAN
  PROVE  [pc |-> pc, op |-> op, todo |-> todo, on |-> on, no |-> no, fetched |-> fetched,
          quiet |-> quiet] \in CommandState
BY DEF CommandState

\* A push at one of its places.
LEMMA PushingFacts ==
  ASSUME NEW pc \in {"update", "post", "mark"}, NEW todo \in Seq(Texts), Apart(todo),
         NEW on \in CommentIssues, NEW no \in Nat, pc = "mark" => todo # <<>>,
         NEW r, r = Pushing(pc, todo, on, no)
  PROVE  /\ r \in CommandState /\ Todo(r) /\ r.pc = pc /\ r.todo = todo /\ r.on = on /\ r.no = no
         /\ r.fetched = {} /\ r.op = "push"
         /\ \A iss, rem, syn : Mirrored(r, iss, rem, syn)
<1>1. r = [pc |-> pc, op |-> "push", todo |-> todo, on |-> on, no |-> no, fetched |-> {}, quiet |-> FALSE]
  BY DEF Pushing
<1>2. /\ r.pc = pc /\ r.todo = todo /\ r.on = on /\ r.no = no /\ r.fetched = {} /\ r.quiet = FALSE
      /\ r.op = "push"
  BY <1>1
<1>3. r \in CommandState
  BY <1>1 DEF CommandState
<1>4. Todo(r) /\ \A iss, rem, syn : Mirrored(r, iss, rem, syn)
  BY <1>2 DEF Todo, Mirrored
<1> QED
  BY <1>2, <1>3, <1>4

\* A pull or link at one of its places.
LEMMA MirroringFacts ==
  ASSUME NEW pc \in {"fetch", "save"}, NEW op \in {"pull", "link"}, NEW on \in CommentIssues,
         NEW quiet \in BOOLEAN, NEW r, r = Mirroring(pc, op, on, {}, quiet)
  PROVE  /\ r \in CommandState /\ Todo(r) /\ r.pc = pc /\ r.op = op /\ r.on = on /\ r.quiet = quiet
         /\ r.fetched = {} /\ \A c : ~Held(r, c)
         /\ \A n : AnswerNumbered(r, n)
<1>1. r = [pc |-> pc, op |-> op, todo |-> <<>>, on |-> on, no |-> 0, fetched |-> {}, quiet |-> quiet]
  BY DEF Mirroring
<1>2. /\ r.pc = pc /\ r.op = op /\ r.todo = <<>> /\ r.on = on /\ r.fetched = {} /\ r.quiet = quiet
  BY <1>1
<1>3. r \in CommandState
  <2>1. pc \in {"idle", "update", "post", "mark", "fetch", "save", "replace", "replaced"}
    OBVIOUS
  <2>2. op \in {"none", "push", "pull", "link"} /\ <<>> \in Seq(Texts) /\ {} \in SUBSET RemoteComment
    OBVIOUS
  <2>3. 0 \in Nat
    OBVIOUS
  <2>4. [pc |-> pc, op |-> op, todo |-> <<>>, on |-> on, no |-> 0, fetched |-> {}, quiet |-> quiet]
          \in CommandState
    BY <2>1, <2>2, <2>3, StateOfFields, Zenon
  <2> QED
    BY <1>1, <2>4, Zenon
<1>4. Apart(<<>>) /\ ToSet(<<>>) = {}
  BY DEF Apart, ToSet
<1>5. Todo(r) /\ (\A c : ~Held(r, c)) /\ \A n : AnswerNumbered(r, n)
  BY <1>2, <1>4 DEF Todo, Held, AnswerNumbered
<1> QED
  BY <1>2, <1>3, <1>5

\* Disturbed, a command holds what it held.
LEMMA DisturbedFacts ==
  ASSUME NEW r \in CommandState
  PROVE  LET d == [r EXCEPT !.quiet = FALSE]
         IN /\ d \in CommandState /\ d.pc = r.pc /\ d.op = r.op /\ d.todo = r.todo /\ d.on = r.on
            /\ d.no = r.no /\ d.fetched = r.fetched /\ d.quiet = FALSE
BY DEF CommandState

\* A text without a gap stays one while no push takes up its row and none that is
\* to record it goes.
LEMMA WholeKept ==
  ASSUME NEW c, NEW rows, NEW procs, NEW n, NEW rows2, NEW procs2, NEW n2,
         Whole(c, rows, procs, n), n2[c] = n[c], c \in ToSet(rows2) => c \in ToSet(rows),
         \A q \in CommentProcs : Held(procs2[q], c) => Held(procs[q], c),
         \A q \in CommentProcs : Marks(procs[q], c) => Marks(procs2[q], c)
  PROVE  Whole(c, rows2, procs2, n2)
BY DEF Whole

\* A budget used stays within its bound.
LEMMA CommentSpendKeeps ==
  ASSUME CommentTypes, NEW b \in {"commands", "faults", "foreign"}, CommentSpend(b)
  PROVE  commentSpent' \in [{"commands", "faults", "foreign"} -> Nat]
BY DEF CommentTypes, CommentSpend

\* A step of one command that disturbs nobody.
LEMMA GoesKeeps ==
  ASSUME CommentsInv, NEW p \in CommentProcs, NEW r \in CommandState, CommentGoes(p, r),
         UNCHANGED <<pending, synced, issue, remote, posts>>,
         Todo(r), AnswerNumbered(r, posts), Numbered(r.fetched, posts),
         Mirrored(r, issue, remote, synced),
         hurt' \in [Texts -> SUBSET {"raced", "refused", "crash"}],
         commentSpent' \in [{"commands", "faults", "foreign"} -> Nat],
         \A c \in Texts : hurt'[c] # {} \/ Whole(c, pending, commentProc', posts)
  PROVE  CommentsInv'
<1>1. commentProc' \in [CommentProcs -> CommandState]
  BY DEF CommentsInv, CommentTypes, CommentGoes
<1>2. commentProc'[p] = r /\ \A q \in CommentProcs : q # p => commentProc'[q] = commentProc[q]
  BY DEF CommentsInv, CommentTypes, CommentGoes
<1>3. CommentTypes'
  BY <1>1 DEF CommentsInv, CommentTypes
<1>4. \A q \in CommentProcs :
        /\ Todo(commentProc'[q]) /\ AnswerNumbered(commentProc'[q], posts)
        /\ Numbered(commentProc'[q].fetched, posts)
        /\ Mirrored(commentProc'[q], issue, remote, synced)
  BY <1>2 DEF CommentsInv
<1> QED
  BY <1>3, <1>4 DEF CommentsInv

\* A step of one command that disturbs the others.
LEMMA AloneKeeps ==
  ASSUME CommentsInv, NEW p \in CommentProcs, NEW r \in CommandState, CommentGoesAlone(p, r),
         pending' \in Seq(Texts), Apart(pending'),
         synced' \in SUBSET RemoteComment, remote' \in SUBSET RemoteComment, issue' \in CommentIssues,
         posts' \in [Texts -> Nat], \A c \in Texts : posts[c] <= posts'[c],
         Numbered(synced', posts'), Numbered(remote', posts'),
         Todo(r), AnswerNumbered(r, posts'), Numbered(r.fetched, posts'),
         Mirrored(r, issue', remote', synced'),
         hurt' \in [Texts -> SUBSET {"raced", "refused", "crash"}],
         commentSpent' \in [{"commands", "faults", "foreign"} -> Nat],
         \A c \in Texts : hurt'[c] # {} \/ Whole(c, pending', commentProc', posts')
  PROVE  CommentsInv'
<1>1. \A q \in CommentProcs : commentProc[q] \in CommandState
  BY DEF CommentsInv, CommentTypes
<1>2. /\ commentProc'[p] = r
      /\ \A q \in CommentProcs : q # p => commentProc'[q] = [commentProc[q] EXCEPT !.quiet = FALSE]
  BY DEF CommentGoesAlone
<1>3. commentProc' \in [CommentProcs -> CommandState]
  <2>1. \A q \in CommentProcs : [commentProc[q] EXCEPT !.quiet = FALSE] \in CommandState
    BY <1>1, DisturbedFacts
  <2> QED
    BY <2>1 DEF CommentGoesAlone
<1>4. ASSUME NEW q \in CommentProcs, q # p
      PROVE  /\ Todo(commentProc'[q]) /\ AnswerNumbered(commentProc'[q], posts')
             /\ Numbered(commentProc'[q].fetched, posts')
             /\ Mirrored(commentProc'[q], issue', remote', synced')
  <2> DEFINE d == commentProc'[q]
             o == commentProc[q]
  <2>1. /\ d.pc = o.pc /\ d.op = o.op /\ d.todo = o.todo /\ d.on = o.on
        /\ d.no = o.no /\ d.fetched = o.fetched /\ d.quiet = FALSE
    <3>1. d = [o EXCEPT !.quiet = FALSE] /\ o \in CommandState
      BY <1>1, <1>2, <1>4
    <3> HIDE DEF d, o
    <3> QED
      BY <3>1, DisturbedFacts
  <2>2. o \in CommandState /\ Todo(o) /\ AnswerNumbered(o, posts) /\ Numbered(o.fetched, posts)
    BY <1>1 DEF CommentsInv
  <2>3. o.no \in Nat /\ o.fetched \in SUBSET RemoteComment /\ o.todo \in Seq(Texts) /\ posts \in [Texts -> Nat]
    BY <2>2 DEF CommandState, CommentsInv, CommentTypes
  <2> HIDE DEF d, o
  <2>4. Todo(d) /\ Mirrored(d, issue', remote', synced')
    BY <2>1, <2>2 DEF Todo, Mirrored
  <2>5. Numbered(d.fetched, posts')
    <3>1. SUFFICES ASSUME NEW x \in o.fetched, x.of # Foreign  PROVE x.no <= posts'[x.of]
      BY <2>1 DEF Numbered
    <3>2. x.of \in Texts /\ x.no \in Nat
      BY <2>3, <3>1 DEF RemoteComment
    <3>3. x.no <= posts[x.of] /\ posts[x.of] <= posts'[x.of] /\ posts[x.of] \in Nat /\ posts'[x.of] \in Nat
      BY <2>2, <2>3, <3>1, <3>2 DEF Numbered
    <3> QED
      BY <3>2, <3>3
  <2>6. AnswerNumbered(d, posts')
    <3>1. SUFFICES ASSUME o.pc = "mark"  PROVE 1 <= o.no /\ o.no <= posts'[Head(o.todo)]
      BY <2>1 DEF AnswerNumbered
    <3>2. Head(o.todo) \in Texts
      BY <2>2, <2>3, <3>1, TailFacts DEF Todo
    <3>3. 1 <= o.no /\ o.no <= posts[Head(o.todo)]
      BY <2>2, <3>1 DEF AnswerNumbered
    <3>4. posts[Head(o.todo)] <= posts'[Head(o.todo)] /\ posts[Head(o.todo)] \in Nat /\ posts'[Head(o.todo)] \in Nat
      BY <2>3, <3>2
    <3> QED
      BY <2>3, <3>3, <3>4
  <2> QED
    BY <2>4, <2>5, <2>6 DEF d
<1>5. \A q \in CommentProcs :
        /\ Todo(commentProc'[q]) /\ AnswerNumbered(commentProc'[q], posts')
        /\ Numbered(commentProc'[q].fetched, posts')
        /\ Mirrored(commentProc'[q], issue', remote', synced')
  BY <1>2, <1>4
<1>6. CommentTypes'
  BY <1>3 DEF CommentTypes
<1> QED
  BY <1>5, <1>6 DEF CommentsInv

\* What the other commands keep in a step of one.
LEMMA OthersKeep ==
  ASSUME CommentTypes, NEW p \in CommentProcs, NEW r, CommentGoes(p, r) \/ CommentGoesAlone(p, r)
  PROVE  /\ commentProc'[p] = r
         /\ \A q \in CommentProcs : q # p =>
              commentProc'[q].pc = commentProc[q].pc /\ commentProc'[q].todo = commentProc[q].todo
<1>1. CASE CommentGoes(p, r)
  BY <1>1 DEF CommentTypes, CommentGoes
<1>2. CASE CommentGoesAlone(p, r)
  <2>1. /\ commentProc'[p] = r
        /\ \A q \in CommentProcs : q # p => commentProc'[q] = [commentProc[q] EXCEPT !.quiet = FALSE]
    BY <1>2 DEF CommentGoesAlone
  <2>2. \A q \in CommentProcs : commentProc[q] \in CommandState
    BY DEF CommentTypes
  <2>3. ASSUME NEW q \in CommentProcs, q # p
        PROVE  commentProc'[q].pc = commentProc[q].pc /\ commentProc'[q].todo = commentProc[q].todo
    BY <2>1, <2>2, <2>3, DisturbedFacts
  <2> QED
    BY <2>1, <2>3
<1> QED
  BY <1>1, <1>2

\* A command kept by a step that leaves its texts pending keeps its texts.
LEMMA WholesKept ==
  ASSUME CommentsInv, NEW p \in CommentProcs, NEW r, CommentGoes(p, r) \/ CommentGoesAlone(p, r),
         NEW c \in Texts, hurt[c] = {}, posts'[c] = posts[c],
         c \in ToSet(pending') => c \in ToSet(pending),
         Held(r, c) => Held(commentProc[p], c), Marks(commentProc[p], c) => Marks(r, c)
  PROVE  Whole(c, pending', commentProc', posts')
<1>1. Whole(c, pending, commentProc, posts) /\ CommentTypes
  BY DEF CommentsInv
<1>2. /\ commentProc'[p] = r
      /\ \A q \in CommentProcs : q # p =>
           commentProc'[q].pc = commentProc[q].pc /\ commentProc'[q].todo = commentProc[q].todo
  BY <1>1, OthersKeep
<1>3. /\ \A q \in CommentProcs : Held(commentProc'[q], c) => Held(commentProc[q], c)
      /\ \A q \in CommentProcs : Marks(commentProc[q], c) => Marks(commentProc'[q], c)
  BY <1>2 DEF Held, Marks
<1> QED
  BY <1>1, <1>3, WholeKept

\* A step that leaves the history of the texts alone.
LEMMA HurtKept ==
  ASSUME CommentsInv, UNCHANGED hurt,
         \A c \in Texts : hurt[c] = {} => Whole(c, pending', commentProc', posts')
  PROVE  /\ hurt' \in [Texts -> SUBSET {"raced", "refused", "crash"}]
         /\ \A c \in Texts : hurt'[c] # {} \/ Whole(c, pending', commentProc', posts')
BY DEF CommentsInv, CommentTypes

\* A new comment is a text that was not written before.
LEMMA AddCommentKeeps ==
  ASSUME CommentsInv, NEW c \in Texts, AddComment(c)
  PROVE  CommentsInv'
<1>1. /\ posts[c] = 0 /\ c \notin ToSet(pending) /\ pending' = Append(pending, c)
      /\ UNCHANGED <<synced, issue, remote, commentProc, posts, hurt, commentSpent>>
  BY DEF AddComment
<1>2. pending \in Seq(Texts) /\ Apart(pending)
  BY DEF CommentsInv, CommentTypes
<1>3. pending' \in Seq(Texts) /\ Apart(pending') /\ ToSet(pending') = ToSet(pending) \cup {c}
  BY <1>1, <1>2, AppendFacts
<1>4. ASSUME NEW d \in Texts, hurt[d] = {}  PROVE Whole(d, pending', commentProc, posts)
  BY <1>1, <1>3, <1>4 DEF CommentsInv, Whole
<1>5. CommentTypes'
  BY <1>1, <1>3 DEF CommentsInv, CommentTypes
<1> QED
  BY <1>1, <1>3, <1>4, <1>5 DEF CommentsInv

\* A push reads the pending rows as they are.
LEMMA PushReadsKeeps ==
  ASSUME CommentsInv, NEW p \in CommentProcs, NEW dirty \in BOOLEAN, PushReads(p, dirty)
  PROVE  CommentsInv'
<1> DEFINE pc == IF dirty THEN "update" ELSE "post"
           r == Pushing(pc, pending, issue, 0)
<1>1. /\ commentProc[p].pc = "idle" /\ CommentSpend("commands") /\ CommentGoes(p, r)
      /\ hurt' = [c \in Texts |-> IF c \in ToSet(pending) /\ \E q \in CommentProcs : Holds(q, c)
                                  THEN hurt[c] \cup {"raced"} ELSE hurt[c]]
      /\ UNCHANGED <<pending, synced, issue, remote, posts>>
  BY DEF PushReads, CommentAt, LoadPending
<1>2. CommentTypes /\ pending \in Seq(Texts) /\ Apart(pending) /\ issue \in CommentIssues
  BY DEF CommentsInv, CommentTypes
<1>3. pc \in {"update", "post"} /\ 0 \in Nat
  OBVIOUS
<1> HIDE DEF pc
<1>4. /\ r \in CommandState /\ Todo(r) /\ r.pc = pc /\ r.todo = pending
      /\ Numbered(r.fetched, posts) /\ Mirrored(r, issue, remote, synced)
  <2>1. pc \in {"update", "post", "mark"} /\ (pc = "mark" => pending # <<>>)
    BY <1>3
  <2>2. r = Pushing(pc, pending, issue, 0)
    OBVIOUS
  <2> HIDE DEF r
  <2>3. r.fetched = {}
    BY <1>2, <1>3, <2>1, <2>2, PushingFacts
  <2> QED
    BY <1>2, <1>3, <2>1, <2>2, <2>3, PushingFacts DEF Numbered
<1> HIDE DEF r
<1>5. AnswerNumbered(r, posts)
  BY <1>3, <1>4 DEF AnswerNumbered
<1>6. commentSpent' \in [{"commands", "faults", "foreign"} -> Nat]
  BY <1>1, <1>2, CommentSpendKeeps
<1>7. hurt' \in [Texts -> SUBSET {"raced", "refused", "crash"}]
  BY <1>1 DEF CommentsInv, CommentTypes
<1>8. ASSUME NEW c \in Texts, hurt'[c] = {}  PROVE Whole(c, pending, commentProc', posts)
  <2>1. hurt[c] = {} /\ (c \in ToSet(pending) => \A q \in CommentProcs : ~Holds(q, c))
    BY <1>1, <1>8
  <2>2. Whole(c, pending, commentProc, posts)
    BY <2>1 DEF CommentsInv
  <2>3. /\ commentProc'[p] = r
        /\ \A q \in CommentProcs : q # p =>
             commentProc'[q].pc = commentProc[q].pc /\ commentProc'[q].todo = commentProc[q].todo
    BY <1>1, <1>2, OthersKeep
  <2>4. CASE c \notin ToSet(pending)
    <3>1. ~Held(r, c) /\ ~Marks(commentProc[p], c) /\ posts'[c] = posts[c] /\ pending' = pending
      BY <1>1, <1>4, <2>4 DEF Held, Marks
    <3>2. Whole(c, pending', commentProc', posts')
      BY <1>1, <2>1, <3>1, WholesKept
    <3> QED
      BY <1>1, <3>2
  <2>5. CASE c \in ToSet(pending)
    <3>1. \A q \in CommentProcs : ~Held(commentProc[q], c)
      BY <2>1, <2>5 DEF Holds, Held
    <3>2. ASSUME posts[c] = 1  PROVE FALSE
      <4>1. PICK q \in CommentProcs : Marks(commentProc[q], c)
        BY <2>2, <2>5, <3>2 DEF Whole
      <4>2. commentProc[q].todo \in Seq(Texts) /\ Todo(commentProc[q])
        BY DEF CommentsInv, CommentTypes, CommandState
      <4>3. Held(commentProc[q], c)
        BY <4>1, <4>2, TailFacts DEF Todo, Marks, Held
      <4> QED
        BY <3>1, <4>3
    <3>3. \A q \in CommentProcs : q # p => ~Held(commentProc'[q], c)
      BY <2>3, <3>1 DEF Held
    <3> QED
      BY <2>2, <3>2, <3>3 DEF Whole
  <2> QED
    BY <2>4, <2>5
<1> QED
  BY <1>1, <1>4, <1>5, <1>6, <1>7, <1>8, GoesKeeps

\* A dirty task is pushed before its comments, which stay as they are.
LEMMA PushUpdatesKeeps ==
  ASSUME CommentsInv, NEW p \in CommentProcs, PushUpdates(p)
  PROVE  CommentsInv'
<1> DEFINE o == commentProc[p]
           r == [o EXCEPT !.pc = "post"]
<1>1. /\ o.pc = "update" /\ CommentGoes(p, r)
      /\ UNCHANGED <<pending, synced, issue, remote, posts, hurt, commentSpent>>
  BY DEF PushUpdates, CommentAt
<1>2. /\ o \in CommandState /\ Todo(o) /\ Numbered(o.fetched, posts)
      /\ commentSpent' \in [{"commands", "faults", "foreign"} -> Nat]
  BY <1>1 DEF CommentsInv, CommentTypes
<1> HIDE DEF o
<1>3. /\ r \in CommandState /\ r.pc = "post" /\ r.todo = o.todo /\ r.fetched = o.fetched
  BY <1>2 DEF CommandState
<1> HIDE DEF r
<1>4. /\ Todo(r) /\ AnswerNumbered(r, posts) /\ Numbered(r.fetched, posts)
      /\ Mirrored(r, issue, remote, synced)
  BY <1>1, <1>2, <1>3 DEF Todo, AnswerNumbered, Mirrored
<1>5. \A c \in Texts : hurt[c] = {} => Whole(c, pending', commentProc', posts')
  <2>1. \A c : (Held(r, c) => Held(o, c)) /\ ~Marks(o, c)
    BY <1>1, <1>3 DEF Held, Marks
  <2> QED
    BY <1>1, <2>1, WholesKept DEF o
<1>6. /\ hurt' \in [Texts -> SUBSET {"raced", "refused", "crash"}]
      /\ \A c \in Texts : hurt'[c] # {} \/ Whole(c, pending, commentProc', posts)
  BY <1>1, <1>5, HurtKept
<1> QED
  BY <1>1, <1>2, <1>3, <1>4, <1>6, GoesKeeps

\* GitHub's new comment and the counts of the posts.
LEMMA CreateFacts ==
  ASSUME CommentsInv, NEW c \in Texts, NEW i \in CommentIssues, CreateComment(c, i)
  PROVE  /\ remote' \in SUBSET RemoteComment /\ posts' \in [Texts -> Nat]
         /\ \A d \in Texts : posts[d] <= posts'[d] /\ (d # c => posts'[d] = posts[d])
         /\ posts'[c] = posts[c] + 1 /\ posts[c] \in Nat
         /\ Numbered(remote', posts') /\ Numbered(synced, posts')
<1>1. /\ posts \in [Texts -> Nat] /\ remote \in SUBSET RemoteComment /\ synced \in SUBSET RemoteComment
      /\ Numbered(remote, posts) /\ Numbered(synced, posts)
  BY DEF CommentsInv, CommentTypes
<1> DEFINE new == [on |-> i, of |-> c, no |-> posts[c] + 1]
<1>2. remote' = remote \cup {new} /\ posts' = [posts EXCEPT ![c] = @ + 1]
  BY DEF CreateComment
<1>3. posts' \in [Texts -> Nat] /\ posts'[c] = posts[c] + 1 /\ posts[c] \in Nat
  BY <1>1, <1>2
<1>4. \A d \in Texts : posts[d] <= posts'[d] /\ (d # c => posts'[d] = posts[d])
  BY <1>1, <1>2
<1>5. new \in RemoteComment /\ new.of = c /\ new.no = posts[c] + 1
  BY <1>3 DEF RemoteComment
<1> HIDE DEF new
<1>6. ASSUME NEW S \in SUBSET RemoteComment, Numbered(S, posts)  PROVE Numbered(S, posts')
  <2>1. SUFFICES ASSUME NEW x \in S, x.of # Foreign  PROVE x.no <= posts'[x.of]
    BY DEF Numbered
  <2>2. x.of \in Texts /\ x.no \in Nat
    BY <2>1 DEF RemoteComment
  <2>3. x.no <= posts[x.of] /\ posts[x.of] <= posts'[x.of] /\ posts[x.of] \in Nat /\ posts'[x.of] \in Nat
    BY <1>1, <1>3, <1>4, <1>6, <2>1, <2>2 DEF Numbered
  <2> QED
    BY <2>2, <2>3
<1>7. Numbered(remote, posts') /\ Numbered(synced, posts')
  BY <1>1, <1>6
<1>8. Numbered(remote', posts')
  BY <1>2, <1>3, <1>5, <1>7 DEF Numbered
<1> QED
  BY <1>1, <1>2, <1>3, <1>4, <1>5, <1>7, <1>8

\* A push that is about to post: no text whose record has no gap is posted twice.
LEMMA FirstPost ==
  ASSUME CommentsInv, NEW p \in CommentProcs, commentProc[p].pc = "post", commentProc[p].todo # <<>>
  PROVE  LET c == Head(commentProc[p].todo)
         IN /\ c \in Texts /\ Held(commentProc[p], c)
            /\ hurt[c] = {} => /\ posts[c] = 0
                               /\ \A q \in CommentProcs : Held(commentProc[q], c) => q = p
<1> DEFINE c == Head(commentProc[p].todo)
<1>1. commentProc[p].todo \in Seq(Texts) /\ Apart(commentProc[p].todo)
  BY DEF CommentsInv, CommentTypes, CommandState, Todo
<1>2. c \in Texts /\ Held(commentProc[p], c)
  BY <1>1, TailFacts DEF Held
<1> HIDE DEF c
<1>3. ASSUME hurt[c] = {}
      PROVE  posts[c] = 0 /\ \A q \in CommentProcs : Held(commentProc[q], c) => q = p
  <2>1. Whole(c, pending, commentProc, posts)
    BY <1>2, <1>3 DEF CommentsInv
  <2>2. \A q \in CommentProcs : Held(commentProc[q], c) => q = p
    BY <1>2, <2>1 DEF Whole
  <2>3. ASSUME posts[c] = 1  PROVE FALSE
    <3>1. PICK q \in CommentProcs : Marks(commentProc[q], c)
      BY <1>2, <2>1, <2>3 DEF Whole
    <3>2. commentProc[q].todo \in Seq(Texts) /\ Todo(commentProc[q])
      BY DEF CommentsInv, CommentTypes, CommandState
    <3>3. Held(commentProc[q], c)
      BY <3>1, <3>2, TailFacts DEF Todo, Marks, Held
    <3> QED
      BY <2>2, <3>1, <3>3 DEF Marks
  <2>4. posts[c] \in Nat /\ posts[c] <= 1
    BY <1>2, <2>1 DEF CommentsInv, CommentTypes, Whole
  <2> QED
    BY <2>2, <2>3, <2>4
<1> QED
  BY <1>2, <1>3 DEF c

\* A post is accounted for by the number of its answer.
LEMMA PushPostsKeeps ==
  ASSUME CommentsInv, NEW p \in CommentProcs, PushPosts(p)
  PROVE  CommentsInv'
<1> DEFINE o == commentProc[p]
           c == Head(o.todo)
           r == Pushing("mark", o.todo, o.on, posts[c] + 1)
<1>1. /\ o.pc = "post" /\ o.todo # <<>> /\ CreateComment(c, o.on) /\ CommentGoesAlone(p, r)
      /\ UNCHANGED <<pending, synced, issue, hurt, commentSpent>>
  BY DEF PushPosts, CommentAt
<1>2. /\ o \in CommandState /\ Todo(o) /\ o.todo \in Seq(Texts) /\ o.on \in CommentIssues
      /\ Apart(o.todo) /\ o = commentProc[p]
  BY DEF CommentsInv, CommentTypes, CommandState, Todo
<1>3. /\ c \in Texts /\ Held(o, c)
      /\ hurt[c] = {} => posts[c] = 0 /\ \A q \in CommentProcs : Held(commentProc[q], c) => q = p
  BY <1>1, FirstPost
<1>4. c = Head(o.todo)
  OBVIOUS
<1> HIDE DEF o, c
<1>5. /\ remote' \in SUBSET RemoteComment /\ posts' \in [Texts -> Nat]
      /\ \A d \in Texts : posts[d] <= posts'[d] /\ (d # c => posts'[d] = posts[d])
      /\ posts'[c] = posts[c] + 1 /\ posts[c] \in Nat
      /\ Numbered(remote', posts') /\ Numbered(synced, posts')
  BY <1>1, <1>2, <1>3, CreateFacts
<1>6. /\ r \in CommandState /\ Todo(r) /\ r.pc = "mark" /\ r.todo = o.todo /\ r.no = posts[c] + 1
      /\ Numbered(r.fetched, posts') /\ Mirrored(r, issue, remote', synced)
  <2>1. posts[c] + 1 \in Nat
    BY <1>5
  <2>2. r = Pushing("mark", o.todo, o.on, posts[c] + 1)
    OBVIOUS
  <2> HIDE DEF r
  <2>3. "mark" \in {"update", "post", "mark"} /\ ("mark" = "mark" => o.todo # <<>>)
    BY <1>1
  <2>4. r.fetched = {}
    BY <1>1, <1>2, <2>1, <2>2, <2>3, PushingFacts
  <2> QED
    BY <1>1, <1>2, <2>1, <2>2, <2>3, <2>4, PushingFacts DEF Numbered
<1> HIDE DEF r
<1>7. AnswerNumbered(r, posts')
  BY <1>3, <1>4, <1>5, <1>6 DEF AnswerNumbered
<1>8. ASSUME NEW d \in Texts, hurt[d] = {}  PROVE Whole(d, pending', commentProc', posts')
  <2>1. CASE d # c
    <3>1. posts'[d] = posts[d] /\ pending' = pending /\ (Held(r, d) => Held(commentProc[p], d))
          /\ ~Marks(commentProc[p], d)
      BY <1>1, <1>2, <1>5, <1>6, <2>1 DEF Held, Marks
    <3> QED
      BY <1>1, <1>8, <3>1, WholesKept
  <2>2. CASE d = c
    <3>1. posts[c] = 0 /\ \A q \in CommentProcs : Held(commentProc[q], c) => q = p
      BY <1>3, <1>8, <2>2
    <3>2. /\ commentProc'[p] = r
          /\ \A q \in CommentProcs : q # p =>
               commentProc'[q].pc = commentProc[q].pc /\ commentProc'[q].todo = commentProc[q].todo
      BY <1>1, OthersKeep DEF CommentsInv
    <3>3. \A q \in CommentProcs : Held(commentProc'[q], c) => q = p
      BY <3>1, <3>2 DEF Held
    <3>4. Marks(commentProc'[p], c)
      BY <1>4, <1>6, <3>2 DEF Marks
    <3> QED
      BY <1>5, <2>2, <3>1, <3>3, <3>4 DEF Whole
  <2> QED
    BY <2>1, <2>2
<1>9. /\ hurt' \in [Texts -> SUBSET {"raced", "refused", "crash"}]
      /\ \A d \in Texts : hurt'[d] # {} \/ Whole(d, pending', commentProc', posts')
  BY <1>1, <1>8, HurtKept
<1>10. /\ pending' \in Seq(Texts) /\ Apart(pending') /\ synced' \in SUBSET RemoteComment
       /\ issue' \in CommentIssues /\ commentSpent' \in [{"commands", "faults", "foreign"} -> Nat]
       /\ Numbered(synced', posts') /\ Mirrored(r, issue', remote', synced')
  BY <1>1, <1>5, <1>6 DEF CommentsInv, CommentTypes
<1> QED
  BY <1>1, <1>5, <1>6, <1>7, <1>9, <1>10, AloneKeeps

\* A marked comment stops being pending, and is among the synced ones.
LEMMA PushMarksKeeps ==
  ASSUME CommentsInv, NEW p \in CommentProcs, PushMarks(p)
  PROVE  CommentsInv'
<1> DEFINE o == commentProc[p]
           c == Head(o.todo)
           r == Pushing("post", Tail(o.todo), o.on, 0)
<1>1. /\ o.pc = "mark" /\ pending' = WithoutRow(pending, c) /\ synced' = synced \cup {Answer(o)}
      /\ CommentGoesAlone(p, r) /\ UNCHANGED <<issue, remote, posts, hurt, commentSpent>>
  BY DEF PushMarks, MarkCommentsPushed, CommentAt
<1>2. /\ o \in CommandState /\ Todo(o) /\ o.todo \in Seq(Texts) /\ o.on \in CommentIssues /\ o.no \in Nat
      /\ Apart(o.todo) /\ o = commentProc[p] /\ AnswerNumbered(o, posts) /\ c = Head(o.todo)
  BY DEF CommentsInv, CommentTypes, CommandState, Todo
<1> HIDE DEF o, c
<1>3. /\ c \in Texts /\ c \in ToSet(o.todo) /\ o.todo # <<>>
      /\ Tail(o.todo) \in Seq(Texts) /\ Apart(Tail(o.todo)) /\ ToSet(Tail(o.todo)) = ToSet(o.todo) \ {c}
  BY <1>1, <1>2, TailFacts DEF Todo
<1>4. /\ pending \in Seq(Texts) /\ Apart(pending) /\ synced \in SUBSET RemoteComment
      /\ Numbered(synced, posts) /\ remote \in SUBSET RemoteComment /\ Numbered(remote, posts)
      /\ posts \in [Texts -> Nat] /\ issue \in CommentIssues /\ CommentTypes
      /\ commentSpent \in [{"commands", "faults", "foreign"} -> Nat]
  BY DEF CommentsInv, CommentTypes
<1>5. pending' \in Seq(Texts) /\ Apart(pending') /\ ToSet(pending') = ToSet(pending) \ {c}
  BY <1>1, <1>4, WithoutFacts
<1>6. Answer(o) \in RemoteComment /\ Answer(o).of = c /\ Answer(o).no = o.no
  BY <1>2, <1>3 DEF Answer, RemoteComment
<1>7. synced' \in SUBSET RemoteComment /\ Numbered(synced', posts)
  <2>1. o.no <= posts[c]
    BY <1>1, <1>2 DEF AnswerNumbered
  <2> QED
    BY <1>1, <1>4, <1>6, <2>1 DEF Numbered
<1>8. /\ r \in CommandState /\ Todo(r) /\ r.pc = "post" /\ r.todo = Tail(o.todo)
      /\ Numbered(r.fetched, posts) /\ Mirrored(r, issue, remote, synced')
  <2>1. 0 \in Nat
    OBVIOUS
  <2> DEFINE t == Tail(o.todo)
  <2>2. r = Pushing("post", t, o.on, 0) /\ t \in Seq(Texts) /\ Apart(t)
    BY <1>3
  <2>3. "post" \in {"update", "post", "mark"} /\ ("post" = "mark" => t # <<>>)
    OBVIOUS
  <2> HIDE DEF r, t
  <2>4. /\ r \in CommandState /\ Todo(r) /\ r.pc = "post" /\ r.todo = t /\ r.fetched = {}
        /\ \A iss, rem, syn : Mirrored(r, iss, rem, syn)
    BY <1>2, <2>1, <2>2, <2>3, PushingFacts
  <2> QED
    BY <2>4 DEF t, Numbered
<1> HIDE DEF r
<1>9. AnswerNumbered(r, posts)
  BY <1>8 DEF AnswerNumbered
<1>10. ASSUME NEW d \in Texts, hurt[d] = {}  PROVE Whole(d, pending', commentProc', posts')
  <2>1. (Held(r, d) => Held(o, d)) /\ (d \in ToSet(pending') => d \in ToSet(pending)) /\ posts' = posts
    BY <1>1, <1>3, <1>5, <1>8 DEF Held
  <2>2. CASE d # c
    <3>1. ~Marks(o, d)
      BY <1>2, <2>2 DEF Marks
    <3> QED
      BY <1>1, <1>2, <1>10, <2>1, <3>1, WholesKept
  <2>3. CASE d = c
    <3>1. Whole(c, pending, commentProc, posts) /\ Held(commentProc[p], c)
      BY <1>2, <1>3, <1>10, <2>3 DEF CommentsInv, Held
    <3>2. \A q \in CommentProcs : q # p => ~Held(commentProc[q], c)
      BY <3>1 DEF Whole
    <3>3. /\ commentProc'[p] = r
          /\ \A q \in CommentProcs : q # p =>
               commentProc'[q].pc = commentProc[q].pc /\ commentProc'[q].todo = commentProc[q].todo
      BY <1>1, <1>4, OthersKeep
    <3>4. ~Held(r, c) /\ c \notin ToSet(pending')
      BY <1>3, <1>5, <1>8 DEF Held
    <3>5. \A q \in CommentProcs : ~Held(commentProc'[q], c)
      BY <3>2, <3>3, <3>4 DEF Held
    <3> QED
      BY <1>1, <2>3, <3>1, <3>4, <3>5 DEF Whole
  <2> QED
    BY <2>2, <2>3
<1>11. /\ hurt' \in [Texts -> SUBSET {"raced", "refused", "crash"}]
       /\ \A d \in Texts : hurt'[d] # {} \/ Whole(d, pending', commentProc', posts')
  BY <1>1, <1>10, HurtKept
<1>12. \A d \in Texts : posts[d] <= posts'[d]
  BY <1>1, <1>4
<1>13. /\ remote' \in SUBSET RemoteComment /\ issue' \in CommentIssues /\ posts' \in [Texts -> Nat]
       /\ commentSpent' \in [{"commands", "faults", "foreign"} -> Nat]
       /\ Numbered(synced', posts') /\ Numbered(remote', posts') /\ AnswerNumbered(r, posts')
       /\ Numbered(r.fetched, posts') /\ Mirrored(r, issue', remote', synced')
  BY <1>1, <1>4, <1>7, <1>8, <1>9
<1> QED
  BY <1>1, <1>5, <1>7, <1>8, <1>11, <1>12, <1>13, AloneKeeps

\* A command that goes back to rest, with a reason to repeat a post if it leaves
\* one without its record.
LEMMA GoesToRest ==
  ASSUME CommentsInv, NEW p \in CommentProcs, CommentGoes(p, CommentIdle),
         UNCHANGED <<pending, synced, issue, remote, posts>>,
         hurt' \in [Texts -> SUBSET {"raced", "refused", "crash"}],
         \A c \in Texts : hurt'[c] = {} => hurt[c] = {} /\ ~Marks(commentProc[p], c),
         commentSpent' \in [{"commands", "faults", "foreign"} -> Nat]
  PROVE  CommentsInv'
<1>1. \A c \in Texts : hurt'[c] # {} \/ Whole(c, pending, commentProc', posts)
  <2>1. SUFFICES ASSUME NEW c \in Texts, hurt'[c] = {}  PROVE Whole(c, pending, commentProc', posts)
    OBVIOUS
  <2>2. hurt[c] = {} /\ ~Marks(commentProc[p], c) /\ ~Held(CommentIdle, c) /\ posts' = posts /\ pending' = pending
    BY <2>1, IdleFacts
  <2>3. Whole(c, pending', commentProc', posts')
    BY <2>2, WholesKept
  <2> QED
    BY <2>2, <2>3
<1>2. /\ CommentIdle \in CommandState /\ Todo(CommentIdle) /\ AnswerNumbered(CommentIdle, posts)
      /\ Mirrored(CommentIdle, issue, remote, synced) /\ CommentIdle.fetched = {}
  BY IdleFacts
<1>3. Numbered(CommentIdle.fetched, posts)
  BY <1>2 DEF Numbered
<1> QED
  BY <1>1, <1>2, <1>3, GoesKeeps

\* A mark refused by a vanished row leaves the rows alone.
LEMMA PushMarkRefusedKeeps ==
  ASSUME CommentsInv, NEW p \in CommentProcs, PushMarkRefused(p)
  PROVE  CommentsInv'
<1> DEFINE o == commentProc[p]
<1>1. /\ CommentGoes(p, CommentIdle) /\ UNCHANGED <<pending, synced, issue, remote, posts, commentSpent>>
      /\ hurt' = [hurt EXCEPT ![Head(o.todo)] = @ \cup {"refused"}]
  BY DEF PushMarkRefused
<1>2. /\ hurt \in [Texts -> SUBSET {"raced", "refused", "crash"}]
      /\ commentSpent' \in [{"commands", "faults", "foreign"} -> Nat]
  BY <1>1 DEF CommentsInv, CommentTypes
<1>3. hurt' \in [Texts -> SUBSET {"raced", "refused", "crash"}]
  BY <1>1, <1>2
<1>4. \A c \in Texts : hurt'[c] = {} => hurt[c] = {} /\ ~Marks(commentProc[p], c)
  BY <1>1, <1>2 DEF Marks
<1> QED
  BY <1>1, <1>2, <1>3, <1>4, GoesToRest

\* A push that is through holds nothing.
LEMMA PushEndsKeeps ==
  ASSUME CommentsInv, NEW p \in CommentProcs, PushEnds(p)
  PROVE  CommentsInv'
<1>1. /\ commentProc[p].pc = "post" /\ CommentGoes(p, CommentIdle)
      /\ UNCHANGED <<pending, synced, issue, remote, posts, hurt, commentSpent>>
  BY DEF PushEnds, CommentAt
<1>2. /\ hurt' \in [Texts -> SUBSET {"raced", "refused", "crash"}]
      /\ commentSpent' \in [{"commands", "faults", "foreign"} -> Nat]
  BY <1>1 DEF CommentsInv, CommentTypes
<1>3. \A c \in Texts : hurt'[c] = {} => hurt[c] = {} /\ ~Marks(commentProc[p], c)
  BY <1>1 DEF Marks
<1> QED
  BY <1>1, <1>2, <1>3, GoesToRest

\* A pull that is through holds nothing.
LEMMA PullEndsKeeps ==
  ASSUME CommentsInv, NEW p \in CommentProcs, PullEnds(p)
  PROVE  CommentsInv'
<1>1. /\ commentProc[p].pc = "replaced" /\ CommentGoes(p, CommentIdle)
      /\ UNCHANGED <<pending, synced, issue, remote, posts, hurt, commentSpent>>
  BY DEF PullEnds, CommentAt
<1>2. /\ hurt' \in [Texts -> SUBSET {"raced", "refused", "crash"}]
      /\ commentSpent' \in [{"commands", "faults", "foreign"} -> Nat]
  BY <1>1 DEF CommentsInv, CommentTypes
<1>3. \A c \in Texts : hurt'[c] = {} => hurt[c] = {} /\ ~Marks(commentProc[p], c)
  BY <1>1 DEF Marks
<1> QED
  BY <1>1, <1>2, <1>3, GoesToRest

\* A command that dies holds nothing; a post it did not mark is a gap in the record.
LEMMA CommandFailsKeeps ==
  ASSUME CommentsInv, NEW p \in CommentProcs, CommandFails(p)
  PROVE  CommentsInv'
<1> DEFINE o == commentProc[p]
<1>1. /\ CommentSpend("faults") /\ CommentGoes(p, CommentIdle)
      /\ UNCHANGED <<pending, synced, issue, remote, posts>>
      /\ hurt' = IF o.pc = "mark" THEN [hurt EXCEPT ![Head(o.todo)] = @ \cup {"crash"}] ELSE hurt
  BY DEF CommandFails, CommentAt
<1>2. hurt \in [Texts -> SUBSET {"raced", "refused", "crash"}] /\ CommentTypes
  BY DEF CommentsInv, CommentTypes
<1>3. commentSpent' \in [{"commands", "faults", "foreign"} -> Nat]
  BY <1>1, <1>2, CommentSpendKeeps
<1>4. hurt' \in [Texts -> SUBSET {"raced", "refused", "crash"}]
  BY <1>1, <1>2
<1>5. \A c \in Texts : hurt'[c] = {} => hurt[c] = {} /\ ~Marks(commentProc[p], c)
  BY <1>1, <1>2 DEF Marks
<1> QED
  BY <1>1, <1>3, <1>4, <1>5, GoesToRest

\* A command that starts without rows to post.
LEMMA MirroringStarts ==
  ASSUME CommentsInv, NEW p \in CommentProcs, commentProc[p].pc = "idle", CommentSpend("commands"),
         NEW pc \in {"fetch", "save"}, NEW op \in {"pull", "link"}, NEW on \in CommentIssues,
         NEW quiet \in BOOLEAN, CommentGoes(p, Mirroring(pc, op, on, {}, quiet)),
         quiet => pc = "fetch" /\ (op # "link" => issue = on),
         UNCHANGED <<pending, synced, issue, remote, posts, hurt>>
  PROVE  CommentsInv'
<1> DEFINE r == Mirroring(pc, op, on, {}, quiet)
<1>1. CommentGoes(p, r)
  OBVIOUS
<1>2. /\ r \in CommandState /\ Todo(r) /\ r.pc = pc /\ r.op = op /\ r.on = on /\ r.quiet = quiet
      /\ r.fetched = {} /\ \A c : ~Held(r, c)
      /\ \A n : AnswerNumbered(r, n)
  <2>1. r = Mirroring(pc, op, on, {}, quiet)
    OBVIOUS
  <2> HIDE DEF r
  <2>2. r \in CommandState /\ Todo(r) /\ r.pc = pc /\ r.op = op /\ r.on = on /\ r.fetched = {}
    BY <2>1, MirroringFacts
  <2>3. r.quiet = quiet
    BY <2>1 DEF Mirroring
  <2>4. \A c : ~Held(r, c)
    BY <2>1, MirroringFacts
  <2>5. \A n : AnswerNumbered(r, n)
    BY <2>1, MirroringFacts
  <2> QED
    BY <2>2, <2>3, <2>4, <2>5, Zenon
<1> HIDE DEF r
<1>3. Numbered(r.fetched, posts)
  BY <1>2 DEF Numbered
<1>4. Mirrored(r, issue, remote, synced)
  BY <1>2 DEF Mirrored
<1>5. CommentTypes
  BY DEF CommentsInv
<1>6. commentSpent' \in [{"commands", "faults", "foreign"} -> Nat]
  BY <1>5, CommentSpendKeeps
<1>7. \A c \in Texts : hurt[c] = {} => Whole(c, pending', commentProc', posts')
  <2>1. \A c : ~Held(r, c) /\ ~Marks(commentProc[p], c)
    BY <1>2 DEF Marks
  <2>2. SUFFICES ASSUME NEW c \in Texts, hurt[c] = {}  PROVE Whole(c, pending', commentProc', posts')
    OBVIOUS
  <2> QED
    BY <1>1, <2>1, <2>2, WholesKept
<1>8. /\ hurt' \in [Texts -> SUBSET {"raced", "refused", "crash"}]
      /\ \A c \in Texts : hurt'[c] # {} \/ Whole(c, pending, commentProc', posts)
  BY <1>7, HurtKept
<1>9. AnswerNumbered(r, posts)
  BY <1>2
<1> QED
  BY <1>1, <1>2, <1>3, <1>4, <1>6, <1>8, <1>9, GoesKeeps

\* A pull holds the issue it read.
LEMMA PullReadsKeeps ==
  ASSUME CommentsInv, NEW p \in CommentProcs, PullReads(p)
  PROVE  CommentsInv'
<1>1. /\ commentProc[p].pc = "idle" /\ CommentSpend("commands")
      /\ CommentGoes(p, Mirroring("fetch", "pull", issue, {}, TRUE))
      /\ UNCHANGED <<pending, synced, issue, remote, posts, hurt>>
  BY DEF PullReads, CommentAt
<1>2. /\ issue \in CommentIssues /\ "fetch" \in {"fetch", "save"} /\ "pull" \in {"pull", "link"}
      /\ TRUE \in BOOLEAN /\ (TRUE => "fetch" = "fetch" /\ ("pull" # "link" => issue = issue))
  BY DEF CommentsInv, CommentTypes
<1> QED
  BY <1>1, <1>2, MirroringStarts, Zenon

\* A link holds the issue it goes to.
LEMMA LinkReadsKeeps ==
  ASSUME CommentsInv, NEW p \in CommentProcs, NEW to \in CommentIssues, NEW relink \in BOOLEAN,
         LinkReads(p, to, relink)
  PROVE  CommentsInv'
<1> DEFINE pc == IF relink THEN "fetch" ELSE "save"
<1>1. /\ commentProc[p].pc = "idle" /\ CommentSpend("commands")
      /\ CommentGoes(p, Mirroring(pc, "link", to, {}, relink))
      /\ UNCHANGED <<pending, synced, issue, remote, posts, hurt>>
  BY DEF LinkReads, CommentAt
<1>2. /\ pc \in {"fetch", "save"} /\ (relink => pc = "fetch")
  OBVIOUS
<1> HIDE DEF pc
<1>3. /\ "link" \in {"pull", "link"} /\ (relink => pc = "fetch" /\ ("link" # "link" => issue = to))
  BY <1>2
<1> QED
  BY <1>1, <1>2, <1>3, MirroringStarts, Zenon

\* What is fetched was made by GitHub.
LEMMA FetchesKeeps ==
  ASSUME CommentsInv, NEW p \in CommentProcs, Fetches(p)
  PROVE  CommentsInv'
<1> DEFINE o == commentProc[p]
           pc == IF o.op = "link" THEN "save" ELSE "replace"
           r == [o EXCEPT !.pc = pc, !.fetched = On(o.on)]
<1>1. /\ o.pc = "fetch" /\ CommentGoes(p, r)
      /\ UNCHANGED <<pending, synced, issue, remote, posts, hurt, commentSpent>>
  BY DEF Fetches, CommentAt
<1>2. /\ o \in CommandState /\ Todo(o) /\ Mirrored(o, issue, remote, synced) /\ o = commentProc[p]
      /\ commentSpent' \in [{"commands", "faults", "foreign"} -> Nat]
      /\ remote \in SUBSET RemoteComment /\ Numbered(remote, posts)
  BY <1>1 DEF CommentsInv, CommentTypes
<1>3. On(o.on) \in SUBSET RemoteComment /\ Numbered(On(o.on), posts)
  BY <1>2 DEF On, Numbered
<1>4. pc \in {"save", "replace"} /\ (pc = "replace" => o.op # "link")
  OBVIOUS
<1> HIDE DEF o, pc
<1>5. /\ r \in CommandState /\ r.pc = pc /\ r.todo = o.todo /\ r.fetched = On(o.on) /\ r.on = o.on
      /\ r.quiet = o.quiet
  BY <1>2, <1>3, <1>4 DEF CommandState
<1> HIDE DEF r
<1>6. Todo(r) /\ AnswerNumbered(r, posts) /\ Numbered(r.fetched, posts)
  BY <1>1, <1>2, <1>3, <1>4, <1>5 DEF Todo, AnswerNumbered
<1>7. Mirrored(r, issue, remote, synced)
  BY <1>1, <1>2, <1>4, <1>5 DEF Mirrored, On
<1>8. \A c \in Texts : hurt[c] = {} => Whole(c, pending', commentProc', posts')
  <2>1. \A c : (Held(r, c) => Held(o, c)) /\ ~Marks(o, c)
    BY <1>1, <1>5 DEF Held, Marks
  <2> QED
    BY <1>1, <1>2, <2>1, WholesKept
<1>9. /\ hurt' \in [Texts -> SUBSET {"raced", "refused", "crash"}]
      /\ \A c \in Texts : hurt'[c] # {} \/ Whole(c, pending, commentProc', posts)
  BY <1>1, <1>8, HurtKept
<1> QED
  BY <1>1, <1>2, <1>5, <1>6, <1>7, <1>9, GoesKeeps

\* A step of a pull or link that changes what the others know, but no text.
LEMMA AloneWithoutTexts ==
  ASSUME CommentsInv, NEW p \in CommentProcs, NEW r \in CommandState, CommentGoesAlone(p, r),
         commentProc[p].pc \notin {"update", "post", "mark"}, r.todo = commentProc[p].todo,
         r.pc \notin {"update", "post", "mark"}, r.fetched = commentProc[p].fetched,
         UNCHANGED <<pending, posts, hurt, remote>>,
         synced' \in SUBSET RemoteComment, Numbered(synced', posts), issue' \in CommentIssues,
         Mirrored(r, issue', remote', synced'),
         commentSpent' \in [{"commands", "faults", "foreign"} -> Nat]
  PROVE  CommentsInv'
<1>1. /\ Todo(commentProc[p]) /\ Numbered(commentProc[p].fetched, posts) /\ Numbered(remote, posts)
      /\ pending \in Seq(Texts) /\ Apart(pending) /\ posts \in [Texts -> Nat]
      /\ remote \in SUBSET RemoteComment
  BY DEF CommentsInv, CommentTypes
<1>2. Todo(r) /\ AnswerNumbered(r, posts') /\ Numbered(r.fetched, posts')
  BY <1>1 DEF Todo, AnswerNumbered
<1>3. \A c \in Texts : hurt[c] = {} => Whole(c, pending', commentProc', posts')
  <2>1. \A c : (Held(r, c) => Held(commentProc[p], c)) /\ ~Marks(commentProc[p], c)
    BY DEF Held, Marks
  <2> QED
    BY <2>1, WholesKept
<1>4. /\ hurt' \in [Texts -> SUBSET {"raced", "refused", "crash"}]
      /\ \A c \in Texts : hurt'[c] # {} \/ Whole(c, pending', commentProc', posts')
  BY <1>3, HurtKept
<1>5. /\ pending' \in Seq(Texts) /\ Apart(pending') /\ remote' \in SUBSET RemoteComment
      /\ posts' \in [Texts -> Nat] /\ Numbered(synced', posts') /\ Numbered(remote', posts')
  BY <1>1
<1>6. \A c \in Texts : posts[c] <= posts'[c]
  BY <1>1
<1> QED
  BY <1>2, <1>4, <1>5, <1>6, AloneKeeps

\* A link changes the issue under the other commands.
LEMMA LinkSavesKeeps ==
  ASSUME CommentsInv, NEW p \in CommentProcs, LinkSaves(p)
  PROVE  CommentsInv'
<1> DEFINE o == commentProc[p]
           r == [o EXCEPT !.pc = "replace"]
<1>1. /\ o.pc = "save" /\ issue' = o.on /\ CommentGoesAlone(p, r)
      /\ UNCHANGED <<pending, synced, remote, posts, hurt, commentSpent>>
  BY DEF LinkSaves, CommentAt
<1>2. /\ o \in CommandState /\ o.on \in CommentIssues /\ Mirrored(o, issue, remote, synced)
      /\ o = commentProc[p]
      /\ commentSpent' \in [{"commands", "faults", "foreign"} -> Nat]
      /\ synced' \in SUBSET RemoteComment /\ Numbered(synced', posts)
  BY <1>1 DEF CommentsInv, CommentTypes, CommandState
<1> HIDE DEF o
<1>3. /\ r \in CommandState /\ r.pc = "replace" /\ r.todo = o.todo /\ r.fetched = o.fetched /\ r.on = o.on
      /\ r.quiet = o.quiet
  BY <1>2 DEF CommandState
<1> HIDE DEF r
<1>4. Mirrored(r, issue', remote', synced')
  BY <1>1, <1>2, <1>3 DEF Mirrored
<1>5. issue' \in CommentIssues /\ commentProc[p].pc \notin {"update", "post", "mark"}
      /\ r.pc \notin {"update", "post", "mark"}
  BY <1>1, <1>2, <1>3
<1> QED
  BY <1>1, <1>2, <1>3, <1>4, <1>5, AloneWithoutTexts

\* Rows replaced while nothing disturbed the pull are those of the issue.
LEMMA ReplacesKeeps ==
  ASSUME CommentsInv, NEW p \in CommentProcs, Replaces(p)
  PROVE  CommentsInv'
<1> DEFINE o == commentProc[p]
           r == [o EXCEPT !.pc = "replaced"]
<1>1. /\ o.pc = "replace" /\ synced' = o.fetched /\ CommentGoesAlone(p, r)
      /\ UNCHANGED <<pending, issue, remote, posts, hurt, commentSpent>>
  BY DEF Replaces, ReplaceComments, CommentAt
<1>2. /\ o \in CommandState /\ o.fetched \in SUBSET RemoteComment /\ Numbered(o.fetched, posts)
      /\ Mirrored(o, issue, remote, synced) /\ o = commentProc[p]
      /\ commentSpent' \in [{"commands", "faults", "foreign"} -> Nat] /\ issue' \in CommentIssues
  BY <1>1 DEF CommentsInv, CommentTypes, CommandState
<1> HIDE DEF o
<1>3. /\ r \in CommandState /\ r.pc = "replaced" /\ r.todo = o.todo /\ r.fetched = o.fetched /\ r.on = o.on
      /\ r.quiet = o.quiet
  BY <1>2 DEF CommandState
<1> HIDE DEF r
<1>4. Mirrored(r, issue', remote', synced')
  BY <1>1, <1>2, <1>3 DEF Mirrored
<1>5. /\ synced' \in SUBSET RemoteComment /\ Numbered(synced', posts)
      /\ commentProc[p].pc \notin {"update", "post", "mark"} /\ r.pc \notin {"update", "post", "mark"}
  BY <1>1, <1>2, <1>3
<1> QED
  BY <1>1, <1>2, <1>3, <1>4, <1>5, AloneWithoutTexts

\* A lost answer is a gap in the record of its comment.
LEMMA AnswerLostKeeps ==
  ASSUME CommentsInv, NEW p \in CommentProcs, AnswerLost(p)
  PROVE  CommentsInv'
<1> DEFINE o == commentProc[p]
           c == Head(o.todo)
<1>1. /\ o.pc = "post" /\ o.todo # <<>> /\ CommentSpend("faults") /\ CreateComment(c, o.on)
      /\ CommentGoesAlone(p, CommentIdle) /\ hurt' = [hurt EXCEPT ![c] = @ \cup {"crash"}]
      /\ UNCHANGED <<pending, synced, issue>>
  BY DEF AnswerLost, CommentAt
<1>2. /\ o.on \in CommentIssues /\ o = commentProc[p] /\ CommentTypes
      /\ hurt \in [Texts -> SUBSET {"raced", "refused", "crash"}]
      /\ pending' \in Seq(Texts) /\ Apart(pending') /\ synced' \in SUBSET RemoteComment
      /\ issue' \in CommentIssues
  BY <1>1 DEF CommentsInv, CommentTypes, CommandState
<1>3. c \in Texts
  BY <1>1, FirstPost
<1> HIDE DEF o, c
<1>4. /\ remote' \in SUBSET RemoteComment /\ posts' \in [Texts -> Nat]
      /\ \A d \in Texts : posts[d] <= posts'[d] /\ (d # c => posts'[d] = posts[d])
      /\ Numbered(remote', posts') /\ Numbered(synced, posts')
  BY <1>1, <1>2, <1>3, CreateFacts
<1>5. commentSpent' \in [{"commands", "faults", "foreign"} -> Nat]
  BY <1>1, <1>2, CommentSpendKeeps
<1>6. hurt' \in [Texts -> SUBSET {"raced", "refused", "crash"}] /\ hurt'[c] # {}
  BY <1>1, <1>2, <1>3
<1>7. ASSUME NEW d \in Texts, hurt'[d] = {}  PROVE Whole(d, pending', commentProc', posts')
  <2>1. d # c /\ hurt[d] = {}
    BY <1>1, <1>2, <1>3, <1>6, <1>7
  <2>2. posts'[d] = posts[d] /\ pending' = pending /\ ~Held(CommentIdle, d) /\ ~Marks(commentProc[p], d)
    BY <1>1, <1>2, <1>4, <2>1, IdleFacts DEF Marks
  <2> QED
    BY <1>1, <2>1, <2>2, WholesKept
<1>8. /\ CommentIdle \in CommandState /\ Todo(CommentIdle) /\ AnswerNumbered(CommentIdle, posts')
      /\ Mirrored(CommentIdle, issue', remote', synced') /\ CommentIdle.fetched = {}
  BY IdleFacts
<1>9. Numbered(CommentIdle.fetched, posts') /\ Numbered(synced', posts')
  BY <1>1, <1>4, <1>8 DEF Numbered
<1> QED
  BY <1>1, <1>2, <1>4, <1>5, <1>6, <1>7, <1>8, <1>9, AloneKeeps

\* A change by someone else disturbs the fetches under way.
LEMMA ForeignChangeKeeps ==
  ASSUME CommentsInv, ForeignChange
  PROVE  CommentsInv'
<1>1. /\ CommentSpend("foreign") /\ UNCHANGED <<pending, synced, issue, posts, hurt>>
      /\ commentProc' = [q \in CommentProcs |-> [commentProc[q] EXCEPT !.quiet = FALSE]]
  BY DEF ForeignChange
<1>2. CommentTypes /\ remote \in SUBSET RemoteComment /\ Numbered(remote, posts) /\ issue \in CommentIssues
      /\ commentSpent \in [{"commands", "faults", "foreign"} -> Nat]
  BY DEF CommentsInv, CommentTypes
<1>3. remote' \in SUBSET RemoteComment /\ Numbered(remote', posts)
  <2>1. CASE \E r \in remote : remote' = remote \ {r}
    BY <1>2, <2>1 DEF Numbered
  <2>2. CASE remote' = remote \cup {[on |-> issue, of |-> Foreign, no |-> commentSpent.foreign]}
    <3>1. commentSpent.foreign \in Nat
      BY <1>2
    <3>2. [on |-> issue, of |-> Foreign, no |-> commentSpent.foreign] \in RemoteComment
      BY <1>2, <3>1 DEF RemoteComment
    <3> QED
      BY <1>2, <2>2, <3>2 DEF Numbered
  <2> QED
    BY <2>1, <2>2 DEF ForeignChange
<1>4. commentSpent' \in [{"commands", "faults", "foreign"} -> Nat]
  BY <1>1, <1>2, CommentSpendKeeps
<1>5. \A q \in CommentProcs :
        LET d == commentProc'[q]  o == commentProc[q]
        IN /\ o \in CommandState /\ d \in CommandState /\ d.pc = o.pc /\ d.op = o.op /\ d.todo = o.todo
           /\ d.on = o.on /\ d.no = o.no /\ d.fetched = o.fetched /\ d.quiet = FALSE
  <2>1. \A q \in CommentProcs : commentProc[q] \in CommandState
    BY <1>2 DEF CommentTypes
  <2>2. \A q \in CommentProcs : commentProc'[q] = [commentProc[q] EXCEPT !.quiet = FALSE]
    BY <1>1
  <2>3. SUFFICES ASSUME NEW q \in CommentProcs
        PROVE  LET d == commentProc'[q]  o == commentProc[q]
               IN /\ o \in CommandState /\ d \in CommandState /\ d.pc = o.pc /\ d.op = o.op
                  /\ d.todo = o.todo /\ d.on = o.on /\ d.no = o.no /\ d.fetched = o.fetched
                  /\ d.quiet = FALSE
    OBVIOUS
  <2>4. commentProc[q] \in CommandState /\ commentProc'[q] = [commentProc[q] EXCEPT !.quiet = FALSE]
    BY <2>1, <2>2
  <2> QED
    BY <2>4, DisturbedFacts
<1>6. commentProc' \in [CommentProcs -> CommandState]
  BY <1>1, <1>5
<1>7. \A q \in CommentProcs :
        /\ Todo(commentProc'[q]) /\ AnswerNumbered(commentProc'[q], posts)
        /\ Numbered(commentProc'[q].fetched, posts)
        /\ Mirrored(commentProc'[q], issue', remote', synced')
  <2>1. SUFFICES ASSUME NEW q \in CommentProcs
        PROVE /\ Todo(commentProc'[q]) /\ AnswerNumbered(commentProc'[q], posts)
              /\ Numbered(commentProc'[q].fetched, posts)
              /\ Mirrored(commentProc'[q], issue', remote', synced')
    OBVIOUS
  <2>2. /\ Todo(commentProc[q]) /\ AnswerNumbered(commentProc[q], posts)
        /\ Numbered(commentProc[q].fetched, posts)
    BY DEF CommentsInv
  <2> QED
    BY <1>5, <2>2 DEF Todo, AnswerNumbered, Mirrored
<1>8. ASSUME NEW c \in Texts, hurt[c] = {}  PROVE Whole(c, pending, commentProc', posts)
  <2>1. Whole(c, pending, commentProc, posts)
    BY <1>8 DEF CommentsInv
  <2>2. /\ \A q \in CommentProcs : Held(commentProc'[q], c) => Held(commentProc[q], c)
        /\ \A q \in CommentProcs : Marks(commentProc[q], c) => Marks(commentProc'[q], c)
    BY <1>5 DEF Held, Marks
  <2> QED
    BY <2>1, <2>2, WholeKept
<1>9. CommentTypes'
  BY <1>1, <1>2, <1>3, <1>4, <1>6 DEF CommentTypes
<1> QED
  BY <1>1, <1>3, <1>7, <1>8, <1>9 DEF CommentsInv

\* At the start nothing is pending, synced or posted.
LEMMA CommentsInvInit == CommentsInit => CommentsInv
<1> SUFFICES ASSUME CommentsInit  PROVE CommentsInv
  OBVIOUS
<1>1. /\ CommentIdle \in CommandState /\ Todo(CommentIdle) /\ CommentIdle.fetched = {}
      /\ \A c : ~Held(CommentIdle, c)
      /\ AnswerNumbered(CommentIdle, posts) /\ Mirrored(CommentIdle, issue, remote, synced)
  BY IdleFacts
<1>2. \A p \in CommentProcs : commentProc[p] = CommentIdle
  BY DEF CommentsInit
<1>3. CommentTypes
  <2>1. <<>> \in Seq(Texts)
    OBVIOUS
  <2>2. [commands |-> 0, faults |-> 0, foreign |-> 0] \in [{"commands", "faults", "foreign"} -> Nat]
    OBVIOUS
  <2> QED
    BY <1>1, <2>1, <2>2 DEF CommentsInit, CommentTypes
<1>4. \A c \in Texts : Whole(c, pending, commentProc, posts)
  BY <1>1, <1>2 DEF CommentsInit, Whole
<1>5. Apart(pending) /\ Numbered(synced, posts) /\ Numbered(remote, posts) /\ Numbered({}, posts)
  BY DEF CommentsInit, Apart, Numbered
<1> QED
  BY <1>1, <1>2, <1>3, <1>4, <1>5 DEF CommentsInv

\* Every step keeps the invariant.
LEMMA CommentsInvStep == CommentsInv /\ [CommentsNext]_commentVars => CommentsInv'
<1> SUFFICES ASSUME CommentsInv, [CommentsNext]_commentVars  PROVE CommentsInv'
  OBVIOUS
<1>1. CASE UNCHANGED commentVars
  BY <1>1 DEF commentVars, CommentsInv, CommentTypes, Whole
<1>2. ASSUME NEW c \in Texts, AddComment(c)  PROVE CommentsInv'
  BY <1>2, AddCommentKeeps
<1>3. ASSUME NEW p \in CommentProcs,
             \/ \E dirty \in BOOLEAN : PushReads(p, dirty)
             \/ PushUpdates(p) \/ PushPosts(p) \/ PushMarks(p) \/ PushMarkRefused(p) \/ PushEnds(p)
             \/ PullReads(p) \/ Fetches(p) \/ LinkSaves(p) \/ Replaces(p) \/ PullEnds(p)
             \/ \E to \in CommentIssues, relink \in BOOLEAN : LinkReads(p, to, relink)
             \/ CommandFails(p) \/ AnswerLost(p)
      PROVE  CommentsInv'
  <2>1. CASE \E dirty \in BOOLEAN : PushReads(p, dirty)
    BY <2>1, PushReadsKeeps, Zenon
  <2>2. CASE \E to \in CommentIssues, relink \in BOOLEAN : LinkReads(p, to, relink)
    BY <2>2, LinkReadsKeeps, Zenon
  <2> QED
    BY <1>3, <2>1, <2>2, PushUpdatesKeeps, PushPostsKeeps, PushMarksKeeps, PushMarkRefusedKeeps,
       PushEndsKeeps, PullReadsKeeps, FetchesKeeps, LinkSavesKeeps, ReplacesKeeps, PullEndsKeeps,
       CommandFailsKeeps, AnswerLostKeeps, Zenon
<1> QED
  BY <1>1, <1>2, <1>3, ForeignChangeKeeps, Zenon DEF CommentsNext

\* What the invariant says of the comments.
LEMMA CommentsInvSound == CommentsInv => CommentsAreSound
<1> SUFFICES ASSUME CommentsInv  PROVE CommentsAreSound
  OBVIOUS
<1>1. CommentsTypeOK
  BY DEF CommentsInv, CommentTypes, CommentsTypeOK, Apart, Numbered
<1>2. RepostsAreExplained
  <2>1. SUFFICES ASSUME NEW c \in Texts, posts[c] > 1, hurt[c] = {}  PROVE FALSE
    BY DEF RepostsAreExplained
  <2>2. posts[c] \in Nat /\ posts[c] <= 1
    BY <2>1 DEF CommentsInv, CommentTypes, Whole
  <2> QED
    BY <2>1, <2>2
<1>3. PullMirrors
  BY DEF CommentsInv, PullMirrors, CommentAt, Mirrored, On
<1> QED
  BY <1>1, <1>2, <1>3 DEF CommentsAreSound

(* The pending rows are texts without a repetition, a text is posted twice  *)
(* only after a gap in its own record, and an undisturbed pull or relink    *)
(* leaves the synced rows as the issue is (push_inner, pull_inner,          *)
(* link_task, replace_comments, mark_comments_pushed), for any number of    *)
(* texts, issues and processes and any number of faults.                    *)
THEOREM CommentsKeepSound == CommentsSpec => []CommentsAreSound
<1>1. CommentsSpec => []CommentsInv
  BY CommentsInvInit, CommentsInvStep, PTL DEF CommentsSpec
<1> QED
  BY <1>1, CommentsInvSound, PTL

(* A written comment stays pending until it was posted, whatever pulls,     *)
(* links and other pushes do to the rows (replace_comments,                 *)
(* mark_comments_pushed).                                                   *)
THEOREM WrittenCommentsStay == CommentsSpec => WrittenIsKept
<1>1. CommentsInv /\ [CommentsNext]_commentVars =>
        [\A c \in Texts : c \in ToSet(pending) => c \in ToSet(pending') \/ posts[c] > 0]_commentVars
  <2>1. SUFFICES ASSUME CommentsInv, CommentsNext, NEW c \in Texts, c \in ToSet(pending),
                        c \notin ToSet(pending')
                 PROVE  posts[c] > 0
    OBVIOUS
  <2>2. pending \in Seq(Texts) /\ Apart(pending)
    BY <2>1 DEF CommentsInv, CommentTypes
  <2>3. ASSUME NEW d \in Texts, AddComment(d)  PROVE FALSE
    <3>1. ToSet(pending') = ToSet(pending) \cup {d}
      BY <2>2, <2>3, AppendFacts DEF AddComment
    <3> QED
      BY <2>1, <3>1
  <2>4. ASSUME pending' = pending  PROVE FALSE
    BY <2>1, <2>4
  <2>5. ASSUME NEW p \in CommentProcs, PushMarks(p)  PROVE posts[c] > 0
    <3> DEFINE o == commentProc[p]
    <3>1. o.pc = "mark" /\ pending' = WithoutRow(pending, Head(o.todo))
      BY <2>5 DEF PushMarks, MarkCommentsPushed, CommentAt
    <3>2. ToSet(pending') = ToSet(pending) \ {Head(o.todo)}
      BY <2>2, <3>1, WithoutFacts
    <3>3. AnswerNumbered(o, posts) /\ o \in CommandState /\ posts \in [Texts -> Nat]
      BY <2>1 DEF CommentsInv, CommentTypes
    <3>4. c = Head(o.todo) /\ o.no \in Nat /\ posts[c] \in Nat
      BY <2>1, <3>2, <3>3 DEF CommandState
    <3>5. 1 <= o.no /\ o.no <= posts[c]
      BY <3>1, <3>3, <3>4 DEF AnswerNumbered
    <3> QED
      BY <3>4, <3>5
  <2> QED
    BY <2>1, <2>3, <2>4, <2>5 DEF CommentsNext, PushReads, PushUpdates, PushPosts, PushMarkRefused,
       PushEnds, PullReads, Fetches, LinkSaves, Replaces, ReplaceComments, PullEnds, LinkReads,
       CommandFails, AnswerLost, ForeignChange
<1>2. CommentsSpec => []CommentsInv
  BY CommentsInvInit, CommentsInvStep, PTL DEF CommentsSpec
<1> QED
  BY <1>1, <1>2, PTL DEF CommentsSpec, WrittenIsKept

-----------------------------------------------------------------------------
(***************************************************************************)
(* Relations: the invariant of commands that do not overlap.               *)
(***************************************************************************)

Entry == [task : Tasks, link : Links, add : BOOLEAN]
EdgeSets == SUBSET (Kinds \X Tasks)
Graphs == [Tasks -> SUBSET (Kinds \X Tasks)]
Writes == UNION {[D -> SUBSET (Kinds \X Tasks)] : D \in SUBSET Tasks}

(* What a command holds.                                                    *)
Place ==
  [pc : {"idle", "save", "promote", "content", "subs", "blockers", "parent"},
   t : Tasks \cup {Idle.t}, copy : SUBSET (Kinds \X Tasks), subs : SUBSET Issues,
   blockers : SUBSET Issues, write : Writes,
   entries : Seq(Entry), files : SUBSET Tasks]

RelationTypes ==
  /\ rel \in Graphs /\ filed \in SUBSET Tasks /\ links \in SUBSET Links /\ off \in SUBSET Links
  /\ outbox \in Seq(Entry) /\ backoff \in SUBSET Tasks
  /\ proc \in [Procs -> Place]
  /\ spent \in [DOMAIN Budgets -> Nat] /\ \A b \in DOMAIN Budgets : spent[b] <= Budgets[b]

(* A link that some edge of the graph states.                               *)
States(g, l) == \E t \in Tasks, k \in Kinds, o \in Tasks : <<k, o>> \in g[t] /\ l \in RelationLink(k, t, o)
Within(l, S) == l.a \in S /\ l.b \in S

(* Only legacy rows lack their reciprocal, and their links are not counted. *)
TwoSided(g, uncounted) ==
  \A t \in Tasks, k \in Kinds, o \in Tasks : <<k, o>> \in g[t] =>
    \/ <<InverseKind(k), t>> \in g[o]
    \/ <<t, k, o>> \in LegacyRows /\ RelationLink(k, t, o) \subseteq uncounted

(* The last mutation of a link in a queue.                                  *)
LastOf(q, i) == \A j \in DOMAIN q : j > i => q[j].link # q[i].link
In(q, l) == \E i \in DOMAIN q : q[i].link = l

(* Of a counted link between filed tasks, the last queued mutation is what   *)
(* the graph says, or GitHub says it where none is queued.                   *)
Agree(g, q, ls, isFiled, uncounted) ==
  \A l \in Links : l \notin uncounted /\ Within(l, isFiled) =>
    /\ \A i \in DOMAIN q : q[i].link = l /\ LastOf(q, i) => (q[i].add = TRUE <=> States(g, l))
    /\ In(q, l) \/ (l \in ls <=> States(g, l))

(* The graph as a command's save will leave it.                             *)
After(r, g) == [t \in Tasks |-> IF t \in DOMAIN r.write THEN r.write[t] ELSE g[t]]

(* A command at its save: its entries are what changes between filed tasks. *)
Ready(r, g, isFiled, uncounted) ==
  LET h == After(r, g)
  IN /\ h \in Graphs /\ TwoSided(h, uncounted)
     /\ \A i \in DOMAIN r.entries : /\ Within(r.entries[i].link, isFiled \cup r.files)
                                    /\ r.entries[i].add = TRUE <=> States(h, r.entries[i].link)
     /\ \A l \in Links : l \notin uncounted /\ Within(l, isFiled \cup r.files) /\ ~In(r.entries, l) =>
          IF Within(l, isFiled) THEN States(h, l) <=> States(g, l) ELSE ~States(h, l)

Fits(r, g, isFiled, uncounted) ==
  /\ r.pc = "save" => Ready(r, g, isFiled, uncounted)
  /\ r.pc = "promote" => r.t \in Tasks /\ r.t \notin isFiled /\ r.copy = g[r.t]
  /\ r.pc \in {"content", "subs", "blockers", "parent"} => r.t \in isFiled /\ r.copy = g[r.t]

RelationsInv ==
  /\ RelationTypes
  /\ TwoSided(rel, off)
  /\ Agree(rel, outbox, links, filed, off)
  /\ \A l \in links : Within(l, filed \cup Strangers)
  /\ \A i \in DOMAIN outbox : Within(outbox[i].link, filed)
  /\ \A p, q \in Procs : proc[p].pc # "idle" /\ proc[q].pc # "idle" => p = q
  /\ \A p \in Procs : Fits(proc[p], rel, filed, off)

\* The inverse of an inverse is the kind itself.
LEMMA KindFacts ==
  \A k \in Kinds : InverseKind(k) \in Kinds /\ InverseKind(InverseKind(k)) = k
BY DEF Kinds, InverseKind

\* The links of an edge, its reciprocal and their ends.
LEMMA LinkFacts ==
  ASSUME NEW k \in Kinds, NEW t \in Tasks, NEW o \in Tasks
  PROVE  /\ RelationLink(k, t, o) \subseteq Links
         /\ RelationLink(InverseKind(k), o, t) = RelationLink(k, t, o)
         /\ \A l \in RelationLink(k, t, o) : RelationLink(k, t, o) = {l}
         /\ \A l \in RelationLink(k, t, o) : {l.a, l.b} = {t, o}
<1>1. RelationLink(k, t, o) \subseteq Links
  BY DEF RelationLink, Links, Issues, Kinds
<1>2. RelationLink(InverseKind(k), o, t) = RelationLink(k, t, o)
  BY DEF RelationLink, InverseKind, Kinds
<1>3. \A l \in RelationLink(k, t, o) : RelationLink(k, t, o) = {l} /\ {l.a, l.b} = {t, o}
  BY DEF RelationLink, Kinds
<1> QED
  BY <1>1, <1>2, <1>3

\* Two edges of one link are the same edge or reciprocal.
LEMMA LinkOwners ==
  ASSUME NEW k \in Kinds, NEW t \in Tasks, NEW o \in Tasks,
         NEW j \in Kinds, NEW u \in Tasks, NEW v \in Tasks,
         NEW l, l \in RelationLink(k, t, o), l \in RelationLink(j, u, v)
  PROVE  \/ j = k /\ u = t /\ v = o
         \/ j = InverseKind(k) /\ u = o /\ v = t
BY DEF RelationLink, InverseKind, Kinds

\* The links a graph states, as the model's LocalLinks has them.
LEMMA StatesFacts ==
  ASSUME NEW g \in Graphs
  PROVE  /\ \A l : l \in LocalLinks(g) <=> States(g, l)
         /\ LocalLinks(g) \subseteq Links
<1>1. \A l : l \in LocalLinks(g) <=> \E t \in Tasks : \E e \in g[t] : l \in RelationLink(e[1], t, e[2])
  BY DEF LocalLinks
<1>2. \A t \in Tasks : \A e \in g[t] : e[1] \in Kinds /\ e[2] \in Tasks /\ e = <<e[1], e[2]>>
  BY DEF Graphs
<1>3. \A l : l \in LocalLinks(g) <=> States(g, l)
  BY <1>1, <1>2 DEF States
<1>4. LocalLinks(g) \subseteq Links
  BY <1>3, LinkFacts DEF States
<1> QED
  BY <1>3, <1>4

\* The sequence of a finite set has its elements and no others.
LEMMA SetToSeqFacts ==
  ASSUME NEW S, IsFiniteSet(S)
  PROVE  /\ SetToSeq(S) \in Seq(S)
         /\ \A x \in S : \E i \in DOMAIN SetToSeq(S) : SetToSeq(S)[i] = x
<1> DEFINE n == Cardinality(S)
           q == SetToSeq(S)
<1>1. n \in Nat /\ ExistsBijection(1..n, S)
  BY FS_CardinalityType
<1>2. \E f \in [1..n -> S] : IsInjective(f)
  BY <1>1 DEF ExistsBijection, Bijection, Injection
<1>3. q \in [1..n -> S] /\ IsInjective(q)
  BY <1>2 DEF SetToSeq
<1> HIDE DEF q
<1>4. q \in Injection(1..n, S)
  BY <1>3 DEF Injection
<1>5. Cardinality(1..n) = n
  BY <1>1, FS_Interval
<1> HIDE DEF n
<1>6. q \in Surjection(1..n, S)
  BY <1>4, <1>5, FS_Injection DEF n
<1>7. \A x \in S : \E i \in 1..n : q[i] = x
  BY <1>6 DEF Surjection
<1>8. q \in Seq(S) /\ DOMAIN q = 1..n
  BY <1>1, <1>3
<1> QED
  BY <1>7, <1>8 DEF q

(* The entries of a command: one for every link of its edges between filed tasks. *)
Plans(q, t, pairs, add, isFiled) ==
  /\ q \in Seq(Entry)
  /\ \A i \in DOMAIN q : /\ q[i].add = add
                         /\ \E k \in Kinds, o \in Tasks :
                              /\ <<k, o>> \in pairs /\ t \in isFiled /\ o \in isFiled
                              /\ q[i].link \in RelationLink(k, t, o)
  /\ \A k \in Kinds, o \in Tasks, l \in Links :
       <<k, o>> \in pairs /\ t \in isFiled /\ o \in isFiled /\ l \in RelationLink(k, t, o) => In(q, l)

\* A plan is what PlanRelationEntries returns.
LEMMA PlanFacts ==
  ASSUME NEW t \in Tasks, NEW pairs \in EdgeSets, NEW add \in BOOLEAN,
         NEW isFiled \in SUBSET Tasks, NEW q, q = PlanRelationEntries(t, pairs, add, isFiled)
  PROVE  Plans(q, t, pairs, add, isFiled)
<1> USE DEF EdgeSets
<1> DEFINE planned == {e \in pairs : {t, e[2]} \subseteq isFiled}
           L == UNION {RelationLink(e[1], t, e[2]) : e \in planned}
           T == {[task |-> t, link |-> l, add |-> add] : l \in L}
<1>1. q = SetToSeq(T)
  BY DEF PlanRelationEntries
<1>2. \A e \in planned : /\ e[1] \in Kinds /\ e[2] \in Tasks /\ e = <<e[1], e[2]>>
                         /\ t \in isFiled /\ e[2] \in isFiled /\ e \in pairs
  OBVIOUS
<1>3. \A k \in Kinds, o \in Tasks : <<k, o>> \in pairs /\ t \in isFiled /\ o \in isFiled => <<k, o>> \in planned
  OBVIOUS
<1>4. IsFiniteSet(planned)
  <2>1. IsFiniteSet(Kinds)
    <3>1. IsFiniteSet({"BlockedBy"}) /\ IsFiniteSet({"Blocks"}) /\ IsFiniteSet({"ChildOf"})
          /\ IsFiniteSet({"ParentOf"}) /\ IsFiniteSet({"RelatedTo"}) /\ IsFiniteSet({"Duplicates"})
      BY FS_Singleton
    <3>2. IsFiniteSet({"BlockedBy"} \cup {"Blocks"}) /\ IsFiniteSet({"ChildOf"} \cup {"ParentOf"})
          /\ IsFiniteSet({"RelatedTo"} \cup {"Duplicates"})
      BY <3>1, FS_Union
    <3>3. IsFiniteSet(({"BlockedBy"} \cup {"Blocks"}) \cup ({"ChildOf"} \cup {"ParentOf"}))
      BY <3>2, FS_Union
    <3>4. IsFiniteSet((({"BlockedBy"} \cup {"Blocks"}) \cup ({"ChildOf"} \cup {"ParentOf"}))
                      \cup ({"RelatedTo"} \cup {"Duplicates"}))
      BY <3>2, <3>3, FS_Union
    <3>5. Kinds = (({"BlockedBy"} \cup {"Blocks"}) \cup ({"ChildOf"} \cup {"ParentOf"}))
                  \cup ({"RelatedTo"} \cup {"Duplicates"})
      BY DEF Kinds
    <3> QED
      BY <3>4, <3>5
  <2>2. IsFiniteSet(Kinds \X Tasks)
    BY <2>1, FS_Product, RelationsAssumption
  <2>3. planned \subseteq Kinds \X Tasks
    OBVIOUS
  <2> QED
    BY <2>2, <2>3, FS_Subset
<1> HIDE DEF planned
<1>5. \A l \in L : \E e \in planned : l \in RelationLink(e[1], t, e[2]) /\ RelationLink(e[1], t, e[2]) = {l}
  BY <1>2, LinkFacts
<1>6. IsFiniteSet(T)
  <2> DEFINE P == {e \in planned : RelationLink(e[1], t, e[2]) # {}}
             one(e) == [task |-> t, link |-> CHOOSE l \in RelationLink(e[1], t, e[2]) : TRUE, add |-> add]
             f == [e \in P |-> one(e)]
  <2>1. IsFiniteSet(P)
    BY <1>4, FS_Subset
  <2>2. \A e \in P : \E l \in L : l \in RelationLink(e[1], t, e[2]) /\ RelationLink(e[1], t, e[2]) = {l}
    BY <1>2, LinkFacts
  <2>3. \A e \in P : f[e] \in T
    BY <2>2
  <2>4. f \in [P -> T]
    BY <2>3
  <2>5. \A x \in T : \E e \in P : f[e] = x
    <3>1. SUFFICES ASSUME NEW l \in L
                   PROVE  \E e \in P : f[e] = [task |-> t, link |-> l, add |-> add]
      OBVIOUS
    <3>2. PICK e \in planned : l \in RelationLink(e[1], t, e[2]) /\ RelationLink(e[1], t, e[2]) = {l}
      BY <1>5
    <3>3. e \in P /\ (CHOOSE m \in RelationLink(e[1], t, e[2]) : TRUE) = l
      BY <3>2
    <3> QED
      BY <3>3
  <2>6. f \in Surjection(P, T)
    BY <2>4, <2>5 DEF Surjection
  <2> QED
    BY <2>1, <2>6, FS_Surjection
<1>7. T \subseteq Entry
  <2>1. L \subseteq Links
    BY <1>2, LinkFacts
  <2> QED
    BY <2>1 DEF Entry
<1> DEFINE s == SetToSeq(T)
<1>8. s \in Seq(T) /\ \A x \in T : \E i \in DOMAIN s : s[i] = x
  BY <1>6, SetToSeqFacts
<1>9. \A x \in T : /\ x.add = add
                   /\ \E k \in Kinds, o \in Tasks :
                        /\ <<k, o>> \in pairs /\ t \in isFiled /\ o \in isFiled
                        /\ x.link \in RelationLink(k, t, o)
  BY <1>2
<1>10. ASSUME NEW k \in Kinds, NEW o \in Tasks, NEW l \in Links, <<k, o>> \in pairs, t \in isFiled,
              o \in isFiled, l \in RelationLink(k, t, o)
       PROVE  \E x \in T : x.link = l
  <2>1. <<k, o>> \in planned
    BY <1>3, <1>10
  <2>2. l \in L
    BY <1>10, <2>1
  <2>3. [task |-> t, link |-> l, add |-> add] \in T
    BY <2>2
  <2> QED
    BY <2>3
<1> HIDE DEF T, s
<1>11. s \in Seq(Entry) /\ \A i \in DOMAIN s : s[i] \in T
  BY <1>7, <1>8
<1>12. q = s
  BY <1>1 DEF s
<1>13. \A i \in DOMAIN s : /\ s[i].add = add
                           /\ \E k \in Kinds, o \in Tasks :
                                /\ <<k, o>> \in pairs /\ t \in isFiled /\ o \in isFiled
                                /\ s[i].link \in RelationLink(k, t, o)
  BY <1>9, <1>11, Zenon
<1>14. \A k \in Kinds, o \in Tasks, l \in Links :
         <<k, o>> \in pairs /\ t \in isFiled /\ o \in isFiled /\ l \in RelationLink(k, t, o) => In(s, l)
  <2>1. SUFFICES ASSUME NEW k \in Kinds, NEW o \in Tasks, NEW l \in Links, <<k, o>> \in pairs,
                        t \in isFiled, o \in isFiled, l \in RelationLink(k, t, o)
                 PROVE  In(s, l)
    OBVIOUS
  <2>2. PICK x \in T : x.link = l
    BY <1>10, <2>1
  <2>3. PICK i \in DOMAIN s : s[i] = x
    BY <1>8
  <2> QED
    BY <2>2, <2>3 DEF In
<1>15. Plans(s, t, pairs, add, isFiled)
  BY <1>11, <1>13, <1>14, Zenon DEF Plans
<1> QED
  BY <1>12, <1>15, Zenon

\* What the graph is once both halves of an edge are there.
LEMMA AddedFacts ==
  ASSUME NEW g \in Graphs, NEW t \in Tasks, NEW o \in Tasks, t # o, NEW k \in Kinds, NEW un,
         TwoSided(g, un), NEW h,
         h = [u \in Tasks |-> IF u = t THEN g[t] \cup {<<k, o>>}
                              ELSE IF u = o THEN g[o] \cup {<<InverseKind(k), t>>} ELSE g[u]]
  PROVE  /\ h \in Graphs /\ TwoSided(h, un)
         /\ \A l : States(h, l) <=> States(g, l) \/ l \in RelationLink(k, t, o)
<1> DEFINE b == InverseKind(k)
<1>1. b \in Kinds /\ InverseKind(b) = k
  BY KindFacts
<1>2. h \in Graphs
  BY <1>1 DEF Graphs
<1>3. \A u \in Tasks, j \in Kinds, v \in Tasks :
        <<j, v>> \in h[u] <=> \/ <<j, v>> \in g[u]
                              \/ u = t /\ j = k /\ v = o
                              \/ u = o /\ j = b /\ v = t
  OBVIOUS
<1>4. h[t] = g[t] \cup {<<k, o>>} /\ b = InverseKind(k)
  OBVIOUS
<1> HIDE DEF b
<1>5. TwoSided(h, un)
  <2>1. SUFFICES ASSUME NEW u \in Tasks, NEW j \in Kinds, NEW v \in Tasks, <<j, v>> \in h[u],
                        <<InverseKind(j), u>> \notin h[v]
                 PROVE  <<u, j, v>> \in LegacyRows /\ RelationLink(j, u, v) \subseteq un
    BY DEF TwoSided
  <2>2. InverseKind(j) \in Kinds
    BY KindFacts
  <2>3. <<j, v>> \in g[u] /\ <<InverseKind(j), u>> \notin g[v]
    BY <1>1, <1>3, <1>4, <2>1, <2>2
  <2> QED
    BY <2>3 DEF TwoSided
<1>6. ASSUME NEW l, States(h, l)  PROVE States(g, l) \/ l \in RelationLink(k, t, o)
  <2>1. PICK u \in Tasks, j \in Kinds, v \in Tasks : <<j, v>> \in h[u] /\ l \in RelationLink(j, u, v)
    BY <1>6 DEF States
  <2>2. CASE <<j, v>> \in g[u]
    BY <2>1, <2>2 DEF States
  <2>3. CASE u = t /\ j = k /\ v = o
    BY <2>1, <2>3
  <2>4. CASE u = o /\ j = b /\ v = t
    BY <1>4, <2>1, <2>4, LinkFacts
  <2> QED
    BY <1>3, <2>1, <2>2, <2>3, <2>4
<1>7. ASSUME NEW l, l \in RelationLink(k, t, o)  PROVE States(h, l)
  BY <1>3, <1>7 DEF States
<1>8. ASSUME NEW l, States(g, l)  PROVE States(h, l)
  <2>1. PICK u \in Tasks, j \in Kinds, v \in Tasks : <<j, v>> \in g[u] /\ l \in RelationLink(j, u, v)
    BY <1>8 DEF States
  <2>2. <<j, v>> \in h[u]
    BY <1>3, <2>1
  <2> QED
    BY <2>1, <2>2 DEF States
<1> QED
  BY <1>2, <1>5, <1>6, <1>7, <1>8

\* What the graph is once both halves of an edge are gone.
LEMMA RemovedFacts ==
  ASSUME NEW g \in Graphs, NEW t \in Tasks, NEW o \in Tasks, t # o, NEW k \in Kinds, NEW un,
         TwoSided(g, un), NEW h,
         h = [u \in Tasks |-> IF u = t THEN g[t] \ {<<k, o>>}
                              ELSE IF u = o THEN g[o] \ {<<InverseKind(k), t>>} ELSE g[u]]
  PROVE  /\ h \in Graphs /\ TwoSided(h, un)
         /\ \A l : States(h, l) <=> States(g, l) /\ l \notin RelationLink(k, t, o)
<1> DEFINE b == InverseKind(k)
<1>1. b \in Kinds /\ InverseKind(b) = k
  BY KindFacts
<1>2. h \in Graphs
  BY DEF Graphs
<1>3. \A u \in Tasks, j \in Kinds, v \in Tasks :
        <<j, v>> \in h[u] <=> /\ <<j, v>> \in g[u]
                              /\ ~(u = t /\ j = k /\ v = o)
                              /\ ~(u = o /\ j = b /\ v = t)
  OBVIOUS
<1>4. b = InverseKind(k)
  OBVIOUS
<1> HIDE DEF b
<1>5. TwoSided(h, un)
  <2>1. SUFFICES ASSUME NEW u \in Tasks, NEW j \in Kinds, NEW v \in Tasks, <<j, v>> \in h[u],
                        <<InverseKind(j), u>> \notin h[v]
                 PROVE  <<u, j, v>> \in LegacyRows /\ RelationLink(j, u, v) \subseteq un
    BY DEF TwoSided
  <2>2. InverseKind(j) \in Kinds /\ InverseKind(InverseKind(j)) = j
    BY KindFacts
  <2>3. <<j, v>> \in g[u] /\ ~(u = t /\ j = k /\ v = o) /\ ~(u = o /\ j = b /\ v = t)
    BY <1>3, <2>1
  <2>4. <<InverseKind(j), u>> \notin g[v]
    <3>1. SUFFICES ASSUME <<InverseKind(j), u>> \in g[v]  PROVE FALSE
      OBVIOUS
    <3>2. \/ v = t /\ InverseKind(j) = k /\ u = o
          \/ v = o /\ InverseKind(j) = b /\ u = t
      BY <1>3, <2>1, <2>2, <3>1
    <3> QED
      BY <1>1, <1>4, <2>2, <2>3, <3>2
  <2> QED
    BY <2>3, <2>4 DEF TwoSided
<1>6. ASSUME NEW l, States(h, l)  PROVE States(g, l) /\ l \notin RelationLink(k, t, o)
  <2>1. PICK u \in Tasks, j \in Kinds, v \in Tasks : <<j, v>> \in h[u] /\ l \in RelationLink(j, u, v)
    BY <1>6 DEF States
  <2>2. <<j, v>> \in g[u] /\ ~(u = t /\ j = k /\ v = o) /\ ~(u = o /\ j = b /\ v = t)
    BY <1>3, <2>1
  <2>3. l \notin RelationLink(k, t, o)
    BY <1>4, <2>1, <2>2, LinkOwners
  <2> QED
    BY <2>1, <2>2, <2>3 DEF States
<1>7. ASSUME NEW l, States(g, l), l \notin RelationLink(k, t, o)  PROVE States(h, l)
  <2>1. PICK u \in Tasks, j \in Kinds, v \in Tasks : <<j, v>> \in g[u] /\ l \in RelationLink(j, u, v)
    BY <1>7 DEF States
  <2>2. l \notin RelationLink(b, o, t)
    BY <1>4, <1>7, LinkFacts
  <2>3. <<j, v>> \in h[u]
    BY <1>3, <1>7, <2>1, <2>2
  <2> QED
    BY <2>1, <2>3 DEF States
<1> QED
  BY <1>2, <1>5, <1>6, <1>7

\* What the graph is once all edges of a task and their reciprocals are gone.
LEMMA ClearedFacts ==
  ASSUME NEW g \in Graphs, NEW t \in Tasks, NEW un, TwoSided(g, un), NEW h \in Graphs,
         \A u \in Tasks, j \in Kinds, v \in Tasks :
           <<j, v>> \in h[u] <=> /\ <<j, v>> \in g[u] /\ u # t
                                 /\ ~(v = t /\ <<InverseKind(j), u>> \in g[t])
  PROVE  /\ TwoSided(h, un)
         /\ \A l : States(h, l) => States(g, l)
         /\ \A k \in Kinds, o \in Tasks : \A l : <<k, o>> \in g[t] /\ l \in RelationLink(k, t, o) => ~States(h, l)
         /\ \A l : States(g, l) /\ ~States(h, l) =>
              \E k \in Kinds, o \in Tasks : <<k, o>> \in g[t] /\ l \in RelationLink(k, t, o)
<1>1. TwoSided(h, un)
  <2>1. SUFFICES ASSUME NEW u \in Tasks, NEW j \in Kinds, NEW v \in Tasks, <<j, v>> \in h[u],
                        <<InverseKind(j), u>> \notin h[v]
                 PROVE  <<u, j, v>> \in LegacyRows /\ RelationLink(j, u, v) \subseteq un
    BY DEF TwoSided
  <2>2. InverseKind(j) \in Kinds /\ InverseKind(InverseKind(j)) = j
    BY KindFacts
  <2>3. <<j, v>> \in g[u] /\ u # t /\ ~(v = t /\ <<InverseKind(j), u>> \in g[t])
    BY <2>1
  <2>4. <<InverseKind(j), u>> \notin g[v]
    BY <2>1, <2>2, <2>3
  <2> QED
    BY <2>3, <2>4 DEF TwoSided
<1>2. ASSUME NEW l, States(h, l)  PROVE States(g, l)
  BY <1>2 DEF States
<1>3. ASSUME NEW k \in Kinds, NEW o \in Tasks, NEW l, <<k, o>> \in g[t], l \in RelationLink(k, t, o),
             States(h, l)
      PROVE  FALSE
  <2>1. PICK u \in Tasks, j \in Kinds, v \in Tasks : <<j, v>> \in h[u] /\ l \in RelationLink(j, u, v)
    BY <1>3 DEF States
  <2>2. u # t /\ ~(v = t /\ <<InverseKind(j), u>> \in g[t])
    BY <2>1
  <2>3. j = InverseKind(k) /\ u = o /\ v = t
    BY <1>3, <2>1, <2>2, LinkOwners
  <2>4. InverseKind(j) = k
    BY <2>3, KindFacts
  <2> QED
    BY <1>3, <2>2, <2>3, <2>4
<1>4. ASSUME NEW l, States(g, l), ~States(h, l)
      PROVE  \E k \in Kinds, o \in Tasks : <<k, o>> \in g[t] /\ l \in RelationLink(k, t, o)
  <2>1. PICK u \in Tasks, j \in Kinds, v \in Tasks : <<j, v>> \in g[u] /\ l \in RelationLink(j, u, v)
    BY <1>4 DEF States
  <2>2. <<j, v>> \notin h[u]
    BY <1>4, <2>1 DEF States
  <2>3. CASE u = t
    BY <2>1, <2>3
  <2>4. CASE v = t /\ <<InverseKind(j), u>> \in g[t]
    BY <2>1, <2>4, KindFacts, LinkFacts
  <2> QED
    BY <2>1, <2>2, <2>3, <2>4
<1> QED
  BY <1>1, <1>2, <1>3, <1>4

\* Every budget has a bound.
LEMMA BudgetFacts ==
  /\ DOMAIN Budgets = {"commands", "pulls", "edits", "faults"}
  /\ \A b \in DOMAIN Budgets : Budgets[b] \in Nat
BY RelationsAssumption DEF Budgets

\* A budget used stays within its bound.
LEMMA SpendKeeps ==
  ASSUME RelationTypes, NEW b \in {"commands", "pulls", "edits", "faults"}, Spend(b)
  PROVE  spent' \in [DOMAIN Budgets -> Nat] /\ \A c \in DOMAIN Budgets : spent'[c] <= Budgets[c]
<1>1. /\ spent \in [DOMAIN Budgets -> Nat] /\ \A c \in DOMAIN Budgets : spent[c] <= Budgets[c]
      /\ spent[b] < Budgets[b] /\ spent' = [spent EXCEPT ![b] = @ + 1]
  BY DEF RelationTypes, Spend
<1>2. b \in DOMAIN Budgets
  BY BudgetFacts
<1>3. spent[b] \in Nat /\ Budgets[b] \in Nat
  BY <1>1, <1>2, BudgetFacts
<1>4. spent[b] + 1 \in Nat /\ spent[b] + 1 <= Budgets[b]
  BY <1>1, <1>3
<1> QED
  BY <1>1, <1>2, <1>4

\* A step of one command that leaves the store, the queue and GitHub alone.
LEMMA PlaceKeeps ==
  ASSUME RelationsInv, NEW p \in Procs, NEW r \in Place, proc' = [proc EXCEPT ![p] = r],
         UNCHANGED <<rel, filed, links, outbox, backoff, off>>,
         spent' \in [DOMAIN Budgets -> Nat], \A b \in DOMAIN Budgets : spent'[b] <= Budgets[b],
         Fits(r, rel, filed, off), \A q \in Procs : q # p => proc[q].pc = "idle"
  PROVE  RelationsInv'
<1>1. proc \in [Procs -> Place]
  BY DEF RelationsInv, RelationTypes
<1>2. proc' \in [Procs -> Place] /\ proc'[p] = r /\ \A q \in Procs : q # p => proc'[q] = proc[q]
  BY <1>1
<1>3. RelationTypes'
  BY <1>2 DEF RelationsInv, RelationTypes
<1>4. \A q, s \in Procs : proc'[q].pc # "idle" /\ proc'[s].pc # "idle" => q = s
  BY <1>2
<1>5. \A q \in Procs : Fits(proc'[q], rel, filed, off)
  BY <1>2 DEF RelationsInv
<1> QED
  BY <1>3, <1>4, <1>5 DEF RelationsInv

\* Commands start alone and stay alone.
LEMMA StartsAlone ==
  ASSUME Overlap = FALSE, NEW p \in Procs, CanStart(p)
  PROVE  proc[p].pc = "idle" /\ \A q \in Procs : q # p => proc[q].pc = "idle"
BY DEF CanStart

\* A command that runs, runs alone.
LEMMA StaysAlone ==
  ASSUME RelationsInv, NEW p \in Procs, proc[p].pc # "idle"
  PROVE  \A q \in Procs : q # p => proc[q].pc = "idle"
BY DEF RelationsInv

\* A command between its reads and its save.
LEMMA IdlePlace == Idle \in Place /\ Idle.pc = "idle"
<1>1. NoWrite \in [{} -> SUBSET (Kinds \X Tasks)]
  BY DEF NoWrite
<1>2. NoWrite \in Writes
  BY <1>1 DEF Writes
<1>3. <<>> \in Seq(Entry)
  OBVIOUS
<1>4. Idle.t \in Tasks \cup {Idle.t}
  OBVIOUS
<1> DEFINE z == CHOOSE t \in Tasks : TRUE
<1>5. Idle = [pc |-> "idle", t |-> z, copy |-> {}, subs |-> {},
              blockers |-> {}, write |-> NoWrite, entries |-> <<>>, files |-> {}]
  BY DEF Idle
<1>6. Idle.t = z /\ Idle.pc = "idle"
  BY <1>5
<1> HIDE DEF z
<1> QED
  BY <1>2, <1>3, <1>5, <1>6 DEF Place

\* What a command holds before its save.
LEMMA PreparePlace ==
  ASSUME NEW w \in Writes, NEW entries \in Seq(Entry), NEW files \in SUBSET Tasks, NEW r,
         r = Saving(w, entries, files)
  PROVE  /\ r \in Place /\ r.pc = "save" /\ r.entries = entries /\ r.files = files
         /\ \A g : After(r, g) = [t \in Tasks |-> IF t \in DOMAIN w THEN w[t] ELSE g[t]]
<1>1. r \in Place /\ r.pc = "save" /\ r.write = w /\ r.entries = entries /\ r.files = files
  BY IdlePlace DEF Place, Saving
<1> QED
  BY <1>1 DEF After

\* What a command needs to be ready to save.
LEMMA PreparedKeeps ==
  ASSUME RelationsInv, NEW p \in Procs, \A q \in Procs : q # p => proc[q].pc = "idle",
         NEW w \in Writes, NEW entries \in Seq(Entry), NEW files \in SUBSET Tasks, Prepare(p, w, entries, files),
         UNCHANGED <<rel, filed, links, outbox, backoff, off>>,
         spent' \in [DOMAIN Budgets -> Nat], \A b \in DOMAIN Budgets : spent'[b] <= Budgets[b],
         NEW h \in Graphs, h = [t \in Tasks |-> IF t \in DOMAIN w THEN w[t] ELSE rel[t]], TwoSided(h, off),
         \A i \in DOMAIN entries : /\ Within(entries[i].link, filed \cup files)
                                   /\ entries[i].add = TRUE <=> States(h, entries[i].link),
         \A l \in Links : l \notin off /\ Within(l, filed \cup files) /\ ~In(entries, l) =>
           IF Within(l, filed) THEN States(h, l) <=> States(rel, l) ELSE ~States(h, l)
  PROVE  RelationsInv'
<1> DEFINE r == Saving(w, entries, files)
<1>1. proc' = [proc EXCEPT ![p] = r]
  BY DEF Prepare
<1>2. /\ r \in Place /\ r.pc = "save" /\ r.entries = entries /\ r.files = files /\ After(r, rel) = h
  <2>1. r = Saving(w, entries, files)
    OBVIOUS
  <2> HIDE DEF r
  <2>2. w \in Writes /\ entries \in Seq(Entry) /\ files \in SUBSET Tasks
    OBVIOUS
  <2>3. /\ r \in Place /\ r.pc = "save" /\ r.entries = entries /\ r.files = files
        /\ \A g : After(r, g) = [t \in Tasks |-> IF t \in DOMAIN w THEN w[t] ELSE g[t]]
    BY <2>1, <2>2, PreparePlace
  <2> QED
    BY <2>3
<1> HIDE DEF r
<1>3. Ready(r, rel, filed, off)
  BY <1>2 DEF Ready
<1>4. Fits(r, rel, filed, off)
  BY <1>2, <1>3 DEF Fits
<1> QED
  BY <1>1, <1>2, <1>4, PlaceKeeps

\* A link lies within a set of tasks just when both ends of its edge do.
LEMMA LinkWithin ==
  ASSUME NEW k \in Kinds, NEW t \in Tasks, NEW o \in Tasks, NEW l, l \in RelationLink(k, t, o), NEW S
  PROVE  Within(l, S) <=> t \in S /\ o \in S
<1>1. {l.a, l.b} = {t, o}
  BY LinkFacts
<1> QED
  BY <1>1 DEF Within

(* The entries of one stated edge.                                           *)
OnePlan(q, t, k, o, add, isFiled) ==
  /\ q \in Seq(Entry)
  /\ \A i \in DOMAIN q : /\ q[i].add = add
                         /\ t \in isFiled /\ o \in isFiled /\ q[i].link \in RelationLink(k, t, o)
  /\ \A l \in Links : t \in isFiled /\ o \in isFiled /\ l \in RelationLink(k, t, o) => In(q, l)

\* The plan of one edge.
LEMMA OnePlanFacts ==
  ASSUME NEW t \in Tasks, NEW k \in Kinds, NEW o \in Tasks, NEW add \in BOOLEAN,
         NEW isFiled \in SUBSET Tasks, NEW pairs, pairs = {<<k, o>>},
         NEW q, q = PlanRelationEntries(t, pairs, add, isFiled)
  PROVE  OnePlan(q, t, k, o, add, isFiled)
<1>1. pairs \in EdgeSets
  BY DEF EdgeSets
<1>2. \A j, v : <<j, v>> \in pairs <=> j = k /\ v = o
  OBVIOUS
<1>3. Plans(q, t, pairs, add, isFiled)
  BY <1>1, PlanFacts, Zenon
<1>4. /\ q \in Seq(Entry)
      /\ \A i \in DOMAIN q : /\ q[i].add = add
                             /\ \E j \in Kinds, v \in Tasks :
                                  /\ <<j, v>> \in pairs /\ t \in isFiled /\ v \in isFiled
                                  /\ q[i].link \in RelationLink(j, t, v)
      /\ \A l \in Links :
           <<k, o>> \in pairs /\ t \in isFiled /\ o \in isFiled /\ l \in RelationLink(k, t, o) => In(q, l)
  BY <1>3, Zenon DEF Plans
<1>5. ASSUME NEW i \in DOMAIN q
      PROVE  q[i].add = add /\ t \in isFiled /\ o \in isFiled /\ q[i].link \in RelationLink(k, t, o)
  BY <1>2, <1>4, Zenon
<1>6. <<k, o>> \in pairs
  OBVIOUS
<1> QED
  BY <1>4, <1>5, <1>6, Zenon DEF OnePlan

\* A command that states an edge is ready to save both halves and the entry.
LEMMA AddRelationKeeps ==
  ASSUME RelationsInv, Overlap = FALSE, NEW p \in Procs, NEW t \in Tasks, NEW k \in UsedKinds, NEW o \in Tasks,
         AddRelation(p, t, k, o)
  PROVE  RelationsInv'
<1> DEFINE D == {t, o}
           w == [u \in D |-> IF u = t THEN rel[t] \cup {<<k, o>>}
                                      ELSE rel[o] \cup {<<InverseKind(k), t>>}]
           plan == PlanRelationEntries(t, {<<k, o>>}, TRUE, filed)
           entries == IF <<k, o>> \in rel[t] THEN <<>> ELSE plan
           h == [u \in Tasks |-> IF u = t THEN rel[t] \cup {<<k, o>>}
                                 ELSE IF u = o THEN rel[o] \cup {<<InverseKind(k), t>>} ELSE rel[u]]
<1>1. /\ CanStart(p) /\ t # o /\ Spend("commands") /\ Prepare(p, w, entries, {})
      /\ UNCHANGED <<rel, filed, links, outbox, backoff, off>>
  BY DEF AddRelation
<1>2. k \in Kinds /\ InverseKind(k) \in Kinds
  BY RelationsAssumption, KindFacts
<1>3. rel \in Graphs /\ filed \in SUBSET Tasks /\ TwoSided(rel, off) /\ RelationTypes
  BY DEF RelationsInv, RelationTypes
<1>4. /\ h \in Graphs /\ TwoSided(h, off)
      /\ \A l : States(h, l) <=> States(rel, l) \/ l \in RelationLink(k, t, o)
  BY <1>1, <1>2, <1>3, AddedFacts
<1>5. w \in Writes /\ DOMAIN w = D
      /\ h = [u \in Tasks |-> IF u \in DOMAIN w THEN w[u] ELSE rel[u]]
  <2>1. D \in SUBSET Tasks /\ w \in [D -> SUBSET (Kinds \X Tasks)]
    BY <1>2, <1>3 DEF Graphs
  <2>2. w \in Writes
    BY <2>1 DEF Writes
  <2> QED
    BY <2>2
<1> HIDE DEF w, D, h
<1>6. /\ plan \in Seq(Entry)
      /\ \A i \in DOMAIN plan : /\ plan[i].add = TRUE
                                /\ t \in filed /\ o \in filed /\ plan[i].link \in RelationLink(k, t, o)
      /\ \A l \in Links : t \in filed /\ o \in filed /\ l \in RelationLink(k, t, o) => In(plan, l)
  <2> DEFINE pairs == {<<k, o>>}
             c == TRUE
  <2>1. /\ t \in Tasks /\ k \in Kinds /\ o \in Tasks /\ c \in BOOLEAN /\ filed \in SUBSET Tasks
        /\ pairs = {<<k, o>>} /\ plan = PlanRelationEntries(t, pairs, c, filed)
    BY <1>2, <1>3
  <2>2. c = TRUE
    OBVIOUS
  <2> HIDE DEF c, pairs, plan
  <2>3. OnePlan(plan, t, k, o, c, filed)
    BY <2>1, OnePlanFacts, Zenon
  <2> QED
    BY <2>2, <2>3, Zenon DEF OnePlan
<1> HIDE DEF plan
<1>7. entries \in Seq(Entry)
  BY <1>6
<1>8. \A i \in DOMAIN entries : /\ Within(entries[i].link, filed \cup {})
                                /\ entries[i].add = TRUE <=> States(h, entries[i].link)
  <2>1. SUFFICES ASSUME NEW i \in DOMAIN entries
                 PROVE  /\ Within(entries[i].link, filed)
                        /\ entries[i].add = TRUE <=> States(h, entries[i].link)
    OBVIOUS
  <2>2. /\ entries[i].add = TRUE /\ t \in filed /\ o \in filed /\ entries[i].link \in RelationLink(k, t, o)
    BY <1>6
  <2>3. Within(entries[i].link, filed) <=> t \in filed /\ o \in filed
    BY <1>2, <2>2, LinkWithin
  <2> QED
    BY <1>4, <2>2, <2>3
<1>9. ASSUME NEW l \in Links, Within(l, filed), ~In(entries, l)  PROVE States(h, l) <=> States(rel, l)
  <2>1. CASE l \notin RelationLink(k, t, o)
    BY <1>4, <2>1
  <2>2. CASE l \in RelationLink(k, t, o)
    <3>1. Within(l, filed) <=> t \in filed /\ o \in filed
      BY <1>2, <2>2, LinkWithin
    <3>2. t \in filed /\ o \in filed
      BY <1>9, <3>1
    <3>3. <<k, o>> \in rel[t]
      BY <1>6, <1>9, <2>2, <3>2
    <3> QED
      BY <1>2, <1>4, <2>2, <3>3 DEF States
  <2> QED
    BY <2>1, <2>2
<1>10. \A q \in Procs : q # p => proc[q].pc = "idle"
  BY <1>1, StartsAlone
<1>11. spent' \in [DOMAIN Budgets -> Nat] /\ \A b \in DOMAIN Budgets : spent'[b] <= Budgets[b]
  BY <1>1, <1>3, SpendKeeps
<1>12. \A l \in Links : l \notin off /\ Within(l, filed \cup {}) /\ ~In(entries, l) =>
         IF Within(l, filed) THEN States(h, l) <=> States(rel, l) ELSE ~States(h, l)
  BY <1>9
<1> HIDE DEF entries
<1>13. {} \in SUBSET Tasks
  OBVIOUS
<1> QED
  BY <1>1, <1>4, <1>5, <1>7, <1>8, <1>10, <1>11, <1>12, <1>13, PreparedKeeps

\* A command that unstates an edge is ready to save what is left and the entry.
LEMMA RemoveRelationKeeps ==
  ASSUME RelationsInv, Overlap = FALSE, NEW p \in Procs, NEW t \in Tasks, NEW k \in UsedKinds, NEW o \in Tasks,
         RemoveRelation(p, t, k, o)
  PROVE  RelationsInv'
<1> DEFINE had == <<k, o>> \in rel[t]
           back == <<InverseKind(k), t>> \in rel[o]
           D == (IF had THEN {t} ELSE {}) \cup (IF back THEN {o} ELSE {})
           w == [u \in D |-> rel[u] \ (IF u = t THEN {<<k, o>>} ELSE {<<InverseKind(k), t>>})]
           plan == PlanRelationEntries(t, {<<k, o>>}, FALSE, filed)
           entries == IF had THEN plan ELSE <<>>
           h == [u \in Tasks |-> IF u = t THEN rel[t] \ {<<k, o>>}
                                 ELSE IF u = o THEN rel[o] \ {<<InverseKind(k), t>>} ELSE rel[u]]
<1>1. /\ CanStart(p) /\ t # o /\ Spend("commands") /\ Prepare(p, w, entries, {})
      /\ UNCHANGED <<rel, filed, links, outbox, backoff, off>>
  BY DEF RemoveRelation
<1>2. k \in Kinds /\ InverseKind(k) \in Kinds /\ InverseKind(InverseKind(k)) = k
  BY RelationsAssumption, KindFacts
<1>3. rel \in Graphs /\ filed \in SUBSET Tasks /\ TwoSided(rel, off) /\ RelationTypes
  BY DEF RelationsInv, RelationTypes
<1>4. /\ h \in Graphs /\ TwoSided(h, off)
      /\ \A l : States(h, l) <=> States(rel, l) /\ l \notin RelationLink(k, t, o)
  BY <1>1, <1>2, <1>3, RemovedFacts
<1>5. w \in Writes /\ DOMAIN w = D
  <2>1. D \in SUBSET Tasks /\ w \in [D -> SUBSET (Kinds \X Tasks)]
    BY <1>2, <1>3 DEF Graphs
  <2>2. w \in Writes
    BY <2>1 DEF Writes
  <2> QED
    BY <2>2
<1>6. h = [u \in Tasks |-> IF u \in DOMAIN w THEN w[u] ELSE rel[u]]
  <2>1. \A u \in D : w[u] = rel[u] \ (IF u = t THEN {<<k, o>>} ELSE {<<InverseKind(k), t>>})
    OBVIOUS
  <2>2. (t \in D <=> had) /\ (o \in D <=> back) /\ \A u \in D : u = t \/ u = o
    BY <1>1
  <2> HIDE DEF D, w
  <2>3. ASSUME NEW u \in Tasks  PROVE h[u] = IF u \in DOMAIN w THEN w[u] ELSE rel[u]
    <3>1. CASE u \in D
      BY <1>1, <1>5, <2>1, <2>2, <3>1
    <3>2. CASE u = t /\ ~had
      BY <1>5, <2>2, <3>2
    <3>3. CASE u = o /\ ~back
      BY <1>1, <1>5, <2>2, <3>3
    <3>4. CASE u # t /\ u # o
      BY <1>5, <2>2, <3>4
    <3> QED
      BY <2>2, <3>1, <3>2, <3>3, <3>4
  <2> QED
    BY <2>3
<1> HIDE DEF w, D, h
<1>7. /\ plan \in Seq(Entry)
      /\ \A i \in DOMAIN plan : /\ plan[i].add = FALSE
                                /\ t \in filed /\ o \in filed /\ plan[i].link \in RelationLink(k, t, o)
      /\ \A l \in Links : t \in filed /\ o \in filed /\ l \in RelationLink(k, t, o) => In(plan, l)
  <2> DEFINE pairs == {<<k, o>>}
             c == FALSE
  <2>1. /\ t \in Tasks /\ k \in Kinds /\ o \in Tasks /\ c \in BOOLEAN /\ filed \in SUBSET Tasks
        /\ pairs = {<<k, o>>} /\ plan = PlanRelationEntries(t, pairs, c, filed)
    BY <1>2, <1>3
  <2>2. c = FALSE
    OBVIOUS
  <2> HIDE DEF c, pairs, plan
  <2>3. OnePlan(plan, t, k, o, c, filed)
    BY <2>1, OnePlanFacts, Zenon
  <2> QED
    BY <2>2, <2>3, Zenon DEF OnePlan
<1> HIDE DEF plan
<1>8. entries \in Seq(Entry)
  BY <1>7
<1>9. \A i \in DOMAIN entries : /\ Within(entries[i].link, filed \cup {})
                                /\ entries[i].add = TRUE <=> States(h, entries[i].link)
  <2>1. SUFFICES ASSUME NEW i \in DOMAIN entries
                 PROVE  /\ Within(entries[i].link, filed)
                        /\ entries[i].add = TRUE <=> States(h, entries[i].link)
    OBVIOUS
  <2>2. /\ entries[i].add = FALSE /\ t \in filed /\ o \in filed /\ entries[i].link \in RelationLink(k, t, o)
    BY <1>7
  <2>3. Within(entries[i].link, filed) <=> t \in filed /\ o \in filed
    BY <1>2, <2>2, LinkWithin
  <2> QED
    BY <1>4, <2>2, <2>3
<1>10. ASSUME NEW l \in Links, l \notin off, Within(l, filed), ~In(entries, l)
       PROVE  States(h, l) <=> States(rel, l)
  <2>1. CASE l \notin RelationLink(k, t, o)
    BY <1>4, <2>1
  <2>2. CASE l \in RelationLink(k, t, o)
    <3>1. Within(l, filed) <=> t \in filed /\ o \in filed
      BY <1>2, <2>2, LinkWithin
    <3>2. t \in filed /\ o \in filed
      BY <1>10, <3>1
    <3>3. <<k, o>> \notin rel[t]
      BY <1>7, <1>10, <2>2, <3>2
    <3>4. ~States(rel, l)
      <4>1. SUFFICES ASSUME States(rel, l)  PROVE FALSE
        OBVIOUS
      <4>2. PICK u \in Tasks, j \in Kinds, v \in Tasks : <<j, v>> \in rel[u] /\ l \in RelationLink(j, u, v)
        BY <4>1 DEF States
      <4>3. j = InverseKind(k) /\ u = o /\ v = t
        BY <1>2, <2>2, <3>3, <4>2, LinkOwners
      <4>4. RelationLink(j, u, v) \subseteq off
        BY <1>2, <1>3, <3>3, <4>2, <4>3 DEF TwoSided
      <4> QED
        BY <1>10, <4>2, <4>4
    <3> QED
      BY <1>4, <3>4
  <2> QED
    BY <2>1, <2>2
<1>11. \A q \in Procs : q # p => proc[q].pc = "idle"
  BY <1>1, StartsAlone
<1>12. spent' \in [DOMAIN Budgets -> Nat] /\ \A b \in DOMAIN Budgets : spent'[b] <= Budgets[b]
  BY <1>1, <1>3, SpendKeeps
<1>13. \A l \in Links : l \notin off /\ Within(l, filed \cup {}) /\ ~In(entries, l) =>
         IF Within(l, filed) THEN States(h, l) <=> States(rel, l) ELSE ~States(h, l)
  BY <1>10
<1> HIDE DEF entries
<1>14. {} \in SUBSET Tasks
  OBVIOUS
<1> QED
  BY <1>1, <1>4, <1>5, <1>6, <1>8, <1>9, <1>11, <1>12, <1>13, <1>14, PreparedKeeps

\* A command that clears a task's relations is ready to save.
LEMMA ClearRelationsKeeps ==
  ASSUME RelationsInv, Overlap = FALSE, NEW p \in Procs, NEW t \in Tasks, ClearRelations(p, t)
  PROVE  RelationsInv'
<1> DEFINE strip(o) == rel[o] \ {<<InverseKind(e[1]), t>> : e \in {f \in rel[t] : f[2] = o}}
           touched == {o \in {e[2] : e \in rel[t]} \ {t} : strip(o) # rel[o]}
           D == {t} \cup touched
           w == [u \in D |-> IF u = t THEN {} ELSE strip(u)]
           entries == PlanRelationEntries(t, rel[t], FALSE, filed)
           h == [u \in Tasks |-> IF u = t THEN {} ELSE strip(u)]
<1>1. /\ CanStart(p) /\ Spend("commands") /\ Prepare(p, w, entries, {})
      /\ UNCHANGED <<rel, filed, links, outbox, backoff, off>>
  BY DEF ClearRelations
<1>2. rel \in Graphs /\ filed \in SUBSET Tasks /\ TwoSided(rel, off) /\ RelationTypes
  BY DEF RelationsInv, RelationTypes
<1>3. \A u \in Tasks : rel[u] \subseteq Kinds \X Tasks /\ strip(u) \subseteq rel[u]
  BY <1>2 DEF Graphs
<1>4. h \in Graphs
  BY <1>3 DEF Graphs
<1>5. w \in Writes /\ DOMAIN w = D
  <2>1. D \in SUBSET Tasks /\ w \in [D -> SUBSET (Kinds \X Tasks)]
    BY <1>3
  <2>2. w \in Writes
    BY <2>1 DEF Writes
  <2> QED
    BY <2>2
<1>6. h = [u \in Tasks |-> IF u \in DOMAIN w THEN w[u] ELSE rel[u]]
  <2>1. \A u \in Tasks : u \notin D => strip(u) = rel[u]
    <3>1. SUFFICES ASSUME NEW u \in Tasks, u \notin D, u \notin {e[2] : e \in rel[t]}
                   PROVE  strip(u) = rel[u]
      OBVIOUS
    <3>2. {f \in rel[t] : f[2] = u} = {}
      BY <3>1
    <3> QED
      BY <3>2
  <2>2. t \in D /\ \A u \in D : w[u] = IF u = t THEN {} ELSE strip(u)
    OBVIOUS
  <2> HIDE DEF D, w, strip
  <2>3. ASSUME NEW u \in Tasks  PROVE h[u] = IF u \in DOMAIN w THEN w[u] ELSE rel[u]
    BY <1>5, <2>1, <2>2
  <2> QED
    BY <2>3
<1>7. \A u \in Tasks, j \in Kinds, v \in Tasks :
        <<j, v>> \in h[u] <=> /\ <<j, v>> \in rel[u] /\ u # t
                              /\ ~(v = t /\ <<InverseKind(j), u>> \in rel[t])
  <2>1. ASSUME NEW u \in Tasks, NEW j \in Kinds, NEW v \in Tasks
        PROVE  <<j, v>> \in strip(u) <=> <<j, v>> \in rel[u] /\ ~(v = t /\ <<InverseKind(j), u>> \in rel[t])
    <3>1. <<j, v>> \in {<<InverseKind(e[1]), t>> : e \in {f \in rel[t] : f[2] = u}}
            <=> \E e \in rel[t] : e[2] = u /\ InverseKind(e[1]) = j /\ v = t
      OBVIOUS
    <3>2. \A e \in rel[t] : e[1] \in Kinds /\ e = <<e[1], e[2]>>
      BY <1>3
    <3>3. \A e \in rel[t] : InverseKind(e[1]) = j => e[1] = InverseKind(j)
      BY <3>2, KindFacts
    <3>4. InverseKind(InverseKind(j)) = j
      BY KindFacts
    <3>5. (\E e \in rel[t] : e[2] = u /\ InverseKind(e[1]) = j /\ v = t)
            <=> v = t /\ <<InverseKind(j), u>> \in rel[t]
      BY <3>2, <3>3, <3>4
    <3> QED
      BY <3>1, <3>5
  <2> HIDE DEF strip
  <2>2. \A u \in Tasks : h[u] = IF u = t THEN {} ELSE strip(u)
    OBVIOUS
  <2> QED
    BY <2>1, <2>2
<1> HIDE DEF strip, touched, D, w, h
<1>8. TwoSided(h, off)
  BY <1>2, <1>4, <1>7, ClearedFacts
<1>9. /\ \A l : States(h, l) => States(rel, l)
      /\ \A k \in Kinds, o \in Tasks : \A l : <<k, o>> \in rel[t] /\ l \in RelationLink(k, t, o) => ~States(h, l)
      /\ \A l : States(rel, l) /\ ~States(h, l) =>
           \E k \in Kinds, o \in Tasks : <<k, o>> \in rel[t] /\ l \in RelationLink(k, t, o)
  BY <1>2, <1>4, <1>7, ClearedFacts
<1>10. Plans(entries, t, rel[t], FALSE, filed)
  <2> DEFINE c == FALSE
             pairs == rel[t]
  <2>1. /\ t \in Tasks /\ pairs \in EdgeSets /\ c \in BOOLEAN /\ filed \in SUBSET Tasks
        /\ entries = PlanRelationEntries(t, pairs, c, filed)
    BY <1>2, <1>3 DEF EdgeSets
  <2>2. c = FALSE /\ pairs = rel[t]
    OBVIOUS
  <2> HIDE DEF c, pairs, entries
  <2>3. Plans(entries, t, pairs, c, filed)
    BY <2>1, PlanFacts, Zenon
  <2> QED
    BY <2>2, <2>3, Zenon
<1> HIDE DEF entries
<1>11. entries \in Seq(Entry)
  BY <1>10 DEF Plans
<1>12. \A i \in DOMAIN entries : /\ entries[i].add = FALSE
                                 /\ \E k \in Kinds, o \in Tasks :
                                      /\ <<k, o>> \in rel[t] /\ t \in filed /\ o \in filed
                                      /\ entries[i].link \in RelationLink(k, t, o)
  BY <1>10, Zenon DEF Plans
<1>13. \A i \in DOMAIN entries : /\ Within(entries[i].link, filed \cup {})
                                 /\ entries[i].add = TRUE <=> States(h, entries[i].link)
  <2>1. SUFFICES ASSUME NEW i \in DOMAIN entries
                 PROVE  /\ Within(entries[i].link, filed)
                        /\ entries[i].add = TRUE <=> States(h, entries[i].link)
    OBVIOUS
  <2>2. PICK k \in Kinds, o \in Tasks : /\ <<k, o>> \in rel[t] /\ t \in filed /\ o \in filed
                                        /\ entries[i].link \in RelationLink(k, t, o)
    BY <1>12
  <2>3. Within(entries[i].link, filed) <=> t \in filed /\ o \in filed
    BY <2>2, LinkWithin
  <2>4. ~States(h, entries[i].link)
    BY <1>9, <2>2
  <2> QED
    BY <1>12, <2>2, <2>3, <2>4
<1>14. ASSUME NEW l \in Links, Within(l, filed), ~In(entries, l)  PROVE States(h, l) <=> States(rel, l)
  <2>1. SUFFICES ASSUME States(rel, l), ~States(h, l)  PROVE FALSE
    BY <1>9
  <2>2. PICK k \in Kinds, o \in Tasks : <<k, o>> \in rel[t] /\ l \in RelationLink(k, t, o)
    BY <1>9, <2>1
  <2>3. Within(l, filed) <=> t \in filed /\ o \in filed
    BY <2>2, LinkWithin
  <2>4. t \in filed /\ o \in filed
    BY <1>14, <2>3
  <2> QED
    BY <1>10, <1>14, <2>2, <2>4 DEF Plans
<1>15. \A q \in Procs : q # p => proc[q].pc = "idle"
  BY <1>1, StartsAlone
<1>16. spent' \in [DOMAIN Budgets -> Nat] /\ \A b \in DOMAIN Budgets : spent'[b] <= Budgets[b]
  BY <1>1, <1>2, SpendKeeps
<1>17. \A l \in Links : l \notin off /\ Within(l, filed \cup {}) /\ ~In(entries, l) =>
         IF Within(l, filed) THEN States(h, l) <=> States(rel, l) ELSE ~States(h, l)
  BY <1>14
<1>18. {} \in SUBSET Tasks
  OBVIOUS
<1> QED
  BY <1>1, <1>4, <1>5, <1>6, <1>8, <1>11, <1>13, <1>15, <1>16, <1>17, <1>18, PreparedKeeps

\* A promote starts with the edges the task has.
LEMMA PromoteBeginKeeps ==
  ASSUME RelationsInv, Overlap = FALSE, NEW p \in Procs, NEW t \in Tasks, PromoteBegin(p, t)
  PROVE  RelationsInv'
<1> DEFINE r == [Idle EXCEPT !.pc = "promote", !.t = t, !.copy = rel[t]]
<1>1. /\ CanStart(p) /\ t \notin filed /\ Spend("commands") /\ proc' = [proc EXCEPT ![p] = r]
      /\ UNCHANGED <<rel, filed, links, outbox, backoff, off>>
  BY DEF PromoteBegin
<1>2. rel \in Graphs /\ RelationTypes
  BY DEF RelationsInv, RelationTypes
<1>3. rel[t] \in SUBSET (Kinds \X Tasks)
  BY <1>2 DEF Graphs
<1>4. r \in Place /\ r.pc = "promote" /\ r.t = t /\ r.copy = rel[t]
  BY <1>3, IdlePlace DEF Place
<1> HIDE DEF r
<1>5. Fits(r, rel, filed, off)
  BY <1>1, <1>4 DEF Fits
<1>6. \A q \in Procs : q # p => proc[q].pc = "idle"
  BY <1>1, StartsAlone
<1>7. spent' \in [DOMAIN Budgets -> Nat] /\ \A b \in DOMAIN Budgets : spent'[b] <= Budgets[b]
  BY <1>1, <1>2, SpendKeeps
<1> QED
  BY <1>1, <1>4, <1>5, <1>6, <1>7, PlaceKeeps

\* The backfill plans every edge of the promoted task to a filed one.
LEMMA PromotePlanKeeps ==
  ASSUME RelationsInv, NEW p \in Procs, PromotePlan(p)
  PROVE  RelationsInv'
<1> DEFINE t == proc[p].t
           copy == proc[p].copy
           w == [u \in {t} |-> copy]
           files == {t}
           entries == RelationBackfillEntries(t, copy)
<1>1. /\ proc[p].pc = "promote" /\ Prepare(p, w, entries, files)
      /\ UNCHANGED <<rel, filed, links, outbox, backoff, off, spent>>
  BY DEF PromotePlan
<1>2. rel \in Graphs /\ filed \in SUBSET Tasks /\ TwoSided(rel, off) /\ RelationTypes
  BY DEF RelationsInv, RelationTypes
<1>3. t \in Tasks /\ t \notin filed /\ copy = rel[t]
  BY <1>1 DEF RelationsInv, Fits
<1>4. copy \in SUBSET (Kinds \X Tasks)
  BY <1>2, <1>3 DEF Graphs
<1>5. w \in Writes /\ DOMAIN w = {t} /\ w[t] = copy
  <2>1. {t} \in SUBSET Tasks /\ w \in [{t} -> SUBSET (Kinds \X Tasks)]
    BY <1>3, <1>4
  <2>2. w \in Writes
    BY <2>1 DEF Writes
  <2> QED
    BY <2>2
<1>6. files \in SUBSET Tasks /\ \A u \in Tasks : u \in filed \cup files <=> u \in filed \/ u = t
  BY <1>3
<1>7. Plans(entries, t, copy, TRUE, filed \cup files)
  <2> DEFINE c == TRUE
             all == filed \cup files
  <2>1. /\ t \in Tasks /\ copy \in EdgeSets /\ c \in BOOLEAN /\ all \in SUBSET Tasks
        /\ entries = PlanRelationEntries(t, copy, c, all)
    BY <1>2, <1>3, <1>4, <1>6 DEF EdgeSets, RelationBackfillEntries
  <2>2. c = TRUE /\ all = filed \cup files
    OBVIOUS
  <2> HIDE DEF c, all, entries, t, copy
  <2>3. Plans(entries, t, copy, c, all)
    BY <2>1, PlanFacts, Zenon
  <2> QED
    BY <2>2, <2>3, Zenon
<1> HIDE DEF entries, w, files, t, copy
<1>8. rel = [u \in Tasks |-> IF u \in DOMAIN w THEN w[u] ELSE rel[u]]
  BY <1>2, <1>3, <1>5 DEF Graphs
<1>9. entries \in Seq(Entry)
  BY <1>7 DEF Plans
<1>10. \A i \in DOMAIN entries : /\ entries[i].add = TRUE
                                 /\ \E k \in Kinds, o \in Tasks :
                                      /\ <<k, o>> \in copy /\ t \in filed \cup files /\ o \in filed \cup files
                                      /\ entries[i].link \in RelationLink(k, t, o)
  BY <1>7, Zenon DEF Plans
<1>11. \A i \in DOMAIN entries : /\ Within(entries[i].link, filed \cup files)
                                 /\ entries[i].add = TRUE <=> States(rel, entries[i].link)
  <2>1. SUFFICES ASSUME NEW i \in DOMAIN entries
                 PROVE  /\ Within(entries[i].link, filed \cup files)
                        /\ entries[i].add = TRUE <=> States(rel, entries[i].link)
    OBVIOUS
  <2>2. PICK k \in Kinds, o \in Tasks : /\ <<k, o>> \in copy /\ t \in filed \cup files /\ o \in filed \cup files
                                        /\ entries[i].link \in RelationLink(k, t, o)
    BY <1>10
  <2>3. Within(entries[i].link, filed \cup files) <=> t \in filed \cup files /\ o \in filed \cup files
    BY <1>3, <2>2, LinkWithin
  <2>4. States(rel, entries[i].link)
    BY <1>3, <2>2 DEF States
  <2> QED
    BY <1>10, <2>2, <2>3, <2>4
<1>12. ASSUME NEW l \in Links, l \notin off, Within(l, filed \cup files), ~In(entries, l), ~Within(l, filed),
              States(rel, l)
       PROVE  FALSE
  <2>1. PICK u \in Tasks, j \in Kinds, v \in Tasks : <<j, v>> \in rel[u] /\ l \in RelationLink(j, u, v)
    BY <1>12 DEF States
  <2>2. Within(l, filed \cup files) <=> u \in filed \cup files /\ v \in filed \cup files
    BY <2>1, LinkWithin
  <2>3. Within(l, filed) <=> u \in filed /\ v \in filed
    BY <2>1, LinkWithin
  <2>4. (u = t \/ v = t) /\ u \in filed \cup files /\ v \in filed \cup files
    BY <1>6, <1>12, <2>2, <2>3
  <2>5. \A k \in Kinds, o \in Tasks : <<k, o>> \in copy /\ l \in RelationLink(k, t, o)
          => ~(t \in filed \cup files /\ o \in filed \cup files)
    BY <1>7, <1>12 DEF Plans
  <2>6. CASE u = t
    BY <1>3, <2>1, <2>4, <2>5, <2>6
  <2>7. CASE v = t
    <3>1. <<InverseKind(j), u>> \in rel[t]
      BY <1>2, <1>12, <2>1, <2>7 DEF TwoSided
    <3>2. InverseKind(j) \in Kinds /\ l \in RelationLink(InverseKind(j), t, u)
      BY <2>1, <2>7, KindFacts, LinkFacts
    <3> QED
      BY <1>3, <2>4, <2>5, <2>7, <3>1, <3>2
  <2> QED
    BY <2>4, <2>6, <2>7
<1>13. \A l \in Links : l \notin off /\ Within(l, filed \cup files) /\ ~In(entries, l) =>
         IF Within(l, filed) THEN States(rel, l) <=> States(rel, l) ELSE ~States(rel, l)
  BY <1>12
<1>14. \A q \in Procs : q # p => proc[q].pc = "idle"
  BY <1>1, StaysAlone
<1>15. spent' \in [DOMAIN Budgets -> Nat] /\ \A b \in DOMAIN Budgets : spent'[b] <= Budgets[b]
  BY <1>1, <1>2 DEF RelationTypes
<1> QED
  BY <1>1, <1>2, <1>5, <1>6, <1>8, <1>9, <1>11, <1>13, <1>14, <1>15, PreparedKeeps

\* Entries put at the end of a queue.
LEMMA QueueFacts ==
  ASSUME NEW a \in Seq(Entry), NEW b \in Seq(Entry), NEW c, c = a \o b
  PROVE  /\ c \in Seq(Entry)
         /\ \A i \in DOMAIN a : i \in DOMAIN c /\ c[i] = a[i]
         /\ \A i \in DOMAIN b : Len(a) + i \in DOMAIN c /\ c[Len(a) + i] = b[i]
         /\ \A i \in DOMAIN c : i \in DOMAIN a \/ (i - Len(a) \in DOMAIN b /\ c[i] = b[i - Len(a)])
         /\ \A i \in DOMAIN a, j \in DOMAIN b : Len(a) + j > i
         /\ \A l : In(c, l) <=> In(a, l) \/ In(b, l)
<1>1. c \in Seq(Entry) /\ Len(c) = Len(a) + Len(b) /\ Len(a) \in Nat /\ Len(b) \in Nat
  OBVIOUS
<1>2. DOMAIN a = 1..Len(a) /\ DOMAIN b = 1..Len(b) /\ DOMAIN c = 1..Len(c)
  BY <1>1
<1>3. \A i \in 1..Len(c) : c[i] = IF i <= Len(a) THEN a[i] ELSE b[i - Len(a)]
  BY <1>1
<1>4. /\ \A i \in DOMAIN a : i \in DOMAIN c /\ c[i] = a[i]
      /\ \A i \in DOMAIN b : Len(a) + i \in DOMAIN c /\ c[Len(a) + i] = b[i]
      /\ \A i \in DOMAIN c : i \in DOMAIN a \/ (i - Len(a) \in DOMAIN b /\ c[i] = b[i - Len(a)])
      /\ \A i \in DOMAIN a, j \in DOMAIN b : Len(a) + j > i
  <2>1. ASSUME NEW i \in DOMAIN a  PROVE i \in DOMAIN c /\ c[i] = a[i]
    BY <1>1, <1>2, <1>3
  <2>2. ASSUME NEW i \in DOMAIN b  PROVE Len(a) + i \in DOMAIN c /\ c[Len(a) + i] = b[i]
    BY <1>1, <1>2, <1>3
  <2>3. ASSUME NEW i \in DOMAIN c  PROVE i \in DOMAIN a \/ (i - Len(a) \in DOMAIN b /\ c[i] = b[i - Len(a)])
    BY <1>1, <1>2, <1>3
  <2>4. \A i \in DOMAIN a, j \in DOMAIN b : Len(a) + j > i
    BY <1>1, <1>2
  <2> QED
    BY <2>1, <2>2, <2>3, <2>4
<1>5. ASSUME NEW l  PROVE In(c, l) <=> In(a, l) \/ In(b, l)
  <2>1. ASSUME In(c, l)  PROVE In(a, l) \/ In(b, l)
    BY <1>4, <2>1 DEF In
  <2>2. ASSUME In(a, l)  PROVE In(c, l)
    BY <1>4, <2>2 DEF In
  <2>3. ASSUME In(b, l)  PROVE In(c, l)
    BY <1>4, <2>3 DEF In
  <2> QED
    BY <2>1, <2>2, <2>3
<1> QED
  BY <1>1, <1>4, <1>5

\* A save makes rows and entries durable together.
LEMMA SaveKeeps ==
  ASSUME RelationsInv, NEW p \in Procs, Save(p)
  PROVE  RelationsInv'
<1> DEFINE r == proc[p]
           h == After(r, rel)
           es == r.entries
           all == filed \cup r.files
<1>1. /\ r.pc = "save" /\ rel' = h /\ filed' = all /\ outbox' = outbox \o es
      /\ proc' = [proc EXCEPT ![p] = Idle] /\ UNCHANGED <<links, backoff, off, spent>>
  BY DEF Save, After
<1>2. RelationTypes
  BY DEF RelationsInv
<1>3. /\ rel \in Graphs /\ filed \in SUBSET Tasks /\ links \in SUBSET Links /\ outbox \in Seq(Entry)
      /\ proc \in [Procs -> Place]
  BY <1>2 DEF RelationTypes
<1>4. r \in Place
  BY <1>3
<1>5. es \in Seq(Entry) /\ r.files \in SUBSET Tasks
  BY <1>4 DEF Place
<1>6. Ready(r, rel, filed, off)
  BY <1>1 DEF RelationsInv, Fits
<1>7. /\ h \in Graphs /\ TwoSided(h, off)
      /\ \A i \in DOMAIN es : /\ Within(es[i].link, all)
                              /\ es[i].add = TRUE <=> States(h, es[i].link)
      /\ \A l \in Links : l \notin off /\ Within(l, all) /\ ~In(es, l) =>
           IF Within(l, filed) THEN States(h, l) <=> States(rel, l) ELSE ~States(h, l)
  BY <1>6, Zenon DEF Ready
<1>8. all \in SUBSET Tasks /\ filed \subseteq all
  BY <1>3, <1>5
<1>9. /\ proc' \in [Procs -> Place] /\ proc'[p].pc = "idle" /\ \A q \in Procs : q # p => proc'[q] = proc[q]
  BY <1>1, <1>3, IdlePlace
<1>10. \A q \in Procs : proc'[q].pc = "idle"
  BY <1>1, <1>9, StaysAlone
<1> HIDE DEF r, h, es, all
<1> DEFINE queue == outbox \o es
<1>11. /\ queue \in Seq(Entry)
       /\ \A i \in DOMAIN outbox : i \in DOMAIN queue /\ queue[i] = outbox[i]
       /\ \A i \in DOMAIN es : Len(outbox) + i \in DOMAIN queue /\ queue[Len(outbox) + i] = es[i]
       /\ \A i \in DOMAIN queue : i \in DOMAIN outbox \/ (i - Len(outbox) \in DOMAIN es
                                                          /\ queue[i] = es[i - Len(outbox)])
       /\ \A i \in DOMAIN outbox, j \in DOMAIN es : Len(outbox) + j > i
       /\ \A l : In(queue, l) <=> In(outbox, l) \/ In(es, l)
  BY <1>3, <1>5, QueueFacts
<1>12. outbox' = queue
  BY <1>1
<1> HIDE DEF queue
<1>13. RelationTypes'
  BY <1>1, <1>2, <1>7, <1>8, <1>9, <1>11, <1>12 DEF RelationTypes
<1>14. \A i \in DOMAIN outbox : Within(outbox[i].link, filed)
  BY DEF RelationsInv
<1>15. Agree(rel, outbox, links, filed, off)
  BY DEF RelationsInv
<1>16. Agree(h, queue, links, all, off)
  <2>1. SUFFICES ASSUME NEW l \in Links, l \notin off, Within(l, all)
                 PROVE  /\ \A i \in DOMAIN queue : queue[i].link = l /\ LastOf(queue, i)
                             => (queue[i].add = TRUE <=> States(h, l))
                        /\ In(queue, l) \/ (l \in links <=> States(h, l))
    BY DEF Agree
  <2>2. ASSUME NEW i \in DOMAIN queue, queue[i].link = l, LastOf(queue, i)
        PROVE  queue[i].add = TRUE <=> States(h, l)
    <3>1. CASE i - Len(outbox) \in DOMAIN es /\ queue[i] = es[i - Len(outbox)]
      BY <1>7, <2>2, <3>1
    <3>2. CASE i \in DOMAIN outbox
      <4>1. ~In(es, l)
        BY <1>11, <2>2, <3>2 DEF In, LastOf
      <4>2. queue[i] = outbox[i] /\ Within(l, filed)
        BY <1>11, <1>14, <2>2, <3>2
      <4>3. States(h, l) <=> States(rel, l)
        BY <1>7, <2>1, <4>1, <4>2
      <4>4. LastOf(outbox, i)
        BY <1>11, <2>2, <4>2 DEF LastOf
      <4>5. outbox[i].add = TRUE <=> States(rel, l)
        BY <1>15, <2>1, <2>2, <3>2, <4>2, <4>4 DEF Agree
      <4> QED
        BY <4>2, <4>3, <4>5
    <3> QED
      BY <1>11, <3>1, <3>2
  <2>3. ASSUME ~In(queue, l)  PROVE l \in links <=> States(h, l)
    <3>1. ~In(outbox, l) /\ ~In(es, l)
      BY <1>11, <2>3
    <3>2. CASE Within(l, filed)
      BY <1>7, <1>15, <2>1, <3>1, <3>2 DEF Agree
    <3>3. CASE ~Within(l, filed)
      <4>1. ~States(h, l)
        BY <1>7, <2>1, <3>1, <3>3
      <4>2. l \notin links
        <5>1. l \in links => Within(l, filed \cup Strangers)
          BY DEF RelationsInv
        <5> QED
          BY <1>8, <2>1, <3>3, <5>1, RelationsAssumption DEF Within
      <4> QED
        BY <4>1, <4>2
    <3> QED
      BY <3>2, <3>3
  <2> QED
    BY <2>2, <2>3
<1>17. \A l \in links : Within(l, all \cup Strangers)
  BY <1>8 DEF RelationsInv, Within
<1>18. \A i \in DOMAIN queue : Within(queue[i].link, all)
  <2>1. \A i \in DOMAIN outbox : Within(outbox[i].link, all)
    BY <1>8, <1>14 DEF Within
  <2> QED
    BY <1>7, <1>11, <2>1
<1>19. \A q \in Procs : Fits(proc'[q], h, all, off)
  BY <1>10 DEF Fits
<1> QED
  BY <1>1, <1>7, <1>10, <1>12, <1>13, <1>16, <1>17, <1>18, <1>19 DEF RelationsInv

\* A pull starts with the edges the task has.
LEMMA PullBeginKeeps ==
  ASSUME RelationsInv, Overlap = FALSE, NEW p \in Procs, NEW t \in Tasks, PullBegin(p, t)
  PROVE  RelationsInv'
<1> DEFINE r == [Idle EXCEPT !.pc = "content", !.t = t, !.copy = rel[t]]
<1>1. /\ CanStart(p) /\ t \in filed /\ Spend("pulls") /\ proc' = [proc EXCEPT ![p] = r]
      /\ UNCHANGED <<rel, filed, links, outbox, backoff, off>>
  BY DEF PullBegin
<1>2. rel \in Graphs /\ RelationTypes
  BY DEF RelationsInv, RelationTypes
<1>3. rel[t] \in SUBSET (Kinds \X Tasks)
  BY <1>2 DEF Graphs
<1>4. r \in Place /\ r.pc = "content" /\ r.t = t /\ r.copy = rel[t]
  BY <1>3, IdlePlace DEF Place
<1> HIDE DEF r
<1>5. Fits(r, rel, filed, off)
  BY <1>1, <1>4 DEF Fits
<1>6. \A q \in Procs : q # p => proc[q].pc = "idle"
  BY <1>1, StartsAlone
<1>7. spent' \in [DOMAIN Budgets -> Nat] /\ \A b \in DOMAIN Budgets : spent'[b] <= Budgets[b]
  BY <1>1, <1>2, SpendKeeps
<1> QED
  BY <1>1, <1>4, <1>5, <1>6, <1>7, PlaceKeeps

\* A pull that goes on, its task and its copy kept, to its next fetch.
LEMMA PullGoesOn ==
  ASSUME RelationsInv, NEW p \in Procs, proc[p].pc \in {"content", "subs", "blockers"},
         NEW r \in Place, r.pc \in {"subs", "blockers", "parent"}, r.t = proc[p].t, r.copy = proc[p].copy,
         proc' = [proc EXCEPT ![p] = r],
         UNCHANGED <<rel, filed, links, outbox, backoff, off, spent>>
  PROVE  RelationsInv'
<1>1. proc[p].t \in filed /\ proc[p].copy = rel[proc[p].t]
  BY DEF RelationsInv, Fits
<1>2. Fits(r, rel, filed, off)
  BY <1>1 DEF Fits
<1>3. \A q \in Procs : q # p => proc[q].pc = "idle"
  BY StaysAlone
<1>4. spent' \in [DOMAIN Budgets -> Nat] /\ \A b \in DOMAIN Budgets : spent'[b] <= Budgets[b]
  BY DEF RelationsInv, RelationTypes
<1> QED
  BY <1>2, <1>3, <1>4, PlaceKeeps

\* The content save finds the row as the pull read it.
LEMMA PullContentKeeps ==
  ASSUME RelationsInv, NEW p \in Procs, PullContent(p)
  PROVE  RelationsInv'
<1> DEFINE r == [proc[p] EXCEPT !.pc = "subs"]
<1>1. /\ proc[p].pc = "content" /\ proc' = [proc EXCEPT ![p] = r]
      /\ UNCHANGED <<filed, links, outbox, backoff, off, spent>>
  BY DEF PullContent
<1>2. proc[p] \in Place /\ rel \in Graphs
  BY DEF RelationsInv, RelationTypes
<1>3. r \in Place /\ r.pc = "subs" /\ r.t = proc[p].t /\ r.copy = proc[p].copy
  BY <1>2 DEF Place
<1>4. proc[p].copy = rel[proc[p].t]
  BY <1>1 DEF RelationsInv, Fits
<1>5. rel' = rel
  BY <1>2, <1>4 DEF PullContent, Graphs
<1> HIDE DEF r
<1> QED
  BY <1>1, <1>3, <1>5, PullGoesOn

\* What the fetches return is held by the pull only.
LEMMA FetchKeeps ==
  ASSUME RelationsInv, NEW p \in Procs, FetchSubIssues(p) \/ FetchBlockedBy(p)
  PROVE  RelationsInv'
<1>1. proc[p] \in Place /\ links \in SUBSET Links
  BY DEF RelationsInv, RelationTypes
<1>2. \A l \in links : l.b \in Issues
  BY <1>1 DEF Links
<1>3. CASE FetchSubIssues(p)
  <2> DEFINE found == {l.b : l \in {m \in links : m.axis = "sub" /\ m.a = proc[p].t}}
             r == [proc[p] EXCEPT !.pc = "blockers", !.subs = found]
  <2>1. /\ proc[p].pc = "subs" /\ proc' = [proc EXCEPT ![p] = r]
        /\ UNCHANGED <<rel, filed, links, outbox, backoff, off, spent>>
    BY <1>3 DEF FetchSubIssues
  <2>2. found \in SUBSET Issues
    BY <1>2
  <2> HIDE DEF found
  <2>3. r \in Place /\ r.pc = "blockers" /\ r.t = proc[p].t /\ r.copy = proc[p].copy
    BY <1>1, <2>2 DEF Place
  <2> HIDE DEF r
  <2> QED
    BY <2>1, <2>3, PullGoesOn
<1>4. CASE FetchBlockedBy(p)
  <2> DEFINE found == {l.b : l \in {m \in links : m.axis = "dep" /\ m.a = proc[p].t}}
             r == [proc[p] EXCEPT !.pc = "parent", !.blockers = found]
  <2>1. /\ proc[p].pc = "blockers" /\ proc' = [proc EXCEPT ![p] = r]
        /\ UNCHANGED <<rel, filed, links, outbox, backoff, off, spent>>
    BY <1>4 DEF FetchBlockedBy
  <2>2. found \in SUBSET Issues
    BY <1>2
  <2> HIDE DEF found
  <2>3. r \in Place /\ r.pc = "parent" /\ r.t = proc[p].t /\ r.copy = proc[p].copy
    BY <1>1, <2>2 DEF Place
  <2> HIDE DEF r
  <2> QED
    BY <2>1, <2>3, PullGoesOn
<1> QED
  BY <1>3, <1>4

\* More links that do not count ask for less.
LEMMA UncountedFacts ==
  ASSUME NEW U, NEW V, U \subseteq V, NEW g, NEW isFiled
  PROVE  /\ TwoSided(g, U) => TwoSided(g, V)
         /\ \A r : Fits(r, g, isFiled, U) => Fits(r, g, isFiled, V)
<1>1. \A h : TwoSided(h, U) => TwoSided(h, V)
  <2>1. SUFFICES ASSUME NEW h, TwoSided(h, U), NEW t \in Tasks, NEW k \in Kinds, NEW o \in Tasks,
                        <<k, o>> \in h[t], <<InverseKind(k), t>> \notin h[o]
                 PROVE  <<t, k, o>> \in LegacyRows /\ RelationLink(k, t, o) \subseteq V
    BY DEF TwoSided
  <2>2. <<t, k, o>> \in LegacyRows /\ RelationLink(k, t, o) \subseteq U
    BY <2>1 DEF TwoSided
  <2> QED
    BY <2>2
<1>2. ASSUME NEW r, Ready(r, g, isFiled, U)  PROVE Ready(r, g, isFiled, V)
  <2> DEFINE h == After(r, g)
  <2>1. /\ h \in Graphs /\ TwoSided(h, U)
        /\ \A i \in DOMAIN r.entries : /\ Within(r.entries[i].link, isFiled \cup r.files)
                                       /\ r.entries[i].add = TRUE <=> States(h, r.entries[i].link)
        /\ \A l \in Links : l \notin U /\ Within(l, isFiled \cup r.files) /\ ~In(r.entries, l) =>
             IF Within(l, isFiled) THEN States(h, l) <=> States(g, l) ELSE ~States(h, l)
    BY <1>2, Zenon DEF Ready
  <2> HIDE DEF h
  <2>2. TwoSided(h, V)
    BY <1>1, <2>1
  <2>3. \A l \in Links : l \notin V /\ Within(l, isFiled \cup r.files) /\ ~In(r.entries, l) =>
             IF Within(l, isFiled) THEN States(h, l) <=> States(g, l) ELSE ~States(h, l)
    BY <2>1
  <2> QED
    BY <2>1, <2>2, <2>3, Zenon DEF Ready, h
<1>3. ASSUME NEW r, Fits(r, g, isFiled, U)  PROVE Fits(r, g, isFiled, V)
  BY <1>2, <1>3, Zenon DEF Fits
<1> QED
  BY <1>1, <1>3

\* A step of the drainer or of the world, which no command takes part in.
LEMMA WorldKeeps ==
  ASSUME RelationsInv, UNCHANGED <<rel, filed, proc>>, off \subseteq off', off' \in SUBSET Links,
         links' \in SUBSET Links, outbox' \in Seq(Entry), backoff' \in SUBSET Tasks,
         spent' \in [DOMAIN Budgets -> Nat], \A b \in DOMAIN Budgets : spent'[b] <= Budgets[b],
         Agree(rel, outbox', links', filed, off'),
         \A l \in links' : Within(l, filed \cup Strangers),
         \A i \in DOMAIN outbox' : Within(outbox'[i].link, filed)
  PROVE  RelationsInv'
<1>1. RelationTypes'
  BY DEF RelationsInv, RelationTypes
<1>2. TwoSided(rel, off')
  BY UncountedFacts DEF RelationsInv
<1>3. \A p \in Procs : Fits(proc[p], rel, filed, off')
  BY UncountedFacts DEF RelationsInv
<1> QED
  BY <1>1, <1>2, <1>3 DEF RelationsInv

\* What is left of a queue without one of its entries.
LEMMA DequeueFacts ==
  ASSUME NEW q \in Seq(Entry), NEW i \in DOMAIN q, NEW c, c = RemoveAt(q, i)
  PROVE  /\ c \in Seq(Entry)
         /\ \A j \in DOMAIN c : \E m \in DOMAIN q :
              /\ m # i /\ c[j] = q[m]
              /\ LastOf(c, j) /\ (q[m].link # q[i].link \/ m > i) => LastOf(q, m)
         /\ \A m \in DOMAIN q : m # i => \E j \in DOMAIN c : c[j] = q[m]
<1>1. /\ c \in Seq(Entry)
      /\ \A j \in DOMAIN c : /\ j \in DOMAIN q /\ j + 1 \in DOMAIN q
                             /\ c[j] = q[IF j < i THEN j ELSE j + 1]
      /\ \A j \in DOMAIN q : j # i => \E m \in DOMAIN c : c[m] = q[j] /\ m = IF j < i THEN j ELSE j - 1
  BY RemoveAtFacts
<1>2. DOMAIN q \subseteq Nat /\ DOMAIN c \subseteq Nat /\ i \in Nat
  BY <1>1
<1>3. ASSUME NEW j \in DOMAIN c
      PROVE  \E m \in DOMAIN q :
               /\ m # i /\ c[j] = q[m]
               /\ LastOf(c, j) /\ (q[m].link # q[i].link \/ m > i) => LastOf(q, m)
  <2> DEFINE m == IF j < i THEN j ELSE j + 1
  <2>1. m \in DOMAIN q /\ m # i /\ c[j] = q[m] /\ j \in Nat
    BY <1>1, <1>2
  <2>2. ASSUME LastOf(c, j), q[m].link # q[i].link \/ m > i, NEW n \in DOMAIN q, n > m
        PROVE  q[n].link # q[m].link
    <3>1. CASE n = i
      BY <1>2, <2>1, <2>2, <3>1
    <3>2. CASE n # i
      <4>1. PICK s \in DOMAIN c : c[s] = q[n] /\ s = IF n < i THEN n ELSE n - 1
        BY <1>1, <3>2
      <4>2. s > j
        BY <1>2, <2>1, <2>2, <3>2, <4>1
      <4> QED
        BY <2>1, <2>2, <4>1, <4>2 DEF LastOf
    <3> QED
      BY <3>1, <3>2
  <2> HIDE DEF m
  <2> QED
    BY <2>1, <2>2 DEF LastOf
<1>4. \A m \in DOMAIN q : m # i => \E j \in DOMAIN c : c[j] = q[m]
  BY <1>1
<1> QED
  BY <1>1, <1>3, <1>4

\* A mutation changes at most its own link.
LEMMA ApplyFacts ==
  ASSUME NEW L \in SUBSET Links, NEW m, m.link \in Links, NEW K, K = ApplyMutation(L, m)
  PROVE  /\ K \in SUBSET Links
         /\ \A l : l # m.link => (l \in K <=> l \in L)
         /\ ~m.add => m.link \notin K
BY DEF ApplyMutation

\* The links between issues that can be linked stay so.
LEMMA ApplyWithin ==
  ASSUME NEW L, NEW m, NEW S, \A l \in L : Within(l, S), Within(m.link, S), NEW K, K = ApplyMutation(L, m)
  PROVE  \A l \in K : Within(l, S)
BY DEF ApplyMutation

\* A queued mutation is one of a link between filed tasks.
LEMMA HeadFacts ==
  ASSUME RelationsInv, NEW i \in DOMAIN outbox
  PROVE  /\ outbox \in Seq(Entry) /\ outbox[i].link \in Links /\ outbox[i].task \in Tasks
         /\ outbox[i].add \in BOOLEAN
         /\ Within(outbox[i].link, filed) /\ Within(outbox[i].link, filed \cup Strangers)
<1>1. outbox \in Seq(Entry) /\ Within(outbox[i].link, filed)
  BY DEF RelationsInv, RelationTypes
<1>2. outbox[i] \in Entry
  BY <1>1
<1>3. Within(outbox[i].link, filed \cup Strangers)
  BY <1>1 DEF Within
<1> QED
  BY <1>1, <1>2, <1>3 DEF Entry

\* A mutation sent: GitHub agrees, a younger one is queued, or the link no longer counts.
LEMMA DrainKeeps ==
  ASSUME RelationsInv, NEW i \in DOMAIN outbox, Drain(i)
  PROVE  RelationsInv'
<1> DEFINE m == outbox[i]
           c == RemoveAt(outbox, i)
           K == ApplyMutation(links, m)
<1>1. /\ links' = K /\ outbox' = c /\ UNCHANGED <<rel, filed, backoff, proc, spent>>
      /\ off' = IF Overtakes(i) \/ (m.add /\ m.link \notin K) THEN off \cup {m.link} ELSE off
  BY DEF Drain
<1>2. /\ outbox \in Seq(Entry) /\ m.link \in Links /\ m.add \in BOOLEAN /\ Within(m.link, filed)
      /\ Within(m.link, filed \cup Strangers)
  BY HeadFacts
<1>3. RelationTypes /\ links \in SUBSET Links /\ off \in SUBSET Links
  BY DEF RelationsInv, RelationTypes
<1>4. /\ c \in Seq(Entry)
      /\ \A j \in DOMAIN c : \E n \in DOMAIN outbox :
           /\ n # i /\ c[j] = outbox[n]
           /\ LastOf(c, j) /\ (outbox[n].link # outbox[i].link \/ n > i) => LastOf(outbox, n)
      /\ \A n \in DOMAIN outbox : n # i => \E j \in DOMAIN c : c[j] = outbox[n]
  BY <1>2, DequeueFacts
<1>5. /\ K \in SUBSET Links
      /\ \A l : l # m.link => (l \in K <=> l \in links)
      /\ ~m.add => m.link \notin K
  BY <1>2, <1>3, ApplyFacts
<1>6. \A l \in links : Within(l, filed \cup Strangers)
  BY DEF RelationsInv
<1>7. \A l \in K : Within(l, filed \cup Strangers)
  BY <1>2, <1>6, ApplyWithin
<1> HIDE DEF K, c
<1>8. off' \in SUBSET Links /\ off \subseteq off'
  BY <1>1, <1>2, <1>3
<1>9. m.link \notin off' => /\ \A n \in DOMAIN outbox : n # i /\ outbox[n].link = m.link => n > i
                            /\ m.add => m.link \in K
  BY <1>1, <1>2 DEF Overtakes
<1>10. Agree(rel, outbox, links, filed, off)
  BY DEF RelationsInv
<1>11. Agree(rel, c, K, filed, off')
  <2>1. SUFFICES ASSUME NEW l \in Links, l \notin off', Within(l, filed)
                 PROVE  /\ \A j \in DOMAIN c : c[j].link = l /\ LastOf(c, j)
                             => (c[j].add = TRUE <=> States(rel, l))
                        /\ In(c, l) \/ (l \in K <=> States(rel, l))
    BY DEF Agree
  <2>2. ASSUME NEW j \in DOMAIN c, c[j].link = l, LastOf(c, j)
        PROVE  c[j].add = TRUE <=> States(rel, l)
    <3>1. PICK n \in DOMAIN outbox :
            /\ n # i /\ c[j] = outbox[n]
            /\ LastOf(c, j) /\ (outbox[n].link # outbox[i].link \/ n > i) => LastOf(outbox, n)
      BY <1>4
    <3>2. outbox[n].link # outbox[i].link \/ n > i
      BY <1>9, <2>1, <2>2, <3>1
    <3>3. LastOf(outbox, n) /\ outbox[n].link = l
      BY <2>2, <3>1, <3>2
    <3> QED
      BY <1>8, <1>10, <2>1, <3>1, <3>3 DEF Agree
  <2>3. ASSUME ~In(c, l)  PROVE l \in K <=> States(rel, l)
    <3>1. \A n \in DOMAIN outbox : n # i => outbox[n].link # l
      BY <1>4, <2>3 DEF In
    <3>2. CASE l # m.link
      <4>1. ~In(outbox, l)
        BY <3>1, <3>2 DEF In
      <4> QED
        BY <1>5, <1>8, <1>10, <2>1, <3>2, <4>1 DEF Agree
    <3>3. CASE l = m.link
      <4>1. LastOf(outbox, i)
        BY <1>2, <3>1, <3>3 DEF LastOf
      <4>2. m.add = TRUE <=> States(rel, l)
        BY <1>8, <1>10, <2>1, <3>3, <4>1 DEF Agree
      <4>3. m.add => l \in K
        BY <1>9, <2>1, <3>3
      <4>4. ~m.add => l \notin K
        BY <1>5, <3>3
      <4> QED
        BY <1>2, <4>2, <4>3, <4>4
    <3> QED
      BY <3>2, <3>3
  <2> QED
    BY <2>2, <2>3
<1>12. \A j \in DOMAIN c : Within(c[j].link, filed)
  BY <1>4 DEF RelationsInv
<1>13. /\ backoff' \in SUBSET Tasks /\ spent' \in [DOMAIN Budgets -> Nat]
       /\ \A b \in DOMAIN Budgets : spent'[b] <= Budgets[b]
  BY <1>1, <1>3 DEF RelationTypes
<1> QED
  BY <1>1, <1>4, <1>5, <1>7, <1>8, <1>11, <1>12, <1>13, WorldKeeps

\* A failed mutation stays queued, so its link is not yet compared.
LEMMA DrainRetryKeeps ==
  ASSUME RelationsInv, NEW i \in DOMAIN outbox, NEW landed \in BOOLEAN, DrainRetry(i, landed)
  PROVE  RelationsInv'
<1> DEFINE m == outbox[i]
           K == IF landed THEN ApplyMutation(links, m) ELSE links
<1>1. /\ links' = K /\ backoff' = backoff \cup {m.task} /\ Spend("faults")
      /\ UNCHANGED <<rel, filed, outbox, proc>>
      /\ off' = IF landed /\ Overtakes(i) THEN off \cup {m.link} ELSE off
  BY DEF DrainRetry
<1>2. /\ outbox \in Seq(Entry) /\ m.link \in Links /\ m.task \in Tasks
      /\ Within(m.link, filed \cup Strangers)
  BY HeadFacts
<1>3. RelationTypes /\ links \in SUBSET Links /\ off \in SUBSET Links /\ backoff \in SUBSET Tasks
  BY DEF RelationsInv, RelationTypes
<1>4. /\ K \in SUBSET Links
      /\ \A l : l # m.link => (l \in K <=> l \in links)
  BY <1>2, <1>3, ApplyFacts
<1>5. \A l \in links : Within(l, filed \cup Strangers)
  BY DEF RelationsInv
<1>6. \A l \in K : Within(l, filed \cup Strangers)
  BY <1>2, <1>5, ApplyWithin
<1> HIDE DEF K
<1>7. off' \in SUBSET Links /\ off \subseteq off'
  BY <1>1, <1>2, <1>3
<1>8. In(outbox, m.link)
  BY DEF In
<1>9. Agree(rel, outbox, links, filed, off)
  BY DEF RelationsInv
<1>10. Agree(rel, outbox, K, filed, off')
  <2>1. ASSUME NEW l \in Links, l \notin off', Within(l, filed)
        PROVE  /\ \A j \in DOMAIN outbox : outbox[j].link = l /\ LastOf(outbox, j)
                             => (outbox[j].add = TRUE <=> States(rel, l))
               /\ In(outbox, l) \/ (l \in K <=> States(rel, l))
    BY <1>4, <1>7, <1>8, <1>9, <2>1 DEF Agree
  <2> QED
    BY <2>1 DEF Agree
<1>11. spent' \in [DOMAIN Budgets -> Nat] /\ \A b \in DOMAIN Budgets : spent'[b] <= Budgets[b]
  BY <1>1, <1>3, SpendKeeps
<1>12. backoff' \in SUBSET Tasks
  BY <1>1, <1>2, <1>3
<1>13. \A j \in DOMAIN outbox : Within(outbox[j].link, filed)
  BY DEF RelationsInv
<1> QED
  BY <1>1, <1>2, <1>4, <1>6, <1>7, <1>10, <1>11, <1>12, <1>13, WorldKeeps

\* A dead letter's link no longer counts.
LEMMA DeadLetterKeeps ==
  ASSUME RelationsInv, NEW i \in DOMAIN outbox, DeadLetter(i)
  PROVE  RelationsInv'
<1> DEFINE m == outbox[i]
           c == RemoveAt(outbox, i)
<1>1. /\ outbox' = c /\ Spend("faults") /\ UNCHANGED <<rel, filed, links, backoff, proc>>
      /\ off' = off \cup {m.link}
  BY DEF DeadLetter
<1>2. outbox \in Seq(Entry) /\ m.link \in Links
  BY HeadFacts
<1>3. RelationTypes /\ links \in SUBSET Links /\ off \in SUBSET Links /\ backoff \in SUBSET Tasks
  BY DEF RelationsInv, RelationTypes
<1>4. /\ c \in Seq(Entry)
      /\ \A j \in DOMAIN c : \E n \in DOMAIN outbox :
           /\ n # i /\ c[j] = outbox[n]
           /\ LastOf(c, j) /\ (outbox[n].link # outbox[i].link \/ n > i) => LastOf(outbox, n)
      /\ \A n \in DOMAIN outbox : n # i => \E j \in DOMAIN c : c[j] = outbox[n]
  BY <1>2, DequeueFacts
<1> HIDE DEF c
<1>5. off' \in SUBSET Links /\ off \subseteq off' /\ m.link \in off'
  BY <1>1, <1>2, <1>3
<1>6. Agree(rel, outbox, links, filed, off)
  BY DEF RelationsInv
<1>7. Agree(rel, c, links, filed, off')
  <2>1. SUFFICES ASSUME NEW l \in Links, l \notin off', Within(l, filed)
                 PROVE  /\ \A j \in DOMAIN c : c[j].link = l /\ LastOf(c, j)
                             => (c[j].add = TRUE <=> States(rel, l))
                        /\ In(c, l) \/ (l \in links <=> States(rel, l))
    BY DEF Agree
  <2>2. ASSUME NEW j \in DOMAIN c, c[j].link = l, LastOf(c, j)
        PROVE  c[j].add = TRUE <=> States(rel, l)
    <3>1. PICK n \in DOMAIN outbox :
            /\ n # i /\ c[j] = outbox[n]
            /\ LastOf(c, j) /\ (outbox[n].link # outbox[i].link \/ n > i) => LastOf(outbox, n)
      BY <1>4
    <3>2. LastOf(outbox, n) /\ outbox[n].link = l
      BY <1>5, <2>1, <2>2, <3>1
    <3> QED
      BY <1>5, <1>6, <2>1, <3>1, <3>2 DEF Agree
  <2>3. ASSUME ~In(c, l)  PROVE l \in links <=> States(rel, l)
    <3>1. ~In(outbox, l)
      BY <1>4, <1>5, <2>1, <2>3 DEF In
    <3> QED
      BY <1>5, <1>6, <2>1, <3>1 DEF Agree
  <2> QED
    BY <2>2, <2>3
<1>8. \A j \in DOMAIN c : Within(c[j].link, filed)
  BY <1>4 DEF RelationsInv
<1>9. spent' \in [DOMAIN Budgets -> Nat] /\ \A b \in DOMAIN Budgets : spent'[b] <= Budgets[b]
  BY <1>1, <1>3, SpendKeeps
<1>10. \A l \in links : Within(l, filed \cup Strangers)
  BY DEF RelationsInv
<1> QED
  BY <1>1, <1>3, <1>4, <1>5, <1>7, <1>8, <1>9, <1>10, WorldKeeps

\* A link GitHub's users change no longer counts.
LEMMA RemoteEditKeeps ==
  ASSUME RelationsInv, NEW e \in Links, NEW add \in BOOLEAN, RemoteEdit(e, add)
  PROVE  RelationsInv'
<1> DEFINE m == [link |-> e, add |-> add]
           K == ApplyMutation(links, m)
<1>1. /\ links' = K /\ Spend("edits") /\ off' = off \cup {e}
      /\ UNCHANGED <<rel, filed, outbox, backoff, proc>>
      /\ Within(e, filed \cup Strangers)
  BY DEF RemoteEdit, Within
<1>2. m.link = e
  OBVIOUS
<1> HIDE DEF m
<1>3. /\ RelationTypes /\ links \in SUBSET Links /\ off \in SUBSET Links /\ backoff \in SUBSET Tasks
      /\ outbox \in Seq(Entry)
  BY DEF RelationsInv, RelationTypes
<1>4. K \in SUBSET Links /\ \A l : l # e => (l \in K <=> l \in links)
  BY <1>2, <1>3, ApplyFacts
<1>5. \A l \in links : Within(l, filed \cup Strangers)
  BY DEF RelationsInv
<1>6. \A l \in K : Within(l, filed \cup Strangers)
  BY <1>1, <1>2, <1>5, ApplyWithin
<1> HIDE DEF K
<1>7. off' \in SUBSET Links /\ off \subseteq off' /\ e \in off'
  BY <1>1, <1>3
<1>8. Agree(rel, outbox, links, filed, off)
  BY DEF RelationsInv
<1>9. Agree(rel, outbox, K, filed, off')
  <2>1. ASSUME NEW l \in Links, l \notin off', Within(l, filed)
        PROVE  /\ \A j \in DOMAIN outbox : outbox[j].link = l /\ LastOf(outbox, j)
                             => (outbox[j].add = TRUE <=> States(rel, l))
               /\ In(outbox, l) \/ (l \in K <=> States(rel, l))
    BY <1>4, <1>7, <1>8, <2>1 DEF Agree
  <2> QED
    BY <2>1 DEF Agree
<1>10. spent' \in [DOMAIN Budgets -> Nat] /\ \A b \in DOMAIN Budgets : spent'[b] <= Budgets[b]
  BY <1>1, <1>3, SpendKeeps
<1>11. \A j \in DOMAIN outbox : Within(outbox[j].link, filed)
  BY DEF RelationsInv
<1> QED
  BY <1>1, <1>3, <1>4, <1>6, <1>7, <1>9, <1>10, <1>11, WorldKeeps

\* A queue whose wait is over.
LEMMA BackoffElapsesKeeps ==
  ASSUME RelationsInv, BackoffElapses
  PROVE  RelationsInv'
<1>1. backoff' = {} /\ UNCHANGED <<rel, filed, links, outbox, proc, off, spent>>
  BY DEF BackoffElapses
<1>2. RelationTypes'
  BY <1>1 DEF RelationsInv, RelationTypes
<1> QED
  BY <1>1, <1>2 DEF RelationsInv

(* What a pull has made of the graph g0: reciprocals move together, and only *)
(* edges between filed tasks do.                                             *)
Moves(w, t, g0, isFiled) ==
  /\ w.g \in Graphs /\ w.touched \in SUBSET Tasks
  /\ \A u \in Tasks : u # t /\ u \notin w.touched => w.g[u] = g0[u]
  /\ w.touched = {} => w.g = g0
  /\ \A u \in Tasks, j \in Kinds, v \in Tasks :
       <<j, v>> \in w.g[u] /\ <<InverseKind(j), u>> \notin w.g[v]
         => <<j, v>> \in g0[u] /\ <<InverseKind(j), u>> \notin g0[v]
  /\ \A u \in Tasks, j \in Kinds, v \in Tasks :
       u \notin isFiled \/ v \notin isFiled => (<<j, v>> \in w.g[u] <=> <<j, v>> \in g0[u])

\* Edges moved with their reciprocals.
LEMMA MoveEdgesMoves ==
  ASSUME NEW g0 \in Graphs, NEW isFiled \in SUBSET Tasks, NEW t \in isFiled, NEW w, Moves(w, t, g0, isFiled),
         NEW k \in Kinds, NEW add \in SUBSET isFiled, NEW del \in SUBSET isFiled,
         add \cap del = {}, t \notin add, t \notin del,
         NEW m, m = MoveEdges(w, t, k, add, del)
  PROVE  Moves(m, t, g0, isFiled)
<1> DEFINE b == InverseKind(k)
           g == w.g
<1>1. /\ g \in Graphs /\ w.touched \in SUBSET Tasks /\ t \in Tasks
      /\ b \in Kinds /\ InverseKind(b) = k
  BY KindFacts DEF Moves
<1>2. m.touched = w.touched \cup add \cup del
  BY DEF MoveEdges
<1>3. m.g = [u \in Tasks |->
              CASE u = t -> (g[t] \cup {<<k, o>> : o \in add}) \ {<<k, o>> : o \in del}
                [] u \in add -> g[u] \cup {<<b, t>>}
                [] u \in del -> g[u] \ {<<b, t>>}
                [] OTHER -> g[u]]
  BY DEF MoveEdges
<1> HIDE DEF b, g
<1>4. /\ m.g[t] = (g[t] \cup {<<k, o>> : o \in add}) \ {<<k, o>> : o \in del}
      /\ \A u \in Tasks : u \in add => m.g[u] = g[u] \cup {<<b, t>>}
      /\ \A u \in Tasks : u \in del => m.g[u] = g[u] \ {<<b, t>>}
      /\ \A u \in Tasks : u # t /\ u \notin add /\ u \notin del => m.g[u] = g[u]
  <2>1. m.g[t] = (g[t] \cup {<<k, o>> : o \in add}) \ {<<k, o>> : o \in del}
    BY <1>1, <1>3
  <2>2. ASSUME NEW u \in Tasks, u \in add  PROVE m.g[u] = g[u] \cup {<<b, t>>}
    BY <1>3, <2>2
  <2>3. ASSUME NEW u \in Tasks, u \in del  PROVE m.g[u] = g[u] \ {<<b, t>>}
    BY <1>3, <2>3
  <2>4. ASSUME NEW u \in Tasks, u # t, u \notin add, u \notin del  PROVE m.g[u] = g[u]
    BY <1>3, <2>4
  <2> QED
    BY <2>1, <2>2, <2>3, <2>4
<1>5. ASSUME NEW j \in Kinds, NEW v \in Tasks
      PROVE  /\ <<j, v>> \in m.g[t] <=> (<<j, v>> \in g[t] \/ (j = k /\ v \in add)) /\ ~(j = k /\ v \in del)
             /\ \A u \in add : <<j, v>> \in m.g[u] <=> <<j, v>> \in g[u] \/ (j = b /\ v = t)
             /\ \A u \in del : <<j, v>> \in m.g[u] <=> <<j, v>> \in g[u] /\ ~(j = b /\ v = t)
  BY <1>4
<1>6. \A u \in Tasks : g[u] \in SUBSET (Kinds \X Tasks)
  BY <1>1 DEF Graphs
<1>7. m.g \in Graphs
  <2>1. ASSUME NEW u \in Tasks  PROVE m.g[u] \in SUBSET (Kinds \X Tasks)
    <3>1. CASE u = t
      BY <1>4, <1>6, <3>1
    <3>2. CASE u # t
      BY <1>1, <1>4, <1>6, <3>2
    <3> QED
      BY <3>1, <3>2
  <2>2. m.g = [u \in Tasks |-> m.g[u]]
    BY <1>3
  <2> HIDE DEF Graphs
  <2> QED
    BY <2>1, <2>2 DEF Graphs
<1>8. ASSUME NEW u \in Tasks, u # t, u \notin m.touched  PROVE m.g[u] = g0[u]
  BY <1>2, <1>4, <1>8 DEF Moves, g
<1>9. ASSUME m.touched = {}  PROVE m.g = g0
  <2>1. add = {} /\ del = {} /\ w.touched = {}
    BY <1>2, <1>9
  <2>2. g = g0
    BY <2>1 DEF Moves, g
  <2>3. m.g[t] = g[t]
    <3>1. {<<k, o>> : o \in add} = {} /\ {<<k, o>> : o \in del} = {}
      BY <2>1
    <3> QED
      BY <1>4, <3>1
  <2>4. \A u \in Tasks : m.g[u] = g[u]
    BY <1>4, <2>1, <2>3
  <2> QED
    BY <1>1, <1>7, <2>2, <2>4 DEF Graphs
<1>10. ASSUME NEW u \in Tasks, NEW j \in Kinds, NEW v \in Tasks,
              <<j, v>> \in m.g[u], <<InverseKind(j), u>> \notin m.g[v]
       PROVE  <<j, v>> \in g0[u] /\ <<InverseKind(j), u>> \notin g0[v]
  <2> DEFINE i == InverseKind(j)
  <2>1. i \in Kinds /\ InverseKind(i) = j
    BY KindFacts
  <2>2. /\ u = t /\ j = k => v \notin add
        /\ u \in add => ~(j = b /\ v = t)
    <3>1. ASSUME u = t, j = k, v \in add  PROVE FALSE
      BY <1>4, <1>10, <3>1 DEF b
    <3>2. ASSUME u \in add, j = b, v = t  PROVE FALSE
      <4>1. InverseKind(j) = k
        BY <1>1, <3>2
      <4>2. <<k, u>> \in m.g[t]
        BY <1>5, <3>2
      <4> QED
        BY <1>10, <3>2, <4>1, <4>2
    <3> QED
      BY <3>1, <3>2
  <2>3. <<j, v>> \in g[u] /\ (u = t /\ j = k => v \notin del) /\ (u \in del => ~(j = b /\ v = t))
    <3>1. CASE u = t
      BY <1>5, <1>10, <2>2, <3>1
    <3>2. CASE u \in add
      BY <1>5, <1>10, <2>2, <3>2
    <3>3. CASE u \in del
      BY <1>5, <1>10, <3>3
    <3>4. CASE u # t /\ u \notin add /\ u \notin del
      BY <1>4, <1>10, <3>4
    <3> QED
      BY <3>1, <3>2, <3>3, <3>4
  <2>4. i = k => j = b
    BY <2>1 DEF b
  <2>5. i = b => j = k
    BY <1>1, <2>1
  <2>6. i = InverseKind(j)
    OBVIOUS
  <2> HIDE DEF i
  <2>7. <<i, u>> \notin g[v]
    <3>1. SUFFICES ASSUME <<i, u>> \in g[v]  PROVE FALSE
      OBVIOUS
    <3>2. CASE v = t
      BY <1>5, <1>10, <2>1, <2>3, <2>4, <2>6, <3>1, <3>2
    <3>3. CASE v \in add
      BY <1>5, <1>10, <2>1, <2>6, <3>1, <3>3
    <3>4. CASE v \in del
      BY <1>5, <1>10, <2>1, <2>3, <2>5, <2>6, <3>1, <3>4
    <3>5. CASE v # t /\ v \notin add /\ v \notin del
      BY <1>4, <1>10, <2>6, <3>1, <3>5
    <3> QED
      BY <3>2, <3>3, <3>4, <3>5
  <2> QED
    BY <2>3, <2>6, <2>7 DEF Moves, g
<1>11. ASSUME NEW u \in Tasks, NEW j \in Kinds, NEW v \in Tasks, u \notin isFiled \/ v \notin isFiled
       PROVE  <<j, v>> \in m.g[u] <=> <<j, v>> \in g0[u]
  <2>1. <<j, v>> \in g[u] <=> <<j, v>> \in g0[u]
    BY <1>11 DEF Moves, g
  <2>2. <<j, v>> \in m.g[u] <=> <<j, v>> \in g[u]
    <3>1. CASE u = t
      BY <1>5, <1>11, <3>1
    <3>2. CASE u \in add
      BY <1>5, <1>11, <3>2
    <3>3. CASE u \in del
      BY <1>5, <1>11, <3>3
    <3>4. CASE u # t /\ u \notin add /\ u \notin del
      BY <1>4, <3>4
    <3> QED
      BY <3>1, <3>2, <3>3, <3>4
  <2> QED
    BY <2>1, <2>2
<1>12. m.touched \in SUBSET Tasks
  BY <1>1, <1>2
<1> QED
  BY <1>7, <1>8, <1>9, <1>10, <1>11, <1>12 DEF Moves

\* One family of edges moved to what GitHub reports.
LEMMA FamilyMoves ==
  ASSUME NEW g0 \in Graphs, filed \in SUBSET Tasks, NEW t \in filed, NEW w, Moves(w, t, g0, filed),
         NEW k \in Kinds, NEW desired \in SUBSET filed, NEW m, m = ReconcileFamily(w, t, k, desired)
  PROVE  Moves(m, t, g0, filed)
<1> DEFINE cur == Current(w, t, k)
           add == (desired \ cur) \ {t}
           del == ((cur \ desired) \ {t}) \cap filed
<1>1. m = MoveEdges(w, t, k, add, del)
  BY DEF ReconcileFamily
<1>2. add \in SUBSET filed /\ del \in SUBSET filed /\ add \cap del = {} /\ t \notin add /\ t \notin del
  OBVIOUS
<1> HIDE DEF add, del
<1> QED
  BY <1>1, <1>2, MoveEdgesMoves

\* The three families of a pull.
LEMMA ReconciledMoves ==
  ASSUME RelationsInv, NEW p \in Procs, proc[p].pc = "parent", NEW parents,
         NEW w, w = Reconciled(p, parents)
  PROVE  Moves(w, proc[p].t, rel, filed)
<1> DEFINE t == proc[p].t
           w0 == [g |-> [rel EXCEPT ![t] = proc[p].copy], touched |-> {}]
           w1 == ReconcileFamily(w0, t, "ParentOf", MapRemoteToLocal(proc[p].subs))
           w2 == ReconcileFamily(w1, t, "BlockedBy", MapRemoteToLocal(proc[p].blockers))
<1>1. w = ReconcileParent(w2, t, parents)
  BY DEF Reconciled
<1>2. t \in filed /\ proc[p].copy = rel[t] /\ rel \in Graphs /\ filed \in SUBSET Tasks
  BY DEF RelationsInv, RelationTypes, Fits
<1>3. w0.g = rel /\ w0.touched = {}
  BY <1>2 DEF Graphs
<1> HIDE DEF w0, t
<1>4. Moves(w0, t, rel, filed)
  BY <1>2, <1>3 DEF Moves
<1>5. \A i : MapRemoteToLocal(i) \in SUBSET filed
  BY DEF MapRemoteToLocal
<1>6. "ParentOf" \in Kinds /\ "BlockedBy" \in Kinds /\ "ChildOf" \in Kinds
  BY DEF Kinds
<1>7. Moves(w1, t, rel, filed)
  <2> DEFINE k == "ParentOf"
             desired == MapRemoteToLocal(proc[p].subs)
  <2>1. k \in Kinds /\ desired \in SUBSET filed /\ w1 = ReconcileFamily(w0, t, k, desired)
    BY <1>5, <1>6
  <2> HIDE DEF k, desired, w1
  <2> QED
    BY <1>2, <1>4, <2>1, FamilyMoves
<1> HIDE DEF w1
<1>8. Moves(w2, t, rel, filed)
  <2> DEFINE k == "BlockedBy"
             desired == MapRemoteToLocal(proc[p].blockers)
  <2>1. k \in Kinds /\ desired \in SUBSET filed /\ w2 = ReconcileFamily(w1, t, k, desired)
    BY <1>5, <1>6
  <2> HIDE DEF k, desired, w2
  <2> QED
    BY <1>2, <1>7, <2>1, FamilyMoves
<1> HIDE DEF w2
<1> DEFINE k == "ChildOf"
           desired == MapRemoteToLocal(parents) \ {t}
<1>9. k \in Kinds /\ desired \in SUBSET filed /\ (w = w2 \/ w = ReconcileFamily(w2, t, k, desired))
  BY <1>1, <1>5, <1>6 DEF ReconcileParent
<1> HIDE DEF k, desired
<1>10. CASE w = ReconcileFamily(w2, t, k, desired)
  <2>1. /\ rel \in Graphs /\ filed \in SUBSET Tasks /\ t \in filed /\ Moves(w2, t, rel, filed)
        /\ k \in Kinds /\ desired \in SUBSET filed /\ w = ReconcileFamily(w2, t, k, desired)
    BY <1>2, <1>8, <1>9, <1>10
  <2>2. Moves(w, t, rel, filed)
    BY <2>1, FamilyMoves
  <2> QED
    BY <2>2 DEF t
<1> QED
  BY <1>8, <1>9, <1>10, Zenon DEF t

\* What a pull stores is what it made of the graph.
LEMMA PulledGraph ==
  ASSUME RelationsInv, NEW p \in Procs, PullReconcile(p)
  PROVE  /\ Moves([g |-> rel', touched |-> Tasks], proc[p].t, rel, filed)
         /\ off' = (off \ {l \in (LocalLinks(rel) \ LocalLinks(rel')) \cup (LocalLinks(rel') \ LocalLinks(rel)) :
                             ~In(outbox, l)})
                   \cup {l \in (LocalLinks(rel) \ LocalLinks(rel')) \cup (LocalLinks(rel') \ LocalLinks(rel)) :
                             In(outbox, l) \/ ((l \in links) # (l \in LocalLinks(rel')))}
<1> DEFINE t == proc[p].t
           w == Reconciled(p, FetchParent(t))
           g == [u \in Tasks |-> IF u \in {t} \cup w.touched THEN w.g[u] ELSE rel[u]]
           moved == (LocalLinks(rel) \ LocalLinks(g)) \cup (LocalLinks(g) \ LocalLinks(rel))
<1>1. /\ proc[p].pc = "parent" /\ rel' = IF w.touched = {} THEN rel ELSE g
      /\ off' = (off \ {l \in moved : ~Queued(l)})
                \cup {l \in moved : Queued(l) \/ ((l \in links) # (l \in LocalLinks(g)))}
  BY DEF PullReconcile
<1>2. Moves(w, t, rel, filed)
  BY <1>1, ReconciledMoves
<1> HIDE DEF w
<1>3. \A l : Queued(l) <=> In(outbox, l)
  BY DEF Queued, In
<1>4. g = w.g
  <2>1. w.g \in Graphs /\ \A u \in Tasks : u # t /\ u \notin w.touched => w.g[u] = rel[u]
    BY <1>2 DEF Moves
  <2> QED
    BY <2>1 DEF Graphs
<1>5. rel' = g
  BY <1>1, <1>2, <1>4 DEF Moves
<1> HIDE DEF g
<1>6. Moves([g |-> g, touched |-> Tasks], t, rel, filed)
  <2> DEFINE z == [g |-> g, touched |-> Tasks]
  <2>1. z.g = w.g /\ z.touched = Tasks
    BY <1>4
  <2>2. Tasks = {} => w.g = rel
    BY <1>2 DEF Moves, Graphs
  <2> HIDE DEF z
  <2>3. Moves(z, t, rel, filed)
    BY <1>2, <2>1, <2>2 DEF Moves
  <2> QED
    BY <2>3 DEF z
<1> QED
  BY <1>1, <1>3, <1>5, <1>6

\* A pull that reconciles keeps the graph two-sided and counts what it cannot settle.
LEMMA PullReconcileKeeps ==
  ASSUME RelationsInv, NEW p \in Procs, PullReconcile(p)
  PROVE  RelationsInv'
<1> DEFINE z == [g |-> rel', touched |-> Tasks]
           now == LocalLinks(rel')
           was == LocalLinks(rel)
           moved == (was \ now) \cup (now \ was)
<1>1. Moves(z, proc[p].t, rel, filed)
  BY PulledGraph
<1>2. off' = (off \ {l \in moved : ~In(outbox, l)})
             \cup {l \in moved : In(outbox, l) \/ ((l \in links) # (l \in now))}
  BY PulledGraph
<1>3. proc[p].pc = "parent" /\ proc' = [proc EXCEPT ![p] = Idle]
      /\ UNCHANGED <<filed, links, outbox, backoff, spent>>
  BY DEF PullReconcile
<1>4. z.g = rel'
  OBVIOUS
<1> HIDE DEF z
<1>5. /\ rel' \in Graphs
      /\ \A u \in Tasks, j \in Kinds, v \in Tasks :
           <<j, v>> \in rel'[u] /\ <<InverseKind(j), u>> \notin rel'[v]
             => <<j, v>> \in rel[u] /\ <<InverseKind(j), u>> \notin rel[v]
  BY <1>1, <1>4 DEF Moves
<1>6. RelationTypes /\ rel \in Graphs /\ off \in SUBSET Links /\ proc \in [Procs -> Place]
  BY DEF RelationsInv, RelationTypes
<1>7. \A l : l \in was <=> States(rel, l)
  BY <1>6, StatesFacts
<1>8. \A l : l \in now <=> States(rel', l)
  <2> DEFINE g == rel'
  <2>1. g \in Graphs /\ now = LocalLinks(g)
    BY <1>5
  <2> HIDE DEF g, now
  <2>2. \A l : l \in now <=> States(g, l)
    BY <2>1, StatesFacts
  <2> QED
    BY <2>2 DEF g
<1>9. was \subseteq Links /\ now \subseteq Links
  <2> DEFINE g == rel'
  <2>1. g \in Graphs /\ now = LocalLinks(g)
    BY <1>5
  <2> HIDE DEF g, now
  <2> QED
    BY <1>6, <2>1, StatesFacts
<1> HIDE DEF was, now
<1>10. off' \in SUBSET Links /\ \A l : l \in off /\ l \notin moved => l \in off'
  BY <1>2, <1>6, <1>9
<1>11. /\ proc' \in [Procs -> Place] /\ \A q \in Procs : proc'[q].pc = "idle"
  BY <1>3, <1>6, IdlePlace, StaysAlone
<1>12. RelationTypes'
  BY <1>3, <1>5, <1>6, <1>10, <1>11 DEF RelationTypes
<1>13. TwoSided(rel', off')
  <2>1. SUFFICES ASSUME NEW u \in Tasks, NEW j \in Kinds, NEW v \in Tasks, <<j, v>> \in rel'[u],
                        <<InverseKind(j), u>> \notin rel'[v]
                 PROVE  <<u, j, v>> \in LegacyRows /\ RelationLink(j, u, v) \subseteq off'
    BY DEF TwoSided
  <2>2. <<j, v>> \in rel[u] /\ <<InverseKind(j), u>> \notin rel[v]
    BY <1>5, <2>1
  <2>3. <<u, j, v>> \in LegacyRows /\ RelationLink(j, u, v) \subseteq off
    BY <2>2 DEF RelationsInv, TwoSided
  <2>4. \A l \in RelationLink(j, u, v) : l \in now /\ l \in was
    BY <1>7, <1>8, <2>1, <2>2 DEF States
  <2> QED
    BY <1>10, <2>3, <2>4
<1>14. Agree(rel, outbox, links, filed, off)
  BY DEF RelationsInv
<1>15. Agree(rel', outbox, links, filed, off')
  <2>1. SUFFICES ASSUME NEW l \in Links, l \notin off', Within(l, filed)
                 PROVE  /\ \A i \in DOMAIN outbox : outbox[i].link = l /\ LastOf(outbox, i)
                             => (outbox[i].add = TRUE <=> States(rel', l))
                        /\ In(outbox, l) \/ (l \in links <=> States(rel', l))
    BY DEF Agree
  <2>2. CASE l \in moved
    <3>1. ~In(outbox, l) /\ (l \in links <=> l \in now)
      BY <1>2, <2>1, <2>2
    <3> QED
      BY <1>8, <3>1 DEF In
  <2>3. CASE l \notin moved
    <3>1. States(rel', l) <=> States(rel, l)
      BY <1>7, <1>8, <2>3
    <3>2. l \notin off
      BY <1>10, <2>1, <2>3
    <3> QED
      BY <1>14, <2>1, <3>1, <3>2 DEF Agree
  <2> QED
    BY <2>2, <2>3
<1>16. \A q \in Procs : Fits(proc'[q], rel', filed, off')
  BY <1>11 DEF Fits
<1> QED
  BY <1>3, <1>11, <1>12, <1>13, <1>15, <1>16 DEF RelationsInv

\* The state a store with legacy rows starts in.
LEMMA RelationsInvInit ==
  ASSUME Init  PROVE RelationsInv
<1>1. PICK rows \in SUBSET LegacyRows :
        rel = [t \in Tasks |-> {<<r[2], r[3]>> : r \in {q \in rows : q[1] = t}}]
  BY DEF Init
<1>2. /\ filed = Filed0 /\ links = {} /\ outbox = <<>> /\ backoff = {} /\ proc = [p \in Procs |-> Idle]
      /\ off = LocalLinks(LegacyRel) /\ spent = [b \in DOMAIN Budgets |-> 0]
  BY DEF Init
<1>3. \A x \in LegacyRows : x[1] \in Tasks /\ x[2] \in Kinds /\ x[3] \in Tasks /\ x = <<x[1], x[2], x[3]>>
  BY RelationsAssumption
<1>4. ASSUME NEW t \in Tasks, NEW k \in Kinds, NEW o \in Tasks, <<k, o>> \in rel[t]
      PROVE  <<t, k, o>> \in LegacyRows /\ <<k, o>> \in LegacyRel[t]
  <2>1. PICK x \in rows : x[1] = t /\ <<k, o>> = <<x[2], x[3]>>
    BY <1>1, <1>4
  <2>2. x \in LegacyRows /\ x[1] = t /\ x[2] = k /\ x[3] = o
    BY <2>1
  <2>3. <<t, k, o>> \in LegacyRows
    BY <1>3, <2>2
  <2>4. LegacyRel[t] = {<<r[2], r[3]>> : r \in {q \in LegacyRows : q[1] = t}}
    BY DEF LegacyRel
  <2>5. <<k, o>> \in LegacyRel[t]
    BY <2>2, <2>4
  <2> QED
    BY <2>3, <2>5
<1>5. rel \in Graphs
  BY <1>1, <1>3 DEF Graphs
<1>6. LegacyRel \in Graphs
  BY <1>3 DEF Graphs, LegacyRel
<1>7. off \in SUBSET Links /\ \A l : l \in off <=> States(LegacyRel, l)
  BY <1>2, <1>6, StatesFacts
<1>8. proc \in [Procs -> Place] /\ \A p \in Procs : proc[p].pc = "idle"
  BY <1>2, IdlePlace
<1>9. RelationTypes
  <2>1. spent \in [DOMAIN Budgets -> Nat] /\ \A b \in DOMAIN Budgets : spent[b] <= Budgets[b]
    BY <1>2, BudgetFacts
  <2> QED
    BY <1>2, <1>5, <1>7, <1>8, <2>1, RelationsAssumption DEF RelationTypes
<1>10. TwoSided(rel, off)
  <2>1. SUFFICES ASSUME NEW t \in Tasks, NEW k \in Kinds, NEW o \in Tasks, <<k, o>> \in rel[t]
                 PROVE  <<t, k, o>> \in LegacyRows /\ RelationLink(k, t, o) \subseteq off
    BY DEF TwoSided
  <2> QED
    BY <1>4, <1>7, <2>1 DEF States
<1>11. Agree(rel, outbox, links, filed, off)
  <2>1. \A l : States(rel, l) => States(LegacyRel, l)
    BY <1>4 DEF States
  <2> QED
    BY <1>2, <1>7, <2>1 DEF Agree
<1>12. \A p \in Procs : Fits(proc[p], rel, filed, off)
  BY <1>8 DEF Fits
<1> QED
  BY <1>2, <1>8, <1>9, <1>10, <1>11, <1>12 DEF RelationsInv

\* Every step of commands that do not overlap keeps the invariant.
LEMMA RelationsInvStep ==
  ASSUME Overlap = FALSE, RelationsInv, [Next]_vars  PROVE RelationsInv'
<1>1. ASSUME NEW p \in Procs, Command(p)  PROVE RelationsInv'
  <2>1. ASSUME NEW t \in Tasks, NEW o \in Tasks, NEW k \in UsedKinds, AddRelation(p, t, k, o)
        PROVE  RelationsInv'
    BY <2>1, AddRelationKeeps
  <2>2. ASSUME NEW t \in Tasks, NEW o \in Tasks, NEW k \in UsedKinds, RemoveRelation(p, t, k, o)
        PROVE  RelationsInv'
    BY <2>2, RemoveRelationKeeps
  <2>3. ASSUME NEW t \in Tasks, ClearRelations(p, t) \/ PromoteBegin(p, t)  PROVE RelationsInv'
    BY <2>3, ClearRelationsKeeps, PromoteBeginKeeps
  <2>4. CASE PromotePlan(p) \/ Save(p)
    BY <2>4, PromotePlanKeeps, SaveKeeps
  <2> QED
    BY <1>1, <2>1, <2>2, <2>3, <2>4 DEF Command
<1>2. ASSUME NEW p \in Procs, Pull(p)  PROVE RelationsInv'
  <2>1. ASSUME NEW t \in Tasks, PullBegin(p, t)  PROVE RelationsInv'
    BY <2>1, PullBeginKeeps
  <2>2. CASE PullContent(p) \/ FetchSubIssues(p) \/ FetchBlockedBy(p) \/ PullReconcile(p)
    BY <2>2, PullContentKeeps, FetchKeeps, PullReconcileKeeps
  <2> QED
    BY <1>2, <2>1, <2>2 DEF Pull
<1>3. ASSUME Drainer  PROVE RelationsInv'
  <2>1. ASSUME NEW i \in DOMAIN outbox, Drain(i) \/ DeadLetter(i)  PROVE RelationsInv'
    BY <2>1, DrainKeeps, DeadLetterKeeps
  <2>2. ASSUME NEW i \in DOMAIN outbox, NEW landed \in BOOLEAN, DrainRetry(i, landed)  PROVE RelationsInv'
    BY <2>2, DrainRetryKeeps
  <2>3. CASE BackoffElapses
    BY <2>3, BackoffElapsesKeeps
  <2> QED
    BY <1>3, <2>1, <2>2, <2>3 DEF Drainer
<1>4. ASSUME NEW l \in Links, NEW add \in BOOLEAN, RemoteEdit(l, add)  PROVE RelationsInv'
  BY <1>4, RemoteEditKeeps
<1>5. CASE UNCHANGED vars
  BY <1>5 DEF RelationsInv, RelationTypes, vars
<1> QED
  BY <1>1, <1>2, <1>3, <1>4, <1>5 DEF Next

\* What the invariant promises to a reader of the graph.
LEMMA RelationsInvSound ==
  ASSUME RelationsInv  PROVE RelationsAreSound
<1>1. /\ rel \in Graphs /\ filed \in SUBSET Tasks /\ links \in SUBSET Links /\ off \in SUBSET Links
      /\ outbox \in Seq(Entry) /\ backoff \in SUBSET Tasks /\ proc \in [Procs -> Place]
      /\ spent \in [DOMAIN Budgets -> Nat] /\ \A b \in DOMAIN Budgets : spent[b] <= Budgets[b]
  BY DEF RelationsInv, RelationTypes
<1>2. \A t \in Tasks : \A e \in rel[t] : e[1] \in Kinds /\ e[2] \in Tasks /\ e = <<e[1], e[2]>>
  BY <1>1 DEF Graphs
<1>3. TypeOK
  <2>1. \A p \in Procs : proc[p].pc \in {"idle", "save", "promote", "content", "subs", "blockers", "parent"}
    BY <1>1 DEF Place
  <2>2. \A b \in DOMAIN Budgets : spent[b] \in 0..Budgets[b]
    BY <1>1, BudgetFacts
  <2> QED
    BY <1>1, <2>1, <2>2 DEF TypeOK, Graphs, Entry
<1>4. Reciprocal
  <2>1. SUFFICES ASSUME NEW t \in Tasks, NEW e \in rel[t]
                 PROVE  <<InverseKind(e[1]), t>> \in rel[e[2]] \/ Row(t, e[1], e[2]) \in LegacyRows
    BY DEF Reciprocal
  <2>2. e[1] \in Kinds /\ e[2] \in Tasks /\ <<e[1], e[2]>> \in rel[t]
    BY <1>2
  <2> QED
    BY <2>2 DEF RelationsInv, TwoSided, Row
<1>5. QuietIsMirrored
  <2>1. SUFFICES ASSUME outbox = <<>>, NEW l \in LocalLinks(rel) \cup links, l \notin off,
                        {l.a, l.b} \subseteq filed
                 PROVE  l \in links /\ l \in LocalLinks(rel)
    BY DEF QuietIsMirrored
  <2>2. LocalLinks(rel) \subseteq Links /\ (l \in LocalLinks(rel) <=> States(rel, l))
    BY <1>1, StatesFacts
  <2>3. l \in Links /\ Within(l, filed) /\ ~In(outbox, l)
    BY <1>1, <2>1, <2>2 DEF Within, In
  <2>4. l \in links <=> States(rel, l)
    BY <2>1, <2>3 DEF RelationsInv, Agree
  <2> QED
    BY <2>1, <2>2, <2>4
<1> QED
  BY <1>3, <1>4, <1>5 DEF RelationsAreSound

(* Whatever tasks, kinds and budgets, with commands that do not overlap:    *)
(* every edge has its reciprocal unless a legacy row never had one, and      *)
(* when nothing is queued and nothing runs GitHub has exactly the links the  *)
(* graph states between filed tasks (save_many_with_outbox,                  *)
(* relation_backfill_entries, reconcile_relations_inbound, the drainer).     *)
THEOREM RelationsKeepSound ==
  ASSUME Overlap = FALSE  PROVE Spec => []RelationsAreSound
<1>1. Init => RelationsInv
  BY RelationsInvInit
<1>2. RelationsInv /\ [Next]_vars => RelationsInv'
  BY RelationsInvStep
<1>3. RelationsInv => RelationsAreSound
  BY RelationsInvSound
<1> QED
  BY <1>1, <1>2, <1>3, PTL DEF Spec

(* With commands that do not overlap, a pull drops no edge to a task        *)
(* without an issue, whatever the fetches return (reconcile_family).        *)
THEOREM PullsKeepLocalEdges ==
  ASSUME Overlap = FALSE  PROVE Spec => PullKeepsLocalOnly
<1> DEFINE A == rel' = rel \/ \A p \in Procs : PullReconcile(p) =>
                  \A t \in Tasks : \A e \in rel[t] : ({t, e[2]} \subseteq filed) \/ e \in rel'[t]
<1>1. RelationsInv /\ [Next]_vars => [A]_vars
  <2>1. SUFFICES ASSUME RelationsInv, NEW p \in Procs, PullReconcile(p), NEW t \in Tasks, NEW e \in rel[t],
                        ~({t, e[2]} \subseteq filed)
                 PROVE  e \in rel'[t]
    OBVIOUS
  <2> DEFINE z == [g |-> rel', touched |-> Tasks]
  <2>2. Moves(z, proc[p].t, rel, filed)
    BY <2>1, PulledGraph
  <2>3. z.g = rel'
    OBVIOUS
  <2> HIDE DEF z
  <2>4. e[1] \in Kinds /\ e[2] \in Tasks /\ e = <<e[1], e[2]>>
    <3>1. rel \in Graphs
      BY <2>1 DEF RelationsInv, RelationTypes
    <3> QED
      BY <2>1, <3>1 DEF Graphs
  <2>5. <<e[1], e[2]>> \in rel'[t] <=> <<e[1], e[2]>> \in rel[t]
    BY <2>1, <2>2, <2>3, <2>4 DEF Moves
  <2> QED
    BY <2>1, <2>4, <2>5
<1>2. Init => RelationsInv
  BY RelationsInvInit
<1>3. RelationsInv /\ [Next]_vars => RelationsInv'
  BY RelationsInvStep
<1> QED
  BY <1>1, <1>2, <1>3, PTL DEF Spec, PullKeepsLocalOnly

-----------------------------------------------------------------------------
(***************************************************************************)
(* Ids: the invariant.                                                     *)
(***************************************************************************)

HashValues == Hashes \cup {None, Unborn}

(* What a process that opens the database, or creates a task, still has to do. *)
Opens(pc, rows, hs, ps) ==
  /\ pc = "prefixes" => /\ rows \in Seq(IdOrigins)
                        /\ \A o \in IdOrigins : ps[o] = None => \E i \in DOMAIN rows : rows[i] = o
  /\ pc \in {"hashes", "open"} => \A o \in IdOrigins : ps[o] # None
  /\ pc = "hashes" => /\ rows \in Seq(IdTasks)
                      /\ \A t \in IdTasks : hs[t] = None => \E i \in DOMAIN rows : rows[i] = t
  /\ pc = "open" => \A t \in IdTasks : hs[t] # None
  /\ pc = "mint" => \E t \in IdTasks : rows = <<t>> /\ hs[t] = Unborn

(* An id that was printed: the task's own UUID, or a hash that is still its. *)
Told(s, hs) ==
  \E t \in IdTasks :
    \/ s = <<[uuid |-> t], t>>
    \/ \E q, h : s = <<[prefix |-> q, hash |-> h], t>> /\ h \in Hashes /\ hs[t] = h

HashesApart(hs) == \A t, u \in IdTasks : t # u /\ hs[t] \in Hashes => hs[t] # hs[u]
PrefixesApart(ps) == \A o, u \in IdOrigins : o # u /\ ps[o] # None => ps[o] # ps[u]

IdsInv ==
  /\ hash \in [IdTasks -> HashValues] /\ HashesApart(hash)
  /\ prefix = [o \in IdOrigins |-> prefix[o]] /\ PrefixesApart(prefix)
  /\ opener = [p \in IdProcs |-> opener[p]]
  /\ \A p \in IdProcs : Opens(opener[p].pc, opener[p].rows, hash, prefix)
  /\ \A p, q \in IdProcs : opener[p].pc = "mint" /\ opener[q].pc = "mint" /\ opener[p].rows = opener[q].rows
       => p = q
  /\ \A s \in shown : Told(s, hash)

(* Process p goes to pc with rows, the others stay. *)
Moved(p, pc, rows) ==
  /\ opener' = [q \in IdProcs |-> opener'[q]]
  /\ \A q \in IdProcs : q # p => opener'[q] = opener[q]
  /\ opener'[p].pc = pc /\ opener'[p].rows = rows


\* The three kinds of values of a hash column.
LEMMA HashValueFacts ==
  /\ None \notin Hashes /\ Unborn \notin Hashes /\ None # Unborn
  /\ \A h \in Hashes : IsValidHash(h)
BY IdsAssumption DEF None, Unborn, Hashes, IsValidHash

\* Rows listed in some order.
LEMMA SetToSeqsFacts ==
  ASSUME NEW S, IsFiniteSet(S), NEW q \in SetToSeqs(S)
  PROVE  q \in Seq(S) /\ \A x \in S : \E i \in DOMAIN q : q[i] = x
<1> DEFINE n == Cardinality(S)
<1>1. n \in Nat
  BY FS_CardinalityType
<1>2. q \in [1..n -> S] /\ \A i, j \in 1..n : i # j => q[i] # q[j]
  BY DEF SetToSeqs
<1>3. q \in Injection(1..n, S)
  BY <1>2 DEF Injection, IsInjective
<1>4. Cardinality(1..n) = n
  BY <1>1, FS_Interval
<1> HIDE DEF n
<1>5. q \in Surjection(1..n, S)
  BY <1>3, <1>4, FS_Injection DEF n
<1> QED
  BY <1>1, <1>2, <1>5 DEF Surjection

\* A process goes on.
LEMMA GoesFacts ==
  ASSUME opener = [q \in IdProcs |-> opener[q]], NEW p \in IdProcs, NEW fields, Goes(p, fields)
  PROVE  Moved(p, IF "pc" \in DOMAIN fields THEN fields["pc"] ELSE opener[p].pc,
                  IF "rows" \in DOMAIN fields THEN fields["rows"] ELSE opener[p].rows)
<1> DEFINE r == [f \in DOMAIN IdIdle |-> IF f \in DOMAIN fields THEN fields[f] ELSE opener[p][f]]
<1>1. opener' = [opener EXCEPT ![p] = r]
  BY DEF Goes
<1>2. "pc" \in DOMAIN IdIdle /\ "rows" \in DOMAIN IdIdle
  BY DEF IdIdle
<1>3. /\ r["pc"] = IF "pc" \in DOMAIN fields THEN fields["pc"] ELSE opener[p]["pc"]
      /\ r["rows"] = IF "rows" \in DOMAIN fields THEN fields["rows"] ELSE opener[p]["rows"]
  BY <1>2
<1>4. /\ r.pc = IF "pc" \in DOMAIN fields THEN fields["pc"] ELSE opener[p].pc
      /\ r.rows = IF "rows" \in DOMAIN fields THEN fields["rows"] ELSE opener[p].rows
  BY <1>3
<1> HIDE DEF r
<1>5. opener'[p] = r /\ \A q \in IdProcs : q # p => opener'[q] = opener[q]
  BY <1>1
<1>6. opener' = [q \in IdProcs |-> opener'[q]]
  BY <1>1
<1> QED
  BY <1>4, <1>5, <1>6 DEF Moved

\* Another collision: the process stays where it is, or gives up.
LEMMA GrownFacts ==
  ASSUME opener = [q \in IdProcs |-> opener[q]], NEW p \in IdProcs, Grown(p)
  PROVE  Moved(p, opener[p].pc, opener[p].rows) \/ Moved(p, "idle", <<>>)
<1> DEFINE a == [tries |-> opener[p].tries + 1]
           b == [tries |-> 0, length |-> opener[p].length + 1]
<1>1. Goes(p, a) \/ Goes(p, b) \/ Goes(p, IdIdle)
  BY DEF Grown
<1>2. "pc" \notin DOMAIN a /\ "rows" \notin DOMAIN a /\ "pc" \notin DOMAIN b /\ "rows" \notin DOMAIN b
  OBVIOUS
<1>3. /\ "pc" \in DOMAIN IdIdle /\ "rows" \in DOMAIN IdIdle
      /\ IdIdle["pc"] = "idle" /\ IdIdle["rows"] = <<>>
  BY DEF IdIdle
<1> HIDE DEF a, b
<1>4. ASSUME NEW c, c = a \/ c = b, Goes(p, c) PROVE Moved(p, opener[p].pc, opener[p].rows)
  BY <1>2, <1>4, GoesFacts
<1>5. ASSUME Goes(p, IdIdle) PROVE Moved(p, "idle", <<>>)
  BY <1>3, <1>5, GoesFacts
<1> QED
  BY <1>1, <1>4, <1>5

\* The rest of a list still holds what its head is not.
LEMMA TailHolds ==
  ASSUME NEW S, NEW q \in Seq(S), q # <<>>, NEW x, x # Head(q), \E i \in DOMAIN q : q[i] = x
  PROVE  \E i \in DOMAIN Tail(q) : Tail(q)[i] = x
<1>1. PICK i \in DOMAIN q : q[i] = x
  OBVIOUS
<1>2. i \in 1..Len(q) /\ i # 1 /\ Len(q) \in Nat
  BY <1>1
<1>3. DOMAIN Tail(q) = 1..(Len(q) - 1) /\ \A j \in 1..(Len(q) - 1) : Tail(q)[j] = q[j + 1]
  BY <1>2
<1>4. i - 1 \in 1..(Len(q) - 1) /\ q[(i - 1) + 1] = x
  BY <1>1, <1>2
<1> QED
  BY <1>3, <1>4

\* A row that got a hash is no longer open, and leaves the other hashes apart.
LEMMA HashSet ==
  ASSUME NEW hs \in [IdTasks -> HashValues], HashesApart(hs), NEW t \in IdTasks, hs[t] \in {None, Unborn},
         NEW h \in Hashes, \A u \in IdTasks \ {t} : hs[u] # h,
         NEW hn, hn = [hs EXCEPT ![t] = h]
  PROVE  /\ hn \in [IdTasks -> HashValues] /\ HashesApart(hn) /\ hn[t] = h
         /\ \A u \in IdTasks : u # t => hn[u] = hs[u]
         /\ \A s : Told(s, hs) => Told(s, hn)
<1>1. hn \in [IdTasks -> HashValues] /\ hn[t] = h /\ \A u \in IdTasks : u # t => hn[u] = hs[u]
  BY DEF HashValues
<1>2. HashesApart(hn)
  BY <1>1 DEF HashesApart
<1>3. ASSUME NEW s, Told(s, hs) PROVE Told(s, hn)
  <2>1. PICK u \in IdTasks :
          \/ s = <<[uuid |-> u], u>>
          \/ \E q, k : s = <<[prefix |-> q, hash |-> k], u>> /\ k \in Hashes /\ hs[u] = k
    BY <1>3 DEF Told
  <2>2. CASE s = <<[uuid |-> u], u>>
    BY <2>2 DEF Told
  <2>3. CASE \E q, k : s = <<[prefix |-> q, hash |-> k], u>> /\ k \in Hashes /\ hs[u] = k
    <3>1. PICK q, k : s = <<[prefix |-> q, hash |-> k], u>> /\ k \in Hashes /\ hs[u] = k
      BY <2>3
    <3>2. u # t
      BY <3>1, HashValueFacts
    <3>3. hn[u] = k
      BY <1>1, <3>1, <3>2
    <3> QED
      BY <3>1, <3>3 DEF Told
  <2> QED
    BY <2>1, <2>2, <2>3
<1> QED
  BY <1>1, <1>2, <1>3

\* What a process still has to do stays true when a row that is open gets a hash ...
LEMMA OpensWithHash ==
  ASSUME NEW pc, NEW rows, NEW hs, NEW ps, NEW hn, NEW t \in IdTasks, Opens(pc, rows, hs, ps),
         hn[t] \in Hashes, \A u \in IdTasks : u # t => hn[u] = hs[u],
         ~(pc = "mint" /\ rows = <<t>>)
  PROVE  Opens(pc, rows, hn, ps)
<1>1. ASSUME NEW u \in IdTasks, hn[u] = None PROVE hs[u] = None
  BY <1>1, HashValueFacts
<1>2. ASSUME pc = "mint" PROVE \E u \in IdTasks : rows = <<u>> /\ hn[u] = Unborn
  <2>1. PICK u \in IdTasks : rows = <<u>> /\ hs[u] = Unborn
    BY <1>2 DEF Opens
  <2>2. u # t
    BY <1>2, <2>1
  <2> QED
    BY <2>1, <2>2
<1> QED
  BY <1>1, <1>2 DEF Opens

\* ... and when an origin gets a prefix.
LEMMA OpensWithPrefix ==
  ASSUME NEW pc, NEW rows, NEW hs, NEW ps, NEW pn, NEW o \in IdOrigins, Opens(pc, rows, hs, ps),
         pn[o] # None, \A u \in IdOrigins : u # o => pn[u] = ps[u]
  PROVE  Opens(pc, rows, hs, pn)
<1>1. ASSUME NEW u \in IdOrigins, pn[u] = None PROVE ps[u] = None
  BY <1>1
<1> QED
  BY <1>1 DEF Opens

\* One process goes on: what the invariant asks of the step.
LEMMA MoveKeeps ==
  ASSUME IdsInv, NEW p \in IdProcs, NEW pc, NEW rows, Moved(p, pc, rows),
         hash' \in [IdTasks -> HashValues], HashesApart(hash'),
         prefix' = [o \in IdOrigins |-> prefix'[o]], PrefixesApart(prefix'),
         Opens(pc, rows, hash', prefix'),
         \A q \in IdProcs : q # p => Opens(opener[q].pc, opener[q].rows, hash', prefix'),
         pc = "mint" => \A q \in IdProcs : q # p /\ opener[q].pc = "mint" => opener[q].rows # rows,
         \A s \in shown' : Told(s, hash')
  PROVE  IdsInv'
<1>1. \A q \in IdProcs : Opens(opener'[q].pc, opener'[q].rows, hash', prefix')
  BY Zenon DEF Moved
<1>2. ASSUME NEW q \in IdProcs, NEW r \in IdProcs, opener'[q].pc = "mint", opener'[r].pc = "mint",
             opener'[q].rows = opener'[r].rows
      PROVE  q = r
  BY <1>2 DEF Moved, IdsInv
<1>3. opener' = [q \in IdProcs |-> opener'[q]]
  BY DEF Moved
<1>4. (HashesApart(hash))' /\ (PrefixesApart(prefix))'
  BY DEF HashesApart, PrefixesApart
<1>5. \A q \in IdProcs : (Opens(opener[q].pc, opener[q].rows, hash, prefix))'
  BY <1>1 DEF Opens
<1>6. \A s \in shown' : (Told(s, hash))'
  BY DEF Told
<1> QED
  BY <1>2, <1>3, <1>4, <1>5, <1>6 DEF IdsInv

\* A step that writes no row.
LEMMA StayKeeps ==
  ASSUME IdsInv, NEW p \in IdProcs, NEW pc, NEW rows, Moved(p, pc, rows), hash' = hash, prefix' = prefix,
         Opens(pc, rows, hash, prefix),
         pc = "mint" => \A q \in IdProcs : q # p /\ opener[q].pc = "mint" => opener[q].rows # rows,
         \A s \in shown' : Told(s, hash)
  PROVE  IdsInv'
<1>1. /\ hash' \in [IdTasks -> HashValues] /\ HashesApart(hash')
      /\ prefix' = [o \in IdOrigins |-> prefix'[o]] /\ PrefixesApart(prefix')
  BY DEF IdsInv
<1>2. Opens(pc, rows, hash', prefix') /\ \A s \in shown' : Told(s, hash')
  BY Zenon
<1>3. \A q \in IdProcs : q # p => Opens(opener[q].pc, opener[q].rows, hash', prefix')
  BY Zenon DEF IdsInv
<1> QED
  BY <1>1, <1>2, <1>3, MoveKeeps

\* A process that is idle has nothing to do.
LEMMA IdleOpens ==
  \A rows : Opens("idle", rows, hash, prefix) /\ Opens("idle", rows, hash', prefix')
BY DEF Opens

\* A row that was open gets a hash.
LEMMA HashKeeps ==
  ASSUME IdsInv, NEW p \in IdProcs, NEW pc, NEW rows, Moved(p, pc, rows), prefix' = prefix, shown' = shown,
         NEW t \in IdTasks, NEW h \in Hashes, hash[t] \in {None, Unborn}, ~HashTaken(t, h),
         hash' = [hash EXCEPT ![t] = h], pc # "mint", Opens(pc, rows, hash', prefix'),
         \A q \in IdProcs : q # p => ~(opener[q].pc = "mint" /\ opener[q].rows = <<t>>)
  PROVE  IdsInv'
<1>0. hash \in [IdTasks -> HashValues] /\ HashesApart(hash)
  BY DEF IdsInv
<1>1. \A u \in IdTasks \ {t} : hash[u] # h
  BY DEF HashTaken
<1>2. /\ hash' \in [IdTasks -> HashValues] /\ HashesApart(hash') /\ hash'[t] = h
      /\ \A u \in IdTasks : u # t => hash'[u] = hash[u]
      /\ \A s : Told(s, hash) => Told(s, hash')
  BY <1>0, <1>1, HashSet
<1>3. \A s \in shown' : Told(s, hash')
  BY <1>2, Zenon DEF IdsInv
<1>4. ASSUME NEW q \in IdProcs, q # p PROVE Opens(opener[q].pc, opener[q].rows, hash', prefix')
  <2>1. Opens(opener[q].pc, opener[q].rows, hash, prefix)
    BY DEF IdsInv
  <2>2. ~(opener[q].pc = "mint" /\ opener[q].rows = <<t>>)
    BY <1>4
  <2>3. hash'[t] \in Hashes
    BY <1>2
  <2>4. Opens(opener[q].pc, opener[q].rows, hash', prefix)
    BY <1>2, <2>1, <2>2, <2>3, OpensWithHash
  <2> QED
    BY <2>4, Zenon
<1>5. prefix' = [o \in IdOrigins |-> prefix'[o]] /\ PrefixesApart(prefix')
  BY DEF IdsInv
<1> QED
  BY <1>2, <1>3, <1>4, <1>5, MoveKeeps

\* An origin gets a prefix that no other has.
LEMMA PrefixKeeps ==
  ASSUME IdsInv, NEW p \in IdProcs, NEW pc, NEW rows, Moved(p, pc, rows), hash' = hash, shown' = shown,
         NEW o \in IdOrigins, NEW q, q # None, ~PrefixTaken(o, q),
         prefix' = [prefix EXCEPT ![o] = q], pc # "mint", Opens(pc, rows, hash', prefix')
  PROVE  IdsInv'
<1>0. prefix = [u \in IdOrigins |-> prefix[u]] /\ PrefixesApart(prefix)
  BY DEF IdsInv
<1>1. \A u \in IdOrigins \ {o} : prefix[u] # q
  BY DEF PrefixTaken
<1>2. /\ prefix' = [u \in IdOrigins |-> prefix'[u]] /\ prefix'[o] = q
      /\ \A u \in IdOrigins : u # o => prefix'[u] = prefix[u]
  BY <1>0
<1>3. PrefixesApart(prefix')
  BY <1>0, <1>1, <1>2 DEF PrefixesApart
<1>4. ASSUME NEW r \in IdProcs, r # p PROVE Opens(opener[r].pc, opener[r].rows, hash', prefix')
  <2>1. Opens(opener[r].pc, opener[r].rows, hash, prefix)
    BY DEF IdsInv
  <2>2. prefix'[o] # None
    BY <1>2
  <2>3. Opens(opener[r].pc, opener[r].rows, hash, prefix')
    BY <1>2, <2>1, <2>2, OpensWithPrefix
  <2> QED
    BY <2>3, Zenon
<1>5. hash' \in [IdTasks -> HashValues] /\ HashesApart(hash')
  BY DEF IdsInv
<1>6. \A s \in shown' : Told(s, hash')
  BY Zenon DEF IdsInv
<1> QED
  BY <1>2, <1>3, <1>4, <1>5, <1>6, MoveKeeps

\* The first states.
LEMMA IdsInvInit == IdsInit => IdsInv
<1> SUFFICES ASSUME IdsInit PROVE IdsInv
  OBVIOUS
<1>1. hash = [t \in IdTasks |-> IF t \in Legacy THEN None ELSE Unborn] /\ prefix = [o \in IdOrigins |-> None]
  BY DEF IdsInit
<1>2. opener = [p \in IdProcs |-> IdIdle] /\ shown = {}
  BY DEF IdsInit
<1>3. IdIdle.pc = "idle"
  BY DEF IdIdle
<1>4. hash \in [IdTasks -> HashValues] /\ \A t \in IdTasks : hash[t] \notin Hashes
  BY <1>1, HashValueFacts DEF HashValues
<1>5. HashesApart(hash)
  BY <1>4 DEF HashesApart
<1>6. prefix = [o \in IdOrigins |-> prefix[o]] /\ PrefixesApart(prefix)
  BY <1>1 DEF PrefixesApart
<1>7. opener = [p \in IdProcs |-> opener[p]] /\ \A p \in IdProcs : opener[p].pc = "idle"
  BY <1>2, <1>3
<1>8. \A p \in IdProcs : Opens(opener[p].pc, opener[p].rows, hash, prefix)
  BY <1>7, IdleOpens
<1> QED
  BY <1>2, <1>4, <1>5, <1>6, <1>7, <1>8 DEF IdsInv

\* The shapes that the invariant gives the variables, for GoesFacts.
LEMMA IdsShapes ==
  ASSUME IdsInv
  PROVE  /\ hash \in [IdTasks -> HashValues]
         /\ opener = [q \in IdProcs |-> opener[q]] /\ prefix = [o \in IdOrigins |-> prefix[o]]
         /\ \A q \in IdProcs : Opens(opener[q].pc, opener[q].rows, hash, prefix)
BY DEF IdsInv

\* Opening lists the origins that have no prefix.
LEMMA OpenDbKeeps ==
  ASSUME IdsInv, NEW p \in IdProcs, OpenDb(p) PROVE IdsInv'
<1> DEFINE open == {o \in IdOrigins : prefix[o] = None}
<1>1. PICK rows \in SetToSeqs(open) : Goes(p, [pc |-> "prefixes", rows |-> rows])
  BY DEF OpenDb
<1>2. Moved(p, "prefixes", rows)
  BY <1>1, GoesFacts, IdsShapes
<1>3. IsFiniteSet(open)
  BY IdsAssumption, FS_Subset
<1>4. rows \in Seq(open) /\ \A o \in open : \E i \in DOMAIN rows : rows[i] = o
  BY <1>1, <1>3, SetToSeqsFacts
<1>5. rows \in Seq(IdOrigins)
  BY <1>4
<1>6. Opens("prefixes", rows, hash, prefix)
  BY <1>4, <1>5 DEF Opens
<1>7. hash' = hash /\ prefix' = prefix /\ shown' = shown
  BY DEF OpenDb
<1>8. \A s \in shown' : Told(s, hash)
  BY <1>7, Zenon DEF IdsInv
<1> QED
  BY <1>2, <1>6, <1>7, <1>8, StayKeeps

\* The next origin of the list gets a prefix, unless it has one or the candidate is taken.
LEMMA BackfillPrefixKeeps ==
  ASSUME IdsInv, NEW p \in IdProcs, BackfillPrefix(p) PROVE IdsInv'
<1> DEFINE rows == opener[p].rows
           o == Head(rows)
           q == Candidate(o, opener[p].suffix)
           next == [rows |-> Tail(rows), suffix |-> 0]
<1>1. opener[p].pc = "prefixes" /\ rows # <<>> /\ hash' = hash /\ shown' = shown
  BY DEF BackfillPrefix
<1>2. \/ prefix[o] # None /\ Goes(p, next) /\ prefix' = prefix
      \/ Goes(p, [suffix |-> opener[p].suffix + 1]) /\ prefix' = prefix
      \/ ~PrefixTaken(o, q) /\ Goes(p, next) /\ prefix' = [prefix EXCEPT ![o] = q]
  BY DEF BackfillPrefix
<1>3. Opens("prefixes", rows, hash, prefix)
  BY <1>1, IdsShapes
<1>4. rows \in Seq(IdOrigins) /\ \A u \in IdOrigins : prefix[u] = None => \E i \in DOMAIN rows : rows[i] = u
  BY <1>3 DEF Opens
<1>5. o \in IdOrigins /\ Tail(rows) \in Seq(IdOrigins)
  BY <1>1, <1>4
<1>6. \A u \in IdOrigins : u # o /\ prefix[u] = None => \E i \in DOMAIN Tail(rows) : Tail(rows)[i] = u
  <2>1. rows \in Seq(IdOrigins) /\ rows # <<>> /\ \A u \in IdOrigins : prefix[u] = None => \E i \in DOMAIN rows : rows[i] = u
    BY <1>1, <1>4
  <2> HIDE DEF rows
  <2> QED
    BY <2>1, TailHolds
<1>7. ASSUME Goes(p, next) PROVE Moved(p, "prefixes", Tail(rows))
  <2>1. /\ "pc" \notin DOMAIN next /\ "rows" \in DOMAIN next /\ next["rows"] = Tail(rows)
        /\ opener[p].pc = "prefixes" /\ opener = [r \in IdProcs |-> opener[r]]
    BY <1>1, IdsShapes
  <2> HIDE DEF next, rows
  <2> QED
    BY <1>7, <2>1, GoesFacts
<1>8. \A s \in shown' : Told(s, hash)
  BY <1>1, Zenon DEF IdsInv
<1>9. CASE prefix[o] # None /\ Goes(p, next) /\ prefix' = prefix
  <2>1. Opens("prefixes", Tail(rows), hash, prefix)
    BY <1>5, <1>6, <1>9 DEF Opens
  <2>2. Moved(p, "prefixes", Tail(rows))
    BY <1>7, <1>9
  <2> HIDE DEF rows
  <2> QED
    BY <1>1, <1>8, <1>9, <2>1, <2>2, StayKeeps
<1>10. CASE Goes(p, [suffix |-> opener[p].suffix + 1]) /\ prefix' = prefix
  <2>1. Moved(p, "prefixes", rows)
    BY <1>1, <1>10, GoesFacts, IdsShapes
  <2> HIDE DEF rows
  <2> QED
    BY <1>1, <1>3, <1>8, <1>10, <2>1, StayKeeps
<1>11. CASE ~PrefixTaken(o, q) /\ Goes(p, next) /\ prefix' = [prefix EXCEPT ![o] = q]
  <2>1. q # None
    BY DEF Candidate, None
  <2>2. prefix'[o] = q /\ \A u \in IdOrigins : u # o => prefix'[u] = prefix[u]
    BY <1>5, <1>11, IdsShapes
  <2>3. Opens("prefixes", Tail(rows), hash', prefix')
    BY <1>5, <1>6, <2>1, <2>2 DEF Opens
  <2>4. Moved(p, "prefixes", Tail(rows))
    BY <1>7, <1>11
  <2> HIDE DEF rows, o, q
  <2> QED
    BY <1>1, <1>5, <1>11, <2>1, <2>3, <2>4, PrefixKeeps
<1> QED
  BY <1>2, <1>9, <1>10, <1>11

\* Every origin has its prefix, so the tasks without a hash are listed.
LEMMA ListTasksKeeps ==
  ASSUME IdsInv, NEW p \in IdProcs, ListTasks(p) PROVE IdsInv'
<1> DEFINE open == {t \in IdTasks : hash[t] = None}
<1>1. PICK rows \in SetToSeqs(open) :
        Goes(p, [pc |-> "hashes", rows |-> rows, length |-> MinHashLen, tries |-> 0])
  BY DEF ListTasks
<1>2. Moved(p, "hashes", rows)
  BY <1>1, GoesFacts, IdsShapes
<1>3. IsFiniteSet(open)
  BY IdsAssumption, FS_Subset
<1>4. rows \in Seq(open) /\ \A t \in open : \E i \in DOMAIN rows : rows[i] = t
  BY <1>1, <1>3, SetToSeqsFacts
<1>5. rows \in Seq(IdTasks)
  BY <1>4
<1>6. \A o \in IdOrigins : prefix[o] # None
  <2>1. Opens("prefixes", <<>>, hash, prefix)
    BY IdsShapes DEF ListTasks
  <2> QED
    BY <2>1 DEF Opens
<1>7. Opens("hashes", rows, hash, prefix)
  BY <1>4, <1>5, <1>6 DEF Opens
<1>8. hash' = hash /\ prefix' = prefix /\ shown' = shown
  BY DEF ListTasks
<1>9. \A s \in shown' : Told(s, hash)
  BY <1>8, Zenon DEF IdsInv
<1> QED
  BY <1>2, <1>7, <1>8, <1>9, StayKeeps

\* The next task of the list gets a hash, unless it has one or the random one is taken.
LEMMA BackfillHashKeeps ==
  ASSUME IdsInv, NEW p \in IdProcs, NEW h \in Hashes, BackfillHash(p, h) PROVE IdsInv'
<1> DEFINE rows == opener[p].rows
           t == Head(rows)
           next == [rows |-> Tail(rows), length |-> MinHashLen, tries |-> 0]
<1>1. opener[p].pc = "hashes" /\ rows # <<>> /\ prefix' = prefix /\ shown' = shown
  BY DEF BackfillHash
<1>2. \/ hash[t] # None /\ Goes(p, next) /\ hash' = hash
      \/ Grown(p) /\ hash' = hash
      \/ hash[t] = None /\ ~HashTaken(t, h) /\ Goes(p, next) /\ hash' = [hash EXCEPT ![t] = h]
  BY DEF BackfillHash, StillEmpty
<1>3. Opens("hashes", rows, hash, prefix)
  BY <1>1, IdsShapes
<1>4. /\ rows \in Seq(IdTasks) /\ \A u \in IdTasks : hash[u] = None => \E i \in DOMAIN rows : rows[i] = u
      /\ \A o \in IdOrigins : prefix[o] # None
  BY <1>3 DEF Opens
<1>5. t \in IdTasks /\ Tail(rows) \in Seq(IdTasks)
  BY <1>1, <1>4
<1>6. \A u \in IdTasks : u # t /\ hash[u] = None => \E i \in DOMAIN Tail(rows) : Tail(rows)[i] = u
  <2>1. rows \in Seq(IdTasks) /\ rows # <<>> /\ \A u \in IdTasks : hash[u] = None => \E i \in DOMAIN rows : rows[i] = u
    BY <1>1, <1>4
  <2> HIDE DEF rows
  <2> QED
    BY <2>1, TailHolds
<1>7. ASSUME Goes(p, next) PROVE Moved(p, "hashes", Tail(rows))
  <2>1. /\ "pc" \notin DOMAIN next /\ "rows" \in DOMAIN next /\ next["rows"] = Tail(rows)
        /\ opener[p].pc = "hashes" /\ opener = [r \in IdProcs |-> opener[r]]
    BY <1>1, IdsShapes
  <2> HIDE DEF next, rows
  <2> QED
    BY <1>7, <2>1, GoesFacts
<1>8. \A s \in shown' : Told(s, hash)
  BY <1>1, Zenon DEF IdsInv
<1>9. CASE hash[t] # None /\ Goes(p, next) /\ hash' = hash
  <2>1. Opens("hashes", Tail(rows), hash, prefix)
    BY <1>4, <1>5, <1>6, <1>9 DEF Opens
  <2>2. Moved(p, "hashes", Tail(rows))
    BY <1>7, <1>9
  <2> HIDE DEF rows
  <2> QED
    BY <1>1, <1>8, <1>9, <2>1, <2>2, StayKeeps
<1>10. CASE Grown(p) /\ hash' = hash
  <2>1. Moved(p, "hashes", rows) \/ Moved(p, "idle", <<>>)
    BY <1>1, <1>10, GrownFacts, IdsShapes
  <2> HIDE DEF rows
  <2> QED
    BY <1>1, <1>3, <1>8, <1>10, <2>1, StayKeeps, IdleOpens
<1>11. CASE hash[t] = None /\ ~HashTaken(t, h) /\ Goes(p, next) /\ hash' = [hash EXCEPT ![t] = h]
  <2>1. hash'[t] = h /\ \A u \in IdTasks : u # t => hash'[u] = hash[u]
    BY <1>5, <1>11, IdsShapes
  <2>2. Opens("hashes", Tail(rows), hash', prefix')
    BY <1>1, <1>4, <1>5, <1>6, <2>1, HashValueFacts DEF Opens
  <2>3. Moved(p, "hashes", Tail(rows))
    BY <1>7, <1>11
  <2>4. ASSUME NEW q \in IdProcs PROVE ~(opener[q].pc = "mint" /\ opener[q].rows = <<t>>)
    <3>1. SUFFICES ASSUME opener[q].pc = "mint", opener[q].rows = <<t>> PROVE FALSE
      OBVIOUS
    <3>2. Opens("mint", <<t>>, hash, prefix)
      BY <3>1, IdsShapes
    <3>3. PICK u \in IdTasks : <<t>> = <<u>> /\ hash[u] = Unborn
      BY <3>2 DEF Opens
    <3> QED
      BY <1>11, <3>3, HashValueFacts
  <2> HIDE DEF rows, t
  <2> QED
    BY <1>1, <1>5, <1>11, <2>2, <2>3, <2>4, HashKeeps
<1> QED
  BY <1>2, <1>9, <1>10, <1>11

\* Both lists are done: no prefix and no hash is missing.
LEMMA OpenEndsKeeps ==
  ASSUME IdsInv, NEW p \in IdProcs, OpenEnds(p) PROVE IdsInv'
<1>1. /\ opener[p].pc = "hashes" /\ opener[p].rows = <<>> /\ Goes(p, [pc |-> "open"])
      /\ hash' = hash /\ prefix' = prefix /\ shown' = shown
  BY DEF OpenEnds
<1>2. Moved(p, "open", <<>>)
  BY <1>1, GoesFacts, IdsShapes
<1>3. Opens("hashes", <<>>, hash, prefix)
  BY <1>1, IdsShapes
<1>4. Opens("open", <<>>, hash, prefix)
  BY <1>3 DEF Opens
<1>5. \A s \in shown' : Told(s, hash)
  BY <1>1, Zenon DEF IdsInv
<1> QED
  BY <1>1, <1>2, <1>4, <1>5, StayKeeps

\* A process is done, or killed.
LEMMA IdleKeeps ==
  ASSUME IdsInv, NEW p \in IdProcs, Goes(p, IdIdle), hash' = hash, prefix' = prefix, \A s \in shown' : Told(s, hash)
  PROVE  IdsInv'
<1>1. /\ "pc" \in DOMAIN IdIdle /\ "rows" \in DOMAIN IdIdle
      /\ IdIdle["pc"] = "idle" /\ IdIdle["rows"] = <<>>
  BY DEF IdIdle
<1>2. Moved(p, "idle", <<>>)
  BY <1>1, GoesFacts, IdsShapes
<1> QED
  BY <1>2, IdleOpens, StayKeeps

\* A process sets out to create a task that no other creates.
LEMMA CreateTaskKeeps ==
  ASSUME IdsInv, NEW p \in IdProcs, NEW t \in IdTasks, CreateTask(p, t) PROVE IdsInv'
<1>1. /\ hash[t] = Unborn /\ \A q \in IdProcs : opener[q].pc = "mint" => opener[q].rows # <<t>>
      /\ Goes(p, [pc |-> "mint", rows |-> <<t>>, length |-> MinHashLen, tries |-> 0])
      /\ hash' = hash /\ prefix' = prefix /\ shown' = shown
  BY DEF CreateTask
<1>2. Moved(p, "mint", <<t>>)
  BY <1>1, GoesFacts, IdsShapes
<1>3. Opens("mint", <<t>>, hash, prefix)
  BY <1>1 DEF Opens
<1>4. \A s \in shown' : Told(s, hash)
  BY <1>1, Zenon DEF IdsInv
<1> QED
  BY <1>1, <1>2, <1>3, <1>4, StayKeeps

\* The new task gets a hash that no other has, or another try.
LEMMA SaveWithMintedHashKeeps ==
  ASSUME IdsInv, NEW p \in IdProcs, NEW h \in Hashes, SaveWithMintedHash(p, h) PROVE IdsInv'
<1> DEFINE t == Head(opener[p].rows)
<1>1. opener[p].pc = "mint" /\ prefix' = prefix /\ shown' = shown
  BY DEF SaveWithMintedHash
<1>2. \/ Grown(p) /\ hash' = hash
      \/ ~HashTaken(t, h) /\ Goes(p, IdIdle) /\ hash' = [hash EXCEPT ![t] = h]
  BY DEF SaveWithMintedHash
<1>3. Opens("mint", opener[p].rows, hash, prefix)
  BY <1>1, IdsShapes
<1>4. t \in IdTasks /\ opener[p].rows = <<t>> /\ hash[t] = Unborn
  BY <1>3 DEF Opens
<1>5. \A q \in IdProcs : q # p /\ opener[q].pc = "mint" => opener[q].rows # opener[p].rows
  BY <1>1 DEF IdsInv
<1>6. \A s \in shown' : Told(s, hash)
  BY <1>1, Zenon DEF IdsInv
<1>7. CASE Grown(p) /\ hash' = hash
  <2>1. Moved(p, "mint", opener[p].rows) \/ Moved(p, "idle", <<>>)
    BY <1>1, <1>7, GrownFacts, IdsShapes
  <2> QED
    BY <1>1, <1>3, <1>5, <1>6, <1>7, <2>1, StayKeeps, IdleOpens
<1>8. CASE ~HashTaken(t, h) /\ Goes(p, IdIdle) /\ hash' = [hash EXCEPT ![t] = h]
  <2>1. /\ "pc" \in DOMAIN IdIdle /\ "rows" \in DOMAIN IdIdle
        /\ IdIdle["pc"] = "idle" /\ IdIdle["rows"] = <<>>
    BY DEF IdIdle
  <2>2. Moved(p, "idle", <<>>)
    BY <1>8, <2>1, GoesFacts, IdsShapes
  <2>3. \A q \in IdProcs : q # p => ~(opener[q].pc = "mint" /\ opener[q].rows = <<t>>)
    BY <1>4, <1>5
  <2>4. Opens("idle", <<>>, hash', prefix')
    BY IdleOpens
  <2> HIDE DEF t
  <2> QED
    BY <1>1, <1>4, <1>8, <2>2, <2>3, <2>4, HashKeeps
<1> QED
  BY <1>2, <1>7, <1>8

\* A prefix is given that no other origin has.
LEMMA SetPrefixKeeps ==
  ASSUME IdsInv, NEW p \in IdProcs, NEW o \in IdOrigins, NEW u \in IdOrigins, NEW n \in 0..1,
         SetPrefix(p, o, Candidate(u, n))
  PROVE  IdsInv'
<1> DEFINE q == Candidate(u, n)
<1>1. q # None
  BY DEF Candidate, None
<1>2. /\ ~PrefixTaken(o, q) /\ prefix' = [prefix EXCEPT ![o] = q] /\ Goes(p, IdIdle)
      /\ hash' = hash /\ shown' = shown
  BY DEF SetPrefix
<1>3. /\ "pc" \in DOMAIN IdIdle /\ "rows" \in DOMAIN IdIdle
      /\ IdIdle["pc"] = "idle" /\ IdIdle["rows"] = <<>>
  BY DEF IdIdle
<1> HIDE DEF q
<1>4. Moved(p, "idle", <<>>)
  BY <1>2, <1>3, GoesFacts, IdsShapes
<1> QED
  BY <1>1, <1>2, <1>4, IdleOpens, PrefixKeeps

\* What is printed is the task's own.
LEMMA ShowKeeps ==
  ASSUME IdsInv, NEW p \in IdProcs, NEW t \in IdTasks, Show(p, t) PROVE IdsInv'
<1>1. /\ opener[p].pc = "open" /\ Born(t) /\ Goes(p, IdIdle) /\ hash' = hash /\ prefix' = prefix
      /\ shown' = shown \cup {<<AssembleTaskDisplayId(t), t>>}
  BY DEF Show
<1>2. Told(<<AssembleTaskDisplayId(t), t>>, hash)
  <2>1. CASE hash[t] = None
    <3>1. AssembleTaskDisplayId(t) = [uuid |-> t]
      BY <2>1 DEF AssembleTaskDisplayId
    <3> QED
      BY <3>1 DEF Told
  <2>2. CASE hash[t] # None
    <3>1. AssembleTaskDisplayId(t) = [prefix |-> PrefixFor(t), hash |-> hash[t]]
      BY <2>2 DEF AssembleTaskDisplayId
    <3>2. hash[t] \in Hashes
      BY <1>1, <2>2, IdsShapes DEF Born, HashValues
    <3> QED
      BY <3>1, <3>2 DEF Told
  <2> QED
    BY <2>1, <2>2
<1>3. \A s \in shown' : Told(s, hash)
  BY <1>1, <1>2, Zenon DEF IdsInv
<1> QED
  BY <1>1, <1>3, IdleKeeps

\* Every step keeps the invariant.
LEMMA IdsInvStep == IdsInv /\ [IdsNext]_idVars => IdsInv'
<1> SUFFICES ASSUME IdsInv, [IdsNext]_idVars PROVE IdsInv'
  OBVIOUS
<1>1. \A s \in shown : Told(s, hash)
  BY DEF IdsInv
<1>2. CASE UNCHANGED idVars
  <2>1. hash' = hash /\ prefix' = prefix /\ opener' = opener /\ shown' = shown
    BY <1>2 DEF idVars
  <2> QED
    BY <2>1 DEF IdsInv, HashesApart, PrefixesApart, Opens, Told
<1>3. CASE IdsNext
  <2>1. PICK p \in IdProcs :
          \/ OpenDb(p) \/ BackfillPrefix(p) \/ ListTasks(p) \/ OpenEnds(p) \/ IdKill(p)
          \/ \E h \in Hashes : BackfillHash(p, h) \/ SaveWithMintedHash(p, h)
          \/ \E t \in IdTasks : CreateTask(p, t) \/ Show(p, t) \/ \E o \in IdOrigins : UpdateTaskRepo(p, t, o)
          \/ \E o \in IdOrigins, u \in IdOrigins, n \in 0..1 : SetPrefix(p, o, Candidate(u, n))
    BY <1>3 DEF IdsNext
  <2>2. CASE IdKill(p)
    BY <1>1, <2>2, IdleKeeps DEF IdKill
  <2>3. ASSUME NEW t \in IdTasks, NEW o \in IdOrigins, UpdateTaskRepo(p, t, o) PROVE IdsInv'
    BY <1>1, <2>3, IdleKeeps DEF UpdateTaskRepo
  <2> QED
    BY <2>1, <2>2, <2>3, OpenDbKeeps, BackfillPrefixKeeps, ListTasksKeeps, OpenEndsKeeps, BackfillHashKeeps,
       SaveWithMintedHashKeeps, CreateTaskKeeps, ShowKeeps, SetPrefixKeeps
<1> QED
  BY <1>2, <1>3

\* The id that a task is shown by leads to it alone.
LEMMA OwnIdResolves ==
  ASSUME IdsInv, NEW t \in IdTasks, Born(t) PROVE ResolveTask(AssembleTaskDisplayId(t)) = {t}
<1>1. CASE hash[t] = None
  <2>1. AssembleTaskDisplayId(t) = [uuid |-> t]
    BY <1>1 DEF AssembleTaskDisplayId
  <2> QED
    BY <2>1 DEF ResolveTask
<1>2. CASE hash[t] # None
  <2> DEFINE id == [prefix |-> PrefixFor(t), hash |-> hash[t]]
  <2>1. AssembleTaskDisplayId(t) = id
    BY <1>2 DEF AssembleTaskDisplayId
  <2>2. hash[t] \in Hashes /\ IsValidHash(hash[t])
    BY <1>2, IdsShapes, HashValueFacts DEF Born, HashValues
  <2>3. \A u \in IdTasks : hash[u] = hash[t] => u = t
    BY <2>2 DEF IdsInv, HashesApart
  <2>4. "uuid" \notin DOMAIN id /\ id.prefix = PrefixFor(t) /\ id.hash = hash[t]
    OBVIOUS
  <2> HIDE DEF id
  <2>5. ResolveTask(id) = {u \in IdTasks :
          /\ IsValidHash(id.hash) /\ hash[u] = id.hash
          /\ id.prefix \in {None, PrefixFor(u)} \/ IsSupersededPrefix(id.prefix, PrefixFor(u))}
    BY <2>4, Zenon DEF ResolveTask
  <2>6. ResolveTask(id) = {t}
    BY <2>2, <2>3, <2>4, <2>5
  <2> QED
    BY <2>1, <2>6
<1> QED
  BY <1>1, <1>2

\* An id that was printed leads to no other task.
LEMMA ToldResolves ==
  ASSUME IdsInv, NEW s, Told(s, hash) PROVE ResolveTask(s[1]) \subseteq {s[2]}
<1>1. PICK t \in IdTasks :
        \/ s = <<[uuid |-> t], t>>
        \/ \E q, h : s = <<[prefix |-> q, hash |-> h], t>> /\ h \in Hashes /\ hash[t] = h
  BY DEF Told
<1>2. CASE s = <<[uuid |-> t], t>>
  <2>1. s[1] = [uuid |-> t] /\ s[2] = t
    BY <1>2
  <2> QED
    BY <2>1 DEF ResolveTask
<1>3. CASE \E q, h : s = <<[prefix |-> q, hash |-> h], t>> /\ h \in Hashes /\ hash[t] = h
  <2>1. PICK q, h : s = <<[prefix |-> q, hash |-> h], t>> /\ h \in Hashes /\ hash[t] = h
    BY <1>3
  <2> DEFINE id == [prefix |-> q, hash |-> h]
  <2>2. s[1] = id /\ s[2] = t
    BY <2>1
  <2>3. \A u \in IdTasks : hash[u] = h => u = t
    BY <2>1 DEF IdsInv, HashesApart
  <2>4. "uuid" \notin DOMAIN id /\ id.hash = h
    OBVIOUS
  <2> HIDE DEF id
  <2>5. ResolveTask(id) = {u \in IdTasks :
          /\ IsValidHash(id.hash) /\ hash[u] = id.hash
          /\ id.prefix \in {None, PrefixFor(u)} \/ IsSupersededPrefix(id.prefix, PrefixFor(u))}
    BY <2>4, Zenon DEF ResolveTask
  <2>6. ResolveTask(id) \subseteq {t}
    BY <2>3, <2>4, <2>5
  <2> QED
    BY <2>2, <2>6
<1> QED
  BY <1>1, <1>2, <1>3

\* What the invariant says of a state.
LEMMA IdsInvShows == IdsInv => IdsTypeOK /\ ShownIsOwn
<1> SUFFICES ASSUME IdsInv PROVE IdsTypeOK /\ ShownIsOwn
  OBVIOUS
<1>1. \A t \in IdTasks : hash[t] \in Hashes \cup {None, Unborn}
  BY IdsShapes DEF HashValues
<1>2. /\ \A t, u \in IdTasks : t # u /\ hash[t] \in Hashes => hash[t] # hash[u]
      /\ \A o, u \in IdOrigins : o # u /\ prefix[o] # None => prefix[o] # prefix[u]
  BY DEF IdsInv, HashesApart, PrefixesApart
<1>3. ASSUME NEW p \in IdProcs, opener[p].pc = "open"
      PROVE  (\A t \in IdTasks : hash[t] # None) /\ \A o \in IdOrigins : prefix[o] # None
  <2>1. Opens("open", opener[p].rows, hash, prefix)
    BY <1>3, IdsShapes
  <2> QED
    BY <2>1 DEF Opens
<1>4. \A s \in shown : ResolveTask(s[1]) \subseteq {s[2]}
  BY ToldResolves DEF IdsInv
<1> QED
  BY <1>1, <1>2, <1>3, <1>4, OwnIdResolves DEF IdsTypeOK, ShownIsOwn

\* No step changes a hash that is there: the backfills write where none is, and
\* SaveWithMintedHash a task that was not there before.
LEMMA HashStays ==
  IdsInv /\ [IdsNext]_idVars => [\A t \in IdTasks : hash[t] \in Hashes => hash'[t] = hash[t]]_idVars
<1> SUFFICES ASSUME IdsInv, IdsNext PROVE \A t \in IdTasks : hash[t] \in Hashes => hash'[t] = hash[t]
  OBVIOUS
<1>1. ASSUME NEW p \in IdProcs, NEW h \in Hashes, BackfillHash(p, h)
      PROVE  \A t \in IdTasks : hash[t] \in Hashes => hash'[t] = hash[t]
  <2>1. \/ hash' = hash
        \/ hash[Head(opener[p].rows)] = None /\ hash' = [hash EXCEPT ![Head(opener[p].rows)] = h]
    BY <1>1 DEF BackfillHash, StillEmpty
  <2> QED
    BY <2>1, IdsShapes, HashValueFacts
<1>2. ASSUME NEW p \in IdProcs, NEW h \in Hashes, SaveWithMintedHash(p, h)
      PROVE  \A t \in IdTasks : hash[t] \in Hashes => hash'[t] = hash[t]
  <2>1. opener[p].pc = "mint" /\ (hash' = hash \/ hash' = [hash EXCEPT ![Head(opener[p].rows)] = h])
    BY <1>2 DEF SaveWithMintedHash
  <2>2. Opens("mint", opener[p].rows, hash, prefix)
    BY <2>1, IdsShapes
  <2>3. hash[Head(opener[p].rows)] = Unborn
    BY <2>2 DEF Opens
  <2> QED
    BY <2>1, <2>3, IdsShapes, HashValueFacts
<1>3. ASSUME hash' = hash PROVE \A t \in IdTasks : hash[t] \in Hashes => hash'[t] = hash[t]
  BY <1>3
<1> QED
  BY <1>1, <1>2, <1>3 DEF IdsNext, OpenDb, BackfillPrefix, ListTasks, OpenEnds, IdKill, CreateTask, Show,
     UpdateTaskRepo, SetPrefix

\* However many processes open an old database at once, create tasks, give
\* prefixes and are killed between two backfilled rows: no two rows share a hash or
\* a prefix, a process that has opened the database finds every row filled, a task
\* is found by the id it is shown by, an id once printed leads to its task or to
\* nothing, and a hash is never replaced (the backfills, save_with_minted_hash,
\* set_prefix, resolve_task).
THEOREM IdsKeepSound == IdsSpec => IdsAreSound
<1>1. IdsInv => IdsTypeOK /\ ShownIsOwn
  BY IdsInvShows
<1> QED
  BY <1>1, IdsInvInit, IdsInvStep, HashStays, PTL DEF IdsSpec, IdsAreSound, HashIsKept
-----------------------------------------------------------------------------
(***************************************************************************)
(* Lists that are read page by page.                                       *)
(***************************************************************************)

\* s is how t begins.
Begins(s, t) == Len(s) <= Len(t) /\ \A i \in 1..Len(s) : s[i] = t[i]

LEMMA BeginsItself == ASSUME NEW S, NEW s \in Seq(S) PROVE Begins(s, s)
BY DEF Begins

LEMMA BeginsAppended ==
  ASSUME NEW S, NEW s \in Seq(S), NEW t \in Seq(S), NEW x \in S, Begins(s, t)
  PROVE  Begins(s, Append(t, x))
<1>1. Len(Append(t, x)) = Len(t) + 1 /\ Len(s) \in Nat /\ Len(t) \in Nat
  OBVIOUS
<1>2. ASSUME NEW i \in 1..Len(s) PROVE Append(t, x)[i] = s[i]
  <2>1. i \in 1..Len(t)
    BY <1>1 DEF Begins
  <2>2. Append(t, x)[i] = t[i]
    BY <2>1
  <2> QED
    BY <2>2 DEF Begins
<1> QED
  BY <1>1, <1>2 DEF Begins

\* A sequence that begins another of its length is that one.
LEMMA BeginsAll ==
  ASSUME NEW S, NEW s \in Seq(S), NEW t \in Seq(S), Begins(s, t), Len(s) = Len(t)
  PROVE  s = t
BY SeqEqual DEF Begins

LEMMA BeginsWithin ==
  ASSUME NEW S, NEW s \in Seq(S), NEW t \in Seq(S), Begins(s, t)
  PROVE  ToSet(s) \subseteq ToSet(t)
<1>1. DOMAIN s = 1..Len(s) /\ DOMAIN t = 1..Len(t) /\ Len(s) \in Nat /\ Len(t) \in Nat
  OBVIOUS
<1> QED
  BY <1>1 DEF Begins, ToSet

LEMMA JoinedSets ==
  ASSUME NEW S, NEW s \in Seq(S), NEW t \in Seq(S)
  PROVE  ToSet(s \o t) = ToSet(s) \cup ToSet(t)
<1> DEFINE w == s \o t
<1>1. w \in Seq(S) /\ Len(w) = Len(s) + Len(t) /\ Len(s) \in Nat /\ Len(t) \in Nat
  BY ConcatProperties
<1>2. \A i \in 1..(Len(s) + Len(t)) : w[i] = IF i <= Len(s) THEN s[i] ELSE t[i - Len(s)]
  BY ConcatProperties
<1>3. DOMAIN w = 1..(Len(s) + Len(t)) /\ DOMAIN s = 1..Len(s) /\ DOMAIN t = 1..Len(t)
  <2>1. DOMAIN w = 1..Len(w)
    BY <1>1
  <2> QED
    BY <1>1, <2>1
<1> HIDE DEF w
<1>4. ASSUME NEW i \in DOMAIN w PROVE w[i] \in ToSet(s) \cup ToSet(t)
  <2>1. CASE i <= Len(s)
    BY <1>1, <1>2, <1>3, <1>4, <2>1 DEF ToSet
  <2>2. CASE ~(i <= Len(s))
    <3>1. i - Len(s) \in DOMAIN t /\ w[i] = t[i - Len(s)]
      BY <1>1, <1>2, <1>3, <1>4, <2>2
    <3> QED
      BY <3>1 DEF ToSet
  <2> QED
    BY <2>1, <2>2
<1>5. ASSUME NEW i \in DOMAIN s PROVE s[i] \in ToSet(w)
  <2>1. i \in DOMAIN w /\ w[i] = s[i]
    BY <1>1, <1>2, <1>3, <1>5
  <2> QED
    BY <2>1 DEF ToSet
<1>6. ASSUME NEW i \in DOMAIN t PROVE t[i] \in ToSet(w)
  <2>1. i + Len(s) \in DOMAIN w /\ ~(i + Len(s) <= Len(s)) /\ (i + Len(s)) - Len(s) = i
    BY <1>1, <1>3, <1>6
  <2>2. w[i + Len(s)] = t[i]
    BY <1>2, <1>3, <2>1
  <2> QED
    BY <2>1, <2>2 DEF ToSet
<1>7. ToSet(w) = ToSet(s) \cup ToSet(t)
  BY <1>4, <1>5, <1>6 DEF ToSet
<1> QED
  BY <1>7 DEF w

\* What a request brings: the items from a place on, a page full of them or all
\* that are left.
LEMMA SliceFacts ==
  ASSUME listed \in Seq(Items), NEW from \in Nat \ {0}, NEW n \in Nat \ {0}
  PROVE  /\ Slice(from, n) \in Seq(Items) /\ Len(Slice(from, n)) \in 0..n
         /\ from + n - 1 <= Len(listed) => Len(Slice(from, n)) = n
         /\ from <= Len(listed) + 1 /\ ~(from + n - 1 <= Len(listed)) =>
              Len(Slice(from, n)) = Len(listed) + 1 - from
         /\ \A i \in 1..Len(Slice(from, n)) :
              from + i - 1 \in 1..Len(listed) /\ Slice(from, n)[i] = listed[from + i - 1]
<1> DEFINE to == IF from + n - 1 <= Len(listed) THEN from + n - 1 ELSE Len(listed)
           s == SubSeq(listed, from, to)
<1>1. Len(listed) \in Nat /\ to \in Int /\ from \in Int /\ to <= Len(listed) /\ to <= from + n - 1
  OBVIOUS
<1>2. \A i \in from..to : i \in 1..Len(listed) /\ listed[i] \in Items
  BY <1>1
<1> HIDE DEF to
<1>3. s \in Seq(Items) /\ Len(s) = (IF from <= to THEN to - from + 1 ELSE 0)
      /\ \A i \in 1..(to - from + 1) : s[i] = listed[from + i - 1]
  BY <1>1, <1>2, SubSeqProperties
<1> HIDE DEF s
<1>4. Len(s) \in 0..n
  BY <1>1, <1>3
<1>5. ASSUME NEW i \in 1..Len(s)
      PROVE  from + i - 1 \in 1..Len(listed) /\ s[i] = listed[from + i - 1]
  <2>1. i \in 1..(to - from + 1)
    BY <1>1, <1>3, <1>5
  <2> QED
    BY <1>1, <1>3, <2>1
<1>6. from + n - 1 <= Len(listed) => Len(s) = n
  BY <1>1, <1>3 DEF to
<1>7. from <= Len(listed) + 1 /\ ~(from + n - 1 <= Len(listed)) => Len(s) = Len(listed) + 1 - from
  BY <1>1, <1>3 DEF to
<1>8. Slice(from, n) = s
  BY DEF Slice, s, to
<1> QED
  BY <1>3, <1>4, <1>5, <1>6, <1>7, <1>8

\* The next request goes on where the last one ended.
LEMMA BeginsGoesOn ==
  ASSUME listed \in Seq(Items), NEW s \in Seq(Items), Begins(s, listed), NEW n \in Nat \ {0}
  PROVE  Begins(s \o Slice(Len(s) + 1, n), listed)
<1> DEFINE from == Len(s) + 1
           b == Slice(from, n)
           w == s \o b
<1>1. from \in Nat \ {0} /\ Len(s) \in Nat /\ Len(listed) \in Nat /\ from <= Len(listed) + 1
  BY DEF Begins
<1> HIDE DEF from
<1>2. b \in Seq(Items) /\ Len(b) \in 0..n
      /\ \A i \in 1..Len(b) : from + i - 1 \in 1..Len(listed) /\ b[i] = listed[from + i - 1]
  BY <1>1, SliceFacts
<1> HIDE DEF b
<1>3. w \in Seq(Items) /\ Len(w) = Len(s) + Len(b)
      /\ \A i \in 1..(Len(s) + Len(b)) : w[i] = IF i <= Len(s) THEN s[i] ELSE b[i - Len(s)]
  BY <1>2, ConcatProperties
<1> HIDE DEF w
<1>4. Len(w) <= Len(listed)
  <2>1. CASE Len(b) = 0
    BY <1>1, <1>2, <1>3, <2>1 DEF Begins
  <2>2. CASE Len(b) # 0
    <3>1. Len(b) \in 1..Len(b)
      BY <1>2, <2>2
    <3>2. from + Len(b) - 1 \in 1..Len(listed)
      BY <1>2, <3>1
    <3> QED
      BY <1>1, <1>2, <1>3, <3>2 DEF from
  <2> QED
    BY <2>1, <2>2
<1>5. ASSUME NEW i \in 1..Len(w) PROVE w[i] = listed[i]
  <2>1. CASE i <= Len(s)
    BY <1>1, <1>2, <1>3, <1>5, <2>1 DEF Begins
  <2>2. CASE ~(i <= Len(s))
    <3>1. i - Len(s) \in 1..Len(b) /\ w[i] = b[i - Len(s)]
      BY <1>1, <1>2, <1>3, <1>5, <2>2
    <3>2. b[i - Len(s)] = listed[from + (i - Len(s)) - 1]
      BY <1>2, <3>1
    <3>3. from + (i - Len(s)) - 1 = i
      BY <1>1, <1>3, <1>2, <1>5 DEF from
    <3> QED
      BY <3>1, <3>2, <3>3
  <2> QED
    BY <2>1, <2>2
<1>6. Begins(w, listed)
  BY <1>4, <1>5 DEF Begins
<1> QED
  BY <1>6 DEF w, b, from

-----------------------------------------------------------------------------
\* How many items the pages before page p hold.
Before(p) == (p - 1) * PerPage

LEMMA PagesFacts ==
  ASSUME NEW p \in 1..(MaxPages + 1)
  PROVE  /\ Before(p) \in Nat /\ Cap \in Nat /\ Before(p) <= Cap
         /\ Before(p + 1) = Before(p) + PerPage
         /\ p = MaxPages + 1 => Before(p) = Cap
         /\ p = 1 => Before(p) = 0
<1>1. PerPage \in Nat \ {0} /\ MaxPages \in Nat \ {0} /\ p \in Nat /\ p - 1 \in Nat
  BY PagingAssumption
<1>2. (p - 1) * PerPage \in Nat /\ Cap \in Nat
  BY <1>1 DEF Cap
<1>3. PICK d \in Nat : MaxPages = (p - 1) + d
  <2>1. MaxPages - (p - 1) \in Nat /\ MaxPages = (p - 1) + (MaxPages - (p - 1))
    BY <1>1
  <2> QED
    BY <2>1
<1>4. MaxPages * PerPage = (p - 1) * PerPage + d * PerPage /\ d * PerPage \in Nat
  BY <1>1, <1>3
<1>5. (p - 1) * PerPage <= Cap
  <2>1. PerPage * MaxPages = MaxPages * PerPage
    BY <1>1
  <2> QED
    BY <1>2, <1>4, <2>1 DEF Cap
<1>6. (p + 1 - 1) * PerPage = (p - 1) * PerPage + PerPage
  BY <1>1
<1>7. p = MaxPages + 1 => (p - 1) * PerPage = Cap
  BY <1>1 DEF Cap
<1>8. p = 1 => (p - 1) * PerPage = 0
  BY <1>1
<1> QED
  BY <1>2, <1>5, <1>6, <1>7, <1>8 DEF Before

Readers ==
  [kind: ListKinds, pc: {"start", "moved", "page", "probe", "ok", "refused", "truncated", "failed"},
   page: 1..(MaxPages + 1), after: Nat, out: Seq(Items)]
Happenings == {"append", "remove", "touch"}

ReadTypes ==
  /\ listed \in Seq(Items) /\ began \in Seq(Items) /\ changes \in Seq(Happenings)
  /\ reader \in Readers /\ reader.after <= Len(listed)

\* Where a reader is: a page before the cap, or past it.
Placed ==
  /\ Len(reader.out) <= Before(reader.page)
  /\ reader.pc = "start" => reader.page = 1 /\ reader.after = 0 /\ reader.out = <<>>
  /\ reader.pc = "page" => reader.page <= MaxPages
  /\ reader.pc = "probe" => reader.page = MaxPages + 1 /\ reader.kind = "mirror"

\* What is before the cursor was read, whatever was removed.
BehindCursor ==
  reader.kind = "board" /\ reader.pc # "failed" =>
    /\ \A i \in 1..reader.after : listed[i] \in ToSet(reader.out)
    /\ reader.pc = "ok" => reader.after = Len(listed)

\* Of a list that only grew, what was read is how it begins.
OnlyAppended == ToSet(changes) \subseteq {"append"}
ReadInOrder ==
  /\ Begins(began, listed)
  /\ reader.pc \in {"page", "probe", "ok"} => Begins(reader.out, listed)
  /\ reader.pc \in {"page", "probe"} => Len(reader.out) = Before(reader.page)
  /\ reader.pc = "page" /\ reader.kind = "board" => reader.after = Len(reader.out)
  /\ reader.pc = "ok" => Len(reader.out) = Len(listed)
  /\ reader.pc = "refused" /\ reader.kind = "mirror" => Len(listed) > Cap

PagingInv == ReadTypes /\ Placed /\ BehindCursor /\ (OnlyAppended => ReadInOrder)

LEMMA SetOfAppended ==
  ASSUME NEW S, NEW s \in Seq(S), NEW x \in S
  PROVE  Append(s, x) \in Seq(S) /\ ToSet(Append(s, x)) = ToSet(s) \cup {x}
<1>1. Append(s, x) \in Seq(S) /\ Len(Append(s, x)) = Len(s) + 1 /\ Len(s) \in Nat
  OBVIOUS
<1>2. DOMAIN s = 1..Len(s) /\ DOMAIN Append(s, x) = 1..(Len(s) + 1)
  OBVIOUS
<1>3. \A i \in 1..Len(s) : Append(s, x)[i] = s[i]
  OBVIOUS
<1>4. Append(s, x)[Len(s) + 1] = x
  OBVIOUS
<1>5. 1..(Len(s) + 1) = 1..Len(s) \cup {Len(s) + 1}
  BY <1>1
<1> DEFINE w == Append(s, x)
<1> HIDE DEF w
<1>6. ToSet(w) = ToSet(s) \cup {x}
  BY <1>2, <1>3, <1>4, <1>5 DEF ToSet, w
<1> QED
  BY <1>1, <1>6 DEF w

LEMMA PagingInvInit == PagingInit => PagingInv
<1> SUFFICES ASSUME PagingInit PROVE PagingInv
  OBVIOUS
<1>1. PICK n \in 0..(Cap + 1) : listed = [i \in 1..n |-> i]
  BY DEF PagingInit
<1>2. PerPage \in Nat \ {0} /\ MaxPages \in Nat \ {0} /\ Cap \in Nat
  BY PagingAssumption DEF Cap
<1>3. listed \in Seq(Items)
  <2>1. \A i \in 1..n : i \in Items
    BY <1>1, <1>2 DEF Items
  <2> QED
    BY <1>1, <1>2, <2>1
<1>4. began = listed /\ changes = <<>> /\ changes \in Seq(Happenings)
  BY DEF PagingInit
<1>5. /\ reader \in Readers /\ reader.pc = "start" /\ reader.page = 1 /\ reader.after = 0 /\ reader.out = <<>>
  <2>1. PICK k \in ListKinds : reader = [kind |-> k, pc |-> "start", page |-> 1, after |-> 0, out |-> <<>>]
    BY DEF PagingInit
  <2>2. 1 \in 1..(MaxPages + 1) /\ 0 \in Nat /\ <<>> \in Seq(Items)
    BY <1>2
  <2> QED
    BY <2>1, <2>2 DEF Readers
<1>6. ReadTypes
  BY <1>3, <1>4, <1>5 DEF ReadTypes
<1>7. Placed
  <2>1. Len(<<>>) = 0 /\ Before(1) = 0
    BY <1>2 DEF Before
  <2> QED
    BY <1>5, <2>1 DEF Placed
<1>8. BehindCursor
  BY <1>5 DEF BehindCursor
<1>9. ReadInOrder
  BY <1>3, <1>4, <1>5, BeginsItself DEF ReadInOrder
<1> QED
  BY <1>6, <1>7, <1>8, <1>9 DEF PagingInv

\* What the invariant says of a reader, unfolded for the steps.
LEMMA ReaderFacts ==
  ASSUME PagingInv
  PROVE  /\ listed \in Seq(Items) /\ began \in Seq(Items) /\ changes \in Seq(Happenings)
         /\ reader \in Readers /\ reader.out \in Seq(Items) /\ ToSet(reader.out) \subseteq Items
         /\ reader.after \in Nat /\ reader.page \in 1..(MaxPages + 1)
         /\ Len(listed) \in Nat /\ Len(reader.out) \in Nat /\ reader.after <= Len(listed)
<1>1. ReadTypes
  BY DEF PagingInv
<1>2. /\ listed \in Seq(Items) /\ began \in Seq(Items) /\ changes \in Seq(Happenings)
      /\ reader \in Readers /\ reader.after <= Len(listed)
  BY <1>1 DEF ReadTypes
<1>3. reader.out \in Seq(Items) /\ reader.after \in Nat /\ reader.page \in 1..(MaxPages + 1)
  BY <1>2 DEF Readers
<1>4. ToSet(reader.out) \subseteq Items
  BY <1>3 DEF ToSet
<1> QED
  BY <1>2, <1>3, <1>4

\* The reader's steps leave the list and what it was alone.
LEMMA EnsureNotMovedKeeps ==
  ASSUME PagingInv, EnsureNotMoved
  PROVE  PagingInv'
<1>1. reader.pc = "start" /\ began' = listed /\ listed' = listed /\ changes' = changes
  BY DEF EnsureNotMoved
<1>2. /\ reader' \in Readers /\ reader'.pc \in {"moved", "page"} /\ reader'.kind = reader.kind
      /\ reader'.page = 1 /\ reader'.after = 0 /\ reader'.out = <<>>
  BY ReaderFacts DEF EnsureNotMoved, Readers, PagingInv, Placed
<1>3. ReadTypes'
  BY <1>1, <1>2, ReaderFacts DEF ReadTypes
<1>4. Len(<<>>) = 0 /\ Before(1) = 0 /\ 1 <= MaxPages
  BY PagingAssumption DEF Before
<1>5. Placed'
  BY <1>2, <1>4 DEF Placed
<1>6. BehindCursor'
  BY <1>2 DEF BehindCursor
<1>7. ReadInOrder'
  <2>1. Begins(listed, listed) /\ Begins(<<>>, listed)
    BY ReaderFacts, BeginsItself, <1>4 DEF Begins
  <2> QED
    BY <1>1, <1>2, <1>4, <2>1 DEF ReadInOrder
<1> QED
  BY <1>3, <1>5, <1>6, <1>7 DEF PagingInv

\* A REST page: either the place of the next one is where the last ended, or the
\* list was disturbed.
LEMMA FetchPageKeeps ==
  ASSUME PagingInv, FetchPage
  PROVE  PagingInv'
<1> DEFINE from == (reader.page - 1) * PerPage + 1
           batch == Slice(from, PerPage)
           n == Len(batch)
           out == reader.out \o batch
<1>1. /\ reader.pc = "page" /\ reader.kind # "board" /\ listed' = listed /\ began' = began /\ changes' = changes
      /\ reader' = [reader EXCEPT !.pc = AfterPage(n), !.page = @ + 1, !.out = @ \o batch]
  BY DEF FetchPage
<1>2. /\ reader.page \in 1..(MaxPages + 1) /\ reader.page <= MaxPages
      /\ PerPage \in Nat \ {0} /\ MaxPages \in Nat \ {0}
  BY <1>1, ReaderFacts, PagingAssumption DEF PagingInv, Placed
<1>3. /\ Before(reader.page) \in Nat /\ Cap \in Nat
      /\ Before(reader.page + 1) = Before(reader.page) + PerPage
      /\ reader.page + 1 = MaxPages + 1 => Before(reader.page + 1) = Cap
      /\ Before(reader.page + 1) <= Cap
  <2>1. reader.page + 1 \in 1..(MaxPages + 1)
    BY <1>2
  <2> QED
    BY <1>2, <2>1, PagesFacts
<1>4. from \in Nat \ {0} /\ from = Before(reader.page) + 1
  BY <1>3 DEF Before
<1> HIDE DEF from
<1>5. /\ batch \in Seq(Items) /\ n \in 0..PerPage
      /\ from + PerPage - 1 <= Len(listed) => n = PerPage
      /\ from <= Len(listed) + 1 /\ ~(from + PerPage - 1 <= Len(listed)) => n = Len(listed) + 1 - from
  BY <1>2, <1>4, ReaderFacts, SliceFacts
<1> HIDE DEF batch, n
<1>6. out \in Seq(Items) /\ Len(out) = Len(reader.out) + n
  BY <1>5, ReaderFacts, ConcatProperties DEF n
<1> HIDE DEF out
<1>7. AfterPage(n) \in {"ok", "page", "probe", "refused"}
  BY DEF AfterPage
<1>8. /\ reader' \in Readers /\ reader'.pc = AfterPage(n) /\ reader'.kind = reader.kind
      /\ reader'.page = reader.page + 1 /\ reader'.after = reader.after /\ reader'.out = out
  <2>1. reader.page + 1 \in 1..(MaxPages + 1)
    BY <1>2
  <2> QED
    BY <1>1, <1>6, <1>7, <2>1, ReaderFacts DEF Readers, out
<1>9. ReadTypes'
  BY <1>1, <1>8, ReaderFacts DEF ReadTypes
<1>10. Placed'
  <2>1. Len(reader.out) <= Before(reader.page)
    BY DEF PagingInv, Placed
  <2>2. Len(out) <= Before(reader.page + 1)
    BY <1>2, <1>3, <1>5, <1>6, <2>1, ReaderFacts
  <2>3. AfterPage(n) # "start" /\ (AfterPage(n) = "page" => reader.page + 1 <= MaxPages)
        /\ (AfterPage(n) = "probe" => reader.page + 1 = MaxPages + 1 /\ reader.kind = "mirror")
    BY <1>2 DEF AfterPage
  <2> QED
    BY <1>8, <2>2, <2>3 DEF Placed
<1>11. BehindCursor'
  BY <1>1, <1>8 DEF BehindCursor
<1>12. ASSUME OnlyAppended
       PROVE  ReadInOrder'
  <2>1. /\ Begins(began, listed) /\ Begins(reader.out, listed)
        /\ Len(reader.out) = Before(reader.page)
    BY <1>1, <1>12 DEF PagingInv, ReadInOrder
  <2>2. from = Len(reader.out) + 1 /\ from <= Len(listed) + 1
    BY <1>4, <2>1, ReaderFacts DEF Begins
  <2>3. Begins(out, listed)
    BY <1>2, <2>1, <2>2, ReaderFacts, BeginsGoesOn DEF out, batch
  <2>4. Len(out) <= Len(listed)
    BY <2>3 DEF Begins
  <2>5. ASSUME n < PerPage PROVE Len(out) = Len(listed)
    <3>1. ~(from + PerPage - 1 <= Len(listed))
      BY <1>2, <1>5, <2>5
    <3>2. n = Len(listed) + 1 - from
      BY <1>5, <2>2, <3>1
    <3> QED
      BY <1>6, <2>2, <3>2, ReaderFacts
  <2>6. ~(n < PerPage) => Len(out) = Before(reader.page + 1)
    BY <1>2, <1>3, <1>5, <1>6, <2>1
  <2>7. /\ AfterPage(n) = "ok" => n < PerPage
        /\ AfterPage(n) \in {"page", "probe", "refused"} => ~(n < PerPage)
        /\ AfterPage(n) = "refused" => reader.kind # "mirror"
    BY DEF AfterPage
  <2> QED
    BY <1>1, <1>7, <1>8, <2>1, <2>3, <2>5, <2>6, <2>7 DEF ReadInOrder
<1>13. OnlyAppended' => ReadInOrder'
  BY <1>1, <1>12 DEF OnlyAppended
<1> QED
  BY <1>9, <1>10, <1>11, <1>13 DEF PagingInv

\* The probe asks for the item past the cap.
LEMMA ProbePageKeeps ==
  ASSUME PagingInv, ProbePage
  PROVE  PagingInv'
<1> DEFINE one == Slice(ProbeItem, 1)
<1>1. /\ reader.pc = "probe" /\ listed' = listed /\ began' = began /\ changes' = changes
      /\ reader' = [reader EXCEPT !.pc = IF one = <<>> THEN "ok" ELSE "refused"]
  BY DEF ProbePage
<1>2. reader.page = MaxPages + 1 /\ reader.kind = "mirror" /\ Cap \in Nat
      /\ Before(reader.page) = Cap
  BY <1>1, ReaderFacts, PagesFacts DEF PagingInv, Placed
<1>3. ProbeItem \in Nat \ {0} /\ 1 \in Nat \ {0}
  BY <1>2 DEF ProbeItem
<1>4. /\ ProbeItem <= Len(listed) => Len(one) = 1
      /\ ProbeItem <= Len(listed) + 1 /\ ~(ProbeItem <= Len(listed)) => Len(one) = 0
      /\ one \in Seq(Items)
  <2>1. /\ one \in Seq(Items)
        /\ ProbeItem + 1 - 1 <= Len(listed) => Len(one) = 1
        /\ ProbeItem <= Len(listed) + 1 /\ ~(ProbeItem + 1 - 1 <= Len(listed)) =>
             Len(one) = Len(listed) + 1 - ProbeItem
    BY <1>3, ReaderFacts, SliceFacts
  <2>2. ProbeItem + 1 - 1 = ProbeItem
    BY <1>3
  <2> QED
    BY <1>3, <2>1, <2>2, ReaderFacts
<1>5. one = <<>> <=> Len(one) = 0
  BY <1>4
<1> HIDE DEF one
<1>6. /\ reader' \in Readers /\ reader'.pc = (IF one = <<>> THEN "ok" ELSE "refused") /\ reader'.kind = reader.kind
      /\ reader'.page = reader.page /\ reader'.after = reader.after /\ reader'.out = reader.out
  BY <1>1, ReaderFacts DEF Readers
<1>7. ReadTypes'
  BY <1>1, <1>6, ReaderFacts DEF ReadTypes
<1>8. Placed'
  BY <1>1, <1>6 DEF PagingInv, Placed
<1>9. BehindCursor'
  BY <1>2, <1>6 DEF BehindCursor
<1>10. ASSUME OnlyAppended
       PROVE  ReadInOrder'
  <2>1. Begins(began, listed) /\ Begins(reader.out, listed) /\ Len(reader.out) = Cap
    BY <1>1, <1>2, <1>10 DEF PagingInv, ReadInOrder
  <2>2. Cap <= Len(listed) /\ ProbeItem = Cap + 1
    BY <2>1 DEF Begins, ProbeItem
  <2>3. one = <<>> => Len(reader.out) = Len(listed)
    BY <1>2, <1>4, <1>5, <2>1, <2>2, ReaderFacts
  <2>4. one # <<>> => Len(listed) > Cap
    BY <1>2, <1>4, <1>5, <2>2, ReaderFacts
  <2> QED
    BY <1>1, <1>6, <2>1, <2>3, <2>4 DEF ReadInOrder
<1>11. OnlyAppended' => ReadInOrder'
  BY <1>1, <1>10 DEF OnlyAppended
<1> QED
  BY <1>7, <1>8, <1>9, <1>11 DEF PagingInv

\* A page of the board is behind the cursor when it was read.
LEMMA FetchBoardPageKeeps ==
  ASSUME PagingInv, FetchBoardPage
  PROVE  PagingInv'
<1> DEFINE from == reader.after + 1
           batch == Slice(from, PerPage)
           n == Len(batch)
           more == from + PerPage - 1 < Len(listed)
           pc == IF ~more THEN "ok" ELSE IF reader.page < MaxPages THEN "page" ELSE "truncated"
           after == from + n - 1
           out == reader.out \o batch
<1>1. /\ reader.pc = "page" /\ reader.kind = "board" /\ listed' = listed /\ began' = began /\ changes' = changes
      /\ reader' = [reader EXCEPT !.pc = pc, !.page = @ + 1, !.after = after, !.out = @ \o batch]
  BY DEF FetchBoardPage, BoardFrom
<1>2. /\ reader.page \in 1..(MaxPages + 1) /\ reader.page <= MaxPages
      /\ PerPage \in Nat \ {0} /\ MaxPages \in Nat \ {0}
  BY <1>1, ReaderFacts, PagingAssumption DEF PagingInv, Placed
<1>3. Before(reader.page) \in Nat /\ Before(reader.page + 1) = Before(reader.page) + PerPage
  BY <1>2, PagesFacts
<1>4. from \in Nat \ {0} /\ from = reader.after + 1 /\ from <= Len(listed) + 1
  BY ReaderFacts
<1> HIDE DEF from
<1>5. /\ batch \in Seq(Items) /\ n \in 0..PerPage
      /\ from + PerPage - 1 <= Len(listed) => n = PerPage
      /\ ~(from + PerPage - 1 <= Len(listed)) => n = Len(listed) + 1 - from
      /\ \A i \in 1..n : from + i - 1 \in 1..Len(listed) /\ batch[i] = listed[from + i - 1]
  BY <1>2, <1>4, ReaderFacts, SliceFacts
<1> HIDE DEF batch, n
<1>6. out \in Seq(Items) /\ Len(out) = Len(reader.out) + n /\ ToSet(out) = ToSet(reader.out) \cup ToSet(batch)
  BY <1>5, ReaderFacts, ConcatProperties, JoinedSets DEF n
<1>7. after \in Nat /\ after = reader.after + n /\ after <= Len(listed) /\ (~more => after = Len(listed))
  <2>1. reader.after \in Nat /\ Len(listed) \in Nat /\ reader.after <= Len(listed) /\ n \in 0..PerPage
    BY <1>5, ReaderFacts
  <2>2. ASSUME NEW a \in Nat, NEW l \in Nat, a <= l, NEW m \in 0..PerPage, NEW w \in Nat \ {0},
               w = PerPage, a + 1 + w - 1 <= l => m = w, ~(a + 1 + w - 1 <= l) => m = l + 1 - (a + 1)
        PROVE  /\ a + 1 + m - 1 \in Nat /\ a + 1 + m - 1 = a + m /\ a + 1 + m - 1 <= l
               /\ ~(a + 1 + w - 1 < l) => a + 1 + m - 1 = l
    BY <2>2
  <2> HIDE DEF pc, out
  <2>3. /\ reader.after + 1 + PerPage - 1 <= Len(listed) => n = PerPage
        /\ ~(reader.after + 1 + PerPage - 1 <= Len(listed)) => n = Len(listed) + 1 - (reader.after + 1)
    BY <1>5 DEF from
  <2> QED
    BY <1>2, <2>1, <2>2, <2>3 DEF from
<1>8. pc \in {"ok", "page", "truncated"} /\ (pc = "page" => reader.page + 1 <= MaxPages) /\ (pc = "ok" => ~more)
  BY <1>2
<1> HIDE DEF out, after, pc, more
<1>9. /\ reader' \in Readers /\ reader'.pc = pc /\ reader'.kind = "board"
      /\ reader'.page = reader.page + 1 /\ reader'.after = after /\ reader'.out = out
  <2>1. reader.page + 1 \in 1..(MaxPages + 1)
    BY <1>2
  <2> QED
    BY <1>1, <1>6, <1>7, <1>8, <2>1, ReaderFacts DEF Readers, out
<1>10. ReadTypes'
  BY <1>1, <1>7, <1>9, ReaderFacts DEF ReadTypes
<1>11. Placed'
  <2>1. Len(reader.out) <= Before(reader.page)
    BY DEF PagingInv, Placed
  <2>2. Len(out) <= Before(reader.page + 1)
    BY <1>2, <1>3, <1>5, <1>6, <2>1, ReaderFacts
  <2> QED
    BY <1>8, <1>9, <2>2 DEF Placed
<1>12. BehindCursor'
  <2>1. ASSUME NEW i \in 1..after PROVE listed[i] \in ToSet(out)
    <3>1. CASE i <= reader.after
      <4>1. i \in 1..reader.after
        BY <1>7, <3>1, ReaderFacts
      <4> QED
        BY <1>1, <1>6, <4>1 DEF PagingInv, BehindCursor
    <3>2. CASE ~(i <= reader.after)
      <4>1. i - reader.after \in 1..n /\ from + (i - reader.after) - 1 = i
        <5>1. i \in Nat /\ n \in Nat /\ i <= reader.after + n /\ reader.after < i
          BY <1>5, <1>7, <2>1, <3>2, ReaderFacts
        <5>2. reader.after \in Nat
          BY ReaderFacts
        <5> QED
          BY <5>1, <5>2 DEF from
      <4>2. batch[i - reader.after] = listed[i]
        BY <1>5, <4>1
      <4>3. DOMAIN batch = 1..n
        BY <1>5 DEF n
      <4>4. batch[i - reader.after] \in ToSet(batch)
        BY <4>1, <4>3 DEF ToSet
      <4> QED
        BY <1>6, <4>2, <4>4
    <3> QED
      BY <3>1, <3>2
  <2> QED
    BY <1>1, <1>7, <1>8, <1>9, <2>1 DEF BehindCursor
<1>13. ASSUME OnlyAppended
       PROVE  ReadInOrder'
  <2>1. /\ Begins(began, listed) /\ Begins(reader.out, listed)
        /\ Len(reader.out) = Before(reader.page) /\ reader.after = Len(reader.out)
    BY <1>1, <1>13 DEF PagingInv, ReadInOrder
  <2>2. from = Len(reader.out) + 1
    BY <1>4, <2>1
  <2>3. Begins(out, listed)
    BY <1>2, <2>1, <2>2, ReaderFacts, BeginsGoesOn DEF out, batch
  <2>4. Len(out) = after
    BY <1>6, <1>7, <2>1
  <2>5. more => n = PerPage
    BY <1>2, <1>4, <1>5, ReaderFacts DEF more
  <2>6. pc = "page" => more
    BY DEF pc
  <2>7. pc = "page" => Len(out) = Before(reader.page + 1)
    BY <1>3, <1>6, <2>1, <2>5, <2>6
  <2> QED
    BY <1>1, <1>7, <1>8, <1>9, <2>1, <2>3, <2>4, <2>7 DEF ReadInOrder
<1>14. OnlyAppended' => ReadInOrder'
  BY <1>1, <1>13 DEF OnlyAppended
<1> QED
  BY <1>10, <1>11, <1>12, <1>14 DEF PagingInv

LEMMA PageFailsKeeps ==
  ASSUME PagingInv, PageFails
  PROVE  PagingInv'
<1>1. /\ listed' = listed /\ began' = began /\ changes' = changes
      /\ reader' = [reader EXCEPT !.pc = "failed", !.out = <<>>]
      /\ reader.pc \in {"start", "page", "probe"}
  BY DEF PageFails
<1>2. /\ reader' \in Readers /\ reader'.pc = "failed" /\ reader'.kind = reader.kind
      /\ reader'.page = reader.page /\ reader'.after = reader.after /\ reader'.out = <<>>
  <2>1. <<>> \in Seq(Items)
    OBVIOUS
  <2> QED
    BY <1>1, <2>1, ReaderFacts DEF Readers
<1>3. ReadTypes'
  BY <1>1, <1>2, ReaderFacts DEF ReadTypes
<1>4. Placed'
  <2>1. Len(<<>>) = 0 /\ Before(reader.page) \in Nat
    BY ReaderFacts, PagesFacts
  <2> QED
    BY <1>2, <2>1 DEF Placed
<1>5. BehindCursor'
  BY <1>2 DEF BehindCursor
<1>6. OnlyAppended' => ReadInOrder'
  BY <1>1, <1>2 DEF PagingInv, OnlyAppended, ReadInOrder
<1> QED
  BY <1>3, <1>4, <1>5, <1>6 DEF PagingInv

\* GitHub's steps: the reader is between two requests.
LEMMA ItemAppendedKeeps ==
  ASSUME PagingInv, NEW x \in Items, ItemAppended(x)
  PROVE  PagingInv'
<1>1. /\ reader.pc \in {"page", "probe"} /\ listed' = Append(listed, x) /\ changes' = Append(changes, "append")
      /\ reader' = reader /\ began' = began
  BY DEF ItemAppended, Reading
<1>2. listed' \in Seq(Items) /\ Len(listed') = Len(listed) + 1 /\ \A i \in 1..Len(listed) : listed'[i] = listed[i]
  BY <1>1, ReaderFacts
<1>3. changes' \in Seq(Happenings) /\ ToSet(changes') = ToSet(changes) \cup {"append"}
  <2>1. "append" \in Happenings
    BY DEF Happenings
  <2> QED
    BY <1>1, <2>1, ReaderFacts, SetOfAppended
<1>4. ReadTypes'
  BY <1>1, <1>2, <1>3, ReaderFacts DEF ReadTypes
<1>5. Placed'
  BY <1>1 DEF PagingInv, Placed
<1>6. BehindCursor'
  <2>1. \A i \in 1..reader.after : listed'[i] = listed[i]
    BY <1>2, ReaderFacts
  <2> QED
    BY <1>1, <2>1 DEF PagingInv, BehindCursor
<1>7. OnlyAppended' => ReadInOrder'
  <2>1. OnlyAppended' => OnlyAppended
    BY <1>3 DEF OnlyAppended
  <2>2. ASSUME OnlyAppended PROVE ReadInOrder'
    <3>1. ReadInOrder
      BY <2>2 DEF PagingInv
    <3>2. Begins(began, listed) /\ Begins(reader.out, listed)
      BY <1>1, <3>1 DEF ReadInOrder
    <3>3. Begins(began, listed') /\ Begins(reader.out, listed')
      BY <1>1, <3>2, ReaderFacts, BeginsAppended
    <3> QED
      BY <1>1, <3>1, <3>3 DEF ReadInOrder
  <2> QED
    BY <2>1, <2>2
<1> QED
  BY <1>4, <1>5, <1>6, <1>7 DEF PagingInv

LEMMA ItemRemovedKeeps ==
  ASSUME PagingInv, NEW i \in DOMAIN listed, ItemRemoved(i)
  PROVE  PagingInv'
<1> DEFINE rest == RemoveAt(listed, i)
           after == IF i <= reader.after THEN reader.after - 1 ELSE reader.after
<1>1. /\ reader.pc \in {"page", "probe"} /\ listed' = rest /\ changes' = Append(changes, "remove")
      /\ reader' = [reader EXCEPT !.after = after] /\ began' = began
  BY DEF ItemRemoved, Reading
<1>2. /\ rest \in Seq(Items) /\ DOMAIN rest = 1..(Len(listed) - 1)
      /\ \A j \in DOMAIN rest : rest[j] = listed[IF j < i THEN j ELSE j + 1]
  BY ReaderFacts, RemoveAtFacts
<1>3. i \in 1..Len(listed)
  BY ReaderFacts
<1> HIDE DEF rest
<1>4. Len(rest) = Len(listed) - 1
  BY <1>2, <1>3, ReaderFacts
<1>5. after \in Nat /\ after <= Len(rest) /\ after <= reader.after /\ (i <= reader.after => after = reader.after - 1)
  BY <1>3, <1>4, ReaderFacts
<1> HIDE DEF after
<1>6. /\ reader' \in Readers /\ reader'.pc = reader.pc /\ reader'.kind = reader.kind
      /\ reader'.page = reader.page /\ reader'.after = after /\ reader'.out = reader.out
  BY <1>1, <1>5, ReaderFacts DEF Readers
<1>7. changes' \in Seq(Happenings) /\ ToSet(changes') = ToSet(changes) \cup {"remove"}
  <2>1. "remove" \in Happenings
    BY DEF Happenings
  <2> QED
    BY <1>1, <2>1, ReaderFacts, SetOfAppended
<1>8. ReadTypes'
  BY <1>1, <1>2, <1>5, <1>6, <1>7, ReaderFacts DEF ReadTypes
<1>9. Placed'
  BY <1>1, <1>6 DEF PagingInv, Placed
<1>10. BehindCursor'
  <2>1. ASSUME reader.kind = "board", reader.pc # "failed", NEW j \in 1..after
        PROVE  rest[j] \in ToSet(reader.out)
    <3>1. \A k \in 1..reader.after : listed[k] \in ToSet(reader.out)
      BY <2>1 DEF PagingInv, BehindCursor
    <3>2. j \in DOMAIN rest
      BY <1>2, <1>4, <1>5, <2>1, ReaderFacts
    <3>3. CASE j < i
      <4>1. j \in 1..reader.after
        BY <1>5, <2>1, ReaderFacts
      <4>2. rest[j] = listed[j]
        BY <1>2, <3>2, <3>3
      <4> QED
        BY <3>1, <4>1, <4>2
    <3>4. CASE ~(j < i)
      <4>1. j + 1 \in 1..reader.after
        BY <1>3, <1>5, <2>1, <3>4, ReaderFacts
      <4>2. rest[j] = listed[j + 1]
        BY <1>2, <3>2, <3>4
      <4> QED
        BY <3>1, <4>1, <4>2
    <3> QED
      BY <3>3, <3>4
  <2> QED
    BY <1>1, <1>6, <2>1 DEF BehindCursor
<1>11. ~OnlyAppended'
  <2>1. "append" # "remove" /\ "append" # "touch"
    OBVIOUS
  <2> QED
    BY <1>7, <2>1 DEF OnlyAppended
<1> QED
  BY <1>8, <1>9, <1>10, <1>11 DEF PagingInv

LEMMA ItemTouchedKeeps ==
  ASSUME PagingInv, NEW i \in DOMAIN listed, ItemTouched(i)
  PROVE  PagingInv'
<1> DEFINE rest == RemoveAt(listed, i)
           first == <<listed[i]>>
<1>1. /\ reader.pc \in {"page", "probe"} /\ reader.kind = "changed" /\ listed' = first \o rest
      /\ changes' = Append(changes, "touch") /\ reader' = reader /\ began' = began
  BY DEF ItemTouched, Reading
<1>2. rest \in Seq(Items) /\ DOMAIN rest = 1..(Len(listed) - 1)
  BY ReaderFacts, RemoveAtFacts
<1>3. i \in 1..Len(listed) /\ listed[i] \in Items
  BY ReaderFacts
<1>4. first \in Seq(Items) /\ Len(first) = 1
  BY <1>3
<1> HIDE DEF rest, first
<1>5. Len(rest) = Len(listed) - 1
  BY <1>2, <1>3, ReaderFacts
<1>6. listed' \in Seq(Items) /\ Len(listed') = Len(listed)
  <2>1. first \o rest \in Seq(Items) /\ Len(first \o rest) = Len(first) + Len(rest)
    BY <1>2, <1>4, ConcatProperties
  <2> QED
    BY <1>1, <1>4, <1>5, <2>1, ReaderFacts
<1>7. changes' \in Seq(Happenings) /\ ToSet(changes') = ToSet(changes) \cup {"touch"}
  <2>1. "touch" \in Happenings
    BY DEF Happenings
  <2> QED
    BY <1>1, <2>1, ReaderFacts, SetOfAppended
<1>8. ReadTypes'
  BY <1>1, <1>6, <1>7, ReaderFacts DEF ReadTypes
<1>9. Placed' /\ BehindCursor'
  BY <1>1 DEF PagingInv, Placed, BehindCursor
<1>10. ~OnlyAppended'
  <2>1. "append" # "remove" /\ "append" # "touch"
    OBVIOUS
  <2> QED
    BY <1>7, <2>1 DEF OnlyAppended
<1> QED
  BY <1>8, <1>9, <1>10 DEF PagingInv

LEMMA PagingInvStep == PagingInv /\ [PagingNext]_pagingVars => PagingInv'
<1> SUFFICES ASSUME PagingInv, [PagingNext]_pagingVars PROVE PagingInv'
  OBVIOUS
<1>1. CASE EnsureNotMoved
  BY <1>1, EnsureNotMovedKeeps
<1>2. CASE FetchPage
  BY <1>2, FetchPageKeeps
<1>3. CASE ProbePage
  BY <1>3, ProbePageKeeps
<1>4. CASE FetchBoardPage
  BY <1>4, FetchBoardPageKeeps
<1>5. CASE PageFails
  BY <1>5, PageFailsKeeps
<1>6. CASE \E x \in Items : ItemAppended(x)
  BY <1>6, ItemAppendedKeeps
<1>7. CASE \E i \in DOMAIN listed : ItemRemoved(i) \/ ItemTouched(i)
  BY <1>7, ItemRemovedKeeps, ItemTouchedKeeps
<1>8. CASE UNCHANGED pagingVars
  BY <1>8 DEF pagingVars, PagingInv, ReadTypes, Placed, BehindCursor, OnlyAppended, ReadInOrder
<1> QED
  BY <1>1, <1>2, <1>3, <1>4, <1>5, <1>6, <1>7, <1>8 DEF PagingNext

LEMMA PagingInvShows == PagingInv => ListsAreWhole
<1> SUFFICES ASSUME PagingInv PROVE ListsAreWhole
  OBVIOUS
<1>1. Len(reader.out) <= Cap
  <2>1. Len(reader.out) <= Before(reader.page)
    BY DEF PagingInv, Placed
  <2> QED
    BY <2>1, ReaderFacts, PagesFacts
<1>2. PagingTypeOK
  BY <1>1, ReaderFacts DEF PagingTypeOK
<1>3. ASSUME Ok, OnlyAppended
      PROVE  reader.out = listed /\ Len(listed) <= Cap /\ Begins(began, listed)
  <2>1. Begins(reader.out, listed) /\ Len(reader.out) = Len(listed) /\ Begins(began, listed)
    BY <1>3 DEF PagingInv, ReadInOrder, Ok
  <2> QED
    BY <1>1, <2>1, ReaderFacts, BeginsAll
<1>4. changes = <<>> => OnlyAppended
  BY DEF OnlyAppended, ToSet
<1>5. WholeOrRefused
  BY <1>3, <1>4 DEF WholeOrRefused
<1>6. RefusedIsTooLong
  BY <1>4 DEF RefusedIsTooLong, PagingInv, ReadInOrder
<1>7. AppendsAreHarmless
  BY <1>3, ReaderFacts, BeginsWithin DEF AppendsAreHarmless, OnlyAppended
<1>8. CursorKeepsItsPlace
  <2> SUFFICES ASSUME Ok, reader.kind = "board" PROVE ToSet(listed) \subseteq ToSet(reader.out)
    BY DEF CursorKeepsItsPlace
  <2>1. \A i \in 1..Len(listed) : listed[i] \in ToSet(reader.out)
    BY DEF PagingInv, BehindCursor, Ok
  <2>2. DOMAIN listed = 1..Len(listed)
    BY ReaderFacts
  <2> QED
    BY <2>1, <2>2 DEF ToSet
<1> QED
  BY <1>2, <1>5, <1>6, <1>7, <1>8 DEF ListsAreWhole

\* For every page size, cap and list, and whatever is added, removed or touched
\* between two requests: a list that held still is read whole and in order or is
\* refused, a mirror's list only past the cap; items that are added cost none that
\* was there, and the board's cursor loses no item that stays (list_issues,
\* fetch_sub_issues, fetch_blocked_by, poll_project_items).
THEOREM PagingKeepsWhole == PagingSpec => []ListsAreWhole
BY PagingInvInit, PagingInvStep, PagingInvShows, PTL DEF PagingSpec

-----------------------------------------------------------------------------
(***************************************************************************)
(* Cascading imports: paths of a tree.                                     *)
(***************************************************************************)

\* A set of numbers has a smallest one.
LEMMA SmallestOf ==
  ASSUME NEW S \in SUBSET Nat, S # {}
  PROVE  \E i \in S : \A j \in S : i <= j
<1> DEFINE R == {s \in Nat \X Nat : s[1] < s[2]}
<1>1. IsWellFoundedOn(R, Nat)
  BY NatLessThanWellFounded DEF OpToRel
<1>2. PICK i \in S : \A j \in S : <<j, i>> \notin R
  BY <1>1, WFMin
<1>3. ASSUME NEW j \in S PROVE i <= j
  <2>1. <<j, i>> \notin R /\ i \in Nat /\ j \in Nat
    BY <1>2
  <2> QED
    BY <2>1
<1> QED
  BY <1>3

TreeIsNumbered ==
  /\ parentOf \in [2..Size -> IssuesOfTree] /\ \A n \in 2..Size : parentOf[n] < n
  /\ home \in SUBSET IssuesOfTree /\ Root \in home

\* A path ends at the root, and one step up it is the path of the parent.
LEMMA OnPathFacts ==
  ASSUME TreeIsNumbered
  PROVE  /\ Root \in IssuesOfTree /\ OnPath(Root) = {Root}
         /\ \A n \in IssuesOfTree : n \in OnPath(n) /\ OnPath(n) \subseteq 1..n
         /\ \A n \in 2..Size : OnPath(n) = {n} \cup OnPath(parentOf[n])
<1>1. Size \in Nat /\ Root \in IssuesOfTree /\ \A n \in IssuesOfTree : n # Root => n \in 2..Size
  BY CascadeAssumption DEF IssuesOfTree, Root
<1>2. \A n \in 2..Size : n \in IssuesOfTree /\ n # Root /\ parentOf[n] \in IssuesOfTree /\ parentOf[n] < n
  BY <1>1 DEF TreeIsNumbered, IssuesOfTree, Root
<1>3. ASSUME NEW n \in IssuesOfTree PROVE n \in OnPath(n) /\ OnPath(n) \subseteq 1..n
  <2>1. 1..n \in SUBSET IssuesOfTree /\ n \in 1..n
    BY <1>1 DEF IssuesOfTree
  <2>2. ASSUME NEW k \in (1..n) \ {Root} PROVE parentOf[k] \in 1..n
    <3>1. k \in 2..Size /\ k <= n
      BY <1>1, <2>1
    <3>2. parentOf[k] \in IssuesOfTree /\ parentOf[k] < k
      BY <1>2, <3>1
    <3> QED
      BY <1>1, <3>1, <3>2 DEF IssuesOfTree
  <2>3. 1..n \in Upward
    BY <2>1, <2>2 DEF Upward
  <2> QED
    BY <2>1, <2>3 DEF OnPath
<1>4. OnPath(Root) = {Root}
  <2>1. {Root} \in Upward
    BY <1>1 DEF Upward
  <2> QED
    BY <1>1, <1>3, <2>1 DEF OnPath
<1>5. ASSUME NEW n \in 2..Size PROVE OnPath(n) = {n} \cup OnPath(parentOf[n])
  <2> DEFINE S == {n} \cup OnPath(parentOf[n])
  <2>1. n \in IssuesOfTree /\ n # Root /\ parentOf[n] \in IssuesOfTree
    BY <1>2
  <2>2. S \in SUBSET IssuesOfTree
    BY <2>1 DEF OnPath
  <2>3. ASSUME NEW k \in S \ {Root} PROVE parentOf[k] \in S
    <3>1. CASE k = n
      BY <1>3, <2>1, <3>1
    <3>2. CASE k # n
      <4>1. k \in OnPath(parentOf[n]) /\ k \in 2..Size /\ parentOf[k] \in IssuesOfTree
        BY <1>1, <1>2, <2>2, <3>2
      <4>2. ASSUME NEW T \in Upward, parentOf[n] \in T PROVE parentOf[k] \in T
        BY <4>1, <4>2 DEF OnPath, Upward
      <4> QED
        BY <4>1, <4>2 DEF OnPath
    <3> QED
      BY <3>1, <3>2
  <2>4. S \in Upward
    BY <2>2, <2>3 DEF Upward
  <2>5. OnPath(n) \subseteq S
    BY <2>4 DEF OnPath
  <2>6. ASSUME NEW T \in Upward, n \in T PROVE parentOf[n] \in T
    BY <2>1, <2>6 DEF Upward
  <2>7. OnPath(parentOf[n]) \subseteq OnPath(n)
    BY <2>6 DEF OnPath
  <2>8. n \in OnPath(n)
    BY <1>3, <2>1
  <2> QED
    BY <2>5, <2>7, <2>8
<1> QED
  BY <1>1, <1>3, <1>4, <1>5

\* What is to be imported: an issue goes with its parent.
LEMMA ToImportFacts ==
  ASSUME TreeIsNumbered
  PROVE  /\ Root \in ToImport /\ Cardinality(OnPath(Root)) = 1
         /\ \A n \in IssuesOfTree : Cardinality(OnPath(n)) \in Nat
         /\ \A n \in 2..Size :
              /\ Cardinality(OnPath(n)) = Cardinality(OnPath(parentOf[n])) + 1
              /\ n \in ToImport <=>
                   parentOf[n] \in ToImport /\ n \in home /\ Cardinality(OnPath(n)) <= MaxDepth + 1
<1>1. /\ Root \in IssuesOfTree /\ OnPath(Root) = {Root} /\ MaxDepth \in Nat /\ Size \in Nat
      /\ \A n \in IssuesOfTree : n \in OnPath(n) /\ OnPath(n) \subseteq 1..n
      /\ \A n \in 2..Size : OnPath(n) = {n} \cup OnPath(parentOf[n])
  BY OnPathFacts, CascadeAssumption
<1>2. ASSUME NEW n \in IssuesOfTree PROVE IsFiniteSet(OnPath(n)) /\ Cardinality(OnPath(n)) \in Nat
  <2>1. IsFiniteSet(1..n)
    BY FS_Interval DEF IssuesOfTree
  <2> QED
    BY <1>1, <2>1, FS_Subset, FS_CardinalityType
<1>3. Cardinality(OnPath(Root)) = 1
  BY <1>1, FS_Singleton
<1>4. ASSUME NEW n \in 2..Size PROVE Cardinality(OnPath(n)) = Cardinality(OnPath(parentOf[n])) + 1
  <2>1. n \in IssuesOfTree /\ parentOf[n] \in IssuesOfTree /\ parentOf[n] < n
    BY <1>1 DEF IssuesOfTree, TreeIsNumbered
  <2>2. OnPath(parentOf[n]) \subseteq 1..parentOf[n]
    BY <1>1, <2>1
  <2>3. n \notin OnPath(parentOf[n])
    BY <2>1, <2>2 DEF IssuesOfTree
  <2> DEFINE S == OnPath(parentOf[n])
  <2>4. IsFiniteSet(S) /\ n \notin S /\ OnPath(n) = S \cup {n}
    BY <1>1, <1>2, <2>1, <2>3
  <2> HIDE DEF S
  <2>5. Cardinality(S \cup {n}) = Cardinality(S) + 1
    BY <2>4, FS_AddElement
  <2> QED
    BY <2>4, <2>5 DEF S
<1>5. Root \in ToImport
  <2>1. 1 <= MaxDepth + 1
    BY <1>1
  <2> QED
    BY <1>1, <1>3, <2>1 DEF ToImport, TreeIsNumbered
<1>6. ASSUME NEW n \in 2..Size
      PROVE  n \in ToImport <=> parentOf[n] \in ToImport /\ n \in home /\ Cardinality(OnPath(n)) <= MaxDepth + 1
  <2>1. n \in IssuesOfTree /\ parentOf[n] \in IssuesOfTree
    BY <1>1 DEF IssuesOfTree, TreeIsNumbered
  <2>2. Cardinality(OnPath(parentOf[n])) \in Nat /\ Cardinality(OnPath(n)) \in Nat
    BY <1>2, <2>1
  <2>3. OnPath(n) \subseteq home <=> n \in home /\ OnPath(parentOf[n]) \subseteq home
    BY <1>1
  <2>4. Cardinality(OnPath(n)) <= MaxDepth + 1 => Cardinality(OnPath(parentOf[n])) <= MaxDepth + 1
    BY <1>1, <1>4, <2>2
  <2> QED
    BY <2>1, <2>3, <2>4 DEF ToImport
<1> QED
  BY <1>2, <1>3, <1>4, <1>5, <1>6

-----------------------------------------------------------------------------
(***************************************************************************)
(* Cascading imports: what an import has done and still has to do.         *)
(***************************************************************************)

ImportFrames == [n: IssuesOfTree, parent: Nat, depth: Nat]
ImportRecords == [pc: {"idle", "pop", "save", "wire", "children", "done"}, stack: Seq(ImportFrames),
                  visited: SUBSET IssuesOfTree, node: ImportFrames]

\* A frame is of an issue to import, at its depth, and its parent has a task.
Framed(f, imported) ==
  /\ f.n \in ToImport /\ f.depth + 1 = Cardinality(OnPath(f.n))
  /\ IF f.n = Root THEN f.parent = Nobody ELSE f.parent = parentOf[f.n] /\ f.parent \in imported

Wired(n, imported, joins) == n \in imported /\ (n # Root => <<n, parentOf[n]>> \in joins)
Reached(i, n) == n \in i.visited \/ \E k \in DOMAIN i.stack : i.stack[k].n = n

\* What was visited is wired and has its children visited or on the stack, except the
\* node at hand, of which the place of the import says how much is done.
Importing(i, imported, joins) ==
  /\ i.pc \notin {"idle", "done"} =>
       /\ \A k \in DOMAIN i.stack : Framed(i.stack[k], imported)
       /\ Reached(i, Root)
       /\ \A v \in i.visited : i.pc = "pop" \/ v # i.node.n =>
            /\ Wired(v, imported, joins)
            /\ \A n \in ToImport \ {Root} : parentOf[n] = v => Reached(i, n)
  /\ i.pc \in {"save", "wire", "children"} => Framed(i.node, imported) /\ i.node.n \in i.visited
  /\ i.pc \in {"wire", "children"} => i.node.n \in imported
  /\ i.pc = "children" => Wired(i.node.n, imported, joins)
  /\ i.pc = "done" => \A n \in ToImport : Wired(n, imported, joins)

CascadeInv ==
  /\ TreeIsNumbered
  /\ tracked \subseteq ToImport /\ edges \subseteq tracked \X tracked
  /\ importer \in [Importers -> ImportRecords]
  /\ \A p \in Importers : Importing(importer[p], tracked, edges)

\* More tasks and more edges disturb no import.
LEMMA ImportingStays ==
  ASSUME NEW i, NEW imported, NEW joins, Importing(i, imported, joins),
         NEW more, imported \subseteq more, NEW wired, joins \subseteq wired
  PROVE  Importing(i, more, wired)
<1>1. \A f : Framed(f, imported) => Framed(f, more)
  BY DEF Framed
<1>2. \A n : Wired(n, imported, joins) => Wired(n, more, wired)
  BY DEF Wired
<1> QED
  BY <1>1, <1>2 DEF Importing

\* A resting import.
LEMMA RestingFacts ==
  /\ \A pc \in {"idle", "pop", "done"} : Resting(pc) \in ImportRecords
  /\ RootFrame \in ImportFrames /\ RootFrame.n = Root /\ RootFrame.parent = Nobody /\ RootFrame.depth = 0
  /\ \A imported, joins : Importing(ImportIdle, imported, joins)
<1>1. Root \in IssuesOfTree /\ Nobody \in Nat
  BY CascadeAssumption DEF Root, IssuesOfTree, Nobody
<1>2. RootFrame \in ImportFrames /\ RootFrame.n = Root /\ RootFrame.parent = Nobody /\ RootFrame.depth = 0
  BY <1>1 DEF RootFrame, Frame, ImportFrames
<1>3. <<>> \in Seq(ImportFrames)
  OBVIOUS
<1>4. ASSUME NEW pc \in {"idle", "pop", "done"} PROVE Resting(pc) \in ImportRecords
  BY <1>2, <1>3 DEF Resting, ImportRecords
<1>5. ImportIdle.pc = "idle"
  BY DEF ImportIdle, Resting
<1>6. \A imported, joins : Importing(ImportIdle, imported, joins)
  BY <1>5 DEF Importing
<1> QED
  BY <1>2, <1>4, <1>6

\* The first states have the invariant.
LEMMA CascadeInvInit == CascadeInit => CascadeInv
<1> SUFFICES ASSUME CascadeInit PROVE CascadeInv
  OBVIOUS
<1>1. TreeIsNumbered
  BY DEF CascadeInit, TreeIsNumbered
<1>2. tracked = {} /\ edges = {} /\ importer = [p \in Importers |-> ImportIdle]
  BY DEF CascadeInit
<1>3. ImportIdle \in ImportRecords /\ \A imported, joins : Importing(ImportIdle, imported, joins)
  BY RestingFacts DEF ImportIdle
<1> QED
  BY <1>1, <1>2, <1>3 DEF CascadeInv

\* One import goes on, and tasks and edges only become more.
LEMMA ImportGoesOn ==
  ASSUME CascadeInv, NEW p \in Importers, NEW i \in ImportRecords,
         importer' = [importer EXCEPT ![p] = i], parentOf' = parentOf, home' = home,
         tracked \subseteq tracked', tracked' \subseteq ToImport,
         edges \subseteq edges', edges' \subseteq tracked' \X tracked',
         Importing(i, tracked', edges')
  PROVE  CascadeInv'
<1>1. TreeIsNumbered' /\ ToImport' = ToImport /\ \A n : OnPath(n)' = OnPath(n)
  <2>1. TreeIsNumbered'
    BY DEF CascadeInv, TreeIsNumbered
  <2>2. Upward' = Upward
    BY DEF Upward
  <2>3. \A n : OnPath(n)' = OnPath(n)
    BY <2>2 DEF OnPath
  <2> QED
    BY <2>1, <2>3 DEF ToImport
<1>2. importer' \in [Importers -> ImportRecords] /\ importer'[p] = i
      /\ \A q \in Importers : q # p => importer'[q] = importer[q]
  BY DEF CascadeInv
<1>3. ASSUME NEW q \in Importers PROVE Importing(importer'[q], tracked', edges')
  BY <1>2, ImportingStays DEF CascadeInv
<1>4. \A q \in Importers : Importing(importer[q], tracked, edges)'
  BY <1>1, <1>3 DEF Importing, Framed, Wired, Reached
<1> QED
  BY <1>1, <1>2, <1>4 DEF CascadeInv

\* The top of a stack and what is below it.
LEMMA FrontFacts ==
  ASSUME NEW S, NEW s \in Seq(S), s # <<>>
  PROVE  /\ Last(s) \in S /\ Last(s) = s[Len(s)] /\ Len(s) \in DOMAIN s
         /\ Front(s) \in Seq(S)
         /\ \A k \in DOMAIN Front(s) : k \in DOMAIN s /\ Front(s)[k] = s[k]
         /\ \A k \in DOMAIN s : k # Len(s) => k \in DOMAIN Front(s)
<1>1. Len(s) \in Nat \ {0} /\ DOMAIN s = 1..Len(s)
  BY EmptySeq, LenProperties
<1>2. Front(s) = [k \in 1..(Len(s) - 1) |-> s[k]]
  BY <1>1 DEF Front
<1>3. Front(s) \in Seq(S)
  BY <1>1, <1>2
<1>4. DOMAIN Front(s) = 1..(Len(s) - 1)
  BY <1>2
<1> QED
  BY <1>1, <1>2, <1>3, <1>4 DEF Last

LEMMA ImportStartsKeeps == ASSUME CascadeInv, NEW p \in Importers, ImportStarts(p) PROVE CascadeInv'
<1> DEFINE i == [Resting("pop") EXCEPT !.stack = <<RootFrame>>]
<1>1. /\ importer' = [importer EXCEPT ![p] = i] /\ parentOf' = parentOf /\ home' = home
      /\ tracked' = tracked /\ edges' = edges
  BY DEF ImportStarts
<1>2. RootFrame \in ImportFrames /\ RootFrame.n = Root /\ RootFrame.parent = Nobody /\ RootFrame.depth = 0
  BY RestingFacts
<1>3. i = [pc |-> "pop", stack |-> <<RootFrame>>, visited |-> {}, node |-> RootFrame]
  <2>1. Resting("pop") = [pc |-> "pop", stack |-> <<>>, visited |-> {}, node |-> RootFrame]
    BY DEF Resting
  <2>2. \A s : [[pc |-> "pop", stack |-> <<>>, visited |-> {}, node |-> RootFrame] EXCEPT !.stack = s] =
               [pc |-> "pop", stack |-> s, visited |-> {}, node |-> RootFrame]
    OBVIOUS
  <2> QED
    BY <2>1, <2>2
<1>4. <<RootFrame>> \in Seq(ImportFrames) /\ DOMAIN <<RootFrame>> = {1} /\ <<RootFrame>>[1] = RootFrame
  BY <1>2
<1>5. i \in ImportRecords
  BY <1>2, <1>3, <1>4 DEF ImportRecords
<1>6. Framed(RootFrame, tracked)
  BY <1>2, ToImportFacts DEF Framed, CascadeInv
<1> HIDE DEF i
<1>7. i.pc = "pop" /\ i.stack = <<RootFrame>> /\ i.visited = {}
  BY <1>3
<1>8. Importing(i, tracked, edges)
  BY <1>2, <1>4, <1>6, <1>7 DEF Importing, Reached
<1> QED
  BY <1>1, <1>5, <1>8, ImportGoesOn DEF CascadeInv

\* An import whose stack is empty has been everywhere.
LEMMA ImportIsThrough ==
  ASSUME CascadeInv, NEW p \in Importers, importer[p].pc = "pop", importer[p].stack = <<>>
  PROVE  \A n \in ToImport : Wired(n, tracked, edges)
<1> DEFINE i == importer[p]
           X == ToImport \ i.visited
<1>1. /\ \A n : ~Reached(i, n) \/ n \in i.visited
      /\ Reached(i, Root)
      /\ \A v \in i.visited : /\ Wired(v, tracked, edges)
                              /\ \A n \in ToImport \ {Root} : parentOf[n] = v => Reached(i, n)
  BY DEF CascadeInv, Importing, Reached
<1> HIDE DEF i
<1>2. TreeIsNumbered /\ Size \in Nat
  BY CascadeAssumption DEF CascadeInv
<1>3. X = {}
  <2> SUFFICES ASSUME X # {} PROVE FALSE
    OBVIOUS
  <2>1. X \subseteq Nat /\ X \subseteq IssuesOfTree
    BY DEF ToImport, IssuesOfTree
  <2>2. PICK n \in X : \A m \in X : n <= m
    BY <2>1, SmallestOf
  <2>3. n # Root /\ n \in IssuesOfTree
    BY <1>1, <2>1
  <2>4. n \in 2..Size
    BY <2>3 DEF IssuesOfTree, Root
  <2>5. parentOf[n] \in ToImport /\ parentOf[n] < n
    BY <1>2, <2>4, ToImportFacts DEF TreeIsNumbered
  <2>6. parentOf[n] \in Nat
    BY <2>5 DEF ToImport, IssuesOfTree
  <2>7. parentOf[n] \notin X
    BY <2>1, <2>2, <2>5, <2>6
  <2> QED
    BY <1>1, <2>2, <2>3, <2>5, <2>7
<1> QED
  BY <1>1, <1>3

LEMMA ImportEndsKeeps == ASSUME CascadeInv, NEW p \in Importers, ImportEnds(p) PROVE CascadeInv'
<1> DEFINE i == Resting("done")
<1>1. /\ importer' = [importer EXCEPT ![p] = i] /\ parentOf' = parentOf /\ home' = home
      /\ tracked' = tracked /\ edges' = edges
  BY DEF ImportEnds
<1>2. \A n \in ToImport : Wired(n, tracked, edges)
  BY ImportIsThrough DEF ImportEnds, ImportAt
<1>3. i \in ImportRecords
  BY RestingFacts
<1>4. i.pc = "done"
  BY DEF Resting
<1> HIDE DEF i
<1>5. Importing(i, tracked, edges)
  BY <1>2, <1>4 DEF Importing
<1> QED
  BY <1>1, <1>3, <1>5, ImportGoesOn DEF CascadeInv

LEMMA ImportDiesKeeps == ASSUME CascadeInv, NEW p \in Importers, ImportDies(p) PROVE CascadeInv'
<1>1. /\ importer' = [importer EXCEPT ![p] = ImportIdle] /\ parentOf' = parentOf /\ home' = home
      /\ tracked' = tracked /\ edges' = edges
  BY DEF ImportDies
<1>2. ImportIdle \in ImportRecords /\ Importing(ImportIdle, tracked, edges)
  BY RestingFacts DEF ImportIdle
<1> QED
  BY <1>1, <1>2, ImportGoesOn DEF CascadeInv

LEMMA ImportPopsKeeps == ASSUME CascadeInv, NEW p \in Importers, ImportPops(p) PROVE CascadeInv'
<1> DEFINE i == importer[p]
           top == Last(i.stack)
           rest == Front(i.stack)
           seen == [i EXCEPT !.stack = rest]
           new == [pc |-> FoundOrFetched(top.n), stack |-> rest, visited |-> i.visited \cup {top.n}, node |-> top]
<1>1. i.pc = "pop" /\ i.stack # <<>> /\ i \in ImportRecords /\ Importing(i, tracked, edges)
  BY DEF ImportPops, ImportAt, CascadeInv
<1>2. /\ importer' = [importer EXCEPT ![p] = IF top.n \in i.visited THEN seen ELSE new]
      /\ parentOf' = parentOf /\ home' = home /\ tracked' = tracked /\ edges' = edges
  BY DEF ImportPops
<1>3. /\ i.stack \in Seq(ImportFrames) /\ i.visited \in SUBSET IssuesOfTree /\ i.node \in ImportFrames
      /\ top \in ImportFrames /\ top = i.stack[Len(i.stack)] /\ Len(i.stack) \in DOMAIN i.stack
      /\ rest \in Seq(ImportFrames)
      /\ \A k \in DOMAIN rest : k \in DOMAIN i.stack /\ rest[k] = i.stack[k]
      /\ \A k \in DOMAIN i.stack : k # Len(i.stack) => k \in DOMAIN rest
  <2>1. i.stack \in Seq(ImportFrames) /\ i.visited \in SUBSET IssuesOfTree /\ i.node \in ImportFrames
    BY <1>1 DEF ImportRecords
  <2> QED
    BY <1>1, <2>1, FrontFacts
<1>4. Framed(top, tracked) /\ \A k \in DOMAIN rest : Framed(rest[k], tracked)
  BY <1>1, <1>3 DEF Importing
<1>5. \A n : Reached(i, n) => n \in i.visited \/ n = top.n \/ \E k \in DOMAIN rest : rest[k].n = n
  BY <1>3 DEF Reached
<1>6. FoundOrFetched(top.n) = (IF top.n \in tracked THEN "wire" ELSE "save")
  BY DEF FoundOrFetched
<1>7. seen = [pc |-> i.pc, stack |-> rest, visited |-> i.visited, node |-> i.node]
  BY <1>1 DEF ImportRecords
<1>8. top.n \in IssuesOfTree
  BY <1>3 DEF ImportFrames
<1> HIDE DEF i, top, rest
<1>9. CASE top.n \in i.visited
  <2>1. seen \in ImportRecords
    BY <1>1, <1>3, <1>7 DEF ImportRecords
  <2>2. seen.pc = "pop" /\ seen.stack = rest /\ seen.visited = i.visited
    BY <1>1, <1>7
  <2> HIDE DEF seen
  <2>3. \A n : Reached(i, n) => Reached(seen, n)
    BY <1>5, <1>9, <2>2 DEF Reached
  <2>4. Importing(seen, tracked, edges)
    BY <1>1, <1>4, <2>2, <2>3 DEF Importing
  <2> QED
    BY <1>2, <1>9, <2>1, <2>4, ImportGoesOn DEF CascadeInv
<1>10. CASE top.n \notin i.visited
  <2>1. new \in ImportRecords
    BY <1>3, <1>6, <1>8 DEF ImportRecords
  <2>2. /\ new.pc = (IF top.n \in tracked THEN "wire" ELSE "save") /\ new.stack = rest /\ new.node = top
        /\ new.visited = i.visited \cup {top.n}
    BY <1>6
  <2> HIDE DEF new
  <2>3. \A n : Reached(i, n) => Reached(new, n)
    BY <1>5, <2>2 DEF Reached
  <2>4. Importing(new, tracked, edges)
    BY <1>1, <1>4, <2>2, <2>3 DEF Importing
  <2> QED
    BY <1>2, <1>10, <2>1, <2>4, ImportGoesOn DEF CascadeInv
<1> QED
  BY <1>9, <1>10

\* The place moves on, the rest of the import stays.
LEMMA PlaceMoves ==
  ASSUME NEW i \in ImportRecords, NEW pc \in {"wire", "children"}
  PROVE  LET j == [i EXCEPT !.pc = pc]
         IN  /\ j \in ImportRecords /\ j.pc = pc /\ j.stack = i.stack /\ j.visited = i.visited /\ j.node = i.node
             /\ \A n : Reached(j, n) <=> Reached(i, n)
<1> DEFINE j == [i EXCEPT !.pc = pc]
<1>1. j \in ImportRecords /\ j.pc = pc /\ j.stack = i.stack /\ j.visited = i.visited /\ j.node = i.node
  BY DEF ImportRecords
<1> HIDE DEF j
<1>2. \A n : Reached(j, n) <=> Reached(i, n)
  BY <1>1 DEF Reached
<1> QED
  BY <1>1, <1>2 DEF j

LEMMA ImportSavesKeeps == ASSUME CascadeInv, NEW p \in Importers, ImportSaves(p) PROVE CascadeInv'
<1> DEFINE i == importer[p]
           j == [i EXCEPT !.pc = "wire"]
<1>1. i.pc = "save" /\ i \in ImportRecords /\ Importing(i, tracked, edges)
  BY DEF ImportSaves, ImportAt, CascadeInv
<1>2. /\ importer' = [importer EXCEPT ![p] = j] /\ parentOf' = parentOf /\ home' = home
      /\ tracked' = tracked \cup {i.node.n} /\ edges' = edges
  <2>1. importer' = [importer EXCEPT ![p].pc = "wire"]
    BY DEF ImportSaves, ImportGoes
  <2> QED
    BY <2>1 DEF ImportSaves
<1>3. /\ j \in ImportRecords /\ j.pc = "wire" /\ j.stack = i.stack /\ j.visited = i.visited /\ j.node = i.node
      /\ \A n : Reached(j, n) <=> Reached(i, n)
  BY <1>1, PlaceMoves
<1>4. i.node.n \in ToImport
  BY <1>1 DEF Importing, Framed
<1> HIDE DEF i, j
<1>5. Importing(i, tracked', edges)
  BY <1>1, <1>2, ImportingStays
<1>6. Importing(j, tracked', edges)
  BY <1>1, <1>2, <1>3, <1>5 DEF Importing
<1> QED
  BY <1>2, <1>3, <1>4, <1>6, ImportGoesOn DEF CascadeInv

LEMMA ImportWiresKeeps == ASSUME CascadeInv, NEW p \in Importers, ImportWires(p) PROVE CascadeInv'
<1> DEFINE i == importer[p]
           j == [i EXCEPT !.pc = "children"]
<1>1. i.pc = "wire" /\ i \in ImportRecords /\ Importing(i, tracked, edges)
  BY DEF ImportWires, ImportAt, CascadeInv
<1>2. /\ importer' = [importer EXCEPT ![p] = j] /\ parentOf' = parentOf /\ home' = home
      /\ tracked' = tracked
      /\ edges' = IF i.node.parent = Nobody THEN edges ELSE edges \cup {<<i.node.n, i.node.parent>>}
  <2>1. importer' = [importer EXCEPT ![p].pc = "children"]
    BY DEF ImportWires, ImportGoes
  <2> QED
    BY <2>1 DEF ImportWires
<1>3. /\ j \in ImportRecords /\ j.pc = "children" /\ j.stack = i.stack /\ j.visited = i.visited /\ j.node = i.node
      /\ \A n : Reached(j, n) <=> Reached(i, n)
  BY <1>1, PlaceMoves
<1>4. Framed(i.node, tracked) /\ i.node.n \in tracked /\ i.node.n \in i.visited
  BY <1>1 DEF Importing
<1>5. i.node.n \in ToImport
  BY <1>4 DEF Framed
<1>6. i.node.n # Root => i.node.parent = parentOf[i.node.n] /\ i.node.parent \in tracked /\ i.node.parent # Nobody
  <2>1. \A n \in tracked : n # Nobody
    BY DEF CascadeInv, ToImport, IssuesOfTree, Nobody
  <2> QED
    BY <1>4, <2>1 DEF Framed
<1>7. i.node.n = Root => i.node.parent = Nobody
  BY <1>4 DEF Framed
<1> HIDE DEF i, j
<1>8. edges \subseteq edges' /\ edges' \subseteq tracked' \X tracked' /\ Wired(i.node.n, tracked', edges')
  BY <1>2, <1>4, <1>6, <1>7 DEF CascadeInv, Wired
<1>9. Importing(i, tracked', edges')
  BY <1>1, <1>2, <1>8, ImportingStays
<1>10. Importing(j, tracked', edges')
  BY <1>1, <1>2, <1>3, <1>8, <1>9 DEF Importing
<1> QED
  BY <1>2, <1>3, <1>8, <1>10, ImportGoesOn DEF CascadeInv

\* u has the members of s and of t.
Combined(u, s, t) ==
  /\ \A k \in DOMAIN u : (\E m \in DOMAIN s : u[k] = s[m]) \/ (\E m \in DOMAIN t : u[k] = t[m])
  /\ \A k \in DOMAIN s : \E m \in DOMAIN u : u[m] = s[k]
  /\ \A k \in DOMAIN t : \E m \in DOMAIN u : u[m] = t[k]

\* What is on a stack after a sequence of frames was pushed.
LEMMA StackedFacts ==
  ASSUME NEW S, NEW s \in Seq(S), NEW t \in Seq(S)
  PROVE  s \o t \in Seq(S) /\ Combined(s \o t, s, t)
<1> DEFINE u == s \o t
           a == Len(s)
           b == Len(t)
<1>1. a \in Nat /\ b \in Nat /\ DOMAIN s = 1..a /\ DOMAIN t = 1..b
  OBVIOUS
<1>2. u \in Seq(S) /\ Len(u) = a + b /\ \A k \in 1..(a + b) : u[k] = IF k <= a THEN s[k] ELSE t[k - a]
  BY ConcatProperties
<1> HIDE DEF u, a, b
<1>3. DOMAIN u = 1..(a + b)
  BY <1>2
<1>4. ASSUME NEW k \in DOMAIN u
      PROVE  (\E m \in DOMAIN s : u[k] = s[m]) \/ (\E m \in DOMAIN t : u[k] = t[m])
  <2>1. k \in 1..(a + b)
    BY <1>3
  <2>2. CASE k <= a
    <3>1. k \in DOMAIN s
      BY <1>1, <2>1, <2>2
    <3> QED
      BY <1>2, <2>1, <2>2, <3>1
  <2>3. CASE ~(k <= a)
    <3>1. k - a \in DOMAIN t
      BY <1>1, <2>1, <2>3
    <3> QED
      BY <1>2, <2>1, <2>3, <3>1
  <2> QED
    BY <2>2, <2>3
<1>5. ASSUME NEW k \in DOMAIN s PROVE \E m \in DOMAIN u : u[m] = s[k]
  <2>1. k \in 1..(a + b) /\ k <= a
    BY <1>1
  <2> QED
    BY <1>2, <1>3, <2>1
<1>6. ASSUME NEW k \in DOMAIN t PROVE \E m \in DOMAIN u : u[m] = t[k]
  <2>1. k + a \in 1..(a + b) /\ ~(k + a <= a) /\ (k + a) - a = k
    BY <1>1
  <2>2. u[k + a] = t[k]
    BY <1>2, <2>1
  <2> QED
    BY <1>3, <2>1, <2>2
<1> QED
  BY <1>2, <1>4, <1>5, <1>6 DEF u, Combined

\* The children that are pushed are those to import.
LEMMA ChildrenFacts ==
  ASSUME CascadeInv, NEW node \in ImportFrames, Framed(node, tracked), node.n \in tracked,
         NEW c \in ChildrenAtHome(node.n)
  PROVE  /\ c \in 2..Size /\ c # Root /\ parentOf[c] = node.n
         /\ DepthAllows(node.depth) <=> c \in ToImport
         /\ DepthAllows(node.depth) => Framed(Frame(c, node.n, node.depth + 1), tracked)
         /\ Frame(c, node.n, node.depth + 1) \in ImportFrames
         /\ Frame(c, node.n, node.depth + 1).n = c
<1>1. c \in 2..Size /\ parentOf[c] = node.n /\ c \in home
  BY DEF ChildrenAtHome
<1>2. Size \in Nat /\ MaxDepth \in Nat /\ TreeIsNumbered
  BY CascadeAssumption DEF CascadeInv
<1>3. c \in IssuesOfTree /\ c # Root /\ node.n \in IssuesOfTree /\ node.depth \in Nat /\ node.n \in Nat
  BY <1>1, <1>2 DEF IssuesOfTree, Root, ImportFrames
<1>4. /\ Cardinality(OnPath(c)) = Cardinality(OnPath(node.n)) + 1
      /\ Cardinality(OnPath(node.n)) = node.depth + 1 /\ node.n \in ToImport
      /\ c \in ToImport <=> Cardinality(OnPath(c)) <= MaxDepth + 1
  BY <1>1, <1>2, ToImportFacts DEF Framed
<1>5. DepthAllows(node.depth) <=> c \in ToImport
  BY <1>2, <1>3, <1>4 DEF DepthAllows
<1> DEFINE f == Frame(c, node.n, node.depth + 1)
<1>6. f.n = c /\ f.parent = node.n /\ f.depth = node.depth + 1 /\ f \in ImportFrames
  BY <1>3 DEF Frame, ImportFrames
<1> HIDE DEF f
<1>7. c \in ToImport => Framed(f, tracked)
  BY <1>1, <1>3, <1>4, <1>6 DEF Framed
<1> QED
  BY <1>1, <1>3, <1>5, <1>6, <1>7 DEF f

LEMMA ImportPushesKeeps == ASSUME CascadeInv, NEW p \in Importers, ImportPushesChildren(p) PROVE CascadeInv'
<1> DEFINE i == importer[p]
           C == ChildrenAtHome(i.node.n)
           children == IF DepthAllows(i.node.depth) THEN SetToSeq(C) ELSE <<>>
           frames == [k \in DOMAIN children |-> Frame(children[k], i.node.n, i.node.depth + 1)]
           stack == i.stack \o frames
           j == [i EXCEPT !.pc = "pop", !.stack = stack]
<1>1. i.pc = "children" /\ i \in ImportRecords /\ Importing(i, tracked, edges)
  BY DEF ImportPushesChildren, ImportAt, CascadeInv
<1>2. /\ importer' = [importer EXCEPT ![p] = j] /\ parentOf' = parentOf /\ home' = home
      /\ tracked' = tracked /\ edges' = edges
  <2>1. importer' = [importer EXCEPT ![p].pc = "pop", ![p].stack = stack]
    BY DEF ImportPushesChildren
  <2>2. importer \in [Importers -> ImportRecords]
    BY DEF CascadeInv
  <2> HIDE DEF stack
  <2>3. importer' = [importer EXCEPT ![p] = [importer[p] EXCEPT !.pc = "pop", !.stack = stack]]
    BY <2>1, <2>2
  <2> QED
    BY <2>3 DEF ImportPushesChildren
<1>3. /\ Framed(i.node, tracked) /\ i.node.n \in i.visited /\ i.node.n \in tracked
      /\ Wired(i.node.n, tracked, edges) /\ i.node \in ImportFrames /\ i.stack \in Seq(ImportFrames)
  BY <1>1 DEF Importing, Wired, ImportRecords
<1>4. IsFiniteSet(C)
  <2>1. IsFiniteSet(2..Size) /\ C \subseteq 2..Size
    <3>1. Size \in Int /\ 2 \in Int
      BY CascadeAssumption
    <3> QED
      BY <3>1, FS_Interval DEF ChildrenAtHome
  <2> QED
    BY <2>1, FS_Subset
<1>5. /\ children \in Seq(C)
      /\ DepthAllows(i.node.depth) => \A c \in C : \E k \in DOMAIN children : children[k] = c
      /\ ~DepthAllows(i.node.depth) => DOMAIN children = {}
  <2>1. SetToSeq(C) \in Seq(C) /\ \A c \in C : \E k \in DOMAIN SetToSeq(C) : SetToSeq(C)[k] = c
    BY <1>4, SetToSeqFacts
  <2>2. <<>> \in Seq(C) /\ DOMAIN <<>> = {}
    OBVIOUS
  <2> QED
    BY <2>1, <2>2
<1>6. Len(children) \in Nat /\ DOMAIN children = 1..Len(children) /\ \A k \in DOMAIN children : children[k] \in C
  BY <1>5
<1> HIDE DEF children
<1>7. /\ frames \in Seq(ImportFrames) /\ Len(frames) = Len(children) /\ DOMAIN frames = DOMAIN children
      /\ \A k \in DOMAIN frames : frames[k].n = children[k] /\ Framed(frames[k], tracked)
  <2>1. ASSUME NEW k \in DOMAIN children
        PROVE  /\ Frame(children[k], i.node.n, i.node.depth + 1) \in ImportFrames
               /\ Frame(children[k], i.node.n, i.node.depth + 1).n = children[k]
               /\ Framed(Frame(children[k], i.node.n, i.node.depth + 1), tracked)
    <3>1. DepthAllows(i.node.depth) /\ children[k] \in ChildrenAtHome(i.node.n)
      BY <1>5, <1>6
    <3> QED
      BY <1>3, <3>1, ChildrenFacts
  <2>2. frames \in [1..Len(children) -> ImportFrames]
    BY <1>6, <2>1
  <2>3. frames \in Seq(ImportFrames) /\ Len(frames) = Len(children)
    BY <1>6, <2>2
  <2> QED
    BY <1>6, <2>1, <2>3
<1> HIDE DEF frames
<1>8. /\ stack \in Seq(ImportFrames)
      /\ \A k \in DOMAIN stack : Framed(stack[k], tracked)
      /\ \A k \in DOMAIN i.stack : \E m \in DOMAIN stack : stack[m] = i.stack[k]
      /\ \A k \in DOMAIN frames : \E m \in DOMAIN stack : stack[m] = frames[k]
  <2>1. \A k \in DOMAIN i.stack : Framed(i.stack[k], tracked)
    BY <1>1 DEF Importing
  <2>2. /\ stack \in Seq(ImportFrames)
        /\ \A k \in DOMAIN stack : \/ \E m \in DOMAIN i.stack : stack[k] = i.stack[m]
                                 \/ \E m \in DOMAIN frames : stack[k] = frames[m]
        /\ \A k \in DOMAIN i.stack : \E m \in DOMAIN stack : stack[m] = i.stack[k]
        /\ \A k \in DOMAIN frames : \E m \in DOMAIN stack : stack[m] = frames[k]
    <3>1. stack \in Seq(ImportFrames) /\ Combined(stack, i.stack, frames)
      BY <1>3, <1>7, StackedFacts
    <3> QED
      BY <3>1 DEF Combined
  <2> QED
    BY <1>7, <2>1, <2>2
<1> HIDE DEF stack
<1>9. j \in ImportRecords /\ j.pc = "pop" /\ j.stack = stack /\ j.visited = i.visited /\ j.node = i.node
  BY <1>1, <1>8 DEF ImportRecords
<1> HIDE DEF j
<1>10. ASSUME NEW n, Reached(i, n) PROVE Reached(j, n)
  BY <1>8, <1>9, <1>10 DEF Reached
<1>11. ASSUME NEW n \in ToImport \ {Root}, parentOf[n] = i.node.n PROVE Reached(j, n)
  <2>1. n \in 2..Size /\ n \in home
    <3>1. n \in 2..Size
      BY DEF ToImport, IssuesOfTree, Root
    <3> QED
      BY <3>1, ToImportFacts DEF CascadeInv
  <2>2. n \in ChildrenAtHome(i.node.n)
    BY <1>11, <2>1 DEF ChildrenAtHome
  <2>3. DepthAllows(i.node.depth)
    BY <1>3, <2>2, ChildrenFacts
  <2>4. PICK k \in DOMAIN frames : frames[k].n = n
    BY <1>5, <1>7, <2>2, <2>3
  <2> QED
    BY <1>8, <1>9, <2>4 DEF Reached
<1> HIDE DEF i, C
<1>12. Importing(j, tracked, edges)
  <2>1. \A v \in i.visited : /\ Wired(v, tracked, edges)
                             /\ \A n \in ToImport \ {Root} : parentOf[n] = v => Reached(j, n)
    BY <1>1, <1>3, <1>10, <1>11 DEF Importing
  <2>2. Reached(j, Root)
    BY <1>1, <1>10 DEF Importing
  <2> QED
    BY <1>8, <1>9, <2>1, <2>2 DEF Importing
<1> QED
  BY <1>2, <1>9, <1>12, ImportGoesOn DEF CascadeInv

LEMMA CascadeInvStep == CascadeInv /\ [CascadeNext]_cascadeVars => CascadeInv'
<1> SUFFICES ASSUME CascadeInv, [CascadeNext]_cascadeVars PROVE CascadeInv'
  OBVIOUS
<1>1. CASE CascadeNext
  BY <1>1, ImportStartsKeeps, ImportPopsKeeps, ImportSavesKeeps, ImportWiresKeeps, ImportPushesKeeps,
     ImportEndsKeeps, ImportDiesKeeps DEF CascadeNext
<1>2. CASE UNCHANGED cascadeVars
  <2>1. parentOf' = parentOf /\ home' = home /\ tracked' = tracked /\ edges' = edges /\ importer' = importer
    BY <1>2 DEF cascadeVars
  <2>2. ToImport' = ToImport /\ \A n : OnPath(n)' = OnPath(n)
    <3>1. Upward' = Upward
      BY <2>1 DEF Upward
    <3>2. \A n : OnPath(n)' = OnPath(n)
      BY <3>1 DEF OnPath
    <3> QED
      BY <2>1, <3>2 DEF ToImport
  <2> QED
    BY <2>1, <2>2 DEF CascadeInv, TreeIsNumbered, Importing, Framed, Wired, Reached
<1> QED
  BY <1>1, <1>2

(* A cascade that ends has mirrored the whole tree of its repo down to       *)
(* MAX_DEPTH with every parent link, and nothing else is ever imported, for  *)
(* every tree, every limit and any number of imports that run beside each    *)
(* other, fail or are killed (sync_import).                                  *)
THEOREM CascadesKeepSound == CascadeSpec => []CascadeIsSound
<1>1. CascadeInv => CascadeIsSound
  <2> SUFFICES ASSUME CascadeInv PROVE CascadeIsSound
    OBVIOUS
  <2>1. CascadeTypeOK
    <3>1. tracked \subseteq IssuesOfTree
      BY DEF CascadeInv, ToImport
    <3>2. \A e \in edges : e[1] \in tracked /\ e[2] \in tracked
      BY DEF CascadeInv
    <3>3. \A p \in Importers : importer[p].pc \in {"idle", "pop", "save", "wire", "children", "done"}
      BY DEF CascadeInv, ImportRecords
    <3> QED
      BY <3>1, <3>2, <3>3 DEF CascadeTypeOK
  <2>2. CascadeHeals
    BY DEF CascadeInv, Importing, Wired, CascadeHeals, ImportAt
  <2> QED
    BY <2>1, <2>2 DEF CascadeInv, CascadeIsSound, NothingElse
<1> QED
  BY <1>1, CascadeInvInit, CascadeInvStep, PTL DEF CascadeSpec

-----------------------------------------------------------------------------
(***************************************************************************)
(* Relations: loops.                                                       *)
(***************************************************************************)

Axes == {"BlockedBy", "ChildOf"}
Closed(g, f, T) == \A n \in T : Up(g, f, n) \subseteq T

\* What a walk visits is the least closed set of tasks that has its start.
LEMMA WalkFacts ==
  ASSUME NEW g, NEW f, NEW S \in SUBSET Tasks
  PROVE  /\ Visited(g, f, S) \in SUBSET Tasks /\ S \subseteq Visited(g, f, S)
         /\ Closed(g, f, Visited(g, f, S))
         /\ \A T \in SUBSET Tasks : S \subseteq T /\ Closed(g, f, T) => Visited(g, f, S) \subseteq T
<1>1. \A n \in Tasks : Up(g, f, n) \in SUBSET Tasks
  BY DEF Up
<1>2. Visited(g, f, S) \in SUBSET Tasks /\ S \subseteq Visited(g, f, S)
  BY DEF Visited
<1>3. \A T \in SUBSET Tasks : S \subseteq T /\ Closed(g, f, T) => Visited(g, f, S) \subseteq T
  BY DEF Visited, Closed
<1>4. ASSUME NEW n \in Visited(g, f, S), NEW m \in Up(g, f, n)  PROVE m \in Visited(g, f, S)
  <2>1. n \in Tasks /\ m \in Tasks
    BY <1>1, <1>2, <1>4
  <2>2. SUFFICES ASSUME NEW T \in SUBSET Tasks, S \subseteq T, Closed(g, f, T)  PROVE m \in T
    BY <2>1 DEF Visited, Closed
  <2>3. n \in T
    BY <1>3, <1>4, <2>2
  <2> QED
    BY <1>4, <2>2, <2>3 DEF Closed
<1> QED
  BY <1>2, <1>3, <1>4 DEF Closed

\* A graph has no loop when no walk from what is upstream of a node comes back to it.
LEMMA AcyclicFacts ==
  ASSUME NEW g, NEW f
  PROVE  Acyclic(g, f) <=> \A n \in Tasks : \A m \in Up(g, f, n) : n \notin Visited(g, f, {m})
BY DEF Acyclic

(* How a graph grew on an axis: at most y came upstream of x, which no walk  *)
(* from y could reach.                                                       *)
NoLoopAdded(g, h, f) ==
  \/ \A n \in Tasks : Up(h, f, n) \subseteq Up(g, f, n)
  \/ \E x, y \in Tasks :
       /\ x # y /\ \A n \in Visited(g, f, {y}) : x \notin Up(g, f, n)
       /\ \A n \in Tasks : Up(h, f, n) \subseteq Up(g, f, n) \cup (IF n = x THEN {y} ELSE {})

\* An edge whose far end cannot reach its near end closes no loop.
LEMMA NoLoopAddedFacts ==
  ASSUME NEW g, NEW h, NEW f, NoLoopAdded(g, h, f), Acyclic(g, f)
  PROVE  Acyclic(h, f)
<1>1. SUFFICES ASSUME NEW n \in Tasks, NEW m \in Up(h, f, n), n \in Visited(h, f, {m})  PROVE FALSE
  BY AcyclicFacts
<1>2. m \in Tasks
  BY <1>1 DEF Up
<1> DEFINE W == Visited(g, f, {m})
<1>3. W \in SUBSET Tasks /\ m \in W /\ Closed(g, f, W)
  BY <1>2, WalkFacts
<1>4. n \in W => m \notin Up(g, f, n)
  BY AcyclicFacts
<1>5. \A T \in SUBSET Tasks : m \in T /\ Closed(h, f, T) => n \in T
  BY <1>1, <1>2, WalkFacts
<1> HIDE DEF W
<1>6. CASE \A u \in Tasks : Up(h, f, u) \subseteq Up(g, f, u)
  <2>1. Closed(h, f, W)
    BY <1>3, <1>6 DEF Closed
  <2> QED
    BY <1>1, <1>3, <1>4, <1>5, <1>6, <2>1
<1>7. ASSUME NEW x \in Tasks, NEW y \in Tasks, x # y, \A u \in Visited(g, f, {y}) : x \notin Up(g, f, u),
             \A u \in Tasks : Up(h, f, u) \subseteq Up(g, f, u) \cup (IF u = x THEN {y} ELSE {})
      PROVE  FALSE
  <2> DEFINE V == Visited(g, f, {y})
  <2>1. V \in SUBSET Tasks /\ y \in V /\ Closed(g, f, V)
    BY <1>7, WalkFacts
  <2>2. \A T \in SUBSET Tasks : y \in T /\ Closed(g, f, T) => V \subseteq T
    BY <1>7, WalkFacts
  <2>3. \A u \in V : x \notin Up(g, f, u)
    BY <1>7
  <2> HIDE DEF V
  <2>4. x \notin V
    <3>1. V \ {x} \in SUBSET Tasks /\ y \in V \ {x} /\ Closed(g, f, V \ {x})
      BY <1>7, <2>1, <2>3 DEF Closed
    <3> QED
      BY <2>2, <3>1
  <2>5. Closed(h, f, V)
    BY <1>7, <2>1, <2>4 DEF Closed
  <2>6. CASE n \in V
    <3>1. n # x /\ m \in Up(g, f, n) /\ m \in V
      BY <1>1, <1>7, <2>1, <2>4, <2>6 DEF Closed
    <3>2. W \cap V \in SUBSET Tasks /\ m \in W \cap V
      BY <1>3, <3>1
    <3>3. Closed(h, f, W \cap V)
      BY <1>3, <1>7, <2>1, <2>4, <2>5 DEF Closed
    <3> QED
      BY <1>4, <1>5, <3>1, <3>2, <3>3
  <2>7. CASE n \notin V
    <3>1. m \notin V
      BY <1>2, <1>5, <2>1, <2>5, <2>7
    <3>2. m \in Up(g, f, n)
      BY <1>1, <1>7, <2>1, <3>1
    <3>3. W \cup V \in SUBSET Tasks /\ m \in W \cup V
      BY <1>3, <2>1
    <3>4. Closed(h, f, W \cup V)
      BY <1>3, <1>7, <2>1, <2>5 DEF Closed
    <3> QED
      BY <1>4, <1>5, <2>7, <3>2, <3>3, <3>4
  <2> QED
    BY <2>6, <2>7
<1> QED
  BY <1>6, <1>7 DEF NoLoopAdded

(* What a command is about to save closes no loop.                          *)
LoopFree(r, g) == r.pc = "save" => \A f \in Axes : NoLoopAdded(g, After(r, g), f)
LoopInv == \A p \in Procs : LoopFree(proc[p], rel)

\* What a command holds before its save.
LEMMA SavedGraph ==
  ASSUME NEW w, NEW entries, NEW files, NEW g
  PROVE  After(Saving(w, entries, files), g) = [u \in Tasks |-> IF u \in DOMAIN w THEN w[u] ELSE g[u]]
BY DEF After, Saving, Idle

\* A command that prepares a save keeps the invariant when it closes no loop.
LEMMA PreparedLoopFree ==
  ASSUME RelationsInv, Overlap = FALSE, NEW p \in Procs, \A q \in Procs : q # p => proc[q].pc = "idle",
         NEW w, NEW entries, NEW files, Prepare(p, w, entries, files), rel' = rel,
         NEW h, h = [u \in Tasks |-> IF u \in DOMAIN w THEN w[u] ELSE rel[u]],
         \A f \in Axes : NoLoopAdded(rel, h, f)
  PROVE  LoopInv'
<1> DEFINE r == Saving(w, entries, files)
<1>1. proc' = [proc EXCEPT ![p] = r] /\ proc \in [Procs -> Place]
  BY DEF Prepare, RelationsInv, RelationTypes
<1>2. After(r, rel) = h
  BY SavedGraph
<1> HIDE DEF r
<1>3. LoopFree(r, rel)
  BY <1>2 DEF LoopFree
<1>4. \A q \in Procs : LoopFree(proc'[q], rel)
  BY <1>1, <1>3 DEF LoopFree
<1> QED
  BY <1>4 DEF LoopInv

\* Where no edges are added nothing comes upstream of any task.
LEMMA FewerEdges ==
  ASSUME NEW g, NEW h, NEW f, \A u \in Tasks : h[u] \subseteq g[u]
  PROVE  NoLoopAdded(g, h, f)
BY DEF NoLoopAdded, Up

\* A command that states an edge looked for a loop before.
LEMMA AddRelationLoopFree ==
  ASSUME RelationsInv, Overlap = FALSE, NEW p \in Procs, NEW t \in Tasks, NEW k \in UsedKinds, NEW o \in Tasks,
         AddRelation(p, t, k, o)
  PROVE  LoopInv'
<1> DEFINE w == [u \in {t, o} |-> IF u = t THEN rel[t] \cup {<<k, o>>}
                                  ELSE rel[o] \cup {<<InverseKind(k), t>>}]
           entries == IF <<k, o>> \in rel[t] THEN <<>> ELSE PlanRelationEntries(t, {<<k, o>>}, TRUE, filed)
           h == [u \in Tasks |-> IF u \in DOMAIN w THEN w[u] ELSE rel[u]]
<1>1. /\ CanStart(p) /\ t # o /\ ~WouldCreateCycle(rel, k, t, o) /\ Prepare(p, w, entries, {}) /\ rel' = rel
  BY DEF AddRelation
<1>2. k \in Kinds /\ InverseKind(k) \in Kinds /\ rel \in Graphs
  BY RelationsAssumption, KindFacts DEF RelationsInv, RelationTypes
<1>3. \A u \in Tasks : h[u] = IF u = t THEN rel[t] \cup {<<k, o>>}
                              ELSE IF u = o THEN rel[o] \cup {<<InverseKind(k), t>>} ELSE rel[u]
  OBVIOUS
<1> HIDE DEF h
<1>4. ASSUME NEW f \in Axes  PROVE NoLoopAdded(rel, h, f)
  <2>1. \A n, m \in Tasks : m \in Up(h, f, n) =>
          m \in Up(rel, f, n) \/ (k = f /\ n = t /\ m = o) \/ (InverseKind(k) = f /\ n = o /\ m = t)
    <3>1. SUFFICES ASSUME NEW n \in Tasks, NEW m \in Tasks, <<f, m>> \in h[n] \/ <<InverseKind(f), n>> \in h[m]
                   PROVE  \/ <<f, m>> \in rel[n] \/ <<InverseKind(f), n>> \in rel[m]
                          \/ (k = f /\ n = t /\ m = o) \/ (InverseKind(k) = f /\ n = o /\ m = t)
      BY DEF Up
    <3>2. f \in Kinds /\ InverseKind(InverseKind(f)) = f /\ InverseKind(InverseKind(k)) = k
      BY <1>2, KindFacts DEF Axes, Kinds
    <3>3. CASE <<f, m>> \in h[n]
      BY <1>1, <1>3, <3>3
    <3>4. CASE <<InverseKind(f), n>> \in h[m]
      BY <1>1, <1>3, <3>2, <3>4
    <3> QED
      BY <3>1, <3>3, <3>4
  <2>2. \A n : Up(h, f, n) \subseteq Tasks
    BY DEF Up
  <2>3. CASE k = f
    <3>1. InverseKind(k) # f
      BY <2>3 DEF Axes, InverseKind
    <3>2. CycleAxis(k, t, o) = [forward |-> f, x |-> t, y |-> o] /\ f # "none"
      BY <2>3 DEF Axes, CycleAxis
    <3>3. \A n \in Visited(rel, f, {o}) : t \notin Up(rel, f, n)
      BY <1>1, <3>2 DEF WouldCreateCycle
    <3>4. \A n \in Tasks : Up(h, f, n) \subseteq Up(rel, f, n) \cup (IF n = t THEN {o} ELSE {})
      BY <2>1, <2>2, <3>1
    <3> QED
      BY <1>1, <3>3, <3>4 DEF NoLoopAdded
  <2>4. CASE InverseKind(k) = f
    <3>1. k # f
      BY <2>4 DEF Axes, InverseKind
    <3>2. CycleAxis(k, t, o) = [forward |-> f, x |-> o, y |-> t] /\ f # "none"
      BY <1>2, <2>4 DEF Axes, CycleAxis, Kinds, InverseKind
    <3>3. \A n \in Visited(rel, f, {t}) : o \notin Up(rel, f, n)
      BY <1>1, <3>2 DEF WouldCreateCycle
    <3>4. \A n \in Tasks : Up(h, f, n) \subseteq Up(rel, f, n) \cup (IF n = o THEN {t} ELSE {})
      BY <2>1, <2>2, <3>1
    <3> QED
      BY <1>1, <3>3, <3>4 DEF NoLoopAdded
  <2>5. CASE k # f /\ InverseKind(k) # f
    BY <2>1, <2>2, <2>5 DEF NoLoopAdded
  <2> QED
    BY <2>3, <2>4, <2>5
<1>5. \A q \in Procs : q # p => proc[q].pc = "idle"
  BY <1>1, StartsAlone
<1>6. h = [u \in Tasks |-> IF u \in DOMAIN w THEN w[u] ELSE rel[u]]
  BY DEF h
<1> HIDE DEF w, entries
<1> QED
  BY <1>1, <1>4, <1>5, <1>6, PreparedLoopFree

\* A command that unstates edges, or files what is stated, closes no loop.
LEMMA OthersLoopFree ==
  ASSUME RelationsInv, Overlap = FALSE, NEW p \in Procs,
         \/ \E t, o \in Tasks, k \in UsedKinds : RemoveRelation(p, t, k, o)
         \/ \E t \in Tasks : ClearRelations(p, t)
         \/ PromotePlan(p)
  PROVE  LoopInv'
<1>1. ASSUME NEW w, NEW entries, NEW files, Prepare(p, w, entries, files), rel' = rel,
             \A q \in Procs : q # p => proc[q].pc = "idle",
             \A u \in DOMAIN w : w[u] \subseteq rel[u]
      PROVE  LoopInv'
  <2> DEFINE h == [u \in Tasks |-> IF u \in DOMAIN w THEN w[u] ELSE rel[u]]
  <2>1. \A u \in Tasks : h[u] \subseteq rel[u]
    BY <1>1
  <2>2. h = [u \in Tasks |-> IF u \in DOMAIN w THEN w[u] ELSE rel[u]]
    OBVIOUS
  <2> HIDE DEF h
  <2>3. \A f \in Axes : NoLoopAdded(rel, h, f)
    BY <2>1, FewerEdges
  <2> QED
    BY <1>1, <2>2, <2>3, PreparedLoopFree
<1>2. ASSUME NEW t \in Tasks, NEW o \in Tasks, NEW k \in UsedKinds, RemoveRelation(p, t, k, o)
      PROVE  LoopInv'
  <2> DEFINE had == <<k, o>> \in rel[t]
             back == <<InverseKind(k), t>> \in rel[o]
             changed == (IF had THEN {t} ELSE {}) \cup (IF back THEN {o} ELSE {})
             w == [u \in changed |-> rel[u] \ (IF u = t THEN {<<k, o>>} ELSE {<<InverseKind(k), t>>})]
             entries == IF had THEN PlanRelationEntries(t, {<<k, o>>}, FALSE, filed) ELSE <<>>
  <2>1. CanStart(p) /\ Prepare(p, w, entries, {}) /\ rel' = rel
    BY <1>2 DEF RemoveRelation
  <2>2. \A u \in DOMAIN w : w[u] \subseteq rel[u]
    OBVIOUS
  <2> HIDE DEF w, entries
  <2>3. \A q \in Procs : q # p => proc[q].pc = "idle"
    BY <2>1, StartsAlone
  <2> QED
    BY <1>1, <2>1, <2>2, <2>3
<1>3. ASSUME NEW t \in Tasks, ClearRelations(p, t)  PROVE LoopInv'
  <2> DEFINE strip(o) == rel[o] \ {<<InverseKind(e[1]), t>> : e \in {f \in rel[t] : f[2] = o}}
             touched == {o \in {e[2] : e \in rel[t]} \ {t} : strip(o) # rel[o]}
             w == [u \in {t} \cup touched |-> IF u = t THEN {} ELSE strip(u)]
             entries == PlanRelationEntries(t, rel[t], FALSE, filed)
  <2>1. CanStart(p) /\ Prepare(p, w, entries, {}) /\ rel' = rel
    BY <1>3 DEF ClearRelations
  <2>2. \A u \in DOMAIN w : w[u] \subseteq rel[u]
    OBVIOUS
  <2> HIDE DEF w, entries
  <2>3. \A q \in Procs : q # p => proc[q].pc = "idle"
    BY <2>1, StartsAlone
  <2> QED
    BY <1>1, <2>1, <2>2, <2>3
<1>4. CASE PromotePlan(p)
  <2> DEFINE t == proc[p].t
             w == [u \in {t} |-> proc[p].copy]
             entries == RelationBackfillEntries(t, proc[p].copy)
  <2>1. proc[p].pc = "promote" /\ Prepare(p, w, entries, {t}) /\ rel' = rel
    BY <1>4 DEF PromotePlan
  <2>2. \A u \in DOMAIN w : w[u] \subseteq rel[u]
    BY <2>1 DEF RelationsInv, Fits
  <2> HIDE DEF w, entries
  <2>3. \A q \in Procs : q # p => proc[q].pc = "idle"
    BY <2>1 DEF RelationsInv
  <2> QED
    BY <1>1, <2>1, <2>2, <2>3
<1> QED
  BY <1>2, <1>3, <1>4

\* A step after which the process is not about to save keeps the invariant.
LEMMA NotSavingLoopFree ==
  ASSUME RelationsInv, NEW p \in Procs, NEW r, r.pc # "save", proc' = [proc EXCEPT ![p] = r],
         \A q \in Procs : q # p => proc[q].pc = "idle"
  PROVE  LoopInv'
<1>1. \A q \in Procs : proc'[q].pc # "save"
  BY DEF RelationsInv, RelationTypes
<1> QED
  BY <1>1 DEF LoopInv, LoopFree

\* No step of commands that do not overlap prepares a loop.
LEMMA LoopInvStep ==
  ASSUME Overlap = FALSE, RelationsInv, LoopInv, [Next]_vars  PROVE LoopInv'
<1>1. ASSUME NEW p \in Procs, Command(p)  PROVE LoopInv'
  <2>1. CASE \E t, o \in Tasks, k \in UsedKinds : AddRelation(p, t, k, o)
    BY <2>1, AddRelationLoopFree
  <2>2. CASE \/ \E t, o \in Tasks, k \in UsedKinds : RemoveRelation(p, t, k, o)
             \/ \E t \in Tasks : ClearRelations(p, t)
             \/ PromotePlan(p)
    BY <2>2, OthersLoopFree
  <2>3. ASSUME NEW t \in Tasks, PromoteBegin(p, t)  PROVE LoopInv'
    <3> DEFINE r == [Idle EXCEPT !.pc = "promote", !.t = t, !.copy = rel[t]]
    <3>1. r.pc # "save" /\ proc' = [proc EXCEPT ![p] = r] /\ CanStart(p)
      BY <2>3 DEF PromoteBegin, Idle
    <3> HIDE DEF r
    <3> QED
      BY <3>1, StartsAlone, NotSavingLoopFree
  <2>4. CASE Save(p)
    <3>1. proc[p].pc # "idle" /\ proc' = [proc EXCEPT ![p] = Idle] /\ Idle.pc # "save"
      BY <2>4, IdlePlace DEF Save
    <3>2. \A q \in Procs : q # p => proc[q].pc = "idle"
      BY <3>1 DEF RelationsInv
    <3> QED
      BY <3>1, <3>2, NotSavingLoopFree
  <2> QED
    BY <1>1, <2>1, <2>2, <2>3, <2>4 DEF Command
<1>2. ASSUME NEW p \in Procs, Pull(p)  PROVE LoopInv'
  <2>1. ASSUME NEW t \in Tasks, PullBegin(p, t)  PROVE LoopInv'
    <3> DEFINE r == [Idle EXCEPT !.pc = "content", !.t = t, !.copy = rel[t]]
    <3>1. r.pc # "save" /\ proc' = [proc EXCEPT ![p] = r] /\ CanStart(p)
      BY <2>1 DEF PullBegin, Idle
    <3> HIDE DEF r
    <3> QED
      BY <3>1, StartsAlone, NotSavingLoopFree
  <2>2. CASE PullContent(p) \/ FetchSubIssues(p) \/ FetchBlockedBy(p) \/ PullReconcile(p)
    <3>1. proc[p].pc # "idle"
      BY <2>2 DEF PullContent, FetchSubIssues, FetchBlockedBy, PullReconcile
    <3>2. \A q \in Procs : q # p => proc[q].pc = "idle"
      BY <3>1 DEF RelationsInv
    <3>3. proc[p] \in Place
      BY DEF RelationsInv, RelationTypes
    <3>4. \E r : r.pc # "save" /\ proc' = [proc EXCEPT ![p] = r]
      <4>1. CASE PullContent(p)
        <5>1. [proc[p] EXCEPT !.pc = "subs"].pc # "save"
          BY <3>3 DEF Place
        <5>2. proc' = [proc EXCEPT ![p] = [proc[p] EXCEPT !.pc = "subs"]]
          BY <4>1 DEF PullContent
        <5> QED
          BY <5>1, <5>2
      <4>2. CASE FetchSubIssues(p)
        <5> DEFINE S == {l.b : l \in {m \in links : m.axis = "sub" /\ m.a = proc[p].t}}
        <5>1. [proc[p] EXCEPT !.pc = "blockers", !.subs = S].pc # "save"
          BY <3>3 DEF Place
        <5>2. proc' = [proc EXCEPT ![p] = [proc[p] EXCEPT !.pc = "blockers", !.subs = S]]
          BY <4>2 DEF FetchSubIssues
        <5> HIDE DEF S
        <5> QED
          BY <5>1, <5>2
      <4>3. CASE FetchBlockedBy(p)
        <5> DEFINE S == {l.b : l \in {m \in links : m.axis = "dep" /\ m.a = proc[p].t}}
        <5>1. [proc[p] EXCEPT !.pc = "parent", !.blockers = S].pc # "save"
          BY <3>3 DEF Place
        <5>2. proc' = [proc EXCEPT ![p] = [proc[p] EXCEPT !.pc = "parent", !.blockers = S]]
          BY <4>3 DEF FetchBlockedBy
        <5> HIDE DEF S
        <5> QED
          BY <5>1, <5>2
      <4>4. CASE PullReconcile(p)
        BY <4>4, IdlePlace DEF PullReconcile
      <4> QED
        BY <2>2, <4>1, <4>2, <4>3, <4>4
    <3> QED
      BY <3>2, <3>4, NotSavingLoopFree
  <2> QED
    BY <1>2, <2>1, <2>2 DEF Pull
<1>3. ASSUME rel' = rel, proc' = proc  PROVE LoopInv'
  BY <1>3 DEF LoopInv
<1>4. CASE Drainer \/ \E l \in Links, add \in BOOLEAN : RemoteEdit(l, add)
  BY <1>3, <1>4 DEF Drainer, Drain, DrainRetry, DeadLetter, BackoffElapses, RemoteEdit
<1>5. CASE UNCHANGED vars
  BY <1>3, <1>5 DEF vars
<1> QED
  BY <1>1, <1>2, <1>4, <1>5 DEF Next

\* What is saved closes no loop that was not there.
LEMMA StepsKeepAcyclic ==
  ASSUME RelationsInv, LoopInv, [Next]_vars
  PROVE  \/ rel' = rel \/ \E p \in Procs : PullReconcile(p)
         \/ \A f \in Axes : Acyclic(rel, f) => Acyclic(rel', f)
<1>1. ASSUME NEW p \in Procs, Save(p)
      PROVE  \A f \in Axes : Acyclic(rel, f) => Acyclic(rel', f)
  <2>1. rel' = After(proc[p], rel) /\ proc[p].pc = "save"
    BY <1>1 DEF Save, After
  <2>2. \A f \in Axes : NoLoopAdded(rel, rel', f)
    BY <2>1 DEF LoopInv, LoopFree
  <2> QED
    BY <2>2, NoLoopAddedFacts
<1>2. ASSUME NEW p \in Procs, PullContent(p)  PROVE rel' = rel
  <2>1. rel \in Graphs /\ proc[p].copy = rel[proc[p].t]
    BY <1>2 DEF PullContent, RelationsInv, RelationTypes, Fits
  <2> QED
    BY <1>2, <2>1 DEF PullContent, Graphs
<1>3. ASSUME NEW p \in Procs, Command(p) \/ Pull(p), ~Save(p), ~PullContent(p), ~PullReconcile(p)  PROVE rel' = rel
  BY <1>3 DEF Command, Pull, AddRelation, RemoveRelation, ClearRelations, PromoteBegin, PromotePlan,
              PullBegin, FetchSubIssues, FetchBlockedBy
<1>4. CASE Drainer \/ \E l \in Links, add \in BOOLEAN : RemoteEdit(l, add)
  BY <1>4 DEF Drainer, Drain, DrainRetry, DeadLetter, BackoffElapses, RemoteEdit
<1>5. CASE UNCHANGED vars
  BY <1>5 DEF vars
<1> QED
  BY <1>1, <1>2, <1>3, <1>4, <1>5 DEF Next

(* Whatever tasks, kinds and legacy rows, with commands that do not overlap:  *)
(* no command closes a loop of blockers or of parents (would_create_cycle).   *)
THEOREM CommandsCloseNoLoop ==
  ASSUME Overlap = FALSE  PROVE Spec => CommandsKeepAcyclic
<1> DEFINE A == \/ rel' = rel \/ \E p \in Procs : PullReconcile(p)
                \/ \A f \in {"BlockedBy", "ChildOf"} : Acyclic(rel, f) => Acyclic(rel', f)
<1>1. Init => RelationsInv /\ LoopInv
  <2>1. Init => LoopInv
    BY IdlePlace DEF Init, LoopInv, LoopFree
  <2> QED
    BY <2>1, RelationsInvInit
<1>2. RelationsInv /\ LoopInv /\ [Next]_vars => (RelationsInv /\ LoopInv)'
  BY RelationsInvStep, LoopInvStep
<1>3. RelationsInv /\ LoopInv /\ [Next]_vars => [A]_vars
  BY StepsKeepAcyclic DEF Axes
<1> QED
  BY <1>1, <1>2, <1>3, PTL DEF Spec, CommandsKeepAcyclic

-----------------------------------------------------------------------------
(***************************************************************************)
(* The parts beside each other.                                            *)
(***************************************************************************)

\* Each part of a behaviour of the whole is a behaviour of that part by itself.
LEMMA PartsBehave ==
  MirrorSpec => Spec /\ CommentsSpec /\ PagingSpec /\ CascadeSpec /\ IdsSpec
<1>1. MirrorInit => Init /\ CommentsInit /\ PagingInit /\ CascadeInit /\ IdsInit
  BY DEF MirrorInit
<1>2. ASSUME [MirrorNext]_MirrorVars
      PROVE  /\ [Next]_vars /\ [CommentsNext]_commentVars /\ [PagingNext]_pagingVars
             /\ [CascadeNext]_cascadeVars /\ [IdsNext]_idVars
  BY <1>2 DEF MirrorNext, MirrorVars
<1> QED
  BY <1>1, <1>2, PTL DEF MirrorSpec, Spec, CommentsSpec, PagingSpec, CascadeSpec, IdsSpec

(* Whatever tasks, comments and budgets, with commands that do not overlap: *)
(* no command closes a loop (would_create_cycle), no pull drops an edge     *)
(* that GitHub cannot know (reconcile_family, reconcile_parent), and a      *)
(* written comment stays until it was posted (mark_comments_pushed).        *)
THEOREM MirrorStepsHold ==
  ASSUME Overlap = FALSE  PROVE MirrorSpec => MirrorSteps
BY PartsBehave, CommandsCloseNoLoop, PullsKeepLocalEdges, WrittenCommentsStay DEF MirrorSteps
=============================================================================
