---------------------------- MODULE BoardProofs ----------------------------
(***************************************************************************)
(* Proofs about the cards of any number of tasks and boards, for any       *)
(* number of commands, detaches, failed calls, lost answers and crashes:   *)
(* rows, queued mutations and cards are well formed, a card at rest is in  *)
(* the column of its task, and a task gets one draft.                      *)
(***************************************************************************)
EXTENDS Board, FiniteSetTheorems, SequenceTheorems, TLAPS

(***************************************************************************)
(* The invariant.                                                          *)
(***************************************************************************)

Card == [column : {"null", "todo", "done"}, issue : Nat, minted : BOOLEAN]
Phases == {"idle", "call", "back", "follow", "finish"}

Job == [task : Tasks \cup {Detached}, phase : Phases, item : {NoItem} \cup Items, issue : Nat]

Types ==
  /\ project \in Projects \cup {Detached} /\ row \in [Tasks -> Row]
  /\ queue \in [Tasks -> Seq(Mutation)]
  /\ job \in Job
  /\ scrub \in [running : BOOLEAN, todo : SUBSET Tasks, listed : [Tasks -> Row] \cup {<<>>}]
  /\ scrub.running => scrub.listed \in [Tasks -> Row]
  /\ issues \in Nat /\ dead \subseteq Tasks /\ strays \subseteq Tasks
  /\ spent \in [DOMAIN Limit -> Nat]

CardsOK(cs, n) ==
  /\ DOMAIN cs \subseteq Items /\ IsFiniteSet(DOMAIN cs)
  /\ \A c \in DOMAIN cs : cs[c] \in Card /\ cs[c].issue <= n

(* An item that a row, a mutation or the drainer names is a card of that    *)
(* task; issue numbers are of issues that were filed.                       *)
Anchored(item, t, cs) == item # NoItem => item \in DOMAIN cs /\ item[2] = t
Named(q, t, cs, n) == \A i \in DOMAIN q : Anchored(q[i].item, t, cs) /\ q[i].issue <= n

(* A local task owes the board nothing and has nothing on it.               *)
Local(r, q) == r.sync = "LocalOnly" => r.item = NoItem /\ r.issue = 0 /\ ~r.node /\ q = <<>>

Tasked(t, r, q, cs, n) ==
  /\ Anchored(r.item, t, cs) /\ r.issue <= n /\ Named(q, t, cs, n) /\ Local(r, q)

Listed(r, n) == r.issue <= n /\ (r.sync = "LocalOnly" => r.item = NoItem)

(* What the drainer has done of the mutation it is on.                      *)
Working(j, r, e, cs, n) ==
  /\ j.item # NoItem => j.item \in DOMAIN cs
  /\ j.phase \in {"back", "follow"} => Anchored(j.item, j.task, cs) /\ j.item # NoItem
  /\ j.phase = "back" => e.kind \in {"AddItem", "CreateDraftIssue", "ConvertDraftToIssue"} /\ j.issue <= n
  /\ j.phase = "follow" => e.kind \in {"AddItem", "CreateDraftIssue"} /\ r.item \in {NoItem, j.item}
  /\ j.phase \in {"call", "back"} /\ e.kind = "CreateDraftIssue" => r.item = NoItem
  /\ j.phase = "finish" /\ e.kind = "SetProjectStatus" => cs[e.item].column = e.option

Jobs ==
  /\ job.phase = "idle" => job = Idle
  /\ job.phase # "idle" =>
       /\ job.task \in Tasks /\ queue[job.task] # <<>>
       /\ Working(job, row[job.task], Head(queue[job.task]), cards, issues)

(* Where the column of a card comes from: the last move that is queued, the *)
(* last move that was made, or the follow-up that the head of the queue is  *)
(* going to make.                                                           *)
IsMove(e) == e.kind = "SetProjectStatus"
IsAdding(e) == e.kind \in {"AddItem", "CreateDraftIssue"}
Moves(q, item, want) ==
  \E i \in DOMAIN q : /\ IsMove(q[i]) /\ q[i].item = item /\ q[i].option = want
                      /\ \A k \in DOMAIN q : k > i => ~IsMove(q[k])
Rests(q, item, want, cs) == (\A i \in DOMAIN q : ~IsMove(q[i])) /\ cs[item].column = want
WillFollow(q, p, done) == q # <<>> /\ IsAdding(Head(q)) /\ Head(q).board = p /\ ~done

Bound(r, q, p, cs, done) ==
  r.item # NoItem =>
    /\ p # Detached
    /\ Column[p][r.open] # "null" =>
         \/ Moves(q, r.item, Column[p][r.open]) \/ Rests(q, r.item, Column[p][r.open], cs)
         \/ WillFollow(q, p, done)

Finished(j, t) == j.task = t /\ j.phase = "finish"

Follows ==
  ~scrub.running =>
    \A t \in Tasks \ (dead \cup strays) : Bound(row[t], queue[t], project, cards, Finished(job, t))

(* The drafts of a task: one for each fault, crash or detach, and one that  *)
(* its row has or is about to have, unless a detach will take that one.     *)
Minted(t, cs) == {c \in DOMAIN cs : c[2] = t /\ cs[c].minted}
Drafted(t, r, q, j) ==
  IF r.item # NoItem \/ (j.task = t /\ j.phase = "back" /\ Head(q).kind = "CreateDraftIssue") THEN 1 ELSE 0
Owed(t, s) == IF s.running /\ t \in s.todo THEN 1 ELSE 0
Budget(sp) == sp.crashes + sp.faults + sp.detaches
Drafts ==
  \A t \in Tasks :
    Cardinality(Minted(t, cards)) + Owed(t, scrub) <= Budget(spent) + Drafted(t, row[t], queue[t], job)

Inv ==
  /\ Types /\ CardsOK(cards, issues)
  /\ \A t \in Tasks : Tasked(t, row[t], queue[t], cards, issues)
  /\ scrub.running => \A t \in Tasks : Listed(scrub.listed[t], issues)
  /\ Jobs /\ Follows /\ Drafts

-----------------------------------------------------------------------------
(***************************************************************************)
(* Queues.                                                                 *)
(***************************************************************************)

(* A nonempty queue has a head, which is its first row.                     *)
LEMMA HeadIs ==
  ASSUME NEW q \in Seq(Mutation), q # <<>>
  PROVE  1 \in DOMAIN q /\ Head(q) = q[1] /\ q[1] \in Mutation /\ DOMAIN q = 1 .. Len(q) /\ Len(q) \in Nat
OBVIOUS

(* A row of a queue is a mutation.                                          *)
LEMMA RowsAre ==
  ASSUME NEW q \in Seq(Mutation)
  PROVE  Len(q) \in Nat /\ DOMAIN q = 1 .. Len(q) /\ \A i \in DOMAIN q : q[i] \in Mutation
OBVIOUS

(* Each member of a finite set of numbers is the first, the second, ...:    *)
(* its rank, and Nth finds it again.                                        *)
LEMMA NthIs ==
  ASSUME NEW n \in Nat, NEW S \in SUBSET (1 .. n)
  PROVE  /\ Cardinality(S) \in Nat
         /\ \A j \in 1 .. Cardinality(S) : Nth(S, j) \in S
         /\ 1 \in S => Cardinality(S) >= 1 /\ Nth(S, 1) = 1
<1> DEFINE Upto(i) == {k \in S : k <= i}
           rank == [i \in S |-> Cardinality(Upto(i))]
           N == Cardinality(S)
<1>1. IsFiniteSet(S) /\ N \in Nat
  <2>1. IsFiniteSet(1 .. n)
    BY FS_Interval
  <2>2. IsFiniteSet(S)
    BY <2>1, FS_Subset
  <2>3. QED
    BY <2>2, FS_CardinalityType
<1>2. ASSUME NEW i \in S
      PROVE  IsFiniteSet(Upto(i)) /\ Cardinality(Upto(i)) \in 1 .. N
  <2>1. Upto(i) \in SUBSET S
    OBVIOUS
  <2>2. IsFiniteSet(Upto(i)) /\ Cardinality(Upto(i)) <= N
    BY <1>1, <2>1, FS_Subset
  <2>3. Cardinality(Upto(i)) \in Nat
    BY <2>2, FS_CardinalityType
  <2>4. i \in Upto(i)
    BY i \in 1 .. n
  <2>5. Cardinality(Upto(i)) # 0
    BY <2>2, <2>4, FS_EmptySet
  <2> HIDE DEF Upto, N
  <2>6. QED
    BY <1>1, <2>2, <2>3, <2>5
<1>3. ASSUME NEW i \in S, NEW k \in S, i < k PROVE Cardinality(Upto(i)) < Cardinality(Upto(k))
  <2>1. Upto(i) \in SUBSET Upto(k)
    <3>1. i \in 1 .. n /\ k \in 1 .. n
      OBVIOUS
    <3>2. ASSUME NEW m \in Upto(i) PROVE m \in Upto(k)
      <4>1. m \in 1 .. n /\ m <= i /\ m \in S
        OBVIOUS
      <4>2. m <= k
        BY <3>1, <4>1, <1>3
      <4>3. QED
        BY <4>1, <4>2
    <3>3. QED
      BY <3>2
  <2>2. k \in Upto(k) /\ k \notin Upto(i)
    BY <1>3, i \in 1 .. n, k \in 1 .. n
  <2>3. Upto(i) # Upto(k)
    BY <2>2
  <2>4. IsFiniteSet(Upto(k)) /\ Cardinality(Upto(i)) \in Nat /\ Cardinality(Upto(k)) \in Nat
    BY <1>2
  <2>5. Cardinality(Upto(i)) <= Cardinality(Upto(k)) /\ Cardinality(Upto(i)) # Cardinality(Upto(k))
    <3> HIDE DEF Upto
    <3>1. QED
      BY <2>1, <2>3, <2>4, FS_Subset
  <2> HIDE DEF Upto
  <2>6. QED
    BY <2>4, <2>5
<1>4. rank \in [S -> 1 .. N]
  BY <1>2
<1>5. \A i, k \in S : rank[i] = rank[k] => i = k
  <2> SUFFICES ASSUME NEW i \in S, NEW k \in S, rank[i] = rank[k], i # k PROVE FALSE
    OBVIOUS
  <2>1. rank[i] = Cardinality(Upto(i)) /\ rank[k] = Cardinality(Upto(k))
    OBVIOUS
  <2>2. Cardinality(Upto(i)) \in Nat /\ Cardinality(Upto(k)) \in Nat
    BY <1>2
  <2>3. i < k \/ k < i
    BY i \in 1 .. n, k \in 1 .. n
  <2>4. Cardinality(Upto(i)) < Cardinality(Upto(k)) \/ Cardinality(Upto(k)) < Cardinality(Upto(i))
    BY <1>3, <2>3
  <2>5. Cardinality(Upto(i)) = Cardinality(Upto(k))
    BY <2>1
  <2> HIDE DEF Upto, rank
  <2>6. QED
    BY <2>2, <2>4, <2>5
<1>6. rank \in Injection(S, 1 .. N)
  BY <1>4, <1>5 DEF Injection, IsInjective
<1>7. IsFiniteSet(1 .. N) /\ Cardinality(1 .. N) = N
  BY <1>1, FS_Interval
<1>8. rank \in Surjection(S, 1 .. N)
  <2> HIDE DEF rank
  <2>1. QED
    BY <1>6, <1>7, FS_Injection
<1>9. ASSUME NEW j \in 1 .. N
      PROVE  Nth(S, j) \in S /\ Cardinality(Upto(Nth(S, j))) = j
  <2>1. PICK i \in S : rank[i] = j
    BY <1>8 DEF Surjection
  <2>2. Cardinality({k \in S : k <= i}) = j
    BY <2>1
  <2>3. QED
    BY <2>2 DEF Nth
<1>10. ASSUME 1 \in S PROVE N >= 1 /\ Nth(S, 1) = 1
  <2>1. Upto(1) = {1}
    <3>1. ASSUME NEW k \in Upto(1) PROVE k = 1
      BY k \in 1 .. n
    <3>2. 1 \in Upto(1)
      BY <1>10
    <3>3. QED
      BY <3>1, <3>2
  <2>2. Cardinality(Upto(1)) = 1
    BY <2>1, FS_Singleton
  <2>3. 1 \in 1 .. N
    BY <1>1, <1>2, <1>10, <2>2
  <2>4. Nth(S, 1) \in S /\ rank[Nth(S, 1)] = 1
    BY <1>9, <2>3
  <2>5. rank[1] = 1
    BY <1>10, <2>2
  <2>6. Nth(S, 1) = 1
    BY <1>5, <1>10, <2>4, <2>5
  <2>7. QED
    BY <2>3, <2>6, <1>1
<1>11. QED
  BY <1>1, <1>9, <1>10

(* What is left of a queue are rows of it, and its head if that is kept.    *)
LEMMA RowsLeft ==
  ASSUME NEW q \in Seq(Mutation), NEW S \in SUBSET DOMAIN q
  PROVE  /\ OnlyAt(q, S) \in Seq(Mutation)
         /\ \A j \in DOMAIN OnlyAt(q, S) : \E i \in DOMAIN q : OnlyAt(q, S)[j] = q[i]
         /\ 1 \in S => OnlyAt(q, S) # <<>> /\ Head(OnlyAt(q, S)) = Head(q)
         /\ q = <<>> => OnlyAt(q, S) = <<>>
<1> DEFINE N == Cardinality(S)
           r == OnlyAt(q, S)
<1>1. Len(q) \in Nat /\ DOMAIN q = 1 .. Len(q) /\ \A i \in DOMAIN q : q[i] \in Mutation
  BY RowsAre
<1>2. /\ N \in Nat /\ \A j \in 1 .. N : Nth(S, j) \in S
      /\ 1 \in S => N >= 1 /\ Nth(S, 1) = 1
  BY <1>1, NthIs
<1>3. r = [j \in 1 .. N |-> q[Nth(S, j)]]
  BY DEF OnlyAt
<1>4. \A j \in 1 .. N : Nth(S, j) \in DOMAIN q /\ q[Nth(S, j)] \in Mutation
  BY <1>1, <1>2
<1> HIDE DEF N, r
<1>5. DOMAIN r = 1 .. N /\ \A j \in 1 .. N : r[j] = q[Nth(S, j)]
  BY <1>3
<1>6. r \in [1 .. N -> Mutation]
  BY <1>3, <1>4
<1>7. r \in Seq(Mutation)
  BY <1>2, <1>6, SeqDef
<1>8. ASSUME 1 \in S PROVE r # <<>> /\ Head(r) = Head(q)
  <2>1. 1 \in 1 .. N
    BY <1>2, <1>8
  <2>2. r # <<>>
    <3>1. 1 \in DOMAIN r
      BY <1>5, <2>1
    <3>2. DOMAIN r = 1 .. Len(r) /\ Len(r) \in Nat
      BY <1>7
    <3>3. Len(r) # 0
      BY <3>1, <3>2
    <3>4. QED
      BY <3>3
  <2>5. q # <<>>
    <3>1. 1 \in DOMAIN q
      BY <1>8
    <3>2. Len(q) # 0
      BY <1>1, <3>1
    <3>3. QED
      BY <3>2
  <2>3. r[1] = q[1]
    BY <1>2, <1>5, <1>8, <2>1
  <2>4. Head(r) = r[1] /\ Head(q) = q[1]
    BY <2>2, <2>5, <1>7, HeadIs
  <2>6. QED
    BY <2>2, <2>3, <2>4
<1>9. ASSUME q = <<>> PROVE r = <<>>
  <2>1. S = {}
    BY <1>9
  <2>2. N = 0
    BY <2>1, FS_EmptySet DEF N
  <2>3. Len(r) = 0
    BY <2>2, <1>2, <1>5, <1>7
  <2>4. QED
    BY <2>3, <1>7
<1>10. QED
  BY <1>4, <1>5, <1>7, <1>8, <1>9 DEF r

(* A row at the end of a queue.                                             *)
LEMMA Appended ==
  ASSUME NEW q \in Seq(Mutation), NEW e \in Mutation
  PROVE  /\ Append(q, e) \in Seq(Mutation) /\ Append(q, e) # <<>> /\ q \o <<e>> = Append(q, e)
         /\ q # <<>> => Head(Append(q, e)) = Head(q)
         /\ DOMAIN Append(q, e) = 1 .. Len(q) + 1 /\ DOMAIN q = 1 .. Len(q) /\ Len(q) \in Nat
         /\ \A i \in DOMAIN q : Append(q, e)[i] = q[i]
         /\ Append(q, e)[Len(q) + 1] = e
<1>1. /\ Append(q, e) \in Seq(Mutation) /\ Len(Append(q, e)) = Len(q) + 1 /\ Len(q) \in Nat
      /\ DOMAIN Append(q, e) = 1 .. Len(q) + 1 /\ DOMAIN q = 1 .. Len(q)
      /\ \A i \in 1 .. Len(q) : Append(q, e)[i] = q[i]
      /\ Append(q, e)[Len(q) + 1] = e
  OBVIOUS
<1>2. Append(q, e) # <<>>
  BY <1>1
<1>3. ASSUME q # <<>> PROVE Head(Append(q, e)) = Head(q)
  <2>1. 1 \in 1 .. Len(q) /\ Head(q) = q[1]
    BY <1>3, HeadIs
  <2>2. Head(Append(q, e)) = Append(q, e)[1]
    BY <1>1, <1>2, HeadIs
  <2>3. QED
    BY <1>1, <2>1, <2>2
<1>4. q \o <<e>> = Append(q, e)
  OBVIOUS
<1>5. QED
  BY <1>1, <1>2, <1>3, <1>4

(* What it does to where the column of a card comes from.                   *)
LEMMA AppendedKeeps ==
  ASSUME NEW q \in Seq(Mutation), NEW e \in Mutation
  PROVE  /\ IsMove(e) => Moves(Append(q, e), e.item, e.option)
         /\ ~IsMove(e) => \A item, want : Moves(q, item, want) => Moves(Append(q, e), item, want)
         /\ ~IsMove(e) => \A item, want, cs : Rests(q, item, want, cs) => Rests(Append(q, e), item, want, cs)
         /\ \A p, done : WillFollow(q, p, done) => WillFollow(Append(q, e), p, done)
<1> DEFINE r == Append(q, e)
<1>1. /\ r \in Seq(Mutation) /\ r # <<>> /\ (q # <<>> => Head(r) = Head(q))
      /\ DOMAIN r = 1 .. Len(q) + 1 /\ DOMAIN q = 1 .. Len(q) /\ Len(q) \in Nat
      /\ \A i \in DOMAIN q : r[i] = q[i]
      /\ r[Len(q) + 1] = e
  BY Appended
<1> HIDE DEF r
<1>2. \A k \in DOMAIN r : k = Len(q) + 1 \/ k \in DOMAIN q
  BY <1>1
<1>3. \A i \in DOMAIN q : i \in DOMAIN r
  BY <1>1
<1>4. ASSUME IsMove(e) PROVE Moves(r, e.item, e.option)
  <2>1. Len(q) + 1 \in DOMAIN r /\ \A k \in DOMAIN r : ~(k > Len(q) + 1)
    BY <1>1
  <2>2. QED
    BY <1>1, <1>4, <2>1 DEF Moves
<1>5. ASSUME ~IsMove(e), NEW item, NEW want, Moves(q, item, want) PROVE Moves(r, item, want)
  <2>1. PICK i \in DOMAIN q : /\ IsMove(q[i]) /\ q[i].item = item /\ q[i].option = want
                              /\ \A k \in DOMAIN q : k > i => ~IsMove(q[k])
    BY <1>5 DEF Moves
  <2>2. \A k \in DOMAIN r : k > i => ~IsMove(r[k])
    BY <1>1, <1>2, <1>5, <2>1
  <2>3. QED
    BY <1>1, <1>3, <2>1, <2>2 DEF Moves
<1>6. ASSUME ~IsMove(e), NEW item, NEW want, NEW cs, Rests(q, item, want, cs)
      PROVE  Rests(r, item, want, cs)
  BY <1>1, <1>2, <1>6 DEF Rests
<1>7. ASSUME NEW p, NEW done, WillFollow(q, p, done) PROVE WillFollow(r, p, done)
  BY <1>1, <1>7 DEF WillFollow
<1>8. QED
  BY <1>4, <1>5, <1>6, <1>7 DEF r

(* The rest of a queue.                                                     *)
LEMMA TailIs ==
  ASSUME NEW q \in Seq(Mutation), q # <<>>
  PROVE  /\ Tail(q) \in Seq(Mutation) /\ Len(q) \in Nat /\ Len(q) >= 1 /\ DOMAIN q = 1 .. Len(q)
         /\ DOMAIN Tail(q) = 1 .. Len(q) - 1
         /\ \A i \in 1 .. Len(q) - 1 : Tail(q)[i] = q[i + 1]
OBVIOUS

(* When the head is done, the column comes from it or from where it came.   *)
LEMMA TailKeeps ==
  ASSUME NEW q \in Seq(Mutation), q # <<>>, NEW item, NEW want, NEW cs,
         IsMove(Head(q)) => cs[Head(q).item].column = Head(q).option,
         Moves(q, item, want) \/ Rests(q, item, want, cs)
  PROVE  Moves(Tail(q), item, want) \/ Rests(Tail(q), item, want, cs)
<1> DEFINE r == Tail(q)
           n == Len(q)
<1>1. /\ r \in Seq(Mutation) /\ n \in Nat /\ n >= 1 /\ DOMAIN q = 1 .. n
      /\ DOMAIN r = 1 .. n - 1 /\ \A i \in 1 .. n - 1 : r[i] = q[i + 1]
  BY TailIs
<1>2. Head(q) = q[1]
  BY HeadIs
<1> HIDE DEF r, n
<1>3. \A k \in DOMAIN r : k + 1 \in DOMAIN q /\ r[k] = q[k + 1]
  BY <1>1
<1>4. CASE Rests(q, item, want, cs)
  <2>1. \A k \in DOMAIN r : ~IsMove(r[k])
    BY <1>3, <1>4 DEF Rests
  <2>2. QED
    BY <1>4, <2>1 DEF Rests, r
<1>5. CASE Moves(q, item, want)
  <2>1. PICK i \in DOMAIN q : /\ IsMove(q[i]) /\ q[i].item = item /\ q[i].option = want
                              /\ \A k \in DOMAIN q : k > i => ~IsMove(q[k])
    BY <1>5 DEF Moves
  <2>2. CASE i = 1
    <3>1. \A k \in DOMAIN r : k + 1 > 1
      BY <1>1
    <3>2. \A k \in DOMAIN r : ~IsMove(r[k])
      BY <1>3, <2>1, <2>2, <3>1
    <3>3. cs[item].column = want
      BY <1>2, <2>1, <2>2
    <3>4. QED
      BY <3>2, <3>3 DEF Rests, r
  <2>3. CASE i # 1
    <3>1. i - 1 \in DOMAIN r /\ r[i - 1] = q[i]
      BY <1>1, <2>1, <2>3
    <3>2. \A k \in DOMAIN r : k > i - 1 => k + 1 > i
      BY <1>1, <2>1
    <3>3. \A k \in DOMAIN r : k > i - 1 => ~IsMove(r[k])
      BY <1>3, <2>1, <3>2
    <3>4. QED
      BY <2>1, <3>1, <3>3 DEF Moves, r
  <2>4. QED
    BY <2>2, <2>3
<1>6. QED
  BY <1>4, <1>5

(* Queues whose rows differ in nothing but their attempts.                  *)
Alike(q, r) ==
  /\ DOMAIN r = DOMAIN q
  /\ \A i \in DOMAIN q : /\ r[i].kind = q[i].kind /\ r[i].board = q[i].board /\ r[i].item = q[i].item
                         /\ r[i].option = q[i].option /\ r[i].issue = q[i].issue

(* They owe the same columns.                                               *)
LEMMA AlikeKeeps ==
  ASSUME NEW q \in Seq(Mutation), NEW r \in Seq(Mutation), Alike(q, r)
  PROVE  /\ \A item, want : Moves(q, item, want) => Moves(r, item, want)
         /\ \A item, want, cs : Rests(q, item, want, cs) => Rests(r, item, want, cs)
         /\ \A p, done : WillFollow(q, p, done) => WillFollow(r, p, done)
         /\ \A t, cs, n : Named(q, t, cs, n) => Named(r, t, cs, n)
<1>1. \A i \in DOMAIN q : IsMove(r[i]) = IsMove(q[i])
  BY DEF Alike, IsMove
<1>2. ASSUME NEW item, NEW want, Moves(q, item, want) PROVE Moves(r, item, want)
  <2>1. PICK i \in DOMAIN q : /\ IsMove(q[i]) /\ q[i].item = item /\ q[i].option = want
                              /\ \A k \in DOMAIN q : k > i => ~IsMove(q[k])
    BY <1>2 DEF Moves
  <2>2. i \in DOMAIN r /\ IsMove(r[i]) /\ r[i].item = item /\ r[i].option = want
    BY <1>1, <2>1 DEF Alike
  <2>3. \A k \in DOMAIN r : k > i => ~IsMove(r[k])
    BY <1>1, <2>1 DEF Alike
  <2>4. QED
    BY <2>2, <2>3 DEF Moves
<1>3. ASSUME NEW item, NEW want, NEW cs, Rests(q, item, want, cs) PROVE Rests(r, item, want, cs)
  BY <1>1, <1>3 DEF Rests, Alike
<1>4. ASSUME NEW p, NEW done, WillFollow(q, p, done) PROVE WillFollow(r, p, done)
  <2>1. q # <<>> /\ IsAdding(Head(q)) /\ Head(q).board = p /\ ~done
    BY <1>4 DEF WillFollow
  <2>2. 1 \in DOMAIN q /\ Head(q) = q[1]
    BY <2>1, HeadIs
  <2>3. 1 \in DOMAIN r
    BY <2>2 DEF Alike
  <2>4. r # <<>>
    BY <2>3
  <2>5. Head(r) = r[1]
    BY <2>4, HeadIs
  <2>6. Head(r).kind = Head(q).kind /\ Head(r).board = Head(q).board
    BY <2>2, <2>5 DEF Alike
  <2>7. QED
    BY <2>1, <2>4, <2>6 DEF WillFollow, IsAdding
<1>5. ASSUME NEW t, NEW cs, NEW n, Named(q, t, cs, n) PROVE Named(r, t, cs, n)
  BY <1>5 DEF Named, Alike, Anchored
<1>6. QED
  BY <1>2, <1>3, <1>4, <1>5

(* A row whose call is to be tried again.                                   *)
LEMMA OnceMore ==
  ASSUME NEW q \in Seq(Mutation), q # <<>>
  PROVE  LET r == [q EXCEPT ![1].attempts = @ + 1]
         IN r \in Seq(Mutation) /\ r # <<>> /\ Alike(q, r)
<1> DEFINE e == [q[1] EXCEPT !.attempts = @ + 1]
           r == [q EXCEPT ![1].attempts = @ + 1]
<1>1. /\ 1 \in DOMAIN q /\ q[1] \in Mutation /\ DOMAIN q = 1 .. Len(q) /\ Len(q) \in Nat
      /\ \A i \in DOMAIN q : q[i] \in Mutation
  BY HeadIs, RowsAre
<1>2. e \in Mutation
  BY <1>1 DEF Mutation
<1>3. /\ e.kind = q[1].kind /\ e.board = q[1].board /\ e.item = q[1].item
      /\ e.option = q[1].option /\ e.issue = q[1].issue
  BY <1>1 DEF Mutation
<1>4. r = [q EXCEPT ![1] = e]
  OBVIOUS
<1> HIDE DEF e, r
<1>5. DOMAIN r = DOMAIN q /\ r[1] = e /\ \A i \in DOMAIN q : i # 1 => r[i] = q[i]
  BY <1>1, <1>4
<1>6. \A i \in 1 .. Len(q) : r[i] \in Mutation
  BY <1>1, <1>2, <1>5
<1>7. r = [i \in 1 .. Len(q) |-> r[i]]
  BY <1>1, <1>4
<1>8. r \in [1 .. Len(q) -> Mutation]
  BY <1>6, <1>7
<1>9. r \in Seq(Mutation)
  BY <1>1, <1>8, SeqDef
<1>10. r # <<>>
  BY <1>1, <1>5
<1>11. Alike(q, r)
  BY <1>3, <1>5 DEF Alike
<1>12. QED
  BY <1>9, <1>10, <1>11 DEF r

-----------------------------------------------------------------------------
(***************************************************************************)
(* Cards.                                                                  *)
(***************************************************************************)

(* More cards and more issues leave every name good.                        *)
LEMMA NamesLast ==
  ASSUME NEW t, NEW cs, NEW ds, NEW m \in Nat, NEW n \in Nat, DOMAIN cs \subseteq DOMAIN ds, m <= n
  PROVE  /\ \A item : Anchored(item, t, cs) => Anchored(item, t, ds)
         /\ \A q \in Seq(Mutation) : Named(q, t, cs, m) => Named(q, t, ds, n)
         /\ \A r \in Row, q \in Seq(Mutation) : Tasked(t, r, q, cs, m) => Tasked(t, r, q, ds, n)
         /\ \A r \in Row : Listed(r, m) => Listed(r, n)
<1>1. ASSUME NEW item, Anchored(item, t, cs) PROVE Anchored(item, t, ds)
  BY <1>1 DEF Anchored
<1>2. ASSUME NEW q \in Seq(Mutation), Named(q, t, cs, m) PROVE Named(q, t, ds, n)
  <2> SUFFICES ASSUME NEW i \in DOMAIN q PROVE Anchored(q[i].item, t, ds) /\ q[i].issue <= n
    BY DEF Named
  <2>1. q[i] \in Mutation
    BY RowsAre
  <2>2. q[i].issue \in Nat
    BY <2>1 DEF Mutation
  <2>3. Anchored(q[i].item, t, cs) /\ q[i].issue <= m
    BY <1>2 DEF Named
  <2>4. QED
    BY <1>1, <2>2, <2>3
<1>3. ASSUME NEW r \in Row, NEW q \in Seq(Mutation), Tasked(t, r, q, cs, m) PROVE Tasked(t, r, q, ds, n)
  <2>1. r.issue \in Nat
    BY DEF Row
  <2>2. QED
    BY <1>1, <1>2, <1>3, <2>1 DEF Tasked
<1>4. ASSUME NEW r \in Row, Listed(r, m) PROVE Listed(r, n)
  <2>1. r.issue \in Nat
    BY DEF Row
  <2>2. QED
    BY <1>4, <2>1 DEF Listed
<1>5. QED
  BY <1>1, <1>2, <1>3, <1>4

(* The drafts of a task are finitely many.                                  *)
LEMMA MintedFinite ==
  ASSUME NEW t, NEW cs, IsFiniteSet(DOMAIN cs)
  PROVE  IsFiniteSet(Minted(t, cs)) /\ Cardinality(Minted(t, cs)) \in Nat
<1>1. Minted(t, cs) \in SUBSET DOMAIN cs
  BY DEF Minted
<1>2. IsFiniteSet(Minted(t, cs))
  BY <1>1, FS_Subset
<1>3. QED
  BY <1>2, FS_CardinalityType

(* One new draft is one draft more at most.                                 *)
LEMMA OneMore ==
  ASSUME NEW t, NEW cs, NEW ds, NEW c, IsFiniteSet(DOMAIN cs), Minted(t, ds) \subseteq Minted(t, cs) \cup {c}
  PROVE  Cardinality(Minted(t, ds)) \in Nat /\ Cardinality(Minted(t, ds)) <= Cardinality(Minted(t, cs)) + 1
<1> DEFINE S == Minted(t, cs)
           R == Minted(t, ds)
<1>1. IsFiniteSet(S) /\ Cardinality(S) \in Nat
  BY MintedFinite
<1> HIDE DEF S, R
<1>2. IsFiniteSet(S \cup {c}) /\ Cardinality(S \cup {c}) \in {Cardinality(S), Cardinality(S) + 1}
  BY <1>1, FS_AddElement
<1>3. R \in SUBSET (S \cup {c})
  BY DEF R, S
<1>4. IsFiniteSet(R) /\ Cardinality(R) <= Cardinality(S \cup {c})
  BY <1>2, <1>3, FS_Subset
<1>5. Cardinality(R) \in Nat
  BY <1>4, FS_CardinalityType
<1>6. Cardinality(R) <= Cardinality(S) + 1
  BY <1>1, <1>2, <1>4, <1>5
<1>7. QED
  BY <1>5, <1>6 DEF R, S

-----------------------------------------------------------------------------
(***************************************************************************)
(* Steps.                                                                  *)
(***************************************************************************)

(* What is spent of the bounds.                                             *)
LEMMA BudgetIs == ASSUME NEW sp \in [DOMAIN Limit -> Nat] PROVE Budget(sp) \in Nat
BY DEF Budget, Limit

(* One of them grows.                                                       *)
LEMMA Spends ==
  ASSUME spent \in [DOMAIN Limit -> Nat], NEW b \in DOMAIN Limit, Spend(b)
  PROVE  /\ spent' \in [DOMAIN Limit -> Nat] /\ Budget(spent) \in Nat
         /\ Budget(spent') = IF b = "commands" THEN Budget(spent) ELSE Budget(spent) + 1
<1>1. spent' = [spent EXCEPT ![b] = spent[b] + 1]
  BY DEF Spend
<1>2. DOMAIN Limit = {"commands", "detaches", "faults", "crashes"}
  BY DEF Limit
<1>3. spent' \in [DOMAIN Limit -> Nat]
  BY <1>1
<1>4. QED
  BY <1>1, <1>2, <1>3 DEF Budget

(* A step that changes one task, and the drainer only while it is on that   *)
(* task, keeps the invariant if it keeps it for that task.                  *)
LEMMA AtTask ==
  ASSUME Inv, NEW t \in Tasks, NEW r \in Row, NEW q \in Seq(Mutation),
         row' = [row EXCEPT ![t] = r], queue' = [queue EXCEPT ![t] = q],
         UNCHANGED project, job' \in Job, job' = job \/ {job.task, job'.task} \subseteq {t, Detached},
         scrub' \in {scrub, [scrub EXCEPT !.todo = @ \ {t}]},
         CardsOK(cards', issues'), issues' \in Nat, issues <= issues', DOMAIN cards \subseteq DOMAIN cards',
         \A c \in DOMAIN cards' : c[2] # t => c \in DOMAIN cards /\ cards'[c] = cards[c],
         dead \subseteq dead', dead' \subseteq Tasks, strays' \subseteq Tasks,
         scrub.running \/ strays \subseteq strays',
         spent' \in [DOMAIN Limit -> Nat], Budget(spent) <= Budget(spent'),
         Tasked(t, r, q, cards', issues'), Jobs',
         \/ scrub.running \/ t \in dead' \cup strays'
         \/ Bound(r, q, project, cards', Finished(job', t)),
         Cardinality(Minted(t, cards')) + Owed(t, scrub') <= Budget(spent') + Drafted(t, r, q, job')
  PROVE  Inv'
<1> USE DEF Inv
<1>1. Types'
  BY DEF Types
<1>2. row \in [Tasks -> Row] /\ queue \in [Tasks -> Seq(Mutation)] /\ issues \in Nat
  BY DEF Types
<1>3. row'[t] = r /\ queue'[t] = q /\ \A u \in Tasks \ {t} : row'[u] = row[u] /\ queue'[u] = queue[u]
  BY <1>2
<1>4. ASSUME NEW u \in Tasks PROVE Tasked(u, row'[u], queue'[u], cards', issues')
  <2>1. CASE u = t
    BY <1>3, <2>1
  <2>2. CASE u # t
    <3>1. row[u] \in Row /\ queue[u] \in Seq(Mutation) /\ Tasked(u, row[u], queue[u], cards, issues)
      BY <1>2
    <3>2. Tasked(u, row[u], queue[u], cards', issues')
      BY <1>2, <3>1, NamesLast
    <3>3. QED
      BY <1>3, <2>2, <3>2
  <2>3. QED
    BY <2>1, <2>2
<1>5. scrub'.running = scrub.running /\ scrub'.listed = scrub.listed
  BY DEF Types
<1>6. ASSUME scrub'.running, NEW u \in Tasks PROVE Listed(scrub'.listed[u], issues')
  <2>1. scrub.listed[u] \in Row /\ Listed(scrub.listed[u], issues)
    BY <1>5, <1>6 DEF Types
  <2>2. QED
    BY <1>2, <1>5, <2>1, NamesLast
<1>7. \A u \in Tasks \ {t} : Finished(job', u) <=> Finished(job, u)
  BY BoardConstants DEF Finished
<1>8. Follows'
  <2> SUFFICES ASSUME ~scrub'.running, NEW u \in Tasks \ (dead' \cup strays')
               PROVE  Bound(row'[u], queue'[u], project, cards', Finished(job', u))
    BY DEF Follows
  <2>1. CASE u = t
    BY <1>3, <1>5, <2>1
  <2>2. CASE u # t
    <3>1. u \in Tasks \ (dead \cup strays) /\ Bound(row[u], queue[u], project, cards, Finished(job, u))
      BY <1>5 DEF Follows
    <3>2. Tasked(u, row[u], queue[u], cards, issues)
      OBVIOUS
    <3>3. row[u].item # NoItem => row[u].item \in DOMAIN cards /\ row[u].item[2] = u
      BY <3>2 DEF Tasked, Anchored
    <3>4. row[u].item # NoItem => cards'[row[u].item] = cards[row[u].item]
      BY <2>2, <3>3
    <3>5. (row[u].item # NoItem /\ Rests(queue[u], row[u].item, Column[project][row[u].open], cards))
             => Rests(queue[u], row[u].item, Column[project][row[u].open], cards')
      BY <3>4 DEF Rests
    <3>6. (Finished(job', u) <=> Finished(job, u)) /\ Finished(job, u) \in BOOLEAN
      BY <1>7, <2>2 DEF Finished
    <3>7. \A p : WillFollow(queue[u], p, Finished(job, u)) => WillFollow(queue[u], p, Finished(job', u))
      BY <3>6 DEF WillFollow
    <3>8. Bound(row[u], queue[u], project, cards', Finished(job', u))
      BY <3>1, <3>5, <3>7 DEF Bound
    <3>9. QED
      BY <1>3, <2>2, <3>8
  <2>3. QED
    BY <2>1, <2>2
<1>9. Drafts'
  <2> SUFFICES ASSUME NEW u \in Tasks
               PROVE  Cardinality(Minted(u, cards')) + Owed(u, scrub')
                        <= Budget(spent') + Drafted(u, row'[u], queue'[u], job')
    BY DEF Drafts
  <2>1. CASE u = t
    BY <1>3, <2>1
  <2>2. CASE u # t
    <3>1. Cardinality(Minted(u, cards)) + Owed(u, scrub) <= Budget(spent) + Drafted(u, row[u], queue[u], job)
      BY DEF Drafts
    <3>2. Minted(u, cards') = Minted(u, cards)
      BY <2>2 DEF Minted
    <3>3. Owed(u, scrub') = Owed(u, scrub)
      BY <2>2 DEF Owed, Types
    <3>4. Drafted(u, row'[u], queue'[u], job') = Drafted(u, row[u], queue[u], job)
      BY <1>3, <2>2, BoardConstants DEF Drafted
    <3>5. Budget(spent) \in Nat /\ Budget(spent') \in Nat
      BY BudgetIs DEF Types
    <3>6. Cardinality(Minted(u, cards)) \in Nat
      BY MintedFinite DEF CardsOK
    <3>7. Owed(u, scrub) \in Nat /\ Drafted(u, row[u], queue[u], job) \in Nat
      BY DEF Owed, Drafted
    <3> DEFINE m == Cardinality(Minted(u, cards))
    <3>8. Cardinality(Minted(u, cards')) = m /\ m \in Nat
      BY <3>2, <3>6
    <3> HIDE DEF m
    <3>9. m + Owed(u, scrub) <= Budget(spent) + Drafted(u, row[u], queue[u], job)
      BY <3>1 DEF m
    <3>10. m + Owed(u, scrub) <= Budget(spent') + Drafted(u, row[u], queue[u], job)
      BY <3>5, <3>7, <3>8, <3>9
    <3>11. QED
      BY <3>3, <3>4, <3>8, <3>10
  <2>3. QED
    BY <2>1, <2>2
<1>10. QED
  BY <1>1, <1>4, <1>6, <1>8, <1>9

(* What the drainer knows does not depend on what a command changes.        *)
LEMMA KeepsJobs ==
  ASSUME Inv, NEW t \in Tasks, NEW r \in Row, NEW q \in Seq(Mutation),
         row' = [row EXCEPT ![t] = r], queue' = [queue EXCEPT ![t] = q], UNCHANGED <<job, cards>>,
         issues' \in Nat, issues <= issues', r.item \in {NoItem, row[t].item},
         job.task = t /\ queue[t] # <<>> => q # <<>> /\ Head(q) = Head(queue[t])
  PROVE  Jobs'
<1> USE DEF Inv
<1>1. row \in [Tasks -> Row] /\ queue \in [Tasks -> Seq(Mutation)] /\ issues \in Nat /\ job \in Job
  BY DEF Types
<1>2. row'[t] = r /\ queue'[t] = q /\ \A u \in Tasks \ {t} : row'[u] = row[u] /\ queue'[u] = queue[u]
  BY <1>1
<1>3. SUFFICES ASSUME job.phase # "idle"
               PROVE  /\ queue'[job.task] # <<>>
                      /\ Working(job, row'[job.task], Head(queue'[job.task]), cards, issues')
  BY DEF Jobs
<1>4. /\ job.task \in Tasks /\ queue[job.task] # <<>>
      /\ Working(job, row[job.task], Head(queue[job.task]), cards, issues)
  BY <1>3 DEF Jobs
<1>5. queue'[job.task] # <<>> /\ Head(queue'[job.task]) = Head(queue[job.task])
  BY <1>2, <1>4
<1>6. row'[job.task].item \in {NoItem, row[job.task].item}
  BY <1>2, <1>4
<1>7. job.issue \in Nat /\ (job.issue <= issues => job.issue <= issues')
  BY <1>1 DEF Job
<1>8. Working(job, row'[job.task], Head(queue[job.task]), cards, issues')
  BY <1>4, <1>6, <1>7 DEF Working
<1>9. QED
  BY <1>5, <1>8

(* A command that touches one task: its item stays, the head of its queue   *)
(* stays, and where its column comes from.                                  *)
LEMMA CommandAt ==
  ASSUME Inv, NEW t \in Tasks, NEW r \in Row, NEW q \in Seq(Mutation), Command,
         row' = [row EXCEPT ![t] = r], queue' = [queue EXCEPT ![t] = q],
         UNCHANGED <<project, job, scrub, cards, dead, strays>>, issues' \in Nat, issues <= issues',
         r.item = row[t].item, queue[t] # <<>> => q # <<>> /\ Head(q) = Head(queue[t]),
         Tasked(t, r, q, cards, issues'),
         Bound(row[t], queue[t], project, cards, Finished(job, t)) =>
           Bound(r, q, project, cards, Finished(job, t))
  PROVE  Inv'
<1>1. /\ row \in [Tasks -> Row] /\ queue \in [Tasks -> Seq(Mutation)] /\ issues \in Nat /\ job \in Job
      /\ spent \in [DOMAIN Limit -> Nat] /\ dead \subseteq Tasks /\ strays \subseteq Tasks
  BY DEF Inv, Types
<1>2. ~scrub.running /\ spent' \in [DOMAIN Limit -> Nat] /\ Budget(spent') = Budget(spent)
      /\ Budget(spent) \in Nat
  BY <1>1, Spends DEF Command, Limit
<1>3. Jobs'
  BY KeepsJobs
<1>4. CardsOK(cards', issues')
  <2>1. CardsOK(cards, issues)
    BY DEF Inv
  <2>2. ASSUME NEW c \in DOMAIN cards PROVE cards[c].issue <= issues'
    BY <1>1, <2>1 DEF CardsOK, Card
  <2>3. QED
    BY <2>1, <2>2 DEF CardsOK
<1>5. t \in dead' \cup strays' \/ Bound(r, q, project, cards', Finished(job', t))
  BY <1>2 DEF Inv, Follows
<1>6. Drafted(t, r, q, job) = Drafted(t, row[t], queue[t], job)
  <2>1. job.task = t /\ job.phase = "back" => queue[t] # <<>>
    BY DEF Inv, Jobs
  <2>2. QED
    BY <2>1 DEF Drafted
<1>7. Cardinality(Minted(t, cards')) + Owed(t, scrub') <= Budget(spent') + Drafted(t, r, q, job')
  BY <1>2, <1>6 DEF Inv, Drafts
<1>8. UNCHANGED project /\ job' = job /\ scrub' = scrub /\ cards' = cards /\ dead' = dead /\ strays' = strays
  OBVIOUS
<1>9. /\ UNCHANGED project /\ job' \in Job /\ job' = job /\ scrub' \in {scrub, [scrub EXCEPT !.todo = @ \ {t}]}
      /\ DOMAIN cards \subseteq DOMAIN cards' /\ \A c \in DOMAIN cards' : c \in DOMAIN cards /\ cards'[c] = cards[c]
      /\ dead \subseteq dead' /\ dead' \subseteq Tasks /\ strays' \subseteq Tasks /\ strays \subseteq strays'
      /\ Budget(spent) <= Budget(spent')
  BY <1>1, <1>2, <1>8
<1>10. \/ scrub.running \/ t \in dead' \cup strays'
       \/ Bound(r, q, project, cards', Finished(job', t))
  BY <1>5
<1>11. QED
  BY <1>2, <1>3, <1>4, <1>7, <1>9, <1>10, AtTask

(* What is known of a task before a step.                                   *)
LEMMA KnownOf ==
  ASSUME Inv, NEW t \in Tasks
  PROVE  /\ row[t] \in Row /\ queue[t] \in Seq(Mutation)
         /\ row \in [Tasks -> Row] /\ queue \in [Tasks -> Seq(Mutation)] /\ issues \in Nat
         /\ Tasked(t, row[t], queue[t], cards, issues)
         /\ queue = [queue EXCEPT ![t] = queue[t]] /\ row = [row EXCEPT ![t] = row[t]]
BY DEF Inv, Types

(* rl task stage.                                                           *)
LEMMA StageStep == ASSUME Inv, NEW t \in Tasks, StageForSync(t) PROVE Inv'
<1> DEFINE r == [row[t] EXCEPT !.sync = "Staged"]
<1>1. /\ row[t] \in Row /\ queue[t] \in Seq(Mutation) /\ row \in [Tasks -> Row] /\ issues \in Nat
      /\ Tasked(t, row[t], queue[t], cards, issues) /\ queue = [queue EXCEPT ![t] = queue[t]]
  BY KnownOf
<1>2. /\ Command /\ row' = [row EXCEPT ![t] = r] /\ queue' = [queue EXCEPT ![t] = queue[t]]
      /\ UNCHANGED <<project, job, scrub, cards, dead, strays>> /\ issues' = issues
  BY <1>1 DEF StageForSync
<1>3. r \in Row /\ r.item = row[t].item /\ r.open = row[t].open /\ r.issue = row[t].issue /\ r.sync = "Staged"
  BY <1>1 DEF Row
<1> HIDE DEF r
<1>4. Tasked(t, r, queue[t], cards, issues')
  BY <1>1, <1>2, <1>3 DEF Tasked, Local
<1>5. Bound(row[t], queue[t], project, cards, Finished(job, t)) =>
        Bound(r, queue[t], project, cards, Finished(job, t))
  BY <1>3 DEF Bound
<1>6. issues <= issues' /\ issues' \in Nat
  BY <1>1, <1>2
<1>7. QED
  BY <1>1, <1>2, <1>3, <1>4, <1>5, <1>6, CommandAt

(* promote: the number is that of a new issue.                              *)
LEMMA PromoteStep == ASSUME Inv, NEW t \in Tasks, Promote(t) PROVE Inv'
<1> DEFINE r == [row[t] EXCEPT !.sync = "Synced", !.issue = issues + 1, !.node = TRUE]
<1>1. /\ row[t] \in Row /\ queue[t] \in Seq(Mutation) /\ row \in [Tasks -> Row] /\ issues \in Nat
      /\ Tasked(t, row[t], queue[t], cards, issues) /\ queue = [queue EXCEPT ![t] = queue[t]]
  BY KnownOf
<1>2. /\ Command /\ row' = [row EXCEPT ![t] = r] /\ queue' = [queue EXCEPT ![t] = queue[t]]
      /\ UNCHANGED <<project, job, scrub, cards, dead, strays>> /\ issues' = issues + 1
  BY <1>1 DEF Promote
<1>3. r \in Row /\ r.item = row[t].item /\ r.open = row[t].open /\ r.issue = issues + 1 /\ r.sync = "Synced"
  <2> DEFINE n == issues + 1
  <2>1. n \in Nat
    BY <1>1
  <2>2. r = [row[t] EXCEPT !.sync = "Synced", !.issue = n, !.node = TRUE]
    OBVIOUS
  <2> HIDE DEF n
  <2>3. r \in Row /\ r.item = row[t].item /\ r.open = row[t].open /\ r.issue = n /\ r.sync = "Synced"
    BY <1>1, <2>1, <2>2 DEF Row
  <2>4. QED
    BY <2>3 DEF n
<1> HIDE DEF r
<1>4. issues <= issues' /\ issues' \in Nat
  BY <1>1, <1>2
<1>5. Tasked(t, row[t], queue[t], cards, issues')
  BY <1>1, <1>4, NamesLast
<1>6. Tasked(t, r, queue[t], cards, issues')
  BY <1>1, <1>2, <1>3, <1>5 DEF Tasked, Local
<1>7. Bound(row[t], queue[t], project, cards, Finished(job, t)) =>
        Bound(r, queue[t], project, cards, Finished(job, t))
  BY <1>3 DEF Bound
<1>8. QED
  BY <1>1, <1>2, <1>3, <1>4, <1>6, <1>7, CommandAt

(* A pull records a node id.                                                *)
LEMMA NodeIdStep == ASSUME Inv, NEW t \in Tasks, CacheRemoteNodeId(t) PROVE Inv'
<1> DEFINE r == [row[t] EXCEPT !.node = TRUE]
<1>1. /\ row[t] \in Row /\ queue[t] \in Seq(Mutation) /\ row \in [Tasks -> Row] /\ issues \in Nat
      /\ Tasked(t, row[t], queue[t], cards, issues) /\ queue = [queue EXCEPT ![t] = queue[t]]
  BY KnownOf
<1>2. /\ Command /\ row' = [row EXCEPT ![t] = r] /\ queue' = [queue EXCEPT ![t] = queue[t]]
      /\ UNCHANGED <<project, job, scrub, cards, dead, strays>> /\ issues' = issues /\ row[t].issue # 0
  BY <1>1 DEF CacheRemoteNodeId
<1>3. r \in Row /\ r.item = row[t].item /\ r.open = row[t].open /\ r.issue = row[t].issue /\ r.sync = row[t].sync
  BY <1>1 DEF Row
<1> HIDE DEF r
<1>4. issues <= issues' /\ issues' \in Nat
  BY <1>1, <1>2
<1>5. Tasked(t, r, queue[t], cards, issues')
  BY <1>1, <1>2, <1>3 DEF Tasked, Local
<1>6. Bound(row[t], queue[t], project, cards, Finished(job, t)) =>
        Bound(r, queue[t], project, cards, Finished(job, t))
  BY <1>3 DEF Bound
<1>7. QED
  BY <1>1, <1>2, <1>3, <1>4, <1>5, <1>6, CommandAt

(* What is owed to the board is nothing or one row, which names the item    *)
(* and the issue of the task; a mirrored card with a mapped column is owed  *)
(* a move there.                                                            *)
LEMMA Planned ==
  ASSUME NEW r \in Row, NEW p \in Projects \cup {Detached}
  PROVE  \/ /\ PlanMutations(r, p) = <<>>
            /\ r.sync # "LocalOnly" /\ p # Detached /\ r.item # NoItem => Column[p][r.open] = "null"
         \/ /\ r.sync # "LocalOnly" /\ p # Detached
            /\ \E e \in Mutation :
                 /\ PlanMutations(r, p) = <<e>> /\ e.item = r.item /\ e.issue \in {0, r.issue}
                 /\ r.item # NoItem => IsMove(e) /\ e.option = Column[p][r.open]
<1>1. r.item \in {NoItem} \cup Items /\ r.issue \in Nat /\ r.open \in BOOLEAN
  BY DEF Row, Items
<1>2. CASE r.sync = "LocalOnly" \/ p = Detached
  BY <1>2 DEF PlanMutations
<1>3. CASE r.sync # "LocalOnly" /\ p # Detached /\ r.item # NoItem
  <2>1. PlanMutations(r, p) = SetProjectStatusMutation(p, r)
    BY <1>3 DEF PlanMutations
  <2>2. CASE Column[p][r.open] = "null"
    BY <2>1, <2>2 DEF SetProjectStatusMutation
  <2>3. CASE Column[p][r.open] # "null"
    <3> DEFINE e == Of("SetProjectStatus", p, r.item, Column[p][r.open], 0)
    <3>1. PlanMutations(r, p) = <<e>>
      BY <2>1, <2>3 DEF SetProjectStatusMutation
    <3>2. Column[p][r.open] \in {"todo", "done"}
      BY <1>1, <1>3, <2>3, BoardConstants
    <3>3. e \in Mutation
      BY <1>1, <1>3, <3>2 DEF Of, Mutation
    <3>4. e.item = r.item /\ e.issue = 0 /\ IsMove(e) /\ e.option = Column[p][r.open]
      BY DEF Of, IsMove
    <3> HIDE DEF e
    <3>5. QED
      BY <1>3, <3>1, <3>3, <3>4
  <2>4. QED
    BY <2>2, <2>3
<1>4. CASE r.sync # "LocalOnly" /\ p # Detached /\ r.item = NoItem /\ r.node
  <2> DEFINE e == Of("AddItem", p, NoItem, "null", r.issue)
  <2>1. PlanMutations(r, p) = <<e>>
    BY <1>4 DEF PlanMutations
  <2>2. e \in Mutation /\ e.item = NoItem /\ e.issue = r.issue
    BY <1>1, <1>4 DEF Of, Mutation
  <2> HIDE DEF e
  <2>3. QED
    BY <1>4, <2>1, <2>2
<1>5. CASE r.sync # "LocalOnly" /\ p # Detached /\ r.item = NoItem /\ ~r.node /\ r.issue = 0
  <2> DEFINE e == Of("CreateDraftIssue", p, NoItem, "null", 0)
  <2>1. PlanMutations(r, p) = <<e>>
    BY <1>5 DEF PlanMutations
  <2>2. e \in Mutation /\ e.item = NoItem /\ e.issue = 0
    BY <1>5 DEF Of, Mutation
  <2> HIDE DEF e
  <2>3. QED
    BY <1>5, <2>1, <2>2
<1>6. CASE r.sync # "LocalOnly" /\ p # Detached /\ r.item = NoItem /\ ~r.node /\ r.issue # 0
  BY <1>6 DEF PlanMutations
<1>7. QED
  BY <1>2, <1>3, <1>4, <1>5, <1>6

(* A row that names the task's item, or none, may be queued for it.         *)
LEMMA NamedMore ==
  ASSUME NEW t, NEW cs, NEW n, NEW q \in Seq(Mutation), NEW e \in Mutation, Named(q, t, cs, n),
         Anchored(e.item, t, cs), e.issue <= n
  PROVE  Named(Append(q, e), t, cs, n)
<1> DEFINE s == Append(q, e)
<1>1. /\ DOMAIN s = 1 .. Len(q) + 1 /\ DOMAIN q = 1 .. Len(q) /\ Len(q) \in Nat
      /\ \A i \in DOMAIN q : s[i] = q[i]
      /\ s[Len(q) + 1] = e
  BY Appended
<1> HIDE DEF s
<1>2. \A i \in DOMAIN s : i = Len(q) + 1 \/ i \in DOMAIN q
  BY <1>1
<1>3. Named(s, t, cs, n)
  BY <1>1, <1>2 DEF Named
<1>4. QED
  BY <1>3 DEF s

(* complete, archive, reopen.                                               *)
LEMMA TransitionStep == ASSUME Inv, NEW t \in Tasks, TransitionMirror(t) PROVE Inv'
<1> DEFINE r == [row[t] EXCEPT !.open = ~@]
           q == queue[t] \o PlanMutations(r, project)
<1>1. /\ row[t] \in Row /\ queue[t] \in Seq(Mutation) /\ issues \in Nat
      /\ Tasked(t, row[t], queue[t], cards, issues)
  BY KnownOf
<1>2. /\ Command /\ row' = [row EXCEPT ![t] = r] /\ queue' = [queue EXCEPT ![t] = q]
      /\ UNCHANGED <<project, job, scrub, cards, dead, strays>> /\ issues' = issues
  BY DEF TransitionMirror
<1>3. r \in Row /\ r.item = row[t].item /\ r.issue = row[t].issue /\ r.sync = row[t].sync /\ r.node = row[t].node
  BY <1>1 DEF Row
<1>4. project \in Projects \cup {Detached}
  BY DEF Inv, Types
<1>5. issues <= issues' /\ issues' \in Nat
  BY <1>1, <1>2
<1> HIDE DEF r
<1>6. Anchored(r.item, t, cards) /\ r.issue <= issues /\ Named(queue[t], t, cards, issues) /\ Local(r, queue[t])
  BY <1>1, <1>3 DEF Tasked, Local
<1>7. ASSUME PlanMutations(r, project) = <<>>,
             r.sync # "LocalOnly" /\ project # Detached /\ r.item # NoItem => Column[project][r.open] = "null"
      PROVE  Inv'
  <2>1. q = queue[t]
    BY <1>1, <1>7
  <2>2. Tasked(t, r, q, cards, issues')
    BY <1>2, <1>6, <2>1 DEF Tasked
  <2>3. r.item # NoItem => r.sync # "LocalOnly"
    BY <1>6 DEF Local
  <2>4. Bound(row[t], queue[t], project, cards, Finished(job, t)) =>
          Bound(r, q, project, cards, Finished(job, t))
    BY <1>3, <1>7, <2>3 DEF Bound
  <2> HIDE DEF q
  <2>5. QED
    BY <1>1, <1>2, <1>3, <1>5, <2>1, <2>2, <2>4, CommandAt
<1>8. ASSUME NEW e \in Mutation, PlanMutations(r, project) = <<e>>, r.sync # "LocalOnly",
             e.item = r.item, e.issue \in {0, r.issue}, r.item # NoItem => IsMove(e) /\ e.option = Column[project][r.open]
      PROVE  Inv'
  <2>1. /\ q = Append(queue[t], e) /\ q \in Seq(Mutation) /\ q # <<>>
        /\ queue[t] # <<>> => Head(q) = Head(queue[t])
    BY <1>1, <1>8, Appended
  <2>2. r.issue \in Nat
    BY <1>3 DEF Row
  <2>3. e.issue <= issues
    BY <1>1, <1>6, <1>8, <2>2
  <2>4. Named(q, t, cards, issues)
    BY <1>1, <1>6, <1>8, <2>1, <2>3, NamedMore
  <2>5. Tasked(t, r, q, cards, issues')
    BY <1>2, <1>6, <1>8, <2>4 DEF Tasked, Local
  <2>6. r.item # NoItem => Moves(q, r.item, Column[project][r.open])
    BY <1>1, <1>8, <2>1, AppendedKeeps
  <2>7. Bound(row[t], queue[t], project, cards, Finished(job, t)) =>
          Bound(r, q, project, cards, Finished(job, t))
    BY <1>3, <2>6 DEF Bound
  <2> HIDE DEF q
  <2>8. QED
    BY <1>2, <1>3, <1>5, <2>1, <2>5, <2>7, CommandAt
<1>9. QED
  BY <1>3, <1>4, <1>7, <1>8, Planned

(* rl task edit --repo.                                                     *)
LEMMA UpdateRepoStep == ASSUME Inv, NEW t \in Tasks, UpdateRepo(t) PROVE Inv'
<1> DEFINE r == [row[t] EXCEPT !.repo = TRUE]
           e == Of("ConvertDraftToIssue", row[t].item[1], row[t].item, "null", 0)
<1>1. /\ row[t] \in Row /\ queue[t] \in Seq(Mutation) /\ queue \in [Tasks -> Seq(Mutation)] /\ issues \in Nat
      /\ Tasked(t, row[t], queue[t], cards, issues) /\ queue = [queue EXCEPT ![t] = queue[t]]
  BY KnownOf
<1>2. /\ Command /\ row' = [row EXCEPT ![t] = r]
      /\ UNCHANGED <<project, job, scrub, cards, dead, strays>> /\ issues' = issues
      /\ queue' = IF row[t].issue = 0 /\ row[t].item # NoItem
                  THEN [queue EXCEPT ![t] = Append(queue[t], e)] ELSE queue
  BY DEF UpdateRepo
<1>3. /\ r \in Row /\ r.item = row[t].item /\ r.issue = row[t].issue /\ r.sync = row[t].sync
      /\ r.node = row[t].node /\ r.open = row[t].open
  BY <1>1 DEF Row
<1>4. issues <= issues' /\ issues' \in Nat
  BY <1>1, <1>2
<1>5. row[t].item # NoItem => /\ e \in Mutation /\ e.item = row[t].item /\ e.issue = 0 /\ ~IsMove(e)
  BY <1>1 DEF Of, Mutation, Row, Items, IsMove
<1>6. Anchored(r.item, t, cards) /\ r.issue <= issues /\ Named(queue[t], t, cards, issues) /\ Local(r, queue[t])
  BY <1>1, <1>3 DEF Tasked, Local
<1> HIDE DEF r, e
<1>7. CASE row[t].issue = 0 /\ row[t].item # NoItem
  <2> DEFINE q == Append(queue[t], e)
  <2>1. /\ queue' = [queue EXCEPT ![t] = q] /\ q \in Seq(Mutation) /\ q # <<>>
        /\ queue[t] # <<>> => Head(q) = Head(queue[t])
    BY <1>1, <1>2, <1>5, <1>7, Appended
  <2>2. Named(q, t, cards, issues)
    BY <1>1, <1>3, <1>5, <1>6, <1>7, NamedMore
  <2>3. Tasked(t, r, q, cards, issues')
    BY <1>2, <1>3, <1>6, <1>7, <2>2 DEF Tasked, Local
  <2>4. /\ \A item, want : Moves(queue[t], item, want) => Moves(q, item, want)
        /\ \A item, want, cs : Rests(queue[t], item, want, cs) => Rests(q, item, want, cs)
        /\ \A p, done : WillFollow(queue[t], p, done) => WillFollow(q, p, done)
    BY <1>1, <1>5, <1>7, AppendedKeeps
  <2> HIDE DEF q
  <2>5. Bound(row[t], queue[t], project, cards, Finished(job, t)) =>
          Bound(r, q, project, cards, Finished(job, t))
    BY <1>3, <2>4 DEF Bound
  <2>6. QED
    BY <1>2, <1>3, <1>4, <2>1, <2>3, <2>5, CommandAt
<1>8. CASE ~(row[t].issue = 0 /\ row[t].item # NoItem)
  <2>1. queue' = [queue EXCEPT ![t] = queue[t]]
    BY <1>1, <1>2, <1>8
  <2>2. Tasked(t, r, queue[t], cards, issues')
    BY <1>2, <1>6 DEF Tasked
  <2>3. Bound(row[t], queue[t], project, cards, Finished(job, t)) =>
          Bound(r, queue[t], project, cards, Finished(job, t))
    BY <1>3 DEF Bound
  <2>4. QED
    BY <1>1, <1>2, <1>3, <1>4, <2>1, <2>2, <2>3, CommandAt
<1>9. QED
  BY <1>7, <1>8

(* rl workspace set-project: a workspace that had no board had no cards.    *)
LEMMA SetProjectStep == ASSUME Inv, NEW p \in Projects, SetProject(p) PROVE Inv'
<1> DEFINE e(t) == Of("AddItem", p, NoItem, "null", row[t].issue)
<1> USE DEF Inv
<1>1. /\ row \in [Tasks -> Row] /\ queue \in [Tasks -> Seq(Mutation)] /\ issues \in Nat /\ job \in Job
      /\ spent \in [DOMAIN Limit -> Nat]
  BY DEF Types
<1>2. /\ ~scrub.running /\ project \in {Detached, p} /\ project' = p
      /\ UNCHANGED <<row, job, scrub, cards, issues, dead, strays>>
      /\ queue' = [t \in Tasks |-> IF Backfilled(t, p) THEN Append(queue[t], e(t)) ELSE queue[t]]
      /\ Spend("commands")
  BY DEF SetProject, Command
<1>3. spent' \in [DOMAIN Limit -> Nat] /\ Budget(spent') = Budget(spent) /\ Budget(spent) \in Nat
  BY <1>1, <1>2, Spends DEF Limit
<1>4. ASSUME NEW t \in Tasks
      PROVE  /\ queue'[t] \in Seq(Mutation) /\ (queue[t] # <<>> => queue'[t] # <<>> /\ Head(queue'[t]) = Head(queue[t]))
             /\ Tasked(t, row[t], queue'[t], cards, issues)
             /\ row[t].item = NoItem \/ queue'[t] = queue[t]
  <2>1. row[t] \in Row /\ queue[t] \in Seq(Mutation) /\ Tasked(t, row[t], queue[t], cards, issues)
    BY <1>1
  <2>2. CASE Backfilled(t, p)
    <3>1. queue'[t] = Append(queue[t], e(t)) /\ row[t].item = NoItem /\ row[t].node
      BY <1>2, <2>2 DEF Backfilled
    <3>2. e(t) \in Mutation /\ e(t).item = NoItem /\ e(t).issue = row[t].issue
      BY <2>1 DEF Of, Mutation, Row
    <3> HIDE DEF e
    <3>3. Anchored(e(t).item, t, cards) /\ e(t).issue <= issues
      BY <2>1, <3>2 DEF Anchored, Tasked
    <3>4. Named(Append(queue[t], e(t)), t, cards, issues)
      BY <2>1, <3>2, <3>3, NamedMore DEF Tasked
    <3>5. /\ Append(queue[t], e(t)) \in Seq(Mutation)
          /\ (queue[t] # <<>> => Append(queue[t], e(t)) # <<>> /\ Head(Append(queue[t], e(t))) = Head(queue[t]))
      BY <2>1, <3>2, Appended
    <3>6. Tasked(t, row[t], queue'[t], cards, issues)
      BY <2>1, <3>1, <3>4 DEF Tasked, Local
    <3>7. QED
      BY <3>1, <3>5, <3>6
  <2>3. CASE ~Backfilled(t, p)
    BY <1>2, <2>1, <2>3
  <2>4. QED
    BY <2>2, <2>3
<1>5. Types'
  <2>1. queue' = [t \in Tasks |-> queue'[t]]
    BY <1>2
  <2>2. queue' \in [Tasks -> Seq(Mutation)]
    BY <1>4, <2>1
  <2>3. QED
    BY <1>2, <1>3, <2>2 DEF Types
<1>6. CardsOK(cards', issues') /\ \A t \in Tasks : Tasked(t, row'[t], queue'[t], cards', issues')
  BY <1>2, <1>4
<1>7. scrub'.running => \A t \in Tasks : Listed(scrub'.listed[t], issues')
  BY <1>2
<1>8. Jobs'
  BY <1>2, <1>4 DEF Jobs
<1>9. Follows'
  <2> SUFFICES ASSUME NEW t \in Tasks \ (dead \cup strays)
               PROVE  Bound(row[t], queue'[t], p, cards, Finished(job, t))
    BY <1>2 DEF Follows
  <2>1. Bound(row[t], queue[t], project, cards, Finished(job, t))
    BY <1>2 DEF Follows
  <2>2. row[t].item = NoItem \/ queue'[t] = queue[t]
    BY <1>4
  <2>3. QED
    BY <1>2, <2>1, <2>2 DEF Bound
<1>10. Drafts'
  <2> SUFFICES ASSUME NEW t \in Tasks
               PROVE  Cardinality(Minted(t, cards)) + Owed(t, scrub) <= Budget(spent) + Drafted(t, row[t], queue'[t], job)
    BY <1>2, <1>3 DEF Drafts
  <2>1. job.task = t /\ job.phase = "back" => queue[t] # <<>>
    BY DEF Jobs
  <2>2. Drafted(t, row[t], queue'[t], job) = Drafted(t, row[t], queue[t], job)
    BY <1>4, <2>1 DEF Drafted
  <2>3. QED
    BY <2>2 DEF Drafts
<1>11. QED
  BY <1>5, <1>6, <1>7, <1>8, <1>9, <1>10

(* A detach begins: what it listed is what the rows were.                   *)
LEMMA DetachBeginStep == ASSUME Inv, DetachBegin PROVE Inv'
<1> USE DEF Inv
<1>1. /\ row \in [Tasks -> Row] /\ issues \in Nat /\ spent \in [DOMAIN Limit -> Nat]
  BY DEF Types
<1>2. /\ ~scrub.running /\ scrub' = [running |-> TRUE, todo |-> Tasks, listed |-> row] /\ Spend("detaches")
      /\ UNCHANGED <<project, row, queue, job, cards, issues, dead, strays>>
  BY DEF DetachBegin
<1>3. spent' \in [DOMAIN Limit -> Nat] /\ Budget(spent') = Budget(spent) + 1 /\ Budget(spent) \in Nat
  BY <1>1, <1>2, Spends DEF Limit
<1>4. Types'
  BY <1>1, <1>2, <1>3 DEF Types
<1>5. CardsOK(cards', issues') /\ (\A t \in Tasks : Tasked(t, row'[t], queue'[t], cards', issues')) /\ Jobs'
  BY <1>2 DEF Jobs
<1>6. \A t \in Tasks : Listed(scrub'.listed[t], issues')
  BY <1>2 DEF Tasked, Local, Listed
<1>7. Follows'
  BY <1>2 DEF Follows
<1>8. Drafts'
  <2> SUFFICES ASSUME NEW t \in Tasks
               PROVE  Cardinality(Minted(t, cards)) + Owed(t, scrub')
                        <= Budget(spent') + Drafted(t, row[t], queue[t], job)
    BY <1>2 DEF Drafts
  <2>1. Owed(t, scrub) = 0 /\ Owed(t, scrub') = 1
    BY <1>2 DEF Owed
  <2>2. Cardinality(Minted(t, cards)) + Owed(t, scrub) <= Budget(spent) + Drafted(t, row[t], queue[t], job)
    BY DEF Drafts
  <2>3. Drafted(t, row[t], queue[t], job) \in Nat
    BY DEF Drafted
  <2>4. Cardinality(Minted(t, cards)) \in Nat
    BY MintedFinite DEF CardsOK
  <2> DEFINE m == Cardinality(Minted(t, cards))
             d == Drafted(t, row[t], queue[t], job)
  <2>5. m \in Nat /\ d \in Nat /\ m + 0 <= Budget(spent) + d
    BY <2>1, <2>2, <2>3, <2>4
  <2> HIDE DEF m, d
  <2>6. m + 1 <= Budget(spent) + 1 + d
    BY <1>3, <2>5
  <2>7. QED
    BY <1>3, <2>1, <2>6 DEF m, d
<1>9. QED
  BY <1>4, <1>5, <1>6, <1>7, <1>8

(* It drops the board: whatever is still anchored there is astray.          *)
LEMMA DetachEndStep == ASSUME Inv, DetachEnd PROVE Inv'
<1> USE DEF Inv
<1>1. /\ scrub.running /\ scrub.todo = {} /\ project' = Detached /\ scrub' = NoScrub
      /\ strays' = {t \in Tasks : row[t].item # NoItem}
      /\ UNCHANGED <<row, queue, job, cards, issues, dead, spent>>
  BY DEF DetachEnd
<1>2. Types'
  BY <1>1 DEF Types, NoScrub
<1>3. CardsOK(cards', issues') /\ (\A t \in Tasks : Tasked(t, row'[t], queue'[t], cards', issues')) /\ Jobs'
  BY <1>1 DEF Jobs
<1>4. ~scrub'.running
  BY <1>1 DEF NoScrub
<1>5. Follows'
  BY <1>1 DEF Follows, Bound
<1>6. Drafts'
  <2>1. \A t \in Tasks : Owed(t, scrub') = Owed(t, scrub)
    BY <1>1, <1>4 DEF Owed
  <2>2. QED
    BY <1>1, <2>1 DEF Drafts
<1>7. QED
  BY <1>2, <1>3, <1>4, <1>5, <1>6

(* What is left when the pending adds of a queue are deleted.               *)
LEMMA WithoutAdds ==
  ASSUME Inv, NEW t \in Tasks
  PROVE  /\ WithoutPendingAdds(t) \in Seq(Mutation)
         /\ \A cs, n : Named(queue[t], t, cs, n) => Named(WithoutPendingAdds(t), t, cs, n)
         /\ queue[t] = <<>> => WithoutPendingAdds(t) = <<>>
         /\ job.task = t /\ queue[t] # <<>> =>
              WithoutPendingAdds(t) # <<>> /\ Head(WithoutPendingAdds(t)) = Head(queue[t])
<1> DEFINE q == queue[t]
           S == {i \in DOMAIN q : (i = 1 /\ job.task = t) \/ q[i].kind # "AddItem"}
           s == OnlyAt(q, S)
<1>1. WithoutPendingAdds(t) = s
  BY DEF WithoutPendingAdds
<1>2. q \in Seq(Mutation)
  BY KnownOf
<1>3. S \in SUBSET DOMAIN q
  OBVIOUS
<1>4. job.task = t /\ q # <<>> => 1 \in S
  BY <1>2, HeadIs
<1> HIDE DEF q, S
<1>5. /\ s \in Seq(Mutation) /\ \A j \in DOMAIN s : \E i \in DOMAIN q : s[j] = q[i]
      /\ 1 \in S => s # <<>> /\ Head(s) = Head(q)
      /\ q = <<>> => s = <<>>
  BY <1>2, <1>3, RowsLeft
<1> HIDE DEF s
<1>6. ASSUME NEW cs, NEW n, Named(q, t, cs, n) PROVE Named(s, t, cs, n)
  <2> SUFFICES ASSUME NEW j \in DOMAIN s PROVE Anchored(s[j].item, t, cs) /\ s[j].issue <= n
    BY DEF Named
  <2>1. PICK i \in DOMAIN q : s[j] = q[i]
    BY <1>5
  <2>2. QED
    BY <1>6, <2>1 DEF Named
<1>7. QED
  BY <1>1, <1>4, <1>5, <1>6 DEF q

(* It visits a task: the item it listed is gone, as is a draft it counted.  *)
LEMMA DetachTaskStep == ASSUME Inv, NEW t \in Tasks, DetachTask(t) PROVE Inv'
<1> DEFINE q == WithoutPendingAdds(t)
           l == scrub.listed[t]
           r == IF l.item # NoItem THEN [l EXCEPT !.item = NoItem] ELSE row[t]
<1>1. /\ row[t] \in Row /\ queue[t] \in Seq(Mutation) /\ row \in [Tasks -> Row] /\ issues \in Nat
      /\ Tasked(t, row[t], queue[t], cards, issues) /\ row = [row EXCEPT ![t] = row[t]]
  BY KnownOf
<1>2. /\ q \in Seq(Mutation) /\ (queue[t] = <<>> => q = <<>>)
      /\ \A cs, n : Named(queue[t], t, cs, n) => Named(q, t, cs, n)
      /\ job.task = t /\ queue[t] # <<>> => q # <<>> /\ Head(q) = Head(queue[t])
  BY WithoutAdds
<1>3. /\ scrub.running /\ t \in scrub.todo /\ queue' = [queue EXCEPT ![t] = q]
      /\ scrub' = [scrub EXCEPT !.todo = @ \ {t}]
      /\ UNCHANGED <<project, job, cards, issues, dead, spent>>
  BY DEF DetachTask
<1>4. l \in Row /\ Listed(l, issues)
  BY <1>3 DEF Inv, Types
<1>5. row' = [row EXCEPT ![t] = r] /\ strays' \subseteq strays
  BY <1>1 DEF DetachTask
<1>6. /\ r \in Row /\ r.item \in {NoItem, row[t].item} /\ r.issue <= issues
      /\ r.sync = "LocalOnly" => r = row[t]
      /\ r.item # NoItem => r = row[t]
  <2>1. CASE l.item # NoItem
    <3>1. r \in Row /\ r.item = NoItem /\ r.issue = l.issue /\ r.sync = l.sync
      BY <1>4, <2>1 DEF Row
    <3>2. QED
      BY <1>4, <2>1, <3>1 DEF Listed
  <2>2. CASE l.item = NoItem
    BY <1>1, <2>2 DEF Tasked
  <2>3. QED
    BY <2>1, <2>2
<1> HIDE DEF q, l, r
<1>7. Tasked(t, r, q, cards, issues)
  BY <1>1, <1>2, <1>6 DEF Tasked, Local, Anchored
<1>8. Jobs'
  <2>1. issues' \in Nat /\ issues <= issues' /\ UNCHANGED <<job, cards>>
    BY <1>1, <1>3
  <2>2. /\ r \in Row /\ q \in Seq(Mutation) /\ row' = [row EXCEPT ![t] = r]
        /\ queue' = [queue EXCEPT ![t] = q] /\ r.item \in {NoItem, row[t].item}
        /\ job.task = t /\ queue[t] # <<>> => q # <<>> /\ Head(q) = Head(queue[t])
    BY <1>2, <1>3, <1>5, <1>6
  <2>3. QED
    BY <2>1, <2>2, KeepsJobs
<1>9. Cardinality(Minted(t, cards')) + Owed(t, scrub') <= Budget(spent') + Drafted(t, r, q, job')
  <2>1. Owed(t, scrub) = 1 /\ Owed(t, scrub') = 0
    BY <1>3 DEF Owed, Inv, Types
  <2>2. Cardinality(Minted(t, cards)) + 1 <= Budget(spent) + Drafted(t, row[t], queue[t], job)
    BY <2>1 DEF Inv, Drafts
  <2>3. Drafted(t, row[t], queue[t], job) \in {0, 1} /\ Drafted(t, r, q, job') \in {0, 1}
    BY DEF Drafted
  <2>4. Cardinality(Minted(t, cards)) \in Nat /\ Budget(spent) \in Nat
    BY MintedFinite, BudgetIs DEF Inv, CardsOK, Types
  <2> DEFINE m == Cardinality(Minted(t, cards))
             d == Drafted(t, row[t], queue[t], job)
             f == Drafted(t, r, q, job')
  <2>5. m \in Nat /\ d \in {0, 1} /\ f \in {0, 1} /\ m + 1 <= Budget(spent) + d
    BY <2>2, <2>3, <2>4
  <2> HIDE DEF m, d, f
  <2>6. m + 0 <= Budget(spent) + f
    BY <2>4, <2>5
  <2>7. QED
    BY <1>3, <2>1, <2>6 DEF m, f
<1>10. /\ job' \in Job /\ job' = job /\ CardsOK(cards', issues') /\ issues' \in Nat /\ issues <= issues'
       /\ DOMAIN cards \subseteq DOMAIN cards' /\ \A c \in DOMAIN cards' : c \in DOMAIN cards /\ cards'[c] = cards[c]
       /\ dead \subseteq dead' /\ dead' \subseteq Tasks /\ strays' \subseteq Tasks
       /\ spent' \in [DOMAIN Limit -> Nat] /\ Budget(spent) <= Budget(spent')
  <2>1. Budget(spent) \in Nat
    BY BudgetIs DEF Inv, Types
  <2>2. QED
    BY <1>1, <1>3, <1>5, <2>1 DEF Inv, Types
<1>11. UNCHANGED project /\ Tasked(t, r, q, cards', issues') /\ scrub' \in {scrub, [scrub EXCEPT !.todo = @ \ {t}]}
  BY <1>3, <1>7
<1>12. job' = job \/ {job.task, job'.task} \subseteq {t, Detached}
  BY <1>10
<1>13. \A c \in DOMAIN cards' : c[2] # t => c \in DOMAIN cards /\ cards'[c] = cards[c]
  BY <1>10
<1>14. /\ scrub.running \/ strays \subseteq strays'
       /\ scrub.running \/ t \in dead' \cup strays' \/ Bound(r, q, project, cards', Finished(job', t))
  BY <1>3
<1>15. row' = [row EXCEPT ![t] = r] /\ queue' = [queue EXCEPT ![t] = q] /\ r \in Row /\ q \in Seq(Mutation)
  BY <1>2, <1>3, <1>5, <1>6
<1>16. QED
  BY <1>8, <1>9, <1>10, <1>11, <1>12, <1>13, <1>14, <1>15, AtTask

-----------------------------------------------------------------------------
(***************************************************************************)
(* The drainer.                                                            *)
(***************************************************************************)

(* The absent item is no item.                                              *)
LEMMA NoItemIsNone == NoItem \notin Items
<1>1. ASSUME NEW p, NEW t, NEW n PROVE <<p, t, n>> # <<>>
  OBVIOUS
<1>2. QED
  BY <1>1 DEF Items, NoItem

(* What is known of the row that is being applied.                          *)
LEMMA EntryIs ==
  ASSUME Inv, job.phase # "idle"
  PROVE  /\ job.task \in Tasks /\ queue[job.task] # <<>> /\ Entry \in Mutation
         /\ Entry = Head(queue[job.task]) /\ Entry = queue[job.task][1] /\ 1 \in DOMAIN queue[job.task]
         /\ Anchored(Entry.item, job.task, cards) /\ Entry.issue <= issues
         /\ Working(job, row[job.task], Entry, cards, issues)
         /\ row[job.task].sync # "LocalOnly"
         /\ Entry.board \in Projects
         /\ Entry.kind \in {"AddItem", "CreateDraftIssue"} => Entry.item = NoItem
         /\ Entry.kind \in {"ConvertDraftToIssue", "SetProjectStatus"} =>
              Entry.item \in DOMAIN cards /\ Entry.item[2] = job.task /\ Entry.item \in Items
<1>1. /\ job.task \in Tasks /\ queue[job.task] # <<>>
      /\ Working(job, row[job.task], Head(queue[job.task]), cards, issues)
  BY DEF Inv, Jobs
<1>2. queue[job.task] \in Seq(Mutation) /\ Tasked(job.task, row[job.task], queue[job.task], cards, issues)
  BY <1>1, KnownOf
<1>3. 1 \in DOMAIN queue[job.task] /\ Entry = queue[job.task][1] /\ Entry \in Mutation
  BY <1>1, <1>2, HeadIs DEF Entry
<1>4. Anchored(Entry.item, job.task, cards) /\ Entry.issue <= issues
  BY <1>2, <1>3 DEF Tasked, Named
<1>5. row[job.task].sync # "LocalOnly"
  BY <1>1, <1>2 DEF Tasked, Local
<1>6. Entry.board \in Projects /\ (Entry.kind \in {"AddItem", "CreateDraftIssue"} => Entry.item = NoItem)
  BY <1>3 DEF Mutation
<1>7. Entry.kind \in {"ConvertDraftToIssue", "SetProjectStatus"} => Entry.item \in Items
  BY <1>3 DEF Mutation
<1>8. QED
  BY <1>1, <1>3, <1>4, <1>5, <1>6, <1>7, NoItemIsNone DEF Entry, Anchored

(* What a call has done to the cards.                                       *)
Called(t, item, number, next, e, cs, ds, m, n) ==
  /\ CardsOK(ds, n) /\ n \in Nat /\ m <= n /\ number \in Nat /\ number <= n
  /\ DOMAIN cs \subseteq DOMAIN ds
  /\ \A c \in DOMAIN ds : c[2] # t => c \in DOMAIN cs /\ ds[c] = cs[c]
  /\ item \in DOMAIN ds /\ item \in Items /\ item[2] = t
  /\ ~IsMove(e) => \A c \in DOMAIN cs : ds[c].column = cs[c].column
  /\ next = "back" => e.kind \in {"AddItem", "CreateDraftIssue", "ConvertDraftToIssue"}
  /\ next = "finish" => IsMove(e) /\ ds[e.item].column = e.option
  /\ IF e.kind = "CreateDraftIssue" THEN Minted(t, ds) \subseteq Minted(t, cs) \cup {item}
     ELSE Minted(t, ds) = Minted(t, cs)

(* A new card.                                                              *)
LEMMA NewCard ==
  ASSUME NEW cs, NEW m \in Nat, CardsOK(cs, m), NEW item \in Items, NEW k \in Card, k.issue <= m, NEW ds,
         ds = [c \in DOMAIN cs \cup {item} |-> IF c \in DOMAIN cs THEN cs[c] ELSE k]
  PROVE  /\ CardsOK(ds, m) /\ DOMAIN ds = DOMAIN cs \cup {item} /\ \A c \in DOMAIN cs : ds[c] = cs[c]
         /\ \A t : Minted(t, ds) \subseteq Minted(t, cs) \cup {item}
         /\ ~k.minted => \A t : Minted(t, ds) = Minted(t, cs)
<1>1. DOMAIN ds = DOMAIN cs \cup {item} /\ (\A c \in DOMAIN cs : ds[c] = cs[c])
  OBVIOUS
<1>2. \A c \in DOMAIN ds : c \in DOMAIN cs \/ (c = item /\ ds[c] = k)
  OBVIOUS
<1>3. IsFiniteSet(DOMAIN ds)
  <2>1. IsFiniteSet(DOMAIN cs)
    BY DEF CardsOK
  <2>2. IsFiniteSet(DOMAIN cs \cup {item})
    BY <2>1, FS_AddElement
  <2>3. QED
    BY <1>1, <2>2
<1>4. CardsOK(ds, m)
  BY <1>1, <1>2, <1>3 DEF CardsOK
<1>5. ASSUME NEW t PROVE Minted(t, ds) \subseteq Minted(t, cs) \cup {item}
  BY <1>1, <1>2 DEF Minted
<1>6. ASSUME ~k.minted, NEW t PROVE Minted(t, ds) = Minted(t, cs)
  BY <1>1, <1>2, <1>6 DEF Minted
<1>7. QED
  BY <1>1, <1>4, <1>5, <1>6

(* A card that changes, but not in how it began.                            *)
LEMMA ChangedCard ==
  ASSUME NEW cs, NEW m \in Nat, NEW n \in Nat, m <= n, CardsOK(cs, m), NEW i \in DOMAIN cs, NEW k \in Card,
         k.issue <= n, k.minted = cs[i].minted, NEW ds,
         DOMAIN ds = DOMAIN cs, ds[i] = k, \A c \in DOMAIN cs : c # i => ds[c] = cs[c]
  PROVE  CardsOK(ds, n) /\ \A t : Minted(t, ds) = Minted(t, cs)
<1>1. DOMAIN ds = DOMAIN cs /\ ds[i] = k /\ \A c \in DOMAIN cs : c # i => ds[c] = cs[c]
  OBVIOUS
<1>2. ASSUME NEW c \in DOMAIN cs PROVE ds[c] \in Card /\ ds[c].issue <= n
  <2>1. cs[c] \in Card /\ cs[c].issue <= m
    BY DEF CardsOK
  <2>2. cs[c].issue \in Nat
    BY <2>1 DEF Card
  <2>3. QED
    BY <1>1, <2>1, <2>2
<1>3. CardsOK(ds, n)
  BY <1>1, <1>2 DEF CardsOK
<1>4. ASSUME NEW t PROVE Minted(t, ds) = Minted(t, cs)
  BY <1>1 DEF Minted
<1>5. QED
  BY <1>1, <1>3, <1>4

(* The four calls.                                                          *)
LEMMA EffectIs ==
  ASSUME Inv, job.phase = "call", NEW item \in Candidates, NEW number \in {0, issues + 1},
         NEW next \in {"back", "finish"}, Effect(item, number, next)
  PROVE  Called(job.task, item, number, next, Entry, cards, cards', issues, issues')
<1> DEFINE t == job.task
           n == Cardinality(Ids)
<1>1. /\ t \in Tasks /\ Entry \in Mutation /\ Entry.issue <= issues /\ Entry.board \in Projects
      /\ Entry.kind \in {"ConvertDraftToIssue", "SetProjectStatus"} =>
           Entry.item \in DOMAIN cards /\ Entry.item[2] = t /\ Entry.item \in Items
  BY EntryIs
<1>2. CardsOK(cards, issues) /\ issues \in Nat
  BY DEF Inv, Types
<1>3. n \in Nat /\ Entry.issue \in Nat
  <2>1. IsFiniteSet(Ids)
    BY <1>2 DEF CardsOK, Ids
  <2>2. QED
    BY <1>1, <2>1, FS_CardinalityType DEF Mutation
<1> HIDE DEF n
<1>4. <<Entry.board, t, n>> \in Items /\ <<Entry.board, t, n>>[2] = t
  BY <1>1, <1>3 DEF Items
<1>5. ASSUME Entry.kind = "AddItem", AddItem(item), number = 0, next = "back"
      PROVE  Called(t, item, number, next, Entry, cards, cards', issues, issues')
  <2>1. issues' = issues
    BY <1>5 DEF AddItem
  <2>2. CASE CardOf(t, Entry.board, Entry.issue) # {}
    <3>1. item \in DOMAIN cards /\ item[2] = t /\ cards' = cards
      BY <1>5, <2>2 DEF AddItem, CardOf, Ids
    <3>2. item \in Items
      BY <1>2, <3>1 DEF CardsOK
    <3>3. QED
      BY <1>2, <1>5, <2>1, <3>1, <3>2 DEF Called
  <2>3. CASE CardOf(t, Entry.board, Entry.issue) = {}
    <3> DEFINE k == [column |-> "null", issue |-> Entry.issue, minted |-> FALSE]
    <3>1. /\ item = <<Entry.board, t, n>>
          /\ cards' = [c \in DOMAIN cards \cup {item} |-> IF c \in DOMAIN cards THEN cards[c] ELSE k]
      BY <1>5, <2>3 DEF AddItem, Ids, n
    <3>2. k \in Card /\ k.issue <= issues /\ ~k.minted
      BY <1>1, <1>3 DEF Card
    <3>3. item \in Items /\ item[2] = t
      BY <1>4, <3>1
    <3> HIDE DEF k
    <3>4. /\ CardsOK(cards', issues) /\ DOMAIN cards' = DOMAIN cards \cup {item}
          /\ \A c \in DOMAIN cards : cards'[c] = cards[c]
          /\ Minted(t, cards') = Minted(t, cards)
      BY <1>2, <3>1, <3>2, <3>3, NewCard
    <3>5. QED
      BY <1>2, <1>5, <2>1, <3>3, <3>4 DEF Called
  <2>4. QED
    BY <2>2, <2>3
<1>6. ASSUME Entry.kind = "CreateDraftIssue", CreateDraftIssue(item), number = 0, next = "back"
      PROVE  Called(t, item, number, next, Entry, cards, cards', issues, issues')
  <2> DEFINE k == [column |-> "null", issue |-> 0, minted |-> TRUE]
  <2>1. /\ item = <<Entry.board, t, n>> /\ issues' = issues
        /\ cards' = [c \in DOMAIN cards \cup {item} |-> IF c \in DOMAIN cards THEN cards[c] ELSE k]
    BY <1>6 DEF CreateDraftIssue, Ids, n
  <2>2. k \in Card /\ k.issue <= issues
    BY <1>2 DEF Card
  <2>3. item \in Items /\ item[2] = t
    BY <1>4, <2>1
  <2> HIDE DEF k
  <2>4. /\ CardsOK(cards', issues) /\ DOMAIN cards' = DOMAIN cards \cup {item}
        /\ \A c \in DOMAIN cards : cards'[c] = cards[c]
        /\ Minted(t, cards') \subseteq Minted(t, cards) \cup {item}
    BY <1>2, <2>1, <2>2, <2>3, NewCard
  <2>5. QED
    BY <1>2, <1>6, <2>1, <2>3, <2>4 DEF Called
<1>7. ASSUME Entry.kind = "ConvertDraftToIssue", ConvertDraftIssueItem, item = Entry.item, number = issues',
             next = "back"
      PROVE  Called(t, item, number, next, Entry, cards, cards', issues, issues')
  <2> DEFINE k == [cards[item] EXCEPT !.issue = issues']
  <2>1. issues' = issues + 1 /\ cards' = [cards EXCEPT ![item] = k]
    BY <1>7 DEF ConvertDraftIssueItem
  <2>2. issues' \in Nat /\ issues <= issues' /\ issues' <= issues'
    BY <1>2, <2>1
  <2>3. item \in DOMAIN cards /\ item[2] = t /\ item \in Items /\ cards[item] \in Card
    BY <1>1, <1>2, <1>7 DEF CardsOK
  <2>4. k \in Card /\ k.issue = issues' /\ k.minted = cards[item].minted /\ k.column = cards[item].column
    BY <2>2, <2>3 DEF Card
  <2> HIDE DEF k
  <2>5. k.issue <= issues'
    BY <2>2, <2>4
  <2>6. /\ CardsOK(cards', issues') /\ DOMAIN cards' = DOMAIN cards /\ cards'[item] = k
        /\ \A c \in DOMAIN cards : c # item => cards'[c] = cards[c]
        /\ Minted(t, cards') = Minted(t, cards)
    <3>1. DOMAIN cards' = DOMAIN cards /\ cards'[item] = k /\ \A c \in DOMAIN cards : c # item => cards'[c] = cards[c]
      BY <2>1, <2>3
    <3>2. CardsOK(cards', issues') /\ \A u : Minted(u, cards') = Minted(u, cards)
      BY <1>2, <2>2, <2>3, <2>4, <2>5, <3>1, ChangedCard
    <3>3. QED
      BY <3>1, <3>2
  <2>7. \A c \in DOMAIN cards : cards'[c].column = cards[c].column
    BY <2>4, <2>6
  <2>8. QED
    BY <1>7, <2>2, <2>3, <2>6, <2>7 DEF Called
<1>8. ASSUME Entry.kind = "SetProjectStatus", SetSingleSelectOption, item = Entry.item, number = 0, next = "finish"
      PROVE  Called(t, item, number, next, Entry, cards, cards', issues, issues')
  <2> DEFINE k == [cards[item] EXCEPT !.column = Entry.option]
  <2>1. issues' = issues /\ cards' = [cards EXCEPT ![item] = k]
    BY <1>8 DEF SetSingleSelectOption
  <2>2. item \in DOMAIN cards /\ item[2] = t /\ item \in Items /\ cards[item] \in Card /\ cards[item].issue <= issues
    BY <1>1, <1>2, <1>8 DEF CardsOK
  <2>3. Entry.option \in {"todo", "done"}
    BY <1>1, <1>8 DEF Mutation
  <2>4. k \in Card /\ k.issue <= issues /\ k.minted = cards[item].minted /\ k.column = Entry.option
    BY <2>2, <2>3 DEF Card
  <2> HIDE DEF k
  <2>5. /\ CardsOK(cards', issues) /\ DOMAIN cards' = DOMAIN cards /\ cards'[item] = k
        /\ \A c \in DOMAIN cards : c # item => cards'[c] = cards[c]
        /\ Minted(t, cards') = Minted(t, cards)
    <3>1. DOMAIN cards' = DOMAIN cards /\ cards'[item] = k /\ \A c \in DOMAIN cards : c # item => cards'[c] = cards[c]
      BY <2>1, <2>2
    <3>2. issues <= issues
      BY <1>2
    <3>3. CardsOK(cards', issues) /\ \A u : Minted(u, cards') = Minted(u, cards)
      BY <1>2, <2>2, <2>4, <3>1, <3>2, ChangedCard
    <3>4. QED
      BY <3>1, <3>3
  <2>6. IsMove(Entry) /\ Entry.kind # "CreateDraftIssue" /\ cards'[Entry.item].column = Entry.option
    BY <1>8, <2>4, <2>5 DEF IsMove
  <2>7. QED
    BY <1>2, <1>8, <2>1, <2>2, <2>5, <2>6 DEF Called
<1>9. QED
  BY <1>5, <1>6, <1>7, <1>8 DEF Effect

(* A step of the drainer that leaves the cards alone.                       *)
LEMMA DrainAt ==
  ASSUME Inv, NEW t \in Tasks, NEW r \in Row, NEW q \in Seq(Mutation),
         row' = [row EXCEPT ![t] = r], queue' = [queue EXCEPT ![t] = q],
         UNCHANGED <<project, scrub, cards, issues>>,
         job' \in Job, {job.task, job'.task} \subseteq {t, Detached},
         dead \subseteq dead', dead' \subseteq Tasks, strays \subseteq strays', strays' \subseteq Tasks,
         spent' \in [DOMAIN Limit -> Nat], Tasked(t, r, q, cards, issues),
         \/ job' = Idle
         \/ job'.task = t /\ job'.phase # "idle" /\ q # <<>> /\ Working(job', r, Head(q), cards, issues),
         \/ scrub.running \/ t \in dead' \cup strays'
         \/ Bound(r, q, project, cards, Finished(job', t)),
         Budget(spent) <= Budget(spent'),
         Budget(spent) + Drafted(t, row[t], queue[t], job) <= Budget(spent') + Drafted(t, r, q, job')
  PROVE  Inv'
<1>1. /\ row[t] \in Row /\ queue[t] \in Seq(Mutation) /\ row \in [Tasks -> Row]
      /\ queue \in [Tasks -> Seq(Mutation)] /\ issues \in Nat /\ CardsOK(cards, issues)
  BY KnownOf DEF Inv
<1>2. row'[t] = r /\ queue'[t] = q
  BY <1>1
<1>3. project' = project /\ scrub' = scrub /\ cards' = cards /\ issues' = issues
  OBVIOUS
<1>4. Jobs'
  BY <1>2, <1>3 DEF Jobs, Idle
<1> DEFINE m == Cardinality(Minted(t, cards)) + Owed(t, scrub)
           d == Drafted(t, row[t], queue[t], job)
           f == Drafted(t, r, q, job')
<1>5. m \in Nat /\ d \in Nat /\ f \in Nat /\ Budget(spent) \in Nat /\ Budget(spent') \in Nat
  <2>1. Cardinality(Minted(t, cards)) \in Nat /\ Budget(spent) \in Nat /\ Budget(spent') \in Nat
    BY MintedFinite, BudgetIs DEF Inv, CardsOK, Types
  <2>2. d \in Nat /\ f \in Nat /\ Owed(t, scrub) \in Nat
    BY DEF Drafted, Owed
  <2> HIDE DEF d, f
  <2>3. QED
    BY <2>1, <2>2
<1>6. m <= Budget(spent) + d
  BY DEF Inv, Drafts
<1> HIDE DEF m, d, f
<1>7. d <= 1 /\ f <= 1 /\ Budget(spent) + d <= Budget(spent') + f
  BY DEF Drafted, d, f
<1>8. m <= Budget(spent') + f
  BY <1>5, <1>6, <1>7
<1>9. Cardinality(Minted(t, cards')) + Owed(t, scrub') <= Budget(spent') + Drafted(t, r, q, job')
  BY <1>3, <1>8 DEF m, f
<1>10. /\ UNCHANGED project /\ scrub' \in {scrub, [scrub EXCEPT !.todo = @ \ {t}]}
       /\ CardsOK(cards', issues') /\ issues' \in Nat /\ issues <= issues' /\ DOMAIN cards \subseteq DOMAIN cards'
       /\ \A c \in DOMAIN cards' : c[2] # t => c \in DOMAIN cards /\ cards'[c] = cards[c]
       /\ Tasked(t, r, q, cards', issues')
       /\ scrub.running \/ strays \subseteq strays'
       /\ \/ scrub.running \/ t \in dead' \cup strays'
          \/ Bound(r, q, project, cards', Finished(job', t))
  BY <1>1, <1>3
<1>11. job' = job \/ {job.task, job'.task} \subseteq {t, Detached}
  OBVIOUS
<1>12. QED
  BY <1>4, <1>9, <1>10, <1>11, AtTask

(* What is known of the drainer's task.                                     *)
LEMMA AtWork ==
  ASSUME Inv, job.phase # "idle"
  PROVE  /\ job \in Job /\ job.task \in Tasks /\ job.task # Detached
         /\ row[job.task] \in Row /\ queue[job.task] \in Seq(Mutation) /\ queue[job.task] # <<>>
         /\ row \in [Tasks -> Row] /\ queue \in [Tasks -> Seq(Mutation)]
         /\ Tasked(job.task, row[job.task], queue[job.task], cards, issues)
         /\ row = [row EXCEPT ![job.task] = row[job.task]]
         /\ queue = [queue EXCEPT ![job.task] = queue[job.task]]
         /\ dead \subseteq Tasks /\ strays \subseteq Tasks /\ issues \in Nat
         /\ spent \in [DOMAIN Limit -> Nat] /\ Budget(spent) \in Nat
         /\ \/ scrub.running \/ job.task \in dead \cup strays
            \/ Bound(row[job.task], queue[job.task], project, cards, Finished(job, job.task))
<1>1. job.task \in Tasks /\ queue[job.task] # <<>>
  BY EntryIs
<1>2. /\ row[job.task] \in Row /\ queue[job.task] \in Seq(Mutation)
      /\ row \in [Tasks -> Row] /\ queue \in [Tasks -> Seq(Mutation)] /\ issues \in Nat
      /\ Tasked(job.task, row[job.task], queue[job.task], cards, issues)
      /\ row = [row EXCEPT ![job.task] = row[job.task]]
      /\ queue = [queue EXCEPT ![job.task] = queue[job.task]]
  BY <1>1, KnownOf
<1>3. /\ job \in Job /\ dead \subseteq Tasks /\ strays \subseteq Tasks /\ spent \in [DOMAIN Limit -> Nat]
      /\ Budget(spent) \in Nat
  BY BudgetIs DEF Inv, Types
<1>4. \/ scrub.running \/ job.task \in dead \cup strays
      \/ Bound(row[job.task], queue[job.task], project, cards, Finished(job, job.task))
  BY <1>1 DEF Inv, Follows
<1>5. job.task # Detached
  BY <1>1, BoardConstants
<1>6. QED
  BY <1>1, <1>2, <1>3, <1>4, <1>5

(* An idle drainer claims a row.                                            *)
LEMMA ApplyStep == ASSUME Inv, NEW t \in Tasks, Apply(t) PROVE Inv'
<1> DEFINE h == Head(queue[t])
<1>1. /\ row[t] \in Row /\ queue[t] \in Seq(Mutation) /\ issues \in Nat
      /\ Tasked(t, row[t], queue[t], cards, issues)
      /\ queue = [queue EXCEPT ![t] = queue[t]] /\ row = [row EXCEPT ![t] = row[t]]
  BY KnownOf
<1>2. /\ job = Idle /\ queue[t] # <<>>
      /\ UNCHANGED <<project, row, queue, scrub, cards, issues, dead, strays, spent>>
  BY DEF Apply
<1>3. /\ dead \subseteq Tasks /\ strays \subseteq Tasks /\ spent \in [DOMAIN Limit -> Nat] /\ Budget(spent) \in Nat
      /\ t # Detached
  BY BudgetIs, BoardConstants DEF Inv, Types
<1>4. row[t].item \in {NoItem} \cup Items /\ h \in Mutation
  BY <1>1, <1>2, HeadIs DEF Row, Items
<1>5. /\ job' \in Job /\ job'.task = t /\ job'.phase \in {"call", "follow", "finish"}
      /\ Working(job', row[t], h, cards, issues) /\ (job'.phase = "finish" => h.kind = "ConvertDraftToIssue")
  <2>1. CASE h.kind = "CreateDraftIssue" /\ row[t].item # NoItem
    <3>1. job' = [task |-> t, phase |-> "follow", item |-> row[t].item, issue |-> 0]
      BY <1>2, <2>1 DEF Apply, Idle
    <3>2. job' \in Job
      BY <1>4, <3>1 DEF Job, Phases
    <3>3. row[t].item \in DOMAIN cards /\ row[t].item[2] = t
      BY <1>1, <2>1 DEF Tasked, Anchored
    <3>4. QED
      BY <2>1, <3>1, <3>2, <3>3 DEF Working, Anchored
  <2>2. CASE h.kind = "ConvertDraftToIssue" /\ row[t].node
    <3>1. job' = [task |-> t, phase |-> "finish", item |-> NoItem, issue |-> 0]
      BY <1>2, <2>2 DEF Apply, Idle
    <3>2. job' \in Job
      BY <3>1 DEF Job, Phases
    <3>3. QED
      BY <2>2, <3>1, <3>2 DEF Working
  <2>3. CASE /\ ~(h.kind = "CreateDraftIssue" /\ row[t].item # NoItem)
             /\ ~(h.kind = "ConvertDraftToIssue" /\ row[t].node)
    <3>1. job' = [task |-> t, phase |-> "call", item |-> NoItem, issue |-> 0]
      BY <1>2, <2>3 DEF Apply, Idle
    <3>2. job' \in Job
      BY <3>1 DEF Job, Phases
    <3>3. QED
      BY <2>3, <3>1, <3>2 DEF Working
  <2>4. QED
    BY <2>1, <2>2, <2>3
<1>6. scrub.running \/ t \in dead \cup strays \/ Bound(row[t], queue[t], project, cards, Finished(job', t))
  <2>1. scrub.running \/ t \in dead \cup strays \/ Bound(row[t], queue[t], project, cards, Finished(job, t))
    BY DEF Inv, Follows
  <2>2. Finished(job', t) => h.kind = "ConvertDraftToIssue"
    BY <1>5 DEF Finished
  <2>3. \A p : WillFollow(queue[t], p, Finished(job, t)) => WillFollow(queue[t], p, Finished(job', t))
    BY <2>2 DEF WillFollow, IsAdding
  <2>4. QED
    BY <2>1, <2>3 DEF Bound
<1>7. Drafted(t, row[t], queue[t], job') = Drafted(t, row[t], queue[t], job)
  BY <1>2, <1>3, <1>5 DEF Drafted, Idle
<1>8. /\ {job.task, job'.task} \subseteq {t, Detached} /\ UNCHANGED <<project, scrub, cards, issues>>
      /\ row' = [row EXCEPT ![t] = row[t]] /\ queue' = [queue EXCEPT ![t] = queue[t]]
      /\ dead \subseteq dead' /\ dead' \subseteq Tasks /\ strays \subseteq strays' /\ strays' \subseteq Tasks
      /\ spent' \in [DOMAIN Limit -> Nat] /\ Budget(spent) <= Budget(spent')
  BY <1>1, <1>2, <1>3, <1>5 DEF Idle
<1>9. Budget(spent) + Drafted(t, row[t], queue[t], job) <= Budget(spent') + Drafted(t, row[t], queue[t], job')
  <2>1. Drafted(t, row[t], queue[t], job) \in Nat
    BY DEF Drafted
  <2> DEFINE d == Drafted(t, row[t], queue[t], job)
  <2>2. d \in Nat /\ Drafted(t, row[t], queue[t], job') = d /\ Budget(spent') = Budget(spent)
    BY <1>2, <1>7, <2>1
  <2> HIDE DEF d
  <2>3. QED
    BY <1>3, <2>2 DEF d
<1>10. scrub.running \/ t \in dead' \cup strays' \/ Bound(row[t], queue[t], project, cards, Finished(job', t))
  BY <1>2, <1>6
<1>11. job'.task = t /\ job'.phase # "idle" /\ queue[t] # <<>> /\ Working(job', row[t], Head(queue[t]), cards, issues)
  BY <1>2, <1>5
<1>12. QED
  BY <1>1, <1>5, <1>8, <1>9, <1>10, <1>11, DrainAt

(* A call moves no card but the one whose move it applies.                  *)
LEMMA CalledBound ==
  ASSUME Inv, job.phase = "call", NEW item, NEW number, NEW next, NEW ds, NEW n,
         Called(job.task, item, number, next, Entry, cards, ds, issues, n),
         NEW p, NEW done, Bound(row[job.task], queue[job.task], p, cards, done)
  PROVE  Bound(row[job.task], queue[job.task], p, ds, done)
<1> DEFINE t == job.task
           want == Column[p][row[t].open]
<1>1. Entry = queue[t][1] /\ 1 \in DOMAIN queue[t]
  BY EntryIs
<1>2. Tasked(t, row[t], queue[t], cards, issues)
  BY AtWork
<1>3. ASSUME row[t].item # NoItem, Rests(queue[t], row[t].item, want, cards)
      PROVE  Rests(queue[t], row[t].item, want, ds)
  <2>1. ~IsMove(Entry)
    BY <1>1, <1>3 DEF Rests
  <2>2. row[t].item \in DOMAIN cards
    BY <1>2, <1>3 DEF Tasked, Anchored
  <2>3. ds[row[t].item].column = cards[row[t].item].column
    BY <2>1, <2>2 DEF Called
  <2>4. QED
    BY <1>3, <2>3 DEF Rests
<1>4. QED
  BY <1>3 DEF Bound

(* It makes one draft at most.                                              *)
LEMMA CalledDrafts ==
  ASSUME Inv, job.phase = "call", NEW item, NEW number, NEW next, NEW ds, NEW n,
         Called(job.task, item, number, next, Entry, cards, ds, issues, n)
  PROVE  /\ Cardinality(Minted(job.task, cards)) \in Nat /\ Cardinality(Minted(job.task, ds)) \in Nat
         /\ Cardinality(Minted(job.task, ds))
              <= Cardinality(Minted(job.task, cards)) + (IF Entry.kind = "CreateDraftIssue" THEN 1 ELSE 0)
<1> DEFINE t == job.task
<1>1. IsFiniteSet(DOMAIN cards)
  BY DEF Inv, CardsOK
<1>2. Cardinality(Minted(t, cards)) \in Nat
  BY <1>1, MintedFinite
<1>3. CASE Entry.kind = "CreateDraftIssue"
  <2>1. Minted(t, ds) \subseteq Minted(t, cards) \cup {item}
    BY <1>3 DEF Called
  <2>2. QED
    BY <1>1, <1>2, <1>3, <2>1, OneMore
<1>4. CASE Entry.kind # "CreateDraftIssue"
  <2>1. Minted(t, ds) = Minted(t, cards)
    BY <1>4 DEF Called
  <2> DEFINE m == Cardinality(Minted(t, cards))
  <2>2. m \in Nat /\ Cardinality(Minted(t, ds)) = m
    BY <1>2, <2>1
  <2> HIDE DEF m
  <2>3. m <= m + 0
    BY <2>2
  <2>4. QED
    BY <1>4, <2>2, <2>3 DEF m
<1>5. QED
  BY <1>3, <1>4

(* The answer of a call.                                                    *)
LEMMA CallStep == ASSUME Inv, Call PROVE Inv'
<1> DEFINE t == job.task
<1>1. job.phase = "call" /\ UNCHANGED <<project, row, queue, scrub, dead, strays, spent>>
  BY DEF Call
<1>2. PICK item \in Candidates, number \in {0, issues + 1}, next \in {"back", "finish"} :
        /\ Effect(item, number, next)
        /\ job' = [job EXCEPT !.phase = next, !.item = item, !.issue = number]
  BY DEF Call
<1>3. Called(t, item, number, next, Entry, cards, cards', issues, issues')
  BY <1>1, <1>2, EffectIs
<1>4. /\ job \in Job /\ t \in Tasks /\ t # Detached /\ row[t] \in Row /\ queue[t] \in Seq(Mutation)
      /\ queue[t] # <<>> /\ Tasked(t, row[t], queue[t], cards, issues)
      /\ row = [row EXCEPT ![t] = row[t]] /\ queue = [queue EXCEPT ![t] = queue[t]]
      /\ dead \subseteq Tasks /\ strays \subseteq Tasks /\ issues \in Nat
      /\ spent \in [DOMAIN Limit -> Nat] /\ Budget(spent) \in Nat
      /\ scrub.running \/ t \in dead \cup strays \/ Bound(row[t], queue[t], project, cards, Finished(job, t))
  BY <1>1, AtWork
<1>5. /\ Entry = Head(queue[t]) /\ Working(job, row[t], Entry, cards, issues)
  BY <1>1, EntryIs
<1>6. /\ CardsOK(cards', issues') /\ issues' \in Nat /\ issues <= issues' /\ DOMAIN cards \subseteq DOMAIN cards'
      /\ \A c \in DOMAIN cards' : c[2] # t => c \in DOMAIN cards /\ cards'[c] = cards[c]
      /\ item \in DOMAIN cards' /\ item \in Items /\ item[2] = t /\ item # NoItem
      /\ number \in Nat /\ number <= issues'
      /\ next = "back" => Entry.kind \in {"AddItem", "CreateDraftIssue", "ConvertDraftToIssue"}
      /\ next = "finish" => IsMove(Entry) /\ cards'[Entry.item].column = Entry.option
  BY <1>3, NoItemIsNone DEF Called
<1>7. /\ job' \in Job /\ job'.task = t /\ job'.phase = next /\ job'.item = item /\ job'.issue = number
  BY <1>2, <1>4, <1>6 DEF Job, Phases
<1>8. Working(job', row[t], Entry, cards', issues')
  <2>1. Entry.kind = "CreateDraftIssue" => row[t].item = NoItem
    BY <1>1, <1>5 DEF Working
  <2>2. Entry.kind = "SetProjectStatus" /\ next = "finish" => cards'[Entry.item].column = Entry.option
    BY <1>6
  <2>3. QED
    BY <1>6, <1>7, <2>1, <2>2 DEF Working, Anchored
<1>9. Jobs'
  BY <1>1, <1>4, <1>5, <1>7, <1>8 DEF Jobs
<1>10. Tasked(t, row[t], queue[t], cards', issues')
  <2>1. /\ row[t] \in Row /\ queue[t] \in Seq(Mutation) /\ Tasked(t, row[t], queue[t], cards, issues)
        /\ issues \in Nat /\ issues' \in Nat /\ issues <= issues' /\ DOMAIN cards \subseteq DOMAIN cards'
    BY <1>4, <1>6
  <2>2. ASSUME NEW u, NEW r \in Row, NEW q \in Seq(Mutation), Tasked(u, r, q, cards, issues)
        PROVE  Tasked(u, r, q, cards', issues')
    BY <2>1, <2>2, NamesLast
  <2>3. QED
    BY <2>1, <2>2
<1>11. scrub.running \/ t \in dead \cup strays \/ Bound(row[t], queue[t], project, cards', Finished(job', t))
  <2>1. scrub.running \/ t \in dead \cup strays \/ Bound(row[t], queue[t], project, cards', Finished(job, t))
    <3>1. Bound(row[t], queue[t], project, cards, Finished(job, t)) =>
            Bound(row[t], queue[t], project, cards', Finished(job, t))
      BY <1>1, <1>3, CalledBound
    <3>2. QED
      BY <1>4, <3>1
  <2>2. Finished(job', t) => IsMove(Head(queue[t]))
    BY <1>5, <1>6, <1>7 DEF Finished
  <2>3. \A p : WillFollow(queue[t], p, Finished(job, t)) => WillFollow(queue[t], p, Finished(job', t))
    BY <2>2 DEF WillFollow, IsAdding, IsMove
  <2>4. QED
    BY <2>1, <2>3 DEF Bound
<1>12. Cardinality(Minted(t, cards')) + Owed(t, scrub') <= Budget(spent') + Drafted(t, row[t], queue[t], job')
  <2> DEFINE m == Cardinality(Minted(t, cards))
             k == Cardinality(Minted(t, cards'))
             d == Drafted(t, row[t], queue[t], job)
             f == Drafted(t, row[t], queue[t], job')
             w == Owed(t, scrub)
             x == IF Entry.kind = "CreateDraftIssue" THEN 1 ELSE 0
  <2>1. m \in Nat /\ k \in Nat /\ k <= m + x
    BY <1>1, <1>3, CalledDrafts
  <2>2. m + w <= Budget(spent) + d
    BY <1>4 DEF Inv, Drafts
  <2>3. d \in Nat /\ f \in Nat /\ w \in Nat /\ x \in Nat
    BY DEF Drafted, Owed
  <2>4. d + x <= f
    <3>1. CASE Entry.kind = "CreateDraftIssue"
      <4>1. row[t].item = NoItem /\ next = "back"
        BY <1>1, <1>5, <1>6, <3>1 DEF Working, IsMove
      <4>2. d = 0 /\ f = 1 /\ x = 1
        BY <1>1, <1>5, <1>7, <3>1, <4>1 DEF Drafted
      <4> HIDE DEF d, f, x
      <4>3. QED
        BY <4>2
    <3>2. CASE Entry.kind # "CreateDraftIssue"
      <4>1. d = f /\ x = 0
        BY <1>1, <1>5, <1>7, <3>2 DEF Drafted
      <4> HIDE DEF d, f, x
      <4>2. QED
        BY <2>3, <4>1
    <3>3. QED
      BY <3>1, <3>2
  <2> HIDE DEF m, k, d, f, w, x
  <2>5. k + w <= Budget(spent) + f
    BY <1>4, <2>1, <2>2, <2>3, <2>4
  <2>6. QED
    BY <1>1, <2>5 DEF k, w, f
<1>13. /\ row' = [row EXCEPT ![t] = row[t]] /\ queue' = [queue EXCEPT ![t] = queue[t]] /\ UNCHANGED project
       /\ job' = job \/ {job.task, job'.task} \subseteq {t, Detached}
       /\ scrub' \in {scrub, [scrub EXCEPT !.todo = @ \ {t}]}
       /\ dead \subseteq dead' /\ dead' \subseteq Tasks /\ strays' \subseteq Tasks
       /\ scrub.running \/ strays \subseteq strays'
       /\ spent' \in [DOMAIN Limit -> Nat] /\ Budget(spent) <= Budget(spent')
  BY <1>1, <1>4, <1>7
<1>14. scrub.running \/ t \in dead' \cup strays' \/ Bound(row[t], queue[t], project, cards', Finished(job', t))
  BY <1>1, <1>11
<1>15. QED
  BY <1>4, <1>6, <1>7, <1>9, <1>10, <1>12, <1>13, <1>14, AtTask

(* A call that erred: its row is tried again, or given up.                  *)
LEMMA RetriedIs ==
  ASSUME Inv, job.phase = "call", Retried
  PROVE  /\ job' = Idle /\ dead \subseteq dead' /\ dead' \subseteq Tasks
         /\ \E q \in Seq(Mutation) :
              /\ queue' = [queue EXCEPT ![job.task] = q]
              /\ \A cs, n : Named(queue[job.task], job.task, cs, n) => Named(q, job.task, cs, n)
              /\ job.task \in dead' \/ Alike(queue[job.task], q)
<1> DEFINE t == job.task
<1>1. /\ t \in Tasks /\ queue[t] \in Seq(Mutation) /\ queue[t] # <<>> /\ dead \subseteq Tasks
  BY AtWork
<1>2. job' = Idle
  BY DEF Retried
<1>3. CASE Entry.attempts + 1 < MaxAttempts
  <2> DEFINE q == [queue[t] EXCEPT ![1].attempts = @ + 1]
  <2>1. q \in Seq(Mutation) /\ Alike(queue[t], q)
    BY <1>1, OnceMore
  <2>2. queue' = [queue EXCEPT ![t] = q] /\ dead' = dead
    BY <1>3 DEF Retried
  <2> HIDE DEF q
  <2>3. \A cs, n : Named(queue[t], t, cs, n) => Named(q, t, cs, n)
    BY <1>1, <2>1, AlikeKeeps
  <2>4. QED
    BY <1>1, <1>2, <2>1, <2>2, <2>3
<1>4. CASE ~(Entry.attempts + 1 < MaxAttempts)
  <2> DEFINE q == Tail(queue[t])
  <2>1. queue' = [queue EXCEPT ![t] = q] /\ dead' = dead \cup {t}
    BY <1>4 DEF Retried
  <2>2. /\ q \in Seq(Mutation) /\ DOMAIN q = 1 .. Len(queue[t]) - 1 /\ Len(queue[t]) \in Nat
        /\ DOMAIN queue[t] = 1 .. Len(queue[t])
        /\ \A i \in 1 .. Len(queue[t]) - 1 : q[i] = queue[t][i + 1]
    BY <1>1, TailIs
  <2> HIDE DEF q
  <2>3. \A i \in DOMAIN q : i + 1 \in DOMAIN queue[t] /\ q[i] = queue[t][i + 1]
    BY <2>2
  <2>4. \A cs, n : Named(queue[t], t, cs, n) => Named(q, t, cs, n)
    BY <2>3 DEF Named
  <2>5. QED
    BY <1>1, <1>2, <2>1, <2>2, <2>4
<1>5. QED
  BY <1>3, <1>4

(* Whatever the call did, if it made a draft then a fault was spent.        *)
LEMMA RetriedStep ==
  ASSUME Inv, job.phase = "call", Retried, UNCHANGED <<project, row, scrub, strays>>,
         spent' \in [DOMAIN Limit -> Nat],
         \/ UNCHANGED <<cards, issues>> /\ Budget(spent) <= Budget(spent')
         \/ /\ \E item, number, next : Called(job.task, item, number, next, Entry, cards, cards', issues, issues')
            /\ Budget(spent') = Budget(spent) + 1
  PROVE  Inv'
<1> DEFINE t == job.task
<1>1. PICK q \in Seq(Mutation) :
        /\ queue' = [queue EXCEPT ![t] = q]
        /\ \A cs, n : Named(queue[t], t, cs, n) => Named(q, t, cs, n)
        /\ t \in dead' \/ Alike(queue[t], q)
  BY RetriedIs
<1>2. job' = Idle /\ dead \subseteq dead' /\ dead' \subseteq Tasks
  BY RetriedIs
<1>3. /\ job \in Job /\ t \in Tasks /\ t # Detached /\ row[t] \in Row /\ queue[t] \in Seq(Mutation)
      /\ queue[t] # <<>> /\ Tasked(t, row[t], queue[t], cards, issues)
      /\ row = [row EXCEPT ![t] = row[t]]
      /\ dead \subseteq Tasks /\ strays \subseteq Tasks /\ issues \in Nat
      /\ spent \in [DOMAIN Limit -> Nat] /\ Budget(spent) \in Nat /\ Budget(spent') \in Nat
      /\ scrub.running \/ t \in dead \cup strays \/ Bound(row[t], queue[t], project, cards, Finished(job, t))
  BY AtWork, BudgetIs
<1>4. /\ job' \in Job /\ {job.task, job'.task} \subseteq {t, Detached} /\ job'.phase = "idle" /\ job'.task # t
  BY <1>2, <1>3 DEF Idle, Job, Phases
<1>5. ~Finished(job, t) /\ ~Finished(job', t)
  BY <1>4 DEF Finished
<1>6. row[t].sync # "LocalOnly"
  BY EntryIs
<1>7. ASSUME NEW ds, Bound(row[t], queue[t], project, ds, Finished(job, t)), t \notin dead'
      PROVE  Bound(row[t], q, project, ds, Finished(job', t))
  <2>1. Alike(queue[t], q)
    BY <1>1, <1>7
  <2>2. /\ \A item, want : Moves(queue[t], item, want) => Moves(q, item, want)
        /\ \A item, want, cs : Rests(queue[t], item, want, cs) => Rests(q, item, want, cs)
        /\ \A p, done : WillFollow(queue[t], p, done) => WillFollow(q, p, done)
    BY <1>3, <2>1, AlikeKeeps
  <2>3. \A p : WillFollow(queue[t], p, Finished(job, t)) => WillFollow(q, p, Finished(job', t))
    BY <1>5, <2>2 DEF WillFollow
  <2>4. QED
    BY <1>7, <2>2, <2>3 DEF Bound
<1>8. Drafted(t, row[t], queue[t], job) = Drafted(t, row[t], q, job')
  BY <1>4 DEF Drafted
<1>9. Tasked(t, row[t], q, cards, issues)
  BY <1>1, <1>3, <1>6 DEF Tasked, Local
<1>10. CASE UNCHANGED <<cards, issues>> /\ Budget(spent) <= Budget(spent')
  <2>1. Budget(spent) + Drafted(t, row[t], queue[t], job) <= Budget(spent') + Drafted(t, row[t], q, job')
    <3> DEFINE d == Drafted(t, row[t], queue[t], job)
    <3>1. d \in Nat /\ Drafted(t, row[t], q, job') = d
      BY <1>8 DEF Drafted
    <3> HIDE DEF d
    <3>2. QED
      BY <1>3, <1>10, <3>1 DEF d
  <2>2. scrub.running \/ t \in dead' \cup strays' \/ Bound(row[t], q, project, cards, Finished(job', t))
    BY <1>2, <1>3, <1>7
  <2>3. /\ UNCHANGED <<project, scrub, cards, issues>> /\ row' = [row EXCEPT ![t] = row[t]]
        /\ strays \subseteq strays' /\ strays' \subseteq Tasks /\ Budget(spent) <= Budget(spent')
    BY <1>3, <1>10
  <2>4. QED
    BY <1>1, <1>2, <1>3, <1>4, <1>9, <2>1, <2>2, <2>3, DrainAt
<1>11. ASSUME NEW item, NEW number, NEW next,
              Called(t, item, number, next, Entry, cards, cards', issues, issues'),
              Budget(spent') = Budget(spent) + 1
       PROVE  Inv'
  <2>1. /\ CardsOK(cards', issues') /\ issues' \in Nat /\ issues <= issues' /\ DOMAIN cards \subseteq DOMAIN cards'
        /\ \A c \in DOMAIN cards' : c[2] # t => c \in DOMAIN cards /\ cards'[c] = cards[c]
    BY <1>11 DEF Called
  <2>2. Tasked(t, row[t], q, cards', issues')
    <3>1. ASSUME NEW u, NEW r \in Row, NEW s \in Seq(Mutation), Tasked(u, r, s, cards, issues)
          PROVE  Tasked(u, r, s, cards', issues')
      BY <1>3, <2>1, <3>1, NamesLast
    <3>2. QED
      BY <1>3, <1>9, <3>1
  <2>3. scrub.running \/ t \in dead' \cup strays' \/ Bound(row[t], q, project, cards', Finished(job', t))
    <3>1. Bound(row[t], queue[t], project, cards, Finished(job, t)) =>
            Bound(row[t], queue[t], project, cards', Finished(job, t))
      BY <1>11, CalledBound
    <3>2. QED
      BY <1>2, <1>3, <1>7, <3>1
  <2>4. Cardinality(Minted(t, cards')) + Owed(t, scrub') <= Budget(spent') + Drafted(t, row[t], q, job')
    <3> DEFINE m == Cardinality(Minted(t, cards))
               k == Cardinality(Minted(t, cards'))
               d == Drafted(t, row[t], queue[t], job)
               w == Owed(t, scrub)
    <3>1. m \in Nat /\ k \in Nat /\ k <= m + 1
      <4> DEFINE x == IF Entry.kind = "CreateDraftIssue" THEN 1 ELSE 0
      <4>1. m \in Nat /\ k \in Nat /\ k <= m + x
        BY <1>11, CalledDrafts
      <4>2. x \in {0, 1}
        OBVIOUS
      <4> HIDE DEF m, k, x
      <4>3. QED
        BY <4>1, <4>2
    <3>2. m + w <= Budget(spent) + d
      BY <1>3 DEF Inv, Drafts
    <3>3. d \in Nat /\ w \in Nat
      BY DEF Drafted, Owed
    <3> HIDE DEF m, k, d, w
    <3>4. k + w <= Budget(spent) + 1 + d
      BY <1>3, <3>1, <3>2, <3>3
    <3>5. QED
      BY <1>8, <1>11, <3>4 DEF k, w, d
  <2>5. /\ row' = [row EXCEPT ![t] = row[t]] /\ UNCHANGED project
        /\ job' = job \/ {job.task, job'.task} \subseteq {t, Detached}
        /\ scrub' \in {scrub, [scrub EXCEPT !.todo = @ \ {t}]}
        /\ strays' \subseteq Tasks /\ (scrub.running \/ strays \subseteq strays')
        /\ Budget(spent) <= Budget(spent')
    BY <1>3, <1>4, <1>11
  <2>6. Jobs'
    BY <1>2, <1>4 DEF Jobs
  <2>7. QED
    BY <1>1, <1>2, <1>3, <1>4, <2>1, <2>2, <2>3, <2>4, <2>5, <2>6, AtTask
<1>12. QED
  BY <1>10, <1>11

(* A call fails, its answer is lost, or GitHub refuses it.                  *)
LEMMA FaultSteps == ASSUME Inv, CallFails \/ AnswerLost \/ Refused PROVE Inv'
<1>1. spent \in [DOMAIN Limit -> Nat] /\ Budget(spent) \in Nat
  BY BudgetIs DEF Inv, Types
<1>2. Spend("faults") => spent' \in [DOMAIN Limit -> Nat] /\ Budget(spent') = Budget(spent) + 1
  BY <1>1, Spends DEF Limit
<1>3. CASE CallFails
  <2>1. /\ job.phase = "call" /\ Retried /\ Spend("faults")
        /\ UNCHANGED <<project, row, scrub, strays>> /\ UNCHANGED <<cards, issues>>
    BY <1>3 DEF CallFails
  <2>2. spent' \in [DOMAIN Limit -> Nat] /\ Budget(spent) <= Budget(spent')
    BY <1>1, <1>2, <2>1
  <2>3. QED
    BY <2>1, <2>2, RetriedStep
<1>4. CASE AnswerLost
  <2>1. job.phase = "call" /\ Retried /\ Spend("faults") /\ UNCHANGED <<project, row, scrub, strays>>
    BY <1>4 DEF AnswerLost
  <2>2. PICK item \in Candidates, number \in {0, issues + 1}, next \in {"back", "finish"} :
          Effect(item, number, next)
    BY <1>4 DEF AnswerLost
  <2>3. Called(job.task, item, number, next, Entry, cards, cards', issues, issues')
    BY <2>1, <2>2, EffectIs
  <2>4. QED
    BY <1>2, <2>1, <2>3, RetriedStep
<1>5. CASE Refused
  <2>1. /\ job.phase = "call" /\ Retried /\ spent' = spent
        /\ UNCHANGED <<project, row, scrub, strays>> /\ UNCHANGED <<cards, issues>>
    BY <1>5 DEF Refused
  <2>2. spent' \in [DOMAIN Limit -> Nat] /\ Budget(spent) <= Budget(spent')
    BY <1>1, <2>1
  <2>3. QED
    BY <2>1, <2>2, RetriedStep
<1>6. QED
  BY <1>3, <1>4, <1>5

(* A follow-up row, where the head is going to make one, excuses no other   *)
(* queue: what remains is a move that is queued or one that was made.       *)
LEMMA WithoutFollowUp ==
  ASSUME NEW r, NEW q, NEW p, NEW cs, NEW done, NEW cond, Bound(r, q, p, cs, cond), ~WillFollow(q, p, cond)
  PROVE  Bound(r, q, p, cs, done)
BY DEF Bound

(* The answer is written to the row: the item of a new card, or the issue.  *)
LEMMA WriteBackStep == ASSUME Inv, WriteBack PROVE Inv'
<1> DEFINE t == job.task
<1>1. job.phase = "back" /\ UNCHANGED <<project, queue, scrub, cards, issues, dead, spent>>
  BY DEF WriteBack
<1>2. /\ job \in Job /\ t \in Tasks /\ t # Detached /\ row[t] \in Row /\ queue[t] \in Seq(Mutation)
      /\ queue[t] # <<>> /\ Tasked(t, row[t], queue[t], cards, issues)
      /\ row = [row EXCEPT ![t] = row[t]] /\ queue = [queue EXCEPT ![t] = queue[t]]
      /\ dead \subseteq Tasks /\ strays \subseteq Tasks /\ issues \in Nat
      /\ spent \in [DOMAIN Limit -> Nat] /\ Budget(spent) \in Nat
      /\ scrub.running \/ t \in dead \cup strays \/ Bound(row[t], queue[t], project, cards, Finished(job, t))
  BY <1>1, AtWork
<1>3. /\ Entry = Head(queue[t]) /\ Working(job, row[t], Entry, cards, issues) /\ Entry.board \in Projects
      /\ row[t].sync # "LocalOnly"
  BY <1>1, EntryIs
<1>4. /\ job.item \in DOMAIN cards /\ job.item[2] = t /\ job.item # NoItem /\ job.issue <= issues
      /\ Entry.kind \in {"AddItem", "CreateDraftIssue", "ConvertDraftToIssue"}
  BY <1>1, <1>3 DEF Working, Anchored
<1>5. job.item \in Items /\ job.issue \in Nat
  BY <1>2, <1>4 DEF Job
<1>6. /\ UNCHANGED <<project, scrub, cards, issues>> /\ queue' = [queue EXCEPT ![t] = queue[t]]
      /\ dead \subseteq dead' /\ dead' \subseteq Tasks /\ dead' = dead
      /\ spent' \in [DOMAIN Limit -> Nat] /\ spent' = spent /\ Budget(spent) <= Budget(spent')
  BY <1>1, <1>2
<1>7. ASSUME NEW ph \in {"finish", "follow"}, job' = [job EXCEPT !.phase = ph]
      PROVE  /\ job' \in Job /\ {job.task, job'.task} \subseteq {t, Detached} /\ job'.task = t
             /\ job'.phase = ph /\ job'.item = job.item /\ job'.issue = job.issue
             /\ Finished(job', t) <=> ph = "finish"
  BY <1>2, <1>7 DEF Job, Phases, Finished
<1>8. ASSUME NEW r \in Row, r.item # NoItem \/ (r.item = row[t].item /\ Entry.kind # "CreateDraftIssue")
      PROVE  Budget(spent) + Drafted(t, row[t], queue[t], job) <= Budget(spent') + Drafted(t, r, queue[t], job')
  <2> DEFINE d == Drafted(t, row[t], queue[t], job)
             f == Drafted(t, r, queue[t], job')
  <2>1. d \in {0, 1} /\ f \in {0, 1}
    BY DEF Drafted
  <2>2. d <= f
    <3>1. CASE r.item # NoItem
      <4>1. f = 1
        BY <3>1 DEF Drafted
      <4> HIDE DEF d, f
      <4>2. QED
        BY <2>1, <4>1
    <3>2. CASE r.item = NoItem
      <4>1. d = 0
        BY <1>3, <1>8, <3>2 DEF Drafted
      <4> HIDE DEF d, f
      <4>2. QED
        BY <2>1, <4>1
    <3>3. QED
      BY <3>1, <3>2
  <2> HIDE DEF d, f
  <2>3. QED
    BY <1>2, <1>6, <2>1, <2>2 DEF d, f
<1>9. CASE Entry.kind = "AddItem" /\ ~WorkspaceStillTargetsProject
  <2>1. job' = [job EXCEPT !.phase = "finish"] /\ row' = row /\ strays' = strays
    BY <1>9 DEF WriteBack
  <2>2. /\ job' \in Job /\ {job.task, job'.task} \subseteq {t, Detached} /\ job'.task = t
        /\ job'.phase = "finish" /\ job'.item = job.item
    BY <1>7, <2>1
  <2>3. Working(job', row[t], Head(queue[t]), cards, issues)
    BY <1>3, <1>4, <1>9, <2>2 DEF Working
  <2>4. scrub.running \/ t \in dead' \cup strays' \/ Bound(row[t], queue[t], project, cards, Finished(job', t))
    <3>1. ~WillFollow(queue[t], project, Finished(job, t))
      BY <1>3, <1>9 DEF WillFollow, WorkspaceStillTargetsProject
    <3>2. QED
      BY <1>2, <1>6, <2>1, <3>1, WithoutFollowUp
  <2>5. Budget(spent) + Drafted(t, row[t], queue[t], job) <= Budget(spent') + Drafted(t, row[t], queue[t], job')
    BY <1>2, <1>8, <1>9
  <2>6. row' = [row EXCEPT ![t] = row[t]] /\ strays \subseteq strays' /\ strays' \subseteq Tasks /\ job'.phase # "idle"
    BY <1>2, <2>1, <2>2
  <2>7. QED
    BY <1>2, <1>6, <2>2, <2>3, <2>4, <2>5, <2>6, DrainAt
<1>10. CASE Entry.kind = "ConvertDraftToIssue"
  <2> DEFINE r == [row[t] EXCEPT !.issue = job.issue, !.node = TRUE]
  <2>1. job' = [job EXCEPT !.phase = "finish"] /\ row' = [row EXCEPT ![t] = r] /\ strays' = strays
    BY <1>2, <1>10 DEF WriteBack
  <2>2. /\ job' \in Job /\ {job.task, job'.task} \subseteq {t, Detached} /\ job'.task = t
        /\ job'.phase = "finish" /\ job'.item = job.item
    BY <1>7, <2>1
  <2>3. /\ r \in Row /\ r.item = row[t].item /\ r.issue = job.issue /\ r.open = row[t].open /\ r.sync = row[t].sync
    BY <1>2, <1>5 DEF Row
  <2> HIDE DEF r
  <2>4. Tasked(t, r, queue[t], cards, issues)
    BY <1>2, <1>3, <1>4, <2>3 DEF Tasked, Local
  <2>5. Working(job', r, Head(queue[t]), cards, issues)
    BY <1>3, <1>4, <1>10, <2>2 DEF Working
  <2>6. scrub.running \/ t \in dead' \cup strays' \/ Bound(r, queue[t], project, cards, Finished(job', t))
    <3>1. ~WillFollow(queue[t], project, Finished(job, t))
      BY <1>3, <1>10 DEF WillFollow, IsAdding
    <3>2. Bound(row[t], queue[t], project, cards, Finished(job, t)) =>
            Bound(r, queue[t], project, cards, Finished(job, t))
      BY <2>3 DEF Bound
    <3>3. QED
      BY <1>2, <1>6, <2>1, <3>1, <3>2, WithoutFollowUp
  <2>7. Budget(spent) + Drafted(t, row[t], queue[t], job) <= Budget(spent') + Drafted(t, r, queue[t], job')
    BY <1>8, <1>10, <2>3
  <2>8. strays \subseteq strays' /\ strays' \subseteq Tasks /\ job'.phase # "idle"
    BY <1>2, <2>1, <2>2
  <2>9. QED
    BY <1>2, <1>6, <2>1, <2>2, <2>3, <2>4, <2>5, <2>6, <2>7, <2>8, DrainAt
<1>11. CASE /\ ~(Entry.kind = "AddItem" /\ ~WorkspaceStillTargetsProject)
            /\ Entry.kind # "ConvertDraftToIssue"
  <2> DEFINE r == [row[t] EXCEPT !.item = job.item]
  <2>1. /\ job' = [job EXCEPT !.phase = "follow"] /\ row' = [row EXCEPT ![t] = r]
        /\ strays' = IF WorkspaceStillTargetsProject THEN strays ELSE strays \cup {t}
    BY <1>2, <1>11 DEF WriteBack
  <2>2. /\ job' \in Job /\ {job.task, job'.task} \subseteq {t, Detached} /\ job'.task = t
        /\ job'.phase = "follow" /\ job'.item = job.item /\ ~Finished(job', t)
    BY <1>7, <2>1
  <2>3. /\ r \in Row /\ r.item = job.item /\ r.issue = row[t].issue /\ r.sync = row[t].sync
    BY <1>2, <1>5 DEF Row, Items
  <2> HIDE DEF r
  <2>4. Tasked(t, r, queue[t], cards, issues)
    BY <1>2, <1>3, <1>4, <2>3 DEF Tasked, Local, Anchored
  <2>5. Working(job', r, Head(queue[t]), cards, issues)
    BY <1>3, <1>4, <1>11, <2>2, <2>3 DEF Working, Anchored
  <2>6. scrub.running \/ t \in dead' \cup strays' \/ Bound(r, queue[t], project, cards, Finished(job', t))
    <3>1. CASE WorkspaceStillTargetsProject
      <4>1. project = Entry.board /\ project # Detached
        BY <1>3, <3>1, BoardConstants DEF WorkspaceStillTargetsProject
      <4>2. WillFollow(queue[t], project, Finished(job', t))
        BY <1>2, <1>3, <1>4, <1>11, <2>2, <4>1 DEF WillFollow, IsAdding
      <4>3. QED
        BY <4>1, <4>2 DEF Bound
    <3>2. CASE ~WorkspaceStillTargetsProject
      BY <2>1, <3>2
    <3>3. QED
      BY <3>1, <3>2
  <2>7. Budget(spent) + Drafted(t, row[t], queue[t], job) <= Budget(spent') + Drafted(t, r, queue[t], job')
    BY <1>4, <1>8, <2>3
  <2>8. strays \subseteq strays' /\ strays' \subseteq Tasks /\ job'.phase # "idle"
    BY <1>2, <2>1, <2>2
  <2>9. QED
    BY <1>2, <1>6, <2>1, <2>2, <2>3, <2>4, <2>5, <2>6, <2>7, <2>8, DrainAt
<1>12. QED
  BY <1>9, <1>10, <1>11

(* The follow-up of a new card is a move to its column on this board.       *)
LEMMA FollowStep == ASSUME Inv, EnqueueStatusFollowUp PROVE Inv'
<1> DEFINE t == job.task
           a == [row[t] EXCEPT !.item = job.item]
           m == SetProjectStatusMutation(project, a)
<1>1. /\ job.phase = "follow" /\ job' = [job EXCEPT !.phase = "finish"]
      /\ UNCHANGED <<project, row, scrub, cards, issues, dead, strays, spent>>
      /\ queue' = IF WorkspaceStillTargetsProject THEN [queue EXCEPT ![t] = queue[t] \o m] ELSE queue
  BY DEF EnqueueStatusFollowUp
<1>2. /\ job \in Job /\ t \in Tasks /\ t # Detached /\ row[t] \in Row /\ queue[t] \in Seq(Mutation)
      /\ queue[t] # <<>> /\ Tasked(t, row[t], queue[t], cards, issues)
      /\ row = [row EXCEPT ![t] = row[t]] /\ queue = [queue EXCEPT ![t] = queue[t]]
      /\ dead \subseteq Tasks /\ strays \subseteq Tasks /\ issues \in Nat
      /\ spent \in [DOMAIN Limit -> Nat] /\ Budget(spent) \in Nat
      /\ scrub.running \/ t \in dead \cup strays \/ Bound(row[t], queue[t], project, cards, Finished(job, t))
  BY <1>1, AtWork
<1>3. /\ Entry = Head(queue[t]) /\ Working(job, row[t], Entry, cards, issues) /\ Entry.board \in Projects
      /\ row[t].sync # "LocalOnly"
  BY <1>1, EntryIs
<1>4. /\ job.item \in DOMAIN cards /\ job.item[2] = t /\ job.item # NoItem
      /\ Entry.kind \in {"AddItem", "CreateDraftIssue"} /\ row[t].item \in {NoItem, job.item}
  BY <1>1, <1>3 DEF Working, Anchored
<1>5. job.item \in Items
  BY <1>2, <1>4 DEF Job
<1>6. /\ job' \in Job /\ {job.task, job'.task} \subseteq {t, Detached} /\ job'.task = t
      /\ job'.phase = "finish" /\ job'.item = job.item
  BY <1>1, <1>2 DEF Job, Phases
<1>7. a.item = job.item /\ a.open = row[t].open /\ a.open \in BOOLEAN
  BY <1>2 DEF Row
<1> HIDE DEF a, m
<1>8. /\ UNCHANGED <<project, scrub, cards, issues>> /\ row' = [row EXCEPT ![t] = row[t]]
      /\ dead \subseteq dead' /\ dead' \subseteq Tasks /\ strays \subseteq strays' /\ strays' \subseteq Tasks
      /\ dead' = dead /\ strays' = strays
      /\ spent' \in [DOMAIN Limit -> Nat] /\ spent' = spent /\ Budget(spent) <= Budget(spent')
  BY <1>1, <1>2
<1>9. ASSUME NEW q \in Seq(Mutation)
      PROVE  Budget(spent) + Drafted(t, row[t], queue[t], job) <= Budget(spent') + Drafted(t, row[t], q, job')
  <2> DEFINE d == Drafted(t, row[t], queue[t], job)
  <2>1. d \in Nat /\ Drafted(t, row[t], q, job') = d
    BY <1>1, <1>6 DEF Drafted
  <2> HIDE DEF d
  <2>2. QED
    BY <1>2, <1>8, <2>1 DEF d
<1>10. \A h \in Mutation : h = Entry => Working(job', row[t], h, cards, issues)
  BY <1>3, <1>4, <1>6 DEF Working
<1>11. Entry \in Mutation
  BY <1>1, EntryIs
<1>12. ASSUME queue' = queue,
              scrub.running \/ t \in dead \cup strays \/ Bound(row[t], queue[t], project, cards, Finished(job', t))
       PROVE  Inv'
  <2>1. queue' = [queue EXCEPT ![t] = queue[t]] /\ job'.phase # "idle"
    BY <1>2, <1>6, <1>12
  <2>2. Working(job', row[t], Head(queue[t]), cards, issues)
    BY <1>3, <1>10, <1>11
  <2>3. scrub.running \/ t \in dead' \cup strays' \/ Bound(row[t], queue[t], project, cards, Finished(job', t))
    BY <1>8, <1>12
  <2>4. Budget(spent) + Drafted(t, row[t], queue[t], job) <= Budget(spent') + Drafted(t, row[t], queue[t], job')
    BY <1>2, <1>9
  <2>5. QED
    BY <1>2, <1>6, <1>8, <2>1, <2>2, <2>3, <2>4, DrainAt
<1>13. CASE ~WorkspaceStillTargetsProject
  <2>1. ~WillFollow(queue[t], project, Finished(job, t))
    BY <1>3, <1>13 DEF WillFollow, WorkspaceStillTargetsProject
  <2>2. Bound(row[t], queue[t], project, cards, Finished(job, t)) =>
          Bound(row[t], queue[t], project, cards, Finished(job', t))
    BY <2>1, WithoutFollowUp
  <2>3. QED
    BY <1>1, <1>2, <1>12, <1>13, <2>2
<1>14. CASE WorkspaceStillTargetsProject
  <2>1. project = Entry.board /\ project \in Projects
    BY <1>3, <1>14 DEF WorkspaceStillTargetsProject
  <2>2. CASE Column[project][a.open] = "null"
    <3>1. m = <<>>
      BY <2>2 DEF m, SetProjectStatusMutation
    <3>2. queue' = queue
      <4>1. queue[t] \o m = queue[t]
        BY <1>2, <3>1
      <4>2. QED
        BY <1>1, <1>2, <1>14, <4>1
    <3>3. Bound(row[t], queue[t], project, cards, Finished(job, t)) =>
            Bound(row[t], queue[t], project, cards, Finished(job', t))
      BY <1>7, <2>2 DEF Bound
    <3>4. QED
      BY <1>2, <1>12, <3>2, <3>3
  <2>3. CASE Column[project][a.open] # "null"
    <3> DEFINE e == Of("SetProjectStatus", project, a.item, Column[project][a.open], 0)
               q == Append(queue[t], e)
    <3>1. m = <<e>>
      BY <2>3 DEF m, SetProjectStatusMutation
    <3>2. Column[project][a.open] \in {"todo", "done"}
      BY <1>7, <2>1, <2>3, BoardConstants
    <3>3. /\ e \in Mutation /\ e.item = job.item /\ e.issue = 0 /\ e.option = Column[project][row[t].open] /\ IsMove(e)
      BY <1>5, <1>7, <2>1, <3>2 DEF Of, Mutation, IsMove
    <3> HIDE DEF e
    <3>4. /\ q \in Seq(Mutation) /\ q # <<>> /\ queue[t] \o <<e>> = q /\ Head(q) = Head(queue[t])
      BY <1>2, <3>3, Appended
    <3>5. queue' = [queue EXCEPT ![t] = q]
      BY <1>1, <1>14, <3>1, <3>4
    <3>6. Anchored(e.item, t, cards) /\ e.issue <= issues
      BY <1>2, <1>4, <3>3 DEF Anchored
    <3>7. Named(q, t, cards, issues)
      BY <1>2, <3>3, <3>6, NamedMore DEF Tasked
    <3>8. Tasked(t, row[t], q, cards, issues)
      BY <1>2, <1>3, <3>7 DEF Tasked, Local
    <3>9. Moves(q, job.item, Column[project][row[t].open])
      BY <1>2, <3>3, AppendedKeeps
    <3>10. Bound(row[t], q, project, cards, Finished(job', t))
      BY <1>4, <2>1, <3>9, BoardConstants DEF Bound
    <3> HIDE DEF q
    <3>11. Working(job', row[t], Head(q), cards, issues) /\ job'.phase # "idle"
      BY <1>3, <1>6, <1>10, <1>11, <3>4
    <3>12. Budget(spent) + Drafted(t, row[t], queue[t], job) <= Budget(spent') + Drafted(t, row[t], q, job')
      BY <1>9, <3>4
    <3>13. QED
      BY <1>2, <1>6, <1>8, <3>4, <3>5, <3>8, <3>10, <3>11, <3>12, DrainAt
  <2>4. QED
    BY <2>2, <2>3
<1>15. QED
  BY <1>13, <1>14

(* A row that is done leaves the queue; if it was the last move, its card   *)
(* is where it should be.                                                   *)
LEMMA SucceededStep == ASSUME Inv, MarkSucceeded PROVE Inv'
<1> DEFINE t == job.task
           q == Tail(queue[t])
<1>1. /\ job.phase = "finish" /\ queue' = [queue EXCEPT ![t] = q] /\ job' = Idle
      /\ UNCHANGED <<project, row, scrub, cards, issues, dead, strays, spent>>
  BY DEF MarkSucceeded
<1>2. /\ job \in Job /\ t \in Tasks /\ t # Detached /\ row[t] \in Row /\ queue[t] \in Seq(Mutation)
      /\ queue[t] # <<>> /\ Tasked(t, row[t], queue[t], cards, issues)
      /\ row = [row EXCEPT ![t] = row[t]]
      /\ dead \subseteq Tasks /\ strays \subseteq Tasks /\ issues \in Nat
      /\ spent \in [DOMAIN Limit -> Nat] /\ Budget(spent) \in Nat
      /\ scrub.running \/ t \in dead \cup strays \/ Bound(row[t], queue[t], project, cards, Finished(job, t))
  BY <1>1, AtWork
<1>3. /\ Entry = Head(queue[t]) /\ Working(job, row[t], Entry, cards, issues) /\ row[t].sync # "LocalOnly"
  BY <1>1, EntryIs
<1>4. /\ q \in Seq(Mutation) /\ DOMAIN q = 1 .. Len(queue[t]) - 1 /\ Len(queue[t]) \in Nat
      /\ DOMAIN queue[t] = 1 .. Len(queue[t])
      /\ \A i \in 1 .. Len(queue[t]) - 1 : q[i] = queue[t][i + 1]
  BY <1>2, TailIs
<1>5. \A i \in DOMAIN q : i + 1 \in DOMAIN queue[t] /\ q[i] = queue[t][i + 1]
  BY <1>4
<1>6. IsMove(Head(queue[t])) => cards[Head(queue[t]).item].column = Head(queue[t]).option
  BY <1>1, <1>3 DEF Working, IsMove
<1>7. \A item, want : Moves(queue[t], item, want) \/ Rests(queue[t], item, want, cards)
                        => Moves(q, item, want) \/ Rests(q, item, want, cards)
  BY <1>2, <1>6, TailKeeps
<1> HIDE DEF q
<1>8. Tasked(t, row[t], q, cards, issues)
  BY <1>2, <1>3, <1>5 DEF Tasked, Named, Local
<1>9. Finished(job, t)
  BY <1>1 DEF Finished
<1>10. ~WillFollow(queue[t], project, Finished(job, t))
  BY <1>9 DEF WillFollow
<1>11. Bound(row[t], queue[t], project, cards, Finished(job, t)) =>
         Bound(row[t], q, project, cards, Finished(job', t))
  BY <1>7, <1>10 DEF Bound
<1>12. job' \in Job /\ {job.task, job'.task} \subseteq {t, Detached} /\ job'.phase = "idle"
  BY <1>1, <1>2 DEF Idle, Job, Phases
<1>13. Budget(spent) + Drafted(t, row[t], queue[t], job) <= Budget(spent') + Drafted(t, row[t], q, job')
  <2> DEFINE d == Drafted(t, row[t], queue[t], job)
  <2>1. d \in Nat /\ Drafted(t, row[t], q, job') = d
    BY <1>1, <1>12 DEF Drafted
  <2> HIDE DEF d
  <2>2. QED
    BY <1>1, <1>2, <2>1 DEF d
<1>14. scrub.running \/ t \in dead' \cup strays' \/ Bound(row[t], q, project, cards, Finished(job', t))
  BY <1>1, <1>2, <1>11
<1>15. /\ UNCHANGED <<project, scrub, cards, issues>> /\ row' = [row EXCEPT ![t] = row[t]]
       /\ dead \subseteq dead' /\ dead' \subseteq Tasks /\ strays \subseteq strays' /\ strays' \subseteq Tasks
       /\ spent' \in [DOMAIN Limit -> Nat] /\ Budget(spent) <= Budget(spent')
  BY <1>1, <1>2
<1>16. QED
  BY <1>1, <1>2, <1>4, <1>8, <1>12, <1>13, <1>14, <1>15, DrainAt

(* A crash forgets what the drainer was doing, at the price of a draft.     *)
LEMMA CrashStep == ASSUME Inv, Crash PROVE Inv'
<1> DEFINE t == job.task
<1>1. /\ job.phase # "idle" /\ job' = Idle /\ Spend("crashes")
      /\ UNCHANGED <<project, row, queue, scrub, cards, issues, dead, strays>>
  BY DEF Crash, Inv, Jobs
<1>2. /\ job \in Job /\ t \in Tasks /\ t # Detached /\ row[t] \in Row /\ queue[t] \in Seq(Mutation)
      /\ queue[t] # <<>> /\ Tasked(t, row[t], queue[t], cards, issues)
      /\ row = [row EXCEPT ![t] = row[t]] /\ queue = [queue EXCEPT ![t] = queue[t]]
      /\ dead \subseteq Tasks /\ strays \subseteq Tasks /\ issues \in Nat
      /\ spent \in [DOMAIN Limit -> Nat] /\ Budget(spent) \in Nat
      /\ scrub.running \/ t \in dead \cup strays \/ Bound(row[t], queue[t], project, cards, Finished(job, t))
  BY <1>1, AtWork
<1>3. job' \in Job /\ {job.task, job'.task} \subseteq {t, Detached} /\ job'.phase = "idle"
  BY <1>1, <1>2 DEF Idle, Job, Phases
<1>4. ~Finished(job', t)
  BY <1>3 DEF Finished
<1>5. Bound(row[t], queue[t], project, cards, Finished(job, t)) =>
        Bound(row[t], queue[t], project, cards, Finished(job', t))
  <2>1. \A p : WillFollow(queue[t], p, Finished(job, t)) => WillFollow(queue[t], p, Finished(job', t))
    BY <1>4 DEF WillFollow
  <2>2. QED
    BY <2>1 DEF Bound
<1>6. spent' \in [DOMAIN Limit -> Nat] /\ Budget(spent') = Budget(spent) + 1
  BY <1>1, <1>2, Spends DEF Limit
<1>7. Budget(spent) + Drafted(t, row[t], queue[t], job) <= Budget(spent') + Drafted(t, row[t], queue[t], job')
  <2> DEFINE d == Drafted(t, row[t], queue[t], job)
             f == Drafted(t, row[t], queue[t], job')
  <2>1. d \in {0, 1} /\ f \in {0, 1}
    BY DEF Drafted
  <2> HIDE DEF d, f
  <2>2. Budget(spent) + d <= Budget(spent') + f
    BY <1>2, <1>6, <2>1
  <2>3. QED
    BY <2>2 DEF d, f
<1>8. /\ UNCHANGED <<project, scrub, cards, issues>> /\ row' = [row EXCEPT ![t] = row[t]]
      /\ queue' = [queue EXCEPT ![t] = queue[t]]
      /\ dead \subseteq dead' /\ dead' \subseteq Tasks /\ strays \subseteq strays' /\ strays' \subseteq Tasks
      /\ Budget(spent) <= Budget(spent')
  BY <1>1, <1>2, <1>6
<1>9. scrub.running \/ t \in dead' \cup strays' \/ Bound(row[t], queue[t], project, cards, Finished(job', t))
  BY <1>1, <1>2, <1>5
<1>10. QED
  BY <1>1, <1>2, <1>3, <1>6, <1>7, <1>8, <1>9, DrainAt

-----------------------------------------------------------------------------
(***************************************************************************)
(* The invariant holds.                                                    *)
(***************************************************************************)

(* The first states have it.                                                *)
LEMMA InvInit == Init => Inv
<1> SUFFICES ASSUME Init PROVE Inv
  OBVIOUS
<1>1. /\ queue = [t \in Tasks |-> <<>>] /\ job = Idle /\ scrub = NoScrub /\ cards = <<>> /\ issues = 1
      /\ dead = {} /\ strays = {} /\ spent = [b \in DOMAIN Limit |-> 0] /\ project \in Projects \cup {Detached}
  BY DEF Init
<1>2. row \in [Tasks -> Row] /\ \A t \in Tasks : /\ row[t].item = NoItem /\ row[t].issue \in {0, 1}
                                                 /\ row[t].sync = "LocalOnly" => row[t].issue = 0 /\ ~row[t].node
  <2> DEFINE First == {r \in [open: {TRUE}, sync: {"LocalOnly", "Synced"}, repo: {FALSE},
                              issue: 0..1, node: BOOLEAN, item: {NoItem}] :
                         /\ (r.sync = "Synced") = (r.issue = 1)
                         /\ r.node => r.issue = 1}
  <2>1. row \in [Tasks -> First]
    BY DEF Init
  <2>2. ASSUME NEW r \in First
        PROVE  /\ r \in Row /\ r.item = NoItem /\ r.issue \in {0, 1}
               /\ r.sync = "LocalOnly" => r.issue = 0 /\ ~r.node
    <3>1. /\ r \in [open: {TRUE}, sync: {"LocalOnly", "Synced"}, repo: {FALSE}, issue: 0..1, node: BOOLEAN,
                     item: {NoItem}]
          /\ (r.sync = "Synced") = (r.issue = 1)
          /\ r.node => r.issue = 1
      BY <2>2 DEF First
    <3>2. /\ r.open = TRUE /\ r.sync \in {"LocalOnly", "Synced"} /\ r.repo = FALSE /\ r.issue \in 0..1
          /\ r.node \in BOOLEAN /\ r.item = NoItem
      BY <3>1
    <3>3. r = [open |-> r.open, sync |-> r.sync, repo |-> r.repo, issue |-> r.issue, node |-> r.node,
               item |-> r.item]
      BY <3>1
    <3>4. r.issue \in Nat /\ r.issue \in {0, 1}
      BY <3>2
    <3>5. r \in Row
      BY <3>2, <3>3, <3>4 DEF Row
    <3>6. r.issue # 1 => r.issue = 0 /\ r.sync # "Synced" /\ ~r.node
      BY <3>1, <3>4
    <3>7. r.issue = 1 => r.sync = "Synced"
      BY <3>1, <3>2
    <3>8. r.sync = "LocalOnly" => r.issue = 0 /\ ~r.node
      BY <3>6, <3>7
    <3> QED
      BY <3>2, <3>4, <3>5, <3>8
  <2> HIDE DEF First
  <2>3. QED
    BY <2>1, <2>2
<1>3. \A t \in Tasks : queue[t] = <<>>
  BY <1>1
<1>4. queue \in [Tasks -> Seq(Mutation)]
  <2>1. <<>> \in Seq(Mutation)
    OBVIOUS
  <2>2. QED
    BY <1>1, <2>1
<1>5. Types
  BY <1>1, <1>2, <1>4 DEF Types, Idle, Job, Phases, NoScrub
<1>6. DOMAIN cards = {}
  BY <1>1
<1>7. CardsOK(cards, issues)
  <2>1. IsFiniteSet({})
    BY FS_EmptySet
  <2>2. QED
    BY <1>6, <2>1 DEF CardsOK
<1>8. ASSUME NEW t \in Tasks PROVE Tasked(t, row[t], queue[t], cards, issues)
  <2>1. Named(queue[t], t, cards, issues)
    BY <1>3 DEF Named
  <2>2. row[t].issue <= issues
    BY <1>1, <1>2
  <2>3. QED
    BY <1>2, <1>3, <2>1, <2>2 DEF Tasked, Anchored, Local
<1>9. ~scrub.running
  BY <1>1 DEF NoScrub
<1>10. Jobs
  BY <1>1 DEF Jobs, Idle
<1>11. Follows
  BY <1>2 DEF Follows, Bound
<1>12. Drafts
  <2> SUFFICES ASSUME NEW t \in Tasks
               PROVE  Cardinality(Minted(t, cards)) + Owed(t, scrub)
                        <= Budget(spent) + Drafted(t, row[t], queue[t], job)
    BY DEF Drafts
  <2>1. Minted(t, cards) = {}
    BY <1>6 DEF Minted
  <2>2. Cardinality(Minted(t, cards)) = 0
    BY <2>1, FS_EmptySet
  <2>3. Owed(t, scrub) = 0 /\ Budget(spent) \in Nat /\ Drafted(t, row[t], queue[t], job) \in Nat
    BY <1>5, <1>9, BudgetIs DEF Owed, Types, Drafted
  <2>4. QED
    BY <2>2, <2>3
<1>13. QED
  BY <1>5, <1>7, <1>8, <1>9, <1>10, <1>11, <1>12 DEF Inv

(* And every step keeps it.                                                 *)
LEMMA InvStep == Inv /\ [Next]_vars => Inv'
<1> SUFFICES ASSUME Inv, [Next]_vars PROVE Inv'
  OBVIOUS
<1>1. CASE UNCHANGED vars
  BY <1>1 DEF vars, Inv, Types, CardsOK, Jobs, Follows, Drafts
<1>2. ASSUME NEW t \in Tasks, StageForSync(t) PROVE Inv'
  BY <1>2, StageStep
<1>3. ASSUME NEW t \in Tasks, TransitionMirror(t) PROVE Inv'
  BY <1>3, TransitionStep
<1>4. ASSUME NEW t \in Tasks, Promote(t) PROVE Inv'
  BY <1>4, PromoteStep
<1>5. ASSUME NEW t \in Tasks, CacheRemoteNodeId(t) PROVE Inv'
  BY <1>5, NodeIdStep
<1>6. ASSUME NEW t \in Tasks, UpdateRepo(t) PROVE Inv'
  BY <1>6, UpdateRepoStep
<1>7. ASSUME NEW p \in Projects, SetProject(p) PROVE Inv'
  BY <1>7, SetProjectStep
<1>8. CASE DetachBegin
  BY <1>8, DetachBeginStep
<1>9. ASSUME NEW t \in Tasks, DetachTask(t) PROVE Inv'
  BY <1>9, DetachTaskStep
<1>10. CASE DetachEnd
  BY <1>10, DetachEndStep
<1>11. ASSUME NEW t \in Tasks, Apply(t) PROVE Inv'
  BY <1>11, ApplyStep
<1>12. CASE Call
  BY <1>12, CallStep
<1>13. CASE CallFails \/ AnswerLost \/ Refused
  BY <1>13, FaultSteps
<1>14. CASE WriteBack
  BY <1>14, WriteBackStep
<1>15. CASE EnqueueStatusFollowUp
  BY <1>15, FollowStep
<1>16. CASE MarkSucceeded
  BY <1>16, SucceededStep
<1>17. CASE Crash
  BY <1>17, CrashStep
<1>18. CASE Commands
  BY <1>2, <1>3, <1>4, <1>5, <1>6, <1>7, <1>8, <1>18 DEF Commands
<1>19. CASE Detach
  BY <1>9, <1>10, <1>19 DEF Detach
<1>20. CASE Drain
  BY <1>11, <1>12, <1>13, <1>14, <1>15, <1>16, <1>20 DEF Drain
<1>21. CASE Faults
  BY <1>13, <1>17, <1>21 DEF Faults
<1>22. QED
  BY <1>1, <1>18, <1>19, <1>20, <1>21 DEF Next

(* So it holds always.                                                      *)
LEMMA InvAlways == Spec => []Inv
BY InvInit, InvStep, PTL DEF Spec

-----------------------------------------------------------------------------
(***************************************************************************)
(* What it implies.                                                        *)
(***************************************************************************)

(* Rows, mutations and cards are well formed.                               *)
LEMMA WellFormed == Inv => TypeOK
<1> SUFFICES ASSUME Inv PROVE TypeOK
  OBVIOUS
<1>1. /\ project \in Projects \cup {Detached} /\ row \in [Tasks -> Row] /\ queue \in [Tasks -> Seq(Mutation)]
      /\ job \in Job /\ dead \subseteq Tasks /\ strays \subseteq Tasks /\ issues \in Nat
  BY DEF Inv, Types
<1>2. \A t \in Tasks : \A i \in DOMAIN queue[t] : queue[t][i] \in Mutation
  BY <1>1, RowsAre
<1>3. job.task \in Tasks \cup {Detached} /\ job.item \in {NoItem} \cup Ids
  BY <1>1 DEF Inv, Jobs, Idle, Working, Job, Ids
<1>4. ASSUME NEW c \in Ids PROVE cards[c].column \in {"null", "todo", "done"} /\ cards[c].issue \in 0..issues
  <2>1. cards[c] \in Card /\ cards[c].issue <= issues
    BY DEF Inv, CardsOK, Ids
  <2>2. QED
    BY <1>1, <2>1 DEF Card
<1>5. QED
  BY <1>1, <1>2, <1>3, <1>4 DEF TypeOK

(* The column of a card at rest follows the task.                           *)
LEMMA Followed == Inv => BoardFollows
<1> SUFFICES ASSUME Inv, NEW t \in Tasks \ (dead \cup strays), row[t].item # NoItem, queue[t] = <<>>,
                    ~scrub.running
             PROVE  Column[project][row[t].open] \in {"null", cards[row[t].item].column}
  BY DEF BoardFollows
<1>1. Bound(row[t], queue[t], project, cards, Finished(job, t))
  BY DEF Inv, Follows
<1>2. DOMAIN queue[t] = {}
  OBVIOUS
<1>3. \A item, want : ~Moves(queue[t], item, want)
  BY <1>2 DEF Moves
<1>4. \A p, done : ~WillFollow(queue[t], p, done)
  BY DEF WillFollow
<1>5. QED
  BY <1>1, <1>3, <1>4 DEF Bound, Rests

(* A task has one draft, and one for each fault, crash and detach.          *)
LEMMA Minters == Inv => OneDraft
<1> SUFFICES ASSUME Inv, NEW t \in Tasks
             PROVE  Cardinality({c \in Ids : c[2] = t /\ cards[c].minted})
                      <= 1 + spent.crashes + spent.faults + spent.detaches
  BY DEF OneDraft
<1> DEFINE m == Cardinality(Minted(t, cards))
           d == Drafted(t, row[t], queue[t], job)
           w == Owed(t, scrub)
<1>1. {c \in Ids : c[2] = t /\ cards[c].minted} = Minted(t, cards)
  BY DEF Ids, Minted
<1>2. m \in Nat /\ Budget(spent) \in Nat
  BY MintedFinite, BudgetIs DEF Inv, CardsOK, Types
<1>3. m + w <= Budget(spent) + d
  BY DEF Inv, Drafts
<1>4. w \in {0, 1} /\ d \in {0, 1}
  BY DEF Owed, Drafted
<1>5. spent.crashes \in Nat /\ spent.faults \in Nat /\ spent.detaches \in Nat
  BY DEF Inv, Types, Limit
<1> HIDE DEF m, d, w
<1>6. m <= 1 + spent.crashes + spent.faults + spent.detaches
  BY <1>2, <1>3, <1>4, <1>5 DEF Budget
<1>7. QED
  BY <1>1, <1>6 DEF m

(* Rows, queued mutations and cards are well formed; when nothing is queued *)
(* or under way for a task, its card is in the column of its lifecycle bit  *)
(* (plan_mutations, enqueue_status_follow_up); and another draft than the   *)
(* first takes a crash, a lost answer or a detach (the drainer's arms).     *)
THEOREM BoardCardsAreSound == Spec => []CardsAreSound
<1>1. Inv => CardsAreSound
  BY WellFormed, Followed, Minters DEF CardsAreSound
<1>2. QED
  BY <1>1, InvAlways, PTL
=============================================================================
