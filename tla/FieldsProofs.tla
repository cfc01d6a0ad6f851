---------------------------- MODULE FieldsProofs ----------------------------
(***************************************************************************)
(* Proofs that hold for every set of tasks, types and options: what Fields *)
(* says of the rows and the board, and that the poller's watermark passes  *)
(* nothing unreconciled when one poll compares every task.                 *)
(***************************************************************************)
EXTENDS Fields, WellFoundedInduction, FiniteSetTheorems, SequenceTheorems, TLAPS

(***************************************************************************)
(* The invariant.                                                          *)
(***************************************************************************)

Entries == [kind : {"prio"}, value : Options, attempts : 0 .. MaxAttempts - 1]
           \cup [kind : {"type"}, value : Types \cup {"null"}, attempts : 0 .. MaxAttempts - 1]
Card == [option : Options, type : Types \cup {"null"}, column : Columns, updated : Nat]
Jobs == {Idle} \cup [phase : {"call", "finish"}, task : Tasks]

(* What a queue says: at most one row for the type, none, and a push of the *)
(* priority from the place f on.                                            *)
Once(q) == \A i, j \in DOMAIN q : q[i].kind = "type" /\ q[j].kind = "type" => i = j
NoType(q) == \A i \in DOMAIN q : q[i].kind # "type"
Ahead(q, f) == \E i \in DOMAIN q : i >= f /\ q[i].kind = "prio"

(* The first row of t that GitHub has not got.                              *)
First(t) == IF job.task = t /\ job.phase = "finish" THEN 2 ELSE 1

(* Rows, the queue and the drainer: its task has a row.                     *)
Rows ==
  /\ row \in [Tasks -> Row] /\ card \in [Tasks -> Card]
  /\ queue \in [Tasks -> Seq(Entries)] /\ job \in Jobs /\ known \subseteq Types
  /\ \A t \in Tasks : job.task = t => queue[t] # <<>>

(* Two edits in a row share one type row, a flag that is down owes nothing, *)
(* and a type that was sent is on the card.                                 *)
TypeRows ==
  /\ \A t \in Tasks : Once(queue[t])
  /\ \A t \in Tasks : ~row[t].pending => row[t].type = card[t].type /\ NoType(queue[t])
  /\ \A t \in Tasks : First(t) = 2 /\ queue[t][1].kind = "type" => card[t].type = queue[t][1].value

(* The watermark is behind the clock, and no card is ahead of it.           *)
Clocks ==
  /\ clock \in Nat /\ mark \in Nat /\ mark < clock
  /\ \A t \in Tasks : 1 <= card[t].updated /\ card[t].updated <= clock

(* The poller's index and page, which are of rows and cards that were.      *)
Polls ==
  /\ poll = [phase |-> poll.phase, index |-> poll.index, page |-> poll.page, todo |-> poll.todo,
             partial |-> poll.partial]
  /\ DOMAIN poll.index \subseteq Tasks /\ DOMAIN poll.page \subseteq Tasks
  /\ \A t \in DOMAIN poll.index : poll.index[t] \in Row
  /\ \A t \in DOMAIN poll.page : poll.page[t] \in Card /\ poll.page[t].updated <= card[t].updated
  /\ poll.todo \subseteq DOMAIN poll.page
  /\ poll.phase = "items" /\ ~poll.partial => DOMAIN poll.page = Tasks

AInv == Rows /\ TypeRows /\ Clocks /\ Polls

(* A priority that the board need not have: one set between a poll's index  *)
(* and page, one dead-lettered, one still to be pushed.                     *)
Excepted(t) == t \in raced \/ (\E o \in Options : <<t, "prio", o>> \in failed) \/ Ahead(queue[t], First(t))

Agrees(t, c) == row[t].column = c.column /\ (Excepted(t) \/ Option[row[t].prio] = c.option)

(* The watermark passes nothing unreconciled: the claim of NothingMissed,   *)
(* with pushes still to come in place of an empty queue.                    *)
Passed == \A t \in Tasks : card[t].updated <= mark => Agrees(t, card[t])

(* A card older than the newest of the page is one that the watermark will  *)
(* pass at the end of this poll.                                            *)
Behind(t) == \E u \in DOMAIN poll.page : card[t].updated < poll.page[u].updated

(* A poll indexed the priority that the row has, unless an edit is known    *)
(* of; it has the card that it may pass, and reconciled items agree.        *)
Indexed == poll.phase \in {"fetch", "items"} => DOMAIN poll.index = Tasks
Fetching ==
  poll.phase = "fetch" =>
    \A t \in DOMAIN poll.index : t \in raced \/ row[t].prio = poll.index[t].prio
Reading ==
  poll.phase = "items" =>
    \A t \in DOMAIN poll.page :
      /\ t \in poll.todo => poll.page[t].updated > mark
      /\ Behind(t) => card[t] = poll.page[t]
      /\ Behind(t) /\ t \in DOMAIN poll.index /\ t \in poll.todo =>
           Excepted(t) \/ row[t].prio = poll.index[t].prio
      /\ Behind(t) /\ t \in DOMAIN poll.index /\ t \notin poll.todo /\ poll.page[t].updated > mark =>
           Agrees(t, poll.page[t])

-----------------------------------------------------------------------------
(* A nonempty set of numbers has a least one.                               *)
LEMMA MinOfNats ==
  ASSUME NEW S \in SUBSET Nat, S # {}
  PROVE  Min(S) \in S /\ \A y \in S : Min(S) <= y
<1> DEFINE R == {s \in Nat \X Nat : s[1] < s[2]}
<1>1. IsWellFoundedOn(R, Nat)
  BY NatLessThanWellFounded DEF OpToRel
<1>2. PICK x \in S : \A y \in S : <<y, x>> \notin R
  BY <1>1, WFMin
<1>3. ASSUME NEW y \in S PROVE x <= y
  <2>1. y \in Nat /\ x \in Nat
    OBVIOUS
  <2>2. <<y, x>> \in Nat \X Nat /\ <<y, x>>[1] = y /\ <<y, x>>[2] = x
    BY <2>1
  <2>3. <<y, x>> \in R <=> y < x
    BY <2>2
  <2>4. <<y, x>> \notin R
    BY <1>2
  <2> HIDE DEF R
  <2>5. QED
    BY <2>1, <2>3, <2>4
<1>4. QED
  BY <1>3 DEF Min

(* A nonempty set of numbers up to a bound has a greatest one.              *)
LEMMA MaxOfNats ==
  ASSUME NEW bound \in Nat, NEW S \in SUBSET (0 .. bound), S # {}
  PROVE  Max(S) \in S /\ \A y \in S : Max(S) >= y
<1> DEFINE D == {bound - x : x \in S}
<1>1. D \in SUBSET Nat /\ D # {}
  <2>1. ASSUME NEW x \in S PROVE bound - x \in Nat
    BY x \in 0 .. bound
  <2>2. PICK x \in S : TRUE
    OBVIOUS
  <2>3. bound - x \in D
    OBVIOUS
  <2>4. QED
    BY <2>1, <2>3
<1>2. Min(D) \in D /\ \A d \in D : Min(D) <= d
  BY <1>1, MinOfNats
<1>3. PICK x \in S : Min(D) = bound - x
  BY <1>2
<1>4. ASSUME NEW y \in S PROVE x >= y
  <2>1. bound - y \in D
    OBVIOUS
  <2>2. y \in Nat /\ x \in Nat
    OBVIOUS
  <2> HIDE DEF D
  <2>3. Min(D) <= bound - y
    BY <1>2, <2>1
  <2>4. QED
    BY <1>3, <2>2, <2>3
<1>5. QED
  BY <1>4 DEF Max
(* A row at the end of a queue: those before it stay where they are.        *)
LEMMA Appended ==
  ASSUME NEW q \in Seq(Entries), NEW e \in Entries
  PROVE  /\ Append(q, e) \in Seq(Entries) /\ Append(q, e) # <<>>
         /\ q # <<>> => Append(q, e)[1] = q[1]
         /\ Once(q) /\ (e.kind = "prio" \/ NoType(q)) => Once(Append(q, e))
         /\ NoType(q) /\ e.kind = "prio" => NoType(Append(q, e))
         /\ \A f \in {1, 2} : Ahead(q, f) => Ahead(Append(q, e), f)
         /\ e.kind = "prio" => Ahead(Append(q, e), 1) /\ (q # <<>> => Ahead(Append(q, e), 2))
<1> DEFINE r == Append(q, e)
<1>1. /\ r \in Seq(Entries) /\ Len(r) = Len(q) + 1 /\ Len(q) \in Nat /\ r[Len(q) + 1] = e
      /\ \A i \in 1 .. Len(q) : r[i] = q[i]
      /\ DOMAIN r = 1 .. Len(q) + 1 /\ DOMAIN q = 1 .. Len(q)
  OBVIOUS
<1>2. q # <<>> => Len(q) >= 1
  BY <1>1
<1> HIDE DEF r
<1>3. r # <<>>
  BY <1>1
<1>4. \A i \in DOMAIN r : i = Len(q) + 1 \/ i \in 1 .. Len(q)
  BY <1>1
<1>5. \A i \in 1 .. Len(q) : i \in DOMAIN r
  BY <1>1
<1>6. Len(q) + 1 \in DOMAIN r
  BY <1>1
<1>7. q # <<>> => r[1] = q[1]
  BY <1>1, <1>2
<1>8. Once(q) /\ (e.kind = "prio" \/ NoType(q)) => Once(r)
  <2> SUFFICES ASSUME Once(q), e.kind = "prio" \/ NoType(q), NEW i \in DOMAIN r, NEW j \in DOMAIN r,
                      r[i].kind = "type", r[j].kind = "type"
               PROVE  i = j
    BY DEF Once
  <2>1. CASE i \in 1 .. Len(q) /\ j \in 1 .. Len(q)
    BY <2>1, <1>1 DEF Once
  <2>2. CASE i = Len(q) + 1 /\ j = Len(q) + 1
    BY <2>2
  <2>3. ASSUME NEW k \in 1 .. Len(q), r[k].kind = "type", r[Len(q) + 1].kind = "type" PROVE FALSE
    BY <2>3, <1>1 DEF NoType
  <2>4. QED
    BY <2>1, <2>2, <2>3, <1>4
<1>9. NoType(q) /\ e.kind = "prio" => NoType(r)
  BY <1>1, <1>4 DEF NoType
<1>10. \A f \in {1, 2} : Ahead(q, f) => Ahead(r, f)
  BY <1>1, <1>5 DEF Ahead
<1>11. e.kind = "prio" => Ahead(r, 1) /\ (q # <<>> => Ahead(r, 2))
  BY <1>1, <1>2, <1>6 DEF Ahead
<1>12. QED
  BY <1>1, <1>3, <1>7, <1>8, <1>9, <1>10, <1>11 DEF r

(* A queue without its first row: only a push in that one is gone.          *)
LEMMA Dropped ==
  ASSUME NEW q \in Seq(Entries), q # <<>>
  PROVE  /\ Tail(q) \in Seq(Entries)
         /\ Once(q) => Once(Tail(q))
         /\ NoType(q) => NoType(Tail(q))
         /\ Once(q) /\ q[1].kind = "type" => NoType(Tail(q))
         /\ Ahead(q, 2) => Ahead(Tail(q), 1)
         /\ Ahead(q, 1) => Ahead(Tail(q), 1) \/ q[1].kind = "prio"
<1> DEFINE r == Tail(q)
<1>1. /\ r \in Seq(Entries) /\ Len(q) \in Nat /\ Len(q) >= 1
      /\ DOMAIN r = 1 .. Len(q) - 1 /\ DOMAIN q = 1 .. Len(q)
      /\ \A i \in 1 .. Len(q) - 1 : r[i] = q[i + 1]
  OBVIOUS
<1> HIDE DEF r
<1>2. \A i \in DOMAIN r : i \in Nat /\ i + 1 \in DOMAIN q /\ i + 1 # 1 /\ r[i] = q[i + 1]
  BY <1>1
<1>3. \A i \in DOMAIN q : i >= 2 => i - 1 \in DOMAIN r /\ r[i - 1] = q[i]
  <2> SUFFICES ASSUME NEW i \in DOMAIN q, i >= 2
               PROVE  i - 1 \in DOMAIN r /\ r[i - 1] = q[i]
    OBVIOUS
  <2>1. i \in Nat /\ i - 1 \in 1 .. Len(q) - 1 /\ (i - 1) + 1 = i
    BY <1>1
  <2>2. QED
    BY <2>1, <1>1
<1>4. 1 \in DOMAIN q
  BY <1>1
<1>5. Once(q) => Once(r)
  <2> SUFFICES ASSUME Once(q), NEW i \in DOMAIN r, NEW j \in DOMAIN r, r[i].kind = "type", r[j].kind = "type"
               PROVE  i = j
    BY DEF Once
  <2>1. i + 1 = j + 1
    BY <1>2 DEF Once
  <2>2. QED
    BY <2>1, <1>2
<1>6. NoType(q) => NoType(r)
  BY <1>2 DEF NoType
<1>7. Once(q) /\ q[1].kind = "type" => NoType(r)
  BY <1>2, <1>4 DEF NoType, Once
<1>8. Ahead(q, 2) => Ahead(r, 1)
  <2> SUFFICES ASSUME NEW i \in DOMAIN q, i >= 2, q[i].kind = "prio" PROVE Ahead(r, 1)
    BY DEF Ahead
  <2>1. i - 1 \in DOMAIN r /\ r[i - 1].kind = "prio"
    BY <1>3
  <2>2. i - 1 >= 1
    BY <1>1
  <2>3. QED
    BY <2>1, <2>2 DEF Ahead
<1>9. Ahead(q, 1) => Ahead(r, 1) \/ q[1].kind = "prio"
  <2> SUFFICES ASSUME NEW i \in DOMAIN q, q[i].kind = "prio", q[1].kind # "prio" PROVE Ahead(q, 2)
    BY <1>8 DEF Ahead
  <2>1. i >= 2
    BY <1>1
  <2>2. QED
    BY <2>1 DEF Ahead
<1>10. QED
  BY <1>1, <1>5, <1>6, <1>7, <1>8, <1>9 DEF r

(* A failed attempt counted on the first row, which stays what it is.       *)
LEMMA Counted ==
  ASSUME NEW q \in Seq(Entries), q # <<>>, q[1].attempts + 1 < MaxAttempts
  PROVE  LET r == [q EXCEPT ![1].attempts = @ + 1]
         IN  /\ r \in Seq(Entries) /\ r # <<>>
             /\ Once(q) => Once(r)
             /\ NoType(q) => NoType(r)
             /\ \A f \in {1, 2} : Ahead(q, f) => Ahead(r, f)
<1> DEFINE e == [q[1] EXCEPT !.attempts = @ + 1]
           r == [q EXCEPT ![1] = e]
<1>1. Len(q) \in Nat /\ 1 \in 1 .. Len(q) /\ DOMAIN q = 1 .. Len(q) /\ q[1] \in Entries
  OBVIOUS
<1>2. e \in Entries /\ e.kind = q[1].kind
  <2>1. q[1].attempts \in 0 .. MaxAttempts - 1 /\ MaxAttempts \in Nat
    BY <1>1, FieldsConstants DEF Entries
  <2>2. q[1].attempts + 1 \in 0 .. MaxAttempts - 1
    BY <2>1
  <2>3. QED
    BY <2>2, <1>1 DEF Entries
<1> HIDE DEF e
<1>3. r \in Seq(Entries) /\ DOMAIN r = DOMAIN q /\ r # <<>>
  BY <1>1, <1>2
<1>4. \A i \in DOMAIN q : r[i].kind = q[i].kind
  BY <1>1, <1>2
<1>5. r = [q EXCEPT ![1].attempts = @ + 1]
  BY DEF e
<1> HIDE DEF r
<1>6. Once(q) => Once(r)
  BY <1>3, <1>4 DEF Once
<1>7. NoType(q) => NoType(r)
  BY <1>3, <1>4 DEF NoType
<1>8. \A f \in {1, 2} : Ahead(q, f) => Ahead(r, f)
  BY <1>3, <1>4 DEF Ahead
<1>9. QED
  BY <1>3, <1>5, <1>6, <1>7, <1>8
-----------------------------------------------------------------------------
(***************************************************************************)
(* Rows, types and clocks: AInv, step by step.                             *)
(***************************************************************************)

(* A queue that got a row at its end, or stayed as it is.                   *)
Grown(q, r) ==
  /\ r \in Seq(Entries)
  /\ Once(q) => Once(r)
  /\ q # <<>> => r # <<>> /\ r[1] = q[1]
  /\ \A f \in {1, 2} : Ahead(q, f) => Ahead(r, f)

(* The entries that edits make: none has been tried.                        *)
LEMMA EntriesMade ==
  /\ \A p \in Priorities : Entry("prio", Option[p]) \in Entries
  /\ \A v \in Types \cup {"null"} : Entry("type", v) \in Entries
<1>1. 0 \in 0 .. MaxAttempts - 1
  BY FieldsConstants
<1>2. QED
  BY <1>1 DEF Entries, Entry, Options, Priorities

(* insert: a row at the end, and no second one for the type.                *)
LEMMA Inserted ==
  ASSUME NEW t \in Tasks, NEW e \in Entries, queue[t] \in Seq(Entries)
  PROVE  /\ Grown(queue[t], Insert(t, e))
         /\ e.kind = "prio" => Insert(t, e) = Append(queue[t], e)
<1>1. e.kind = "prio" => e.kind # "type"
  OBVIOUS
<1>2. CASE Insert(t, e) = queue[t]
  <2>1. e.kind # "prio" \/ Insert(t, e) = Append(queue[t], e)
    BY <1>1 DEF Insert
  <2>2. QED
    BY <1>2, <2>1 DEF Grown
<1>3. CASE Insert(t, e) = Append(queue[t], e) /\ (e.kind = "prio" \/ NoType(queue[t]))
  BY <1>3, Appended DEF Grown
<1>4. e.kind \in {"prio", "type"}
  BY DEF Entries
<1>5. QED
  BY <1>2, <1>3, <1>4 DEF Insert, NoType

(* An edit that puts a row in the queue leaves the drainer's row first.     *)
LEMMA QueueGrows ==
  ASSUME Rows, TypeRows, NEW t \in Tasks, NEW r, Grown(queue[t], r),
         queue' = [queue EXCEPT ![t] = r], job' = job
  PROVE  /\ queue' \in [Tasks -> Seq(Entries)] /\ queue'[t] = r
         /\ \A u \in Tasks : u # t => queue'[u] = queue[u]
         /\ \A u \in Tasks : /\ Grown(queue[u], queue'[u]) /\ First(u)' = First(u)
                             /\ job'.task = u => queue'[u] # <<>>
                             /\ First(u)' = 2 => queue'[u][1] = queue[u][1]
         /\ \A u \in Tasks : Once(queue'[u])
<1>1. queue \in [Tasks -> Seq(Entries)] /\ r \in Seq(Entries)
  BY DEF Rows, Grown
<1>2. queue' \in [Tasks -> Seq(Entries)] /\ queue'[t] = r /\ \A u \in Tasks : u # t => queue'[u] = queue[u]
  BY <1>1
<1>3. ASSUME NEW u \in Tasks PROVE Grown(queue[u], queue'[u])
  <2>1. CASE u = t
    BY <2>1, <1>2
  <2>2. CASE u # t
    BY <2>2, <1>1, <1>2 DEF Grown
  <2>3. QED
    BY <2>1, <2>2
<1>4. ASSUME NEW u \in Tasks PROVE First(u)' = First(u)
  BY DEF First
<1>5. ASSUME NEW u \in Tasks, job.task = u PROVE queue'[u] # <<>> /\ queue'[u][1] = queue[u][1]
  BY <1>3, <1>5 DEF Rows, Grown
<1>6. ASSUME NEW u \in Tasks PROVE Once(queue'[u])
  BY <1>3 DEF TypeRows, Grown
<1>7. QED
  BY <1>2, <1>3, <1>4, <1>5, <1>6 DEF First

(* An edit of the priority keeps AInv.                                      *)
LEMMA SetPriorityA ==
  ASSUME AInv, NEW t \in Tasks, NEW p \in Priorities, SetPriority(t, p)
  PROVE  AInv'
<1> DEFINE e == Entry("prio", Option[p])
<1>1. e \in Entries /\ e.kind = "prio"
  BY EntriesMade DEF Entry
<1>2. queue[t] \in Seq(Entries) /\ queue' = [queue EXCEPT ![t] = Insert(t, e)] /\ job' = job
  BY DEF AInv, Rows, SetPriority
<1> HIDE DEF e
<1>3. Grown(queue[t], Insert(t, e)) /\ Insert(t, e) = Append(queue[t], e)
  BY <1>1, <1>2, Inserted
<1>4. NoType(queue[t]) => NoType(Insert(t, e))
  BY <1>1, <1>2, <1>3, Appended
<1>5. /\ queue' \in [Tasks -> Seq(Entries)] /\ queue'[t] = Insert(t, e)
      /\ \A u \in Tasks : u # t => queue'[u] = queue[u]
      /\ \A u \in Tasks : /\ Once(queue'[u]) /\ First(u)' = First(u)
                          /\ job'.task = u => queue'[u] # <<>>
                          /\ First(u)' = 2 => queue'[u][1] = queue[u][1]
  BY <1>2, <1>3, QueueGrows DEF AInv
<1>6. \A u \in Tasks : NoType(queue[u]) => NoType(queue'[u])
  BY <1>4, <1>5
<1>7. /\ row' \in [Tasks -> Row]
      /\ \A u \in Tasks : row'[u].type = row[u].type /\ row'[u].pending = row[u].pending
  BY DEF AInv, Rows, SetPriority, Row
<1>8. Rows'
  BY <1>5, <1>7 DEF AInv, Rows, SetPriority
<1>9. TypeRows'
  BY <1>5, <1>6, <1>7 DEF AInv, TypeRows, SetPriority
<1>10. Clocks' /\ Polls'
  BY DEF AInv, Clocks, Polls, SetPriority
<1>11. QED
  BY <1>8, <1>9, <1>10 DEF AInv

(* An edit of the type keeps AInv: the flag is up.                          *)
LEMMA SetIssueTypeA ==
  ASSUME AInv, NEW t \in Tasks, NEW v \in Types \cup {"null"}, SetIssueType(t, v)
  PROVE  AInv'
<1> DEFINE e == Entry("type", v)
           r == IF Projectable(v) THEN Insert(t, e) ELSE queue[t]
<1>1. e \in Entries
  BY EntriesMade
<1>2. queue \in [Tasks -> Seq(Entries)] /\ queue[t] \in Seq(Entries) /\ job' = job
  BY DEF AInv, Rows, SetIssueType
<1>3. queue' = [queue EXCEPT ![t] = r]
  BY <1>2 DEF SetIssueType
<1>4. Grown(queue[t], r)
  <2>1. Grown(queue[t], queue[t])
    BY <1>2 DEF Grown
  <2>2. Grown(queue[t], Insert(t, e))
    BY <1>1, <1>2, Inserted
  <2>3. QED
    BY <2>1, <2>2
<1> HIDE DEF r
<1>5. /\ queue' \in [Tasks -> Seq(Entries)]
      /\ \A u \in Tasks : u # t => queue'[u] = queue[u]
      /\ \A u \in Tasks : /\ Once(queue'[u]) /\ First(u)' = First(u)
                          /\ job'.task = u => queue'[u] # <<>>
                          /\ First(u)' = 2 => queue'[u][1] = queue[u][1]
  BY <1>2, <1>3, <1>4, QueueGrows DEF AInv
<1>6. /\ row' \in [Tasks -> Row] /\ row'[t].pending
      /\ \A u \in Tasks : u # t => row'[u] = row[u]
  BY DEF AInv, Rows, SetIssueType, Row
<1>7. Rows'
  BY <1>5, <1>6 DEF AInv, Rows, SetIssueType
<1>8. TypeRows'
  BY <1>5, <1>6 DEF AInv, TypeRows, SetIssueType
<1>9. Clocks' /\ Polls'
  BY DEF AInv, Clocks, Polls, SetIssueType
<1>10. QED
  BY <1>7, <1>8, <1>9 DEF AInv

(* A row for an armed flag keeps AInv.                                      *)
LEMMA EnqueueA ==
  ASSUME AInv, NEW t \in Tasks, EnqueuePendingIssueTypes(t)
  PROVE  AInv'
<1> DEFINE e == Entry("type", row[t].type)
<1>1. e \in Entries
  BY EntriesMade DEF AInv, Rows, Row
<1>2. queue[t] \in Seq(Entries) /\ queue' = [queue EXCEPT ![t] = Insert(t, e)] /\ job' = job
  BY DEF AInv, Rows, EnqueuePendingIssueTypes
<1> HIDE DEF e
<1>3. Grown(queue[t], Insert(t, e))
  BY <1>1, <1>2, Inserted
<1>4. /\ queue' \in [Tasks -> Seq(Entries)]
      /\ \A u \in Tasks : u # t => queue'[u] = queue[u]
      /\ \A u \in Tasks : /\ Once(queue'[u]) /\ First(u)' = First(u)
                          /\ job'.task = u => queue'[u] # <<>>
                          /\ First(u)' = 2 => queue'[u][1] = queue[u][1]
  BY <1>2, <1>3, QueueGrows DEF AInv
<1>5. Rows'
  BY <1>4 DEF AInv, Rows, EnqueuePendingIssueTypes
<1>6. TypeRows'
  BY <1>4 DEF AInv, TypeRows, EnqueuePendingIssueTypes
<1>7. Clocks' /\ Polls'
  BY DEF AInv, Clocks, Polls, EnqueuePendingIssueTypes
<1>8. QED
  BY <1>5, <1>6, <1>7 DEF AInv
-----------------------------------------------------------------------------
(* A refreshed registry keeps AInv.                                         *)
LEMMA RefreshA == ASSUME AInv, NEW S \in SUBSET Types, Refresh(S) PROVE AInv'
<1>1. Rows' /\ TypeRows' /\ Clocks' /\ Polls'
  BY DEF AInv, Rows, TypeRows, Clocks, Polls, Refresh, First
<1>2. QED
  BY <1>1 DEF AInv

(* A claim keeps AInv: the task has a row.                                  *)
LEMMA ClaimA == ASSUME AInv, NEW t \in Tasks, Claim(t) PROVE AInv'
<1>1. job' = [phase |-> "call", task |-> t] /\ job' \in Jobs
  BY DEF Claim, Jobs
<1>2. Rows'
  BY <1>1 DEF AInv, Rows, Claim
<1>3. \A u \in Tasks : First(u)' = 1
  BY <1>1 DEF First
<1>4. TypeRows'
  BY <1>3 DEF AInv, TypeRows, Claim
<1>5. Clocks' /\ Polls'
  BY DEF AInv, Clocks, Polls, Claim
<1>6. QED
  BY <1>2, <1>4, <1>5 DEF AInv

(* The drainer's task, while it is on one.                                  *)
LEMMA OnTask ==
  ASSUME Rows, job.phase \in {"call", "finish"}
  PROVE  /\ job.task \in Tasks /\ job = [phase |-> job.phase, task |-> job.task]
         /\ queue[job.task] \in Seq(Entries) /\ queue[job.task] # <<>>
         /\ Head(queue[job.task]) = queue[job.task][1]
         /\ 1 \in DOMAIN queue[job.task] /\ queue[job.task][1] \in Entries
<1>1. job.task \in Tasks /\ job = [phase |-> job.phase, task |-> job.task]
  BY DEF Rows, Jobs, Idle
<1>2. queue[job.task] \in Seq(Entries) /\ queue[job.task] # <<>>
  BY <1>1 DEF Rows
<1>3. QED
  BY <1>1, <1>2

(* A card that was changed has the time of the change.                      *)
LEMMA Stamped ==
  ASSUME Rows, Clocks, Polls, NEW t \in Tasks, NEW c \in Card, clock' \in Ticks, c.updated = clock',
         card' = [card EXCEPT ![t] = c], mark' = mark, poll' = poll
  PROVE  /\ card' \in [Tasks -> Card] /\ card'[t] = c
         /\ \A u \in Tasks : u # t => card'[u] = card[u]
         /\ Clocks' /\ Polls'
         /\ clock' > mark /\ \A u \in DOMAIN poll.page : ~(c.updated < poll.page[u].updated)
<1>1. /\ card' \in [Tasks -> Card] /\ card'[t] = c
      /\ \A u \in Tasks : u # t => card'[u] = card[u]
  BY DEF Rows
<1>2. clock' \in {clock, clock + 1} /\ clock \in Nat /\ mark \in Nat /\ mark < clock
  BY DEF Ticks, Clocks
<1>3. \A u \in Tasks : card[u].updated \in Nat /\ 1 <= card[u].updated /\ card[u].updated <= clock
  BY DEF Rows, Card, Clocks
<1>4. Clocks'
  BY <1>1, <1>2, <1>3 DEF Clocks
<1>5. \A u \in DOMAIN poll.page : /\ u \in Tasks /\ poll.page[u].updated \in Nat
                                  /\ poll.page[u].updated <= card[u].updated
  BY DEF Polls, Card
<1>6. \A u \in DOMAIN poll.page : poll.page[u].updated <= card'[u].updated
  BY <1>1, <1>2, <1>3, <1>5
<1>7. Polls'
  BY <1>6 DEF Polls
<1>8. \A u \in DOMAIN poll.page : ~(c.updated < poll.page[u].updated)
  BY <1>2, <1>3, <1>5
<1>9. QED
  BY <1>1, <1>2, <1>4, <1>7, <1>8

(* What a call leaves on the card.                                          *)
LEMMA SentCard ==
  ASSUME NEW c \in Card, NEW e \in Entries, NEW now \in Nat
  PROVE  /\ Sent(c, e, now) \in Card /\ Sent(c, e, now).updated = now
         /\ Sent(c, e, now).column = c.column
         /\ e.kind = "prio" => Sent(c, e, now).type = c.type
         /\ e.kind = "type" => Sent(c, e, now).type = e.value /\ Sent(c, e, now).option = c.option
<1>1. CASE e.kind = "prio" /\ e.value \in Options
  BY <1>1 DEF Sent, Card
<1>2. CASE e.kind = "type" /\ e.value \in Types \cup {"null"}
  BY <1>2 DEF Sent, Card
<1>3. QED
  BY <1>1, <1>2 DEF Entries

(* A call keeps AInv: a type that GitHub gets is a row of a raised flag.    *)
LEMMA CallA ==
  ASSUME AInv, Call
  PROVE  /\ AInv' /\ job' = [phase |-> "finish", task |-> job.task]
         /\ job.task \in Tasks /\ card'[job.task].updated > mark
         /\ \A u \in Tasks : u # job.task => card'[u] = card[u]
         /\ \A u \in DOMAIN poll.page : ~(card'[job.task].updated < poll.page[u].updated)
<1> DEFINE t == job.task
           e == queue[t][1]
           c == Sent(card[t], e, clock')
<1>1. /\ t \in Tasks /\ job = [phase |-> job.phase, task |-> t] /\ queue[t] # <<>>
      /\ Head(queue[t]) = e /\ 1 \in DOMAIN queue[t] /\ e \in Entries
  BY OnTask DEF Call, AInv
<1>2. clock' \in Ticks /\ clock' \in Nat
  BY DEF Call, Ticks, AInv, Clocks
<1>3. card' = [card EXCEPT ![t] = c] /\ job' = [phase |-> "finish", task |-> t]
  BY <1>1 DEF Call
<1>4. card[t] \in Card
  BY <1>1 DEF AInv, Rows
<1>5. /\ c \in Card /\ c.updated = clock'
      /\ e.kind = "prio" => c.type = card[t].type
      /\ e.kind = "type" => c.type = e.value
  BY <1>1, <1>2, <1>4, SentCard
<1> HIDE DEF c
<1>6. /\ card' \in [Tasks -> Card] /\ card'[t] = c
      /\ \A u \in Tasks : u # t => card'[u] = card[u]
      /\ Clocks' /\ Polls'
      /\ clock' > mark /\ \A u \in DOMAIN poll.page : ~(c.updated < poll.page[u].updated)
  BY <1>1, <1>2, <1>3, <1>5, Stamped DEF AInv, Call
<1>7. Rows'
  <2>1. job' \in Jobs /\ job'.task = t
    BY <1>1, <1>3 DEF Jobs
  <2>2. QED
    BY <1>1, <1>6, <2>1 DEF AInv, Rows, Call
<1>8. ASSUME NEW u \in Tasks, ~row[u].pending PROVE card'[u].type = card[u].type
  <2>1. CASE u # t
    BY <2>1, <1>6
  <2>2. CASE u = t
    <3>1. e.kind # "type"
      BY <2>2, <1>1, <1>8 DEF AInv, TypeRows, NoType
    <3>2. e.kind = "prio"
      BY <3>1, <1>1 DEF Entries
    <3>3. QED
      BY <2>2, <3>2, <1>5, <1>6
  <2>3. QED
    BY <2>1, <2>2
<1>9. ASSUME NEW u \in Tasks, First(u)' = 2 PROVE u = t
  BY <1>3, <1>9 DEF First
<1>10. TypeRows'
  <2>1. UNCHANGED <<row, queue>>
    BY DEF Call
  <2>2. \A u \in Tasks : ~row[u].pending => row[u].type = card'[u].type
    BY <1>8 DEF AInv, TypeRows
  <2>3. \A u \in Tasks : First(u)' = 2 /\ queue[u][1].kind = "type" => card'[u].type = queue[u][1].value
    BY <1>5, <1>6, <1>9
  <2>4. QED
    BY <2>1, <2>2, <2>3 DEF AInv, TypeRows
<1>11. card'[t].updated > mark
  BY <1>2, <1>5, <1>6
<1>12. QED
  BY <1>1, <1>3, <1>6, <1>7, <1>10, <1>11 DEF AInv

(* A row leaves the head of its queue, and the drainer is idle.             *)
LEMMA QueueDrops ==
  ASSUME Rows, TypeRows, job.phase \in {"call", "finish"}, job' = Idle,
         queue' = [queue EXCEPT ![job.task] = Tail(@)]
  PROVE  /\ queue' \in [Tasks -> Seq(Entries)] /\ queue'[job.task] = Tail(queue[job.task])
         /\ \A u \in Tasks : u # job.task => queue'[u] = queue[u]
         /\ \A u \in Tasks : /\ Once(queue'[u]) /\ First(u)' = 1 /\ job'.task # u
                             /\ NoType(queue[u]) => NoType(queue'[u])
<1> DEFINE t == job.task
<1>1. t \in Tasks /\ queue[t] \in Seq(Entries) /\ queue[t] # <<>> /\ queue \in [Tasks -> Seq(Entries)]
  BY OnTask DEF Rows
<1>2. /\ Tail(queue[t]) \in Seq(Entries)
      /\ Once(queue[t]) => Once(Tail(queue[t]))
      /\ NoType(queue[t]) => NoType(Tail(queue[t]))
  BY <1>1, Dropped
<1>3. /\ queue' \in [Tasks -> Seq(Entries)] /\ queue'[t] = Tail(queue[t])
      /\ \A u \in Tasks : u # t => queue'[u] = queue[u]
  BY <1>1, <1>2
<1>4. \A u \in Tasks : Once(queue'[u]) /\ (NoType(queue[u]) => NoType(queue'[u]))
  BY <1>2, <1>3 DEF TypeRows
<1>5. \A u \in Tasks : job'.task # u /\ First(u)' = 1
  BY FieldsConstants DEF Idle, First
<1>6. QED
  BY <1>3, <1>4, <1>5
(* A failed call keeps AInv: its row is counted or dropped.                 *)
LEMMA CallFailsA ==
  ASSUME AInv, CallFails
  PROVE  /\ AInv' /\ job' = Idle /\ job.task \in Tasks /\ queue[job.task] \in Seq(Entries)
         /\ \A u \in Tasks : u # job.task => queue'[u] = queue[u]
<1> DEFINE t == job.task
           e == queue[t][1]
<1>1. /\ t \in Tasks /\ queue[t] \in Seq(Entries) /\ queue[t] # <<>> /\ Head(queue[t]) = e
      /\ queue \in [Tasks -> Seq(Entries)] /\ job.phase \in {"call", "finish"} /\ job' = Idle
  BY OnTask DEF CallFails, Retried, AInv, Rows
<1>2. /\ queue' \in [Tasks -> Seq(Entries)]
      /\ \A u \in Tasks : u # t => queue'[u] = queue[u]
      /\ \A u \in Tasks : /\ Once(queue'[u]) /\ First(u)' = 1 /\ job'.task # u
                          /\ NoType(queue[u]) => NoType(queue'[u])
  <2>1. CASE e.attempts + 1 < MaxAttempts
    <3> DEFINE r == [queue[t] EXCEPT ![1].attempts = @ + 1]
    <3>1. queue' = [queue EXCEPT ![t] = r]
      BY <2>1, <1>1 DEF CallFails, Retried
    <3>2. r \in Seq(Entries) /\ (Once(queue[t]) => Once(r)) /\ (NoType(queue[t]) => NoType(r))
      BY <2>1, <1>1, Counted
    <3> HIDE DEF r
    <3>3. /\ queue' \in [Tasks -> Seq(Entries)] /\ queue'[t] = r
          /\ \A u \in Tasks : u # t => queue'[u] = queue[u]
      BY <1>1, <3>1, <3>2
    <3>4. \A u \in Tasks : Once(queue'[u]) /\ (NoType(queue[u]) => NoType(queue'[u]))
      BY <3>2, <3>3 DEF AInv, TypeRows
    <3>5. \A u \in Tasks : job'.task # u /\ First(u)' = 1
      BY <1>1, FieldsConstants DEF Idle, First
    <3>6. QED
      BY <3>3, <3>4, <3>5
  <2>2. CASE ~(e.attempts + 1 < MaxAttempts)
    <3>1. queue' = [queue EXCEPT ![t] = Tail(@)]
      BY <2>2, <1>1 DEF CallFails, Retried
    <3>2. QED
      BY <1>1, <3>1, QueueDrops DEF AInv
  <2>3. QED
    BY <2>1, <2>2
<1>3. Rows'
  BY <1>1, <1>2 DEF AInv, Rows, Jobs, CallFails
<1>4. TypeRows'
  BY <1>2 DEF AInv, TypeRows, CallFails
<1>5. Clocks' /\ Polls'
  BY DEF AInv, Clocks, Polls, CallFails
<1>6. QED
  BY <1>1, <1>2, <1>3, <1>4, <1>5 DEF AInv

(* A finished row keeps AInv: it takes down the flag of the type on the card.*)
LEMMA FinishA ==
  ASSUME AInv, Finish
  PROVE  /\ AInv' /\ job' = Idle /\ job.task \in Tasks
         /\ queue[job.task] \in Seq(Entries) /\ queue[job.task] # <<>> /\ First(job.task) = 2
         /\ queue'[job.task] = Tail(queue[job.task])
         /\ \A u \in Tasks : u # job.task => queue'[u] = queue[u]
         /\ \A u \in Tasks : row'[u].prio = row[u].prio /\ row'[u].column = row[u].column
<1> DEFINE t == job.task
           e == queue[t][1]
           r == ClearIssueTypePending(row[t], e)
<1>1. /\ t \in Tasks /\ queue[t] \in Seq(Entries) /\ queue[t] # <<>> /\ Head(queue[t]) = e
      /\ e \in Entries /\ First(t) = 2 /\ job.phase \in {"call", "finish"} /\ job' = Idle
      /\ queue' = [queue EXCEPT ![t] = Tail(@)]
  BY OnTask DEF Finish, AInv, First
<1>2. /\ queue' \in [Tasks -> Seq(Entries)] /\ queue'[t] = Tail(queue[t])
      /\ \A u \in Tasks : u # t => queue'[u] = queue[u]
      /\ \A u \in Tasks : /\ Once(queue'[u]) /\ First(u)' = 1 /\ job'.task # u
                          /\ NoType(queue[u]) => NoType(queue'[u])
  BY <1>1, QueueDrops DEF AInv
<1>3. row' = [row EXCEPT ![t] = r]
  BY <1>1 DEF Finish
<1>4. row \in [Tasks -> Row] /\ row[t] \in Row
  BY <1>1 DEF AInv, Rows
<1>5. /\ r \in Row /\ r.prio = row[t].prio /\ r.column = row[t].column /\ r.type = row[t].type
      /\ r.pending = row[t].pending \/ (e.kind = "type" /\ e.value = row[t].type)
  BY <1>4 DEF Row, ClearIssueTypePending
<1> HIDE DEF r
<1>6. row' \in [Tasks -> Row] /\ row'[t] = r /\ \A u \in Tasks : u # t => row'[u] = row[u]
  BY <1>1, <1>3, <1>4, <1>5
<1>7. Rows'
  BY <1>1, <1>2, <1>6 DEF AInv, Rows, Jobs, Finish
<1>8. ASSUME NEW u \in Tasks, ~row'[u].pending
      PROVE  row'[u].type = card[u].type /\ NoType(queue'[u])
  <2>1. CASE ~row[u].pending
    BY <2>1, <1>2, <1>5, <1>6 DEF AInv, TypeRows
  <2>2. CASE u = t /\ e.kind = "type" /\ e.value = row[t].type
    <3>1. card[t].type = e.value
      BY <2>2, <1>1 DEF AInv, TypeRows
    <3>2. NoType(Tail(queue[t]))
      BY <2>2, <1>1, Dropped DEF AInv, TypeRows
    <3>3. QED
      BY <2>2, <3>1, <3>2, <1>2, <1>5, <1>6
  <2>3. QED
    BY <2>1, <2>2, <1>5, <1>6, <1>8
<1>9. TypeRows'
  BY <1>2, <1>8 DEF AInv, TypeRows, Finish
<1>10. Clocks' /\ Polls'
  BY DEF AInv, Clocks, Polls, Finish
<1>11. QED
  BY <1>1, <1>2, <1>5, <1>6, <1>7, <1>9, <1>10 DEF AInv

(* A change of the board by others keeps AInv: it is newer than what a      *)
(* poll has read.                                                           *)
LEMMA BoardEditA ==
  ASSUME AInv, NEW t \in Tasks, BoardEdit(t)
  PROVE  /\ AInv' /\ card'[t].updated > mark
         /\ \A u \in Tasks : u # t => card'[u] = card[u]
         /\ \A u \in DOMAIN poll.page : ~(card'[t].updated < poll.page[u].updated)
<1>1. PICK now \in Ticks, o \in Options, col \in Columns :
        /\ (o = card[t].option) # (col = card[t].column)
        /\ clock' = now
        /\ card' = [card EXCEPT ![t].option = o, ![t].column = col, ![t].updated = now]
  BY Zenon DEF BoardEdit
<1> DEFINE c == [card[t] EXCEPT !.option = o, !.column = col, !.updated = now]
<1>2. now \in Nat /\ clock' \in Ticks
  BY <1>1 DEF Ticks, AInv, Clocks
<1>3. card[t] \in Card
  BY DEF AInv, Rows
<1>4. c \in Card /\ c.updated = clock' /\ c.type = card[t].type
  BY <1>1, <1>2, <1>3 DEF Card
<1>5. card' = [card EXCEPT ![t] = c]
  BY <1>1
<1> HIDE DEF c
<1>6. /\ card' \in [Tasks -> Card] /\ card'[t] = c
      /\ \A u \in Tasks : u # t => card'[u] = card[u]
      /\ Clocks' /\ Polls'
      /\ clock' > mark /\ \A u \in DOMAIN poll.page : ~(c.updated < poll.page[u].updated)
  BY <1>2, <1>4, <1>5, Stamped DEF AInv, BoardEdit
<1>7. Rows'
  BY <1>6 DEF AInv, Rows, BoardEdit
<1>8. TypeRows'
  BY <1>4, <1>6 DEF AInv, TypeRows, BoardEdit, First
<1>9. QED
  BY <1>4, <1>6, <1>7, <1>8 DEF AInv
-----------------------------------------------------------------------------
(* The poller's steps keep AInv.                                            *)
LEMMA IndexA ==
  ASSUME AInv, IndexStaleCandidates
  PROVE  AInv'
<1>1. PICK S \in SUBSET Tasks :
        poll' = [NoPoll EXCEPT !.phase = "fetch", !.index = [t \in S |-> row[t]]]
  BY DEF IndexStaleCandidates
<1>2. poll' = [phase |-> "fetch", index |-> [t \in S |-> row[t]], page |-> <<>>, todo |-> {}, partial |-> FALSE]
  BY <1>1 DEF NoPoll
<1>3. \A t \in S : row[t] \in Row
  BY DEF AInv, Rows
<1>4. DOMAIN poll'.index = S /\ DOMAIN poll'.page = {} /\ \A t \in S : poll'.index[t] = row[t]
  BY <1>2
<1>5. Polls'
  BY <1>2, <1>3, <1>4 DEF Polls
<1>6. Rows' /\ TypeRows' /\ Clocks'
  BY DEF AInv, Rows, TypeRows, Clocks, First, IndexStaleCandidates
<1>7. QED
  BY <1>5, <1>6 DEF AInv

(* A page keeps AInv: it is of cards as they are.                           *)
LEMMA PageA ==
  ASSUME AInv, PollProjectItems
  PROVE  AInv'
<1>1. PICK S \in SUBSET Tasks :
        poll' = [poll EXCEPT !.phase = "items", !.page = [t \in S |-> card[t]], !.partial = S # Tasks,
                             !.todo = {t \in S : card[t].updated > mark}]
  BY DEF PollProjectItems
<1>2. poll' = [phase |-> "items", index |-> poll.index, page |-> [t \in S |-> card[t]],
               todo |-> {t \in S : card[t].updated > mark}, partial |-> S # Tasks]
  BY <1>1 DEF AInv, Polls
<1>3. /\ \A t \in S : card[t] \in Card /\ card[t].updated <= card[t].updated
      /\ DOMAIN poll.index \subseteq Tasks /\ \A t \in DOMAIN poll.index : poll.index[t] \in Row
  BY DEF AInv, Rows, Polls, Card
<1>4. DOMAIN poll'.page = S /\ poll'.index = poll.index /\ \A t \in S : poll'.page[t] = card[t]
  BY <1>2
<1>5. card' = card
  BY DEF PollProjectItems
<1>6. Polls'
  BY <1>2, <1>3, <1>4, <1>5 DEF Polls
<1>7. Rows' /\ TypeRows' /\ Clocks'
  BY DEF AInv, Rows, TypeRows, Clocks, First, PollProjectItems
<1>8. QED
  BY <1>6, <1>7 DEF AInv

(* A poll that is over has nothing in hand.                                 *)
LEMMA NoPollA == ASSUME poll' = NoPoll PROVE Polls' /\ poll'.phase = "idle"
<1>1. DOMAIN poll'.index = {} /\ DOMAIN poll'.page = {}
  BY DEF NoPoll
<1>2. QED
  BY <1>1 DEF NoPoll, Polls

(* A poll that fails keeps AInv.                                            *)
LEMMA PollFailsA == ASSUME AInv, PollFails PROVE AInv'
<1>1. Rows' /\ TypeRows' /\ Clocks'
  BY DEF AInv, Rows, TypeRows, Clocks, First, PollFails
<1>2. QED
  BY <1>1, NoPollA DEF AInv, PollFails

(* A restart keeps AInv: nothing is in hand, the watermark is 0.            *)
LEMMA RestartA == ASSUME AInv, Restart PROVE AInv'
<1>1. Rows'
  BY FieldsConstants DEF AInv, Rows, Restart, Jobs, Idle
<1>2. \A t \in Tasks : First(t)' = 1
  BY DEF Restart, First, Idle
<1>3. TypeRows'
  BY <1>2 DEF AInv, TypeRows, Restart
<1>4. Clocks'
  BY DEF AInv, Clocks, Restart
<1>5. QED
  BY <1>1, <1>3, <1>4, NoPollA DEF AInv, Restart

(* An option of the board has a priority.                                   *)
LEMMA InverseIs ==
  ASSUME NEW o \in Options
  PROVE  InverseOption(o) \in Priorities /\ Option[InverseOption(o)] = o
<1> DEFINE P == {p \in Priorities : Option[p] = o}
<1>1. P \in SUBSET Nat /\ P # {}
  BY FieldsConstants DEF Options, Priorities
<1>2. Min(P) \in P
  BY <1>1, MinOfNats
<1>3. QED
  BY <1>2 DEF InverseOption

(* A reconciled item keeps AInv; of its row, priority and column change.    *)
LEMMA ReconcileA ==
  ASSUME AInv, NEW t \in Tasks, ReconcileItem(t)
  PROVE  /\ AInv' /\ t \in DOMAIN poll.page
         /\ poll'.phase = "items" /\ poll'.index = poll.index /\ poll'.page = poll.page
         /\ poll'.todo = poll.todo \ {t} /\ poll'.partial = poll.partial
         /\ \A u \in Tasks : u # t => row'[u] = row[u]
         /\ t \in DOMAIN poll.index =>
              row'[t].prio = ReconcilePriority(t) /\ row'[t].column = poll.page[t].column
<1>1. /\ poll' = [phase |-> poll.phase, index |-> poll.index, page |-> poll.page, todo |-> poll.todo \ {t},
                  partial |-> poll.partial]
      /\ poll.phase = "items" /\ t \in poll.todo /\ UNCHANGED <<card, queue, job, known, clock, mark>>
  BY DEF AInv, Polls, ReconcileItem
<1>2. t \in DOMAIN poll.page
  BY <1>1 DEF AInv, Polls
<1>3. poll.page[t].column \in Columns /\ poll.page[t].option \in Options
  BY <1>2 DEF AInv, Polls, Card
<1>4. ReconcilePriority(t) \in Priorities
  BY <1>3, InverseIs DEF ReconcilePriority, AInv, Rows, Row
<1>5. /\ row' \in [Tasks -> Row]
      /\ \A u \in Tasks : u # t => row'[u] = row[u]
      /\ row'[t].type = row[t].type /\ row'[t].pending = row[t].pending
      /\ t \in DOMAIN poll.index =>
           row'[t].prio = ReconcilePriority(t) /\ row'[t].column = poll.page[t].column
  <2>1. row \in [Tasks -> Row] /\ row[t] \in Row
    BY DEF AInv, Rows
  <2>2. CASE t \in DOMAIN poll.index
    <3> DEFINE r == [row[t] EXCEPT !.prio = ReconcilePriority(t), !.column = poll.page[t].column]
    <3>1. row' = [row EXCEPT ![t] = r]
      BY <2>2 DEF ReconcileItem
    <3>2. /\ r \in Row /\ r.type = row[t].type /\ r.pending = row[t].pending
          /\ r.prio = ReconcilePriority(t) /\ r.column = poll.page[t].column
      BY <2>1, <1>3, <1>4 DEF Row
    <3> HIDE DEF r
    <3>3. QED
      BY <2>1, <3>1, <3>2
  <2>3. CASE t \notin DOMAIN poll.index
    BY <2>1, <2>3 DEF ReconcileItem
  <2>4. QED
    BY <2>2, <2>3
<1>6. Rows'
  BY <1>1, <1>5 DEF AInv, Rows
<1>7. TypeRows'
  BY <1>1, <1>5 DEF AInv, TypeRows, First
<1>8. Clocks'
  BY <1>1 DEF AInv, Clocks
<1>9. Polls'
  BY <1>1 DEF AInv, Polls
<1>10. QED
  BY <1>1, <1>2, <1>5, <1>6, <1>7, <1>8, <1>9 DEF AInv

(* The watermark goes to a second before the newest item of the page, or    *)
(* stays.                                                                   *)
LEMMA Advanced ==
  ASSUME Rows, Clocks, Polls
  PROVE  /\ Advance(poll.page) \in Nat /\ Advance(poll.page) >= mark /\ Advance(poll.page) < clock
         /\ \/ Advance(poll.page) = mark
            \/ \E u \in DOMAIN poll.page : Advance(poll.page) = poll.page[u].updated - 1
<1> DEFINE N == {mark} \cup {poll.page[t].updated : t \in DOMAIN poll.page}
           newest == Max(N)
<1>1. \A t \in DOMAIN poll.page : poll.page[t].updated \in 0 .. clock
  <2> SUFFICES ASSUME NEW t \in DOMAIN poll.page PROVE poll.page[t].updated \in 0 .. clock
    OBVIOUS
  <2>1. poll.page[t].updated \in Nat /\ poll.page[t].updated <= card[t].updated /\ t \in Tasks
    BY DEF Polls, Card
  <2>2. card[t].updated \in Nat /\ card[t].updated <= clock /\ clock \in Nat
    BY <2>1 DEF Rows, Card, Clocks
  <2>3. QED
    BY <2>1, <2>2
<1>2. mark \in 0 .. clock /\ clock \in Nat /\ mark \in Nat /\ mark < clock
  BY DEF Clocks
<1>3. N \in SUBSET (0 .. clock) /\ N # {}
  BY <1>1, <1>2
<1>4. newest \in N
  BY <1>2, <1>3, MaxOfNats
<1>5. newest \in 0 .. clock
  BY <1>3, <1>4
<1>6. newest = mark \/ \E u \in DOMAIN poll.page : newest = poll.page[u].updated
  BY <1>4
<1>7. Advance(poll.page) = IF newest > mark THEN Max({mark, newest - 1}) ELSE mark
  BY DEF Advance
<1> HIDE DEF newest, N
<1>8. newest > mark => Max({mark, newest - 1}) \in {mark, newest - 1} /\ Max({mark, newest - 1}) >= mark
  <2> SUFFICES ASSUME newest > mark
               PROVE  Max({mark, newest - 1}) \in {mark, newest - 1} /\ Max({mark, newest - 1}) >= mark
    OBVIOUS
  <2>1. {mark, newest - 1} \in SUBSET (0 .. clock) /\ {mark, newest - 1} # {}
    BY <1>2, <1>5
  <2>2. QED
    BY <2>1, <1>2, MaxOfNats
<1>9. QED
  BY <1>2, <1>5, <1>6, <1>7, <1>8

(* The end of a poll keeps AInv; of the rows only the stamp changes.        *)
LEMMA PollEndA ==
  ASSUME AInv, PollEnd
  PROVE  /\ AInv' /\ poll'.phase = "idle"
         /\ \A t \in Tasks : row'[t].prio = row[t].prio /\ row'[t].column = row[t].column
<1>1. poll' = NoPoll /\ UNCHANGED <<queue, job, failed, known, card, clock, raced>>
  BY DEF PollEnd
<1>2. /\ row' \in [Tasks -> Row]
      /\ \A t \in Tasks : /\ row'[t].prio = row[t].prio /\ row'[t].column = row[t].column
                          /\ row'[t].type = row[t].type /\ row'[t].pending = row[t].pending
  <2>1. row \in [Tasks -> Row] /\ clock \in Nat
    BY DEF AInv, Rows, Clocks
  <2>2. ASSUME NEW t \in Tasks
        PROVE  LET r == [row[t] EXCEPT !.synced = clock]
               IN  /\ r \in Row /\ r.prio = row[t].prio /\ r.column = row[t].column
                   /\ r.type = row[t].type /\ r.pending = row[t].pending
    BY <2>1 DEF Row
  <2>3. \/ row' = row
        \/ row' = [t \in Tasks |-> IF t \in DOMAIN poll.index THEN [row[t] EXCEPT !.synced = clock]
                                   ELSE row[t]]
    BY DEF PollEnd
  <2>4. QED
    BY <2>1, <2>2, <2>3
<1>3. mark' \in Nat /\ mark' < clock
  BY Advanced DEF AInv, Clocks, PollEnd
<1>4. Rows'
  BY <1>1, <1>2 DEF AInv, Rows
<1>5. TypeRows'
  BY <1>1, <1>2 DEF AInv, TypeRows, First
<1>6. Clocks'
  BY <1>1, <1>3 DEF AInv, Clocks
<1>7. QED
  BY <1>1, <1>2, <1>4, <1>5, <1>6, NoPollA DEF AInv

(* Every step keeps AInv.                                                   *)
LEMMA StepA == ASSUME AInv, [Next]_vars PROVE AInv'
<1>1. CASE Edit
  BY <1>1, SetPriorityA, SetIssueTypeA, RefreshA DEF Edit
<1>2. CASE \E t \in Tasks : BoardEdit(t)
  BY <1>2, BoardEditA
<1>3. CASE Drain
  BY <1>3, EnqueueA, ClaimA, CallA, FinishA DEF Drain
<1>4. CASE Poll
  BY <1>4, IndexA, PageA, ReconcileA, PollEndA DEF Poll
<1>5. CASE CallFails \/ PollFails \/ Restart
  BY <1>5, CallFailsA, PollFailsA, RestartA
<1>6. CASE UNCHANGED vars
  BY <1>6 DEF vars, AInv, Rows, TypeRows, Clocks, Polls, First
<1>7. QED
  BY <1>1, <1>2, <1>3, <1>4, <1>5, <1>6 DEF Next

(* It holds at the start.                                                   *)
LEMMA InitA == Init => AInv
<1> SUFFICES ASSUME Init PROVE AInv
  OBVIOUS
<1>1. Min(Priorities) \in Priorities
  BY MinOfNats, FieldsConstants DEF Priorities
<1>2. Option[Min(Priorities)] \in Options
  BY <1>1 DEF Options
<1>3. Rows
  BY <1>1, <1>2, FieldsConstants DEF Init, Rows, Row, Card, Columns, Jobs, Idle
<1>4. TypeRows /\ Clocks
  BY DEF Init, TypeRows, Clocks, Once, NoType, First, Idle
<1>5. Polls
  <2>1. DOMAIN poll.index = {} /\ DOMAIN poll.page = {}
    BY DEF Init, NoPoll
  <2>2. QED
    BY <2>1 DEF Init, NoPoll, Polls
<1>6. QED
  BY <1>3, <1>4, <1>5 DEF AInv

(* It always holds.                                                         *)
LEMMA AlwaysA == Spec => []AInv
<1>1. QED
  BY InitA, StepA, PTL DEF Spec
-----------------------------------------------------------------------------
(***************************************************************************)
(* What the watermark passes, when a poll compares every task.             *)
(***************************************************************************)

Board == Indexed /\ Fetching /\ Reading /\ Passed

(* POLL_LIMIT is no bound: an index takes in every task.                    *)
Wide == IsFiniteSet(Tasks) /\ PollLimit >= Cardinality(Tasks)

(* A step that leaves the board, the poll and the watermark alone, and of   *)
(* the rows changes only priorities that are known to differ.               *)
LEMMA LocalKeeps ==
  ASSUME Board, UNCHANGED <<card, poll, mark>>, raced \subseteq raced',
         ASSUME NEW t \in Tasks
         PROVE  /\ row'[t].column = row[t].column
                /\ Excepted(t) => Excepted(t)'
                /\ row'[t].prio = row[t].prio \/ Excepted(t)'
                /\ poll.phase = "fetch" => row'[t].prio = row[t].prio \/ t \in raced'
  PROVE  Board'
<1>1. \A t \in Tasks : /\ row'[t].column = row[t].column
                       /\ Excepted(t) => Excepted(t)'
                       /\ row'[t].prio = row[t].prio \/ Excepted(t)'
                       /\ poll.phase = "fetch" => row'[t].prio = row[t].prio \/ t \in raced'
  OBVIOUS
<1>2. Indexed'
  BY DEF Board, Indexed
<1>3. Fetching'
  <2> SUFFICES ASSUME poll.phase = "fetch", NEW t \in DOMAIN poll.index
               PROVE  t \in raced' \/ row'[t].prio = poll.index[t].prio
    BY DEF Fetching
  <2>1. t \in Tasks
    BY DEF Board, Indexed
  <2>2. t \in raced \/ row[t].prio = poll.index[t].prio
    BY DEF Board, Fetching
  <2>3. QED
    BY <2>1, <2>2, <1>1
<1>4. ASSUME NEW t \in Tasks, NEW c, Agrees(t, c)
      PROVE  row'[t].column = c.column /\ (Excepted(t)' \/ Option[row'[t].prio] = c.option)
  BY <1>1, <1>4 DEF Agrees
<1>5. Reading'
  <2> SUFFICES ASSUME poll.phase = "items", NEW t \in DOMAIN poll.page
               PROVE  /\ t \in poll.todo => poll.page[t].updated > mark
                      /\ Behind(t) => card[t] = poll.page[t]
                      /\ Behind(t) /\ t \in DOMAIN poll.index /\ t \in poll.todo =>
                           Excepted(t)' \/ row'[t].prio = poll.index[t].prio
                      /\ Behind(t) /\ t \in DOMAIN poll.index /\ t \notin poll.todo /\ poll.page[t].updated > mark =>
                           /\ row'[t].column = poll.page[t].column
                           /\ Excepted(t)' \/ Option[row'[t].prio] = poll.page[t].option
    BY DEF Reading, Behind, Agrees
  <2>1. t \in DOMAIN poll.index => t \in Tasks
    BY DEF Board, Indexed
  <2>2. QED
    BY <2>1, <1>1, <1>4 DEF Board, Reading
<1>6. Passed'
  BY <1>4 DEF Board, Passed, Agrees
<1>7. QED
  BY <1>2, <1>3, <1>5, <1>6 DEF Board

(* A step that stamps one card: the card is ahead of the watermark, and the *)
(* poll in hand will not pass it.                                           *)
LEMMA StampKeeps ==
  ASSUME Board, NEW t \in Tasks, UNCHANGED <<row, poll, mark, raced>>, card'[t].updated > mark,
         \A u \in DOMAIN poll.page : ~(card'[t].updated < poll.page[u].updated),
         \A u \in Tasks : u # t => card'[u] = card[u] /\ (Excepted(u) => Excepted(u)'),
         card' \in [Tasks -> Card], mark \in Nat, DOMAIN poll.page \subseteq Tasks
  PROVE  Board'
<1>1. Indexed' /\ Fetching'
  BY DEF Board, Indexed, Fetching
<1>2. ASSUME NEW u \in Tasks, NEW c, u # t, Agrees(u, c)
      PROVE  row[u].column = c.column /\ (Excepted(u)' \/ Option[row[u].prio] = c.option)
  BY <1>2 DEF Agrees
<1>3. Reading'
  <2> SUFFICES ASSUME poll.phase = "items", NEW u \in DOMAIN poll.page
               PROVE  /\ u \in poll.todo => poll.page[u].updated > mark
                      /\ Behind(u)' => card'[u] = poll.page[u]
                      /\ Behind(u)' /\ u \in DOMAIN poll.index /\ u \in poll.todo =>
                           Excepted(u)' \/ row[u].prio = poll.index[u].prio
                      /\ Behind(u)' /\ u \in DOMAIN poll.index /\ u \notin poll.todo /\ poll.page[u].updated > mark =>
                           /\ row[u].column = poll.page[u].column
                           /\ Excepted(u)' \/ Option[row[u].prio] = poll.page[u].option
    BY DEF Reading, Agrees
  <2>1. u \in poll.todo => poll.page[u].updated > mark
    BY DEF Board, Reading
  <2>2. CASE u = t
    <3>1. ~Behind(u)'
      BY <2>2 DEF Behind
    <3>2. QED
      BY <2>1, <3>1
  <2>3. CASE u # t
    <3>1. u \in Tasks /\ card'[u] = card[u]
      BY <2>3
    <3>2. Behind(u)' => Behind(u)
      BY <3>1 DEF Behind
    <3>3. QED
      BY <2>1, <2>3, <3>1, <3>2, <1>2 DEF Board, Reading
  <2>4. QED
    BY <2>2, <2>3
<1>4. Passed'
  <2> SUFFICES ASSUME NEW u \in Tasks, card'[u].updated <= mark
               PROVE  /\ row[u].column = card'[u].column
                      /\ Excepted(u)' \/ Option[row[u].prio] = card'[u].option
    BY DEF Passed, Agrees
  <2>1. u # t
    BY DEF Card
  <2>2. QED
    BY <2>1, <1>2 DEF Board, Passed
<1>5. QED
  BY <1>1, <1>3, <1>4 DEF Board

(* The edits: a new priority owes a push, and is noted between a poll's     *)
(* index and its page.                                                      *)
LEMMA SetPriorityB ==
  ASSUME AInv, Board, NEW t \in Tasks, NEW p \in Priorities, SetPriority(t, p)
  PROVE  Board'
<1> DEFINE e == Entry("prio", Option[p])
<1>1. e \in Entries /\ e.kind = "prio"
  BY EntriesMade DEF Entry
<1>2. queue[t] \in Seq(Entries) /\ queue' = [queue EXCEPT ![t] = Insert(t, e)] /\ job' = job
  BY DEF AInv, Rows, SetPriority
<1> HIDE DEF e
<1>3. Grown(queue[t], Insert(t, e)) /\ Insert(t, e) = Append(queue[t], e)
  BY <1>1, <1>2, Inserted
<1>4. /\ queue'[t] = Append(queue[t], e)
      /\ \A u \in Tasks : Grown(queue[u], queue'[u]) /\ First(u)' = First(u)
  BY <1>2, <1>3, QueueGrows DEF AInv
<1>5. \A u \in Tasks : First(u) \in {1, 2} /\ (First(u) = 2 => queue[u] # <<>>)
  BY DEF First, AInv, Rows
<1>6. Ahead(queue'[t], First(t)')
  BY <1>1, <1>2, <1>4, <1>5, Appended
<1>7. \A u \in Tasks : Ahead(queue[u], First(u)) => Ahead(queue'[u], First(u)')
  BY <1>4, <1>5 DEF Grown
<1>8. raced \subseteq raced' /\ (poll.phase = "fetch" => t \in raced')
  BY DEF SetPriority
<1>9. failed' = failed /\ UNCHANGED <<card, poll, mark>>
  BY DEF SetPriority
<1>10. \A u \in Tasks : /\ row'[u].column = row[u].column
                        /\ u # t => row'[u].prio = row[u].prio
  BY DEF SetPriority, AInv, Rows, Row
<1>11. \A u \in Tasks : Excepted(u) => Excepted(u)'
  BY <1>7, <1>8, <1>9 DEF Excepted
<1>12. Excepted(t)'
  BY <1>6 DEF Excepted
<1>13. QED
  BY <1>8, <1>9, <1>10, <1>11, <1>12, LocalKeeps

(* A type edit leaves the pushes of priorities where they are.              *)
LEMMA SetIssueTypeB ==
  ASSUME AInv, Board, NEW t \in Tasks, NEW v \in Types \cup {"null"}, SetIssueType(t, v)
  PROVE  Board'
<1> DEFINE e == Entry("type", v)
           r == IF Projectable(v) THEN Insert(t, e) ELSE queue[t]
<1>1. e \in Entries
  BY EntriesMade
<1>2. queue[t] \in Seq(Entries) /\ job' = job
  BY DEF AInv, Rows, SetIssueType
<1>3. queue' = [queue EXCEPT ![t] = r]
  BY DEF SetIssueType, AInv, Rows
<1>4. Grown(queue[t], r)
  <2>1. Grown(queue[t], queue[t])
    BY <1>2 DEF Grown
  <2>2. Grown(queue[t], Insert(t, e))
    BY <1>1, <1>2, Inserted
  <2>3. QED
    BY <2>1, <2>2
<1> HIDE DEF r
<1>5. \A u \in Tasks : Grown(queue[u], queue'[u]) /\ First(u)' = First(u) /\ First(u) \in {1, 2}
  BY <1>2, <1>3, <1>4, QueueGrows DEF AInv, First
<1>6. UNCHANGED <<card, poll, mark, raced, failed>>
  BY DEF SetIssueType
<1>7. \A u \in Tasks : Excepted(u) => Excepted(u)'
  BY <1>5, <1>6 DEF Excepted, Grown
<1>8. \A u \in Tasks : row'[u].column = row[u].column /\ row'[u].prio = row[u].prio
  BY DEF SetIssueType, AInv, Rows, Row
<1>9. QED
  BY <1>6, <1>7, <1>8, LocalKeeps

(* So does a row for an armed flag.                                         *)
LEMMA EnqueueB ==
  ASSUME AInv, Board, NEW t \in Tasks, EnqueuePendingIssueTypes(t)
  PROVE  Board'
<1> DEFINE e == Entry("type", row[t].type)
<1>1. e \in Entries
  BY EntriesMade DEF AInv, Rows, Row
<1>2. queue[t] \in Seq(Entries) /\ queue' = [queue EXCEPT ![t] = Insert(t, e)] /\ job' = job
  BY DEF AInv, Rows, EnqueuePendingIssueTypes
<1> HIDE DEF e
<1>3. Grown(queue[t], Insert(t, e))
  BY <1>1, <1>2, Inserted
<1>4. \A u \in Tasks : Grown(queue[u], queue'[u]) /\ First(u)' = First(u) /\ First(u) \in {1, 2}
  BY <1>2, <1>3, QueueGrows DEF AInv, First
<1>5. UNCHANGED <<card, poll, mark, raced, failed, row>>
  BY DEF EnqueuePendingIssueTypes
<1>6. \A u \in Tasks : Excepted(u) => Excepted(u)'
  BY <1>4, <1>5 DEF Excepted, Grown
<1>7. QED
  BY <1>5, <1>6, LocalKeeps

(* A refresh, a claim and a stutter: no row, no card and no queue changes.  *)
LEMMA QuietB ==
  ASSUME AInv, Board, UNCHANGED <<row, queue, failed, card, poll, mark, raced>>,
         \A t \in Tasks : First(t) \in {1, 2} /\ (First(t)' = First(t) \/ First(t)' = 1)
  PROVE  Board'
<1>1. ASSUME NEW t \in Tasks, Ahead(queue[t], First(t)) PROVE Ahead(queue[t], First(t)')
  <2>1. queue[t] \in Seq(Entries)
    BY DEF AInv, Rows
  <2>2. PICK i \in DOMAIN queue[t] : i >= First(t) /\ queue[t][i].kind = "prio"
    BY <1>1 DEF Ahead
  <2>3. i \in Nat /\ i >= First(t)'
    BY <2>1, <2>2
  <2>4. QED
    BY <2>2, <2>3 DEF Ahead
<1>2. \A t \in Tasks : Excepted(t) => Excepted(t)'
  BY <1>1 DEF Excepted
<1>3. QED
  BY <1>2, LocalKeeps
-----------------------------------------------------------------------------
(* A failed call: a priority that is given up is among the dead letters.    *)
LEMMA CallFailsB ==
  ASSUME AInv, Board, CallFails
  PROVE  Board'
<1> DEFINE t == job.task
           e == queue[t][1]
<1>1. /\ t \in Tasks /\ queue[t] \in Seq(Entries) /\ queue[t] # <<>> /\ Head(queue[t]) = e
      /\ e \in Entries /\ queue \in [Tasks -> Seq(Entries)] /\ job.phase = "call" /\ job' = Idle
  BY OnTask DEF CallFails, Retried, AInv, Rows
<1>2. \A u \in Tasks : u # t => queue'[u] = queue[u]
  BY CallFailsA
<1>3. UNCHANGED <<row, card, poll, mark, raced>>
  BY DEF CallFails
<1>4. \A u \in Tasks : First(u) = 1 /\ First(u)' = 1
  BY <1>1 DEF First, Idle
<1>5. failed \subseteq failed'
  BY <1>1 DEF CallFails, Retried
<1>6. ASSUME NEW u \in Tasks, u # t, Excepted(u) PROVE Excepted(u)'
  BY <1>2, <1>3, <1>4, <1>5, <1>6 DEF Excepted
<1>7. Ahead(queue[t], 1) => Ahead(queue'[t], 1) \/ \E o \in Options : <<t, "prio", o>> \in failed'
  <2>1. CASE e.attempts + 1 < MaxAttempts
    <3> DEFINE r == [queue[t] EXCEPT ![1].attempts = @ + 1]
    <3>1. queue' = [queue EXCEPT ![t] = r]
      BY <2>1, <1>1 DEF CallFails, Retried
    <3>2. Ahead(queue[t], 1) => Ahead(r, 1)
      BY <2>1, <1>1, Counted
    <3> HIDE DEF r
    <3>3. queue'[t] = r
      BY <1>1, <3>1
    <3>4. QED
      BY <3>2, <3>3
  <2>2. CASE ~(e.attempts + 1 < MaxAttempts)
    <3>1. queue'[t] = Tail(queue[t]) /\ <<t, e.kind, e.value>> \in failed'
      BY <2>2, <1>1 DEF CallFails, Retried
    <3>2. e.kind = "prio" => e.value \in Options
      BY <1>1 DEF Entries
    <3>3. Ahead(queue[t], 1) => Ahead(Tail(queue[t]), 1) \/ e.kind = "prio"
      BY <1>1, Dropped
    <3>4. QED
      BY <3>1, <3>2, <3>3
  <2>3. QED
    BY <2>1, <2>2
<1>8. ASSUME NEW u \in Tasks, u = t, Excepted(u) PROVE Excepted(u)'
  <2>1. CASE Ahead(queue[u], 1)
    BY <2>1, <1>4, <1>7, <1>8 DEF Excepted
  <2>2. CASE u \in raced \/ \E o \in Options : <<u, "prio", o>> \in failed
    BY <2>2, <1>3, <1>5 DEF Excepted
  <2>3. QED
    BY <2>1, <2>2, <1>4, <1>8 DEF Excepted
<1>9. \A u \in Tasks : Excepted(u) => Excepted(u)'
  BY <1>6, <1>8
<1>10. QED
  BY <1>3, <1>9, LocalKeeps

(* A finished row: the pushes behind it are still to come.                  *)
LEMMA FinishB ==
  ASSUME AInv, Board, Finish
  PROVE  Board'
<1> DEFINE t == job.task
<1>1. /\ job' = Idle /\ t \in Tasks /\ queue[t] \in Seq(Entries) /\ queue[t] # <<>> /\ First(t) = 2
      /\ queue'[t] = Tail(queue[t])
      /\ \A u \in Tasks : u # t => queue'[u] = queue[u]
      /\ \A u \in Tasks : row'[u].prio = row[u].prio /\ row'[u].column = row[u].column
  BY FinishA
<1>2. UNCHANGED <<failed, card, poll, mark, raced>>
  BY DEF Finish
<1>3. \A u \in Tasks : First(u)' = 1 /\ (u # t => First(u) = 1)
  BY <1>1 DEF First, Idle
<1>4. Ahead(queue[t], 2) => Ahead(queue'[t], 1)
  BY <1>1, Dropped
<1>5. \A u \in Tasks : Excepted(u) => Excepted(u)'
  BY <1>1, <1>2, <1>3, <1>4 DEF Excepted
<1>6. QED
  BY <1>1, <1>2, <1>5, LocalKeeps

(* A call stamps the card it changes.                                       *)
LEMMA CallB ==
  ASSUME AInv, Board, Call
  PROVE  Board'
<1> DEFINE t == job.task
<1>1. /\ AInv' /\ job' = [phase |-> "finish", task |-> t]
      /\ t \in Tasks /\ card'[t].updated > mark
      /\ \A u \in Tasks : u # t => card'[u] = card[u]
      /\ \A u \in DOMAIN poll.page : ~(card'[t].updated < poll.page[u].updated)
  BY CallA
<1>2. UNCHANGED <<row, queue, failed, poll, mark, raced>>
  BY DEF Call
<1>3. \A u \in Tasks : u # t => First(u) = 1 /\ First(u)' = 1
  BY <1>1 DEF First
<1>4. \A u \in Tasks : u # t => (Excepted(u) => Excepted(u)')
  BY <1>2, <1>3 DEF Excepted
<1>5. card' \in [Tasks -> Card] /\ mark \in Nat /\ DOMAIN poll.page \subseteq Tasks
  BY <1>1 DEF AInv, Rows, Clocks, Polls
<1>6. QED
  BY <1>1, <1>2, <1>4, <1>5, StampKeeps

(* A change by others stamps the card it changes.                           *)
LEMMA BoardEditB ==
  ASSUME AInv, Board, NEW t \in Tasks, BoardEdit(t)
  PROVE  Board'
<1>1. /\ AInv' /\ card'[t].updated > mark
      /\ \A u \in Tasks : u # t => card'[u] = card[u]
      /\ \A u \in DOMAIN poll.page : ~(card'[t].updated < poll.page[u].updated)
  BY BoardEditA
<1>2. UNCHANGED <<row, queue, job, failed, poll, mark, raced>>
  BY DEF BoardEdit
<1>3. \A u \in Tasks : Excepted(u) => Excepted(u)'
  BY <1>2 DEF Excepted, First
<1>4. card' \in [Tasks -> Card] /\ mark \in Nat /\ DOMAIN poll.page \subseteq Tasks
  BY <1>1 DEF AInv, Rows, Clocks, Polls
<1>5. QED
  BY <1>1, <1>2, <1>3, <1>4, StampKeeps

(* A poll that starts: it indexes the rows of all tasks.                    *)
LEMMA IndexB ==
  ASSUME AInv, Board, Wide, IndexStaleCandidates
  PROVE  Board'
<1>1. PICK S \in SUBSET Tasks :
        /\ Cardinality(S) = Min({PollLimit, Cardinality(Tasks)})
        /\ poll' = [NoPoll EXCEPT !.phase = "fetch", !.index = [t \in S |-> row[t]]]
  BY DEF IndexStaleCandidates
<1>2. S = Tasks
  <2>1. Cardinality(Tasks) \in Nat /\ PollLimit \in Nat
    BY FS_CardinalityType, FieldsConstants DEF Wide
  <2>2. {PollLimit, Cardinality(Tasks)} \in SUBSET Nat
    BY <2>1
  <2>3. /\ Min({PollLimit, Cardinality(Tasks)}) \in {PollLimit, Cardinality(Tasks)}
        /\ Min({PollLimit, Cardinality(Tasks)}) <= Cardinality(Tasks)
    BY <2>2, MinOfNats
  <2>4. Cardinality(S) = Cardinality(Tasks)
    BY <1>1, <2>1, <2>3 DEF Wide
  <2>5. QED
    BY <2>4, FS_Subset DEF Wide
<1>3. poll' = [phase |-> "fetch", index |-> [t \in Tasks |-> row[t]], page |-> <<>>, todo |-> {}, partial |-> FALSE]
  BY <1>1, <1>2 DEF NoPoll
<1>4. poll'.phase = "fetch" /\ DOMAIN poll'.index = Tasks /\ \A t \in Tasks : poll'.index[t] = row[t]
  BY <1>3
<1>5. UNCHANGED <<row, queue, job, failed, card, mark, raced>>
  BY DEF IndexStaleCandidates
<1>6. Indexed' /\ Fetching' /\ Reading'
  BY <1>4, <1>5 DEF Indexed, Fetching, Reading
<1>7. Passed'
  BY <1>5 DEF Board, Passed, Agrees, Excepted, First
<1>8. QED
  BY <1>6, <1>7 DEF Board

(* A poll that reads: the page is of the cards as they are.                 *)
LEMMA PageB ==
  ASSUME AInv, Board, PollProjectItems
  PROVE  Board'
<1>1. PICK S \in SUBSET Tasks :
        poll' = [poll EXCEPT !.phase = "items", !.page = [t \in S |-> card[t]], !.partial = S # Tasks,
                             !.todo = {t \in S : card[t].updated > mark}]
  BY DEF PollProjectItems
<1>2. poll' = [phase |-> "items", index |-> poll.index, page |-> [t \in S |-> card[t]],
               todo |-> {t \in S : card[t].updated > mark}, partial |-> S # Tasks]
  BY <1>1 DEF AInv, Polls
<1>3. /\ poll'.phase = "items" /\ poll'.index = poll.index /\ DOMAIN poll'.page = S
      /\ \A t \in S : poll'.page[t] = card[t] /\ (t \in poll'.todo <=> card[t].updated > mark)
  BY <1>2
<1>4. poll.phase = "fetch" /\ UNCHANGED <<row, queue, job, failed, card, mark, raced>>
  BY DEF PollProjectItems
<1>5. Indexed' /\ Fetching'
  BY <1>3, <1>4 DEF Board, Indexed, Fetching
<1>6. \A t \in DOMAIN poll.index : t \in raced \/ row[t].prio = poll.index[t].prio
  BY <1>4 DEF Board, Fetching
<1>7. \A t \in Tasks : t \in raced => Excepted(t)'
  BY <1>4 DEF Excepted
<1>8. Reading'
  <2> SUFFICES ASSUME NEW t \in S
               PROVE  /\ t \in poll'.todo => poll'.page[t].updated > mark
                      /\ card[t] = poll'.page[t]
                      /\ t \in DOMAIN poll.index => Excepted(t)' \/ row[t].prio = poll.index[t].prio
                      /\ t \notin poll'.todo => ~(poll'.page[t].updated > mark)
    BY <1>3, <1>4 DEF Reading
  <2>1. QED
    BY <1>3, <1>6, <1>7
<1>9. Passed'
  BY <1>4 DEF Board, Passed, Agrees, Excepted, First
<1>10. QED
  BY <1>5, <1>8, <1>9 DEF Board
-----------------------------------------------------------------------------
(* An item that is reconciled agrees with the page, unless a push waits.    *)
LEMMA ReconcileB ==
  ASSUME AInv, Board, NEW t \in Tasks, ReconcileItem(t)
  PROVE  Board'
<1>1. /\ AInv' /\ t \in DOMAIN poll.page
      /\ poll'.phase = "items" /\ poll'.index = poll.index /\ poll'.page = poll.page
      /\ poll'.todo = poll.todo \ {t} /\ poll'.partial = poll.partial
      /\ \A u \in Tasks : u # t => row'[u] = row[u]
      /\ t \in DOMAIN poll.index =>
           row'[t].prio = ReconcilePriority(t) /\ row'[t].column = poll.page[t].column
  BY ReconcileA
<1>2. /\ poll.phase = "items" /\ t \in poll.todo /\ t \in DOMAIN poll.index
      /\ UNCHANGED <<queue, job, failed, card, mark, raced>>
  BY DEF ReconcileItem, Board, Indexed
<1>3. \A u \in Tasks : Excepted(u)' <=> Excepted(u)
  BY <1>2 DEF Excepted, First
<1>4. \A u \in Tasks : Behind(u)' <=> Behind(u)
  BY <1>1, <1>2 DEF Behind
<1>5. poll.page[t].updated > mark
  BY <1>1, <1>2 DEF Board, Reading
<1>6. Indexed' /\ Fetching'
  BY <1>1, <1>2 DEF Board, Indexed, Fetching
<1>7. Behind(t) => Excepted(t) \/ Option[row'[t].prio] = poll.page[t].option
  <2> SUFFICES ASSUME Behind(t) PROVE Excepted(t) \/ Option[row'[t].prio] = poll.page[t].option
    OBVIOUS
  <2>1. Excepted(t) \/ row[t].prio = poll.index[t].prio
    BY <1>1, <1>2 DEF Board, Reading
  <2>2. CASE Option[poll.index[t].prio] = poll.page[t].option
    BY <2>1, <2>2, <1>1, <1>2 DEF ReconcilePriority
  <2>3. CASE HasPendingPriorityPush(t)
    <3>1. PICK i \in DOMAIN queue[t] : (i > 1 \/ job.task # t) /\ queue[t][i].kind = "prio"
      BY <2>3 DEF HasPendingPriorityPush
    <3>2. queue[t] \in Seq(Entries)
      BY DEF AInv, Rows
    <3>3. i \in Nat /\ i >= First(t)
      BY <3>1, <3>2 DEF First
    <3>4. QED
      BY <3>1, <3>3 DEF Excepted, Ahead
  <2>4. CASE Option[poll.index[t].prio] # poll.page[t].option /\ ~HasPendingPriorityPush(t)
    <3>1. row'[t].prio = InverseOption(poll.page[t].option)
      BY <2>4, <1>1, <1>2 DEF ReconcilePriority
    <3>2. poll.page[t].option \in Options
      BY <1>1 DEF AInv, Polls, Card
    <3>3. QED
      BY <3>1, <3>2, InverseIs
  <2>5. QED
    BY <2>2, <2>3, <2>4
<1>8. Reading'
  <2> SUFFICES ASSUME NEW u \in DOMAIN poll.page
               PROVE  /\ u \in poll'.todo => poll.page[u].updated > mark
                      /\ Behind(u) => card[u] = poll.page[u]
                      /\ Behind(u) /\ u \in DOMAIN poll.index /\ u \in poll'.todo =>
                           Excepted(u) \/ row'[u].prio = poll.index[u].prio
                      /\ Behind(u) /\ u \in DOMAIN poll.index /\ u \notin poll'.todo /\ poll.page[u].updated > mark =>
                           /\ row'[u].column = poll.page[u].column
                           /\ Excepted(u) \/ Option[row'[u].prio] = poll.page[u].option
    <3>1. \A w \in DOMAIN poll'.page : w \in Tasks /\ (Behind(w)' <=> Behind(w)) /\ (Excepted(w)' <=> Excepted(w))
      BY <1>1, <1>3, <1>4 DEF AInv, Polls
    <3>2. QED
      BY <3>1, <1>1, <1>2 DEF Reading, Agrees
  <2>1. u \in Tasks
    BY DEF AInv, Polls
  <2>2. CASE u = t
    BY <2>2, <1>1, <1>2, <1>5, <1>7 DEF Board, Reading
  <2>3. CASE u # t
    BY <2>1, <2>3, <1>1, <1>2 DEF Board, Reading, Agrees
  <2>4. QED
    BY <2>2, <2>3
<1>9. Passed'
  <2> SUFFICES ASSUME NEW u \in Tasks, card[u].updated <= mark
               PROVE  row'[u].column = card[u].column /\ (Excepted(u) \/ Option[row'[u].prio] = card[u].option)
    BY <1>2, <1>3 DEF Passed, Agrees
  <2>1. card[u].updated \in Nat /\ mark \in Nat
    BY DEF AInv, Rows, Card, Clocks
  <2>2. u # t
    <3>1. poll.page[t].updated \in Nat /\ poll.page[t].updated <= card[t].updated
      BY <1>1 DEF AInv, Polls, Card
    <3>2. QED
      BY <3>1, <2>1, <1>5
  <2>3. QED
    BY <2>2, <1>1 DEF Board, Passed, Agrees
<1>10. QED
  BY <1>6, <1>8, <1>9 DEF Board

(* The end of a poll: the watermark stops a second before the newest item,  *)
(* so that what it passes was on the page as it is now, and reconciled.     *)
LEMMA PollEndB ==
  ASSUME AInv, Board, PollEnd
  PROVE  Board'
<1>1. /\ AInv' /\ poll'.phase = "idle"
      /\ \A t \in Tasks : row'[t].prio = row[t].prio /\ row'[t].column = row[t].column
  BY PollEndA
<1>2. poll.phase = "items" /\ poll.todo = {} /\ UNCHANGED <<queue, job, failed, card, raced>>
  BY DEF PollEnd
<1>3. \A t \in Tasks : Excepted(t)' <=> Excepted(t)
  BY <1>2 DEF Excepted, First
<1>4. Indexed' /\ Fetching' /\ Reading'
  BY <1>1 DEF Indexed, Fetching, Reading
<1>5. Passed'
  <2> SUFFICES ASSUME NEW t \in Tasks, card[t].updated <= mark'
               PROVE  row[t].column = card[t].column /\ (Excepted(t) \/ Option[row[t].prio] = card[t].option)
    BY <1>1, <1>2, <1>3 DEF Passed, Agrees
  <2>1. CASE card[t].updated <= mark
    BY <2>1 DEF Board, Passed, Agrees
  <2>2. CASE ~(card[t].updated <= mark)
    <3>1. card[t].updated \in Nat /\ mark \in Nat
      BY DEF AInv, Rows, Card, Clocks
    <3>2. mark' = Advance(poll.page) /\ ~poll.partial
      BY <2>2 DEF PollEnd
    <3>3. PICK u \in DOMAIN poll.page : mark' = poll.page[u].updated - 1
      BY <2>2, <3>2, Advanced DEF AInv
    <3>4. poll.page[u].updated \in Nat
      BY DEF AInv, Polls, Card
    <3>5. Behind(t)
      BY <3>1, <3>3, <3>4 DEF Behind
    <3>6. t \in DOMAIN poll.page /\ t \in DOMAIN poll.index
      BY <3>2, <1>2 DEF AInv, Polls, Board, Indexed
    <3>7. card[t] = poll.page[t]
      BY <3>5, <3>6, <1>2 DEF Board, Reading
    <3>8. poll.page[t].updated > mark
      BY <2>2, <3>1, <3>7
    <3>9. Agrees(t, poll.page[t])
      BY <3>5, <3>6, <3>8, <1>2 DEF Board, Reading
    <3>10. QED
      BY <3>7, <3>9 DEF Agrees
  <2>3. QED
    BY <2>1, <2>2
<1>6. QED
  BY <1>4, <1>5 DEF Board

(* A poll that fails is given up with its page.                             *)
LEMMA PollFailsB ==
  ASSUME Board, PollFails
  PROVE  Board'
<1>1. poll'.phase = "idle" /\ UNCHANGED <<row, queue, job, failed, card, mark, raced>>
  BY NoPollA DEF PollFails
<1>2. Passed'
  BY <1>1 DEF Board, Passed, Agrees, Excepted, First
<1>3. QED
  BY <1>1, <1>2 DEF Board, Indexed, Fetching, Reading

(* A restart begins again with a watermark behind every card.               *)
LEMMA RestartB ==
  ASSUME AInv, Board, Restart
  PROVE  Board'
<1>1. poll'.phase = "idle" /\ mark' = 0 /\ card' = card
  BY NoPollA DEF Restart
<1>2. \A t \in Tasks : card[t].updated \in Nat /\ 1 <= card[t].updated
  BY DEF AInv, Rows, Card, Clocks
<1>3. \A t \in Tasks : ~(card'[t].updated <= mark')
  BY <1>1, <1>2
<1>4. Passed'
  BY <1>3 DEF Passed
<1>5. QED
  BY <1>1, <1>4 DEF Board, Indexed, Fetching, Reading

(* Every step keeps Board, when a poll indexes every task.                  *)
LEMMA StepB ==
  ASSUME Wide, AInv, Board, [Next]_vars
  PROVE  Board'
<1>1. CASE Edit
  <2>1. ASSUME NEW S \in SUBSET Types, Refresh(S) PROVE Board'
    BY <2>1, QuietB DEF Refresh, First
  <2>2. QED
    BY <1>1, <2>1, SetPriorityB, SetIssueTypeB DEF Edit
<1>2. CASE \E t \in Tasks : BoardEdit(t)
  BY <1>2, BoardEditB
<1>3. CASE Drain
  <2>1. ASSUME NEW t \in Tasks, Claim(t) PROVE Board'
    BY <2>1, QuietB DEF Claim, First
  <2>2. QED
    BY <1>3, <2>1, EnqueueB, CallB, FinishB DEF Drain
<1>4. CASE Poll
  BY <1>4, IndexB, PageB, ReconcileB, PollEndB DEF Poll
<1>5. CASE CallFails \/ PollFails \/ Restart
  BY <1>5, CallFailsB, PollFailsB, RestartB
<1>6. CASE UNCHANGED vars
  BY <1>6, QuietB DEF vars, First
<1>7. QED
  BY <1>1, <1>2, <1>3, <1>4, <1>5, <1>6 DEF Next

(* It holds at the start, where the watermark is behind every card.         *)
LEMMA InitB == Init => Board
<1> SUFFICES ASSUME Init PROVE Board
  OBVIOUS
<1>1. poll.phase = "idle"
  BY DEF Init, NoPoll
<1>2. \A t \in Tasks : ~(card[t].updated <= mark)
  BY DEF Init
<1>3. QED
  BY <1>1, <1>2 DEF Board, Indexed, Fetching, Reading, Passed

(* It always holds.                                                         *)
LEMMA AlwaysB == ASSUME Wide PROVE Spec => []Board
<1>1. Init => AInv /\ Board
  BY InitA, InitB
<1>2. AInv /\ Board /\ [Next]_vars => (AInv /\ Board)'
  BY StepA, StepB
<1>3. QED
  BY <1>1, <1>2, PTL DEF Spec
-----------------------------------------------------------------------------
(* Types and ranges, and the compare-and-clear of the type's flag: a type   *)
(* whose flag is down is the type on GitHub, whatever the order of edits,   *)
(* passes, failed calls and restarts (clear_issue_type_pending).            *)
LEMMA TypesFollow == ASSUME AInv PROVE TypeOK /\ TypeIsDelivered
<1>1. ASSUME NEW t \in Tasks, NEW i \in DOMAIN queue[t]
      PROVE  /\ queue[t][i].kind = "prio" => queue[t][i].value \in Options
             /\ queue[t][i].kind = "type" => queue[t][i].value \in Types \cup {"null"}
             /\ queue[t][i].attempts < MaxAttempts
  <2>1. queue[t] \in Seq(Entries)
    BY DEF AInv, Rows
  <2>2. queue[t][i] \in Entries
    BY <2>1
  <2>3. queue[t][i].attempts \in 0 .. MaxAttempts - 1 /\ MaxAttempts \in Nat
    BY <2>2, FieldsConstants DEF Entries
  <2>4. queue[t][i].attempts < MaxAttempts
    BY <2>3
  <2>5. QED
    BY <2>2, <2>4 DEF Entries
<1>2. card \in [Tasks -> [option: Options, type: Types \cup {"null"}, column: Columns, updated: 1..clock]]
  <2>1. card \in [Tasks -> Card] /\ clock \in Nat
    BY DEF AInv, Rows, Clocks
  <2>2. ASSUME NEW t \in Tasks
        PROVE  card[t] \in [option: Options, type: Types \cup {"null"}, column: Columns, updated: 1..clock]
    <3>1. card[t] \in Card
      BY <2>1
    <3>2. 1 <= card[t].updated /\ card[t].updated <= clock
      BY DEF AInv, Clocks
    <3>3. card[t].updated \in 1 .. clock
      BY <3>1, <3>2, <2>1 DEF Card
    <3>4. QED
      BY <3>1, <3>3 DEF Card
  <2>3. QED
    BY <2>1, <2>2
<1>3. mark <= clock
  BY DEF AInv, Clocks
<1>4. TypeOK
  BY <1>1, <1>2, <1>3 DEF TypeOK, AInv, Rows, Polls
<1>5. TypeIsDelivered
  BY DEF TypeIsDelivered, AInv, TypeRows
<1>6. QED
  BY <1>4, <1>5

(* The watermark passes nothing unreconciled.                               *)
LEMMA NothingPassed == ASSUME AInv, Passed PROVE NothingMissed
<1> SUFFICES ASSUME NEW t \in Tasks, card[t].updated <= mark, queue[t] = <<>>,
                    \A o \in Options : <<t, "prio", o>> \notin failed
             PROVE  /\ row[t].column = card[t].column
                    /\ t \in raced \/ Option[row[t].prio] = card[t].option
  BY DEF NothingMissed
<1>1. ~Ahead(queue[t], First(t))
  <2>1. DOMAIN queue[t] = {}
    OBVIOUS
  <2>2. QED
    BY <2>1 DEF Ahead
<1>2. QED
  BY <1>1 DEF Passed, Agrees, Excepted

(* Types, ranges and types delivered, with no assumption on the size of a   *)
(* poll (clear_issue_type_pending, drain_once).                             *)
THEOREM FieldsTypesFollow == Spec => [](TypeOK /\ TypeIsDelivered)
<1>1. QED
  BY AlwaysA, TypesFollow, PTL

(* Where a poll compares every task of the project (tasks within POLL_LIMIT *)
(* of index_stale_candidates), the rows and the board agree wherever        *)
(* nothing is under way: the watermark of poll_once passes no item that was *)
(* not reconciled, whatever the order of edits, pushes, changes of the same *)
(* second, truncated pages, failed calls and restarts.                      *)
THEOREM FieldsWillAgree == ASSUME Wide PROVE Spec => []FieldsAgree
<1>1. AInv /\ Board => FieldsAgree
  BY TypesFollow, NothingPassed DEF Board, FieldsAgree
<1>2. QED
  BY <1>1, AlwaysA, AlwaysB, PTL
=============================================================================
