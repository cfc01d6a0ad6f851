---------------------------- MODULE SearchProofs ----------------------------
(***************************************************************************)
(* Proofs about the sidecar index for any number of processes, tasks,      *)
(* texts, models, commands and faults: it is one snapshot of the tasks,    *)
(* its vectors fit the texts they stand for, and a search answers from     *)
(* what it reconciled and in the space of its own model. And about the     *)
(* files beside the store: the daemon's log and its follower, the cache of *)
(* the model, the token file.                                              *)
(***************************************************************************)
EXTENDS Search, Files, FiniteSetTheorems, SequenceTheorems, WellFoundedInduction, TLAPS

(***************************************************************************)
(* The invariant.                                                          *)
(***************************************************************************)

Pasts == past \in Seq([Tasks -> SUBSET Contents]) /\ past # <<>>

(* The rows that reconciling snapshot n of the edits ps would leave.        *)
Targets(ps, n) == {row \in Tasks \X Contents : n > 0 /\ row[2] \in ps[n][row[1]]}

(* An id and a row are of one chunk, and there is a largest id.             *)
Unique(cs) ==
  /\ cs \subseteq Chunk /\ IsFiniteSet(cs)
  /\ \A c, d \in cs : c.id = d.id => c = d
  /\ \A c, d \in cs : c.task = d.task /\ c.content = d.content => c = d
  /\ \E n \in Nat : \A c \in cs : c.id <= n

(* The chunks are the rows of a snapshot.                                   *)
Whole(cs, ps, n) == Unique(cs) /\ n \in 0 .. Len(ps) /\ Rows(cs) = Targets(ps, n)

(* A chunk has one vector for an input, and all inputs of whichever model   *)
(* made it; only a rebuild makes vectors of another model than the owner's. *)
Fitting(vs, cs) == \A v \in vs : \E c \in cs : c.id = v.chunk /\ c.content = v.of
Single(vs) == \A v, w \in vs : Same(v, w) => v = w
Covered(vs) ==
  \A v \in vs : \A i \in 0 .. Segments[v.by][v.of] - 1 : \E w \in vs : w.chunk = v.chunk /\ w.seg = i
By(vs, owner) == \A v \in vs : v.by = owner

Embedded(vs, cs) == vs \subseteq Vector /\ Fitting(vs, cs) /\ Single(vs) /\ Covered(vs)
Owned(vs, owner, other) == owner \in Profiles \cup {NoProfile} /\ other \in BOOLEAN /\ (other \/ By(vs, owner))

(* A process: where its model owns the sidecar, and since when the index is *)
(* the snapshot that it reconciled.                                         *)
Local == [pc : Pcs, kind : {"search", "rebuild"}, emb : Profiles \cup {NoProfile}, ro : BOOLEAN,
          meta : Profiles \cup {NoProfile}, snap : Nat, shown : Nat, lex : BOOLEAN, sem : BOOLEAN,
          batch : SUBSET Chunk, done : Nat, disturbed : BOOLEAN]

Kinds(r) ==
  /\ r.pc = "idle" => r = Resting
  /\ r.pc \in {"claim", "covered", "fill", "embed", "rank"} \/ r.sem => r.emb # NoProfile
  /\ r.pc = "covered" => r.ro
  /\ r.pc = "rebuild" => r.kind = "rebuild"
  /\ r.kind = "rebuild" => ~r.lex /\ ~r.sem /\ r.pc \in {"rebuild", "fill", "embed"}
  /\ r.pc \in {"reconcile", "rebuild"} => r.snap > 0

(* What the process believes of the profile.                                *)
Owns(r, owner, other) ==
  /\ r.meta # NoProfile => r.meta = owner
  /\ r.pc \in {"covered", "fill", "embed"} => r.emb = owner \/ (r.kind = "rebuild" /\ other)
  /\ r.sem \/ r.pc = "rank" => r.emb = owner

InLine(r, cs, ps) ==
  r.pc \in {"claim", "fill", "embed", "result", "lexical"} /\ r.lex /\ ~r.ro =>
    r.snap > 0 /\ (r.disturbed \/ Rows(cs) = Targets(ps, r.snap))

Sound(r, ps, cs, owner, other) ==
  /\ r \in Local /\ r.snap <= Len(ps) /\ r.shown <= Len(ps)
  /\ Kinds(r) /\ Owns(r, owner, other) /\ InLine(r, cs, ps)

Inv ==
  /\ Pasts /\ compatible \in BOOLEAN /\ Whole(chunks, past, landed)
  /\ Embedded(vectors, chunks) /\ Owned(vectors, profile, foreign)
  /\ proc \in [Procs -> Local] /\ \A p \in Procs : Sound(proc[p], past, chunks, profile, foreign)

-----------------------------------------------------------------------------
(* A nonempty set of numbers up to a bound has a greatest one.              *)
LEMMA GreatestOf ==
  ASSUME NEW n \in Nat, NEW S \in SUBSET (0 .. n), S # {}
  PROVE  \E i \in S : \A j \in S : j <= i
<1> DEFINE R == {s \in Nat \X Nat : s[1] < s[2]}
           D == {n - x : x \in S}
<1>1. IsWellFoundedOn(R, Nat)
  BY NatLessThanWellFounded DEF OpToRel
<1>2. D \in SUBSET Nat /\ D # {}
  <2>1. ASSUME NEW x \in S PROVE n - x \in Nat
    BY x \in 0 .. n
  <2>2. QED
    BY <2>1
<1>3. PICK d \in D : \A e \in D : <<e, d>> \notin R
  BY <1>1, <1>2, WFMin
<1>4. PICK x \in S : d = n - x
  BY <1>3
<1>5. ASSUME NEW y \in S PROVE y <= x
  <2>1. x \in 0 .. n /\ y \in 0 .. n
    OBVIOUS
  <2>2. n - y \in D
    OBVIOUS
  <2>3. <<n - y, d>> \notin R
    BY <1>3, <2>2
  <2>4. n - y \in Nat /\ d \in Nat
    BY <1>4, <2>1
  <2>5. ~(n - y < d)
    BY <2>3, <2>4
  <2> HIDE DEF D, R
  <2>6. QED
    BY <1>4, <2>1, <2>5
<1>6. QED
  BY <1>5

-----------------------------------------------------------------------------
(***************************************************************************)
(* Chunks.                                                                 *)
(***************************************************************************)

(* SetToSeqs lists a finite set, each member once.                          *)
LEMMA Listed ==
  ASSUME NEW T, IsFiniteSet(T), NEW order \in SetToSeqs(T)
  PROVE  /\ Len(order) \in Nat
         /\ \A i \in 1 .. Len(order) : order[i] \in T
         /\ \A i, j \in 1 .. Len(order) : order[i] = order[j] => i = j
         /\ \A t \in T : \E i \in 1 .. Len(order) : order[i] = t
<1> DEFINE n == Cardinality(T)
<1>1. n \in Nat
  BY FS_CardinalityType
<1>2. /\ order \in [1 .. n -> T]
      /\ \A i, j \in 1 .. n : i # j => order[i] # order[j]
  BY DEF SetToSeqs
<1> HIDE DEF n
<1>3. Len(order) = n
  BY <1>1, <1>2, LenProperties, SeqDef
<1>4. IsFiniteSet(1 .. n) /\ Cardinality(1 .. n) = n
  BY <1>1, FS_Interval
<1>5. order \in Injection(1 .. n, T)
  BY <1>2 DEF Injection, IsInjective
<1>6. order \in Surjection(1 .. n, T)
  BY <1>4, <1>5, FS_Injection DEF n
<1>7. \A t \in T : \E i \in 1 .. n : order[i] = t
  BY <1>6 DEF Surjection
<1>8. QED
  BY <1>1, <1>2, <1>3, <1>7

(* The rows of a snapshot are finitely many.                                *)
LEMMA TargetsFinite == ASSUME NEW ps, NEW n PROVE IsFiniteSet(Targets(ps, n))
<1>1. IsFiniteSet(Tasks \X Contents)
  BY FS_Product, SearchConstants
<1>2. Targets(ps, n) \in SUBSET (Tasks \X Contents)
  BY DEF Targets
<1>3. QED
  BY <1>1, <1>2, FS_Subset

(* A new row's id is above the ids that are kept.                           *)
LEMMA NextIdIsNew ==
  ASSUME NEW cs, Unique(cs)
  PROVE  NextId(cs) \in Nat \ {0} /\ \A c \in cs : c.id < NextId(cs)
<1>1. CASE cs = {}
  BY <1>1 DEF NextId
<1>2. CASE cs # {}
  <2> DEFINE ids == {c.id : c \in cs}
  <2>1. PICK n \in Nat : \A c \in cs : c.id <= n
    BY DEF Unique
  <2>2. \A c \in cs : c.id \in Nat /\ c.id > 0
    BY DEF Unique, Chunk
  <2>3. ids \in SUBSET (0 .. n) /\ ids # {}
    BY <1>2, <2>1, <2>2
  <2>4. \E i \in ids : \A j \in ids : j <= i
    BY <2>3, GreatestOf
  <2>5. \E i \in ids : \A c \in cs : c.id <= i
    BY <2>4
  <2> DEFINE i == CHOOSE i \in ids : \A c \in cs : c.id <= i
  <2>6. i \in ids /\ \A c \in cs : c.id <= i
    BY <2>5
  <2>7. NextId(cs) = 1 + i
    BY <1>2 DEF NextId
  <2>8. i \in Nat
    BY <2>3, <2>6
  <2> HIDE DEF i, ids
  <2>9. QED
    BY <2>2, <2>6, <2>7, <2>8
<1>3. QED
  BY <1>1, <1>2

(* Rows that are not there yet get ids of their own.                        *)
LEMMA InsertedRows ==
  ASSUME NEW cs, Unique(cs), NEW T, IsFiniteSet(T), T \subseteq Tasks \X Contents,
         T \cap Rows(cs) = {}, NEW order \in SetToSeqs(T)
  PROVE  /\ Unique(Inserted(cs, order)) /\ cs \subseteq Inserted(cs, order)
         /\ Rows(Inserted(cs, order)) = Rows(cs) \cup T
<1> DEFINE N == Len(order)
           Row(i) == [id |-> NextId(cs) + i - 1, task |-> order[i][1], content |-> order[i][2]]
           new == {Row(i) : i \in 1 .. N}
<1>1. /\ N \in Nat /\ \A i \in 1 .. N : order[i] \in T
      /\ \A i, j \in 1 .. N : order[i] = order[j] => i = j
      /\ \A t \in T : \E i \in 1 .. N : order[i] = t
  BY Listed
<1>2. NextId(cs) \in Nat \ {0} /\ \A c \in cs : c.id < NextId(cs)
  BY NextIdIsNew
<1>3. cs \subseteq Chunk /\ IsFiniteSet(cs) /\ \A c \in cs : c.id \in Nat
  BY DEF Unique, Chunk
<1>4. Inserted(cs, order) = cs \cup new
  BY DEF Inserted
<1>5. \A i \in 1 .. N : order[i] \in Tasks \X Contents /\ order[i] = <<order[i][1], order[i][2]>>
  BY <1>1
<1>6. \A i \in 1 .. N :
        /\ Row(i) \in Chunk /\ Row(i).id = NextId(cs) + i - 1
        /\ Row(i).task = order[i][1] /\ Row(i).content = order[i][2]
  BY <1>2, <1>5 DEF Chunk
<1>7. IsFiniteSet(new)
  <2> DEFINE g == [i \in 1 .. N |-> Row(i)]
  <2>1. g \in Surjection(1 .. N, new)
    BY DEF Surjection
  <2>2. IsFiniteSet(1 .. N)
    BY <1>1, FS_Interval
  <2>3. QED
    BY <2>1, <2>2, FS_Surjection
<1>8. \A c \in new : \E i \in 1 .. N : c = Row(i)
  OBVIOUS
<1>9. \A i \in 1 .. N : Row(i) \in new
  OBVIOUS
<1> HIDE DEF Row, new, N
<1>10. new \subseteq Chunk
  BY <1>6, <1>8
<1>11. IsFiniteSet(cs \cup new)
  BY <1>3, <1>7, FS_Union
<1>12. \A c \in new : c.id >= NextId(cs) /\ c.id < NextId(cs) + N
  BY <1>1, <1>2, <1>6, <1>8
<1>13. \A c, d \in new : c.id = d.id \/ (c.task = d.task /\ c.content = d.content) => c = d
  <2> SUFFICES ASSUME NEW c \in new, NEW d \in new, c.id = d.id \/ (c.task = d.task /\ c.content = d.content)
               PROVE  c = d
    OBVIOUS
  <2>1. PICK i \in 1 .. N : c = Row(i)
    BY <1>8
  <2>2. PICK j \in 1 .. N : d = Row(j)
    BY <1>8
  <2>3. CASE c.id = d.id
    BY <2>1, <2>2, <2>3, <1>1, <1>2, <1>6
  <2>4. CASE c.task = d.task /\ c.content = d.content
    <3>1. order[i][1] = order[j][1] /\ order[i][2] = order[j][2]
      BY <2>1, <2>2, <2>4, <1>6
    <3>2. order[i] = order[j]
      BY <3>1, <1>5
    <3>3. QED
      BY <3>2, <2>1, <2>2, <1>1
  <2>5. QED
    BY <2>3, <2>4
<1>14. \A c \in new : <<c.task, c.content>> \in T
  BY <1>1, <1>5, <1>6, <1>8
<1>15. \A c \in cs, d \in new : c.id # d.id /\ ~(c.task = d.task /\ c.content = d.content)
  <2> SUFFICES ASSUME NEW c \in cs, NEW d \in new
               PROVE  c.id # d.id /\ ~(c.task = d.task /\ c.content = d.content)
    OBVIOUS
  <2>1. c.id # d.id
    BY <1>2, <1>3, <1>12
  <2>2. <<c.task, c.content>> \in Rows(cs)
    BY DEF Rows
  <2>3. <<d.task, d.content>> \in T
    BY <1>14
  <2>4. QED
    BY <2>1, <2>2, <2>3
<1>16. Unique(cs \cup new)
  <2>1. cs \cup new \subseteq Chunk
    BY <1>3, <1>10
  <2>2. \A c, d \in cs \cup new : c.id = d.id => c = d
    BY <1>13, <1>15 DEF Unique
  <2>3. \A c, d \in cs \cup new : c.task = d.task /\ c.content = d.content => c = d
    BY <1>13, <1>15 DEF Unique
  <2>4. \A c \in cs \cup new : c.id <= NextId(cs) + N
    <3>1. ASSUME NEW c \in cs PROVE c.id <= NextId(cs) + N
      BY <1>1, <1>2, <1>3
    <3>2. ASSUME NEW c \in new PROVE c.id <= NextId(cs) + N
      <4>1. c.id \in Nat
        BY <1>10 DEF Chunk
      <4>2. QED
        BY <4>1, <1>1, <1>2, <1>12
    <3>3. QED
      BY <3>1, <3>2
  <2>5. NextId(cs) + N \in Nat
    BY <1>1, <1>2
  <2>6. QED
    BY <1>11, <2>1, <2>2, <2>3, <2>4, <2>5 DEF Unique
<1>17. Rows(cs \cup new) = Rows(cs) \cup T
  <2>1. ASSUME NEW row \in Rows(cs \cup new) PROVE row \in Rows(cs) \cup T
    <3>1. PICK c \in cs \cup new : row = <<c.task, c.content>>
      BY DEF Rows
    <3>2. QED
      BY <3>1, <1>14 DEF Rows
  <2>2. ASSUME NEW row \in Rows(cs) PROVE row \in Rows(cs \cup new)
    BY DEF Rows
  <2>3. ASSUME NEW row \in T PROVE row \in Rows(cs \cup new)
    <3>1. PICK i \in 1 .. N : order[i] = row
      BY <1>1
    <3>2. row = <<Row(i).task, Row(i).content>> /\ Row(i) \in new
      BY <3>1, <1>5, <1>6, <1>9
    <3>3. QED
      BY <3>2 DEF Rows
  <2>4. QED
    BY <2>1, <2>2, <2>3
<1>18. QED
  BY <1>4, <1>16, <1>17

(* Some of the chunks are unique as all of them.                            *)
LEMMA SomeChunks ==
  ASSUME NEW cs, Unique(cs), NEW kept, kept \subseteq cs
  PROVE  Unique(kept)
<1>1. IsFiniteSet(kept)
  BY FS_Subset DEF Unique
<1>2. QED
  BY <1>1 DEF Unique

(* Removing the chunks that are no longer wanted and inserting those that   *)
(* are missing leaves the rows asked for, and the vectors of chunks kept.   *)
LEMMA Diffed ==
  ASSUME Unique(chunks), Embedded(vectors, chunks), NEW n, DiffChunks(TargetsAt(n))
  PROVE  /\ Unique(chunks') /\ Rows(chunks') = Targets(past, n)
         /\ Embedded(vectors', chunks') /\ vectors' \subseteq vectors
<1> DEFINE T == Targets(past, n)
           kept == {c \in chunks : <<c.task, c.content>> \in T}
           D == T \ Rows(chunks)
<1>1. TargetsAt(n) = T
  BY DEF TargetsAt, Targets
<1>2. PICK order \in SetToSeqs(T \ Rows(chunks)) :
        chunks' = Inserted(kept, order) /\ vectors' = CascadedTo(kept)
  BY <1>1 DEF DiffChunks
<1>3. Unique(kept) /\ kept \subseteq chunks
  BY SomeChunks
<1>4. IsFiniteSet(T \ Rows(chunks))
  BY TargetsFinite, FS_Subset
<1>5. T \ Rows(chunks) \subseteq Tasks \X Contents
  BY DEF Targets
<1>6. Rows(kept) \subseteq Rows(chunks) /\ Rows(kept) \subseteq T
  BY DEF Rows
<1>7. /\ Unique(chunks') /\ kept \subseteq chunks'
      /\ Rows(chunks') = Rows(kept) \cup (T \ Rows(chunks))
  <2>1. D \cap Rows(kept) = {}
    BY <1>6
  <2>2. \E o \in SetToSeqs(D) : chunks' = Inserted(kept, o)
    BY <1>2
  <2>3. IsFiniteSet(D) /\ D \subseteq Tasks \X Contents
    BY <1>4, <1>5
  <2> HIDE DEF kept, D
  <2>4. /\ Unique(chunks') /\ kept \subseteq chunks'
        /\ Rows(chunks') = Rows(kept) \cup D
    BY <1>3, <2>1, <2>2, <2>3, InsertedRows
  <2>5. QED
    BY <2>4 DEF D
<1>8. ASSUME NEW row \in T PROVE row \in Rows(kept) \cup (T \ Rows(chunks))
  <2>1. CASE row \in Rows(chunks)
    BY <2>1 DEF Rows
  <2>2. QED
    BY <2>1
<1>9. Rows(chunks') = T
  BY <1>6, <1>7, <1>8
<1>10. vectors' = {v \in vectors : \E c \in kept : v.chunk = c.id}
  BY <1>2 DEF CascadedTo
<1>11. \A v \in vectors' : \E c \in kept : c.id = v.chunk /\ c.content = v.of
  <2> SUFFICES ASSUME NEW v \in vectors' PROVE \E c \in kept : c.id = v.chunk /\ c.content = v.of
    OBVIOUS
  <2>1. PICK c \in kept : v.chunk = c.id
    BY <1>10
  <2>2. PICK d \in chunks : d.id = v.chunk /\ d.content = v.of
    BY <1>10 DEF Embedded, Fitting
  <2>3. c = d
    BY <2>1, <2>2, <1>3 DEF Unique
  <2>4. QED
    BY <2>2, <2>3
<1> HIDE DEF kept
<1>12. Fitting(vectors', chunks')
  BY <1>7, <1>11 DEF Fitting
<1>13. vectors' \subseteq Vector /\ Single(vectors')
  BY <1>10 DEF Embedded, Single
<1>14. Covered(vectors')
  BY <1>10 DEF Embedded, Covered
<1>15. QED
  BY <1>7, <1>9, <1>10, <1>12, <1>13, <1>14 DEF Embedded

-----------------------------------------------------------------------------
(***************************************************************************)
(* Vectors.                                                                *)
(***************************************************************************)

(* The rows of a batch that pass the guard are of chunks that are there,    *)
(* one for each input that their model plans.                               *)
Input == [chunk : Nat \ {0}, task : Tasks, seg : Nat, of : Contents, by : Profiles]

LEMMA Accepted ==
  ASSUME Unique(chunks), NEW batch \in SUBSET Chunk, NEW f \in Profiles
  PROVE  LET A == {v \in PlanSemanticInputs(batch, f) : Guard(v)} IN
         /\ A \subseteq Input
         /\ \A v \in A : v.by = f /\ \E c \in chunks : c.id = v.chunk /\ c.content = v.of
         /\ \A v \in A : \A i \in 0 .. Segments[f][v.of] - 1 :
              \E u \in A : u.chunk = v.chunk /\ u.seg = i
         /\ \A u, v \in A : Same(u, v) => u = v
<1> DEFINE In(c, i) == [chunk |-> c.id, task |-> c.task, seg |-> i, of |-> c.content, by |-> f]
           A == {v \in PlanSemanticInputs(batch, f) : Guard(v)}
<1>1. \A v \in A : \E c \in batch : \E i \in 0 .. Segments[f][c.content] - 1 : v = In(c, i)
  BY DEF PlanSemanticInputs
<1>2. \A c \in batch : \A i \in 0 .. Segments[f][c.content] - 1 : In(c, i) \in PlanSemanticInputs(batch, f)
  BY DEF PlanSemanticInputs
<1>3. \A c \in batch : c.id \in Nat \ {0} /\ c.task \in Tasks /\ c.content \in Contents
  BY DEF Chunk
<1>4. \A c \in Contents : Segments[f][c] \in Nat \ {0}
  BY SearchConstants
<1>5. \A c \in batch : \A i \in 0 .. Segments[f][c.content] - 1 :
        /\ In(c, i) \in Input
        /\ In(c, i).chunk = c.id /\ In(c, i).task = c.task /\ In(c, i).seg = i
        /\ In(c, i).of = c.content /\ In(c, i).by = f
  BY <1>3, <1>4 DEF Input
<1>6. \A v \in A : \E c \in chunks : c.id = v.chunk /\ c.task = v.task /\ c.content = v.of
  BY DEF Guard
<1> HIDE DEF In
<1>7. A \subseteq Input /\ \A v \in A : v.by = f
  BY <1>1, <1>5
<1>8. ASSUME NEW v \in A, NEW i \in 0 .. Segments[f][v.of] - 1
      PROVE  \E u \in A : u.chunk = v.chunk /\ u.seg = i
  <2>1. PICK c \in batch : \E j \in 0 .. Segments[f][c.content] - 1 : v = In(c, j)
    BY <1>1
  <2>2. v.chunk = c.id /\ v.task = c.task /\ v.of = c.content
    BY <2>1, <1>5
  <2>3. i \in 0 .. Segments[f][c.content] - 1
    BY <2>2
  <2>4. Guard(In(c, i))
    BY <2>2, <2>3, <1>5 DEF Guard
  <2>5. In(c, i) \in A
    BY <2>3, <2>4, <1>2
  <2>6. QED
    BY <2>2, <2>3, <2>5, <1>5
<1>9. ASSUME NEW u \in A, NEW v \in A, Same(u, v) PROVE u = v
  <2>1. PICK c \in chunks : c.id = u.chunk /\ c.task = u.task /\ c.content = u.of
    BY <1>6
  <2>2. PICK d \in chunks : d.id = v.chunk /\ d.task = v.task /\ d.content = v.of
    BY <1>6
  <2>3. u.chunk = v.chunk /\ u.seg = v.seg
    BY <1>9 DEF Same
  <2>4. c = d
    BY <2>1, <2>2, <2>3 DEF Unique
  <2>5. u \in Input /\ v \in Input /\ u.by = v.by
    BY <1>7
  <2> HIDE DEF A
  <2>6. QED
    BY <2>1, <2>2, <2>3, <2>4, <2>5 DEF Input
<1>10. QED
  BY <1>6, <1>7, <1>8, <1>9

(* Storing them fills what is missing and replaces what another model left. *)
LEMMA StoredWhole ==
  ASSUME Unique(chunks), Embedded(vectors, chunks), NEW batch \in SUBSET Chunk, NEW f \in Profiles
  PROVE  LET A == {v \in PlanSemanticInputs(batch, f) : Guard(v)} IN
         Embedded(Stored(A), chunks) /\ (By(vectors, f) => By(Stored(A), f))
<1> DEFINE A == {v \in PlanSemanticInputs(batch, f) : Guard(v)}
           K == {w \in vectors : \A v \in A : Same(v, w) => InputHash(v) = InputHash(w)}
           B == {v \in A : \A w \in vectors : Same(v, w) => InputHash(v) # InputHash(w)}
           N == Stored(A)
<1>1. /\ A \subseteq Input
      /\ \A v \in A : v.by = f /\ \E c \in chunks : c.id = v.chunk /\ c.content = v.of
      /\ \A v \in A : \A i \in 0 .. Segments[f][v.of] - 1 :
           \E u \in A : u.chunk = v.chunk /\ u.seg = i
      /\ \A u, v \in A : Same(u, v) => u = v
  BY Accepted
<1> HIDE DEF A
<1>2. N = K \cup {AsStored(v) : v \in B}
  BY DEF Stored
<1>3. \A v \in A : AsStored(v) \in Vector /\ AsStored(v).chunk = v.chunk /\ AsStored(v).seg = v.seg
                   /\ AsStored(v).of = v.of /\ AsStored(v).by = v.by
  BY <1>1 DEF AsStored, Vector, Input
<1>4. vectors \subseteq Vector /\ Fitting(vectors, chunks) /\ Single(vectors) /\ Covered(vectors)
  BY DEF Embedded
<1>5. \A w \in N : w \in K \/ \E v \in B : w = AsStored(v)
  BY <1>2
<1>6. B \subseteq A /\ K \subseteq vectors
  OBVIOUS
<1>7. ASSUME NEW v \in A PROVE \E w \in N : w.chunk = v.chunk /\ w.seg = v.seg
  <2>1. CASE v \in B
    BY <2>1, <1>2, <1>3
  <2>2. CASE v \notin B
    <3>1. PICK w \in vectors : Same(v, w) /\ InputHash(v) = InputHash(w)
      BY <2>2
    <3>2. ASSUME NEW u \in A, Same(u, w) PROVE InputHash(u) = InputHash(w)
      <4>1. Same(u, v)
        BY <3>1, <3>2 DEF Same
      <4>2. u = v
        BY <4>1, <1>1
      <4>3. QED
        BY <3>1, <4>2
    <3>3. w \in K
      BY <3>2
    <3>4. QED
      BY <3>1, <3>3, <1>2 DEF Same
  <2>3. QED
    BY <2>1, <2>2
<1>8. ASSUME NEW w \in vectors PROVE \E x \in N : x.chunk = w.chunk /\ x.seg = w.seg
  <2>1. CASE w \in K
    BY <2>1, <1>2
  <2>2. CASE w \notin K
    <3>1. PICK v \in A : Same(v, w)
      BY <2>2
    <3>2. QED
      BY <3>1, <1>7 DEF Same
  <2>3. QED
    BY <2>1, <2>2
<1>9. Covered(N)
  <2> SUFFICES ASSUME NEW w \in N, NEW i \in 0 .. Segments[w.by][w.of] - 1
               PROVE  \E x \in N : x.chunk = w.chunk /\ x.seg = i
    BY DEF Covered
  <2>1. CASE w \in K
    <3>1. PICK x \in vectors : x.chunk = w.chunk /\ x.seg = i
      BY <2>1, <1>4, <1>6 DEF Covered
    <3>2. QED
      BY <3>1, <1>8
  <2>2. ASSUME NEW v \in B, w = AsStored(v) PROVE \E x \in N : x.chunk = w.chunk /\ x.seg = i
    <3>1. w.by = f /\ w.of = v.of /\ w.chunk = v.chunk
      BY <2>2, <1>1, <1>3, <1>6
    <3>2. PICK u \in A : u.chunk = v.chunk /\ u.seg = i
      BY <3>1, <1>1, <1>6
    <3>3. QED
      BY <3>1, <3>2, <1>7
  <2>3. QED
    BY <2>1, <2>2, <1>5
<1>10. Single(N)
  <2> SUFFICES ASSUME NEW v \in N, NEW w \in N, Same(v, w) PROVE v = w
    BY DEF Single
  <2>1. CASE v \in K /\ w \in K
    BY <2>1, <1>4, <1>6 DEF Single
  <2>2. ASSUME NEW x \in K, NEW b \in B, NEW y, y = AsStored(b), Same(x, y) \/ Same(y, x) PROVE FALSE
    <3>1. Same(b, x)
      BY <2>2, <1>3, <1>6 DEF Same
    <3>2. QED
      BY <3>1
  <2>3. ASSUME NEW a \in B, NEW b \in B, v = AsStored(a), w = AsStored(b) PROVE v = w
    <3>1. Same(a, b)
      BY <2>3, <1>3, <1>6 DEF Same
    <3>2. a = b
      BY <3>1, <1>1, <1>6
    <3>3. QED
      BY <3>2, <2>3
  <2>4. QED
    BY <2>1, <2>2, <2>3, <1>5
<1>11. Fitting(N, chunks)
  <2> SUFFICES ASSUME NEW w \in N PROVE \E c \in chunks : c.id = w.chunk /\ c.content = w.of
    BY DEF Fitting
  <2>1. CASE w \in K
    BY <2>1, <1>4, <1>6 DEF Fitting
  <2>2. ASSUME NEW v \in B, w = AsStored(v) PROVE \E c \in chunks : c.id = w.chunk /\ c.content = w.of
    BY <2>2, <1>1, <1>3, <1>6
  <2>3. QED
    BY <2>1, <2>2, <1>5
<1>12. N \subseteq Vector
  BY <1>3, <1>4, <1>5, <1>6
<1>13. ASSUME By(vectors, f) PROVE By(N, f)
  BY <1>13, <1>1, <1>3, <1>5, <1>6 DEF By
<1>14. QED
  BY <1>9, <1>10, <1>11, <1>12, <1>13 DEF Embedded, A

-----------------------------------------------------------------------------
(***************************************************************************)
(* Processes.                                                              *)
(***************************************************************************)

(* A step of one process that leaves the chunks as they are.                *)
LEMMA Stores ==
  ASSUME Inv, NEW p \in Procs, NEW r, Becomes(p, r), Sound(r, past, chunks, profile, foreign),
         Embedded(vectors', chunks), Owned(vectors', profile, foreign),
         UNCHANGED <<past, chunks, profile, compatible, landed, foreign>>
  PROVE  Inv'
<1>1. r \in Local
  BY DEF Sound
<1>2. /\ proc' \in [Procs -> Local] /\ proc'[p] = r
      /\ \A q \in Procs : q # p => proc'[q] = proc[q]
  BY <1>1 DEF Inv, Becomes
<1>3. \A q \in Procs : Sound(proc'[q], past, chunks, profile, foreign)
  BY <1>2 DEF Inv
<1>4. QED
  BY <1>2, <1>3 DEF Inv, Pasts

(* A step of one process that leaves the sidecar as it is.                  *)
LEMMA Alone ==
  ASSUME Inv, NEW p \in Procs, NEW r, Becomes(p, r), Sound(r, past, chunks, profile, foreign),
         UNCHANGED <<past, chunks, vectors, profile, compatible, landed, foreign>>
  PROVE  Inv'
<1>1. Embedded(vectors', chunks) /\ Owned(vectors', profile, foreign)
  BY DEF Inv
<1>2. QED
  BY <1>1, Stores

(* What a process believes outlives a change of the chunks by another, of   *)
(* which it is told.                                                        *)
LEMMA Told ==
  ASSUME NEW r, NEW ps, NEW cs, NEW owner, NEW other \in BOOLEAN, Sound(r, ps, cs, owner, other),
         NEW ds, NEW later \in BOOLEAN, other => later, NEW b \in BOOLEAN,
         b => r.pc # "idle",
         ds = cs \/ b \/ r.pc \notin {"claim", "fill", "embed", "result", "lexical"} \/ r.snap = 0
  PROVE  Sound([r EXCEPT !.disturbed = @ \/ b], ps, ds, owner, later)
<1> DEFINE s == [r EXCEPT !.disturbed = @ \/ b]
<1>1. r \in Local /\ r.disturbed \in BOOLEAN
  BY DEF Sound, Local
<1>2. s \in Local
  BY <1>1 DEF Local
<1>3. /\ s.pc = r.pc /\ s.kind = r.kind /\ s.emb = r.emb /\ s.ro = r.ro /\ s.meta = r.meta
      /\ s.snap = r.snap /\ s.shown = r.shown /\ s.lex = r.lex /\ s.sem = r.sem
      /\ s.disturbed = (r.disturbed \/ b)
  BY <1>1 DEF Local
<1>4. ASSUME r.pc = "idle" PROVE s = r
  <2>1. b = FALSE
    BY <1>4
  <2>2. s = [r EXCEPT !.disturbed = r.disturbed]
    BY <2>1, <1>1
  <2>3. QED
    BY <2>2, <1>1 DEF Local
<1> HIDE DEF s
<1>5. Kinds(s)
  BY <1>3, <1>4 DEF Sound, Kinds
<1>6. Owns(s, owner, later)
  BY <1>3 DEF Sound, Owns
<1>7. InLine(s, ds, ps)
  BY <1>1, <1>3 DEF Sound, InLine, Local
<1>8. QED
  BY <1>2, <1>3, <1>5, <1>6, <1>7 DEF Sound, s

(* A transaction of one process on the chunks.                              *)
LEMMA Others ==
  ASSUME Inv, NEW p \in Procs, NEW r, Disturb(p, r), past' = past, profile' = profile,
         foreign' \in BOOLEAN, foreign => foreign', Sound(r, past, chunks', profile, foreign')
  PROVE  proc' \in [Procs -> Local] /\ \A q \in Procs : Sound(proc'[q], past', chunks', profile', foreign')
<1>1. ASSUME NEW q \in Procs, q # p PROVE Sound(proc'[q], past, chunks', profile, foreign')
  <2> DEFINE b == Reconciled(q) /\ chunks' # chunks
  <2>1. proc'[q] = [proc[q] EXCEPT !.disturbed = @ \/ b]
    BY <1>1 DEF Disturb
  <2>2. b \in BOOLEAN /\ (b => proc[q].pc # "idle")
    BY DEF Reconciled
  <2>3. /\ proc[q].snap \in Nat
        /\ Sound(proc[q], past, chunks, profile, foreign) /\ foreign \in BOOLEAN
    BY DEF Inv, Owned, Local
  <2>4. \/ chunks' = chunks \/ b \/ proc[q].snap = 0
        \/ proc[q].pc \notin {"claim", "fill", "embed", "result", "lexical"}
    BY <2>3 DEF Reconciled
  <2> HIDE DEF b
  <2>5. QED
    BY <2>1, <2>2, <2>3, <2>4, Told
<1>2. proc'[p] = r
  BY DEF Disturb
<1>3. \A q \in Procs : Sound(proc'[q], past, chunks', profile, foreign')
  BY <1>1, <1>2
<1>4. proc' \in [Procs -> Local]
  <2>1. proc' = [q \in Procs |-> proc'[q]]
    BY DEF Disturb
  <2>2. \A q \in Procs : proc'[q] \in Local
    BY <1>3 DEF Sound
  <2>3. QED
    BY <2>1, <2>2
<1>5. QED
  BY <1>3, <1>4

(* A process at rest believes nothing.                                      *)
LEMMA AtRest ==
  ASSUME Pasts, NEW cs, NEW owner, NEW other
  PROVE  Sound(Resting, past, cs, owner, other)
<1>1. Resting \in Local
  BY DEF Resting, Local, Pcs
<1>2. /\ Resting.pc = "idle" /\ Resting.kind = "search" /\ Resting.meta = NoProfile /\ ~Resting.sem
      /\ Resting.snap = 0 /\ Resting.shown = 0
  BY DEF Resting
<1>3. Len(past) \in Nat
  BY DEF Pasts
<1>4. QED
  BY <1>1, <1>2, <1>3 DEF Sound, Kinds, Owns, InLine

(* Where SemanticLane sends a search.                                       *)
LEMMA Lanes ==
  ASSUME NEW emb, NEW meta, NEW ro \in BOOLEAN, NEW lex \in BOOLEAN
  PROVE  LET pc == SemanticLane(emb, meta, ro, lex) IN
         /\ pc \in {"claim", "covered", "fill", "result"}
         /\ pc \in {"covered", "fill"} => emb # NoProfile /\ meta = emb /\ lex
         /\ pc = "claim" => emb # NoProfile /\ lex /\ ~ro
         /\ pc = "covered" => ro
<1>1. CASE emb = NoProfile \/ ~lex
  BY <1>1 DEF SemanticLane
<1>2. CASE emb # NoProfile /\ lex /\ meta = emb
  BY <1>2 DEF SemanticLane
<1>3. CASE emb # NoProfile /\ lex /\ meta # emb /\ meta = NoProfile /\ ~ro
  BY <1>3 DEF SemanticLane
<1>4. CASE emb # NoProfile /\ lex /\ meta # emb /\ ~(meta = NoProfile /\ ~ro)
  BY <1>4 DEF SemanticLane
<1>5. QED
  BY <1>1, <1>2, <1>3, <1>4

-----------------------------------------------------------------------------
(***************************************************************************)
(* Every action keeps the invariant.                                       *)
(***************************************************************************)

(* What holds of a process and of the past, for the steps of that process.  *)
LEMMA Mine ==
  ASSUME Inv, NEW p \in Procs
  PROVE  /\ proc[p] \in Local /\ Sound(proc[p], past, chunks, profile, foreign)
         /\ Len(past) \in Nat /\ Len(past) > 0 /\ foreign \in BOOLEAN /\ compatible \in BOOLEAN
         /\ profile \in Profiles \cup {NoProfile} /\ Pinned[p] \in Profiles
         /\ NoProfile \notin Profiles
BY SearchConstants DEF Inv, Pasts, Owned

(* A search starts where the sidecar it opened lets it.                     *)
LEMMA SearchA ==
  ASSUME Inv, NEW p \in Procs, NEW emb \in {Pinned[p], NoProfile}, NEW ro \in BOOLEAN, Search(p, emb, ro)
  PROVE  Inv'
<1> DEFINE first == IF compatible /\ ~ro THEN "snapshot" ELSE SemanticLane(emb, profile, ro, compatible)
           s == [proc[p] EXCEPT !.pc = first, !.emb = emb, !.ro = ro, !.meta = profile, !.lex = compatible]
<1>1. /\ proc[p] \in Local /\ Sound(proc[p], past, chunks, profile, foreign)
      /\ Len(past) \in Nat /\ compatible \in BOOLEAN
      /\ profile \in Profiles \cup {NoProfile} /\ Pinned[p] \in Profiles
  BY Mine
<1>2. proc[p] = Resting
  BY <1>1 DEF Sound, Kinds, Search, At
<1>3. Becomes(p, s)
  BY DEF Search
<1>4. /\ first \in {"snapshot", "claim", "covered", "fill", "result"}
      /\ first \in {"covered", "fill"} => emb # NoProfile /\ profile = emb
      /\ first = "claim" => emb # NoProfile
      /\ first = "covered" => ro
      /\ first = "snapshot" \/ ~compatible \/ ro
  BY <1>1, Lanes
<1>5. /\ s.pc = first /\ s.kind = "search" /\ s.emb = emb /\ s.ro = ro /\ s.meta = profile
      /\ s.snap = 0 /\ s.shown = 0 /\ s.lex = compatible /\ s.sem = FALSE
  BY <1>2 DEF Resting
<1> HIDE DEF first
<1>6. s \in Local
  BY <1>1, <1>4 DEF Local, Pcs
<1> HIDE DEF s
<1>7. Sound(s, past, chunks, profile, foreign)
  BY <1>1, <1>4, <1>5, <1>6 DEF Sound, Kinds, Owns, InLine
<1>8. QED
  BY <1>3, <1>7, Alone DEF Search, index

(* A search whose open failed has read no profile.                          *)
LEMMA SearchUnopenedA ==
  ASSUME Inv, NEW p \in Procs, NEW emb \in {Pinned[p], NoProfile}, SearchUnopened(p, emb)
  PROVE  Inv'
<1> DEFINE s == [proc[p] EXCEPT !.pc = "snapshot", !.emb = emb, !.lex = TRUE]
<1>1. /\ proc[p] \in Local /\ Sound(proc[p], past, chunks, profile, foreign)
      /\ Len(past) \in Nat /\ Pinned[p] \in Profiles
  BY Mine
<1>2. proc[p] = Resting
  BY <1>1 DEF Sound, Kinds, SearchUnopened, At
<1>3. Becomes(p, s)
  BY DEF SearchUnopened
<1>4. /\ s.pc = "snapshot" /\ s.kind = "search" /\ s.meta = NoProfile
      /\ s.snap = 0 /\ s.shown = 0 /\ s.sem = FALSE
  BY <1>2 DEF Resting
<1>5. s \in Local
  BY <1>1 DEF Local, Pcs
<1> HIDE DEF s
<1>6. Sound(s, past, chunks, profile, foreign)
  BY <1>1, <1>4, <1>5 DEF Sound, Kinds, Owns, InLine
<1>7. QED
  BY <1>3, <1>6, Alone DEF SearchUnopened, index

(* The snapshot is of the latest edit, and there is one.                    *)
LEMMA LoadReconcileSnapshotA == ASSUME Inv, NEW p \in Procs, LoadReconcileSnapshot(p) PROVE Inv'
<1> DEFINE r == proc[p]
           s == [proc[p] EXCEPT !.pc = "reconcile", !.snap = Now]
<1>1. /\ r \in Local /\ Sound(r, past, chunks, profile, foreign) /\ Len(past) \in Nat /\ Len(past) > 0
  BY Mine
<1>2. r.pc = "snapshot" /\ Becomes(p, s)
  BY DEF LoadReconcileSnapshot, At
<1>3. /\ s.pc = "reconcile" /\ s.kind = r.kind /\ s.emb = r.emb /\ s.meta = r.meta
      /\ s.snap = Len(past) /\ s.shown = r.shown /\ s.lex = r.lex /\ s.sem = r.sem
  BY <1>1 DEF Local, Now
<1>4. s \in Local
  BY <1>1 DEF Local, Pcs, Now
<1> HIDE DEF s, r
<1>5. Sound(s, past, chunks, profile, foreign)
  BY <1>1, <1>2, <1>3, <1>4 DEF Sound, Kinds, Owns, InLine
<1>6. QED
  BY <1>2, <1>5, Alone DEF LoadReconcileSnapshot, index

(* The process that reconciled is in line with its snapshot, and the others *)
(* are told.                                                                *)
LEMMA ReconcileA == ASSUME Inv, NEW p \in Procs, Reconcile(p) PROVE Inv'
<1> DEFINE r == proc[p]
           lane == SemanticLane(r.emb, r.meta, FALSE, TRUE)
           s == [proc[p] EXCEPT !.pc = lane, !.disturbed = FALSE]
<1>1. /\ r \in Local /\ Sound(r, past, chunks, profile, foreign) /\ foreign \in BOOLEAN
      /\ Len(past) \in Nat
  BY Mine
<1>2. /\ r.pc = "reconcile" /\ Disturb(p, s) /\ landed' = r.snap /\ DiffChunks(TargetsAt(r.snap))
      /\ UNCHANGED <<past, profile, compatible, foreign>>
  BY DEF Reconcile, At
<1>3. /\ Unique(chunks') /\ Rows(chunks') = Targets(past, r.snap)
      /\ Embedded(vectors', chunks') /\ vectors' \subseteq vectors
  BY <1>2, Diffed DEF Inv, Whole
<1>4. /\ lane \in {"claim", "fill", "result"}
      /\ lane = "fill" => r.emb # NoProfile /\ r.meta = r.emb
      /\ lane = "claim" => r.emb # NoProfile
  <2>1. /\ lane \in {"claim", "covered", "fill", "result"}
        /\ lane \in {"covered", "fill"} => r.emb # NoProfile /\ r.meta = r.emb
        /\ lane = "claim" => r.emb # NoProfile
        /\ lane = "covered" => FALSE
    BY Lanes
  <2> HIDE DEF lane
  <2>2. QED
    BY <2>1
<1>5. /\ s.pc = lane /\ s.kind = r.kind /\ s.emb = r.emb /\ s.ro = r.ro /\ s.meta = r.meta
      /\ s.snap = r.snap /\ s.shown = r.shown /\ s.lex = r.lex /\ s.sem = r.sem
      /\ s.disturbed = FALSE
  BY <1>1 DEF Local
<1> HIDE DEF lane
<1>6. s \in Local
  BY <1>1, <1>4 DEF Local, Pcs
<1> HIDE DEF s, r
<1>7. Sound(s, past, chunks', profile, foreign')
  BY <1>1, <1>2, <1>3, <1>4, <1>5, <1>6 DEF Sound, Kinds, Owns, InLine
<1>8. proc' \in [Procs -> Local] /\ \A q \in Procs : Sound(proc'[q], past', chunks', profile', foreign')
  BY <1>1, <1>2, <1>7, Others
<1>9. r.snap \in 0 .. Len(past)
  BY <1>1 DEF Sound, Local
<1>10. Whole(chunks', past', landed')
  BY <1>2, <1>3, <1>9 DEF Whole
<1>11. Owned(vectors', profile', foreign')
  BY <1>2, <1>3 DEF Inv, Owned, By
<1>12. QED
  BY <1>2, <1>3, <1>8, <1>10, <1>11 DEF Inv, Pasts

(* A failed reconcile gives the lexical lane up.                            *)
LEMMA ReconcileFailsA == ASSUME Inv, NEW p \in Procs, ReconcileFails(p) PROVE Inv'
<1> DEFINE r == proc[p]
           s == [proc[p] EXCEPT !.pc = "result", !.lex = FALSE]
<1>1. r \in Local /\ Sound(r, past, chunks, profile, foreign)
  BY Mine
<1>2. r.pc = "reconcile" /\ Becomes(p, s)
  BY DEF ReconcileFails, At
<1>3. /\ s.pc = "result" /\ s.kind = r.kind /\ s.emb = r.emb /\ s.meta = r.meta
      /\ s.snap = r.snap /\ s.shown = r.shown /\ s.lex = FALSE /\ s.sem = r.sem
  BY <1>1 DEF Local
<1>4. s \in Local
  BY <1>1 DEF Local, Pcs
<1> HIDE DEF s, r
<1>5. Sound(s, past, chunks, profile, foreign)
  BY <1>1, <1>2, <1>3, <1>4 DEF Sound, Kinds, Owns, InLine
<1>6. QED
  BY <1>2, <1>5, Alone DEF ReconcileFails, index

(* A claim succeeds where no profile owns the sidecar: what others believe  *)
(* of an owner holds of none or of the one that stays.                      *)
LEMMA ClaimEmptyProfileA == ASSUME Inv, NEW p \in Procs, ClaimEmptyProfile(p) PROVE Inv'
<1> DEFINE r == proc[p]
           owner == IF profile = NoProfile THEN r.emb ELSE profile
           next == IF profile = NoProfile THEN "fill" ELSE "result"
           s == [proc[p] EXCEPT !.pc = next]
<1>1. /\ r \in Local /\ Sound(r, past, chunks, profile, foreign) /\ foreign \in BOOLEAN
      /\ profile \in Profiles \cup {NoProfile} /\ NoProfile \notin Profiles
  BY Mine
<1>2. /\ r.pc = "claim" /\ Becomes(p, s) /\ profile' = owner
      /\ UNCHANGED <<past, chunks, vectors, compatible, landed, foreign>>
  BY DEF ClaimEmptyProfile, At
<1>3. /\ s.pc = next /\ s.kind = r.kind /\ s.emb = r.emb /\ s.ro = r.ro /\ s.meta = r.meta
      /\ s.snap = r.snap /\ s.shown = r.shown /\ s.lex = r.lex /\ s.sem = r.sem
      /\ s.disturbed = r.disturbed
  BY <1>1 DEF Local
<1>4. s \in Local
  BY <1>1 DEF Local, Pcs
<1>5. r.emb \in Profiles /\ r.kind = "search"
  BY <1>1, <1>2 DEF Sound, Kinds, Local
<1>6. owner \in Profiles /\ (profile # NoProfile => owner = profile)
  BY <1>1, <1>5
<1>7. ASSUME NEW q \in Procs PROVE Sound(proc[q], past, chunks, owner, foreign)
  <2>1. Sound(proc[q], past, chunks, profile, foreign)
    BY DEF Inv
  <2>2. CASE profile # NoProfile
    BY <2>1, <2>2, <1>6
  <2>3. CASE profile = NoProfile
    <3>1. Owns(proc[q], owner, foreign)
      BY <2>1, <2>3 DEF Sound, Kinds, Owns
    <3>2. QED
      BY <2>1, <3>1 DEF Sound
  <2>4. QED
    BY <2>2, <2>3
<1> HIDE DEF s
<1>8. Sound(s, past, chunks, owner, foreign)
  <2>1. Sound(r, past, chunks, owner, foreign)
    BY <1>7
  <2>2. next = "fill" => owner = r.emb
    OBVIOUS
  <2>3. next \in {"fill", "result"}
    OBVIOUS
  <2> HIDE DEF r, owner, next
  <2>4. Kinds(s)
    BY <2>1, <2>3, <1>2, <1>3, <1>5 DEF Sound, Kinds
  <2>5. Owns(s, owner, foreign)
    BY <2>1, <2>2, <2>3, <1>2, <1>3 DEF Sound, Owns
  <2>6. InLine(s, chunks, past)
    BY <2>1, <2>3, <1>2, <1>3 DEF Sound, InLine
  <2>7. QED
    BY <2>1, <2>4, <2>5, <2>6, <1>3, <1>4 DEF Sound
<1>9. /\ proc' \in [Procs -> Local] /\ proc'[p] = s
      /\ \A q \in Procs : q # p => proc'[q] = proc[q]
  BY <1>2, <1>4 DEF Inv, Becomes
<1>10. Owned(vectors, owner, foreign)
  <2>1. CASE profile # NoProfile
    BY <2>1 DEF Inv
  <2>2. CASE profile = NoProfile
    <3>1. foreign \/ \A v \in vectors : v.by = NoProfile
      BY <2>2 DEF Inv, Owned, By
    <3>2. \A v \in vectors : v.by \in Profiles
      BY DEF Inv, Embedded, Vector
    <3>3. foreign \/ vectors = {}
      BY <3>1, <3>2, <1>1
    <3>4. QED
      BY <3>3, <1>1, <1>6 DEF Owned, By
  <2>3. QED
    BY <2>1, <2>2
<1> HIDE DEF owner
<1>11. \A q \in Procs : Sound(proc'[q], past, chunks, owner, foreign)
  BY <1>7, <1>8, <1>9
<1>12. QED
  BY <1>2, <1>9, <1>10, <1>11 DEF Inv, Pasts

(* A read-only search ranks vectors only where none is missing.             *)
LEMMA ReadOnlyCoverageA == ASSUME Inv, NEW p \in Procs, ReadOnlyCoverage(p) PROVE Inv'
<1> DEFINE r == proc[p]
           whole == MissingSemanticInputs = {}
           s == [proc[p] EXCEPT !.pc = "result", !.sem = whole]
<1>1. r \in Local /\ Sound(r, past, chunks, profile, foreign)
  BY Mine
<1>2. r.pc = "covered" /\ Becomes(p, s) /\ whole \in BOOLEAN
  BY DEF ReadOnlyCoverage, At
<1> HIDE DEF whole
<1>3. /\ s.pc = "result" /\ s.kind = r.kind /\ s.emb = r.emb /\ s.ro = r.ro /\ s.meta = r.meta
      /\ s.snap = r.snap /\ s.shown = r.shown /\ s.lex = r.lex /\ s.disturbed = r.disturbed
  BY <1>1 DEF Local
<1>4. s \in Local
  BY <1>1, <1>2 DEF Local, Pcs
<1>5. r.kind = "search"
  BY <1>1, <1>2 DEF Sound, Kinds, Local
<1>6. r.ro
  BY <1>1, <1>2 DEF Sound, Kinds
<1> HIDE DEF s, r
<1>7. Sound(s, past, chunks, profile, foreign)
  BY <1>1, <1>2, <1>3, <1>4, <1>5, <1>6 DEF Sound, Kinds, Owns, InLine
<1>8. QED
  BY <1>2, <1>7, Alone DEF ReadOnlyCoverage, index

(* The end of a fill: complete only where the model owns the sidecar.       *)
LEMMA FillEnded ==
  ASSUME Inv, NEW p \in Procs, NEW complete \in BOOLEAN, FillEnds(p, complete),
         proc[p].pc \in {"claim", "covered", "fill", "embed"}, complete => proc[p].pc = "fill"
  PROVE  \E s : Becomes(p, s) /\ Sound(s, past, chunks, profile, foreign)
<1> DEFINE r == proc[p]
           s == [proc[p] EXCEPT !.pc = "result", !.sem = complete, !.batch = {}]
<1>1. r \in Local /\ Sound(r, past, chunks, profile, foreign)
  BY Mine
<1>2. CASE r.kind = "rebuild"
  <2>1. Becomes(p, Resting)
    BY <1>2 DEF FillEnds, Becomes
  <2>2. Sound(Resting, past, chunks, profile, foreign)
    BY AtRest DEF Inv
  <2>3. QED
    BY <2>1, <2>2
<1>3. CASE r.kind # "rebuild"
  <2>1. Becomes(p, s)
    BY <1>3 DEF FillEnds
  <2>2. /\ s.pc = "result" /\ s.kind = r.kind /\ s.emb = r.emb /\ s.ro = r.ro /\ s.meta = r.meta
        /\ s.snap = r.snap /\ s.shown = r.shown /\ s.lex = r.lex /\ s.disturbed = r.disturbed
        /\ s.sem = complete
    BY <1>1 DEF Local
  <2>3. s \in Local
    BY <1>1 DEF Local, Pcs
  <2> HIDE DEF s
  <2>4. Kinds(s)
    BY <1>1, <1>3, <2>2 DEF Sound, Kinds
  <2>5. Owns(s, profile, foreign)
    BY <1>1, <1>3, <2>2 DEF Sound, Owns
  <2>6. r.pc # "covered" => InLine(s, chunks, past)
    BY <1>1, <2>2 DEF Sound, InLine
  <2>7. r.pc = "covered" => InLine(s, chunks, past)
    BY <1>1, <2>2 DEF Sound, Kinds, InLine
  <2>8. QED
    BY <1>1, <2>1, <2>2, <2>3, <2>4, <2>5, <2>6, <2>7 DEF Sound
<1>4. QED
  BY <1>2, <1>3

(* A fill reads what is missing, takes a batch of it, or ends.              *)
LEMMA FillReadsMissingA == ASSUME Inv, NEW p \in Procs, FillReadsMissing(p) PROVE Inv'
<1> DEFINE r == proc[p]
           batch == Oldest(MissingSemanticInputs, Batch)
           s == [proc[p] EXCEPT !.pc = "embed", !.done = 1, !.batch = batch]
<1>1. r \in Local /\ Sound(r, past, chunks, profile, foreign)
  BY Mine
<1>2. r.pc = "fill" /\ UNCHANGED <<past, chunks, vectors, profile, compatible, landed, foreign>>
  BY DEF FillReadsMissing, At, index
<1>3. FillEnds(p, TRUE) \/ FillEnds(p, FALSE) \/ Becomes(p, s)
  BY DEF FillReadsMissing
<1>4. batch \subseteq Chunk
  BY DEF Oldest, MissingSemanticInputs, Inv, Whole, Unique
<1> HIDE DEF batch
<1>5. s \in Local
  BY <1>1, <1>4 DEF Local, Pcs
<1>6. /\ s.pc = "embed" /\ s.kind = r.kind /\ s.emb = r.emb /\ s.ro = r.ro /\ s.meta = r.meta
      /\ s.snap = r.snap /\ s.shown = r.shown /\ s.lex = r.lex /\ s.disturbed = r.disturbed
      /\ s.sem = r.sem
  BY <1>1 DEF Local
<1>7. ASSUME NEW complete \in BOOLEAN, FillEnds(p, complete) PROVE Inv'
  BY <1>2, <1>7, FillEnded, Alone
<1> HIDE DEF s, r
<1>8. Sound(s, past, chunks, profile, foreign)
  BY <1>1, <1>2, <1>5, <1>6 DEF Sound, Kinds, Owns, InLine
<1>9. QED
  BY <1>2, <1>3, <1>7, <1>8, Alone

(* A batch is stored whole, in a sidecar its model owns or a rebuild of     *)
(* another's.                                                               *)
LEMMA StoreVectorsGuardedA == ASSUME Inv, NEW p \in Procs, StoreVectorsGuarded(p) PROVE Inv'
<1> DEFINE r == proc[p]
           A == {v \in PlanSemanticInputs(r.batch, r.emb) : Guard(v)}
           s == [proc[p] EXCEPT !.pc = "fill", !.batch = {}]
<1>1. r \in Local /\ Sound(r, past, chunks, profile, foreign)
  BY Mine
<1>2. r.pc = "embed" /\ UNCHANGED <<past, chunks, profile, compatible, landed, foreign>>
  BY DEF StoreVectorsGuarded, At
<1>3. \/ vectors' = Stored(A) /\ Becomes(p, s)
      \/ vectors' = vectors /\ FillEnds(p, FALSE)
  BY DEF StoreVectorsGuarded
<1>4. r.batch \in SUBSET Chunk /\ r.emb \in Profiles
  BY <1>1, <1>2 DEF Sound, Kinds, Local
<1>5. s \in Local
  BY <1>1 DEF Local, Pcs
<1>6. /\ s.pc = "fill" /\ s.kind = r.kind /\ s.emb = r.emb /\ s.ro = r.ro /\ s.meta = r.meta
      /\ s.snap = r.snap /\ s.shown = r.shown /\ s.lex = r.lex /\ s.disturbed = r.disturbed
      /\ s.sem = r.sem
  BY <1>1 DEF Local
<1>7. ASSUME vectors' = vectors, FillEnds(p, FALSE) PROVE Inv'
  BY <1>2, <1>7, FillEnded, Alone
<1>8. Embedded(Stored(A), chunks) /\ (By(vectors, r.emb) => By(Stored(A), r.emb))
  BY <1>4, StoredWhole DEF Inv, Whole
<1> HIDE DEF A, s
<1>9. Owned(Stored(A), profile, foreign)
  <2>1. r.emb = profile \/ foreign
    BY <1>1, <1>2 DEF Sound, Owns
  <2>2. Owned(vectors, profile, foreign)
    BY DEF Inv
  <2>3. QED
    BY <2>1, <2>2, <1>8 DEF Owned
<1> HIDE DEF r
<1>10. Sound(s, past, chunks, profile, foreign)
  BY <1>1, <1>2, <1>5, <1>6 DEF Sound, Kinds, Owns, InLine
<1>11. ASSUME vectors' = Stored(A), Becomes(p, s) PROVE Inv'
  BY <1>2, <1>8, <1>9, <1>10, <1>11, Stores
<1>12. QED
  BY <1>3, <1>7, <1>11

(* A failure ends the fill as incomplete.                                   *)
LEMMA SemanticFailsA == ASSUME Inv, NEW p \in Procs, SemanticFails(p) PROVE Inv'
BY FillEnded, Alone DEF SemanticFails, index

(* The result snapshot is of the latest edit.                               *)
LEMMA BeginResultSnapshotA == ASSUME Inv, NEW p \in Procs, BeginResultSnapshot(p) PROVE Inv'
<1> DEFINE r == proc[p]
           s == [proc[p] EXCEPT !.pc = "lexical", !.shown = Now, !.meta = NoProfile, !.done = 0]
<1>1. r \in Local /\ Sound(r, past, chunks, profile, foreign) /\ Len(past) \in Nat
  BY Mine
<1>2. r.pc = "result" /\ Becomes(p, s)
  BY DEF BeginResultSnapshot, At
<1>3. /\ s.pc = "lexical" /\ s.kind = r.kind /\ s.emb = r.emb /\ s.ro = r.ro /\ s.meta = NoProfile
      /\ s.snap = r.snap /\ s.shown = Len(past) /\ s.lex = r.lex /\ s.sem = r.sem
      /\ s.disturbed = r.disturbed
  BY <1>1 DEF Local, Now
<1>4. s \in Local
  BY <1>1 DEF Local, Pcs, Now
<1> HIDE DEF s, r
<1>5. Sound(s, past, chunks, profile, foreign)
  BY <1>1, <1>2, <1>3, <1>4 DEF Sound, Kinds, Owns, InLine
<1>6. QED
  BY <1>2, <1>5, Alone DEF BeginResultSnapshot, index

(* The lexical lane answers, or hands the query to the semantic one.        *)
LEMMA SearchLexicalA == ASSUME Inv, NEW p \in Procs, SearchLexical(p) PROVE Inv'
<1> DEFINE r == proc[p]
           s == [Resting EXCEPT !.pc = "rank", !.emb = r.emb, !.shown = r.shown]
<1>1. r \in Local /\ Sound(r, past, chunks, profile, foreign)
  BY Mine
<1>2. UNCHANGED <<past, chunks, vectors, profile, compatible, landed, foreign>>
  BY DEF SearchLexical, index
<1>3. \/ r.sem /\ Becomes(p, s)
      \/ Becomes(p, Resting)
  BY DEF SearchLexical, Becomes
<1>4. Sound(Resting, past, chunks, profile, foreign)
  BY AtRest DEF Inv
<1>5. /\ s.pc = "rank" /\ s.kind = "search" /\ s.emb = r.emb /\ s.meta = NoProfile
      /\ s.snap = 0 /\ s.shown = r.shown /\ s.lex = FALSE /\ s.sem = FALSE
  BY DEF Resting
<1>6. s \in Local
  BY <1>1 DEF Resting, Local, Pcs
<1> HIDE DEF s, r
<1>7. r.sem => Sound(s, past, chunks, profile, foreign)
  BY <1>1, <1>4, <1>5, <1>6 DEF Sound, Kinds, Owns, InLine, Resting
<1>8. QED
  BY <1>2, <1>3, <1>4, <1>7, Alone

(* A process that ends.                                                     *)
LEMMA EndsA == ASSUME Inv, NEW p \in Procs, SearchSemantic(p) \/ HardError(p) PROVE Inv'
<1>1. Becomes(p, Resting) /\ UNCHANGED <<past, chunks, vectors, profile, compatible, landed, foreign>>
  BY DEF SearchSemantic, HardError, Becomes, index
<1>2. Sound(Resting, past, chunks, profile, foreign)
  BY AtRest DEF Inv
<1>3. QED
  BY <1>1, <1>2, Alone

(* A rebuild reads its snapshot of the latest edit before it begins.        *)
LEMMA RebuildA ==
  ASSUME Inv, NEW p \in Procs, NEW emb \in {Pinned[p], NoProfile}, Rebuild(p, emb)
  PROVE  Inv'
<1> DEFINE s == [proc[p] EXCEPT !.pc = "rebuild", !.kind = "rebuild", !.emb = emb, !.snap = Now]
<1>1. /\ proc[p] \in Local /\ Sound(proc[p], past, chunks, profile, foreign)
      /\ Len(past) \in Nat /\ Len(past) > 0 /\ Pinned[p] \in Profiles
  BY Mine
<1>2. proc[p] = Resting
  BY <1>1 DEF Sound, Kinds, Rebuild, At
<1>3. Becomes(p, s)
  BY DEF Rebuild
<1>4. /\ s.pc = "rebuild" /\ s.kind = "rebuild" /\ s.meta = NoProfile /\ s.emb = emb
      /\ s.snap = Len(past) /\ s.shown = 0 /\ s.lex = FALSE /\ s.sem = FALSE
  BY <1>2 DEF Resting, Now
<1>5. s \in Local
  BY <1>1 DEF Local, Pcs, Now
<1> HIDE DEF s
<1>6. Sound(s, past, chunks, profile, foreign)
  BY <1>1, <1>4, <1>5 DEF Sound, Kinds, Owns, InLine
<1>7. QED
  BY <1>3, <1>6, Alone DEF Rebuild, index

(* A rebuild leaves the rows of its snapshot and no vector; what it fills   *)
(* afterwards is the owner's, or the sidecar is marked.                     *)
LEMMA RebuildIndexA == ASSUME Inv, NEW p \in Procs, RebuildIndex(p) PROVE Inv'
<1> DEFINE r == proc[p]
           s == [proc[p] EXCEPT !.pc = "fill"]
           T == TargetsAt(r.snap)
<1>1. /\ r \in Local /\ Sound(r, past, chunks, profile, foreign) /\ foreign \in BOOLEAN
      /\ Len(past) \in Nat /\ profile \in Profiles \cup {NoProfile}
  BY Mine
<1>2. /\ r.pc = "rebuild" /\ vectors' = {} /\ landed' = r.snap
      /\ UNCHANGED <<past, profile, compatible>>
  BY DEF RebuildIndex, At
<1>3. \E order \in SetToSeqs(T) : chunks' = Inserted({}, order)
  BY DEF RebuildIndex
<1>4. \/ Disturb(p, Resting) /\ foreign' = foreign
      \/ r.emb # NoProfile /\ Disturb(p, s) /\ foreign' = (foreign \/ r.emb # profile)
  BY DEF RebuildIndex
<1>5. Unique(chunks') /\ Rows(chunks') = Targets(past, r.snap)
  <2>1. Unique({}) /\ Rows({}) = {}
    BY FS_EmptySet DEF Unique, Rows
  <2>2. T = Targets(past, r.snap)
    BY DEF TargetsAt, Targets
  <2>3. IsFiniteSet(T) /\ T \subseteq Tasks \X Contents
    <3>1. IsFiniteSet(Targets(past, r.snap))
      BY TargetsFinite
    <3>2. Targets(past, r.snap) \subseteq Tasks \X Contents
      BY DEF Targets
    <3>3. QED
      BY <2>2, <3>1, <3>2
  <2> HIDE DEF T
  <2>4. T \cap Rows({}) = {}
    BY <2>1
  <2>5. \A order \in SetToSeqs(T) :
          Unique(Inserted({}, order)) /\ Rows(Inserted({}, order)) = Rows({}) \cup T
    BY <2>1, <2>3, <2>4, InsertedRows
  <2>6. QED
    BY <2>1, <2>2, <2>5, <1>3
<1>6. Embedded(vectors', chunks')
  BY <1>2 DEF Embedded, Fitting, Single, Covered
<1>7. foreign' \in BOOLEAN /\ (foreign => foreign')
  BY <1>1, <1>4
<1>8. Owned(vectors', profile', foreign')
  BY <1>1, <1>2, <1>7 DEF Owned, By
<1>9. r.snap \in 0 .. Len(past)
  BY <1>1 DEF Sound, Local
<1>10. Whole(chunks', past', landed')
  BY <1>2, <1>5, <1>9 DEF Whole
<1>11. /\ s.pc = "fill" /\ s.kind = r.kind /\ s.emb = r.emb /\ s.ro = r.ro /\ s.meta = r.meta
       /\ s.snap = r.snap /\ s.shown = r.shown /\ s.lex = r.lex /\ s.sem = r.sem
  BY <1>1 DEF Local
<1>12. s \in Local
  BY <1>1 DEF Local, Pcs
<1>13. r.kind = "rebuild"
  BY <1>1, <1>2 DEF Sound, Kinds, Local
<1> HIDE DEF s
<1>14. ASSUME r.emb # NoProfile, foreign' = (foreign \/ r.emb # profile)
       PROVE  Sound(s, past, chunks', profile, foreign')
  <2>1. Kinds(s)
    BY <1>1, <1>11, <1>13, <1>14 DEF Sound, Kinds
  <2>2. Owns(s, profile, foreign')
    BY <1>1, <1>11, <1>13, <1>14 DEF Sound, Owns
  <2>3. InLine(s, chunks', past)
    BY <1>1, <1>11, <1>13 DEF Sound, Kinds, InLine
  <2>4. QED
    BY <2>1, <2>2, <2>3, <1>1, <1>11, <1>12 DEF Sound
<1>15. Sound(Resting, past, chunks', profile, foreign')
  BY AtRest DEF Inv
<1> HIDE DEF r
<1>16. proc' \in [Procs -> Local] /\ \A q \in Procs : Sound(proc'[q], past', chunks', profile', foreign')
  <2>1. CASE Disturb(p, Resting)
    BY <2>1, <1>2, <1>7, <1>15, Others
  <2>2. CASE r.emb # NoProfile /\ Disturb(p, s) /\ foreign' = (foreign \/ r.emb # profile)
    BY <2>2, <1>2, <1>7, <1>14, Others
  <2>3. QED
    BY <2>1, <2>2, <1>4
<1>17. QED
  BY <1>2, <1>6, <1>8, <1>10, <1>16 DEF Inv, Pasts

(* A clear leaves nothing; the profile keeps the sidecar.                   *)
LEMMA ClearA == ASSUME Inv, NEW p \in Procs, Clear(p) PROVE Inv'
<1>1. /\ chunks' = {} /\ vectors' = {} /\ landed' = 0 /\ Disturb(p, Resting)
      /\ UNCHANGED <<past, profile, compatible, foreign>>
  BY DEF Clear
<1>2. Len(past) \in Nat /\ foreign \in BOOLEAN /\ profile \in Profiles \cup {NoProfile}
  BY Mine
<1>3. Unique({}) /\ Rows({}) = {}
  BY FS_EmptySet DEF Unique, Rows
<1>4. Targets(past, 0) = {}
  BY DEF Targets
<1>5. Whole(chunks', past', landed')
  <2>1. 0 \in 0 .. Len(past)
    BY <1>2
  <2>2. Whole({}, past, 0)
    BY <2>1, <1>3, <1>4 DEF Whole
  <2>3. QED
    BY <2>2, <1>1
<1>6. Embedded(vectors', chunks') /\ Owned(vectors', profile', foreign')
  BY <1>1, <1>2 DEF Embedded, Fitting, Single, Covered, Owned, By
<1>7. Sound(Resting, past, chunks', profile, foreign')
  BY AtRest DEF Inv
<1>8. proc' \in [Procs -> Local] /\ \A q \in Procs : Sound(proc'[q], past', chunks', profile', foreign')
  BY <1>1, <1>2, <1>7, Others
<1>9. QED
  BY <1>1, <1>5, <1>6, <1>8 DEF Inv, Pasts

(* An edit leaves every snapshot that was taken before as it was.           *)
LEMMA EditA ==
  ASSUME Inv, NEW t \in Tasks, NEW cs \in SUBSET Contents, Edit(t, cs)
  PROVE  Inv'
<1> DEFINE now == [past[Now] EXCEPT ![t] = cs]
<1>1. /\ past' = Append(past, now)
      /\ UNCHANGED <<chunks, vectors, profile, compatible, landed, proc, foreign>>
  BY DEF Edit, index
<1>2. past \in Seq([Tasks -> SUBSET Contents]) /\ Len(past) \in Nat /\ Len(past) > 0
  BY DEF Inv, Pasts
<1>3. now \in [Tasks -> SUBSET Contents]
  <2>1. past[Now] \in [Tasks -> SUBSET Contents]
    BY <1>2 DEF Now
  <2>2. QED
    BY <2>1
<1> HIDE DEF now
<1>4. /\ past' \in Seq([Tasks -> SUBSET Contents]) /\ Len(past') = Len(past) + 1 /\ past' # <<>>
      /\ \A n \in 1 .. Len(past) : past'[n] = past[n]
  BY <1>1, <1>2, <1>3
<1>5. ASSUME NEW n \in 0 .. Len(past) PROVE Targets(past', n) = Targets(past, n)
  <2>1. CASE n = 0
    BY <2>1 DEF Targets
  <2>2. CASE n # 0
    <3>1. past'[n] = past[n]
      BY <2>2, <1>2, <1>4
    <3>2. QED
      BY <3>1 DEF Targets
  <2>3. QED
    BY <2>1, <2>2
<1>6. Whole(chunks', past', landed')
  <2>1. Whole(chunks, past, landed)
    BY DEF Inv
  <2>2. landed \in 0 .. Len(past')
    BY <2>1, <1>2, <1>4 DEF Whole
  <2>3. QED
    BY <2>1, <2>2, <1>1, <1>5 DEF Whole
<1>7. ASSUME NEW q \in Procs PROVE Sound(proc[q], past', chunks, profile, foreign)
  <2>1. Sound(proc[q], past, chunks, profile, foreign)
    BY DEF Inv
  <2>2. proc[q].snap \in Nat /\ proc[q].shown \in Nat
    BY <2>1 DEF Sound, Local
  <2>3. proc[q].snap \in 0 .. Len(past)
    BY <2>1, <2>2, <1>2 DEF Sound
  <2>4. InLine(proc[q], chunks, past')
    BY <2>1, <2>3, <1>5 DEF Sound, InLine
  <2>5. proc[q].snap <= Len(past') /\ proc[q].shown <= Len(past')
    BY <2>1, <2>2, <1>2, <1>4 DEF Sound
  <2>6. QED
    BY <2>1, <2>4, <2>5 DEF Sound
<1>8. QED
  BY <1>1, <1>4, <1>6, <1>7 DEF Inv, Pasts

-----------------------------------------------------------------------------
(* It holds from an empty sidecar on.                                       *)
LEMMA InvInit == Init => Inv
<1> SUFFICES ASSUME Init PROVE Inv
  OBVIOUS
<1>1. /\ chunks = {} /\ vectors = {} /\ profile = NoProfile /\ compatible \in BOOLEAN
      /\ proc = [p \in Procs |-> Resting] /\ landed = 0 /\ foreign = FALSE
  BY DEF Init
<1>2. PICK s \in [Tasks -> {{c} : c \in Contents}] : past = <<s>>
  BY DEF Init
<1>3. s \in [Tasks -> SUBSET Contents]
  OBVIOUS
<1>4. Pasts
  BY <1>2, <1>3 DEF Pasts
<1>5. Len(past) \in Nat
  BY <1>4 DEF Pasts
<1>6. Whole(chunks, past, landed)
  <2>1. Unique({}) /\ Rows({}) = {}
    BY FS_EmptySet DEF Unique, Rows
  <2>2. Targets(past, 0) = {}
    BY DEF Targets
  <2>3. QED
    <3>1. 0 \in 0 .. Len(past)
      BY <1>5
    <3>2. Whole({}, past, 0)
      BY <2>1, <2>2, <3>1 DEF Whole
    <3>3. QED
      BY <3>2, <1>1
<1>7. Embedded(vectors, chunks) /\ Owned(vectors, profile, foreign)
  BY <1>1 DEF Embedded, Fitting, Single, Covered, Owned, By
<1>8. Sound(Resting, past, chunks, profile, foreign)
  BY <1>4, AtRest
<1>9. Resting \in Local
  BY <1>8 DEF Sound
<1>10. QED
  BY <1>1, <1>4, <1>6, <1>7, <1>8, <1>9 DEF Inv

(* And every step keeps it.                                                 *)
LEMMA InvStep == Inv /\ [Next]_vars => Inv'
<1> SUFFICES ASSUME Inv, [Next]_vars PROVE Inv'
  OBVIOUS
<1>1. ASSUME NEW t \in Tasks, NEW cs \in SUBSET Contents, Edit(t, cs) PROVE Inv'
  BY <1>1, EditA
<1>2. ASSUME NEW p \in Procs, NEW emb \in {Pinned[p], NoProfile},
             Rebuild(p, emb) \/ SearchUnopened(p, emb) \/ \E ro \in BOOLEAN : Search(p, emb, ro)
      PROVE  Inv'
  <2>1. CASE Rebuild(p, emb)
    BY <2>1, RebuildA
  <2>2. CASE SearchUnopened(p, emb)
    BY <2>2, SearchUnopenedA
  <2>3. ASSUME NEW ro \in BOOLEAN, Search(p, emb, ro) PROVE Inv'
    BY <2>3, SearchA
  <2>4. QED
    BY <1>2, <2>1, <2>2, <2>3
<1>3. ASSUME NEW p \in Procs, Clear(p) PROVE Inv'
  BY <1>3, ClearA
<1>4. ASSUME NEW p \in Procs, Step(p) PROVE Inv'
  BY <1>4, LoadReconcileSnapshotA, ReconcileA, ReconcileFailsA, ClaimEmptyProfileA, ReadOnlyCoverageA,
     FillReadsMissingA, StoreVectorsGuardedA, SemanticFailsA, BeginResultSnapshotA, SearchLexicalA,
     EndsA, RebuildIndexA DEF Step
<1>5. CASE UNCHANGED vars
  BY <1>5 DEF vars, Inv, Pasts
<1>6. QED
  BY <1>1, <1>2, <1>3, <1>4, <1>5 DEF Next

(* So it holds always.                                                      *)
LEMMA InvAlways == Spec => []Inv
BY InvInit, InvStep, PTL DEF Spec

-----------------------------------------------------------------------------
(***************************************************************************)
(* What it implies.                                                        *)
(***************************************************************************)

(* As many ids and as many rows as there are chunks.                        *)
LEMMA OneEach ==
  ASSUME NEW cs, Unique(cs)
  PROVE  Cardinality({c.id : c \in cs}) = Cardinality(cs) /\ Cardinality(Rows(cs)) = Cardinality(cs)
<1> DEFINE ids == {c.id : c \in cs}
           g == [c \in cs |-> c.id]
           h == [c \in cs |-> <<c.task, c.content>>]
<1>1. IsFiniteSet(cs)
  BY DEF Unique
<1>2. g \in Bijection(cs, ids)
  <2>1. g \in Injection(cs, ids)
    BY DEF Unique, Injection, IsInjective
  <2>2. g \in Surjection(cs, ids)
    BY DEF Surjection
  <2>3. QED
    BY <2>1, <2>2 DEF Bijection
<1>3. h \in Bijection(cs, Rows(cs))
  <2>1. h \in Injection(cs, Rows(cs))
    BY DEF Unique, Injection, IsInjective, Rows
  <2>2. h \in Surjection(cs, Rows(cs))
    BY DEF Surjection, Rows
  <2>3. QED
    BY <2>1, <2>2 DEF Bijection
<1> HIDE DEF g, h, ids
<1>4. Cardinality(ids) = Cardinality(cs)
  BY <1>1, <1>2, FS_Bijection DEF ExistsBijection
<1>5. Cardinality(Rows(cs)) = Cardinality(cs)
  BY <1>1, <1>3, FS_Bijection DEF ExistsBijection
<1>6. QED
  BY <1>4, <1>5 DEF ids

(* The sidecar is sound.                                                    *)
LEMMA SoundIndex == Inv => IndexIsSound
<1> SUFFICES ASSUME Inv PROVE IndexIsSound
  OBVIOUS
<1>1. Unique(chunks) /\ Rows(chunks) = Targets(past, landed)
  BY DEF Inv, Whole
<1>2. /\ vectors \subseteq Vector /\ Fitting(vectors, chunks) /\ Single(vectors) /\ Covered(vectors)
      /\ profile \in Profiles \cup {NoProfile}
  BY DEF Inv, Embedded, Owned
<1>3. TypeOK
  <2>1. \A n \in 1 .. Now : past[n] \in [Tasks -> SUBSET Contents]
    BY DEF Inv, Pasts, Now
  <2>2. chunks \subseteq Chunk
    BY <1>1 DEF Unique
  <2>3. {v.chunk : v \in vectors} \subseteq {c.id : c \in chunks}
    BY <1>2 DEF Fitting
  <2>4. \A p \in Procs : proc[p].pc \in Pcs /\ proc[p].snap <= Now /\ proc[p].shown <= Now
    BY DEF Inv, Sound, Local, Now
  <2>5. QED
    BY <1>1, <1>2, <2>1, <2>2, <2>3, <2>4, OneEach DEF TypeOK, Single
<1>4. IndexIsOneSnapshot
  BY <1>1 DEF IndexIsOneSnapshot, TargetsAt, Targets
<1>5. VectorsFitTheirText /\ CoverageIsWhole
  BY <1>2 DEF VectorsFitTheirText, CoverageIsWhole, Fitting, Covered
<1>6. QED
  BY <1>3, <1>4, <1>5 DEF IndexIsSound

(* And so are the answers.                                                  *)
LEMMA SoundAnswers == Inv => AnswersAreSound
<1> SUFFICES ASSUME Inv PROVE AnswersAreSound
  OBVIOUS
<1>1. ServedIsReconciled
  <2> SUFFICES ASSUME NEW p \in Procs, proc[p].pc = "lexical", proc[p].lex, ~proc[p].ro,
                      ~proc[p].disturbed
               PROVE  LexicalRows(p) = {row \in TargetsAt(proc[p].snap) : row[1] \in Eligible(p)}
    BY DEF ServedIsReconciled, At
  <2>1. Rows(chunks) = Targets(past, proc[p].snap)
    BY DEF Inv, Sound, InLine
  <2>2. TargetsAt(proc[p].snap) = Targets(past, proc[p].snap)
    BY DEF TargetsAt, Targets
  <2>3. QED
    BY <2>1, <2>2 DEF LexicalRows
<1>2. RankedInOwnSpace
  <2> SUFFICES ASSUME ~foreign, NEW p \in Procs, proc[p].pc = "rank", NEW v \in SemanticRows(p)
               PROVE  v.by = proc[p].emb
    BY DEF RankedInOwnSpace, At
  <2>1. v \in vectors
    BY DEF SemanticRows
  <2>2. v.by = profile
    BY <2>1 DEF Inv, Owned, By
  <2>3. proc[p].emb = profile
    BY DEF Inv, Sound, Owns
  <2>4. QED
    BY <2>2, <2>3
<1>3. QED
  BY <1>1, <1>2 DEF AnswersAreSound

(* The sidecar is one snapshot of the tasks at every commit, with vectors   *)
(* of the texts they stand for and all of them, however many processes      *)
(* reconcile, rebuild, clear and store at a time (diff_chunks,              *)
(* store_vectors_guarded).                                                  *)
THEOREM SearchIndexIsSound == Spec => []IndexIsSound
BY InvAlways, SoundIndex, PTL

(* A search ranks what it reconciled, and vectors of its own model only,    *)
(* unless a rebuild filled the sidecar of another's                         *)
(* (TaskSearchService::search, claim_empty_profile).                        *)
THEOREM SearchAnswersAreSound == Spec => []AnswersAreSound
BY InvAlways, SoundAnswers, PTL

-----------------------------------------------------------------------------
(***************************************************************************)
(* The log: segments are runs of consecutive lines.                        *)
(***************************************************************************)

Following == [pc: {"start", "sleep", "act"}, file: Nat, offset: Nat, wanted: Nat, short: BOOLEAN]

TailTypes ==
  /\ files \in Seq(Seq(Nat)) /\ written \in Nat /\ printed \in Seq(Nat)
  /\ follow \in Following /\ seen \in Nat /\ blurred \in BOOLEAN

\* Which segments the follower knows: it is at the one it saw last, and unless the
\* log is blurred at most one came after that.
Knows ==
  /\ seen <= Len(files) /\ follow.file <= seen
  /\ follow.file = 0 => follow.offset = 0 /\ printed = <<>>
  /\ follow.pc = "start" => follow.file = 0 /\ seen = 0
  /\ follow.pc = "sleep" => follow.file = seen
  /\ follow.pc = "act" => follow.wanted = seen /\ seen > 0
  /\ ~blurred /\ seen > 0 /\ follow.pc # "start" => Len(files) <= seen + 1
  /\ ~blurred /\ follow.pc = "act" /\ follow.file > 0 => seen <= follow.file + 1

\* The segments continue each other: base[f] lines come before those of segment f.
Ranged(base) ==
  /\ base \in [1..Len(files) -> Nat]
  /\ \A f \in 1..Len(files) : \A i \in 1..Len(files[f]) : files[f][i] = base[f] + i
  /\ \A f, g \in 1..Len(files) : f < g => base[f] + Len(files[f]) <= base[g]
  /\ files # <<>> => base[Len(files)] + Len(files[Len(files)]) = written
  /\ ~blurred => \A f \in 1..Len(files) : f + 1 \in 1..Len(files) => base[f + 1] = base[f] + Len(files[f])

LastOf(s) == IF s = <<>> THEN 0 ELSE s[Len(s)]

\* What is printed does not go past the offset, and not into a truncated file.
Kept(base, p, f, offset) ==
  /\ p <= base[f] + offset
  /\ Len(files[f]) < offset => p <= base[f]
  /\ follow.pc = "act" /\ follow.short /\ follow.wanted = f => p <= base[f]
Exact(base, f, offset) ==
  /\ offset <= Len(files[f])
  /\ follow.pc = "act" /\ follow.wanted = f => ~follow.short
  /\ printed # <<>> => LastOf(printed) = base[f] + offset
Follows(base) ==
  follow.file # 0 =>
    /\ Kept(base, LastOf(printed), follow.file, follow.offset)
    /\ ~blurred => Exact(base, follow.file, follow.offset)

InOrder(s, exact) ==
  \A i \in 1..Len(s) - 1 : s[i + 1] - s[i] > 0 /\ (exact => s[i + 1] - s[i] = 1)

TailInv ==
  /\ TailTypes /\ Knows
  /\ \E base : Ranged(base) /\ Follows(base)
  /\ InOrder(printed, ~blurred)

\* r is the run of lines after line b.
RunAfter(r, b) == \A i \in 1..Len(r) : r[i] = b + i

\* A run is printed after what was printed: the order stays, and without a gap
\* before it there is none.
LEMMA RunPrinted ==
  ASSUME NEW s \in Seq(Nat), NEW r \in Seq(Nat), NEW b \in Nat, NEW exact,
         InOrder(s, exact), RunAfter(r, b), LastOf(s) <= b, exact /\ s # <<>> => LastOf(s) = b
  PROVE  /\ s \o r \in Seq(Nat) /\ InOrder(s \o r, exact)
         /\ Len(r) = 0 => s \o r = s
         /\ Len(r) # 0 => s \o r # <<>> /\ LastOf(s \o r) = b + Len(r)
<1> DEFINE w == s \o r
<1>1. Len(s) \in Nat /\ Len(r) \in Nat /\ w \in Seq(Nat) /\ Len(w) = Len(s) + Len(r)
  BY ConcatProperties
<1>2. \A i \in 1..(Len(s) + Len(r)) : w[i] = IF i <= Len(s) THEN s[i] ELSE r[i - Len(s)]
  BY ConcatProperties
<1>3. ASSUME Len(r) = 0 PROVE w = s
  <2>1. r = <<>>
    BY <1>3
  <2> QED
    BY <2>1, ConcatEmptySeq
<1> HIDE DEF w
<1>4. ASSUME NEW i \in 1..(Len(s) + Len(r)), ~(i <= Len(s)) PROVE w[i] = b + (i - Len(s))
  <2>1. i - Len(s) \in 1..Len(r)
    BY <1>1, <1>4
  <2> QED
    BY <1>2, <1>4, <2>1 DEF RunAfter
<1>5. ASSUME NEW i \in 1..Len(w) - 1
      PROVE  w[i + 1] - w[i] > 0 /\ (exact => w[i + 1] - w[i] = 1)
  <2>1. i \in 1..(Len(s) + Len(r)) /\ i + 1 \in 1..(Len(s) + Len(r))
    BY <1>1
  <2>2. CASE i + 1 <= Len(s)
    <3>1. i \in 1..Len(s) - 1 /\ w[i] = s[i] /\ w[i + 1] = s[i + 1]
      BY <1>1, <1>2, <2>1, <2>2
    <3> QED
      BY <3>1 DEF InOrder
  <2>3. CASE i = Len(s)
    <3>1. w[i] = s[Len(s)] /\ s # <<>>
      BY <1>1, <1>2, <2>1, <2>3
    <3>2. w[i] = LastOf(s) /\ LastOf(s) \in Nat
      BY <1>1, <2>1, <2>3, <3>1 DEF LastOf
    <3>3. w[i + 1] = b + 1
      <4>1. ~(i + 1 <= Len(s)) /\ (i + 1) - Len(s) = 1
        BY <1>1, <2>3
      <4> QED
        BY <1>4, <2>1, <4>1
    <3>4. LastOf(s) <= b /\ (exact => LastOf(s) = b)
      BY <3>1
    <3>5. LastOf(s) = b => w[i + 1] - w[i] = 1
      BY <3>2, <3>3
    <3>6. w[i + 1] - w[i] > 0
      BY <3>2, <3>3, <3>4
    <3> QED
      BY <3>4, <3>5, <3>6
  <2>4. CASE i > Len(s)
    <3>1. w[i] = b + (i - Len(s)) /\ w[i + 1] = b + ((i + 1) - Len(s))
      BY <1>1, <1>4, <2>1, <2>4
    <3> QED
      BY <1>1, <3>1
  <2> QED
    BY <1>1, <2>1, <2>2, <2>3, <2>4
<1>6. InOrder(w, exact)
  BY <1>5 DEF InOrder
<1>7. ASSUME Len(r) # 0 PROVE w # <<>> /\ LastOf(w) = b + Len(r)
  <2>1. Len(w) \in 1..(Len(s) + Len(r)) /\ ~(Len(w) <= Len(s)) /\ Len(w) - Len(s) = Len(r)
    BY <1>1, <1>7
  <2>2. w # <<>>
    BY <1>1, <2>1
  <2> QED
    BY <1>4, <2>1, <2>2 DEF LastOf
<1> QED
  BY <1>1, <1>3, <1>6, <1>7 DEF w

\* What is left of a segment is a run.
LEMMA SegmentFacts ==
  ASSUME files \in Seq(Seq(Nat)), NEW base, Ranged(base), NEW f \in 1..Len(files), NEW o \in Nat
  PROVE  LET r == SubSeq(files[f], o + 1, Len(files[f])) IN
         /\ r \in Seq(Nat) /\ base[f] \in Nat /\ base[f] + o \in Nat /\ RunAfter(r, base[f] + o)
         /\ o <= Len(files[f]) => Len(r) = Len(files[f]) - o
         /\ ~(o <= Len(files[f])) => Len(r) = 0
<1> DEFINE s == files[f]
           r == SubSeq(s, o + 1, Len(s))
<1>1. s \in Seq(Nat) /\ Len(s) \in Nat
  OBVIOUS
<1>2. base[f] \in Nat /\ \A i \in 1..Len(s) : s[i] = base[f] + i
  BY DEF Ranged
<1> HIDE DEF s
<1>3. o + 1 \in Int /\ Len(s) \in Int /\ \A i \in (o + 1)..Len(s) : s[i] \in Nat
  BY <1>1
<1>4. /\ r \in Seq(Nat) /\ Len(r) = IF o + 1 <= Len(s) THEN Len(s) - (o + 1) + 1 ELSE 0
      /\ \A i \in 1..Len(s) - (o + 1) + 1 : r[i] = s[(o + 1) + i - 1]
  BY <1>3, SubSeqProperties
<1> HIDE DEF r
<1>5. ASSUME NEW i \in 1..Len(r) PROVE r[i] = (base[f] + o) + i
  <2>1. i \in 1..Len(s) - (o + 1) + 1 /\ (o + 1) + i - 1 = o + i /\ o + i \in 1..Len(s)
    BY <1>1, <1>4
  <2> QED
    BY <1>2, <1>4, <2>1
<1>6. (o <= Len(s) => Len(r) = Len(s) - o) /\ (~(o <= Len(s)) => Len(r) = 0)
  BY <1>1, <1>4
<1>7. RunAfter(r, base[f] + o)
  BY <1>5 DEF RunAfter
<1> QED
  BY <1>2, <1>4, <1>6, <1>7 DEF r, s

LEMMA TailInvInit == TailInit => TailInv
<1> SUFFICES ASSUME TailInit PROVE TailInv
  OBVIOUS
<1>1. PICK n \in 0..2 : written = n /\ files \in {<<>>, <<[i \in 1..n |-> i]>>}
  BY DEF TailInit
<1>2. /\ follow = [pc |-> "start", file |-> 0, offset |-> 0, wanted |-> 0, short |-> FALSE]
      /\ printed = <<>> /\ seen = 0 /\ blurred = FALSE
  BY DEF TailInit
<1> DEFINE one == [i \in 1..n |-> i]
<1>3. one \in Seq(Nat) /\ Len(one) = n /\ \A i \in 1..n : one[i] = 0 + i
  OBVIOUS
<1> HIDE DEF one
<1>4. files \in Seq(Seq(Nat)) /\ Len(files) \in {0, 1} /\ (Len(files) = 1 => files[1] = one)
      /\ (Len(files) = 0 <=> files = <<>>)
  <2>1. CASE files = <<>>
    <3>1. <<>> \in Seq(Seq(Nat)) /\ Len(<<>>) = 0
      OBVIOUS
    <3> QED
      BY <2>1, <3>1
  <2>2. CASE files = <<one>>
    <3>1. <<one>> \in Seq(Seq(Nat)) /\ Len(<<one>>) = 1 /\ <<one>>[1] = one /\ <<one>> # <<>>
      BY <1>3
    <3> QED
      BY <2>2, <3>1
  <2> QED
    BY <1>1, <2>1, <2>2 DEF one
<1>5. TailTypes
  <2>1. follow \in Following
    BY <1>2 DEF Following
  <2>2. <<>> \in Seq(Nat)
    OBVIOUS
  <2> QED
    <3>1. written \in Nat /\ printed \in Seq(Nat) /\ seen \in Nat /\ blurred \in BOOLEAN
      <4>1. blurred \in BOOLEAN
        BY <1>2
      <4>2. written \in Nat
        BY <1>1
      <4> QED
        BY <1>2, <2>2, <4>1, <4>2
    <3> QED
      BY <1>4, <2>1, <3>1 DEF TailTypes
<1>6. Knows
  BY <1>2, <1>4 DEF Knows
<1> DEFINE base == [f \in 1..Len(files) |-> 0]
<1>7. base \in [1..Len(files) -> Nat] /\ \A f \in 1..Len(files) : base[f] = 0 /\ f = 1 /\ Len(files) = 1
  <2>1. \A f \in 1..Len(files) : f = 1 /\ Len(files) = 1
    <3>1. Len(files) = 0 \/ Len(files) = 1
      BY <1>4
    <3>2. ASSUME NEW f \in 1..Len(files) PROVE f = 1 /\ Len(files) = 1
      <4>1. f \in Nat /\ 1 <= f /\ f <= Len(files)
        BY <1>4, <3>2
      <4> QED
        BY <3>1, <4>1
    <3> QED
      BY <3>2
  <2> QED
    BY <2>1
<1> HIDE DEF base
<1>8. Ranged(base)
  <2>1. \A f \in 1..Len(files) : Len(files[f]) = n /\ \A i \in 1..Len(files[f]) : files[f][i] = base[f] + i
    BY <1>3, <1>4, <1>7
  <2>2. files # <<>> => Len(files) \in 1..Len(files) /\ 0 + n = n
    BY <1>1, <1>4
  <2>3. files # <<>> => base[Len(files)] + Len(files[Len(files)]) = written
    BY <1>1, <1>7, <2>1, <2>2
  <2>4. \A f, g \in 1..Len(files) : ~(f < g) /\ ~(f + 1 \in 1..Len(files))
    BY <1>7
  <2> QED
    BY <1>7, <2>1, <2>3, <2>4 DEF Ranged
<1>9. Follows(base)
  BY <1>2 DEF Follows
<1>10. InOrder(printed, ~blurred)
  BY <1>2 DEF InOrder
<1> QED
  BY <1>5, <1>6, <1>8, <1>9, <1>10 DEF TailInv

\* The invariant, unfolded for the steps.
LEMMA TailFacts ==
  ASSUME TailInv
  PROVE  /\ files \in Seq(Seq(Nat)) /\ Len(files) \in Nat /\ written \in Nat /\ printed \in Seq(Nat)
         /\ follow \in Following /\ seen \in Nat /\ blurred \in BOOLEAN
         /\ follow.file \in Nat /\ follow.offset \in Nat /\ follow.wanted \in Nat
         /\ LastOf(printed) \in Nat
         /\ \A f \in 1..Len(files) : files[f] \in Seq(Nat) /\ Len(files[f]) \in Nat
<1>1. /\ files \in Seq(Seq(Nat)) /\ Len(files) \in Nat /\ written \in Nat /\ printed \in Seq(Nat)
      /\ follow \in Following /\ seen \in Nat /\ blurred \in BOOLEAN
  BY DEF TailInv, TailTypes
<1>2. follow.file \in Nat /\ follow.offset \in Nat /\ follow.wanted \in Nat
  BY <1>1 DEF Following
<1>3. LastOf(printed) \in Nat
  <2>1. CASE printed = <<>>
    BY <2>1 DEF LastOf
  <2>2. CASE printed # <<>>
    <3>1. Len(printed) \in 1..Len(printed)
      BY <1>1, <2>2
    <3> QED
      BY <1>1, <2>2, <3>1 DEF LastOf
  <2> QED
    BY <2>1, <2>2
<1>4. \A f \in 1..Len(files) : files[f] \in Seq(Nat) /\ Len(files[f]) \in Nat
  BY <1>1
<1> QED
  BY <1>1, <1>2, <1>3, <1>4

\* What is printed is in the segments up to the follower's.
LEMMA PrintedIsPast ==
  ASSUME TailInv, NEW base, Ranged(base), Follows(base), follow.file # 0
  PROVE  /\ follow.file \in 1..Len(files) /\ base[follow.file] \in Nat
         /\ LastOf(printed) <= base[follow.file] + Len(files[follow.file])
<1>1. follow.file \in 1..Len(files)
  BY TailFacts DEF TailInv, Knows
<1> DEFINE f == follow.file
           n == Len(files[f])
           p == LastOf(printed)
           o == follow.offset
<1>2. p <= base[f] + o /\ (n < o => p <= base[f])
  BY DEF Follows, Kept
<1>3. n \in Nat /\ p \in Nat /\ o \in Nat /\ base[f] \in Nat
  BY <1>1, TailFacts DEF Ranged
<1> DEFINE b == base[f]
<1>4. p <= b + o /\ (n < o => p <= b) /\ b \in Nat
  BY <1>2, <1>3
<1> HIDE DEF n, p, o, b
<1>5. p <= b + n
  BY <1>3, <1>4
<1> QED
  BY <1>1, <1>3, <1>5 DEF n, p, b

LEMMA LineKeeps == ASSUME TailInv, Line PROVE TailInv'
<1> DEFINE n == Len(files)
           longer == Append(files[n], written + 1)
<1>1. /\ files # <<>> /\ written' = written + 1 /\ files' = [files EXCEPT ![n] = longer]
      /\ follow' = follow /\ printed' = printed /\ seen' = seen /\ blurred' = blurred
  BY DEF Line
<1>2. n \in 1..n /\ n \in Nat /\ DOMAIN files = 1..n
  BY <1>1, TailFacts
<1>3. /\ longer \in Seq(Nat) /\ Len(longer) = Len(files[n]) + 1 /\ longer[Len(files[n]) + 1] = written + 1
      /\ \A i \in 1..Len(files[n]) : longer[i] = files[n][i]
  <2>1. files[n] \in Seq(Nat) /\ written + 1 \in Nat
    BY <1>2, TailFacts
  <2> QED
    BY <2>1
<1> HIDE DEF n, longer
<1>4. files' \in Seq(Seq(Nat)) /\ Len(files') = n
      /\ \A f \in 1..n : files'[f] = IF f = n THEN longer ELSE files[f]
  BY <1>1, <1>2, <1>3, TailFacts DEF n
<1>5. \A f \in 1..n : Len(files'[f]) >= Len(files[f]) /\ Len(files'[f]) \in Nat /\ (f # n => files'[f] = files[f])
  <2>1. \A f \in 1..n : Len(files[f]) \in Nat
    BY TailFacts DEF n
  <2> QED
    BY <1>2, <1>3, <1>4, <2>1
<1>6. TailTypes'
  BY <1>1, <1>4, TailFacts DEF TailTypes
<1>7. Knows'
  BY <1>1, <1>4 DEF TailInv, Knows, n
<1>8. PICK base : Ranged(base) /\ Follows(base)
  BY DEF TailInv
<1>9. /\ base \in [1..n -> Nat]
      /\ \A f \in 1..n : \A i \in 1..Len(files[f]) : files[f][i] = base[f] + i
      /\ \A f, g \in 1..n : f < g => base[f] + Len(files[f]) <= base[g]
      /\ base[n] + Len(files[n]) = written
      /\ ~blurred => \A f \in 1..n : f + 1 \in 1..n => base[f + 1] = base[f] + Len(files[f])
  BY <1>1, <1>8 DEF Ranged, n
<1>10. Ranged(base)'
  <2>1. ASSUME NEW f \in 1..n, NEW i \in 1..Len(files'[f]) PROVE files'[f][i] = base[f] + i
    <3>1. CASE f # n
      BY <1>4, <1>9, <2>1, <3>1
    <3>2. CASE f = n
      <4>1. files'[f] = longer /\ i \in 1..(Len(files[n]) + 1)
        BY <1>2, <1>3, <1>4, <2>1, <3>2
      <4>2. CASE i = Len(files[n]) + 1
        <5>1. longer[i] = written + 1
          BY <1>3, <4>2
        <5>2. base[n] \in Nat /\ Len(files[n]) \in Nat
          BY <1>2, <1>9, TailFacts DEF n
        <5> QED
          BY <1>9, <3>2, <4>1, <4>2, <5>1, <5>2
      <4>3. CASE i # Len(files[n]) + 1
        <5>1. i \in 1..Len(files[n])
          <6>1. Len(files[n]) \in Nat
            BY <1>2, TailFacts DEF n
          <6> QED
            BY <4>1, <4>3, <6>1
        <5>2. longer[i] = files[n][i] /\ files[n][i] = base[n] + i
          BY <1>2, <1>3, <1>9, <5>1
        <5> QED
          BY <3>2, <4>1, <5>2
      <4> QED
        BY <4>2, <4>3
    <3> QED
      BY <3>1, <3>2
  <2>2. ASSUME NEW f \in 1..n, NEW g \in 1..n, f < g PROVE base[f] + Len(files'[f]) <= base[g]
    <3>1. f # n
      BY <1>2, <2>2
    <3> QED
      BY <1>5, <1>9, <2>2, <3>1
  <2>3. base[n] + Len(files'[n]) = written + 1
    <3>1. Len(files'[n]) = Len(files[n]) + 1
      BY <1>2, <1>3, <1>4
    <3>2. base[n] \in Nat /\ Len(files[n]) \in Nat
      BY <1>2, <1>9, TailFacts DEF n
    <3> QED
      BY <1>9, <3>1, <3>2
  <2>4. ASSUME ~blurred, NEW f \in 1..n, f + 1 \in 1..n PROVE base[f + 1] = base[f] + Len(files'[f])
    <3>1. f # n
      BY <1>2, <2>4
    <3> QED
      BY <1>5, <1>9, <2>4, <3>1
  <2> QED
    BY <1>1, <1>4, <1>9, <2>1, <2>2, <2>3, <2>4 DEF Ranged
<1>11. Follows(base)'
  <2> SUFFICES ASSUME follow.file # 0
               PROVE  /\ Kept(base, LastOf(printed), follow.file, follow.offset)'
                      /\ ~blurred => Exact(base, follow.file, follow.offset)'
    BY <1>1 DEF Follows
  <2>1. follow.file \in 1..n
    BY <1>8, PrintedIsPast DEF n
  <2>2. Len(files'[follow.file]) >= Len(files[follow.file]) /\ Len(files[follow.file]) \in Nat
        /\ Len(files'[follow.file]) \in Nat
    BY <1>5, <2>1, TailFacts DEF n
  <2>3. Len(files'[follow.file]) < follow.offset => Len(files[follow.file]) < follow.offset
    BY <2>2, TailFacts
  <2>4. follow.offset <= Len(files[follow.file]) => follow.offset <= Len(files'[follow.file])
    BY <2>2, TailFacts
  <2>5. Kept(base, LastOf(printed), follow.file, follow.offset)'
    BY <1>1, <1>8, <2>3 DEF Follows, Kept
  <2>6. ~blurred => Exact(base, follow.file, follow.offset)'
    BY <1>1, <1>8, <2>4 DEF Follows, Exact
  <2> QED
    BY <2>5, <2>6
<1>12. InOrder(printed, ~blurred)'
  BY <1>1 DEF TailInv, InOrder
<1> QED
  BY <1>6, <1>7, <1>10, <1>11, <1>12 DEF TailInv

\* A new segment starts after all lines.
LEMMA RotateKeeps == ASSUME TailInv, Rotate PROVE TailInv'
<1> DEFINE n == Len(files)
<1>1. /\ files' = Append(files, <<>>) /\ written' = written
      /\ follow' = follow /\ printed' = printed /\ seen' = seen
      /\ blurred' = (blurred \/ (follow.pc # "start" /\ n > seen /\ seen > 0))
  BY DEF Rotate
<1>2. n \in Nat /\ seen \in Nat
  BY TailFacts
<1>3. /\ files' \in Seq(Seq(Nat)) /\ Len(files') = n + 1
      /\ files'[n + 1] = <<>> /\ \A f \in 1..n : files'[f] = files[f]
  <2>1. <<>> \in Seq(Nat)
    OBVIOUS
  <2> QED
    BY <1>1, <2>1, TailFacts
<1>4. Len(files'[n + 1]) = 0 /\ 1..(n + 1) = 1..n \cup {n + 1}
  <2>1. Len(<<>>) = 0
    OBVIOUS
  <2> QED
    BY <1>2, <1>3, <2>1
<1> HIDE DEF n
<1>5. blurred' \in BOOLEAN /\ (~blurred' => ~blurred)
  BY <1>1, TailFacts
<1>6. TailTypes'
  BY <1>1, <1>3, <1>5, TailFacts DEF TailTypes
<1>7. Knows'
  <2>1. seen <= n /\ follow.file <= seen
    BY DEF TailInv, Knows, n
  <2>2. seen <= n + 1
    BY <1>2, <2>1
  <2>3. ~blurred' /\ seen > 0 /\ follow.pc # "start" => n + 1 <= seen + 1
    <3>1. ~blurred' /\ seen > 0 /\ follow.pc # "start" => ~(n > seen)
      BY <1>1
    <3>2. ~(n > seen) => n + 1 <= seen + 1
      BY <1>2
    <3> QED
      BY <3>1, <3>2
  <2> QED
    BY <1>1, <1>3, <1>5, <2>1, <2>2, <2>3 DEF TailInv, Knows
<1>8. PICK base : Ranged(base) /\ Follows(base)
  BY DEF TailInv
<1>9. /\ base \in [1..n -> Nat]
      /\ \A f \in 1..n : \A i \in 1..Len(files[f]) : files[f][i] = base[f] + i
      /\ \A f, g \in 1..n : f < g => base[f] + Len(files[f]) <= base[g]
      /\ n # 0 => base[n] + Len(files[n]) = written
      /\ ~blurred => \A f \in 1..n : f + 1 \in 1..n => base[f + 1] = base[f] + Len(files[f])
  BY <1>8, TailFacts DEF Ranged, n
<1>10. PICK new : /\ new \in [1..(n + 1) -> Nat] /\ new[n + 1] = written
                  /\ \A f \in 1..n : new[f] = base[f] /\ f # n + 1
  <2> DEFINE it == [f \in 1..(n + 1) |-> IF f = n + 1 THEN written ELSE base[f]]
  <2>1. \A f \in 1..n : f # n + 1
    BY <1>2
  <2>2. it \in [1..(n + 1) -> Nat] /\ it[n + 1] = written /\ \A f \in 1..n : it[f] = base[f] /\ f # n + 1
    BY <1>2, <1>4, <1>9, <2>1, TailFacts
  <2> QED
    BY <2>2
<1>11. \A f \in 1..n : base[f] + Len(files[f]) <= written
  <2> TAKE f \in 1..n
  <2>1. /\ (f < n \/ f = n) /\ n # 0 /\ n \in 1..n /\ base[f] \in Nat /\ base[n] \in Nat
        /\ Len(files[f]) \in Nat /\ Len(files[n]) \in Nat
    <3>1. f <= n /\ 1 <= f /\ f \in Nat
      BY <1>2
    <3>2. n \in 1..n
      BY <1>2, <3>1
    <3>3. base[f] \in Nat /\ base[n] \in Nat
      BY <1>9, <3>2
    <3>4. Len(files[f]) \in Nat /\ Len(files[n]) \in Nat
      BY <3>2, TailFacts DEF n
    <3> QED
      BY <1>2, <3>1, <3>2, <3>3, <3>4
  <2>2. f < n => base[f] + Len(files[f]) <= base[n]
    BY <2>1, <1>9
  <2>3. base[n] + Len(files[n]) = written
    BY <2>1, <1>9
  <2> QED
    BY <2>1, <2>2, <2>3
<1>12. Ranged(new)'
  <2>1. ASSUME NEW f \in 1..(n + 1), NEW i \in 1..Len(files'[f]) PROVE files'[f][i] = new[f] + i
    <3>1. f \in 1..n
      BY <1>4, <2>1
    <3>2. files'[f] = files[f] /\ new[f] = base[f] /\ i \in 1..Len(files[f])
      BY <1>3, <1>10, <2>1, <3>1
    <3> QED
      BY <1>9, <3>1, <3>2
  <2>2. ASSUME NEW f \in 1..(n + 1), NEW g \in 1..(n + 1), f < g PROVE new[f] + Len(files'[f]) <= new[g]
    <3>1. f \in 1..n
      BY <1>2, <2>2
    <3>2. new[f] = base[f] /\ files'[f] = files[f]
      BY <1>3, <1>10, <3>1
    <3>3. CASE g \in 1..n
      BY <1>9, <1>10, <2>2, <3>1, <3>2, <3>3
    <3>4. CASE g = n + 1
      BY <1>10, <1>11, <3>1, <3>2, <3>4
    <3> QED
      BY <1>4, <3>3, <3>4
  <2>3. new[n + 1] + Len(files'[n + 1]) = written
    BY <1>4, <1>10, TailFacts
  <2>4. ASSUME ~blurred', NEW f \in 1..(n + 1), f + 1 \in 1..(n + 1) PROVE new[f + 1] = new[f] + Len(files'[f])
    <3>1. f \in 1..n
      BY <1>2, <2>4
    <3>2. new[f] = base[f] /\ files'[f] = files[f]
      BY <1>3, <1>10, <3>1
    <3>3. CASE f + 1 \in 1..n
      BY <1>5, <1>9, <1>10, <2>4, <3>1, <3>2, <3>3
    <3>4. CASE f + 1 = n + 1
      <4>1. f = n /\ n # 0
        BY <1>2, <3>1, <3>4
      <4> QED
        BY <1>9, <1>10, <3>2, <4>1
    <3> QED
      BY <1>4, <2>4, <3>3, <3>4
  <2>5. n + 1 # 0
    BY <1>2
  <2> QED
    BY <1>1, <1>3, <1>10, <2>1, <2>2, <2>3, <2>4 DEF Ranged
<1>13. Follows(new)'
  <2> SUFFICES ASSUME follow.file # 0
               PROVE  /\ Kept(new, LastOf(printed), follow.file, follow.offset)'
                      /\ ~blurred' => Exact(new, follow.file, follow.offset)'
    BY <1>1 DEF Follows
  <2>1. follow.file \in 1..n
    BY <1>8, PrintedIsPast DEF n
  <2>2. files'[follow.file] = files[follow.file] /\ new[follow.file] = base[follow.file]
    BY <1>3, <1>10, <2>1
  <2>3. Kept(new, LastOf(printed), follow.file, follow.offset)'
    BY <1>1, <1>8, <2>2 DEF Follows, Kept
  <2>4. ~blurred' => Exact(new, follow.file, follow.offset)'
    BY <1>1, <1>5, <1>8, <2>2 DEF Follows, Exact
  <2> QED
    BY <2>3, <2>4
<1>14. InOrder(printed, ~blurred)'
  BY <1>1, <1>5 DEF TailInv, InOrder
<1> QED
  BY <1>6, <1>7, <1>12, <1>13, <1>14 DEF TailInv

\* What comes after a truncation comes after all lines so far.
LEMMA TruncateKeeps == ASSUME TailInv, Truncate PROVE TailInv'
<1> DEFINE n == Len(files)
<1>1. /\ files # <<>> /\ files' = [files EXCEPT ![n] = <<>>] /\ written' = written /\ blurred' = TRUE
      /\ follow' = follow /\ printed' = printed /\ seen' = seen
  BY DEF Truncate
<1>2. n \in 1..n /\ n \in Nat /\ n # 0
  BY <1>1, TailFacts
<1>3. /\ files' \in Seq(Seq(Nat)) /\ Len(files') = n /\ Len(files'[n]) = 0
      /\ \A f \in 1..n : f # n => files'[f] = files[f]
  <2>1. <<>> \in Seq(Nat) /\ Len(<<>>) = 0
    OBVIOUS
  <2> QED
    BY <1>1, <1>2, <2>1, TailFacts
<1> HIDE DEF n
<1>4. TailTypes'
  BY <1>1, <1>3, TailFacts DEF TailTypes
<1>5. Knows'
  BY <1>1, <1>3 DEF TailInv, Knows, n
<1>6. PICK base : Ranged(base) /\ Follows(base)
  BY DEF TailInv
<1>7. /\ base \in [1..n -> Nat]
      /\ \A f \in 1..n : \A i \in 1..Len(files[f]) : files[f][i] = base[f] + i
      /\ \A f, g \in 1..n : f < g => base[f] + Len(files[f]) <= base[g]
      /\ base[n] + Len(files[n]) = written
  BY <1>1, <1>6, TailFacts DEF Ranged, n
<1>8. base[n] \in Nat /\ Len(files[n]) \in Nat /\ written \in Nat
  BY <1>2, <1>7, TailFacts DEF n
<1>9. PICK new : new \in [1..n -> Nat] /\ new[n] = written /\ \A f \in 1..n : f # n => new[f] = base[f]
  <2> DEFINE it == [base EXCEPT ![n] = written]
  <2>1. it \in [1..n -> Nat] /\ it[n] = written /\ \A f \in 1..n : f # n => it[f] = base[f]
    BY <1>2, <1>7, <1>8
  <2> QED
    BY <2>1
<1>10. Ranged(new)'
  <2>1. ASSUME NEW f \in 1..n, NEW i \in 1..Len(files'[f]) PROVE files'[f][i] = new[f] + i
    <3>1. f # n
      BY <1>3, <2>1
    <3>2. files'[f] = files[f] /\ new[f] = base[f] /\ i \in 1..Len(files[f])
      BY <1>3, <1>9, <2>1, <3>1
    <3> QED
      BY <1>7, <3>1, <3>2
  <2>2. ASSUME NEW f \in 1..n, NEW g \in 1..n, f < g PROVE new[f] + Len(files'[f]) <= new[g]
    <3>1. f # n
      BY <1>2, <2>2
    <3>2. new[f] = base[f] /\ files'[f] = files[f] /\ base[f] + Len(files[f]) <= base[g]
      BY <1>3, <1>7, <1>9, <2>2, <3>1
    <3>3. base[g] <= new[g]
      <4>1. base[g] \in Nat
        BY <1>7
      <4> QED
        BY <1>7, <1>8, <1>9, <4>1
    <3>4. base[f] \in Nat /\ base[g] \in Nat /\ new[g] \in Nat /\ Len(files[f]) \in Nat
      BY <1>7, <1>9, TailFacts DEF n
    <3> QED
      BY <3>2, <3>3, <3>4
  <2>3. new[n] + Len(files'[n]) = written
    BY <1>3, <1>8, <1>9
  <2> QED
    BY <1>1, <1>3, <1>9, <2>1, <2>2, <2>3 DEF Ranged
<1>11. Follows(new)'
  <2> SUFFICES ASSUME follow.file # 0
               PROVE  Kept(new, LastOf(printed), follow.file, follow.offset)'
    BY <1>1 DEF Follows
  <2> DEFINE p == LastOf(printed)
             f == follow.file
  <2>1. /\ f \in 1..n /\ p <= base[f] + Len(files[f]) /\ p \in Nat /\ follow.offset \in Nat /\ Kept(base, p, f, follow.offset)
        /\ p' = p /\ f' = f
    BY <1>1, <1>6, PrintedIsPast, TailFacts DEF n, Follows
  <2> HIDE DEF p, f
  <2>2. CASE f # n
    <3>1. new[f] = base[f] /\ files'[f] = files[f]
      BY <1>3, <1>9, <2>1, <2>2
    <3> QED
      BY <1>1, <2>1, <3>1 DEF Kept, p, f
  <2>3. CASE f = n
    <3>1. p <= new[f] /\ p <= new[f] + follow.offset
      BY <1>7, <1>8, <1>9, <2>1, <2>3
    <3> QED
      BY <1>1, <2>1, <3>1 DEF Kept, p, f
  <2> QED
    BY <2>2, <2>3
<1>12. InOrder(printed, ~blurred)'
  BY <1>1 DEF TailInv, InOrder
<1> QED
  BY <1>4, <1>5, <1>10, <1>11, <1>12 DEF TailInv


\* Printing what a segment has after line o.
LEMMA SegmentPrinted ==
  ASSUME TailInv, NEW base, Ranged(base), NEW f \in 1..Len(files), NEW o \in Nat,
         NEW s \in Seq(Nat), LastOf(s) \in Nat, NEW exact, InOrder(s, exact),
         LastOf(s) <= base[f] + o, exact /\ s # <<>> => LastOf(s) = base[f] + o
  PROVE  LET w == s \o Rest(f, o)
             n == Len(files[f])
         IN /\ w \in Seq(Nat) /\ InOrder(w, exact) /\ n \in Nat /\ base[f] \in Nat
            /\ o <= n => /\ Len(Rest(f, o)) = n - o /\ LastOf(w) \in Nat /\ LastOf(w) <= base[f] + n
                         /\ exact /\ w # <<>> => LastOf(w) = base[f] + n
            /\ ~(o <= n) => w = s /\ Len(Rest(f, o)) = 0
<1> DEFINE r == Rest(f, o)
           n == Len(files[f])
           w == s \o r
           b == base[f]
<1>1. files \in Seq(Seq(Nat)) /\ n \in Nat
  BY TailFacts
<1>2. /\ r \in Seq(Nat) /\ b \in Nat /\ b + o \in Nat /\ RunAfter(r, b + o)
      /\ (o <= n => Len(r) = n - o) /\ (~(o <= n) => Len(r) = 0)
  BY <1>1, SegmentFacts DEF Rest
<1>3. LastOf(s) <= b + o /\ (exact /\ s # <<>> => LastOf(s) = b + o)
  OBVIOUS
<1> HIDE DEF r, n, b
<1>4. /\ w \in Seq(Nat) /\ InOrder(w, exact) /\ (Len(r) = 0 => w = s)
      /\ (Len(r) # 0 => w # <<>> /\ LastOf(w) = (b + o) + Len(r))
  BY <1>2, <1>3, RunPrinted
<1> HIDE DEF w
<1>5. ASSUME o <= n
      PROVE  LastOf(w) \in Nat /\ LastOf(w) <= b + n /\ (exact /\ w # <<>> => LastOf(w) = b + n)
  <2>1. Len(r) = n - o
    BY <1>2, <1>5
  <2>2. CASE Len(r) = 0
    <3>1. w = s /\ n = o
      BY <1>1, <1>4, <2>1, <2>2
    <3> QED
      BY <1>3, <3>1
  <2>3. CASE Len(r) # 0
    <3>1. LastOf(w) = b + n
      BY <1>1, <1>2, <1>4, <2>1, <2>3
    <3> QED
      BY <1>1, <1>2, <3>1
  <2> QED
    BY <2>2, <2>3
<1> QED
  BY <1>1, <1>2, <1>4, <1>5 DEF r, n, b, w

LEMMA PrintLogsKeeps == ASSUME TailInv, PrintLogs PROVE TailInv'
<1>1. /\ follow.pc = "start" /\ files' = files /\ written' = written /\ blurred' = blurred /\ seen' = Len(files)
      /\ follow.file = 0 /\ follow.offset = 0 /\ printed = <<>>
  BY DEF PrintLogs, TailInv, Knows
<1>2. PICK base : Ranged(base) /\ Follows(base)
  BY DEF TailInv
<1>3. Ranged(base)'
  BY <1>1, <1>2 DEF Ranged
<1>4. CASE files = <<>>
  <2>1. /\ follow' = [follow EXCEPT !.pc = "sleep"] /\ printed' = printed
        /\ Len(files) = 0
    BY <1>4 DEF PrintLogs
  <2>2. /\ follow' \in Following /\ follow'.pc = "sleep" /\ follow'.file = 0 /\ follow'.offset = 0
    BY <1>1, <2>1, TailFacts DEF Following
  <2>3. TailTypes'
    BY <1>1, <2>1, <2>2, TailFacts DEF TailTypes
  <2>4. Knows'
    BY <1>1, <2>1, <2>2 DEF Knows
  <2>5. Follows(base)'
    BY <2>2 DEF Follows
  <2>6. InOrder(printed, ~blurred)'
    BY <1>1, <2>1 DEF TailInv, InOrder
  <2> QED
    BY <1>3, <2>3, <2>4, <2>5, <2>6 DEF TailInv
<1>5. CASE files # <<>>
  <2> DEFINE n == Len(files)
             len == Len(files[n])
             o == IF TailLines < len THEN len - TailLines ELSE 0
  <2>1. n \in 1..Len(files) /\ n \in Nat /\ n # 0 /\ len \in Nat
    BY <1>5, TailFacts
  <2>2. TailLines \in Nat
    BY LogTailAssumption
  <2> HIDE DEF len
  <2>3. o \in Nat /\ o <= len /\ (IF TailLines < len THEN len - TailLines + 1 ELSE 1) = o + 1
    BY <2>1, <2>2
  <2> HIDE DEF o
  <2>4. printed' = Rest(n, o)
    BY <1>5, <2>3 DEF PrintLogs, PrintTail, NewestLogSegment, Rest, len
  <2>5. follow' = [follow EXCEPT !.pc = "sleep", !.file = n, !.offset = len]
    BY <1>5 DEF PrintLogs, NewestLogSegment, len
  <2>6. /\ follow' \in Following /\ follow'.pc = "sleep" /\ follow'.file = n /\ follow'.offset = len
    BY <2>1, <2>5, TailFacts DEF Following
  <2> HIDE DEF n
  <2>7. printed = <<>> /\ printed \in Seq(Nat) /\ LastOf(printed) = 0 /\ 0 \in Nat
    BY <1>1, TailFacts DEF LastOf
  <2>8. InOrder(printed, ~blurred)
    BY DEF TailInv
  <2>9. base[n] \in Nat /\ LastOf(printed) <= base[n] + o
    <3>1. base[n] \in Nat
      BY <1>2, <2>1 DEF Ranged
    <3> QED
      BY <2>3, <2>7, <3>1
  <2> DEFINE p == printed \o Rest(n, o)
  <2>10. p \in Seq(Nat) /\ InOrder(p, ~blurred) /\ LastOf(p) <= base[n] + len
         /\ ((~blurred) /\ p # <<>> => LastOf(p) = base[n] + len)
    <3>1. /\ n \in 1..Len(files) /\ o \in Nat /\ printed \in Seq(Nat) /\ LastOf(printed) \in Nat
          /\ InOrder(printed, ~blurred) /\ Ranged(base)
          /\ LastOf(printed) <= base[n] + o /\ ((~blurred) /\ printed # <<>> => LastOf(printed) = base[n] + o)
      BY <1>2, <2>1, <2>3, <2>7, <2>8, <2>9
    <3>2. /\ p \in Seq(Nat) /\ InOrder(p, ~blurred)
          /\ o <= Len(files[n]) => /\ LastOf(p) <= base[n] + Len(files[n])
                                   /\ (~blurred) /\ p # <<>> => LastOf(p) = base[n] + Len(files[n])
      BY <3>1, SegmentPrinted
    <3> HIDE DEF p
    <3> QED
      BY <2>3, <3>2 DEF len
  <2>11. printed \o Rest(n, o) = printed'
    <3>1. Rest(n, o) \in Seq(Nat)
      BY <1>2, <2>1, <2>3, SegmentFacts, TailFacts DEF Rest
    <3> QED
      BY <2>4, <2>7, <3>1, ConcatEmptySeq
  <2>12. TailTypes'
    BY <1>1, <2>1, <2>6, <2>10, <2>11, TailFacts DEF TailTypes, n
  <2>13. Knows'
    BY <1>1, <2>1, <2>6 DEF Knows, n
  <2>14. Follows(base)'
    <3>1. LastOf(printed)' = LastOf(printed \o Rest(n, o))
      BY <2>11 DEF LastOf
    <3>2. Kept(base, LastOf(printed), follow.file, follow.offset)'
      BY <1>1, <2>1, <2>6, <2>10, <3>1 DEF Kept, len
    <3>3. ~blurred => Exact(base, follow.file, follow.offset)'
      BY <1>1, <2>1, <2>6, <2>10, <2>11, <3>1 DEF Exact, len
    <3> QED
      BY <1>1, <3>2, <3>3 DEF Follows
  <2>15. InOrder(printed, ~blurred)'
    BY <1>1, <2>10, <2>11 DEF InOrder
  <2> QED
    BY <1>3, <2>12, <2>13, <2>14, <2>15 DEF TailInv
<1> QED
  BY <1>4, <1>5

LEMMA LookKeeps == ASSUME TailInv, Look PROVE TailInv'
<1> DEFINE n == Len(files)
<1>1. /\ follow.pc = "sleep" /\ files # <<>> /\ files' = files /\ written' = written /\ printed' = printed
      /\ blurred' = blurred /\ seen' = n
      /\ follow' = [follow EXCEPT !.pc = "act", !.wanted = n, !.short = Len(files[n]) < follow.offset]
  BY DEF Look, NewestLogSegment
<1>2. n \in 1..n /\ n \in Nat /\ n > 0
  BY <1>1, TailFacts
<1>3. /\ follow' \in Following /\ follow'.pc = "act" /\ follow'.wanted = n /\ follow'.file = follow.file
      /\ follow'.offset = follow.offset /\ (follow'.short <=> Len(files[n]) < follow.offset)
  <2> DEFINE short == Len(files[n]) < follow.offset
  <2>1. short \in BOOLEAN
    OBVIOUS
  <2>2. follow' = [follow EXCEPT !.pc = "act", !.wanted = n, !.short = short]
    BY <1>1
  <2> HIDE DEF short
  <2>3. /\ follow' \in Following /\ follow'.pc = "act" /\ follow'.wanted = n /\ follow'.file = follow.file
        /\ follow'.offset = follow.offset /\ follow'.short = short
    BY <1>2, <2>1, <2>2, TailFacts DEF Following
  <2> QED
    BY <2>3 DEF short
<1> HIDE DEF n
<1>4. TailTypes'
  BY <1>1, <1>2, <1>3, TailFacts DEF TailTypes
<1>5. Knows'
  <2>1. seen <= n /\ follow.file = seen /\ follow.file <= n /\ (follow.file = 0 => follow.offset = 0 /\ printed = <<>>)
        /\ (~blurred /\ seen > 0 => n <= seen + 1)
    BY <1>1 DEF TailInv, Knows, n
  <2>2. n <= n /\ n <= n + 1
    BY <1>2
  <2>3. ~blurred /\ follow.file > 0 => n <= follow.file + 1
    BY <2>1
  <2> QED
    BY <1>1, <1>2, <1>3, <2>1, <2>2, <2>3 DEF Knows, n
<1>6. PICK base : Ranged(base) /\ Follows(base)
  BY DEF TailInv
<1>7. Ranged(base)'
  BY <1>1, <1>6 DEF Ranged
<1>8. Follows(base)'
  <2> SUFFICES ASSUME follow.file # 0
               PROVE  /\ Kept(base, LastOf(printed), follow.file, follow.offset)'
                      /\ ~blurred => Exact(base, follow.file, follow.offset)'
    BY <1>1, <1>3 DEF Follows
  <2>1. LastOf(printed)' = LastOf(printed)
    BY <1>1 DEF LastOf
  <2>2. Kept(base, LastOf(printed), follow.file, follow.offset)'
    BY <1>1, <1>3, <1>6, <2>1 DEF Follows, Kept
  <2>3. ASSUME ~blurred PROVE Exact(base, follow.file, follow.offset)'
    <3>1. Exact(base, follow.file, follow.offset)
      BY <1>6, <2>3 DEF Follows
    <3>2. follow.file \in 1..Len(files)
      BY <1>6, PrintedIsPast
    <3>3. follow.file = n => ~(Len(files[n]) < follow.offset)
      <4>1. Len(files[follow.file]) \in Nat /\ follow.offset \in Nat /\ follow.offset <= Len(files[follow.file])
        BY <3>1, <3>2, TailFacts DEF Exact
      <4> QED
        BY <4>1
    <3> QED
      BY <1>1, <1>3, <2>1, <3>1, <3>3 DEF Exact
  <2> QED
    BY <2>2, <2>3
<1>9. InOrder(printed, ~blurred)'
  BY <1>1 DEF TailInv, InOrder
<1> QED
  BY <1>4, <1>5, <1>7, <1>8, <1>9 DEF TailInv


LEMMA SwitchToKeeps == ASSUME TailInv, SwitchTo PROVE TailInv'
<1> DEFINE f == follow.file
           o == follow.offset
           g == follow.wanted
           first == printed \o FinishCurrent
           all == first \o Rest(g, 0)
           exact == ~blurred
<1>1. /\ follow.pc = "act" /\ g # f /\ printed' = all /\ files' = files /\ written' = written /\ seen' = seen
      /\ blurred' = blurred
      /\ follow' = [pc |-> "sleep", file |-> g, offset |-> Len(files[g]), wanted |-> g, short |-> FALSE]
  BY DEF SwitchTo, Replace
<1>2. PICK base : Ranged(base) /\ Follows(base)
  BY DEF TailInv
<1>3. g = seen /\ g > 0 /\ g \in Nat /\ g \in 1..Len(files) /\ f <= g /\ (f = 0 => printed = <<>>)
      /\ (exact => Len(files) <= seen + 1) /\ (exact /\ f > 0 => g <= f + 1)
  BY <1>1, TailFacts DEF TailInv, Knows
<1>4. f \in Nat /\ o \in Nat /\ printed \in Seq(Nat) /\ LastOf(printed) \in Nat /\ InOrder(printed, exact)
  BY TailFacts DEF TailInv
<1>5. base[g] \in Nat /\ Len(files[g]) \in Nat
  BY <1>2, <1>3, TailFacts DEF Ranged
<1> HIDE DEF g, exact
<1>6. /\ first \in Seq(Nat) /\ InOrder(first, exact) /\ LastOf(first) \in Nat /\ LastOf(first) <= base[g]
      /\ exact /\ first # <<>> => LastOf(first) = base[g]
  <2>1. CASE f = 0
    <3>1. first = printed /\ printed = <<>>
      BY <1>3, <1>4, <2>1, ConcatEmptySeq DEF FinishCurrent
    <3>2. LastOf(printed) = 0
      BY <3>1 DEF LastOf
    <3> QED
      BY <1>4, <1>5, <3>1, <3>2
  <2>2. CASE f # 0
    <3> DEFINE n == Len(files[f])
    <3>1. f \in 1..Len(files) /\ base[f] \in Nat /\ LastOf(printed) <= base[f] + n /\ n \in Nat
      BY <1>2, <2>2, PrintedIsPast, TailFacts
    <3>2. first = printed \o Rest(f, o)
      BY <2>2 DEF FinishCurrent
    <3>3. LastOf(printed) <= base[f] + o /\ (exact => o <= n)
          /\ (exact /\ printed # <<>> => LastOf(printed) = base[f] + o)
      BY <1>2, <2>2 DEF Follows, Kept, Exact, exact
    <3>4. base[f] + n <= base[g]
      <4>1. f < g
        BY <1>1, <1>3, <1>4 DEF g
      <4> QED
        BY <1>2, <1>3, <3>1, <4>1 DEF Ranged
    <3>5. exact => base[g] = base[f] + n
      <4>1. exact => g = f + 1
        BY <1>1, <1>3, <1>4, <2>2 DEF g
      <4>2. exact => f + 1 \in 1..Len(files)
        BY <1>3, <4>1
      <4> QED
        BY <1>2, <3>1, <4>1, <4>2 DEF Ranged, exact
    <3> DEFINE w == printed \o Rest(f, o)
    <3> HIDE DEF f, o
    <3>6. /\ w \in Seq(Nat) /\ InOrder(w, exact)
          /\ o <= Len(files[f]) => /\ LastOf(w) \in Nat /\ LastOf(w) <= base[f] + Len(files[f])
                                   /\ exact /\ w # <<>> => LastOf(w) = base[f] + Len(files[f])
          /\ ~(o <= Len(files[f])) => w = printed
      <4>1. /\ f \in 1..Len(files) /\ o \in Nat /\ printed \in Seq(Nat) /\ LastOf(printed) \in Nat
            /\ InOrder(printed, ~blurred) /\ Ranged(base)
            /\ LastOf(printed) <= base[f] + o /\ ((~blurred) /\ printed # <<>> => LastOf(printed) = base[f] + o)
        BY <1>2, <1>4, <3>1, <3>3 DEF exact
      <4>2. /\ w \in Seq(Nat) /\ InOrder(w, ~blurred)
            /\ o <= Len(files[f]) => /\ LastOf(w) \in Nat /\ LastOf(w) <= base[f] + Len(files[f])
                                     /\ (~blurred) /\ w # <<>> => LastOf(w) = base[f] + Len(files[f])
        BY <4>1, SegmentPrinted
      <4>3. ASSUME ~(o <= Len(files[f])) PROVE w = printed
        <5>1. Rest(f, o) \in Seq(Nat) /\ Len(Rest(f, o)) = 0
          BY <4>1, <4>3, SegmentFacts, TailFacts DEF Rest
        <5>2. Rest(f, o) = <<>>
          BY <5>1
        <5> QED
          BY <4>1, <5>2, ConcatEmptySeq DEF w
      <4> QED
        BY <4>2, <4>3 DEF exact
    <3> HIDE DEF w, n, first
    <3>7. first = w
      BY <3>2 DEF w
    <3>8. CASE o <= n
      <4>1. LastOf(w) \in Nat /\ LastOf(w) <= base[f] + n /\ (exact /\ w # <<>> => LastOf(w) = base[f] + n)
        BY <3>6, <3>8 DEF n
      <4>2. LastOf(w) <= base[g]
        BY <1>5, <3>1, <3>4, <4>1
      <4> QED
        BY <3>5, <3>6, <3>7, <4>1, <4>2
    <3>9. CASE ~(o <= n)
      <4>1. w = printed /\ ~exact
        BY <3>3, <3>6, <3>9 DEF n
      <4>2. LastOf(w) \in Nat /\ LastOf(w) <= base[g]
        BY <1>4, <1>5, <3>1, <3>4, <4>1
      <4> QED
        BY <3>6, <3>7, <4>1, <4>2
    <3> QED
      BY <3>8, <3>9
  <2> QED
    BY <2>1, <2>2
<1> HIDE DEF first
<1>7. /\ all \in Seq(Nat) /\ InOrder(all, exact) /\ LastOf(all) <= base[g] + Len(files[g])
      /\ exact /\ all # <<>> => LastOf(all) = base[g] + Len(files[g])
  <2>1. /\ LastOf(first) <= base[g] + 0 /\ (exact /\ first # <<>> => LastOf(first) = base[g] + 0)
        /\ 0 \in Nat /\ 0 <= Len(files[g])
    BY <1>5, <1>6
  <2>2. /\ all \in Seq(Nat) /\ InOrder(all, exact)
        /\ 0 <= Len(files[g]) => /\ LastOf(all) <= base[g] + Len(files[g])
                                 /\ exact /\ all # <<>> => LastOf(all) = base[g] + Len(files[g])
    <3>1. /\ g \in 1..Len(files) /\ 0 \in Nat /\ first \in Seq(Nat) /\ LastOf(first) \in Nat
          /\ InOrder(first, ~blurred) /\ Ranged(base)
          /\ LastOf(first) <= base[g] + 0 /\ ((~blurred) /\ first # <<>> => LastOf(first) = base[g] + 0)
      BY <1>2, <1>3, <1>6, <2>1 DEF exact
    <3>2. /\ all \in Seq(Nat) /\ InOrder(all, ~blurred)
          /\ 0 <= Len(files[g]) => /\ LastOf(all) <= base[g] + Len(files[g])
                                   /\ (~blurred) /\ all # <<>> => LastOf(all) = base[g] + Len(files[g])
      BY <3>1, SegmentPrinted
    <3> QED
      BY <3>2 DEF exact
  <2> QED
    BY <2>1, <2>2
<1> HIDE DEF all
<1>8. /\ follow' \in Following /\ follow'.pc = "sleep" /\ follow'.file = g /\ follow'.offset = Len(files[g])
  BY <1>1, <1>3, <1>5 DEF Following
<1>9. TailTypes'
  BY <1>1, <1>7, <1>8, TailFacts DEF TailTypes
<1>10. Knows'
  <2>1. seen <= Len(files) /\ seen \in Nat /\ g = seen /\ g <= seen /\ g # 0
    BY <1>3
  <2>2. ~blurred => Len(files) <= seen + 1
    BY <1>3 DEF exact
  <2> QED
    BY <1>1, <1>8, <2>1, <2>2 DEF Knows
<1>11. Ranged(base)'
  BY <1>1, <1>2 DEF Ranged
<1>12. Follows(base)'
  <2>1. LastOf(printed)' = LastOf(all)
    BY <1>1 DEF LastOf
  <2>2. Kept(base, LastOf(printed), follow.file, follow.offset)'
    BY <1>1, <1>5, <1>7, <1>8, <2>1 DEF Kept
  <2>3. ~blurred => Exact(base, follow.file, follow.offset)'
    BY <1>1, <1>5, <1>7, <1>8, <2>1 DEF Exact, exact
  <2> QED
    BY <1>1, <2>2, <2>3 DEF Follows
<1>13. InOrder(printed, ~blurred)'
  BY <1>1, <1>7 DEF InOrder, exact
<1> QED
  BY <1>9, <1>10, <1>11, <1>12, <1>13 DEF TailInv

LEMMA PrintAppendedKeeps == ASSUME TailInv, PrintAppended PROVE TailInv'
<1> DEFINE f == follow.file
           n == Len(files[f])
           from == IF follow.short THEN 0 ELSE follow.offset
           all == printed \o Rest(f, from)
           exact == ~blurred
           end == from + Len(Rest(f, from))
<1>1. /\ follow.pc = "act" /\ follow.wanted = f /\ printed' = all /\ files' = files /\ written' = written
      /\ seen' = seen /\ blurred' = blurred /\ follow' = [follow EXCEPT !.pc = "sleep", !.offset = end]
  BY DEF PrintAppended, Replace
<1>2. PICK base : Ranged(base) /\ Follows(base)
  BY DEF TailInv
<1>3. f = seen /\ f # 0 /\ (exact => Len(files) <= seen + 1)
  BY <1>1, TailFacts DEF TailInv, Knows
<1>4. /\ f \in 1..Len(files) /\ base[f] \in Nat /\ n \in Nat /\ follow.offset \in Nat
      /\ printed \in Seq(Nat) /\ LastOf(printed) \in Nat /\ InOrder(printed, exact)
  BY <1>2, <1>3, PrintedIsPast, TailFacts DEF TailInv
<1>5. /\ Kept(base, LastOf(printed), f, follow.offset) /\ (exact => Exact(base, f, follow.offset))
  BY <1>2, <1>3 DEF Follows
<1>6. /\ from \in Nat /\ LastOf(printed) <= base[f] + from /\ (n < from => LastOf(printed) <= base[f])
      /\ exact => from <= n /\ (printed # <<>> => LastOf(printed) = base[f] + from)
  <2>1. CASE follow.short
    <3>1. LastOf(printed) <= base[f] /\ ~exact /\ from = 0
      BY <1>1, <1>5, <2>1 DEF Kept, Exact
    <3> QED
      BY <1>4, <3>1
  <2>2. CASE ~follow.short
    <3>1. from = follow.offset
      BY <2>2
    <3> HIDE DEF from, f, exact
    <3> QED
      BY <1>4, <1>5, <3>1 DEF Kept, Exact
  <2> QED
    BY <2>1, <2>2
<1> HIDE DEF from, f, exact
<1>7. /\ all \in Seq(Nat) /\ InOrder(all, exact)
      /\ from <= Len(files[f]) => /\ Len(Rest(f, from)) = Len(files[f]) - from
                                  /\ LastOf(all) \in Nat /\ LastOf(all) <= base[f] + Len(files[f])
                                  /\ exact /\ all # <<>> => LastOf(all) = base[f] + Len(files[f])
      /\ ~(from <= Len(files[f])) => all = printed /\ Len(Rest(f, from)) = 0
  BY <1>2, <1>4, <1>6, SegmentPrinted DEF exact
<1> HIDE DEF all
<1>8. /\ end \in Nat /\ LastOf(all) <= base[f] + end /\ (n < end => LastOf(all) <= base[f])
      /\ exact => end <= n /\ (all # <<>> => LastOf(all) = base[f] + end)
  <2>1. CASE from <= n
    <3>1. end = n
      BY <1>4, <1>6, <1>7, <2>1
    <3>2. LastOf(all) <= base[f] + n /\ (exact /\ all # <<>> => LastOf(all) = base[f] + n)
      BY <1>7, <2>1
    <3> HIDE DEF end, n
    <3>3. ~(n < end) /\ end <= n
      BY <1>4, <3>1
    <3> QED
      BY <1>4, <3>1, <3>2, <3>3
  <2>2. CASE ~(from <= n)
    <3>1. end = from /\ all = printed
      BY <1>6, <1>7, <2>2
    <3> HIDE DEF end, n
    <3> QED
      BY <1>6, <2>2, <3>1
  <2> QED
    BY <2>1, <2>2
<1> HIDE DEF end, n
<1>9. /\ follow' \in Following /\ follow'.pc = "sleep" /\ follow'.file = f /\ follow'.offset = end
  BY <1>1, <1>8, TailFacts DEF Following, f
<1>10. TailTypes'
  BY <1>1, <1>7, <1>9, TailFacts DEF TailTypes
<1>11. Knows'
  <2>1. seen <= Len(files) /\ seen \in Nat /\ f <= seen
    BY <1>3, TailFacts DEF TailInv, Knows, f
  <2>2. ~blurred => Len(files) <= seen + 1
    BY <1>3 DEF exact
  <2> QED
    BY <1>1, <1>3, <1>9, <2>1, <2>2 DEF Knows
<1>12. Ranged(base)'
  BY <1>1, <1>2 DEF Ranged
<1>13. Follows(base)'
  <2>1. LastOf(printed)' = LastOf(all)
    BY <1>1 DEF LastOf
  <2>2. Kept(base, LastOf(printed), follow.file, follow.offset)'
    BY <1>1, <1>8, <1>9, <2>1 DEF Kept, n
  <2>3. ~blurred => Exact(base, follow.file, follow.offset)'
    BY <1>1, <1>8, <1>9, <2>1 DEF Exact, exact, n
  <2> QED
    BY <1>1, <2>2, <2>3 DEF Follows
<1>14. InOrder(printed, ~blurred)'
  BY <1>1, <1>7 DEF InOrder, exact
<1> QED
  BY <1>10, <1>11, <1>12, <1>13, <1>14 DEF TailInv

LEMMA TailInvStep == TailInv /\ [TailNext]_tailVars => TailInv'
<1> SUFFICES ASSUME TailInv, [TailNext]_tailVars PROVE TailInv'
  OBVIOUS
<1>1. CASE Line
  BY <1>1, LineKeeps
<1>2. CASE Rotate
  BY <1>2, RotateKeeps
<1>3. CASE Truncate
  BY <1>3, TruncateKeeps
<1>4. CASE PrintLogs
  BY <1>4, PrintLogsKeeps
<1>5. CASE Look
  BY <1>5, LookKeeps
<1>6. CASE SwitchTo
  BY <1>6, SwitchToKeeps
<1>7. CASE PrintAppended
  BY <1>7, PrintAppendedKeeps
<1>8. CASE UNCHANGED tailVars
  <2>1. UNCHANGED <<files, written, follow, printed, seen, blurred>>
    BY <1>8 DEF tailVars
  <2>2. TailTypes' /\ Knows' /\ InOrder(printed, ~blurred)'
    BY <2>1 DEF TailInv, TailTypes, Knows, InOrder
  <2>3. PICK base : Ranged(base) /\ Follows(base)
    BY DEF TailInv
  <2>4. Ranged(base)'
    BY <2>1, <2>3 DEF Ranged
  <2>5. Follows(base)'
    BY <2>1, <2>3 DEF Follows, Kept, Exact, LastOf
  <2> QED
    BY <2>2, <2>4, <2>5 DEF TailInv
<1> QED
  BY <1>1, <1>2, <1>3, <1>4, <1>5, <1>6, <1>7, <1>8 DEF TailNext

LEMMA TailInvShows == TailInv => FollowPrintsAll
<1> SUFFICES ASSUME TailInv, NEW i \in 1..Len(printed) - 1
             PROVE  LET gap == printed[i + 1] - printed[i] IN gap > 0 /\ (blurred \/ gap = 1)
  BY DEF FollowPrintsAll
<1>1. printed[i + 1] - printed[i] > 0 /\ (~blurred => printed[i + 1] - printed[i] = 1)
  BY DEF TailInv, InOrder
<1> QED
  BY <1>1

\* A followed log is printed in order, no line twice and none left out between the
\* first and the last one printed, through writes, rotations and the polls of the
\* follower in any order, unless a file was truncated or a whole segment came and
\* went between two looks; for every --lines and every number of lines and
\* segments (daemon logs --follow, log_tail.rs).
THEOREM FollowPrintsEveryLine == TailSpec => []FollowPrintsAll
<1>1. TailSpec => []TailInv
  BY TailInvInit, TailInvStep, PTL DEF TailSpec
<1> QED
  BY <1>1, TailInvShows, PTL

-----------------------------------------------------------------------------
(***************************************************************************)
(* The model cache.                                                        *)
(***************************************************************************)

Digests == {"good", "bad", "absent"}
Sets == [1..Artifacts -> Digests]
Intact(s) == \A i \in 1..Artifacts : s[i] = "good"
CachePcs == {"idle", "fetch", "prepared", "failed", "probe", "probing", "load", "loaded", "none"}
CacheWorker == [pc : CachePcs, at : Nat, got : Sets, saved : {"own", "silent"}]

CacheTypes ==
  /\ cache \in [exists : BOOLEAN, files : Sets] /\ staged \in [Preparers -> Sets]
  /\ worker \in [Workers -> CacheWorker] /\ tampered \in BOOLEAN

(* What is staged was fetched so far; where a check passed the cache is     *)
(* whole and stays so, and what was loaded after it is whole.               *)
WorkFits(w, kept) ==
  /\ w.pc \in {"prepared", "probe", "probing", "load"} => kept.exists
  /\ kept.exists => Intact(kept.files)
  /\ w.pc = "loaded" => Intact(w.got)

(* One probe at a time has the hook, and it saved the one of the process.   *)
HookInv ==
  \/ /\ probing = "free" /\ hook = "own" /\ \A w \in Loaders : worker[w].pc # "probing"
  \/ \E w \in Loaders : /\ probing = w /\ worker[w].saved = "own"
                        /\ \A v \in Loaders : worker[v].pc = "probing" <=> v = w

CacheInv ==
  /\ CacheTypes /\ HookInv
  /\ \A w \in Preparers : worker[w].pc = "fetch" =>
       \A i \in 1..Artifacts : i < worker[w].at => staged[w][i] = "good"
  /\ ~tampered => \A w \in Workers : WorkFits(worker[w], cache)
  /\ ~tampered /\ cache.exists => Intact(cache.files)

\* A cache that verifies is whole.
LEMMA VerifiedFacts == ASSUME NEW c PROVE VerifyCached(c) <=> c.exists /\ Intact(c.files)
BY DEF VerifyCached, VerifyArtifact, Intact

LEMMA CacheInvInit == ModelCacheInit => CacheInv
<1> SUFFICES ASSUME ModelCacheInit  PROVE CacheInv
  OBVIOUS
<1>1. Artifacts \in Nat /\ Empty \in Sets
  BY ModelCacheAssumption DEF Empty, Sets, Digests
<1>2. CacheTypes
  BY <1>1 DEF ModelCacheInit, CacheTypes, CacheWorker, CachePcs
<1>3. HookInv
  BY DEF ModelCacheInit, HookInv, Workers
<1>4. /\ cache.exists = FALSE /\ tampered = FALSE
      /\ \A w \in Workers : worker[w].pc = "idle"
  BY DEF ModelCacheInit
<1>5. \A w \in Workers : WorkFits(worker[w], cache)
  BY <1>4 DEF WorkFits
<1> QED
  BY <1>2, <1>3, <1>4, <1>5 DEF CacheInv, Workers

\* A step of one command that leaves the hook alone, and the cache or not at all
\* but for a whole one.
LEMMA WorkGoesOn ==
  ASSUME CacheInv, NEW w \in Workers, NEW r \in CacheWorker, worker' = [worker EXCEPT ![w] = r],
         worker[w].pc # "probing", r.pc # "probing",
         UNCHANGED <<hook, probing, tampered>>,
         cache' = cache \/ (~cache.exists /\ cache' \in [exists : {TRUE}, files : Sets] /\ Intact(cache'.files)),
         staged' \in [Preparers -> Sets],
         \A v \in Preparers : v # w => staged'[v] = staged[v],
         w \in Preparers /\ r.pc = "fetch" => \A i \in 1..Artifacts : i < r.at => staged'[w][i] = "good",
         ~tampered => WorkFits(r, cache')
  PROVE  CacheInv'
<1>1. CacheTypes
  BY DEF CacheInv
<1>2. \A v \in Workers : worker'[v] = IF v = w THEN r ELSE worker[v]
  BY <1>1 DEF CacheTypes
<1>3. CacheTypes'
  BY <1>1 DEF CacheTypes
<1>4. HookInv'
  BY <1>2 DEF CacheInv, HookInv, Workers
<1>5. \A v \in Preparers : worker'[v].pc = "fetch" =>
        \A i \in 1..Artifacts : i < worker'[v].at => staged'[v][i] = "good"
  BY <1>2 DEF CacheInv, Workers
<1>6. ASSUME ~tampered  PROVE cache'.exists => Intact(cache'.files)
  BY <1>6 DEF CacheInv
<1>7. ASSUME ~tampered, NEW v \in Workers  PROVE WorkFits(worker'[v], cache')
  <2>1. CASE v = w
    BY <1>2, <1>7, <2>1
  <2>2. CASE v # w
    <3>1. WorkFits(worker[v], cache) /\ worker'[v] = worker[v]
      BY <1>2, <1>7, <2>2 DEF CacheInv
    <3>2. cache.exists => cache'.exists
      OBVIOUS
    <3> QED
      BY <1>6, <1>7, <3>1, <3>2 DEF WorkFits
  <2> QED
    BY <2>1, <2>2
<1> QED
  BY <1>3, <1>4, <1>5, <1>6, <1>7 DEF CacheInv

\* prepare-model verifies or stages, and installs what it has verified.
LEMMA PreparesKeep ==
  ASSUME CacheInv, NEW w \in Preparers,
         PrepareModel(w) \/ FetchArtifact(w) \/ FetchFails(w) \/ Install(w) \/ PrepareDies(w)
  PROVE  CacheInv'
<1>1. /\ CacheTypes /\ w \in Workers /\ Artifacts \in Nat /\ Empty \in Sets
      /\ worker[w] \in CacheWorker /\ staged[w] \in Sets
  BY ModelCacheAssumption DEF CacheInv, CacheTypes, Workers, Empty, Sets, Digests
<1>2. CASE PrepareModel(w)
  <2> DEFINE pc == IF ~cache.exists THEN "fetch" ELSE IF VerifyCached(cache) THEN "prepared" ELSE "failed"
             r == [worker[w] EXCEPT !.at = 1, !.pc = pc]
  <2>1. /\ worker' = [worker EXCEPT ![w] = r] /\ staged' = [staged EXCEPT ![w] = Empty]
        /\ worker[w].pc # "probing" /\ UNCHANGED <<cache, hook, probing, tampered>>
    BY <1>1, <1>2 DEF PrepareModel, Ready
  <2>2. pc \in {"fetch", "prepared", "failed"} /\ (pc = "prepared" => cache.exists)
    OBVIOUS
  <2> HIDE DEF pc
  <2>3. r \in CacheWorker /\ r.pc = pc /\ r.at = 1
    BY <1>1, <2>2 DEF CacheWorker, CachePcs
  <2> HIDE DEF r
  <2>4. ~tampered => WorkFits(r, cache')
    BY <2>1, <2>2, <2>3 DEF WorkFits, CacheInv
  <2>5. staged' \in [Preparers -> Sets] /\ \A v \in Preparers : v # w => staged'[v] = staged[v]
    BY <1>1, <2>1 DEF CacheTypes
  <2>6. \A i \in 1..Artifacts : i < r.at => staged'[w][i] = "good"
    BY <1>1, <2>3
  <2>7. r.pc # "probing"
    BY <2>2, <2>3
  <2> QED
    BY <1>1, <2>1, <2>3, <2>4, <2>5, <2>6, <2>7, WorkGoesOn
<1>3. CASE FetchArtifact(w)
  <2> DEFINE r == [worker[w] EXCEPT !.at = @ + 1]
  <2>1. /\ worker' = [worker EXCEPT ![w] = r] /\ staged' = [staged EXCEPT ![w][worker[w].at] = "good"]
        /\ worker[w].pc = "fetch" /\ worker[w].at <= Artifacts /\ UNCHANGED <<cache, hook, probing, tampered>>
    BY <1>1, <1>3 DEF FetchArtifact
  <2>2. r \in CacheWorker /\ r.pc = "fetch" /\ r.at = worker[w].at + 1 /\ worker[w].at \in Nat
    BY <1>1, <2>1 DEF CacheWorker
  <2> HIDE DEF r
  <2>3. ~tampered => WorkFits(r, cache')
    BY <2>1, <2>2 DEF WorkFits, CacheInv
  <2>4. /\ staged' = [staged EXCEPT ![w] = [staged[w] EXCEPT ![worker[w].at] = "good"]]
        /\ [staged[w] EXCEPT ![worker[w].at] = "good"] \in Sets
    BY <1>1, <2>1 DEF Sets, Digests, CacheTypes
  <2>5. /\ staged' \in [Preparers -> Sets] /\ \A v \in Preparers : v # w => staged'[v] = staged[v]
        /\ staged'[w] = [staged[w] EXCEPT ![worker[w].at] = "good"]
    BY <1>1, <2>4 DEF CacheTypes
  <2>6. \A i \in 1..Artifacts : i < r.at => staged'[w][i] = "good"
    BY <1>1, <2>1, <2>2, <2>5 DEF CacheInv, Sets
  <2> QED
    BY <1>1, <2>1, <2>2, <2>3, <2>5, <2>6, WorkGoesOn
<1>4. CASE FetchFails(w) \/ PrepareDies(w)
  <2>1. PICK pc \in {"failed", "idle"} :
          /\ worker' = [worker EXCEPT ![w] = [worker[w] EXCEPT !.pc = pc]]
          /\ worker[w].pc = "fetch" /\ UNCHANGED <<cache, hook, probing, tampered>>
          /\ staged' = staged \/ staged' = [staged EXCEPT ![w] = Empty]
    BY <1>1, <1>4 DEF FetchFails, PrepareDies, CacheStep
  <2> DEFINE r == [worker[w] EXCEPT !.pc = pc]
  <2>2. r \in CacheWorker /\ r.pc = pc /\ worker' = [worker EXCEPT ![w] = r]
    BY <1>1, <2>1 DEF CacheWorker, CachePcs
  <2> HIDE DEF r
  <2>3. ~tampered => WorkFits(r, cache')
    BY <2>1, <2>2 DEF WorkFits, CacheInv
  <2>4. staged' \in [Preparers -> Sets] /\ \A v \in Preparers : v # w => staged'[v] = staged[v]
    BY <1>1, <2>1 DEF CacheTypes
  <2> QED
    BY <1>1, <2>1, <2>2, <2>3, <2>4, WorkGoesOn
<1>5. CASE Install(w)
  <2> DEFINE pc == IF cache.exists THEN "failed" ELSE "prepared"
             r == [worker[w] EXCEPT !.pc = pc]
  <2>1. /\ worker' = [worker EXCEPT ![w] = r] /\ staged' = [staged EXCEPT ![w] = Empty]
        /\ worker[w].pc = "fetch" /\ worker[w].at > Artifacts /\ UNCHANGED <<hook, probing, tampered>>
        /\ cache' = IF cache.exists THEN cache ELSE [exists |-> TRUE, files |-> staged[w]]
    BY <1>1, <1>5 DEF Install, Installs, CacheStep
  <2>2. pc \in {"failed", "prepared"}
    OBVIOUS
  <2>3. r \in CacheWorker /\ r.pc = pc
    BY <1>1, <2>2 DEF CacheWorker, CachePcs
  <2> HIDE DEF r
  <2>4. Intact(staged[w])
    BY <1>1, <2>1 DEF CacheInv, Intact, CacheWorker
  <2>5. cache' = cache \/ (~cache.exists /\ cache' \in [exists : {TRUE}, files : Sets] /\ Intact(cache'.files))
    BY <1>1, <2>1, <2>4
  <2>6. cache'.exists
    BY <2>1
  <2>7. ~tampered => WorkFits(r, cache')
    BY <2>2, <2>3, <2>5, <2>6 DEF WorkFits, CacheInv
  <2>8. staged' \in [Preparers -> Sets] /\ \A v \in Preparers : v # w => staged'[v] = staged[v]
    BY <1>1, <2>1 DEF CacheTypes
  <2> QED
    BY <1>1, <2>1, <2>2, <2>3, <2>5, <2>7, <2>8, WorkGoesOn
<1> QED
  BY <1>2, <1>3, <1>4, <1>5

\* A search verifies, probes under the lock and loads.
LEMMA LoadsKeep ==
  ASSUME CacheInv, NEW w \in Loaders,
         MaybeBuildEmbedder(w) \/ TakeHook(w) \/ RestoreHook(w) \/ Load(w) \/ LoadFails(w)
  PROVE  CacheInv'
<1>1. CacheTypes /\ w \in Workers /\ worker[w] \in CacheWorker
  BY DEF CacheInv, CacheTypes, Workers
<1>2. CASE MaybeBuildEmbedder(w) \/ LoadFails(w) \/ Load(w)
  <2>1. PICK pc \in {"probe", "none", "loaded"}, got \in {worker[w].got, cache.files} :
          /\ worker' = [worker EXCEPT ![w] = [worker[w] EXCEPT !.pc = pc, !.got = got]]
          /\ worker[w].pc # "probing" /\ UNCHANGED <<cache, staged, hook, probing, tampered>>
          /\ pc = "probe" => VerifyCached(cache)
          /\ pc = "loaded" => worker[w].pc = "load" /\ got = cache.files
    <3> HIDE DEF CacheWorker
    <3>1. CASE MaybeBuildEmbedder(w) \/ LoadFails(w)
      <4>1. \E pc \in {"probe", "none"} :
              /\ worker' = [worker EXCEPT ![w].pc = pc]
              /\ worker[w].pc # "probing" /\ UNCHANGED <<cache, staged, hook, probing, tampered>>
              /\ pc = "probe" => VerifyCached(cache)
        BY <3>1 DEF MaybeBuildEmbedder, LoadFails, CacheStep, Ready
      <4>2. \A pc : [worker[w] EXCEPT !.pc = pc] = [worker[w] EXCEPT !.pc = pc, !.got = worker[w].got]
        BY <1>1 DEF CacheWorker
      <4> QED
        BY <1>1, <4>1, <4>2
    <3>2. CASE Load(w)
      <4>1. [worker[w] EXCEPT !.got = cache.files, !.pc = "loaded"]
              = [worker[w] EXCEPT !.pc = "loaded", !.got = cache.files]
        BY <1>1 DEF CacheWorker
      <4> QED
        BY <1>1, <3>2, <4>1 DEF Load
    <3> QED
      BY <1>2, <3>1, <3>2
  <2> DEFINE r == [worker[w] EXCEPT !.pc = pc, !.got = got]
  <2>2. r \in CacheWorker /\ r.pc = pc /\ r.got = got /\ worker' = [worker EXCEPT ![w] = r]
    BY <1>1, <2>1 DEF CacheWorker, CachePcs, CacheTypes
  <2> HIDE DEF r
  <2>3. ~tampered => WorkFits(r, cache')
    BY <1>1, <2>1, <2>2, VerifiedFacts DEF WorkFits, CacheInv
  <2>4. staged' \in [Preparers -> Sets]
    BY <1>1, <2>1 DEF CacheTypes
  <2>5. r.pc # "fetch" /\ r.pc # "probing"
    BY <2>1, <2>2
  <2> QED
    BY <1>1, <2>1, <2>2, <2>3, <2>4, <2>5, WorkGoesOn
<1>3. CASE TakeHook(w)
  <2> DEFINE r == [worker[w] EXCEPT !.pc = "probing", !.saved = hook]
  <2>1. /\ worker' = [worker EXCEPT ![w] = r] /\ worker[w].pc = "probe" /\ probing = "free" /\ probing' = w
        /\ UNCHANGED <<cache, staged, tampered>>
    BY <1>1, <1>3 DEF TakeHook, LockFree
  <2>2. hook = "own" /\ \A v \in Loaders : worker[v].pc # "probing"
    BY <2>1, ModelCacheAssumption DEF CacheInv, HookInv
  <2>3. r \in CacheWorker /\ r.pc = "probing" /\ r.saved = "own"
    BY <1>1, <2>2 DEF CacheWorker, CachePcs
  <2> HIDE DEF r
  <2>4. \A v \in Workers : worker'[v] = IF v = w THEN r ELSE worker[v]
    BY <1>1, <2>1 DEF CacheTypes
  <2>5. CacheTypes'
    BY <1>1, <2>1, <2>3 DEF CacheTypes
  <2>6. HookInv'
    BY <2>1, <2>2, <2>3, <2>4 DEF HookInv, Workers
  <2>7. \A v \in Preparers : worker'[v].pc = "fetch" =>
          \A i \in 1..Artifacts : i < worker'[v].at => staged'[v][i] = "good"
    BY <2>1, <2>3, <2>4 DEF CacheInv, Workers
  <2>8. ~tampered' => \A v \in Workers : WorkFits(worker'[v], cache')
    BY <1>1, <2>1, <2>3, <2>4 DEF CacheInv, WorkFits
  <2> QED
    BY <2>1, <2>5, <2>6, <2>7, <2>8 DEF CacheInv
<1>4. CASE RestoreHook(w)
  <2> DEFINE r == [worker[w] EXCEPT !.pc = "load"]
  <2>1. /\ worker' = [worker EXCEPT ![w] = r] /\ worker[w].pc = "probing" /\ probing' = "free"
        /\ hook' = worker[w].saved /\ UNCHANGED <<cache, staged, tampered>>
    BY <1>1, <1>4 DEF RestoreHook, CacheStep
  <2>2. worker[w].saved = "own" /\ \A v \in Loaders : worker[v].pc = "probing" <=> v = w
    BY <2>1 DEF CacheInv, HookInv
  <2>3. r \in CacheWorker /\ r.pc = "load"
    BY <1>1 DEF CacheWorker, CachePcs
  <2> HIDE DEF r
  <2>4. \A v \in Workers : worker'[v] = IF v = w THEN r ELSE worker[v]
    BY <1>1, <2>1 DEF CacheTypes
  <2>5. CacheTypes'
    BY <1>1, <2>1, <2>3 DEF CacheTypes
  <2>6. HookInv'
    BY <2>1, <2>2, <2>3, <2>4 DEF HookInv, Workers
  <2>7. \A v \in Preparers : worker'[v].pc = "fetch" =>
          \A i \in 1..Artifacts : i < worker'[v].at => staged'[v][i] = "good"
    BY <2>1, <2>3, <2>4 DEF CacheInv, Workers
  <2>8. ~tampered' => \A v \in Workers : WorkFits(worker'[v], cache')
    BY <1>1, <2>1, <2>3, <2>4 DEF CacheInv, WorkFits
  <2> QED
    BY <2>1, <2>5, <2>6, <2>7, <2>8 DEF CacheInv
<1> QED
  BY <1>2, <1>3, <1>4

\* Every step keeps the invariant.
LEMMA CacheInvStep ==
  ASSUME CacheInv, [ModelCacheNext]_cacheVars  PROVE CacheInv'
<1>1. CASE Tamper
  <2>1. PICK i \in 1..Artifacts, c \in {"bad", "absent"} : cache' = [cache EXCEPT !.files[i] = c]
    BY <1>1 DEF Tamper
  <2>2. UNCHANGED <<staged, worker, hook, probing>> /\ tampered' = TRUE
    BY <1>1 DEF Tamper
  <2>3. cache' = [cache EXCEPT !.files = [cache.files EXCEPT ![i] = c]]
    BY <2>1 DEF CacheInv, CacheTypes
  <2>4. [cache.files EXCEPT ![i] = c] \in Sets
    BY DEF CacheInv, CacheTypes, Sets, Digests
  <2>5. CacheTypes'
    BY <2>2, <2>3, <2>4 DEF CacheInv, CacheTypes
  <2> QED
    BY <2>2, <2>5 DEF CacheInv, HookInv
<1>2. CASE UNCHANGED cacheVars
  BY <1>2 DEF cacheVars, CacheInv, CacheTypes, HookInv
<1> QED
  BY <1>1, <1>2, PreparesKeep, LoadsKeep DEF ModelCacheNext

\* The invariant promises what the cache and the hook do.
LEMMA CacheInvSound == CacheInv => CacheIsWhole /\ HookIsBack
<1> SUFFICES ASSUME CacheInv  PROVE CacheIsWhole /\ HookIsBack
  OBVIOUS
<1>1. CacheIsWhole
  BY VerifiedFacts DEF CacheInv, CacheIsWhole, WorkFits, Intact
<1>2. HookIsBack
  BY DEF CacheInv, HookInv, HookIsBack
<1> QED
  BY <1>1, <1>2

-----------------------------------------------------------------------------
(***************************************************************************)
(* The token file.                                                         *)
(***************************************************************************)

Auths == {"open", "write", "chmod", "create", "restrict", "reopen"}
Values == Tokens \cup {LoginOf[t] : t \in Tokens} \cup {"none"}
Protected == [present |-> TRUE, aces |-> <<<<"allow", "me">>>>]
Dacls == {d.dacl : d \in Descriptors} \cup {Inherited, Protected}
TokenFiles == [exists : BOOLEAN, mode : {"0600", "0644"}, owner : {"me", "admin"}, dacl : Dacls,
               lines : Values \X Values]
Runs == [pc : {"idle", "login", "done", "claim", "read"} \cup Auths, token : Values, login : Values,
         alone : BOOLEAN]

Secure(f) == ForeignPrincipal(f) = "nobody"
Blank(f) == f.lines = <<"none", "none">>

TokenTypes ==
  /\ platform \in {"unix", "windows"} /\ env \in [own : {""}, github : Values, login : {""}]
  /\ file \in TokenFiles /\ run \in [TokenProcs -> Runs]
  /\ {overlapped, meddled, replaced} \subseteq BOOLEAN

(* What an auth has in hand, and on which platform it is where.             *)
Equipped(r) ==
  /\ r.pc \in Auths \cup {"login", "done"} => r.token \in Tokens
  /\ r.pc \in Auths \cup {"done"} => r.login \in {LoginOf[r.token], "none"}
  /\ r.pc \in {"open", "chmod"} => platform = "unix"
  /\ r.pc \in {"create", "restrict", "reopen"} => platform = "windows"

(* What a command finds while nobody else touches the file.                 *)
Undisturbed(r, f) ==
  /\ r.pc \in {"write", "chmod", "done"} => f.exists
  /\ r.pc = "write" => Blank(f)
  /\ r.pc \in {"chmod", "done"} => f.lines = <<r.token, r.login>>
  /\ r.pc = "done" /\ platform = "unix" => f.mode = "0600"
  /\ r.pc \in {"write", "done"} /\ platform = "windows" => Secure(f)
  /\ r.pc = "claim" => r.login = ReadTokenFileContents(f).login /\ r.login # "none"
  /\ r.pc = "reopen" => f.exists /\ Secure(f)
  /\ r.pc = "restrict" => f.exists

(* On Windows an auth restricts the file before it writes.                  *)
Guarded(r, f) ==
  /\ r.pc \in {"restrict", "reopen", "write"} => f.exists
  /\ r.pc \in {"reopen", "write"} => Secure(f)

(* Two lines that belong together.                                          *)
Paired(f) ==
  Present(f.lines[1]) /\ Present(f.lines[2]) =>
    f.lines[1] \in Tokens /\ f.lines[2] = LoginOf[f.lines[1]]

TokenInv ==
  /\ TokenTypes
  /\ \A c \in TokenProcs : Equipped(run[c]) /\ (run[c].alone => Undisturbed(run[c], file))
  /\ platform = "windows" /\ ~meddled =>
       /\ \A c \in TokenProcs : Guarded(run[c], file)
       /\ replaced /\ file.lines[1] # "none" => Secure(file)
  /\ ~overlapped => Paired(file) /\ \A c \in TokenProcs : run[c].pc = "write" => Blank(file)
  /\ \A c \in TokenProcs : run[c].pc = "read" /\ run[c].alone /\ ~overlapped /\ FromEnv(env) = "none" =>
       run[c].login = LoginOf[run[c].token]

\* Tokens and logins are neither blank nor missing.
LEMMA ValueFacts ==
  /\ \A t \in Tokens : /\ t \in Values /\ LoginOf[t] \in Values /\ Present(t) /\ Present(LoginOf[t])
                       /\ t # "none" /\ LoginOf[t] # "none"
  /\ "none" \in Values /\ ~Present("none") /\ \A v \in Values : Present(v) <=> v # "none"
BY TokenFileAssumption DEF Values, Present

\* Access depends on the owner and the list only.
LEMMA SecureFacts ==
  ASSUME NEW f \in TokenFiles, NEW lines \in Values \X Values
  PROVE  /\ CreateTruncated(f) \in TokenFiles /\ CreateTruncated(f).exists /\ Blank(CreateTruncated(f))
         /\ f.exists /\ Secure(f) => Secure(CreateTruncated(f))
         /\ [f EXCEPT !.lines = lines] \in TokenFiles /\ [f EXCEPT !.lines = lines].lines = lines
         /\ [f EXCEPT !.lines = lines].exists = f.exists
         /\ Secure([f EXCEPT !.lines = lines]) <=> Secure(f)
         /\ RestrictTokenFile(f) \in TokenFiles /\ Secure(RestrictTokenFile(f))
         /\ RestrictTokenFile(f).exists = f.exists /\ RestrictTokenFile(f).lines = f.lines
         /\ SetPermissions(f) \in TokenFiles /\ SetPermissions(f).mode = "0600"
         /\ SetPermissions(f).exists = f.exists /\ SetPermissions(f).lines = f.lines
         /\ Secure(SetPermissions(f)) <=> Secure(f)
<1>1. \A g \in TokenFiles : g.owner = f.owner /\ g.dacl = f.dacl => (Secure(g) <=> Secure(f))
  BY DEF Secure, ForeignPrincipal
<1>2. <<"none", "none">> \in Values \X Values
  BY ValueFacts
<1>3. /\ [f EXCEPT !.lines = lines] \in TokenFiles /\ [f EXCEPT !.lines = lines].lines = lines
      /\ [f EXCEPT !.lines = lines].exists = f.exists
      /\ Secure([f EXCEPT !.lines = lines]) <=> Secure(f)
  BY <1>1 DEF TokenFiles
<1>4. /\ CreateTruncated(f) \in TokenFiles /\ CreateTruncated(f).exists /\ Blank(CreateTruncated(f))
      /\ f.exists /\ Secure(f) => Secure(CreateTruncated(f))
  <2>1. CASE f.exists
    <3>1. /\ CreateTruncated(f) = [f EXCEPT !.lines = <<"none", "none">>] /\ CreateTruncated(f) \in TokenFiles
          /\ CreateTruncated(f).owner = f.owner /\ CreateTruncated(f).dacl = f.dacl
      BY <1>2, <2>1 DEF CreateTruncated, TokenFiles
    <3> QED
      BY <1>1, <2>1, <3>1 DEF TokenFiles, Blank
  <2>2. CASE ~f.exists
    BY <1>2, <2>2 DEF CreateTruncated, TokenFiles, Blank, Dacls
  <2> QED
    BY <2>1, <2>2
<1>5. /\ RestrictTokenFile(f) \in TokenFiles /\ Secure(RestrictTokenFile(f))
      /\ RestrictTokenFile(f).exists = f.exists /\ RestrictTokenFile(f).lines = f.lines
  <2>1. RestrictTokenFile(f) = [f EXCEPT !.owner = "me", !.dacl = Protected]
    BY DEF RestrictTokenFile, Protected
  <2>2. /\ RestrictTokenFile(f) \in TokenFiles /\ RestrictTokenFile(f).exists = f.exists
        /\ RestrictTokenFile(f).lines = f.lines
        /\ RestrictTokenFile(f).owner = "me" /\ RestrictTokenFile(f).dacl = Protected
    BY <2>1 DEF TokenFiles, Dacls
  <2>3. Protected.present /\ ForeignAces(Protected) = {}
    BY DEF Protected, ForeignAces
  <2> QED
    BY <2>2, <2>3 DEF Secure, ForeignPrincipal
<1>6. /\ SetPermissions(f) \in TokenFiles /\ SetPermissions(f).mode = "0600"
      /\ SetPermissions(f).exists = f.exists /\ SetPermissions(f).lines = f.lines
      /\ Secure(SetPermissions(f)) <=> Secure(f)
  BY <1>1 DEF SetPermissions, TokenFiles
<1> QED
  BY <1>3, <1>4, <1>5, <1>6

LEMMA TokenInvInit == TokenFileInit => TokenInv
<1> SUFFICES ASSUME TokenFileInit  PROVE TokenInv
  OBVIOUS
<1> DEFINE z == SomeToken
<1>1. z \in Tokens
  BY TokenFileAssumption DEF SomeToken
<1>2. PICK e \in BOOLEAN, d \in Descriptors :
        file = [exists |-> e, mode |-> d.mode, owner |-> d.owner, dacl |-> d.dacl,
                lines |-> IF e THEN <<z, "none">> ELSE <<"none", "none">>]
  BY DEF TokenFileInit
<1>3. \E g \in {"none", z} : env = [own |-> "", github |-> g, login |-> ""]
  BY DEF TokenFileInit
<1>4. /\ platform \in {"unix", "windows"} /\ run = [c \in TokenProcs |-> TokenIdle]
      /\ overlapped = FALSE /\ meddled = FALSE /\ replaced = FALSE
  BY DEF TokenFileInit
<1> HIDE DEF z
<1>5. d.mode \in {"0600", "0644"} /\ d.owner \in {"me", "admin"} /\ d.dacl \in Dacls
  <2>1. d.dacl \in Dacls
    BY DEF Dacls
  <2>2. d.mode \in {"0600", "0644"} /\ d.owner \in {"me", "admin"}
    BY DEF Descriptors
  <2> QED
    BY <2>1, <2>2
<1>6. file \in TokenFiles /\ file.lines[2] = "none"
  BY <1>1, <1>2, <1>5, ValueFacts DEF TokenFiles
<1>7. TokenIdle \in Runs /\ TokenIdle.pc = "idle"
  BY ValueFacts DEF TokenIdle, Runs
<1>8. env \in [own : {""}, github : Values, login : {""}]
  <2>1. PICK g \in {"none", z} : env = [own |-> "", github |-> g, login |-> ""]
    BY <1>3
  <2>2. g \in Values
    BY <1>1, ValueFacts
  <2> QED
    BY <2>1, <2>2
<1>9. TokenTypes /\ \A c \in TokenProcs : run[c] = TokenIdle
  BY <1>4, <1>6, <1>7, <1>8 DEF TokenTypes
<1>10. Equipped(TokenIdle) /\ Undisturbed(TokenIdle, file) /\ Guarded(TokenIdle, file)
  BY <1>7 DEF Equipped, Undisturbed, Guarded, Auths
<1>11. Paired(file)
  BY <1>6, ValueFacts DEF Paired
<1> QED
  BY <1>4, <1>7, <1>9, <1>10, <1>11 DEF TokenInv

\* A step of a command that leaves the file alone.
LEMMA GoesOnKeeps ==
  ASSUME TokenInv, NEW c \in TokenProcs, NEW r \in Runs, run' = [run EXCEPT ![c] = r],
         UNCHANGED <<platform, env, file, overlapped, meddled, replaced>>,
         r.pc \in {"idle", "login", "open", "create", "claim", "read"}, Equipped(r),
         r.alone /\ r.pc = "claim" => r.login = ReadTokenFileContents(file).login /\ r.login # "none",
         r.pc = "read" /\ r.alone /\ ~overlapped /\ FromEnv(env) = "none" => r.login = LoginOf[r.token]
  PROVE  TokenInv'
<1>1. TokenTypes
  BY DEF TokenInv
<1>2. \A d \in TokenProcs : run'[d] = IF d = c THEN r ELSE run[d]
  BY <1>1 DEF TokenTypes
<1>3. TokenTypes'
  BY <1>1 DEF TokenTypes
<1>4. (r.alone => Undisturbed(r, file)) /\ Guarded(r, file)
  BY DEF Undisturbed, Guarded
<1>5. ASSUME NEW d \in TokenProcs  PROVE (Equipped(run[d]) /\ (run[d].alone => Undisturbed(run[d], file)))'
  <2> DEFINE x == run'[d]
  <2>1. Equipped(x) /\ (x.alone => Undisturbed(x, file))
    BY <1>2, <1>4 DEF TokenInv
  <2>2. run'[d] = x
    OBVIOUS
  <2> HIDE DEF x
  <2> QED
    BY <2>1, <2>2 DEF Equipped, Undisturbed, ReadTokenFileContents, EnforceSecurePermissions
<1>6. platform = "windows" /\ ~meddled =>
        /\ \A d \in TokenProcs : Guarded(run'[d], file)
        /\ replaced /\ file.lines[1] # "none" => Secure(file)
  BY <1>2, <1>4 DEF TokenInv
<1>7. ~overlapped => Paired(file) /\ \A d \in TokenProcs : run'[d].pc = "write" => Blank(file)
  BY <1>2 DEF TokenInv
<1>8. \A d \in TokenProcs : run'[d].pc = "read" /\ run'[d].alone /\ ~overlapped /\ FromEnv(env) = "none" =>
        run'[d].login = LoginOf[run'[d].token]
  BY <1>2 DEF TokenInv
<1> QED
  BY <1>3, <1>5, <1>6, <1>7, <1>8 DEF TokenInv

(* What a step makes of the file, for the process that takes it and for the *)
(* others: on Windows it is safe to write where it is written, and stays so.*)
Safe(r, f) ==
  /\ Guarded(r, f)
  /\ f.lines[1] # "none" => Secure(f)
  /\ file.exists => f.exists /\ (Secure(file) => Secure(f))

\* A step that touches the file: nobody else is undisturbed any more.
LEMMA TouchKeeps ==
  ASSUME TokenInv, NEW c \in TokenProcs, NEW f \in TokenFiles, NEW r \in Runs, Touch(c, f, r), Equipped(r),
         r.pc \in {"write", "chmod", "done", "restrict", "reopen"}, run[c].pc \in Auths,
         r.alone => Undisturbed(r, f),
         platform = "windows" /\ ~meddled => Safe(r, f),
         ~overlapped /\ Writing \subseteq {c} => Paired(f) /\ (r.pc = "write" => Blank(f))
  PROVE  TokenInv'
<1>1. /\ file' = f /\ run' = [d \in TokenProcs |-> IF d = c THEN r ELSE [run[d] EXCEPT !.alone = FALSE]]
      /\ overlapped' = (overlapped \/ Writing \ {c} # {}) /\ replaced' = TRUE
      /\ UNCHANGED <<platform, env, tokenSpent, meddled>>
  BY DEF Touch
<1>2. TokenTypes
  BY DEF TokenInv
<1>3. ASSUME NEW d \in TokenProcs, d # c
      PROVE  /\ run'[d] = [run[d] EXCEPT !.alone = FALSE] /\ run'[d] \in Runs /\ run'[d].alone = FALSE
             /\ run'[d].pc = run[d].pc /\ run'[d].token = run[d].token /\ run'[d].login = run[d].login
  BY <1>1, <1>2, <1>3 DEF TokenTypes, Runs
<1>4. run'[c] = r
  BY <1>1
<1>5. TokenTypes'
  <2>1. run' \in [TokenProcs -> Runs]
    BY <1>1, <1>3, <1>4
  <2>2. overlapped' \in BOOLEAN
    BY <1>1, <1>2 DEF TokenTypes
  <2> QED
    BY <1>1, <1>2, <2>1, <2>2 DEF TokenTypes
<1>6. ASSUME NEW d \in TokenProcs  PROVE (Equipped(run[d]) /\ (run[d].alone => Undisturbed(run[d], file)))'
  <2> DEFINE x == run'[d]
  <2>1. Equipped(x) /\ (x.alone => Undisturbed(x, f))
    <3>1. CASE d = c
      BY <1>4, <3>1
    <3>2. CASE d # c
      BY <1>3, <3>2 DEF TokenInv, Equipped
    <3> QED
      BY <3>1, <3>2
  <2>2. run'[d] = x /\ file' = f
    BY <1>1
  <2> HIDE DEF x
  <2> QED
    BY <1>1, <2>1, <2>2 DEF Equipped, Undisturbed, ReadTokenFileContents, EnforceSecurePermissions
<1>7. ASSUME platform = "windows", ~meddled
      PROVE  (\A d \in TokenProcs : Guarded(run'[d], f)) /\ (f.lines[1] # "none" => Secure(f))
  <2>1. Safe(r, f)
    BY <1>7
  <2>2. ASSUME NEW d \in TokenProcs, d # c  PROVE Guarded(run'[d], f)
    BY <1>3, <1>7, <2>1, <2>2 DEF TokenInv, Guarded, Safe
  <2> QED
    BY <1>4, <2>1, <2>2 DEF Safe
<1>8. ASSUME ~overlapped'
      PROVE  Paired(f) /\ \A d \in TokenProcs : run'[d].pc = "write" => Blank(f)
  <2>1. ~overlapped /\ Writing \subseteq {c}
    BY <1>1, <1>8
  <2>2. \A d \in TokenProcs : d # c => run[d].pc # "write"
    BY <2>1 DEF Writing
  <2> QED
    BY <1>3, <1>4, <2>1, <2>2
<1>9. \A d \in TokenProcs : run'[d].pc = "read" /\ run'[d].alone /\ ~overlapped' /\ FromEnv(env) = "none" =>
        run'[d].login = LoginOf[run'[d].token]
  BY <1>3, <1>4
<1> QED
  BY <1>1, <1>5, <1>6, <1>7, <1>8, <1>9 DEF TokenInv

\* What a process is after a step of its own.
LEMMA RunFacts ==
  ASSUME NEW r \in Runs, NEW pc \in {"idle", "login", "done", "claim", "read"} \cup Auths
  PROVE  /\ [r EXCEPT !.pc = pc] \in Runs /\ [r EXCEPT !.pc = pc].pc = pc
         /\ [r EXCEPT !.pc = pc].token = r.token /\ [r EXCEPT !.pc = pc].login = r.login
         /\ [r EXCEPT !.pc = pc].alone = r.alone
BY DEF Runs

\* The file is emptied, or created, before what comes next.
LEMMA TruncatesKeep ==
  ASSUME TokenInv, NEW c \in TokenProcs, OpenFile(c) \/ CreateFile(c) \/ Reopen(c)
  PROVE  TokenInv'
<1> DEFINE pc == IF run[c].pc = "create" THEN "restrict" ELSE "write"
           r == [run[c] EXCEPT !.pc = pc]
           f == CreateTruncated(file)
<1>1. file \in TokenFiles /\ run[c] \in Runs /\ <<"none", "none">> \in Values \X Values
      /\ platform \in {"unix", "windows"} /\ Equipped(run[c])
  BY ValueFacts DEF TokenInv, TokenTypes
<1>2. /\ run[c].pc \in {"open", "create", "reopen"} /\ Touch(c, f, r)
  BY DEF OpenFile, CreateFile, Reopen
<1>3. /\ f \in TokenFiles /\ f.exists /\ Blank(f) /\ (file.exists /\ Secure(file) => Secure(f))
  BY <1>1, SecureFacts
<1>4. pc \in {"restrict", "write"} /\ (pc = "restrict" <=> run[c].pc = "create")
  OBVIOUS
<1> HIDE DEF f, pc
<1>5. pc \in {"idle", "login", "done", "claim", "read"} \cup Auths
  BY <1>4 DEF Auths
<1>6. r \in Runs /\ r.pc = pc /\ r.token = run[c].token /\ r.login = run[c].login /\ r.alone = run[c].alone
  BY <1>1, <1>5, RunFacts
<1> HIDE DEF r
<1>7. Equipped(r)
  BY <1>1, <1>2, <1>4, <1>6 DEF Equipped, Auths
<1>8. run[c].pc = "reopen" /\ ~meddled => file.exists /\ Secure(file)
  BY <1>1 DEF TokenInv, Guarded, Equipped
<1>9. platform = "windows" => run[c].pc # "open"
  BY <1>1 DEF Equipped
<1>10. ASSUME r.alone  PROVE Undisturbed(r, f)
  <2>1. Undisturbed(run[c], file)
    BY <1>6, <1>10 DEF TokenInv
  <2>2. run[c].pc = "reopen" => file.exists /\ Secure(file)
    BY <2>1 DEF Undisturbed
  <2> QED
    BY <1>2, <1>3, <1>4, <1>6, <1>9, <2>2 DEF Undisturbed
<1>11. ASSUME platform = "windows", ~meddled  PROVE Safe(r, f)
  BY <1>2, <1>3, <1>4, <1>6, <1>8, <1>9, <1>11 DEF Safe, Guarded, Blank
<1>12. Paired(f)
  BY <1>3, ValueFacts DEF Paired, Blank
<1>13. run[c].pc \in Auths /\ r.pc \in {"write", "chmod", "done", "restrict", "reopen"}
  BY <1>2, <1>4, <1>6 DEF Auths
<1> QED
  BY <1>2, <1>3, <1>6, <1>7, <1>10, <1>11, <1>12, <1>13, TouchKeeps

\* The body is written, or the access to the file is restricted.
LEMMA WritesKeep ==
  ASSUME TokenInv, NEW c \in TokenProcs, WriteBody(c) \/ Chmod(c) \/ RestrictFile(c)
  PROVE  TokenInv'
<1>1. /\ file \in TokenFiles /\ run[c] \in Runs /\ platform \in {"unix", "windows"} /\ Equipped(run[c])
      /\ <<"none", "none">> \in Values \X Values
      /\ {"write", "chmod", "done", "restrict", "reopen"} \subseteq
           {"idle", "login", "done", "claim", "read"} \cup Auths
  BY ValueFacts DEF TokenInv, TokenTypes, Auths
<1>2. CASE WriteBody(c)
  <2> DEFINE pc == IF platform = "unix" THEN "chmod" ELSE "done"
             r == [run[c] EXCEPT !.pc = pc]
             f == RenderTokenFileBody(file, run[c].token, run[c].login)
             second == IF run[c].login = "none" THEN file.lines[2] ELSE run[c].login
             lines == <<run[c].token, second>>
  <2>1. run[c].pc = "write" /\ Touch(c, f, r)
    BY <1>2 DEF WriteBody
  <2>2. run[c].token \in Tokens /\ run[c].login \in {LoginOf[run[c].token], "none"}
    BY <1>1, <2>1 DEF Equipped, Auths
  <2>3. lines \in Values \X Values /\ f = [file EXCEPT !.lines = lines] /\ lines[1] = run[c].token
        /\ lines[2] = second
    BY <1>1, <2>2, ValueFacts DEF TokenFiles, RenderTokenFileBody
  <2>4. Blank(file) => second = run[c].login /\ lines = <<run[c].token, run[c].login>>
    BY DEF Blank
  <2> HIDE DEF second
  <2>5. /\ f \in TokenFiles /\ f.lines = lines /\ f.exists = file.exists /\ (Secure(f) <=> Secure(file))
    BY <1>1, <2>3, SecureFacts
  <2>6. pc \in {"chmod", "done"} /\ (pc = "chmod" <=> platform = "unix")
    OBVIOUS
  <2> HIDE DEF f, lines, pc
  <2>7. r \in Runs /\ r.pc = pc /\ r.token = run[c].token /\ r.login = run[c].login /\ r.alone = run[c].alone
    BY <1>1, <2>6, RunFacts
  <2> HIDE DEF r
  <2>8. Equipped(r)
    BY <2>2, <2>6, <2>7 DEF Equipped, Auths
  <2>9. ASSUME r.alone  PROVE Undisturbed(r, f)
    <3>1. Undisturbed(run[c], file)
      BY <2>7, <2>9 DEF TokenInv
    <3>2. /\ file.exists /\ Blank(file) /\ (platform = "windows" => Secure(file))
      BY <2>1, <3>1 DEF Undisturbed
    <3> QED
      BY <2>4, <2>5, <2>6, <2>7, <3>2 DEF Undisturbed
  <2>10. ASSUME platform = "windows", ~meddled  PROVE Safe(r, f)
    <3>1. file.exists /\ Secure(file)
      BY <2>1, <2>10 DEF TokenInv, Guarded
    <3> QED
      BY <2>5, <2>6, <2>7, <3>1 DEF Safe, Guarded
  <2>11. ~overlapped => Paired(f)
    <3>1. ~overlapped => Blank(file)
      BY <2>1 DEF TokenInv
    <3>2. \/ run[c].login = LoginOf[run[c].token]
          \/ run[c].login = "none"
      BY <2>2
    <3> QED
      BY <2>2, <2>3, <2>4, <2>5, <3>1, <3>2, ValueFacts DEF Paired
  <2>12. run[c].pc \in Auths /\ r.pc \in {"write", "chmod", "done", "restrict", "reopen"} /\ r.pc # "write"
    BY <2>1, <2>6, <2>7 DEF Auths
  <2> QED
    BY <2>1, <2>5, <2>7, <2>8, <2>9, <2>10, <2>11, <2>12, TouchKeeps
<1>3. CASE Chmod(c)
  <2> DEFINE r == [run[c] EXCEPT !.pc = "done"]
             f == SetPermissions(file)
  <2>1. run[c].pc = "chmod" /\ Touch(c, f, r)
    BY <1>3 DEF Chmod
  <2>2. f \in TokenFiles /\ f.mode = "0600" /\ f.exists = file.exists /\ f.lines = file.lines
    BY <1>1, SecureFacts
  <2> HIDE DEF f
  <2>3. r \in Runs /\ r.pc = "done" /\ r.token = run[c].token /\ r.login = run[c].login /\ r.alone = run[c].alone
    BY <1>1, RunFacts
  <2> HIDE DEF r
  <2>4. Equipped(r) /\ platform = "unix"
    BY <1>1, <2>1, <2>3 DEF Equipped, Auths
  <2>5. r.alone => Undisturbed(r, f)
    BY <2>1, <2>2, <2>3, <2>4 DEF TokenInv, Undisturbed
  <2>6. ~overlapped => Paired(f)
    BY <2>2 DEF TokenInv, Paired
  <2>7. run[c].pc \in Auths /\ r.pc \in {"write", "chmod", "done", "restrict", "reopen"} /\ r.pc # "write"
        /\ platform # "windows"
    BY <2>1, <2>3, <2>4 DEF Auths
  <2> QED
    BY <2>1, <2>2, <2>3, <2>4, <2>5, <2>6, <2>7, TouchKeeps
<1>4. CASE RestrictFile(c)
  <2> DEFINE r == [run[c] EXCEPT !.pc = "reopen"]
             f == RestrictTokenFile(file)
  <2>1. run[c].pc = "restrict" /\ Touch(c, f, r)
    BY <1>4 DEF RestrictFile
  <2>2. f \in TokenFiles /\ Secure(f) /\ f.exists = file.exists /\ f.lines = file.lines
    BY <1>1, SecureFacts
  <2> HIDE DEF f
  <2>3. r \in Runs /\ r.pc = "reopen" /\ r.token = run[c].token /\ r.login = run[c].login /\ r.alone = run[c].alone
    BY <1>1, RunFacts
  <2> HIDE DEF r
  <2>4. Equipped(r)
    BY <1>1, <2>1, <2>3 DEF Equipped, Auths
  <2>5. r.alone => Undisturbed(r, f)
    BY <2>1, <2>2, <2>3 DEF TokenInv, Undisturbed
  <2>6. ~overlapped => Paired(f)
    BY <2>2 DEF TokenInv, Paired
  <2>7. ASSUME platform = "windows", ~meddled  PROVE Safe(r, f)
    <3>1. file.exists
      BY <2>1, <2>7 DEF TokenInv, Guarded
    <3> QED
      BY <2>2, <2>3, <3>1 DEF Safe, Guarded
  <2>8. run[c].pc \in Auths /\ r.pc \in {"write", "chmod", "done", "restrict", "reopen"} /\ r.pc # "write"
    BY <2>1, <2>3 DEF Auths
  <2> QED
    BY <2>1, <2>2, <2>3, <2>4, <2>5, <2>6, <2>7, <2>8, TouchKeeps
<1> QED
  BY <1>2, <1>3, <1>4

\* An auth begins and learns its login, a claim reads twice, a command is given up.
LEMMA ReadsKeep ==
  ASSUME TokenInv, NEW c \in TokenProcs,
         GhAuth(c) \/ CurrentUserLogin(c) \/ Abort(c) \/ Claim(c) \/ RequireGithubToken(c)
  PROVE  TokenInv'
<1>1. /\ file \in TokenFiles /\ run[c] \in Runs /\ platform \in {"unix", "windows"} /\ Equipped(run[c])
      /\ env \in [own : {""}, github : Values, login : {""}]
  BY DEF TokenInv, TokenTypes
<1>2. /\ TokenIdle \in Runs /\ TokenIdle.pc = "idle"
      /\ TokenIdle = [pc |-> "idle", token |-> "none", login |-> "none", alone |-> TRUE]
  BY ValueFacts DEF TokenIdle, Runs
<1>3. CASE GhAuth(c)
  <2>1. PICK t \in Tokens \cup {"none", ""} :
          t # "" /\ Begin(c, [TokenIdle EXCEPT !.pc = "login", !.token = t]) /\ t \in Tokens
    <3>1. PICK flag \in Tokens \cup {"none"}, gh \in Tokens \cup {"none"}, prompt \in Tokens \cup {""} :
            /\ AuthToken(flag, gh, prompt) # ""
            /\ Begin(c, [TokenIdle EXCEPT !.pc = "login", !.token = AuthToken(flag, gh, prompt)])
      BY <1>3 DEF GhAuth
    <3>2. AuthToken(flag, gh, prompt) \in Tokens
      BY <3>1 DEF AuthToken
    <3> QED
      BY <3>1, <3>2
  <2> DEFINE r == [TokenIdle EXCEPT !.pc = "login", !.token = t]
  <2>2. r \in Runs /\ r.pc = "login" /\ r.token = t
    BY <1>2, <2>1, ValueFacts DEF Runs
  <2>3. /\ run' = [run EXCEPT ![c] = r]
        /\ UNCHANGED <<platform, env, file, overlapped, meddled, replaced>>
    BY <2>1 DEF Begin
  <2> HIDE DEF r
  <2>4. Equipped(r)
    BY <2>1, <2>2 DEF Equipped, Auths
  <2> QED
    BY <2>2, <2>3, <2>4, GoesOnKeeps
<1>4. CASE CurrentUserLogin(c)
  <2> DEFINE pc == IF platform = "unix" THEN "open" ELSE "create"
  <2>1. PICK l \in {LoginOf[run[c].token], "none"} :
          run[c].pc = "login" /\ Go(c, [run[c] EXCEPT !.pc = pc, !.login = l])
    BY <1>4 DEF CurrentUserLogin
  <2>2. run[c].token \in Tokens
    BY <1>1, <2>1 DEF Equipped
  <2>3. pc \in {"open", "create"} /\ (pc = "open" <=> platform = "unix")
    OBVIOUS
  <2> DEFINE r == [run[c] EXCEPT !.pc = pc, !.login = l]
  <2>4. /\ run' = [run EXCEPT ![c] = r]
        /\ UNCHANGED <<platform, env, file, overlapped, meddled, replaced>>
    BY <2>1 DEF Go
  <2> HIDE DEF pc
  <2>5. r \in Runs /\ r.pc = pc /\ r.token = run[c].token /\ r.login = l
    BY <1>1, <2>1, <2>2, <2>3, ValueFacts DEF Runs, Auths
  <2> HIDE DEF r
  <2>6. Equipped(r)
    BY <1>1, <2>1, <2>2, <2>3, <2>5 DEF Equipped, Auths
  <2> QED
    BY <2>3, <2>4, <2>5, <2>6, GoesOnKeeps
<1>5. ASSUME run' = [run EXCEPT ![c] = TokenIdle],
             UNCHANGED <<platform, env, file, overlapped, meddled, replaced>>
      PROVE  TokenInv'
  <2>1. Equipped(TokenIdle)
    BY <1>2 DEF Equipped, Auths
  <2> QED
    BY <1>2, <1>5, <2>1, GoesOnKeeps
<1>6. CASE Abort(c)
  BY <1>5, <1>6 DEF Abort, Go
<1>7. CASE Claim(c)
  <2> DEFINE v == ReadTokenFileContents(file).login
             r == [TokenIdle EXCEPT !.pc = "claim", !.login = v]
  <2>1. ResolveGithubLogin(env, file).value = v
    BY <1>1 DEF ResolveGithubLogin, Present
  <2>2. v # "none" /\ Begin(c, r)
    BY <1>7, <2>1 DEF Claim
  <2>3. v \in Values
    BY <1>1, ValueFacts DEF ReadTokenFileContents, TokenFiles
  <2>4. v = ReadTokenFileContents(file).login
    OBVIOUS
  <2> HIDE DEF v
  <2>5. r \in Runs /\ r.pc = "claim" /\ r.login = v
    BY <1>2, <2>3 DEF Runs
  <2>6. /\ run' = [run EXCEPT ![c] = r]
        /\ UNCHANGED <<platform, env, file, overlapped, meddled, replaced>>
    BY <2>2 DEF Begin
  <2> HIDE DEF r
  <2>7. Equipped(r)
    BY <2>5 DEF Equipped, Auths
  <2> QED
    BY <2>2, <2>4, <2>5, <2>6, <2>7, GoesOnKeeps
<1>8. CASE RequireGithubToken(c)
  <2> DEFINE v == ResolveGithubToken(env, file).value
             r == [run[c] EXCEPT !.pc = "read", !.token = v]
  <2>1. CASE Go(c, TokenIdle)
    BY <1>5, <2>1 DEF Go
  <2>2. CASE v # "none" /\ Go(c, r)
    <3>1. run[c].pc = "claim"
      BY <1>8 DEF RequireGithubToken
    <3>2. v \in Values
      <4>1. ReadTokenFileContents(file).token \in Values
        BY <1>1, ValueFacts DEF ReadTokenFileContents, TokenFiles
      <4>2. FromEnv(env) \in Values
        BY <1>1, ValueFacts DEF FromEnv, Present
      <4> QED
        BY <4>1, <4>2 DEF ResolveGithubToken
    <3>3. FromEnv(env) = "none" => v = ReadTokenFileContents(file).token
      BY DEF ResolveGithubToken
    <3> HIDE DEF v
    <3>4. r \in Runs /\ r.pc = "read" /\ r.token = v /\ r.login = run[c].login /\ r.alone = run[c].alone
      BY <1>1, <3>2 DEF Runs
    <3>5. /\ run' = [run EXCEPT ![c] = r]
          /\ UNCHANGED <<platform, env, file, overlapped, meddled, replaced>>
      BY <2>2 DEF Go
    <3> HIDE DEF r
    <3>6. Equipped(r)
      BY <3>4 DEF Equipped, Auths
    <3>7. ASSUME r.alone, ~overlapped, FromEnv(env) = "none"  PROVE r.login = LoginOf[r.token]
      <4>1. r.login = ReadTokenFileContents(file).login /\ r.login # "none"
        BY <3>1, <3>4, <3>7 DEF TokenInv, Undisturbed
      <4>2. r.token = ReadTokenFileContents(file).token /\ r.token # "none"
        BY <2>2, <3>3, <3>4, <3>7
      <4>3. /\ r.login = file.lines[2] /\ Present(file.lines[2])
            /\ r.token = file.lines[1] /\ Present(file.lines[1])
        BY <4>1, <4>2 DEF ReadTokenFileContents
      <4> QED
        BY <3>7, <4>3 DEF TokenInv, Paired
    <3> QED
      BY <3>4, <3>5, <3>6, <3>7, GoesOnKeeps
  <2> QED
    BY <1>8, <2>1, <2>2 DEF RequireGithubToken
<1> QED
  BY <1>3, <1>4, <1>6, <1>7, <1>8

\* Somebody outside rl loosens the file or removes it.
LEMMA MeddleKeeps == ASSUME TokenInv, Meddle  PROVE TokenInv'
<1>1. /\ run' = [d \in TokenProcs |-> [run[d] EXCEPT !.alone = FALSE]] /\ meddled' = TRUE
      /\ UNCHANGED <<platform, env, overlapped, replaced>>
  BY DEF Meddle
<1>2. TokenTypes /\ file \in TokenFiles /\ <<"none", "none">> \in Values \X Values
  BY ValueFacts DEF TokenInv, TokenTypes
<1>3. file' \in TokenFiles /\ (file'.lines = file.lines \/ Blank(file'))
  <2>1. CASE file' = [file EXCEPT !.mode = "0644", !.dacl = Inherited]
    BY <1>2, <2>1 DEF TokenFiles, Dacls
  <2>2. CASE file' = [file EXCEPT !.exists = FALSE, !.lines = <<"none", "none">>]
    BY <1>2, <2>2 DEF TokenFiles, Blank
  <2> QED
    BY <2>1, <2>2 DEF Meddle
<1>4. ASSUME NEW d \in TokenProcs
      PROVE  /\ run'[d] \in Runs /\ run'[d].alone = FALSE
             /\ run'[d].pc = run[d].pc /\ run'[d].token = run[d].token /\ run'[d].login = run[d].login
  BY <1>1, <1>2 DEF TokenTypes, Runs
<1>5. TokenTypes'
  BY <1>1, <1>2, <1>3, <1>4 DEF TokenTypes
<1>6. ASSUME NEW d \in TokenProcs  PROVE (Equipped(run[d]) /\ (run[d].alone => Undisturbed(run[d], file)))'
  BY <1>1, <1>4 DEF TokenInv, Equipped
<1>7. (~overlapped => Paired(file) /\ \A c \in TokenProcs : run[c].pc = "write" => Blank(file))'
  <2>1. ASSUME ~overlapped  PROVE Paired(file') /\ \A c \in TokenProcs : run[c].pc = "write" => Blank(file')
    <3>1. Paired(file) /\ \A c \in TokenProcs : run[c].pc = "write" => Blank(file)
      BY <2>1 DEF TokenInv
    <3>2. CASE file'.lines = file.lines
      BY <3>1, <3>2 DEF Paired, Blank
    <3>3. CASE Blank(file')
      BY <3>3, ValueFacts DEF Paired, Blank
    <3> QED
      BY <1>3, <3>2, <3>3
  <2> QED
    BY <1>1, <1>4, <2>1
<1> QED
  BY <1>1, <1>4, <1>5, <1>6, <1>7 DEF TokenInv

\* Every step keeps the invariant.
LEMMA TokenInvStep ==
  ASSUME TokenInv, [TokenFileNext]_tokenVars  PROVE TokenInv'
<1>1. CASE UNCHANGED tokenVars
  <2>1. /\ UNCHANGED <<platform, env, file, run, overlapped, meddled, replaced>>
    BY <1>1 DEF tokenVars
  <2> QED
    BY <2>1 DEF TokenInv, TokenTypes, Equipped, Undisturbed, ReadTokenFileContents, EnforceSecurePermissions
<1> QED
  BY <1>1, ReadsKeep, TruncatesKeep, WritesKeep, MeddleKeeps DEF TokenFileNext

\* The invariant promises what a reader of the file relies on.
LEMMA TokenInvSound == TokenInv => AuthTakes /\ NeverExposed /\ LoginFitsToken
<1> SUFFICES ASSUME TokenInv  PROVE AuthTakes /\ NeverExposed /\ LoginFitsToken
  OBVIOUS
<1>1. AuthTakes
  <2>1. SUFFICES ASSUME NEW c \in TokenProcs, run[c].pc = "done", run[c].alone
                 PROVE  ReadTokenFileContents(file) = [ok |-> TRUE, token |-> run[c].token, login |-> run[c].login]
    BY DEF AuthTakes
  <2>2. /\ file.exists /\ file.lines = <<run[c].token, run[c].login>>
        /\ platform = "unix" => file.mode = "0600"
        /\ platform = "windows" => Secure(file)
    BY <2>1 DEF TokenInv, Undisturbed
  <2>3. EnforceSecurePermissions(file)
    BY <2>2 DEF TokenInv, TokenTypes, EnforceSecurePermissions, SecureMode, Secure
  <2>4. run[c].token \in Tokens /\ run[c].login \in {LoginOf[run[c].token], "none"}
    BY <2>1 DEF TokenInv, Equipped
  <2>5. file.lines[1] = run[c].token /\ file.lines[2] = run[c].login
    BY <2>2
  <2> QED
    BY <2>2, <2>3, <2>4, <2>5, ValueFacts DEF ReadTokenFileContents
<1>2. NeverExposed
  BY DEF TokenInv, NeverExposed, Secure
<1>3. LoginFitsToken
  BY DEF TokenInv, LoginFitsToken
<1> QED
  BY <1>1, <1>2, <1>3

-----------------------------------------------------------------------------
(* For every set of tokens and processes, number of artifacts, of prepares  *)
(* and of loads, of faults, and of log segments and truncations: an auth    *)
(* that reports success is in effect, the token is not exposed on Windows,  *)
(* the login of a claim fits its token, the model cache is whole or absent, *)
(* the panic hook comes back, and the follower leaves out no line           *)
(* (write_token_file, resolve_github_login, prepare_model, probe_device,    *)
(* print_logs).                                                             *)
THEOREM FilesKeepSound ==
  TokenFileSpec /\ ModelCacheSpec /\ TailSpec => []FilesAreSound
<1>1. TokenFileSpec => [](AuthTakes /\ NeverExposed /\ LoginFitsToken)
  BY TokenInvInit, TokenInvStep, TokenInvSound, PTL DEF TokenFileSpec
<1>2. ModelCacheSpec => [](CacheIsWhole /\ HookIsBack)
  BY CacheInvInit, CacheInvStep, CacheInvSound, PTL DEF ModelCacheSpec
<1>3. TailSpec => []FollowPrintsAll
  BY FollowPrintsEveryLine
<1>4. (AuthTakes /\ NeverExposed /\ LoginFitsToken) /\ (CacheIsWhole /\ HookIsBack) /\ FollowPrintsAll
        => FilesAreSound
  BY DEF FilesAreSound
<1> QED
  BY <1>1, <1>2, <1>3, <1>4, PTL
=============================================================================
