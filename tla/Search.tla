------------------------------- MODULE Search -------------------------------
(***************************************************************************)
(* rl task search and rl task search-index: processes of possibly          *)
(* different binaries share one sidecar index, which each search brings in *)
(* line with the tasks before it ranks. Writers of the sidecar are         *)
(* serialized by BEGIN IMMEDIATE and readers see committed rows only, so a *)
(* transaction on it is one step; reads of the authoritative database,     *)
(* inference and ranking are steps of their own, and edits of the tasks    *)
(* and the other processes fall between them. A text that hashes to one    *)
(* chunk is one member of Contents.                                        *)
(***************************************************************************)
EXTENDS Integers, Sequences, FiniteSets, SequencesExt

CONSTANTS Tasks, Contents, Procs,
          Profiles,       \* embedding profiles that binaries pin
          NoProfile,      \* no model prepared, or no profile claimed
          Pinned,         \* Pinned[p]: the profile that the binary of process p pins
          Segments,       \* Segments[f][c]: semantic inputs that profile f plans for text c
          Batch,          \* chunks embedded at a time
          MaxEdits, MaxCommands, MaxFaults

ASSUME SearchConstants ==
  /\ NoProfile \notin Profiles /\ Pinned \in [Procs -> Profiles]
  /\ Segments \in [Profiles -> [Contents -> Nat \ {0}]]
  /\ Batch \in Nat \ {0} /\ IsFiniteSet(Tasks) /\ IsFiniteSet(Contents)
  /\ {MaxEdits, MaxCommands, MaxFaults} \subseteq Nat

VARIABLES
  past,       \* the tasks' texts, edit after edit; the last is what the database holds
  chunks,     \* task_search_chunks (and the FTS rows their triggers keep)
  vectors,    \* task_search_vectors
  profile,    \* task_search_meta.embedding_profile_id
  compatible, \* the sidecar has this version's schema and chunk format
  proc,       \* what each process is doing
  landed,     \* edit whose snapshot the index was last given; 0: none since a clear
  foreign,    \* a rebuild filled vectors of a profile that does not own the sidecar
  spent       \* how much of each bound is used up

vars == <<past, chunks, vectors, profile, compatible, proc, landed, foreign, spent>>
index == <<chunks, vectors, profile, compatible, landed>>

Limit == [commands |-> MaxCommands, faults |-> MaxFaults]
Spend(b) == spent[b] < Limit[b] /\ spent' = [spent EXCEPT ![b] = @ + 1]

Now == Len(past)
TargetsAt(n) == {r \in Tasks \X Contents : n > 0 /\ r[2] \in past[n][r[1]]}
Rows(cs) == {<<c.task, c.content>> : c \in cs}
Chunk == [id: Nat \ {0}, task: Tasks, content: Contents]
Vector == [chunk: Nat \ {0}, seg: Nat, of: Contents, by: Profiles]

\* Fields of a process: its embedder, whether its sidecar opened read-only,
\* the profile it read, the edits its two snapshots are of, which lanes are
\* available, the batch it embeds, the batches it has done, and whether another
\* process changed the chunks since its reconcile.
Resting == [pc |-> "idle", kind |-> "search", emb |-> NoProfile, ro |-> FALSE, meta |-> NoProfile,
            snap |-> 0, shown |-> 0, lex |-> FALSE, sem |-> FALSE, batch |-> {}, done |-> 0,
            disturbed |-> FALSE]

Init ==
  /\ past \in {<<s>> : s \in [Tasks -> {{c} : c \in Contents}]}
  /\ chunks = {} /\ vectors = {} /\ profile = NoProfile /\ compatible \in BOOLEAN
  /\ proc = [p \in Procs |-> Resting]
  /\ landed = 0 /\ foreign = FALSE
  /\ spent = [b \in DOMAIN Limit |-> 0]

At(p, pc) == proc[p].pc = pc
Becomes(p, r) == proc' = [proc EXCEPT ![p] = r]
Reconciled(q) == proc[q].pc \in {"claim", "fill", "embed", "result", "lexical"} /\ proc[q].snap > 0
Disturb(p, r) ==
  proc' = [q \in Procs |->
             IF q = p THEN r
             ELSE [proc[q] EXCEPT !.disturbed = @ \/ (Reconciled(q) /\ chunks' # chunks)]]

(* Tasks are edited, created and deleted; comments come and go.             *)
Edit(t, cs) ==
  /\ Now <= MaxEdits /\ cs # past[Now][t]
  /\ past' = Append(past, [past[Now] EXCEPT ![t] = cs])
  /\ UNCHANGED <<index, proc, foreign, spent>>

-----------------------------------------------------------------------------
(* The sidecar's transactions.                                              *)

\* INTEGER PRIMARY KEY: ids follow the largest row, so a deleted id returns.
NextId(cs) == 1 + (IF cs = {} THEN 0 ELSE CHOOSE i \in {c.id : c \in cs} : \A c \in cs : c.id <= i)
Inserted(cs, order) ==
  cs \cup {[id |-> NextId(cs) + i - 1, task |-> order[i][1], content |-> order[i][2]] : i \in 1..Len(order)}

CascadedTo(cs) == {v \in vectors : v.chunk \in {c.id : c \in cs}}

DiffChunks(targets) ==
  LET kept == {c \in chunks : <<c.task, c.content>> \in targets}
  IN \E order \in SetToSeqs(targets \ Rows(chunks)) :
       /\ chunks' = Inserted(kept, order)
       /\ vectors' = CascadedTo(kept)

MissingSemanticInputs == {c \in chunks : \A v \in vectors : v.chunk # c.id}
Oldest(cs, n) == {c \in cs : Cardinality({d \in cs : d.id < c.id}) < n}

\* One input per segment the tokenizer cuts a chunk into.
PlanSemanticInputs(batch, f) ==
  UNION {{[chunk |-> c.id, task |-> c.task, seg |-> i, of |-> c.content, by |-> f] :
            i \in 0..Segments[f][c.content] - 1} : c \in batch}

InputHash(v) == <<v.of, v.seg, Segments[v.by][v.of]>>

\* A vector is stored when a row with its id exists.
GuardById(v) == profile # NoProfile /\ \E c \in chunks : c.id = v.chunk

\* A vector is stored when its chunk is still the row it was read from.
Guard(v) ==
  /\ profile # NoProfile
  /\ \E c \in chunks : c.id = v.chunk /\ c.task = v.task /\ c.content = v.of

AsStored(v) == [chunk |-> v.chunk, seg |-> v.seg, of |-> v.of, by |-> v.by]
Same(v, w) == v.chunk = w.chunk /\ v.seg = w.seg
Stored(accepted) ==
  {w \in vectors : \A v \in accepted : Same(v, w) => InputHash(v) = InputHash(w)}
  \cup {AsStored(v) : v \in {v \in accepted : \A w \in vectors : Same(v, w) => InputHash(v) # InputHash(w)}}
VerifySegmentCoverage(vs, id) ==
  LET segs == {v.seg : v \in {v \in vs : v.chunk = id}} IN segs = 0..Cardinality(segs) - 1

-----------------------------------------------------------------------------
(* rl task search: metadata, snapshot, reconcile.                           *)

\* Where a search goes once the lexical lane is decided. Exact mode attaches
\* no embedder.
SemanticLane(emb, meta, ro, lex) ==
  CASE emb = NoProfile \/ ~lex -> "result"
    [] emb # NoProfile /\ lex /\ meta = emb -> IF ro THEN "covered" ELSE "fill"
    [] emb # NoProfile /\ lex /\ meta = NoProfile /\ ~ro -> "claim"
    [] OTHER -> "result"

Search(p, emb, ro) ==
  /\ At(p, "idle") /\ Spend("commands")
  /\ LET first == IF compatible /\ ~ro THEN "snapshot" ELSE SemanticLane(emb, profile, ro, compatible)
     IN Becomes(p, [proc[p] EXCEPT !.pc = first, !.emb = emb, !.ro = ro, !.meta = profile,
                                   !.lex = compatible])
  /\ UNCHANGED <<past, index, foreign>>

\* A failed open is no error: no profile is read, no mismatch is seen, and
\* the later steps open the sidecar again.
SearchUnopened(p, emb) ==
  /\ At(p, "idle") /\ spent.commands < MaxCommands /\ spent.faults < MaxFaults
  /\ spent' = [commands |-> spent.commands + 1, faults |-> spent.faults + 1]
  /\ Becomes(p, [proc[p] EXCEPT !.pc = "snapshot", !.emb = emb, !.lex = TRUE])
  /\ UNCHANGED <<past, index, foreign>>

LoadReconcileSnapshot(p) ==
  /\ At(p, "snapshot")
  /\ Becomes(p, [proc[p] EXCEPT !.pc = "reconcile", !.snap = Now])
  /\ UNCHANGED <<past, index, foreign, spent>>

Reconcile(p) ==
  /\ At(p, "reconcile")
  /\ DiffChunks(TargetsAt(proc[p].snap))
  /\ landed' = proc[p].snap
  /\ Disturb(p, [proc[p] EXCEPT !.pc = SemanticLane(proc[p].emb, proc[p].meta, FALSE, TRUE),
                                !.disturbed = FALSE])
  /\ UNCHANGED <<past, profile, compatible, foreign, spent>>

\* No writer slot, a refused preflight, a corrupt index, a failed write or
\* commit: rolled back, and the lexical lane is given up.
ReconcileFails(p) ==
  /\ At(p, "reconcile") /\ Spend("faults")
  /\ Becomes(p, [proc[p] EXCEPT !.pc = "result", !.lex = FALSE])
  /\ UNCHANGED <<past, index, foreign>>

-----------------------------------------------------------------------------
(* Whose vectors the sidecar holds, and whether all are there.              *)

\* A claim that takes any answer of the database for its own.
ClaimIgnoresOwner(p) ==
  /\ At(p, "claim")
  /\ profile' = IF profile = NoProfile THEN proc[p].emb ELSE profile
  /\ Becomes(p, [proc[p] EXCEPT !.pc = "fill"])
  /\ UNCHANGED <<past, chunks, vectors, compatible, landed, foreign, spent>>

ClaimEmptyProfile(p) ==
  /\ At(p, "claim")
  /\ profile' = IF profile = NoProfile THEN proc[p].emb ELSE profile
  /\ Becomes(p, [proc[p] EXCEPT !.pc = IF profile = NoProfile THEN "fill" ELSE "result"])
  /\ UNCHANGED <<past, chunks, vectors, compatible, landed, foreign, spent>>

ReadOnlyCoverage(p) ==
  /\ At(p, "covered")
  /\ Becomes(p, [proc[p] EXCEPT !.pc = "result", !.sem = (MissingSemanticInputs = {})])
  /\ UNCHANGED <<past, index, foreign, spent>>

\* Complete, Incomplete or Failed; a rebuild reports it and ends.
FillEnds(p, complete) ==
  IF proc[p].kind = "rebuild" THEN proc' = [proc EXCEPT ![p] = Resting]
  ELSE Becomes(p, [proc[p] EXCEPT !.pc = "result", !.sem = complete, !.batch = {}])

FillReadsMissing(p) ==
  /\ At(p, "fill")
  /\ IF MissingSemanticInputs = {} THEN FillEnds(p, TRUE)
     ELSE IF proc[p].kind = "search" /\ proc[p].done >= 1 THEN FillEnds(p, FALSE)
     ELSE Becomes(p, [proc[p] EXCEPT !.pc = "embed", !.done = 1,
                                     !.batch = Oldest(MissingSemanticInputs, Batch)])
  /\ UNCHANGED <<past, index, foreign, spent>>

\* A fill that goes on after a batch that stored nothing.
StoreAndGoOn(p) ==
  /\ At(p, "embed")
  /\ vectors' = Stored({v \in PlanSemanticInputs(proc[p].batch, proc[p].emb) : Guard(v)})
  /\ Becomes(p, [proc[p] EXCEPT !.pc = "fill", !.batch = {}])
  /\ UNCHANGED <<past, chunks, profile, compatible, landed, foreign, spent>>

\* A batch whose guards reject every row ends the fill.
StoreVectorsGuarded(p) ==
  /\ At(p, "embed")
  /\ LET rows == PlanSemanticInputs(proc[p].batch, proc[p].emb)
         accepted == {v \in rows : Guard(v)}
         whole == \A v \in accepted : VerifySegmentCoverage(Stored(accepted), v.chunk)
     IN IF whole /\ accepted # {}
        THEN vectors' = Stored(accepted) /\ Becomes(p, [proc[p] EXCEPT !.pc = "fill", !.batch = {}])
        ELSE UNCHANGED vectors /\ FillEnds(p, FALSE)
  /\ UNCHANGED <<past, chunks, profile, compatible, landed, foreign, spent>>

\* The model, a read or a write of the sidecar fails.
SemanticFails(p) ==
  /\ proc[p].pc \in {"claim", "covered", "fill", "embed"} /\ Spend("faults")
  /\ FillEnds(p, FALSE)
  /\ UNCHANGED <<past, index, foreign>>

-----------------------------------------------------------------------------
(* The result snapshot and the lanes.                                       *)

BeginResultSnapshot(p) ==
  /\ At(p, "result")
  /\ Becomes(p, [proc[p] EXCEPT !.pc = "lexical", !.shown = Now, !.meta = NoProfile, !.done = 0])
  /\ UNCHANGED <<past, index, foreign, spent>>

Eligible(p) == {t \in Tasks : past[proc[p].shown][t] # {}}

\* What the lanes rank, which the task filter narrows but the text does not.
LexicalRows(p) == {r \in Rows(chunks) : proc[p].lex /\ r[1] \in Eligible(p)}
SemanticRows(p) == {v \in vectors : \E c \in chunks : c.id = v.chunk /\ c.task \in Eligible(p)}

\* The literal lane needs no index. Without a semantic lane the response is
\* assembled from the snapshot at once.
SearchLexical(p) ==
  /\ At(p, "lexical")
  /\ proc' = [proc EXCEPT ![p] = 
       IF @.sem THEN [Resting EXCEPT !.pc = "rank", !.emb = proc[p].emb, !.shown = proc[p].shown]
       ELSE Resting]
  /\ UNCHANGED <<past, index, foreign, spent>>

SearchSemantic(p) ==
  /\ At(p, "rank")
  /\ proc' = [proc EXCEPT ![p] = Resting]
  /\ UNCHANGED <<past, index, foreign, spent>>

\* A source read or the lexical read fails, or the process is killed: the
\* transactions that were committed stay.
HardError(p) ==
  /\ proc[p].pc # "idle" /\ Spend("faults")
  /\ proc' = [proc EXCEPT ![p] = Resting]
  /\ UNCHANGED <<past, index, foreign>>

-----------------------------------------------------------------------------
(* rl task search-index rebuild and clear.                                  *)

Rebuild(p, emb) ==
  /\ At(p, "idle") /\ Spend("commands")
  /\ Becomes(p, [proc[p] EXCEPT !.pc = "rebuild", !.kind = "rebuild", !.emb = emb, !.snap = Now])
  /\ UNCHANGED <<past, index, foreign>>

RebuildIndex(p) ==
  /\ At(p, "rebuild")
  /\ \E order \in SetToSeqs(TargetsAt(proc[p].snap)) : chunks' = Inserted({}, order)
  /\ vectors' = {} /\ landed' = proc[p].snap
  /\ IF proc[p].emb = NoProfile
     THEN Disturb(p, Resting) /\ UNCHANGED foreign
     ELSE /\ Disturb(p, [proc[p] EXCEPT !.pc = "fill"])
          /\ foreign' = (foreign \/ proc[p].emb # profile)
  /\ UNCHANGED <<past, profile, compatible, spent>>

Clear(p) ==
  /\ At(p, "idle") /\ Spend("commands")
  /\ chunks' = {} /\ vectors' = {} /\ landed' = 0
  /\ Disturb(p, Resting)
  /\ UNCHANGED <<past, profile, compatible, foreign>>

-----------------------------------------------------------------------------
Step(p) ==
  \/ LoadReconcileSnapshot(p) \/ Reconcile(p) \/ ReconcileFails(p)
  \/ ClaimEmptyProfile(p) \/ ReadOnlyCoverage(p)
  \/ FillReadsMissing(p) \/ StoreVectorsGuarded(p) \/ SemanticFails(p)
  \/ BeginResultSnapshot(p) \/ SearchLexical(p) \/ SearchSemantic(p)
  \/ HardError(p) \/ RebuildIndex(p)

Next ==
  \/ \E t \in Tasks, cs \in SUBSET Contents : Edit(t, cs)
  \/ \E p \in Procs :
       \/ \E emb \in {Pinned[p], NoProfile} :
            \/ Rebuild(p, emb) \/ SearchUnopened(p, emb)
            \/ \E ro \in BOOLEAN : Search(p, emb, ro)
       \/ Clear(p)
       \/ Step(p)

Spec == Init /\ [][Next]_vars

(* A process that was started keeps running.                                *)
FairSpec == Spec /\ \A p \in Procs : WF_vars(Step(p))
-----------------------------------------------------------------------------
Pcs == {"idle", "snapshot", "reconcile", "claim", "covered", "fill", "embed",
        "result", "lexical", "rank", "rebuild"}

(* The rows have the types the schema gives them; ids are unique and a      *)
(* vector's row exists (ON DELETE CASCADE).                                 *)
TypeOK ==
  /\ \A n \in 1..Now : past[n] \in [Tasks -> SUBSET Contents]
  /\ chunks \subseteq Chunk /\ vectors \subseteq Vector
  /\ profile \in Profiles \cup {NoProfile}
  /\ Cardinality({c.id : c \in chunks}) = Cardinality(chunks)
  /\ Cardinality(Rows(chunks)) = Cardinality(chunks)
  /\ {v.chunk : v \in vectors} \subseteq {c.id : c \in chunks}
  /\ \A v, w \in vectors : Same(v, w) => v = w
  /\ \A p \in Procs : proc[p].pc \in Pcs /\ proc[p].snap <= Now /\ proc[p].shown <= Now

(* The index is the whole of one snapshot of the tasks, never a mixture of  *)
(* two, whatever reconciles, rebuilds, clears and failures meet.            *)
IndexIsOneSnapshot == Rows(chunks) = TargetsAt(landed)

(* A vector is of the text its chunk holds now, although the chunk's id may *)
(* have been given to another text while the vector was computed.           *)
VectorsFitTheirText ==
  \A v \in vectors : \E c \in chunks : c.id = v.chunk /\ c.content = v.of

(* A chunk that has a vector has all that the embedder of the vector plans: *)
(* missing inputs are looked for by chunk, so a gap would stay for ever.    *)
CoverageIsWhole ==
  \A v \in vectors : \A i \in 0..Segments[v.by][v.of] - 1 :
    \E w \in vectors : w.chunk = v.chunk /\ w.seg = i

(* A search that runs the lexical lane ranks the tasks as of its own        *)
(* snapshot, unless another process changed the index after its reconcile   *)
(* or the sidecar is read-only: a failed reconcile is never passed over.    *)
ServedIsReconciled ==
  \A p \in Procs :
    LET r == proc[p] IN
    At(p, "lexical") /\ r.lex /\ ~r.ro /\ ~r.disturbed =>
      LexicalRows(p) = {row \in TargetsAt(r.snap) : row[1] \in Eligible(p)}

(* Binaries with different models share a sidecar, and none ranks a query   *)
(* against vectors of the other's, as long as no rebuild filled the sidecar *)
(* with vectors of a profile that does not own it.                          *)
RankedInOwnSpace ==
  foreign \/ \A p \in Procs : At(p, "rank") => \A v \in SemanticRows(p) : v.by = proc[p].emb

(* Every command ends, also a rebuild of a sidecar that no profile owns,    *)
(* whose vectors the guards reject.                                         *)
CommandsEnd == \A p \in Procs : ~At(p, "idle") ~> At(p, "idle")

(* The sidecar is consistent at every commit: one snapshot of the tasks,    *)
(* vectors of the texts they stand for, and whole coverage of every chunk   *)
(* that has any (diff_chunks, store_vectors_guarded, fill_semantic_vectors).*)
IndexIsSound == TypeOK /\ IndexIsOneSnapshot /\ VectorsFitTheirText /\ CoverageIsWhole

(* What a search ranks is what it reconciled, in its own model's space      *)
(* (TaskSearchService::search, claim_empty_profile).                        *)
AnswersAreSound == ServedIsReconciled /\ RankedInOwnSpace
=============================================================================
