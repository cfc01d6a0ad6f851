---------------------------- MODULE OutboxProofs ----------------------------
(***************************************************************************)
(* Outbox's safety properties for every number of tasks, writers, rows,     *)
(* attempts, crashes and local errors; and those of the task row that the   *)
(* entries of the outbox are saved with (Aggregate).                        *)
(***************************************************************************)
EXTENDS Outbox, Aggregate, SequenceTheorems, TLAPS

(* DelayFor always yields a delay.                                          *)
LEMMA DelayIsNat == ASSUME NEW n \in Nat PROVE DelayFor(n) \in Nat
  BY OutboxAssumption DEF DelayFor

(* A row keeps its shape under each rewriting the repository performs.      *)
LEMMA RowShape ==
  ASSUME NEW r \in Row
  PROVE  /\ [r EXCEPT !.status = "inflight"] \in Row
         /\ [r EXCEPT !.status = "deleted"] \in Row
         /\ [r EXCEPT !.status = "pending", !.wait = 0] \in Row
         /\ [r EXCEPT !.calls = @ + 1] \in Row
         /\ r.wait > 0 => [r EXCEPT !.wait = @ - 1] \in Row
         /\ MarkSucceeded(r) \in Row
<1>1. [r EXCEPT !.status = "inflight"] \in Row
  BY DEF Row, Status
<1>2. [r EXCEPT !.status = "deleted"] \in Row
  BY DEF Row, Status
<1>3. [r EXCEPT !.status = "pending", !.wait = 0] \in Row
  BY DEF Row, Status
<1>4. [r EXCEPT !.calls = @ + 1] \in Row
  BY DEF Row
<1>5. ASSUME r.wait > 0 PROVE [r EXCEPT !.wait = @ - 1] \in Row
  BY <1>5 DEF Row
<1>6. MarkSucceeded(r) \in Row
  BY DEF MarkSucceeded, Row, Status
<1>7. QED
  BY <1>1, <1>2, <1>3, <1>4, <1>5, <1>6

(* A fresh row has the type of a row.                                       *)
LEMMA NewRowShape ==
  ASSUME NEW t \in Tasks, NEW m \in Mutations, NEW at \in 0..MaxClock
  PROVE  NewRow(t, m, at) \in Row
  BY OutboxAssumption DEF NewRow, Row, Status

(* Resolving a row that still has attempts in hand keeps its shape.         *)
LEMMA ResolvedShape ==
  ASSUME NEW r \in Row, r.attempts < MaxAttempts, NEW disp \in {"stamped", "retry", "conflict"}
  PROVE  Resolved(r, disp) \in Row
<1>1. r.attempts + 1 \in 0..MaxAttempts /\ r.attempts + 1 \in Nat
  BY OutboxAssumption DEF Row
<1>2. MarkFailed(r) \in Row
  BY <1>1 DEF MarkFailed, Row, Status
<1>3. RecordRetry(r, DelayFor(r.attempts + 1)) \in Row
  BY <1>1, DelayIsNat DEF RecordRetry, Row, Status
<1>4. QED
  BY <1>2, <1>3, RowShape DEF Resolved, AfterFailure

-----------------------------------------------------------------------------
(* Where the drainer is fixes the status of the row in its hands.           *)
DrainerInv ==
  /\ drainer.pc \in {"claimed", "called"} =>
       drainer.entry \in Ids /\ rows[drainer.entry].status = "inflight"
  /\ drainer.pc = "called" => drainer.disp \in {"stamped", "retry", "conflict"}

(* Effects already seen by the attempt count, and the one that may not be.  *)
Slack(e) ==
  IF rows[e].status = "succeeded" \/ (drainer.pc = "called" /\ drainer.entry = e) THEN 1 ELSE 0

CapInv ==
  \A e \in Ids :
    /\ rows[e].status \in {"pending", "inflight", "succeeded"} => rows[e].attempts < MaxAttempts
    /\ rows[e].calls <= rows[e].attempts + Slack(e) + crashes + faults

(* When a row is in progress or has taken effect, every row that precedes   *)
(* it is resolved.                                                          *)
HeadInv ==
  \A e, f \in Ids :
    Precedes(e, f) /\ (rows[f].status = "inflight" \/ rows[f].calls > 0) => ~Open(e)

Inv == TypeOK /\ DrainerInv /\ SingleInflight /\ CapInv /\ HeadInv

(* The empty outbox satisfies the invariant.                                *)
LEMMA InitInv == Init => Inv
<1> SUFFICES ASSUME Init PROVE Inv
  OBVIOUS
<1>1. Ids = {}
  BY DEF Init, Ids
<1>2. rows \in [Ids -> Row]
  BY <1>1 DEF Init
<1>3. TypeOK
  BY <1>2, OutboxAssumption DEF Init, TypeOK, Resting, Pcs, Dispositions
<1>4. DrainerInv
  BY DEF Init, DrainerInv, Resting
<1>5. QED
  BY <1>1, <1>3, <1>4 DEF Inv, SingleInflight, CapInv, HeadInv

-----------------------------------------------------------------------------
(* Inserting a row: the new rowid is the largest, so nothing precedes by    *)
(* it, and a fresh row is neither in progress nor applied.                  *)
LEMMA AppendPreserves ==
  ASSUME Inv, NEW added \in Row, AppendRow(added),
         added.status = "pending", added.attempts = 0, added.calls = 0,
         UNCHANGED <<drainer, crashes, faults>>
  PROVE  /\ lastRowid' \in Nat /\ rows' \in [Ids' -> Row]
         /\ DrainerInv' /\ SingleInflight' /\ CapInv' /\ HeadInv'
<1> USE DEF Ids
<1>0. lastRowid \in Nat /\ rows \in [Ids -> Row] /\ crashes \in Nat /\ faults \in Nat
  BY DEF Inv, TypeOK
<1>1. lastRowid' = lastRowid + 1 /\ lastRowid' \in Nat
  BY <1>0 DEF AppendRow
<1>2. /\ \A e \in Ids : e \in Ids' /\ rows'[e] = rows[e]
      /\ rows'[lastRowid'] = added
      /\ \A e \in Ids' : e \in Ids \/ e = lastRowid'
  BY <1>0, <1>1 DEF AppendRow
<1>3. rows' \in [Ids' -> Row]
  BY <1>0, <1>1, <1>2 DEF AppendRow
<1>4. DrainerInv'
  BY <1>2 DEF Inv, DrainerInv
<1>5. SingleInflight'
  BY <1>2 DEF Inv, SingleInflight
<1>6. CapInv'
  <2> SUFFICES ASSUME NEW e \in Ids'
               PROVE  /\ rows'[e].status \in {"pending", "inflight", "succeeded"}
                           => rows'[e].attempts < MaxAttempts
                      /\ rows'[e].calls <= rows'[e].attempts + Slack(e)' + crashes' + faults'
    BY DEF CapInv
  <2>1. CASE e \in Ids
    BY <2>1, <1>2 DEF Inv, CapInv, Slack
  <2>2. CASE e = lastRowid'
    <3>1. drainer.pc \in {"claimed", "called"} => drainer.entry # e
      BY <2>2, <1>0, <1>1 DEF Inv, DrainerInv
    <3>2. Slack(e)' = 0
      BY <3>1, <2>2, <1>2 DEF Slack
    <3>3. QED
      BY <3>2, <2>2, <1>2, <1>0, OutboxAssumption
  <2>3. QED
    BY <2>1, <2>2, <1>2
<1>7. HeadInv'
  <2> SUFFICES ASSUME NEW e \in Ids', NEW f \in Ids', Precedes(e, f)',
                      rows'[f].status = "inflight" \/ rows'[f].calls > 0
               PROVE  ~Open(e)'
    BY DEF HeadInv
  <2>1. f \in Ids
    BY <1>2
  <2>2. e \in Ids
    BY <2>1, <1>0, <1>1, <1>2 DEF Precedes
  <2>3. QED
    BY <2>1, <2>2, <1>2 DEF Inv, HeadInv, Precedes, Earlier, Open
<1>8. QED
  BY <1>1, <1>3, <1>4, <1>5, <1>6, <1>7

(* Rewriting rows in place.  No row becomes inflight, starts to take effect *)
(* or reopens, and the drainer holds no row afterwards.                     *)
Calmer ==
  /\ lastRowid' = lastRowid
  /\ rows' \in [Ids -> Row]
  /\ crashes' \in Nat /\ faults' \in Nat /\ crashes' >= crashes /\ faults' >= faults
  /\ \A e \in Ids :
       /\ rows'[e].task = rows[e].task /\ rows'[e].at = rows[e].at
       /\ rows'[e].status = "inflight" => rows[e].status = "inflight"
       /\ rows'[e].calls = rows[e].calls
       /\ Open(e)' => Open(e)

(* A step that claims and applies nothing keeps order and single flight.    *)
LEMMA CalmerPreserves ==
  ASSUME Inv, Calmer PROVE SingleInflight' /\ HeadInv'
<1>1. Ids' = Ids /\ rows \in [Ids -> Row]
  BY DEF Calmer, Ids, Inv, TypeOK
<1>2. SingleInflight'
  BY <1>1 DEF Inv, Calmer, SingleInflight
<1>3. HeadInv'
  BY <1>1 DEF Inv, Calmer, HeadInv, Precedes, Earlier
<1>4. QED
  BY <1>2, <1>3

-----------------------------------------------------------------------------
(* Inserting a minted entry, or dropping a suppressed one.                  *)
LEMMA InsertPreserves == ASSUME Inv, NEW d \in drafts, Insert(d) PROVE Inv'
<1>0. TypeOK /\ d \in Draft /\ drafts' \subseteq Draft
  BY DEF Inv, TypeOK, Insert
<1>1. CASE Suppressed(d.task, d.mut)
  <2>1. UNCHANGED <<rows, lastRowid, clock, drainer, crashes, faults>>
    BY <1>1 DEF Insert
  <2>2. QED
    BY <2>1, <1>0 DEF Inv, TypeOK, DrainerInv, SingleInflight, CapInv, HeadInv,
                      Ids, Slack, Precedes, Earlier, Open
<1>2. CASE ~Suppressed(d.task, d.mut)
  <2>1. NewRow(d.task, d.mut, d.at) \in Row
    BY <1>0, NewRowShape DEF Draft
  <2>2. /\ AppendRow(NewRow(d.task, d.mut, d.at))
        /\ UNCHANGED <<clock, drainer, crashes, faults>>
    BY <1>2 DEF Insert
  <2>3. /\ lastRowid' \in Nat /\ rows' \in [Ids' -> Row]
        /\ DrainerInv' /\ SingleInflight' /\ CapInv' /\ HeadInv'
    BY <2>1, <2>2, AppendPreserves DEF NewRow
  <2>4. QED
    BY <2>2, <2>3, <1>0 DEF Inv, TypeOK
<1>3. QED
  BY <1>1, <1>2

(* The startup reconcile appends a row.                                     *)
LEMMA ReconcilePreserves == ASSUME Inv, NEW t \in Tasks, ReconcileDirty(t) PROVE Inv'
<1>1. NewRow(t, DirtyMutation, clock) \in Row
  BY NewRowShape, OutboxAssumption DEF Inv, TypeOK
<1>2. /\ AppendRow(NewRow(t, DirtyMutation, clock))
      /\ UNCHANGED <<drafts, clock, drainer, crashes, faults>>
  BY DEF ReconcileDirty
<1>3. /\ lastRowid' \in Nat /\ rows' \in [Ids' -> Row]
      /\ DrainerInv' /\ SingleInflight' /\ CapInv' /\ HeadInv'
  BY <1>1, <1>2, AppendPreserves DEF NewRow
<1>4. QED
  BY <1>2, <1>3 DEF Inv, TypeOK

(* Steps that leave every row as it is.                                     *)
LEMMA RowsUntouched ==
  ASSUME Inv, UNCHANGED <<rows, lastRowid>>, TypeOK', DrainerInv',
         crashes' >= crashes, faults' >= faults,
         \A e \in Ids : Slack(e) + crashes + faults <= Slack(e)' + crashes' + faults'
  PROVE  Inv'
<1>1. Ids' = Ids /\ rows \in [Ids -> Row]
  BY DEF Ids, Inv, TypeOK
<1>2. SingleInflight' /\ HeadInv'
  BY <1>1 DEF Inv, SingleInflight, HeadInv, Precedes, Earlier, Open
<1>3. CapInv'
  <2> SUFFICES ASSUME NEW e \in Ids
               PROVE  /\ rows[e].status \in {"pending", "inflight", "succeeded"}
                           => rows[e].attempts < MaxAttempts
                      /\ rows[e].calls <= rows[e].attempts + Slack(e)' + crashes' + faults'
    BY <1>1 DEF CapInv
  <2>1. /\ rows[e].attempts \in Nat /\ rows[e].calls \in Nat
        /\ crashes \in Nat /\ faults \in Nat /\ crashes' \in Nat /\ faults' \in Nat
        /\ Slack(e) \in {0, 1} /\ Slack(e)' \in {0, 1}
    BY <1>1, OutboxAssumption DEF Inv, TypeOK, Row, Slack
  <2>2. rows[e].calls <= rows[e].attempts + Slack(e) + crashes + faults
    BY DEF Inv, CapInv
  <2>3. QED
    BY <2>1, <2>2 DEF Inv, CapInv
<1>4. QED
  BY <1>2, <1>3 DEF Inv

(* A process stamps an entry.                                               *)
LEMMA MintPreserves ==
  ASSUME Inv, NEW w \in Writers, NEW t \in Tasks, NEW m \in Mutations, Mint(w, t, m)
  PROVE  Inv'
<1>1. TypeOK'
  <2>1. PICK now \in {clock, clock + 1} :
          /\ now <= MaxClock /\ clock' = now
          /\ drafts' = drafts \cup {[writer |-> w, task |-> t, mut |-> m, at |-> now]}
    BY DEF Mint
  <2>2. now \in 0..MaxClock
    BY <2>1, OutboxAssumption DEF Inv, TypeOK
  <2>3. QED
    BY <2>1, <2>2 DEF Inv, TypeOK, Mint, Draft, Ids
<1>2. UNCHANGED <<rows, lastRowid, drainer, crashes, faults>>
  BY DEF Mint
<1>3. QED
  BY <1>1, <1>2, RowsUntouched DEF Inv, TypeOK, DrainerInv, Slack, Ids

(* A local error leaves the row inflight.                                   *)
LEMMA DrainErrorPreserves == ASSUME Inv, DrainError PROVE Inv'
<1>1. TypeOK'
  BY DEF Inv, TypeOK, DrainError, Resting, Pcs, Dispositions, Ids
<1>2. DrainerInv'
  BY DEF DrainError, DrainerInv, Resting
<1>3. /\ UNCHANGED <<rows, lastRowid, crashes>> /\ faults' = faults + 1
      /\ drainer' = Resting("idle")
  BY DEF DrainError
<1>4. \A e \in Ids : Slack(e) + crashes + faults <= Slack(e)' + crashes' + faults'
  BY <1>3 DEF Slack, Inv, TypeOK, Resting
<1>5. QED
  BY <1>1, <1>2, <1>3, <1>4, RowsUntouched DEF Inv, TypeOK

(* A crash loses the drainer's register.                                    *)
LEMMA CrashPreserves == ASSUME Inv, Crash PROVE Inv'
<1>1. TypeOK'
  BY DEF Inv, TypeOK, Crash, Resting, Pcs, Dispositions, Ids
<1>2. DrainerInv'
  BY DEF Crash, DrainerInv, Resting
<1>3. /\ UNCHANGED <<rows, lastRowid, faults>> /\ crashes' = crashes + 1
      /\ drainer' = Resting("down")
  BY DEF Crash
<1>4. \A e \in Ids : Slack(e) + crashes + faults <= Slack(e)' + crashes' + faults'
  BY <1>3 DEF Slack, Inv, TypeOK, Resting
<1>5. QED
  BY <1>1, <1>2, <1>3, <1>4, RowsUntouched DEF Inv, TypeOK

(* The startup steps that touch no row.                                     *)
LEMMA StartupPreserves == ASSUME Inv, RequeueFails \/ StartLoops PROVE Inv'
<1>1. TypeOK'
  BY DEF Inv, TypeOK, RequeueFails, StartLoops, Resting, Pcs, Dispositions, Ids
<1>2. DrainerInv'
  BY DEF RequeueFails, StartLoops, DrainerInv, Resting
<1>3. /\ UNCHANGED <<rows, lastRowid, crashes>> /\ faults' >= faults
      /\ drainer.pc \notin {"called", "claimed"} /\ drainer'.pc \notin {"called", "claimed"}
  BY DEF RequeueFails, StartLoops, Inv, TypeOK, Resting
<1>4. \A e \in Ids : Slack(e) + crashes + faults <= Slack(e)' + crashes' + faults'
  <2>1. \A e \in Ids : Slack(e)' = Slack(e) /\ Slack(e) \in {0, 1}
    BY <1>3 DEF Slack
  <2>2. QED
    BY <1>1, <1>3, <2>1 DEF Inv, TypeOK
<1>5. QED
  BY <1>1, <1>2, <1>3, <1>4, RowsUntouched DEF Inv, TypeOK

(* A call without effect.                                                   *)
LEMMA ApplyNotLandedPreserves == ASSUME Inv, ApplyNotLanded PROVE Inv'
<1>1. TypeOK' /\ DrainerInv'
  BY DEF Inv, TypeOK, DrainerInv, ApplyNotLanded, Pcs, Dispositions, Ids
<1>2. /\ UNCHANGED <<rows, lastRowid, crashes, faults>> /\ drainer.pc = "claimed"
      /\ drainer'.pc = "called"
  BY DEF ApplyNotLanded, Inv, TypeOK
<1>3. \A e \in Ids : Slack(e) + crashes + faults <= Slack(e)' + crashes' + faults'
  BY <1>2 DEF Slack, Inv, TypeOK
<1>4. QED
  BY <1>1, <1>2, <1>3, RowsUntouched DEF Inv, TypeOK

(* Steps that rewrite rows without touching attempts or calls.              *)
LEMMA CountsUntouched ==
  ASSUME Inv, Calmer, UNCHANGED <<crashes, faults>>,
         \A e \in Ids : /\ rows'[e].attempts = rows[e].attempts
                        /\ rows'[e].status = "succeeded" => rows[e].status = "succeeded"
                        /\ Slack(e)' = Slack(e)
  PROVE  CapInv'
<1>1. Ids' = Ids /\ rows \in [Ids -> Row] /\ rows' \in [Ids -> Row]
  BY DEF Calmer, Ids, Inv, TypeOK
<1>2. QED
  BY <1>1 DEF Inv, CapInv, Calmer, Open

(* A detach withdraws pending rows.                                         *)
LEMMA DeletePreserves == ASSUME Inv, NEW t \in Tasks, DeletePendingAddItems(t) PROVE Inv'
<1>0. rows \in [Ids -> Row] /\ Ids' = Ids /\ UNCHANGED <<lastRowid, drafts, clock, drainer, crashes, faults>>
  BY DEF Inv, TypeOK, DeletePendingAddItems, Ids
<1>1. rows' \in [Ids -> Row]
  BY <1>0, RowShape DEF DeletePendingAddItems
<1>2. \A e \in Ids :
        /\ rows'[e].task = rows[e].task /\ rows'[e].at = rows[e].at
        /\ rows'[e].calls = rows[e].calls /\ rows'[e].attempts = rows[e].attempts
        /\ rows'[e].status = rows[e].status \/ (rows[e].status = "pending" /\ rows'[e].status = "deleted")
  BY <1>0 DEF DeletePendingAddItems, PendingAddItem, Row
<1>3. Calmer
  BY <1>0, <1>1, <1>2 DEF Calmer, Open, Inv, TypeOK
<1>4. CapInv'
  <2>1. \A e \in Ids : Slack(e)' = Slack(e)
    BY <1>0, <1>2 DEF Slack
  <2>2. QED
    BY <1>0, <1>2, <1>3, <2>1, CountsUntouched
<1>5. DrainerInv'
  BY <1>0, <1>2 DEF Inv, DrainerInv
<1>6. QED
  BY <1>0, <1>1, <1>3, <1>4, <1>5, CalmerPreserves DEF Inv, TypeOK

(* Time passes.                                                             *)
LEMMA TickPreserves == ASSUME Inv, Tick PROVE Inv'
<1>0. rows \in [Ids -> Row] /\ Ids' = Ids /\ UNCHANGED <<lastRowid, drafts, clock, drainer, crashes, faults>>
  BY DEF Inv, TypeOK, Tick, Ids
<1>1. rows' \in [Ids -> Row]
  BY <1>0, RowShape DEF Tick, Waiting
<1>2. \A e \in Ids :
        /\ rows'[e].task = rows[e].task /\ rows'[e].at = rows[e].at
        /\ rows'[e].calls = rows[e].calls /\ rows'[e].attempts = rows[e].attempts
        /\ rows'[e].status = rows[e].status
  BY <1>0 DEF Tick, Row
<1>3. Calmer
  BY <1>0, <1>1, <1>2 DEF Calmer, Open, Inv, TypeOK
<1>4. CapInv'
  <2>1. \A e \in Ids : Slack(e)' = Slack(e)
    BY <1>0, <1>2 DEF Slack
  <2>2. QED
    BY <1>0, <1>2, <1>3, <2>1, CountsUntouched
<1>5. DrainerInv'
  BY <1>0, <1>2 DEF Inv, DrainerInv
<1>6. QED
  BY <1>0, <1>1, <1>3, <1>4, <1>5, CalmerPreserves DEF Inv, TypeOK

(* Startup requeues what was inflight.                                      *)
LEMMA RequeuePreserves == ASSUME Inv, RequeueOrphanedInflight PROVE Inv'
<1>0. /\ rows \in [Ids -> Row] /\ Ids' = Ids /\ UNCHANGED <<lastRowid, drafts, clock, crashes, faults>>
      /\ drainer.pc = "down" /\ drainer' = Resting("starting")
  BY DEF Inv, TypeOK, RequeueOrphanedInflight, Ids
<1>1. rows' \in [Ids -> Row]
  BY <1>0, RowShape DEF RequeueOrphanedInflight, Requeued
<1>2. \A e \in Ids :
        /\ rows'[e].task = rows[e].task /\ rows'[e].at = rows[e].at
        /\ rows'[e].calls = rows[e].calls /\ rows'[e].attempts = rows[e].attempts
        /\ rows'[e].status = rows[e].status \/ (rows[e].status = "inflight" /\ rows'[e].status = "pending")
  BY <1>0 DEF RequeueOrphanedInflight, Requeued, Row
<1>3. Calmer
  BY <1>0, <1>1, <1>2 DEF Calmer, Open, Inv, TypeOK
<1>4. CapInv'
  <2>1. \A e \in Ids : Slack(e)' = Slack(e)
    BY <1>0, <1>2 DEF Slack, Resting
  <2>2. QED
    BY <1>0, <1>2, <1>3, <2>1, CountsUntouched
<1>5. DrainerInv'
  BY <1>0 DEF DrainerInv, Resting
<1>6. TypeOK'
  BY <1>0, <1>1 DEF Inv, TypeOK, Resting, Pcs, Dispositions
<1>7. QED
  BY <1>3, <1>4, <1>5, <1>6, CalmerPreserves DEF Inv

(* Claiming: the claimed row is its task's head.                            *)
LEMMA ClaimPreserves == ASSUME Inv, Claim PROVE Inv'
<1>0. rows \in [Ids -> Row] /\ Ids' = Ids /\ UNCHANGED <<lastRowid, drafts, clock, crashes, faults>>
  BY DEF Inv, TypeOK, Claim, Ids
<1>1. PICK c \in Ids : /\ Eligible(c)
                       /\ rows' = [rows EXCEPT ![c].status = "inflight"]
                       /\ drainer' = [pc |-> "claimed", entry |-> c, disp |-> "none"]
  BY DEF Claim
<1>2. rows' \in [Ids -> Row]
  BY <1>0, <1>1, RowShape
<1>3. \A e \in Ids :
        /\ rows'[e].task = rows[e].task /\ rows'[e].at = rows[e].at
        /\ rows'[e].calls = rows[e].calls /\ rows'[e].attempts = rows[e].attempts
        /\ rows'[e].status = IF e = c THEN "inflight" ELSE rows[e].status
  BY <1>0, <1>1 DEF Row
<1>4. rows[c].status = "pending" /\ drainer.pc = "idle"
  BY <1>1 DEF Eligible, Claim
<1>5. \A s \in Ids : rows[s].task = rows[c].task =>
        /\ rows[s].status # "inflight"
        /\ ~(rows[s].status = "pending" /\ Earlier(s, c))
  BY <1>1 DEF Eligible, Blocked
<1>6. TypeOK'
  BY <1>0, <1>1, <1>2 DEF Inv, TypeOK, Pcs, Dispositions, Ids
<1>7. DrainerInv'
  BY <1>0, <1>1, <1>3 DEF DrainerInv
<1>8. SingleInflight'
  BY <1>0, <1>3, <1>5 DEF Inv, SingleInflight
<1>9. CapInv'
  <2>1. \A e \in Ids : Slack(e)' = Slack(e)
    BY <1>0, <1>1, <1>3, <1>4 DEF Slack
  <2>2. QED
    BY <1>0, <1>3, <1>4, <2>1 DEF Inv, CapInv
<1>10. HeadInv'
  <2> SUFFICES ASSUME NEW e \in Ids, NEW f \in Ids, Precedes(e, f)',
                      rows'[f].status = "inflight" \/ rows'[f].calls > 0
               PROVE  ~Open(e)'
    BY <1>0 DEF HeadInv
  <2>1. Precedes(e, f)
    BY <1>3 DEF Precedes, Earlier
  <2>2. e # f /\ rows[e].task = rows[f].task /\ Earlier(e, f)
    BY <2>1, <1>0 DEF Precedes, Ids, Inv, TypeOK
  <2>3. CASE f = c
    BY <2>2, <2>3, <1>3, <1>5 DEF Open
  <2>4. CASE f # c
    <3>1. ~Open(e)
      BY <2>1, <2>4, <1>3 DEF Inv, HeadInv
    <3>2. e # c
      BY <3>1, <1>4 DEF Open
    <3>3. QED
      BY <3>1, <3>2, <1>3 DEF Open
  <2>5. QED
    BY <2>3, <2>4
<1>11. QED
  BY <1>6, <1>7, <1>8, <1>9, <1>10 DEF Inv

(* A call that takes effect, with one unit of slack.                        *)
LEMMA ApplyLandedPreserves == ASSUME Inv, ApplyLanded PROVE Inv'
<1> DEFINE c == drainer.entry
<1>0. /\ rows \in [Ids -> Row] /\ Ids' = Ids /\ c \in Ids /\ drainer.pc = "claimed"
      /\ rows[c].status = "inflight"
      /\ UNCHANGED <<lastRowid, drafts, clock, crashes, faults>>
  BY DEF Inv, TypeOK, DrainerInv, ApplyLanded, Ids
<1>1. rows' = [rows EXCEPT ![c].calls = @ + 1]
  BY DEF ApplyLanded
<1>2. rows' \in [Ids -> Row]
  BY <1>0, <1>1, RowShape
<1>3. \A e \in Ids :
        /\ rows'[e].task = rows[e].task /\ rows'[e].at = rows[e].at
        /\ rows'[e].attempts = rows[e].attempts /\ rows'[e].status = rows[e].status
        /\ rows'[e].calls = IF e = c THEN rows[e].calls + 1 ELSE rows[e].calls
  BY <1>0, <1>1 DEF Row
<1>4. drainer'.pc = "called" /\ drainer'.entry = c /\ drainer'.disp \in {"stamped", "retry", "conflict"}
  BY DEF ApplyLanded, Inv, TypeOK
<1>5. TypeOK'
  BY <1>0, <1>2 DEF Inv, TypeOK, ApplyLanded, Pcs, Dispositions, Ids
<1>6. DrainerInv'
  BY <1>0, <1>3, <1>4 DEF DrainerInv
<1>7. SingleInflight'
  BY <1>0, <1>3 DEF Inv, SingleInflight
<1>8. CapInv'
  <2> SUFFICES ASSUME NEW e \in Ids
               PROVE  /\ rows'[e].status \in {"pending", "inflight", "succeeded"}
                           => rows'[e].attempts < MaxAttempts
                      /\ rows'[e].calls <= rows'[e].attempts + Slack(e)' + crashes' + faults'
    BY <1>0 DEF CapInv
  <2>1. /\ rows[e].status \in {"pending", "inflight", "succeeded"} => rows[e].attempts < MaxAttempts
        /\ rows[e].calls <= rows[e].attempts + Slack(e) + crashes + faults
    BY DEF Inv, CapInv
  <2>2. /\ rows[e].attempts \in Nat /\ rows[e].calls \in Nat /\ crashes \in Nat /\ faults \in Nat
    BY <1>0 DEF Inv, TypeOK, Row
  <2>3. CASE e = c
    <3>1. Slack(e) = 0 /\ Slack(e)' = 1
      BY <1>0, <1>4, <2>3 DEF Slack
    <3>2. QED
      BY <3>1, <2>1, <2>2, <2>3, <1>0, <1>3
  <2>4. CASE e # c
    <3>1. Slack(e)' = Slack(e)
      BY <1>0, <1>3, <1>4, <2>4 DEF Slack
    <3>2. QED
      BY <3>1, <2>1, <2>4, <1>0, <1>3
  <2>5. QED
    BY <2>3, <2>4
<1>9. HeadInv'
  <2> SUFFICES ASSUME NEW e \in Ids, NEW f \in Ids, Precedes(e, f)',
                      rows'[f].status = "inflight" \/ rows'[f].calls > 0
               PROVE  ~Open(e)'
    BY <1>0 DEF HeadInv
  <2>1. Precedes(e, f)
    BY <1>3 DEF Precedes, Earlier
  <2>2. rows[f].status = "inflight" \/ rows[f].calls > 0
    BY <1>0, <1>3
  <2>3. QED
    BY <2>1, <2>2, <1>3 DEF Inv, HeadInv, Open
<1>10. QED
  BY <1>5, <1>6, <1>7, <1>8, <1>9 DEF Inv

(* The outcome of a call is recorded.                                       *)
LEMMA ResolvePreserves == ASSUME Inv, Resolve PROVE Inv'
<1> DEFINE c == drainer.entry
<1> DEFINE r == Resolved(rows[c], drainer.disp)
<1>0. /\ rows \in [Ids -> Row] /\ Ids' = Ids /\ c \in Ids /\ drainer.pc = "called"
      /\ rows[c].status = "inflight" /\ rows[c].attempts < MaxAttempts
      /\ drainer.disp \in {"stamped", "retry", "conflict"}
      /\ rows' = [rows EXCEPT ![c] = r] /\ drainer' = Resting("idle")
      /\ UNCHANGED <<lastRowid, drafts, clock, crashes, faults>>
  BY DEF Inv, TypeOK, DrainerInv, CapInv, Resolve, Ids
<1>1. r \in Row
  BY <1>0, ResolvedShape
<1>2. /\ r.task = rows[c].task /\ r.at = rows[c].at /\ r.calls = rows[c].calls
      /\ \/ r.status = "succeeded" /\ r.attempts = rows[c].attempts
         \/ r.status = "failed" /\ r.attempts = rows[c].attempts + 1
         \/ r.status = "pending" /\ r.attempts = rows[c].attempts + 1
                                 /\ rows[c].attempts + 1 < MaxAttempts
  BY <1>0 DEF Resolved, AfterFailure, MarkSucceeded, MarkFailed, RecordRetry, Row
<1>3. rows' \in [Ids -> Row] /\ rows'[c] = r /\ \A e \in Ids \ {c} : rows'[e] = rows[e]
  BY <1>0, <1>1
<1>4. TypeOK'
  BY <1>0, <1>3 DEF Inv, TypeOK, Resting, Pcs, Dispositions
<1>5. DrainerInv'
  BY <1>0 DEF DrainerInv, Resting
<1>6. Calmer
  BY <1>0, <1>2, <1>3 DEF Calmer, Open, Inv, TypeOK
<1>7. CapInv'
  <2> SUFFICES ASSUME NEW e \in Ids
               PROVE  /\ rows'[e].status \in {"pending", "inflight", "succeeded"}
                           => rows'[e].attempts < MaxAttempts
                      /\ rows'[e].calls <= rows'[e].attempts + Slack(e)' + crashes' + faults'
    BY <1>0 DEF CapInv
  <2>1. /\ rows[e].status \in {"pending", "inflight", "succeeded"} => rows[e].attempts < MaxAttempts
        /\ rows[e].calls <= rows[e].attempts + Slack(e) + crashes + faults
        /\ rows[e].attempts \in Nat /\ rows[e].calls \in Nat /\ crashes \in Nat /\ faults \in Nat
    BY <1>0 DEF Inv, TypeOK, CapInv, Row
  <2>2. CASE e = c
    <3>1. Slack(e) = 1 /\ Slack(e)' = IF r.status = "succeeded" THEN 1 ELSE 0
      BY <1>0, <1>3, <2>2 DEF Slack, Resting
    <3>2. QED
      BY <3>1, <2>1, <2>2, <1>0, <1>2, <1>3
  <2>3. CASE e # c
    <3>1. Slack(e)' = Slack(e)
      BY <1>0, <1>3, <2>3 DEF Slack, Resting
    <3>2. QED
      BY <3>1, <2>1, <2>3, <1>0, <1>3
  <2>4. QED
    BY <2>2, <2>3
<1>8. QED
  BY <1>4, <1>5, <1>6, <1>7, CalmerPreserves DEF Inv

(* Every step keeps the invariant.                                          *)
LEMMA NextPreserves == Inv /\ [Next]_vars => Inv'
<1> SUFFICES ASSUME Inv, [Next]_vars PROVE Inv'
  OBVIOUS
<1>1. CASE \E w \in Writers, t \in Tasks, m \in Mutations : Mint(w, t, m)
  BY <1>1, MintPreserves
<1>2. CASE \E d \in drafts : Insert(d)
  BY <1>2, InsertPreserves
<1>3. CASE \E t \in Tasks : DeletePendingAddItems(t) \/ ReconcileDirty(t)
  BY <1>3, DeletePreserves, ReconcilePreserves
<1>4. CASE Daemon
  BY <1>4, ClaimPreserves, ApplyLandedPreserves, ApplyNotLandedPreserves, ResolvePreserves,
     RequeuePreserves, StartupPreserves DEF Daemon
<1>5. CASE DrainError \/ RequeueFails \/ Crash \/ Tick
  BY <1>5, DrainErrorPreserves, StartupPreserves, CrashPreserves, TickPreserves
<1>6. CASE UNCHANGED vars
  BY <1>6 DEF vars, Inv, TypeOK, DrainerInv, SingleInflight, CapInv, HeadInv,
              Ids, Slack, Precedes, Earlier, Open
<1>7. QED
  BY <1>1, <1>2, <1>3, <1>4, <1>5, <1>6 DEF Next

(* The invariant holds throughout.                                          *)
LEMMA Invariance == Spec => []Inv
  BY InitInv, NextPreserves, PTL DEF Spec

-----------------------------------------------------------------------------
(* outbox_entries and the drainer's registers stay well formed.             *)
THEOREM OutboxTypeOK == Spec => []TypeOK
<1>1. Inv => TypeOK
  BY DEF Inv
<1>2. QED
  BY <1>1, Invariance, PTL

(* claim_next_eligible, requeue_orphaned_inflight and a pass that gives up  *)
(* never leave two rows of a task inflight.                                 *)
THEOREM OutboxSingleInflight == Spec => []SingleInflight
<1>1. Inv => SingleInflight
  BY DEF Inv
<1>2. QED
  BY <1>1, Invariance, PTL

(* The attempt cap bounds the effects of a row, whatever crashes.           *)
THEOREM OutboxEffectsCapped == Spec => []EffectsCapped
<1>1. Inv => EffectsCapped
  <2> SUFFICES ASSUME Inv, NEW e \in Ids
               PROVE  /\ Open(e) => rows[e].attempts < MaxAttempts
                      /\ rows[e].calls <= MaxAttempts + crashes + faults
    BY DEF EffectsCapped
  <2>1. /\ rows[e].attempts \in 0..MaxAttempts /\ rows[e].calls \in Nat
        /\ crashes \in Nat /\ faults \in Nat /\ MaxAttempts \in Nat
        /\ rows[e].status \in {"pending", "inflight", "succeeded"} => rows[e].attempts < MaxAttempts
        /\ rows[e].calls <= rows[e].attempts + Slack(e) + crashes + faults
    BY OutboxAssumption DEF Inv, TypeOK, CapInv, Row
  <2>2. Slack(e) = 0 \/ (Slack(e) = 1 /\ rows[e].status \in {"inflight", "succeeded"})
    BY DEF Slack, Inv, DrainerInv
  <2>3. QED
    BY <2>1, <2>2 DEF Open
<1>2. QED
  BY <1>1, Invariance, PTL

(* What a step may do to the effects and to the resolved rows.              *)
LEMMA StepEffects ==
  ASSUME Inv, [Next]_vars, NEW e \in Ids
  PROVE  /\ rows'[e].calls # rows[e].calls => ApplyLanded /\ e = drainer.entry
         /\ rows[e].status \in Terminal => rows'[e] = rows[e]
<1>0. rows \in [Ids -> Row] /\ lastRowid \in Nat
  BY DEF Inv, TypeOK
<1>1. CASE \E w \in Writers, t \in Tasks, m \in Mutations : Mint(w, t, m)
  BY <1>1 DEF Mint
<1>2. CASE \E d \in drafts : Insert(d)
  BY <1>0, <1>2 DEF Insert, AppendRow, Ids
<1>3. CASE \E t \in Tasks : DeletePendingAddItems(t)
  BY <1>0, <1>3 DEF DeletePendingAddItems, PendingAddItem, Row, Terminal
<1>4. CASE \E t \in Tasks : ReconcileDirty(t)
  BY <1>0, <1>4 DEF ReconcileDirty, AppendRow, Ids
<1>5. CASE Claim
  BY <1>0, <1>5 DEF Claim, Eligible, Row, Terminal
<1>6. CASE ApplyLanded
  BY <1>0, <1>6 DEF ApplyLanded, Inv, DrainerInv, Terminal
<1>7. CASE Resolve
  <2>1. /\ drainer.entry \in Ids /\ rows[drainer.entry].status = "inflight"
        /\ drainer.disp \in {"stamped", "retry", "conflict"}
    BY <1>7 DEF Resolve, Inv, DrainerInv
  <2>2. Resolved(rows[drainer.entry], drainer.disp).calls = rows[drainer.entry].calls
    BY <1>0, <2>1 DEF Resolved, AfterFailure, MarkSucceeded, MarkFailed, RecordRetry, Row
  <2>3. QED
    BY <1>0, <1>7, <2>1, <2>2 DEF Resolve, Terminal
<1>8. CASE Tick
  BY <1>0, <1>8 DEF Tick, Waiting, Row, Terminal
<1>9. CASE RequeueOrphanedInflight
  BY <1>0, <1>9 DEF RequeueOrphanedInflight, Requeued, Row, Terminal
<1>10. CASE ApplyNotLanded \/ StartLoops \/ DrainError \/ RequeueFails \/ Crash \/ UNCHANGED vars
  BY <1>10 DEF ApplyNotLanded, StartLoops, DrainError, RequeueFails, Crash, vars
<1>11. QED
  BY <1>1, <1>2, <1>3, <1>4, <1>5, <1>6, <1>7, <1>8, <1>9, <1>10 DEF Next, Daemon

(* Per-task FIFO at the remote, for any number of rows, retries and crashes.*)
THEOREM OutboxOrderedEffects == Spec => OrderedEffects
<1>1. Inv /\ [Next]_vars =>
        [\A e, f \in Ids : Precedes(e, f) /\ rows[f].calls > 0 => rows'[e].calls = rows[e].calls]_vars
  <2> SUFFICES ASSUME Inv, [Next]_vars, NEW e \in Ids, NEW f \in Ids,
                      Precedes(e, f), rows[f].calls > 0, rows'[e].calls # rows[e].calls
               PROVE  FALSE
    OBVIOUS
  <2>1. ApplyLanded /\ e = drainer.entry
    BY StepEffects
  <2>2. Open(e)
    BY <2>1 DEF ApplyLanded, Inv, DrainerInv, Open
  <2>3. ~Open(e)
    BY DEF Inv, HeadInv
  <2>4. QED
    BY <2>2, <2>3
<1>2. QED
  BY <1>1, Invariance, PTL DEF Spec, OrderedEffects

(* Resolved and withdrawn rows are final.                                   *)
THEOREM OutboxResolvedIsFinal == Spec => ResolvedIsFinal
<1>1. Inv /\ [Next]_vars =>
        [\A e \in Ids : rows[e].status \in Terminal => rows'[e] = rows[e]]_vars
  BY StepEffects
<1>2. QED
  BY <1>1, Invariance, PTL DEF Spec, ResolvedIsFinal

-----------------------------------------------------------------------------
(* Refinement of Mailbox.                                                   *)

(* The row the drainer holds is the head of its task's mailbox.             *)
LEMMA HeldRowIsHead ==
  ASSUME Inv, drainer.pc \in {"claimed", "called"} PROVE Box!Head(drainer.entry)
<1>1. /\ drainer.entry \in Ids /\ rows[drainer.entry].status = "inflight"
      /\ rows \in [Ids -> Row] /\ lastRowid \in Nat
  BY DEF Inv, TypeOK, DrainerInv
<1>2. ASSUME NEW o \in Ids, Box!GoesFirst(o, drainer.entry) PROVE ~Open(o)
  <2>1. rows[o].at \in 0..MaxClock /\ rows[drainer.entry].at \in 0..MaxClock
    BY <1>1 DEF Row
  <2>2. Precedes(o, drainer.entry)
    BY <1>1, <1>2, <2>1, OutboxAssumption DEF Box!GoesFirst, Letters, Precedes, Earlier
  <2>3. QED
    BY <1>1, <2>2 DEF Inv, HeadInv
<1>3. QED
  BY <1>1, <1>2 DEF Box!Head, Box!Posted, Letters, Open, Ids

(* Appending a row is posting a letter.                                     *)
LEMMA AppendIsPost ==
  ASSUME Inv, NEW t \in Tasks, NEW m \in Mutations, NEW at \in 0..MaxClock,
         AppendRow(NewRow(t, m, at))
  PROVE  Box!Post(t, at)
<1>1. lastRowid' = lastRowid + 1 /\ lastRowid \in Nat
  BY DEF AppendRow, Inv, TypeOK
<1>2. Letters' = [e \in 1..(lastRowid + 1) |->
                    IF e \in 1..lastRowid THEN Letters[e]
                    ELSE [task |-> t, at |-> at, state |-> "open", effects |-> 0]]
  BY <1>1 DEF Letters, AppendRow, NewRow, Open, Ids
<1>3. QED
  BY <1>1, <1>2 DEF Box!Post, Box!Posted

(* Two functions on S that differ at c only.                                *)
LEMMA FunctionUpdate ==
  ASSUME NEW S, NEW F, NEW G, NEW c \in S, NEW v,
         F = [x \in S |-> F[x]], G = [x \in S |-> G[x]],
         \A x \in S : G[x] = IF x = c THEN v ELSE F[x]
  PROVE  G = [F EXCEPT ![c] = v]
  OBVIOUS

(* Every step is a step of the mailbox or a stutter.                        *)
LEMMA StepRefines ==
  Inv /\ [Next]_vars => [Box!Next]_<<Letters, lastRowid>>
<1> SUFFICES ASSUME Inv, [Next]_vars PROVE Box!Next \/ UNCHANGED <<Letters, lastRowid>>
  OBVIOUS
<1> USE DEF Ids
<1>0. rows \in [Ids -> Row] /\ lastRowid \in Nat
  BY DEF Inv, TypeOK
<1>1. ASSUME NEW d \in drafts, Insert(d) PROVE Box!Next \/ UNCHANGED <<Letters, lastRowid>>
  <2>0. d.task \in Tasks /\ d.mut \in Mutations /\ d.at \in 0..MaxClock
    BY DEF Inv, TypeOK, Draft
  <2>1. CASE Suppressed(d.task, d.mut)
    BY <1>1, <2>1 DEF Insert, Letters, Open
  <2>2. CASE ~Suppressed(d.task, d.mut)
    BY <1>1, <2>0, <2>2, AppendIsPost DEF Insert, Box!Next
  <2>3. QED
    BY <2>1, <2>2
<1>2. ASSUME NEW t \in Tasks, ReconcileDirty(t) PROVE Box!Next
  <2>1. clock \in 0..MaxClock
    BY DEF Inv, TypeOK
  <2>2. Box!Post(t, clock)
    BY <1>2, <2>1, AppendIsPost, OutboxAssumption DEF ReconcileDirty
  <2>3. QED
    BY <2>1, <2>2 DEF Box!Next
<1>3. ASSUME NEW t \in Tasks, DeletePendingAddItems(t) PROVE Box!Next
  <2> DEFINE S == {e \in Ids : PendingAddItem(e, t)}
  <2>1. S \in SUBSET {e \in Ids : Letters[e].task = t}
    BY DEF Letters, PendingAddItem
  <2>2. lastRowid' = lastRowid
    BY <1>3 DEF DeletePendingAddItems
  <2>3. \A e \in Ids : Letters'[e] = IF e \in S THEN [Letters[e] EXCEPT !.state = "closed"] ELSE Letters[e]
    <3> SUFFICES ASSUME NEW e \in Ids
                 PROVE  Letters'[e] = IF e \in S THEN [Letters[e] EXCEPT !.state = "closed"] ELSE Letters[e]
      OBVIOUS
    <3>1. rows'[e] = IF e \in S THEN [rows[e] EXCEPT !.status = "deleted"] ELSE rows[e]
      BY <1>3 DEF DeletePendingAddItems
    <3>2. Letters'[e] = [task |-> rows'[e].task, at |-> rows'[e].at,
                         state |-> IF Open(e)' THEN "open" ELSE "closed", effects |-> rows'[e].calls]
      BY <2>2 DEF Letters
    <3>3. QED
      BY <1>0, <3>1, <3>2 DEF PendingAddItem, Letters, Open, Row
  <2>4. Letters' = [e \in Ids |-> IF e \in S THEN [Letters[e] EXCEPT !.state = "closed"] ELSE Letters[e]]
    BY <2>2, <2>3 DEF Letters
  <2>5. Box!Withdraw(t)
    BY <2>1, <2>2, <2>4 DEF Box!Withdraw, Box!Posted
  <2>6. QED
    BY <2>5 DEF Box!Next
<1>4. CASE Claim
  <2>1. \A e \in Ids : /\ rows'[e].task = rows[e].task /\ rows'[e].at = rows[e].at
                       /\ rows'[e].calls = rows[e].calls /\ (Open(e)' <=> Open(e))
    BY <1>0, <1>4 DEF Claim, Eligible, Open, Row
  <2>2. QED
    BY <1>4, <2>1 DEF Claim, Letters, Open
<1>5. CASE ApplyLanded
  <2> DEFINE c == drainer.entry
  <2>1. c \in Ids /\ Box!Head(c) /\ lastRowid' = lastRowid
    BY <1>5, HeldRowIsHead DEF ApplyLanded, Inv, DrainerInv
  <2>2. \A e \in Ids : Letters'[e] = IF e = c THEN [Letters[e] EXCEPT !.effects = @ + 1] ELSE Letters[e]
    BY <1>0, <1>5, <2>1 DEF ApplyLanded, Letters, Open, Row
  <2>a. Letters = [e \in Ids |-> Letters[e]] /\ Letters' = [e \in Ids |-> Letters'[e]]
    BY <2>1 DEF Letters
  <2> HIDE DEF c
  <2>3. Letters' = [Letters EXCEPT ![c].effects = @ + 1]
    BY <2>1, <2>2, <2>a, FunctionUpdate
  <2>4. QED
    BY <2>1, <2>3 DEF Box!Next, Box!TakeEffect, Box!Posted
<1>6. CASE Resolve
  <2> DEFINE c == drainer.entry
             r == Resolved(rows[c], drainer.disp)
  <2>1. /\ c \in Ids /\ Box!Head(c) /\ lastRowid' = lastRowid /\ rows[c].status = "inflight"
        /\ drainer.disp \in {"stamped", "retry", "conflict"}
        /\ rows' = [rows EXCEPT ![c] = r]
    BY <1>6, HeldRowIsHead DEF Resolve, Inv, DrainerInv
  <2>2. r.task = rows[c].task /\ r.at = rows[c].at /\ r.calls = rows[c].calls
        /\ r.status \in {"succeeded", "failed", "pending"}
    BY <1>0, <2>1 DEF Resolved, AfterFailure, MarkSucceeded, MarkFailed, RecordRetry, Row
  <2>3. CASE r.status = "pending"
    <3>1. \A e \in Ids : Letters'[e] = Letters[e]
      BY <1>0, <2>1, <2>2, <2>3 DEF Letters, Open
    <3>2. QED
      BY <2>1, <3>1 DEF Letters
  <2>4. CASE r.status # "pending"
    <3>1. \A e \in Ids : Letters'[e] = IF e = c THEN [Letters[e] EXCEPT !.state = "closed"] ELSE Letters[e]
      BY <1>0, <2>1, <2>2, <2>4 DEF Letters, Open
    <3>a. Letters = [e \in Ids |-> Letters[e]] /\ Letters' = [e \in Ids |-> Letters'[e]]
      BY <2>1 DEF Letters
    <3> HIDE DEF c, r
    <3>2. Letters' = [Letters EXCEPT ![c].state = "closed"]
      BY <2>1, <3>1, <3>a, FunctionUpdate
    <3>3. QED
      BY <2>1, <3>2 DEF Box!Next, Box!Close, Box!Posted
  <2>5. QED
    BY <2>3, <2>4
<1>7. CASE Tick \/ RequeueOrphanedInflight
  <2>0. lastRowid' = lastRowid
    BY <1>7 DEF Tick, RequeueOrphanedInflight
  <2>1. ASSUME NEW e \in Ids
        PROVE  /\ rows'[e].task = rows[e].task /\ rows'[e].at = rows[e].at
               /\ rows'[e].calls = rows[e].calls /\ (Open(e)' <=> Open(e))
    <3>1. CASE Tick
      BY <1>0, <3>1 DEF Tick, Open, Row
    <3>2. CASE RequeueOrphanedInflight
      <4>1. rows'[e] = IF rows[e].status = "inflight"
                         THEN [rows[e] EXCEPT !.status = "pending", !.wait = 0] ELSE rows[e]
        BY <3>2 DEF RequeueOrphanedInflight, Requeued
      <4>2. QED
        BY <1>0, <4>1 DEF Open, Row
    <3>3. QED
      BY <1>7, <3>1, <3>2
  <2>2. QED
    BY <2>0, <2>1 DEF Letters
<1>8. CASE \/ \E w \in Writers, t \in Tasks, m \in Mutations : Mint(w, t, m)
           \/ ApplyNotLanded \/ StartLoops \/ DrainError \/ RequeueFails \/ Crash \/ UNCHANGED vars
  BY <1>8 DEF Mint, ApplyNotLanded, StartLoops, DrainError, RequeueFails, Crash, vars, Letters, Open
<1>9. QED
  BY <1>1, <1>2, <1>3, <1>4, <1>5, <1>6, <1>7, <1>8 DEF Next, Daemon

(* The outbox implements the per-task mailbox.                              *)
THEOREM OutboxRefinesMailbox == Spec => RefinesMailbox
<1>1. Init => Box!Init
  BY DEF Init, Box!Init, Letters, Ids
<1>2. QED
  BY <1>1, StepRefines, Invariance, PTL DEF Spec, RefinesMailbox, Box!Spec

-----------------------------------------------------------------------------
(***************************************************************************)
(* One task as the store keeps it.                                         *)
(***************************************************************************)

Lists == People \cup {<<>>}
Blank == {None}
Rows ==
  [text : Texts, who : Lists, status : Lifecycles, sync : SyncStates, prio : Options \cup Blank,
   type : IssueTypes \cup Blank, pending : BOOLEAN, repo : Repos, filing : Repos \cup Blank,
   remote : Issues \cup Blank, node : BOOLEAN, option : Options \cup Blank, seen : Nat]
Views == {b \in [Content -> Texts \cup Lists \cup Lifecycles] : b["who"] \in Lists}
Bases == {<<>>} \cup {<<b>> : b \in Views}
Steps == {"load", "promote", "pull", "graph"}
Copies ==
  [text : Texts, who : Lists, status : Lifecycles, sync : SyncStates, prio : Options \cup Blank,
   type : IssueTypes \cup Blank, pending : BOOLEAN, repo : Repos, filing : Repos \cup Blank,
   remote : Issues \cup Blank, node : BOOLEAN, option : Options \cup Blank, seen : Nat,
   base : Bases, version : Nat, polled : Options \cup Blank, step : Steps]
Sources == {"created", "local_edit", "promote", "push", "pull", "pre_pull", "link",
            "filing_repo_repair", "rollback"}
Snaps ==
  [text : Texts, who : Lists, status : Lifecycles, sync : SyncStates, prio : Options \cup Blank,
   type : IssueTypes \cup Blank, repo : Repos, filing : Repos \cup Blank, remote : Issues \cup Blank,
   recorded : BOOLEAN, source : Sources]

RowTypes ==
  /\ row \in Rows /\ history \in Seq(Snaps) /\ Len(history) > 0
  /\ copy \in [AggProcs -> {<<>>} \cup {<<t>> : t \in Copies}]
  /\ stamped \in Nat /\ stale \in BOOLEAN /\ shown \in Options \cup Blank

\* What the mirror state of t says of its content and a baseline.
Edited(t, base) ==
  /\ base # <<>>
  /\ t.text # base[1]["text"] \/ t.status # base[1]["status"] \/ ~AssigneesEqual(t.who, base[1]["who"])
Verdict(t, base) ==
  /\ t.sync \in {"synced", "dirty_remote"} => ~Edited(t, base)
  /\ t.sync = "dirty_local" => Edited(t, base)
Says(t, base, h) ==
  /\ t.sync \in {"synced", "dirty_remote"} => ~Edited(t, base)
  /\ t.sync = "dirty_local" => Edited(t, base) \/ Unsent(h)

\* What a command may save of the copy m that it changed to t.
MaySave(m, t, source) ==
  /\ ~stale /\ Says(m, m.base, history) /\ m.base = LoadLatestBaseline(history)
  /\ m.sync = "dirty_local" => m.base # <<>>
  /\ ~IsBaseline(Snapshot(t, source))
  => Says(t, m.base, history)

\* The newest baseline of a history, where it has one.
Newest(h, v) ==
  v \in DOMAIN h /\ IsBaseline(h[v]) /\ \A w \in DOMAIN h : IsBaseline(h[w]) => w <= v
HasNewest(h) == (\A v \in DOMAIN h : ~IsBaseline(h[v])) \/ \E v \in DOMAIN h : Newest(h, v)

\* A history in which a task was dirty has what it was compared with.
Compared(h) ==
  (\E v \in DOMAIN h : h[v].sync = "dirty_local") => \E v \in DOMAIN h : IsBaseline(h[v])

\* What holds of a copy, and of one that nobody has overtaken.
CopyFits(t) ==
  /\ t.version <= Len(history) /\ (t.node => t.remote # None) /\ (~stale => t.option = t.polled)
  /\ ~stale /\ t.version = Len(history) =>
       t.base = LoadLatestBaseline(history) /\ Says(t, t.base, history)

AggInv ==
  /\ RowTypes /\ EditsSurvivePolls /\ ColumnsSurviveSaves /\ HasNewest(history)
  /\ ~stale => Says(row, LoadLatestBaseline(history), history) /\ Compared(history)
  /\ \A p \in AggProcs : Held(p) => CopyFits(Mine(p))

\* The newest baseline is what a load finds.
LEMMA NewestIsLoaded ==
  ASSUME NEW h \in Seq(Snaps), HasNewest(h)
  PROVE  /\ (\A v \in DOMAIN h : ~IsBaseline(h[v])) => LoadLatestBaseline(h) = <<>>
         /\ \A v \in DOMAIN h : Newest(h, v) => LoadLatestBaseline(h) = <<View(h[v])>>
         /\ LoadLatestBaseline(h) # <<>> <=> \E v \in DOMAIN h : IsBaseline(h[v])
         /\ Unsent(h) <=> \E v \in DOMAIN h : Newest(h, v) /\ h[v].sync = "dirty_local"
<1> DEFINE V == {v \in DOMAIN h : IsBaseline(h[v])}
           m == CHOOSE v \in V : \A w \in V : w <= v
<1>1. LoadLatestBaseline(h) = IF V = {} THEN <<>> ELSE <<View(h[m])>>
  BY DEF LoadLatestBaseline
<1>2. ASSUME NEW v \in DOMAIN h, Newest(h, v)  PROVE m = v
  BY <1>2 DEF Newest
<1>3. Unsent(h) <=> \E v \in DOMAIN h : Newest(h, v) /\ h[v].sync = "dirty_local"
  BY DEF Unsent, Newest
<1>4. /\ (\A v \in DOMAIN h : ~IsBaseline(h[v])) => LoadLatestBaseline(h) = <<>>
      /\ \A v \in DOMAIN h : Newest(h, v) => LoadLatestBaseline(h) = <<View(h[v])>>
      /\ LoadLatestBaseline(h) # <<>> <=> \E v \in DOMAIN h : IsBaseline(h[v])
  BY <1>1, <1>2 DEF Newest, HasNewest
<1> QED
  BY <1>3, <1>4

\* A snapshot that is no baseline changes nothing of what a load finds.
LEMMA PlainSnapshot ==
  ASSUME NEW h \in Seq(Snaps), HasNewest(h), NEW s \in Snaps, ~IsBaseline(s)
  PROVE  /\ HasNewest(Append(h, s)) /\ Append(h, s) \in Seq(Snaps)
         /\ LoadLatestBaseline(Append(h, s)) = LoadLatestBaseline(h)
         /\ Unsent(Append(h, s)) <=> Unsent(h)
<1> DEFINE g == Append(h, s)
<1>1. g \in Seq(Snaps) /\ DOMAIN g = DOMAIN h \cup {Len(h) + 1} /\ g[Len(h) + 1] = s
      /\ \A v \in DOMAIN h : g[v] = h[v] /\ v # Len(h) + 1
  OBVIOUS
<1>2. \A v \in DOMAIN g : IsBaseline(g[v]) <=> v \in DOMAIN h /\ IsBaseline(h[v])
  BY <1>1
<1> HIDE DEF g
<1>3. \A v \in DOMAIN h : Newest(h, v) => Newest(g, v)
  BY <1>1, <1>2 DEF Newest
<1>4. HasNewest(g)
  BY <1>1, <1>2, <1>3 DEF HasNewest
<1>7. Unsent(g) <=> Unsent(h)
  BY <1>1, <1>2 DEF Unsent
<1>5. CASE \A v \in DOMAIN h : ~IsBaseline(h[v])
  <2>1. LoadLatestBaseline(h) = <<>>
    BY <1>5, NewestIsLoaded
  <2>2. LoadLatestBaseline(g) = <<>>
    BY <1>1, <1>2, <1>4, <1>5, NewestIsLoaded
  <2> QED
    BY <1>1, <1>4, <1>7, <2>1, <2>2 DEF g
<1>6. ASSUME NEW v \in DOMAIN h, Newest(h, v)
      PROVE  LoadLatestBaseline(g) = LoadLatestBaseline(h)
  <2>1. LoadLatestBaseline(h) = <<View(h[v])>>
    BY <1>6, NewestIsLoaded
  <2>2. LoadLatestBaseline(g) = <<View(g[v])>>
    BY <1>1, <1>3, <1>4, <1>6, NewestIsLoaded
  <2> QED
    BY <1>1, <2>1, <2>2
<1> QED
  BY <1>1, <1>4, <1>5, <1>6, <1>7 DEF HasNewest, g

\* One that is a baseline is what a load finds.
LEMMA BaselineSnapshot ==
  ASSUME NEW h \in Seq(Snaps), NEW s \in Snaps, IsBaseline(s)
  PROVE  /\ HasNewest(Append(h, s)) /\ Append(h, s) \in Seq(Snaps)
         /\ LoadLatestBaseline(Append(h, s)) = <<View(s)>>
         /\ Unsent(Append(h, s)) <=> s.sync = "dirty_local"
<1> DEFINE g == Append(h, s)
<1>1. g \in Seq(Snaps) /\ Len(g) \in DOMAIN g /\ g[Len(g)] = s /\ \A v \in DOMAIN g : v <= Len(g)
  OBVIOUS
<1> HIDE DEF g
<1>2. Newest(g, Len(g))
  BY <1>1 DEF Newest
<1>3. HasNewest(g)
  BY <1>1, <1>2 DEF HasNewest
<1>4. LoadLatestBaseline(g) = <<View(g[Len(g)])>>
  BY <1>1, <1>2, <1>3, NewestIsLoaded
<1>5. ASSUME NEW v \in DOMAIN g, Newest(g, v)  PROVE v = Len(g)
  BY <1>1, <1>2, <1>5 DEF Newest
<1>6. Unsent(g) <=> s.sync = "dirty_local"
  BY <1>1, <1>2, <1>3, <1>5, NewestIsLoaded
<1> QED
  BY <1>1, <1>3, <1>4, <1>6 DEF g

\* What a task and a baseline that a load finds look like.
LEMMA BaseTypes ==
  ASSUME NEW h \in Seq(Snaps), HasNewest(h)
  PROVE  LoadLatestBaseline(h) \in Bases
<1>1. CASE \A v \in DOMAIN h : ~IsBaseline(h[v])
  BY <1>1, NewestIsLoaded DEF Bases
<1>2. ASSUME NEW v \in DOMAIN h, Newest(h, v)  PROVE LoadLatestBaseline(h) \in Bases
  <2>1. LoadLatestBaseline(h) = <<View(h[v])>> /\ h[v] \in Snaps
    BY <1>2, NewestIsLoaded
  <2>2. ASSUME NEW s \in Snaps  PROVE View(s) \in Views
    BY DEF View, Views, Snaps, Content
  <2> QED
    BY <2>1, <2>2 DEF Bases
<1> QED
  BY <1>1, <1>2 DEF HasNewest

\* A list of assignees is equal to itself.
LEMMA SamePeople == \A v : AssigneesEqual(v, v)
BY DEF AssigneesEqual

\* The diff of a task against a baseline is empty when it was not edited.
LEMMA DiffFacts ==
  ASSUME NEW t, t.who \in Lists, t.base \in Bases
  PROVE  Diff(t) # {} <=> Edited(t, t.base)
<1>1. CASE t.base = <<>>
  BY <1>1 DEF Diff, Edited
<1>2. ASSUME NEW b \in Views, t.base = <<b>>  PROVE Diff(t) # {} <=> Edited(t, t.base)
  <2>1. t.base # <<>> /\ t.base[1] = b /\ b["who"] \in Lists /\ b.who = b["who"]
    BY <1>2 DEF Views
  <2>2. \A f \in Content : f \in Diff(t) <=> Differs(f, t, b)
    BY <2>1 DEF Diff
  <2>3. Differs("who", t, b) <=> ~AssigneesEqual(t.who, b["who"])
    BY <2>1 DEF Differs
  <2>4. (Differs("text", t, b) <=> t.text # b["text"]) /\ (Differs("status", t, b) <=> t.status # b["status"])
    BY DEF Differs
  <2>5. Diff(t) # {} <=> Differs("text", t, b) \/ Differs("who", t, b) \/ Differs("status", t, b)
    BY <2>2 DEF Diff, Content
  <2> QED
    BY <2>1, <2>3, <2>4, <2>5 DEF Edited
<1> QED
  BY <1>1, <1>2 DEF Bases

\* What a command on the content leaves as it was.
Kept(t, u) ==
  /\ u.base = t.base /\ u.version = t.version /\ u.polled = t.polled /\ u.option = t.option
  /\ u.node = t.node /\ u.remote = t.remote

\* Reconciling sets nothing but the mirror state.
LEMMA ReconciledShape ==
  ASSUME NEW t \in Copies
  PROVE  /\ Reconciled(t) \in Copies /\ Kept(t, Reconciled(t))
         /\ Reconciled(t).text = t.text /\ Reconciled(t).who = t.who /\ Reconciled(t).status = t.status
         /\ Reconciled(t).sync =
              IF t.sync = "synced" /\ Diff(t) # {} THEN "dirty_local"
              ELSE IF t.sync = "dirty_local" /\ t.base # <<>> /\ Diff(t) = {} THEN "synced"
              ELSE IF t.sync = "dirty_remote" /\ Diff(t) # {} THEN "conflict" ELSE t.sync
<1> DEFINE x == IF t.sync = "synced" /\ Diff(t) # {} THEN "dirty_local"
                ELSE IF t.sync = "dirty_local" /\ t.base # <<>> /\ Diff(t) = {} THEN "synced"
                ELSE IF t.sync = "dirty_remote" /\ Diff(t) # {} THEN "conflict" ELSE t.sync
           r == [t EXCEPT !.sync = x]
<1>1. t.sync \in SyncStates
  BY DEF Copies
<1>2. Reconciled(t) = r
  BY DEF Reconciled, Copies
<1>3. x \in SyncStates
  BY <1>1 DEF SyncStates
<1> HIDE DEF x
<1>4. r \in Copies /\ r.sync = x /\ r.text = t.text /\ r.status = t.status /\ r.who = t.who /\ Kept(t, r)
  BY <1>3 DEF Copies, Kept
<1> QED
  BY <1>2, <1>4 DEF x

\* It makes the mirror state what the content says.
LEMMA ReconciledFacts ==
  ASSUME NEW t \in Copies, t.sync = "dirty_local" => t.base # <<>>
  PROVE  Verdict(Reconciled(t), t.base)
<1> DEFINE r == Reconciled(t)
<1>1. t.who \in Lists /\ t.base \in Bases /\ t.sync \in SyncStates
  BY DEF Copies
<1>2. Diff(t) # {} <=> Edited(t, t.base)
  BY <1>1, DiffFacts
<1>3. Edited(t, t.base) => t.base # <<>>
  BY DEF Edited
<1>4. /\ r.text = t.text /\ r.who = t.who /\ r.status = t.status
      /\ r.sync \in {"synced", "dirty_remote"} => ~Edited(t, t.base)
      /\ r.sync = "dirty_local" => Edited(t, t.base)
  BY <1>1, <1>2, <1>3, ReconciledShape DEF SyncStates
<1> QED
  BY <1>4 DEF Verdict, Edited

\* What the row is after a whole-row save.
LEMMA UpsertFacts ==
  ASSUME row \in Rows, NEW t \in Copies
  PROVE  /\ Upsert(t) \in Rows /\ Upsert(t).seen = row.seen
         /\ Upsert(t).pending = (row.pending \/ t.type # row.type)
         /\ Upsert(t).text = t.text /\ Upsert(t).who = t.who /\ Upsert(t).status = t.status
         /\ Upsert(t).sync = t.sync /\ Upsert(t).type = t.type /\ Upsert(t).repo = t.repo
         /\ Upsert(t).filing = t.filing /\ Upsert(t).remote = t.remote /\ Upsert(t).node = t.node
         /\ Upsert(t).option = t.option
<1> DEFINE u == [text |-> t.text, who |-> t.who, status |-> t.status, sync |-> t.sync, prio |-> t.prio,
                 type |-> t.type, pending |-> row.pending \/ t.type # row.type, repo |-> t.repo,
                 filing |-> t.filing, remote |-> t.remote, node |-> t.node, option |-> t.option,
                 seen |-> row.seen]
<1>1. DOMAIN row = {"text", "who", "status", "sync", "prio", "type", "pending", "repo", "filing",
                    "remote", "node", "option", "seen"}
  BY DEF Rows
<1>2. Upsert(t) = u
  BY <1>1 DEF Upsert
<1>3. u \in Rows
  BY DEF Rows, Copies
<1> QED
  BY <1>2, <1>3

\* A process that holds a copy holds a task.
LEMMA HeldFacts ==
  ASSUME RowTypes, NEW p \in AggProcs, Held(p)
  PROVE  copy[p] = <<Mine(p)>> /\ Mine(p) \in Copies
BY DEF RowTypes, Held, Mine

\* A snapshot of a task.
LEMMA SnapshotFacts ==
  ASSUME NEW t \in Copies, NEW source \in Sources
  PROVE  Snapshot(t, source) \in Snaps
BY DEF Snapshot, Copies, Snaps

\* The newest baseline is one of the two: the last, or one saved from the copy.
LEMMA WriteFacts ==
  ASSUME AggInv, NEW p \in AggProcs, Held(p), NEW t \in Copies, NEW source \in Sources,
         WriteTask(t, source), t.version = Mine(p).version,
         MaySave(Mine(p), t, source)
  PROVE  /\ history' \in Seq(Snaps) /\ HasNewest(history') /\ Len(history') = Len(history) + 1
         /\ history'[Len(history')] = Snapshot(t, source)
         /\ ~stale' =>
              /\ Says(t, LoadLatestBaseline(history'), history') /\ Compared(history')
              /\ LoadLatestBaseline(history')
                   = IF IsBaseline(Snapshot(t, source)) THEN <<View(t)>> ELSE Mine(p).base
<1> DEFINE s == Snapshot(t, source)
           h == Append(history, s)
<1>1. s \in Snaps /\ history \in Seq(Snaps) /\ HasNewest(history)
  BY SnapshotFacts DEF AggInv, RowTypes
<1>2. history' = h /\ stale' = (stale \/ t.version # Len(history) \/ t.polled # shown)
  BY DEF WriteTask
<1>3. /\ h \in Seq(Snaps) /\ Len(h) = Len(history) + 1 /\ h[Len(h)] = s
      /\ DOMAIN h = DOMAIN history \cup {Len(h)} /\ \A v \in DOMAIN history : h[v] = history[v]
  BY <1>1
<1>4. s.sync = t.sync /\ s.text = t.text /\ s.status = t.status /\ s.who = t.who /\ View(s) = View(t)
  BY DEF Snapshot, View, Content
<1> HIDE DEF s, h
<1>5. HasNewest(h)
  BY <1>1, PlainSnapshot, BaselineSnapshot DEF h
<1>6. ASSUME ~stale'
      PROVE  /\ Says(t, LoadLatestBaseline(h), h) /\ Compared(h)
             /\ LoadLatestBaseline(h) = IF IsBaseline(s) THEN <<View(t)>> ELSE Mine(p).base
  <2>1. ~stale /\ t.version = Len(history)
    BY <1>2, <1>6
  <2>2. Says(Mine(p), Mine(p).base, history) /\ Mine(p).base = LoadLatestBaseline(history)
    BY <2>1 DEF AggInv, CopyFits
  <2>3. Unsent(history) => \E v \in DOMAIN history : IsBaseline(history[v])
    BY DEF Unsent
  <2>4. Mine(p).sync = "dirty_local" => Mine(p).base # <<>>
    BY <1>1, <2>2, <2>3, NewestIsLoaded DEF Says, Edited
  <2>5. ~IsBaseline(s) => Says(t, Mine(p).base, history)
    BY <2>1, <2>2, <2>4 DEF s, MaySave
  <2>6. Compared(history)
    BY <2>1 DEF AggInv
  <2>7. CASE IsBaseline(s)
    <3>1. LoadLatestBaseline(h) = <<View(t)>> /\ (Unsent(h) <=> t.sync = "dirty_local")
      BY <1>1, <1>4, <2>7, BaselineSnapshot DEF h
    <3>2. View(t)["text"] = t.text /\ View(t)["status"] = t.status /\ View(t)["who"] = t.who
      BY DEF View, Content
    <3>3. ~Edited(t, <<View(t)>>)
      BY <3>2, SamePeople DEF Edited
    <3>4. Compared(h)
      BY <1>3, <2>7 DEF Compared
    <3> QED
      BY <2>7, <3>1, <3>3, <3>4 DEF Says
  <2>8. CASE ~IsBaseline(s)
    <3>1. LoadLatestBaseline(h) = LoadLatestBaseline(history) /\ (Unsent(h) <=> Unsent(history))
      BY <1>1, <2>8, PlainSnapshot DEF h
    <3>2. s.sync = "dirty_local" => \E v \in DOMAIN history : IsBaseline(history[v])
      BY <1>1, <1>4, <2>2, <2>3, <2>5, <2>8, NewestIsLoaded DEF Says, Edited
    <3>3. Compared(h)
      BY <1>3, <2>6, <3>2 DEF Compared
    <3> QED
      BY <2>2, <2>5, <2>8, <3>1, <3>3 DEF Says
  <2> QED
    BY <2>7, <2>8
<1> QED
  BY <1>2, <1>3, <1>5, <1>6 DEF s

\* What a write has to bring along to leave the invariant as it was: a copy
\* that is dropped, or one that goes on from what was written.
LEMMA WriteKeeps ==
  ASSUME AggInv, NEW p \in AggProcs, Held(p), NEW t \in Copies, NEW source \in Sources,
         WriteTask(t, source), t.polled = Mine(p).polled, t.option = Mine(p).option,
         t.node => t.remote # None,
         history' \in Seq(Snaps), HasNewest(history'), Len(history') = Len(history) + 1,
         history'[Len(history')] = Snapshot(t, source),
         ~stale' => Says(t, LoadLatestBaseline(history'), history') /\ Compared(history'),
         NEW held \in {<<>>} \cup {<<c>> : c \in Copies}, copy' = [copy EXCEPT ![p] = held],
         held # <<>> =>
           /\ Kept([t EXCEPT !.version = held[1].version], held[1]) /\ held[1].version = Len(history) + 1
           /\ held[1].text = t.text /\ held[1].who = t.who /\ held[1].status = t.status
           /\ held[1].sync = t.sync
           /\ ~stale' => t.base = LoadLatestBaseline(history')
  PROVE  AggInv'
<1>1. row' = Upsert(t)
      /\ stale' = (stale \/ t.version # Len(history) \/ t.polled # shown)
      /\ stamped' = stamped /\ settled' = settled /\ shown' = shown
  BY DEF WriteTask
<1>2. RowTypes'
  BY <1>1, UpsertFacts DEF AggInv, RowTypes
<1>3. EditsSurvivePolls'
  <2>1. \A c \in Content \cup {"type", "repo", "filing", "remote"} : row'[c] = history'[Len(history')][c]
    BY <1>1, UpsertFacts DEF AggInv, RowTypes, Content, Snapshot
  <2>2. row'.sync = history'[Len(history')].sync
    BY <1>1, UpsertFacts DEF AggInv, RowTypes, Snapshot
  <2> QED
    BY <2>1, <2>2 DEF EditsSurvivePolls
<1>4. ColumnsSurviveSaves'
  <2>1. row.pending \in BOOLEAN /\ row.seen = stamped /\ (~row.pending => row.type = settled)
    BY DEF AggInv, RowTypes, Rows, ColumnsSurviveSaves
  <2>2. ~stale' => t.option = shown
    BY <1>1 DEF AggInv, RowTypes, CopyFits
  <2>3. /\ row'.seen = row.seen /\ row'.pending = (row.pending \/ t.type # row.type) /\ row'.type = t.type
        /\ row'.node = t.node /\ row'.remote = t.remote /\ row'.option = t.option
    BY <1>1, UpsertFacts DEF AggInv, RowTypes
  <2> QED
    BY <1>1, <2>1, <2>2, <2>3 DEF ColumnsSurviveSaves
<1>5. ~stale' => Says(row', LoadLatestBaseline(history'), history')
  <2>1. row'.text = t.text /\ row'.who = t.who /\ row'.status = t.status /\ row'.sync = t.sync
    BY <1>1, UpsertFacts DEF AggInv, RowTypes
  <2> QED
    BY <2>1 DEF Says, Edited
<1>6. ASSUME NEW q \in AggProcs, Held(q)', q # p  PROVE CopyFits(Mine(q))'
  <2>1. copy'[q] = copy[q]
    BY <1>6 DEF AggInv, RowTypes
  <2>2. Held(q) /\ Mine(q)' = Mine(q)
    BY <1>6, <2>1 DEF Held, Mine
  <2>3. CopyFits(Mine(q)) /\ Mine(q) \in Copies
    BY <2>2, HeldFacts DEF AggInv
  <2>4. Mine(q).version \in Nat /\ Len(history) \in Nat /\ Len(history') \in Nat
    BY <2>3 DEF Copies, AggInv, RowTypes
  <2>5. Mine(q).version <= Len(history') /\ Mine(q).version # Len(history')
    BY <2>3, <2>4 DEF CopyFits
  <2>6. ~stale' => ~stale
    BY <1>1
  <2> QED
    BY <2>2, <2>3, <2>5, <2>6 DEF CopyFits
<1>7. ASSUME Held(p)'  PROVE CopyFits(Mine(p))'
  <2>1. copy'[p] = held
    BY DEF AggInv, RowTypes
  <2>2. PICK c \in Copies : held = <<c>>
    BY <1>7, <2>1 DEF Held
  <2>3. Mine(p)' = c /\ held[1] = c /\ held # <<>>
    BY <2>1, <2>2 DEF Mine
  <2>4. /\ c.base = t.base /\ c.polled = t.polled /\ c.option = t.option /\ c.node = t.node
        /\ c.remote = t.remote
    BY <2>3 DEF Kept, Copies
  <2>5. ~stale' => t.option = t.polled
    BY <1>1 DEF AggInv, CopyFits
  <2>6. c.version = Len(history')
    BY <2>3
  <2>7. ~stale' => c.base = LoadLatestBaseline(history') /\ Says(c, c.base, history')
    BY <2>3, <2>4 DEF Says, Edited
  <2>8. Len(history') \in Nat
    OBVIOUS
  <2> QED
    BY <2>3, <2>4, <2>5, <2>6, <2>7, <2>8 DEF CopyFits
<1> QED
  BY <1>2, <1>3, <1>4, <1>5, <1>6, <1>7 DEF AggInv

\* A command that changed its copy to t saves it as it is, ...
LEMMA SaveKeeps ==
  ASSUME AggInv, NEW p \in AggProcs, Held(p), NEW t \in Copies, NEW source \in Sources,
         SaveTask(p, t, source), t.version = Mine(p).version, t.polled = Mine(p).polled,
         t.option = Mine(p).option, t.node => t.remote # None,
         MaySave(Mine(p), t, source)
  PROVE  AggInv'
<1>1. WriteTask(t, source) /\ copy' = [copy EXCEPT ![p] = <<>>]
  BY DEF SaveTask
<1> QED
  BY <1>1, WriteFacts, WriteKeeps

\* ... and may go on with it, if its baseline is the one that was left.
LEMMA SaveAndGoOnKeeps ==
  ASSUME AggInv, NEW p \in AggProcs, Held(p), NEW t \in Copies, NEW source \in Sources, NEW step \in Steps,
         SaveAndGoOn(p, t, source, step), t.version = Mine(p).version, t.polled = Mine(p).polled,
         t.option = Mine(p).option, t.node => t.remote # None,
         MaySave(Mine(p), t, source),
         t.base = IF IsBaseline(Snapshot(t, source)) THEN <<View(t)>> ELSE Mine(p).base
  PROVE  AggInv'
<1> DEFINE c == [t EXCEPT !.version = Len(history) + 1, !.step = step]
<1>1. WriteTask(t, source) /\ copy' = [copy EXCEPT ![p] = <<c>>]
  BY DEF SaveAndGoOn
<1>2. Len(history) + 1 \in Nat
  BY DEF AggInv, RowTypes
<1>3. /\ c \in Copies /\ c.version = Len(history) + 1
      /\ Kept([t EXCEPT !.version = c.version], c)
      /\ c.text = t.text /\ c.who = t.who /\ c.status = t.status /\ c.sync = t.sync
  BY <1>2 DEF Copies, Kept
<1> HIDE DEF c
<1>4. <<c>> \in {<<>>} \cup {<<d>> : d \in Copies} /\ <<c>>[1] = c
  BY <1>3
<1> QED
  BY <1>1, <1>3, <1>4, WriteFacts, WriteKeeps

-----------------------------------------------------------------------------
\* What was reconciled is dirty only if it was compared with something.
LEMMA DirtyHasBase ==
  ASSUME NEW t, NEW base, Verdict(t, base)
  PROVE  t.sync = "dirty_local" => base # <<>>
BY DEF Verdict, Edited

LEMMA UpdateMirroredKeeps ==
  ASSUME AggInv, AggregateConstants, NEW p \in AggProcs, UpdateMirrored(p)  PROVE AggInv'
<1>1. Held(p) /\ Mine(p) \in Copies
  BY HeldFacts DEF UpdateMirrored, Holds, AggInv
<1>2. PICK text \in Texts, who \in People :
        SaveTask(p, Reconciled([Reconciled([Mine(p) EXCEPT !.text = text]) EXCEPT !.who = who]), "local_edit")
  BY DEF UpdateMirrored
<1> DEFINE a == [Mine(p) EXCEPT !.text = text]
           b == Reconciled(a)
           c == [b EXCEPT !.who = who]
           d == Reconciled(c)
<1>3. a \in Copies /\ Kept(Mine(p), a) /\ a.sync = Mine(p).sync
  BY <1>1 DEF Copies, Kept
<1> HIDE DEF a
<1>4. b \in Copies /\ Kept(a, b)
  BY <1>3, ReconciledShape
<1> HIDE DEF b
<1>5. c \in Copies /\ Kept(b, c) /\ c.sync = b.sync
  BY <1>4 DEF Copies, Kept, Lists
<1> HIDE DEF c
<1>6. d \in Copies /\ Kept(c, d)
  BY <1>5, ReconciledShape
<1>7. ASSUME Mine(p).sync = "dirty_local" => Mine(p).base # <<>>
      PROVE  Says(d, Mine(p).base, history)
  <2>1. Verdict(b, Mine(p).base)
    <3>1. a.sync = "dirty_local" => a.base # <<>>
      BY <1>3, <1>7 DEF Kept
    <3>2. Verdict(b, a.base)
      BY <1>3, <3>1, ReconciledFacts DEF b
    <3> QED
      BY <1>3, <3>2 DEF Kept
  <2>2. c.sync = "dirty_local" => c.base # <<>>
    BY <1>3, <1>4, <1>5, <2>1, DirtyHasBase DEF Kept
  <2>3. Verdict(d, c.base)
    BY <1>5, <2>2, ReconciledFacts
  <2> QED
    BY <1>3, <1>4, <1>5, <2>3 DEF Kept, Verdict, Says
<1> HIDE DEF d
<1>8. SaveTask(p, d, "local_edit")
  BY <1>2 DEF a, b, c, d
<1>9. Kept(Mine(p), d)
  BY <1>3, <1>4, <1>5, <1>6 DEF Kept
<1>10. Mine(p).node => Mine(p).remote # None
  BY <1>1 DEF AggInv, CopyFits
<1>11. ~IsBaseline(Snapshot(d, "local_edit"))
  BY DEF IsBaseline, Snapshot
<1> QED
  BY <1>1, <1>6, <1>7, <1>8, <1>9, <1>10, <1>11, SaveKeeps DEF MaySave, Kept, Sources

\* A save of what no content and no mirror state knows of.
LEMMA PlainSaveKeeps ==
  ASSUME AggInv, AggregateConstants, NEW p \in AggProcs, Held(p), NEW t \in Copies, Kept(Mine(p), t),
         t.text = Mine(p).text, t.who = Mine(p).who, t.status = Mine(p).status, t.sync = Mine(p).sync,
         SaveTask(p, t, "local_edit")
  PROVE  AggInv'
<1>1. Mine(p).node => Mine(p).remote # None
  BY DEF AggInv, CopyFits
<1>2. ~IsBaseline(Snapshot(t, "local_edit"))
  BY DEF IsBaseline, Snapshot
<1>3. Says(Mine(p), Mine(p).base, history) => Says(t, Mine(p).base, history)
  BY DEF Says, Edited
<1> QED
  BY <1>1, <1>2, <1>3, SaveKeeps DEF MaySave, Kept, Sources

LEMMA UpdateLocalKeeps ==
  ASSUME AggInv, AggregateConstants, NEW p \in AggProcs, UpdateLocal(p)  PROVE AggInv'
<1>1. Held(p) /\ Mine(p) \in Copies
  BY HeldFacts DEF UpdateLocal, Holds, AggInv
<1>2. ASSUME NEW o \in Options, SaveTask(p, [Mine(p) EXCEPT !.prio = o], "local_edit")  PROVE AggInv'
  <2> DEFINE t == [Mine(p) EXCEPT !.prio = o]
  <2>1. t \in Copies /\ Kept(Mine(p), t) /\ t.text = Mine(p).text /\ t.who = Mine(p).who
        /\ t.status = Mine(p).status /\ t.sync = Mine(p).sync
    BY <1>1 DEF Copies, Kept
  <2> QED
    BY <1>1, <1>2, <2>1, PlainSaveKeeps
<1>3. ASSUME NEW y \in IssueTypes \cup {None}, SaveTask(p, [Mine(p) EXCEPT !.type = y], "local_edit")
      PROVE  AggInv'
  <2> DEFINE t == [Mine(p) EXCEPT !.type = y]
  <2>1. t \in Copies /\ Kept(Mine(p), t) /\ t.text = Mine(p).text /\ t.who = Mine(p).who
        /\ t.status = Mine(p).status /\ t.sync = Mine(p).sync
    BY <1>1 DEF Copies, Kept, Blank
  <2> QED
    BY <1>1, <1>3, <2>1, PlainSaveKeeps
<1>4. ASSUME NEW r \in Repos, SaveTask(p, [Mine(p) EXCEPT !.repo = r], "local_edit")  PROVE AggInv'
  <2> DEFINE t == [Mine(p) EXCEPT !.repo = r]
  <2>1. t \in Copies /\ Kept(Mine(p), t) /\ t.text = Mine(p).text /\ t.who = Mine(p).who
        /\ t.status = Mine(p).status /\ t.sync = Mine(p).sync
    BY <1>1 DEF Copies, Kept
  <2> QED
    BY <1>1, <1>4, <2>1, PlainSaveKeeps
<1>5. ASSUME NEW r \in Repos, SaveTask(p, [Mine(p) EXCEPT !.filing = r], "local_edit")  PROVE AggInv'
  <2> DEFINE t == [Mine(p) EXCEPT !.filing = r]
  <2>1. t \in Copies /\ Kept(Mine(p), t) /\ t.text = Mine(p).text /\ t.who = Mine(p).who
        /\ t.status = Mine(p).status /\ t.sync = Mine(p).sync
    BY <1>1 DEF Copies, Kept
  <2> QED
    BY <1>1, <1>5, <2>1, PlainSaveKeeps
<1> QED
  BY <1>2, <1>3, <1>4, <1>5 DEF UpdateLocal

LEMMA SetLifecycleKeeps ==
  ASSUME AggInv, AggregateConstants, NEW p \in AggProcs, SetLifecycle(p)  PROVE AggInv'
<1>1. Held(p) /\ Mine(p) \in Copies
  BY HeldFacts DEF SetLifecycle, Holds, AggInv
<1>2. PICK s \in Lifecycles : SaveTask(p, Reconciled([Mine(p) EXCEPT !.status = s]), "local_edit")
  BY DEF SetLifecycle
<1> DEFINE a == [Mine(p) EXCEPT !.status = s]
           t == Reconciled(a)
<1>3. a \in Copies /\ Kept(Mine(p), a) /\ a.sync = Mine(p).sync
  BY <1>1 DEF Copies, Kept
<1> HIDE DEF a
<1>4. t \in Copies /\ Kept(a, t)
  BY <1>3, ReconciledShape
<1>5. ASSUME Mine(p).sync = "dirty_local" => Mine(p).base # <<>>
      PROVE  Says(t, Mine(p).base, history)
  <2>1. a.sync = "dirty_local" => a.base # <<>>
    BY <1>3, <1>5 DEF Kept
  <2>2. Verdict(t, a.base)
    BY <1>3, <2>1, ReconciledFacts
  <2> QED
    BY <1>3, <2>2 DEF Kept, Verdict, Says
<1> HIDE DEF t
<1>6. SaveTask(p, t, "local_edit") /\ ~IsBaseline(Snapshot(t, "local_edit"))
  BY <1>2 DEF a, t, IsBaseline, Snapshot
<1>7. Mine(p).node => Mine(p).remote # None
  BY <1>1 DEF AggInv, CopyFits
<1> QED
  BY <1>1, <1>3, <1>4, <1>5, <1>6, <1>7, SaveKeeps DEF MaySave, Kept, Sources

\* Staged and conflicting tasks claim nothing of their content.
LEMMA StageForSyncKeeps ==
  ASSUME AggInv, AggregateConstants, NEW p \in AggProcs, StageForSync(p) \/ MarkConflicted(p)  PROVE AggInv'
<1>1. Held(p) /\ Mine(p) \in Copies
  BY HeldFacts DEF StageForSync, MarkConflicted, Holds, AggInv
<1>2. PICK x \in {"staged", "conflict"} : SaveTask(p, [Mine(p) EXCEPT !.sync = x], "local_edit")
  BY DEF StageForSync, MarkConflicted
<1> DEFINE t == [Mine(p) EXCEPT !.sync = x]
<1>3. t \in Copies /\ Kept(Mine(p), t) /\ t.sync = x
  BY <1>1 DEF Copies, Kept, SyncStates
<1> HIDE DEF t
<1>4. SaveTask(p, t, "local_edit") /\ ~IsBaseline(Snapshot(t, "local_edit"))
  BY <1>2 DEF t, IsBaseline, Snapshot
<1>5. Says(t, Mine(p).base, history)
  BY <1>3 DEF Says
<1>6. Mine(p).node => Mine(p).remote # None
  BY <1>1 DEF AggInv, CopyFits
<1> QED
  BY <1>1, <1>3, <1>4, <1>5, <1>6, SaveKeeps DEF MaySave, Kept, Sources

\* An aligned task is clean.
LEMMA AlignedFacts ==
  ASSUME NEW t \in Copies
  PROVE  /\ Aligned(t) \in Copies /\ Aligned(t).sync = "synced"
         /\ Aligned(t).version = t.version /\ Aligned(t).polled = t.polled
         /\ Aligned(t).option = t.option /\ Aligned(t).remote = t.remote /\ Aligned(t).node = t.node
         /\ Aligned(t).text = t.text /\ Aligned(t).who = t.who /\ Aligned(t).status = t.status
         /\ Aligned(t).base = <<View(Aligned(t))>>
<1>1. View(t) \in Views
  BY DEF View, Views, Copies, Content
<1>2. <<View(t)>> \in Bases
  BY <1>1 DEF Bases
<1>3. /\ Aligned(t) \in Copies /\ Aligned(t).sync = "synced" /\ Aligned(t).base = <<View(t)>>
      /\ Aligned(t).version = t.version /\ Aligned(t).polled = t.polled
      /\ Aligned(t).option = t.option /\ Aligned(t).remote = t.remote /\ Aligned(t).node = t.node
      /\ Aligned(t).text = t.text /\ Aligned(t).who = t.who /\ Aligned(t).status = t.status
  BY <1>2 DEF Aligned, Copies, SyncStates
<1>4. View(Aligned(t)) = View(t)
  BY <1>3 DEF View, Content
<1> QED
  BY <1>3, <1>4

LEMMA StageForPromoteKeeps ==
  ASSUME AggInv, AggregateConstants, NEW p \in AggProcs, StageForPromote(p)  PROVE AggInv'
<1>1. Held(p) /\ Mine(p) \in Copies
  BY HeldFacts DEF StageForPromote, Holds, AggInv
<1>2. PICK home \in Repos :
        SaveAndGoOn(p, [Mine(p) EXCEPT !.sync = "staged", !.filing = home], "local_edit", "promote")
  BY Zenon DEF StageForPromote
<1> DEFINE t == [Mine(p) EXCEPT !.sync = "staged", !.filing = home]
<1>3. t \in Copies /\ Kept(Mine(p), t) /\ t.sync = "staged"
  BY <1>1 DEF Copies, Kept, SyncStates
<1> HIDE DEF t
<1>4. SaveAndGoOn(p, t, "local_edit", "promote") /\ ~IsBaseline(Snapshot(t, "local_edit"))
  BY <1>2 DEF t, IsBaseline, Snapshot
<1>5. Says(t, Mine(p).base, history)
  BY <1>3 DEF Says
<1>6. Mine(p).node => Mine(p).remote # None
  BY <1>1 DEF AggInv, CopyFits
<1> QED
  BY <1>1, <1>3, <1>4, <1>5, <1>6, SaveAndGoOnKeeps DEF MaySave, Kept, Sources, Steps

LEMMA PromoteToRemoteKeeps ==
  ASSUME AggInv, AggregateConstants, NEW p \in AggProcs, PromoteToRemote(p)  PROVE AggInv'
<1>1. Held(p) /\ Mine(p) \in Copies
  BY HeldFacts DEF PromoteToRemote, Holds, AggInv
<1>2. PICK n \in Issues, type \in IssueTypes \cup {None} :
        SaveTask(p, Aligned([Mine(p) EXCEPT !.remote = n, !.node = TRUE, !.type = type]), "promote")
  BY Zenon DEF PromoteToRemote
<1> DEFINE a == [Mine(p) EXCEPT !.remote = n, !.node = TRUE, !.type = type]
           t == Aligned(a)
<1>3. /\ a \in Copies /\ a.version = Mine(p).version /\ a.polled = Mine(p).polled
      /\ a.option = Mine(p).option /\ a.remote = n
  BY <1>1 DEF Copies, Blank
<1> HIDE DEF a
<1>4. /\ t \in Copies /\ t.version = a.version /\ t.polled = a.polled /\ t.option = a.option
      /\ t.remote = a.remote
  BY <1>3, AlignedFacts
<1> HIDE DEF t
<1>5. SaveTask(p, t, "promote") /\ IsBaseline(Snapshot(t, "promote")) /\ n # None
  BY <1>2 DEF t, a, IsBaseline, Snapshot, AggregateConstants
<1> QED
  BY <1>1, <1>3, <1>4, <1>5, SaveKeeps DEF MaySave, Sources

LEMMA ConfirmPushKeeps ==
  ASSUME AggInv, AggregateConstants, NEW p \in AggProcs, ConfirmPush(p)  PROVE AggInv'
<1> DEFINE m == Mine(p)
           patch == IF m.sync = "conflict" THEN Content ELSE Diff(m)
           base == [f \in Content |-> IF f \in patch THEN m[f] ELSE m.base[1][f]]
           u == [m EXCEPT !.sync = "synced", !.base = <<base>>]
           t == Reconciled(u)
<1>1. Held(p) /\ m \in Copies
  BY HeldFacts DEF ConfirmPush, Holds, AggInv
<1>2. SaveTask(p, ConfirmFields(m, patch), "push") /\ m.base # <<>>
  BY DEF ConfirmPush, CanConfirm
<1>3. SaveTask(p, t, "push")
  BY <1>2 DEF ConfirmFields
<1> HIDE DEF m, patch
<1>4. PICK b \in Views : m.base = <<b>>
  BY <1>1, <1>2 DEF Copies, Bases
<1>5. base \in Views
  <2>1. b \in [Content -> Texts \cup Lists \cup Lifecycles] /\ b["who"] \in Lists
    BY DEF Views
  <2>2. \A f \in Content : base[f] \in Texts \cup Lists \cup Lifecycles
    BY <1>1, <1>4, <2>1 DEF Copies, Content
  <2>3. base["who"] \in Lists
    BY <1>1, <1>4, <2>1 DEF Copies, Content
  <2> QED
    BY <2>2, <2>3 DEF Views
<1>6. \A f \in Content : base[f] = IF f \in patch THEN m[f] ELSE b[f]
  BY <1>4
<1> HIDE DEF base
<1>7. /\ u \in Copies /\ u.base = <<base>> /\ u.sync = "synced"
      /\ \A f \in Content : u[f] = m[f]
      /\ u.version = m.version /\ u.polled = m.polled /\ u.option = m.option
      /\ u.node = m.node /\ u.remote = m.remote
  BY <1>1, <1>5 DEF Copies, SyncStates, Bases, Content
<1> HIDE DEF u
<1>8. Diff(u) = {}
  <2>1. SUFFICES ASSUME NEW f \in Content, Differs(f, u, base)  PROVE FALSE
    BY <1>7 DEF Diff
  <2>2. CASE f \in patch
    BY <1>6, <1>7, <2>1, <2>2 DEF Differs, AssigneesEqual, Content
  <2>3. CASE f \notin patch
    <3>1. patch = Diff(m)
      BY <2>3 DEF patch
    <3>2. ~Differs(f, m, b)
      BY <1>4, <2>3, <3>1 DEF Diff
    <3> QED
      BY <1>6, <1>7, <2>1, <2>3, <3>2 DEF Differs, Content
  <2> QED
    BY <2>2, <2>3
<1>9. t \in Copies /\ Kept(u, t) /\ t.sync = "synced"
  BY <1>7, <1>8, ReconciledShape
<1> HIDE DEF t
<1>10. m.node => m.remote # None
  BY <1>1 DEF AggInv, CopyFits, m
<1>11. IsBaseline(Snapshot(t, "push"))
  BY DEF IsBaseline, Snapshot
<1> QED
  BY <1>1, <1>3, <1>7, <1>9, <1>10, <1>11, SaveKeeps DEF MaySave, Kept, Sources, m

\* What is taken over from an issue is a task's content.
LEMMA InboundFacts ==
  ASSUME NEW t \in Copies, NEW text \in Texts, NEW who \in People, NEW closed \in BOOLEAN
  PROVE  LET u == CopyInbound(t, text, who, closed)
         IN  /\ u \in Copies /\ Kept(t, u) /\ u.sync = t.sync
<1> DEFINE status == RemoteStateToLifecycle(closed, t.status)
<1>1. t.status \in Lifecycles /\ who \in Lists
  BY DEF Copies, Lists
<1>2. status \in Lifecycles
  BY <1>1 DEF RemoteStateToLifecycle, Lifecycles
<1>3. CopyInbound(t, text, who, closed) = [t EXCEPT !.text = text, !.who = who, !.status = status]
  BY DEF CopyInbound, Copies
<1> HIDE DEF status
<1> QED
  BY <1>1, <1>2, <1>3 DEF Copies, Kept

LEMMA PrePullKeeps ==
  ASSUME AggInv, AggregateConstants, NEW p \in AggProcs, PrePull(p)  PROVE AggInv'
<1>1. Held(p) /\ Mine(p) \in Copies /\ Mine(p).remote # None
  BY HeldFacts DEF PrePull, Holds, AggInv
<1>2. PICK node \in {Mine(p).node, TRUE} : SaveAndGoOn(p, [Mine(p) EXCEPT !.node = node], "pre_pull", "pull")
  BY DEF PrePull
<1> DEFINE t == [Mine(p) EXCEPT !.node = node]
<1>3. /\ t \in Copies /\ t.version = Mine(p).version /\ t.polled = Mine(p).polled
      /\ t.option = Mine(p).option /\ t.remote = Mine(p).remote /\ t.base = Mine(p).base
      /\ t.text = Mine(p).text /\ t.who = Mine(p).who /\ t.status = Mine(p).status /\ t.sync = Mine(p).sync
  BY <1>1 DEF Copies
<1> HIDE DEF t
<1>4. SaveAndGoOn(p, t, "pre_pull", "pull") /\ ~IsBaseline(Snapshot(t, "pre_pull"))
  BY <1>2 DEF t, IsBaseline, Snapshot
<1>5. Says(Mine(p), Mine(p).base, history) => Says(t, Mine(p).base, history)
  BY <1>3 DEF Says, Edited
<1> QED
  BY <1>1, <1>3, <1>4, <1>5, SaveAndGoOnKeeps DEF MaySave, Sources, Steps

LEMMA AdoptAlignedStateKeeps ==
  ASSUME AggInv, AggregateConstants, NEW p \in AggProcs, AdoptAlignedState(p)  PROVE AggInv'
<1>1. Held(p) /\ Mine(p) \in Copies
  BY HeldFacts DEF AdoptAlignedState, Holds, AggInv
<1>2. PICK text \in Texts, who \in People, closed \in BOOLEAN :
        SaveAndGoOn(p, Aligned(CopyInbound(Mine(p), text, who, closed)), "pull", "graph")
  BY DEF AdoptAlignedState
<1> DEFINE a == CopyInbound(Mine(p), text, who, closed)
           t == Aligned(a)
<1>3. a \in Copies /\ Kept(Mine(p), a)
  BY <1>1, InboundFacts
<1> HIDE DEF a
<1>4. /\ t \in Copies /\ t.version = a.version /\ t.polled = a.polled /\ t.option = a.option
      /\ t.remote = a.remote /\ t.node = a.node /\ t.base = <<View(t)>>
  BY <1>3, AlignedFacts
<1> HIDE DEF t
<1>5. SaveAndGoOn(p, t, "pull", "graph") /\ IsBaseline(Snapshot(t, "pull"))
  BY <1>2 DEF t, a, IsBaseline, Snapshot
<1>6. Mine(p).node => Mine(p).remote # None
  BY <1>1 DEF AggInv, CopyFits
<1> QED
  BY <1>1, <1>3, <1>4, <1>5, <1>6, SaveAndGoOnKeeps DEF MaySave, Kept, Sources, Steps

LEMMA ReconcileRelationsInboundKeeps ==
  ASSUME AggInv, AggregateConstants, NEW p \in AggProcs, ReconcileRelationsInbound(p)  PROVE AggInv'
<1>1. Held(p) /\ Mine(p) \in Copies
  BY HeldFacts DEF ReconcileRelationsInbound, Holds, AggInv
<1>2. PICK learned \in BOOLEAN :
        /\ learned => Mine(p).step = "load"
        /\ SaveTask(p, [Mine(p) EXCEPT !.node = @ \/ learned], "pull")
  BY DEF ReconcileRelationsInbound
<1> DEFINE t == [Mine(p) EXCEPT !.node = @ \/ learned]
<1>3. Mine(p).node \in BOOLEAN /\ (Mine(p).node => Mine(p).remote # None)
  BY <1>1 DEF Copies, AggInv, CopyFits
<1>4. learned => Mine(p).remote # None
  BY <1>2 DEF ReconcileRelationsInbound, Holds
<1>5. /\ t \in Copies /\ t.version = Mine(p).version /\ t.polled = Mine(p).polled
      /\ t.option = Mine(p).option /\ t.remote = Mine(p).remote /\ (t.node => Mine(p).node \/ learned)
  BY <1>1, <1>3 DEF Copies
<1> HIDE DEF t
<1>6. SaveTask(p, t, "pull") /\ IsBaseline(Snapshot(t, "pull"))
  BY <1>2 DEF t, IsBaseline, Snapshot
<1> QED
  BY <1>1, <1>3, <1>4, <1>5, <1>6, SaveKeeps DEF MaySave, Sources

\* Drafts become issues, boards give items; neither is content.
LEMMA WriteBackKeeps ==
  ASSUME AggInv, AggregateConstants, NEW p \in AggProcs, WriteBackConvertedIssue(p) \/ WriteBackProjectItem(p)
  PROVE  AggInv'
<1>1. Held(p) /\ Mine(p) \in Copies
  <2>1. Held(p)
    BY Zenon DEF WriteBackConvertedIssue, WriteBackProjectItem, Holds
  <2> QED
    BY <2>1, HeldFacts DEF AggInv
<1>2. CASE WriteBackProjectItem(p)
  BY <1>1, <1>2, PlainSaveKeeps DEF WriteBackProjectItem, Kept
<1>3. ASSUME NEW n \in Issues, SaveTask(p, [Mine(p) EXCEPT !.remote = n, !.node = TRUE], "local_edit")
      PROVE  AggInv'
  <2> DEFINE t == [Mine(p) EXCEPT !.remote = n, !.node = TRUE]
  <2>1. /\ t \in Copies /\ t.version = Mine(p).version /\ t.polled = Mine(p).polled
        /\ t.option = Mine(p).option /\ t.remote = n
        /\ t.text = Mine(p).text /\ t.who = Mine(p).who /\ t.status = Mine(p).status /\ t.sync = Mine(p).sync
    BY <1>1 DEF Copies, Blank
  <2> HIDE DEF t
  <2>2. SaveTask(p, t, "local_edit") /\ n # None
    BY <1>3 DEF t, AggregateConstants
  <2>3. Says(Mine(p), Mine(p).base, history) => Says(t, Mine(p).base, history)
    BY <2>1 DEF Says, Edited
  <2> QED
    BY <1>1, <2>1, <2>2, <2>3, SaveKeeps DEF MaySave, Sources
<1> QED
  BY <1>2, <1>3, Zenon DEF WriteBackConvertedIssue

LEMMA TransferKeeps ==
  ASSUME AggInv, AggregateConstants, NEW p \in AggProcs, Transfer(p)  PROVE AggInv'
<1>1. Held(p) /\ Mine(p) \in Copies /\ Mine(p).sync = "synced"
  BY HeldFacts DEF Transfer, Holds, AggInv
<1>2. PICK n \in Issues, home \in Repos :
        SaveTask(p, [Mine(p) EXCEPT !.remote = n, !.node = TRUE, !.filing = home], "link")
  BY Zenon DEF Transfer
<1> DEFINE t == [Mine(p) EXCEPT !.remote = n, !.node = TRUE, !.filing = home]
<1>3. /\ t \in Copies /\ t.version = Mine(p).version /\ t.polled = Mine(p).polled
      /\ t.option = Mine(p).option /\ t.remote = n /\ t.sync = "synced"
  BY <1>1 DEF Copies, Blank
<1> HIDE DEF t
<1>4. SaveTask(p, t, "link") /\ IsBaseline(Snapshot(t, "link")) /\ n # None
  BY <1>2, <1>3 DEF t, IsBaseline, Snapshot, AggregateConstants
<1> QED
  BY <1>1, <1>3, <1>4, SaveKeeps DEF MaySave, Sources

LEMMA LinkToRemoteKeeps ==
  ASSUME AggInv, AggregateConstants, NEW p \in AggProcs, LinkToRemote(p)  PROVE AggInv'
<1>1. Held(p) /\ Mine(p) \in Copies
  BY HeldFacts DEF LinkToRemote, Holds, AggInv
<1>2. PICK r \in Repos, n \in Issues :
        LET t == [Mine(p) EXCEPT !.repo = r, !.remote = n]
        IN  \/ SaveTask(p, [t EXCEPT !.node = FALSE, !.sync = "conflict"], "link")
            \/ /\ Mine(p).sync = "synced" /\ Mine(p).remote # None
               /\ \E text \in Texts, who \in People, closed \in BOOLEAN :
                    SaveTask(p, [CopyInbound(t, text, who, closed) EXCEPT !.node = TRUE], "link")
  BY Zenon DEF LinkToRemote
<1> DEFINE t == [Mine(p) EXCEPT !.repo = r, !.remote = n]
<1>3. /\ t \in Copies /\ t.version = Mine(p).version /\ t.polled = Mine(p).polled
      /\ t.option = Mine(p).option /\ t.remote = n /\ t.sync = Mine(p).sync
  BY <1>1 DEF Copies, Blank
<1>4. n # None
  BY DEF AggregateConstants
<1>5. ASSUME SaveTask(p, [t EXCEPT !.node = FALSE, !.sync = "conflict"], "link")  PROVE AggInv'
  <2> HIDE DEF t
  <2> DEFINE u == [t EXCEPT !.node = FALSE, !.sync = "conflict"]
  <2>1. /\ u \in Copies /\ u.version = t.version /\ u.polled = t.polled /\ u.option = t.option
        /\ u.remote = t.remote /\ u.sync = "conflict"
    BY <1>3 DEF Copies, SyncStates
  <2> HIDE DEF u
  <2>2. SaveTask(p, u, "link") /\ ~IsBaseline(Snapshot(u, "link")) /\ Says(u, Mine(p).base, history)
    BY <1>5, <2>1 DEF u, IsBaseline, Snapshot, Says
  <2> QED
    BY <1>1, <1>3, <1>4, <2>1, <2>2, SaveKeeps DEF MaySave, Sources
<1>6. ASSUME NEW text \in Texts, NEW who \in People, NEW closed \in BOOLEAN, Mine(p).sync = "synced",
             SaveTask(p, [CopyInbound(t, text, who, closed) EXCEPT !.node = TRUE], "link")
      PROVE  AggInv'
  <2> HIDE DEF t
  <2> DEFINE v == CopyInbound(t, text, who, closed)
             u == [v EXCEPT !.node = TRUE]
  <2>1. v \in Copies /\ Kept(t, v) /\ v.sync = t.sync
    BY <1>3, InboundFacts
  <2> HIDE DEF v
  <2>2. /\ u \in Copies /\ u.version = t.version /\ u.polled = t.polled /\ u.option = t.option
        /\ u.remote = t.remote /\ u.sync = "synced"
    BY <1>3, <1>6, <2>1 DEF Copies, Kept
  <2> HIDE DEF u
  <2>3. SaveTask(p, u, "link") /\ IsBaseline(Snapshot(u, "link"))
    BY <1>6, <2>2 DEF u, v, IsBaseline, Snapshot
  <2> QED
    BY <1>1, <1>3, <1>4, <2>2, <2>3, SaveKeeps DEF MaySave, Sources
<1> QED
  BY <1>2, <1>5, <1>6

LEMMA ForceSetFilingKeeps ==
  ASSUME AggInv, AggregateConstants, NEW p \in AggProcs, ForceSetFiling(p)  PROVE AggInv'
<1>1. Held(p) /\ Mine(p) \in Copies
  BY HeldFacts DEF ForceSetFiling, Holds, AggInv
<1>2. PICK r \in Repos : SaveTask(p, [Mine(p) EXCEPT !.filing = r], "filing_repo_repair")
  BY DEF ForceSetFiling
<1> DEFINE t == [Mine(p) EXCEPT !.filing = r]
<1>3. t \in Copies /\ Kept(Mine(p), t)
  BY <1>1 DEF Copies, Kept
<1>4. Mine(p).node => Mine(p).remote # None
  BY <1>1 DEF AggInv, CopyFits
<1> HIDE DEF t
<1>5. SaveTask(p, t, "filing_repo_repair") /\ IsBaseline(Snapshot(t, "filing_repo_repair"))
  BY <1>2 DEF t, IsBaseline, Snapshot
<1> QED
  BY <1>1, <1>3, <1>4, <1>5, SaveKeeps DEF MaySave, Kept, Sources

LEMMA RollbackToKeeps ==
  ASSUME AggInv, AggregateConstants, NEW p \in AggProcs, RollbackTo(p)  PROVE AggInv'
<1> DEFINE m == Mine(p)
<1>1. Held(p) /\ m \in Copies /\ history \in Seq(Snaps) /\ HasNewest(history)
  BY HeldFacts DEF RollbackTo, Holds, AggInv, RowTypes
<1>2. PICK v \in DOMAIN history :
        LET s == SnapshotAt(v)
            t == [c \in DOMAIN m |->
                   CASE c \in Content \cup {"sync", "prio", "remote"} -> s[c]
                     [] c \in {"type", "repo"} /\ s.recorded         -> s[c]
                     [] c = "node"                                   -> FALSE
                     [] OTHER                                        -> m[c]]
        IN  SaveTask(p, Reconciled(t), "rollback")
  BY DEF RollbackTo
<1> HIDE DEF m
<1> DEFINE s == history[v]
           t == [c \in DOMAIN m |->
                   CASE c \in Content \cup {"sync", "prio", "remote"} -> s[c]
                     [] c \in {"type", "repo"} /\ s.recorded         -> s[c]
                     [] c = "node"                                   -> FALSE
                     [] OTHER                                        -> m[c]]
           u == [text |-> s.text, who |-> s.who, status |-> s.status, sync |-> s.sync, prio |-> s.prio,
                 type |-> IF s.recorded THEN s.type ELSE m.type, pending |-> m.pending,
                 repo |-> IF s.recorded THEN s.repo ELSE m.repo, filing |-> m.filing,
                 remote |-> s.remote, node |-> FALSE, option |-> m.option, seen |-> m.seen,
                 base |-> m.base, version |-> m.version, polled |-> m.polled, step |-> m.step]
<1>3. s \in Snaps
  BY <1>1
<1>4. SaveTask(p, Reconciled(t), "rollback")
  BY <1>2 DEF SnapshotAt
<1> HIDE DEF s
<1>5. t = u
  <2>1. DOMAIN m = {"text", "who", "status", "sync", "prio", "type", "pending", "repo", "filing", "remote",
                    "node", "option", "seen", "base", "version", "polled", "step"}
    BY <1>1 DEF Copies
  <2>2. DOMAIN t = DOMAIN m /\ DOMAIN u = DOMAIN m
    BY <2>1
  <2>3. s.recorded \in BOOLEAN
    BY <1>3 DEF Snaps
  <2>4. t["text"] = s.text /\ t["who"] = s.who /\ t["status"] = s.status
    BY <2>1 DEF Content
  <2>5. t["sync"] = s.sync /\ t["prio"] = s.prio /\ t["remote"] = s.remote
    BY <2>1 DEF Content
  <2>6. t["type"] = IF s.recorded THEN s.type ELSE m.type
    BY <2>1, <2>3 DEF Content
  <2>7. t["repo"] = IF s.recorded THEN s.repo ELSE m.repo
    BY <2>1, <2>3 DEF Content
  <2>8. t["node"] = FALSE /\ t["pending"] = m.pending /\ t["filing"] = m.filing
    BY <2>1 DEF Content
  <2>9. t["option"] = m.option /\ t["seen"] = m.seen /\ t["base"] = m.base
    BY <2>1 DEF Content
  <2>10. t["version"] = m.version /\ t["polled"] = m.polled /\ t["step"] = m.step
    BY <2>1 DEF Content
  <2>11. t = [c \in DOMAIN m |-> t[c]] /\ u = [c \in DOMAIN m |-> u[c]]
    BY <2>1, <2>2
  <2> HIDE DEF t
  <2>12. t["text"] = u["text"] /\ t["who"] = u["who"] /\ t["status"] = u["status"]
         /\ t["sync"] = u["sync"] /\ t["prio"] = u["prio"] /\ t["remote"] = u["remote"]
    BY <2>4, <2>5
  <2>13. t["type"] = u["type"] /\ t["repo"] = u["repo"]
    BY <2>6, <2>7
  <2>14. /\ t["node"] = u["node"] /\ t["pending"] = u["pending"] /\ t["filing"] = u["filing"]
         /\ t["option"] = u["option"] /\ t["seen"] = u["seen"] /\ t["base"] = u["base"]
         /\ t["version"] = u["version"] /\ t["polled"] = u["polled"] /\ t["step"] = u["step"]
    BY <2>8, <2>9, <2>10
  <2> HIDE DEF u
  <2>15. \A c \in DOMAIN m : t[c] = u[c]
    BY <2>1, <2>12, <2>13, <2>14
  <2> QED
    BY <2>11, <2>15
<1>6. u \in Copies /\ u.version = m.version /\ u.polled = m.polled /\ u.option = m.option
      /\ u.base = m.base /\ u.sync = s.sync /\ u.node = FALSE
  BY <1>1, <1>3 DEF Copies, Snaps
<1> HIDE DEF t, u
<1> DEFINE w == Reconciled(u)
<1>7. w \in Copies /\ Kept(u, w)
  BY <1>6, ReconciledShape
<1>8. ASSUME ~stale, m.base = LoadLatestBaseline(history)  PROVE Says(w, m.base, history)
  <2>1. u.sync = "dirty_local" => u.base # <<>>
    BY <1>1, <1>6, <1>8, NewestIsLoaded DEF s, AggInv, Compared
  <2> QED
    BY <1>6, <2>1, ReconciledFacts DEF Verdict, Says
<1>9. SaveTask(p, w, "rollback")
  BY <1>4, <1>5
<1> HIDE DEF w
<1>10. ~IsBaseline(Snapshot(w, "rollback"))
  BY DEF IsBaseline, Snapshot
<1> QED
  BY <1>1, <1>6, <1>7, <1>8, <1>9, <1>10, SaveKeeps DEF MaySave, Kept, Sources, m

LEMMA LoadTaskKeeps ==
  ASSUME AggInv, NEW p \in AggProcs, LoadTask(p)  PROVE AggInv'
<1> DEFINE l == Loaded
           b == LoadLatestBaseline(history)
           u == [text |-> row.text, who |-> row.who, status |-> row.status, sync |-> row.sync,
                 prio |-> row.prio, type |-> row.type, pending |-> row.pending, repo |-> row.repo,
                 filing |-> row.filing, remote |-> row.remote, node |-> row.node, option |-> row.option,
                 seen |-> row.seen, base |-> b, version |-> Len(history), polled |-> shown, step |-> "load"]
<1>1. copy' = [copy EXCEPT ![p] = <<l>>] /\ UNCHANGED <<row, history, stamped, settled, shown, stale>>
  BY DEF LoadTask
<1>2. row \in Rows /\ history \in Seq(Snaps) /\ shown \in Options \cup Blank /\ b \in Bases
  BY BaseTypes DEF AggInv, RowTypes
<1>3. DOMAIN row = {"text", "who", "status", "sync", "prio", "type", "pending", "repo", "filing",
                    "remote", "node", "option", "seen"}
  BY <1>2 DEF Rows
<1>4. l = u
  BY <1>3 DEF Loaded
<1>5. u \in Copies /\ u.version = Len(history) /\ u.base = b /\ u.node = row.node /\ u.remote = row.remote
      /\ u.option = row.option /\ u.polled = shown /\ u.text = row.text /\ u.who = row.who
      /\ u.status = row.status /\ u.sync = row.sync
  BY <1>2 DEF Rows, Copies, Steps
<1> HIDE DEF l, u, b
<1>6. RowTypes'
  BY <1>1, <1>4, <1>5 DEF AggInv, RowTypes
<1>7. CopyFits(u)
  <2>1. (u.node => u.remote # None) /\ (~stale => u.option = u.polled) /\ u.version <= Len(history)
    BY <1>2, <1>5 DEF AggInv, ColumnsSurviveSaves
  <2>2. ~stale => Says(u, u.base, history)
    BY <1>5 DEF AggInv, Says, Edited, b
  <2> QED
    BY <1>5, <2>1, <2>2 DEF CopyFits, b
<1>8. ASSUME NEW q \in AggProcs, Held(q)'  PROVE CopyFits(Mine(q))'
  <2>1. CASE q = p
    <3>1. Mine(q)' = u
      BY <1>1, <1>4, <2>1 DEF Mine, AggInv, RowTypes
    <3> QED
      BY <1>1, <1>7, <3>1 DEF CopyFits
  <2>2. CASE q # p
    <3>1. Held(q) /\ Mine(q)' = Mine(q)
      BY <1>1, <1>8, <2>2 DEF Held, Mine, AggInv, RowTypes
    <3>2. CopyFits(Mine(q))
      BY <3>1 DEF AggInv
    <3> QED
      BY <1>1, <3>1, <3>2 DEF CopyFits
  <2> QED
    BY <2>1, <2>2
<1> QED
  BY <1>1, <1>6, <1>8 DEF AggInv, EditsSurvivePolls, ColumnsSurviveSaves

\* Copies know nothing of what a targeted write does, unless it polls the board.
LEMMA TargetedKeeps ==
  ASSUME AggInv, UNCHANGED <<history, copy, stale>>, row' \in Rows, stamped' \in Nat,
         shown' \in Options \cup Blank,
         row'.text = row.text, row'.who = row.who, row'.status = row.status, row'.type = row.type,
         row'.repo = row.repo, row'.filing = row.filing, row'.remote = row.remote,
         row'.sync = row.sync \/ (row.sync = "synced" /\ row'.sync = "dirty_remote"),
         row'.seen = stamped', ~row'.pending => row'.type = settled', row'.node => row'.remote # None,
         ~stale => row'.option = shown'
  PROVE  AggInv'
<1>1. RowTypes'
  BY DEF AggInv, RowTypes
<1>2. EditsSurvivePolls'
  BY DEF AggInv, EditsSurvivePolls, Content
<1>3. ColumnsSurviveSaves'
  BY DEF ColumnsSurviveSaves
<1>4. Says(row, LoadLatestBaseline(history), history)
        => Says(row', LoadLatestBaseline(history), history)
  BY DEF Says, Edited
<1>5. ASSUME NEW q \in AggProcs, Held(q)'  PROVE CopyFits(Mine(q))'
  <2>1. Held(q) /\ Mine(q)' = Mine(q)
    BY <1>5 DEF Held, Mine
  <2> QED
    BY <2>1 DEF AggInv, CopyFits
<1> QED
  BY <1>1, <1>2, <1>3, <1>4, <1>5 DEF AggInv

\* One column of a row, whatever it is set to.
LEMMA OneColumn ==
  ASSUME NEW v, row \in Rows
  PROVE  /\ [c \in DOMAIN row |-> IF c \in DOMAIN [node |-> v] THEN [node |-> v][c] ELSE row[c]]
              = [row EXCEPT !.node = v]
         /\ [c \in DOMAIN row |-> IF c \in DOMAIN [pending |-> v] THEN [pending |-> v][c] ELSE row[c]]
              = [row EXCEPT !.pending = v]
BY DEF Rows

LEMMA WritesKeepRow ==
  ASSUME AggInv, AggregateConstants,
         \/ \E o \in Options : CacheProjectStatus(o) \/ ApplyPolledPriority(o)
         \/ MarkRemoteDirty \/ CacheRemoteNodeId \/ CacheSyncedAt
         \/ \E y \in IssueTypes \cup {None} : ClearIssueTypePending(y)
  PROVE  AggInv'
<1> USE DEF Targeted
<1>1. row \in Rows /\ stamped \in Nat /\ shown \in Options \cup Blank
      /\ DOMAIN row = {"text", "who", "status", "sync", "prio", "type", "pending", "repo", "filing",
                       "remote", "node", "option", "seen"}
  BY DEF AggInv, RowTypes, Rows
<1>2. /\ row.seen = stamped /\ (~row.pending => row.type = settled) /\ (row.node => row.remote # None)
      /\ ~stale => row.option = shown
  BY DEF AggInv, ColumnsSurviveSaves
<1>3. ASSUME NEW o \in Options, CacheProjectStatus(o)  PROVE AggInv'
  <2>1. row' = [row EXCEPT !.option = o]
    BY <1>1, <1>3 DEF CacheProjectStatus
  <2> QED
    BY <1>1, <1>2, <1>3, <2>1, TargetedKeeps DEF CacheProjectStatus, Rows
<1>4. ASSUME NEW o \in Options, ApplyPolledPriority(o)  PROVE AggInv'
  <2>1. row' = [row EXCEPT !.prio = o]
    BY <1>1, <1>4 DEF ApplyPolledPriority
  <2> QED
    BY <1>1, <1>2, <1>4, <2>1, TargetedKeeps DEF ApplyPolledPriority, Rows
<1>5. ASSUME MarkRemoteDirty  PROVE AggInv'
  <2>1. row' = [row EXCEPT !.sync = "dirty_remote"]
    BY <1>1, <1>5 DEF MarkRemoteDirty
  <2> QED
    BY <1>1, <1>2, <1>5, <2>1, TargetedKeeps DEF MarkRemoteDirty, Rows, SyncStates
<1>6. ASSUME CacheRemoteNodeId  PROVE AggInv'
  <2>1. row' = [row EXCEPT !.node = TRUE]
    BY <1>1, <1>6, OneColumn DEF CacheRemoteNodeId
  <2> QED
    BY <1>1, <1>2, <1>6, <2>1, TargetedKeeps DEF CacheRemoteNodeId, Rows
<1>7. ASSUME CacheSyncedAt  PROVE AggInv'
  <2>1. row' = [row EXCEPT !.seen = stamped + 1]
    BY <1>1, <1>7 DEF CacheSyncedAt
  <2> QED
    BY <1>1, <1>2, <1>7, <2>1, TargetedKeeps DEF CacheSyncedAt, Rows
<1>8. ASSUME NEW y \in IssueTypes \cup {None}, ClearIssueTypePending(y)  PROVE AggInv'
  <2>1. row' = [row EXCEPT !.pending = FALSE]
    BY <1>1, <1>8, OneColumn DEF ClearIssueTypePending
  <2>2. row.type = y /\ settled' = y /\ UNCHANGED <<history, copy, stale, stamped, shown>>
    BY <1>8 DEF ClearIssueTypePending
  <2>3. /\ row' \in Rows /\ ~row'.pending /\ row'.type = row.type
        /\ \A c \in DOMAIN row \ {"pending"} : row'[c] = row[c]
    BY <1>1, <2>1 DEF Rows
  <2> QED
    BY <1>1, <1>2, <2>2, <2>3, TargetedKeeps
<1> QED
  BY <1>3, <1>4, <1>5, <1>6, <1>7, <1>8

\* Giving up forgets the copy.
LEMMA GiveUpKeeps ==
  ASSUME AggInv, NEW p \in AggProcs, GiveUp(p)  PROVE AggInv'
<1>1. copy' = [copy EXCEPT ![p] = <<>>] /\ UNCHANGED <<row, history, stamped, settled, shown, stale>>
  BY DEF GiveUp
<1>2. RowTypes'
  BY <1>1 DEF AggInv, RowTypes
<1>3. ASSUME NEW q \in AggProcs, Held(q)'  PROVE CopyFits(Mine(q))'
  <2>1. Held(q) /\ Mine(q)' = Mine(q)
    BY <1>1, <1>3 DEF Held, Mine, AggInv, RowTypes
  <2>2. CopyFits(Mine(q))
    BY <2>1 DEF AggInv
  <2> QED
    BY <1>1, <2>1, <2>2 DEF CopyFits
<1> QED
  BY <1>1, <1>2, <1>3 DEF AggInv, EditsSurvivePolls, ColumnsSurviveSaves

LEMMA UnchangedKeeps == AggInv /\ UNCHANGED aggVars => AggInv'
<1> SUFFICES ASSUME AggInv, UNCHANGED aggVars  PROVE AggInv'
  OBVIOUS
<1>1. UNCHANGED <<row, history, copy, stamped, settled, shown, stale>>
  BY DEF aggVars
<1>2. RowTypes' /\ EditsSurvivePolls' /\ ColumnsSurviveSaves'
  BY <1>1 DEF AggInv, RowTypes, EditsSurvivePolls, ColumnsSurviveSaves
<1>3. ASSUME NEW q \in AggProcs, Held(q)'  PROVE CopyFits(Mine(q))'
  <2>1. Held(q) /\ Mine(q)' = Mine(q) /\ CopyFits(Mine(q))
    BY <1>1, <1>3 DEF Held, Mine, AggInv
  <2> QED
    BY <1>1, <2>1 DEF CopyFits
<1> QED
  BY <1>1, <1>2, <1>3 DEF AggInv

\* The one snapshot of a task that nothing was done to yet.
LEMMA FirstSnapshot ==
  ASSUME NEW s \in Snaps, s.sync \in {"local_only", "synced"}
  PROVE  /\ <<s>> \in Seq(Snaps) /\ Len(<<s>>) = 1 /\ <<s>>[1] = s /\ HasNewest(<<s>>)
         /\ Compared(<<s>>)
         /\ LoadLatestBaseline(<<s>>) = IF IsBaseline(s) THEN <<View(s)>> ELSE <<>>
<1>1. <<s>> \in Seq(Snaps) /\ Len(<<s>>) = 1 /\ <<s>>[1] = s /\ DOMAIN <<s>> = {1}
  OBVIOUS
<1>2. Compared(<<s>>)
  BY <1>1 DEF Compared
<1>3. IsBaseline(s) => Newest(<<s>>, 1)
  BY <1>1 DEF Newest
<1>4. HasNewest(<<s>>)
  BY <1>1, <1>3 DEF HasNewest
<1>5. LoadLatestBaseline(<<s>>) = IF IsBaseline(s) THEN <<View(s)>> ELSE <<>>
  BY <1>1, <1>3, <1>4, NewestIsLoaded
<1> QED
  BY <1>1, <1>2, <1>4, <1>5

\* The rows a task starts with.
LEMMA FirstRows ==
  ASSUME NEW text \in Texts, NEW who \in People, NEW closed \in BOOLEAN, NEW r \in Repos, NEW n \in Issues,
         None \notin Issues, NEW t, t = NewDraft(text, r) \/ t = ImportMirror(text, who, closed, r, n)
  PROVE  /\ t \in Rows /\ t.seen = 0 /\ t.type = None /\ t.option = None /\ (t.node => t.remote # None)
         /\ t.sync \in {"local_only", "synced"} /\ (t = NewDraft(text, r) => t.sync = "local_only")
<1> DEFINE Task(w, s, f, m, b) ==
             [text |-> text, who |-> w, status |-> "open", sync |-> s, prio |-> None, type |-> None,
              pending |-> FALSE, repo |-> r, filing |-> f, remote |-> m, node |-> b, option |-> None, seen |-> 0]
<1>1. ASSUME NEW w \in Lists, NEW s \in SyncStates, NEW f \in Repos \cup Blank, NEW m \in Issues \cup Blank,
             NEW b \in BOOLEAN
      PROVE  Task(w, s, f, m, b) \in Rows
  BY DEF Rows, Lifecycles, Blank
<1>2. NewDraft(text, r) = Task(<<>>, "local_only", None, None, FALSE)
  BY DEF NewDraft
<1>3. /\ NewDraft(text, r) \in Rows
      /\ LET d == NewDraft(text, r)
         IN  d.seen = 0 /\ d.type = None /\ d.option = None /\ ~d.node /\ d.sync = "local_only"
  <2>1. NewDraft(text, r) \in Rows
    <3>1. <<>> \in Lists /\ "local_only" \in SyncStates /\ None \in Blank
      BY DEF Lists, Blank, SyncStates
    <3> HIDE DEF Task
    <3>2. Task(<<>>, "local_only", None, None, FALSE) \in Rows
      BY <1>1, <3>1
    <3> QED
      BY <1>2, <3>2
  <2>2. LET d == NewDraft(text, r)
        IN  d.seen = 0 /\ d.type = None /\ d.option = None /\ ~d.node /\ d.sync = "local_only"
    BY DEF NewDraft
  <2> QED
    BY <2>1, <2>2
<1> HIDE DEF Task
<1> DEFINE status == IF closed THEN "completed" ELSE "open"
<1>4. status \in Lifecycles /\ who \in Lists
  BY DEF Lifecycles, Lists
<1> HIDE DEF status
<1>5. ASSUME NEW d \in Rows, NEW b \in BOOLEAN
      PROVE  LET e == [d EXCEPT !.who = who, !.status = status,
                                !.sync = "synced", !.filing = r, !.remote = n, !.node = b]
             IN  /\ e \in Rows /\ e.seen = d.seen /\ e.type = d.type /\ e.option = d.option
                 /\ e.remote = n /\ e.sync = "synced"
  BY <1>4 DEF Rows, Blank, SyncStates
<1>6. CASE t = NewDraft(text, r)
  BY <1>3, <1>6
<1>7. CASE t = ImportMirror(text, who, closed, r, n)
  <2>1. /\ t \in Rows /\ t.seen = 0 /\ t.type = None /\ t.option = None /\ t.remote = n /\ t.sync = "synced"
    <3> DEFINE e == [NewDraft(text, r) EXCEPT !.who = who, !.status = status, !.sync = "synced",
                                              !.filing = r, !.remote = n, !.node = TRUE]
    <3>1. t = e
      BY <1>7, Zenon DEF ImportMirror, status
    <3>2. e \in Rows /\ e.seen = 0 /\ e.type = None /\ e.option = None /\ e.remote = n /\ e.sync = "synced"
      BY <1>3, <1>5, Zenon
    <3> QED
      BY <3>1, <3>2
  <2>2. t # NewDraft(text, r)
    BY <1>3, <2>1
  <2> QED
    BY <2>1, <2>2
<1> QED
  BY <1>6, <1>7

LEMMA AggInvInit == ASSUME AggregateConstants, AggregateInit  PROVE AggInv
<1> PICK text \in Texts, who \in People, closed \in BOOLEAN, r \in Repos, n \in Issues :
       /\ \/ /\ row = NewDraft(text, r)
             /\ \E known \in BOOLEAN : history = <<[Snapshot(row, "created") EXCEPT !.recorded = known]>>
          \/ /\ row = ImportMirror(text, who, closed, r, n)
             /\ history = <<Snapshot(row, "pull")>>
       /\ copy = [p \in AggProcs |-> <<>>]
       /\ stamped = 0 /\ settled = None /\ shown = None /\ stale = FALSE
  BY DEF AggregateInit
<1>1. /\ row \in Rows /\ row.seen = 0 /\ row.type = None /\ row.option = None /\ (row.node => row.remote # None)
      /\ row.sync \in {"local_only", "synced"} /\ (row = NewDraft(text, r) => row.sync = "local_only")
  BY FirstRows DEF AggregateConstants
<1>2. PICK s \in Snaps :
         /\ history = <<s>>
         /\ s.text = row.text /\ s.who = row.who /\ s.status = row.status /\ s.sync = row.sync /\ s.type = row.type
         /\ s.repo = row.repo /\ s.filing = row.filing /\ s.remote = row.remote
         /\ s.source = "pull" \/ (s.source = "created" /\ s.sync = "local_only")
  <2>1. ASSUME NEW source \in Sources, NEW known \in BOOLEAN
        PROVE  LET s == [Snapshot(row, source) EXCEPT !.recorded = known]
               IN  /\ s \in Snaps /\ s.text = row.text /\ s.who = row.who /\ s.status = row.status
                   /\ s.sync = row.sync /\ s.type = row.type /\ s.repo = row.repo /\ s.filing = row.filing
                   /\ s.remote = row.remote /\ s.source = source
    BY <1>1 DEF Snapshot, Snaps, Rows
  <2>2. LET s == Snapshot(row, "pull")
        IN  /\ s \in Snaps /\ s.text = row.text /\ s.who = row.who /\ s.status = row.status
            /\ s.sync = row.sync /\ s.type = row.type /\ s.repo = row.repo /\ s.filing = row.filing
            /\ s.remote = row.remote /\ s.source = "pull"
    BY <1>1 DEF Snapshot, Snaps, Rows, Sources
  <2>3. CASE row = ImportMirror(text, who, closed, r, n) /\ history = <<Snapshot(row, "pull")>>
    <3> DEFINE s == Snapshot(row, "pull")
    <3> HIDE DEF s
    <3> QED
      BY <2>2, <2>3 DEF s
  <2>4. ASSUME row = NewDraft(text, r), NEW known \in BOOLEAN,
               history = <<[Snapshot(row, "created") EXCEPT !.recorded = known]>>
        PROVE  \E s \in Snaps :
                 /\ history = <<s>>
                 /\ s.text = row.text /\ s.who = row.who /\ s.status = row.status /\ s.sync = row.sync /\ s.type = row.type
                 /\ s.repo = row.repo /\ s.filing = row.filing /\ s.remote = row.remote
                 /\ s.source = "pull" \/ (s.source = "created" /\ s.sync = "local_only")
    <3> DEFINE s == [Snapshot(row, "created") EXCEPT !.recorded = known]
    <3>1. /\ s \in Snaps /\ s.text = row.text /\ s.who = row.who /\ s.status = row.status
          /\ s.sync = row.sync /\ s.type = row.type /\ s.repo = row.repo /\ s.filing = row.filing
          /\ s.remote = row.remote /\ s.source = "created"
      BY <2>1 DEF Sources
    <3>2. history = <<s>> /\ row.sync = "local_only"
      BY <1>1, <2>4
    <3> HIDE DEF s
    <3> QED
      BY <3>1, <3>2
  <2> QED
    BY <2>3, <2>4
<1>3. /\ history \in Seq(Snaps) /\ Len(history) = 1 /\ history[1] = s /\ HasNewest(history) /\ Compared(history)
      /\ LoadLatestBaseline(history) = IF IsBaseline(s) THEN <<View(s)>> ELSE <<>>
  BY <1>1, <1>2, FirstSnapshot
<1>4. RowTypes
  <2>1. copy \in [AggProcs -> {<<>>} \cup {<<t>> : t \in Copies}]
    OBVIOUS
  <2>2. stamped \in Nat /\ stale \in BOOLEAN /\ shown \in Options \cup Blank
    BY DEF Blank
  <2>3. Len(history) > 0
    BY <1>3
  <2> QED
    BY <1>1, <1>3, <2>1, <2>2, <2>3 DEF RowTypes
<1>5. EditsSurvivePolls
  BY <1>2, <1>3 DEF EditsSurvivePolls, Content
<1>6. ColumnsSurviveSaves
  BY <1>1 DEF ColumnsSurviveSaves
<1>7. Says(row, LoadLatestBaseline(history), history)
  <2>1. View(s)["text"] = row.text /\ View(s)["status"] = row.status /\ View(s)["who"] = row.who
    BY <1>2 DEF View, Content
  <2>2. ~Edited(row, <<View(s)>>) /\ ~Edited(row, <<>>)
    BY <2>1, SamePeople DEF Edited
  <2> QED
    BY <1>1, <1>3, <2>2 DEF Says
<1>8. \A p \in AggProcs : ~Held(p)
  BY DEF Held
<1> QED
  BY <1>3, <1>4, <1>5, <1>6, <1>7, <1>8 DEF AggInv

LEMMA AggInvStep == ASSUME AggregateConstants, AggInv, [AggregateNext]_aggVars  PROVE AggInv'
<1>1. ASSUME NEW p \in AggProcs,
             \/ LoadTask(p) \/ GiveUp(p) \/ UpdateMirrored(p) \/ UpdateLocal(p) \/ SetLifecycle(p)
             \/ StageForSync(p) \/ StageForPromote(p) \/ PromoteToRemote(p) \/ ConfirmPush(p)
             \/ PrePull(p) \/ AdoptAlignedState(p) \/ ReconcileRelationsInbound(p) \/ MarkConflicted(p)
             \/ LinkToRemote(p) \/ Transfer(p) \/ ForceSetFiling(p) \/ RollbackTo(p)
             \/ WriteBackConvertedIssue(p) \/ WriteBackProjectItem(p)
      PROVE  AggInv'
  BY <1>1, LoadTaskKeeps, GiveUpKeeps, UpdateMirroredKeeps, UpdateLocalKeeps, SetLifecycleKeeps,
     StageForSyncKeeps, StageForPromoteKeeps, PromoteToRemoteKeeps, ConfirmPushKeeps, PrePullKeeps,
     AdoptAlignedStateKeeps, ReconcileRelationsInboundKeeps, LinkToRemoteKeeps, TransferKeeps,
     ForceSetFilingKeeps, RollbackToKeeps, WriteBackKeeps
<1>2. ASSUME \/ \E o \in Options : CacheProjectStatus(o) \/ ApplyPolledPriority(o)
             \/ MarkRemoteDirty \/ CacheRemoteNodeId \/ CacheSyncedAt
             \/ \E y \in IssueTypes \cup {None} : ClearIssueTypePending(y)
      PROVE  AggInv'
  BY <1>2, WritesKeepRow
<1>3. CASE UNCHANGED aggVars
  BY <1>3, UnchangedKeeps
<1> QED
  BY <1>1, <1>2, <1>3 DEF AggregateNext

LEMMA AggInvShows == AggInv => AggregateIsSound
<1> SUFFICES ASSUME AggInv  PROVE AggregateIsSound
  OBVIOUS
<1>1. VerdictIsTrue
  BY DEF AggInv, VerdictIsTrue, Says, Edited
<1> QED
  BY <1>1 DEF AggInv, AggregateIsSound

\* The columns of a task row survive each other's writers: the newest snapshot is
\* the row, synced_at, the pending type and the node id hold however old the copy
\* that was written back, and without an outdated copy the stored mirror state is
\* what the content says against the baseline a load finds, except that a dirty task
\* may equal a baseline that the relation reconcile of a pull or the doctor's repair
\* saved before it was sent; for every number of processes, commands, polls and values
\* (task_repo.rs write_task_in_tx, task.rs reconcile_dirty_against_baseline,
\* load_latest_baseline, application-sync service.rs reconcile_relations_inbound).
THEOREM AggregateKeepsSound ==
  ASSUME AggregateConstants  PROVE AggregateSpec => []AggregateIsSound
<1>1. AggregateInit => AggInv
  BY AggInvInit
<1>2. AggInv /\ [AggregateNext]_aggVars => AggInv'
  BY AggInvStep
<1>3. AggregateSpec => []AggInv
  BY <1>1, <1>2, PTL DEF AggregateSpec
<1> QED
  BY <1>3, AggInvShows, PTL
=============================================================================
