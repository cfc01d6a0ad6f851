-------------------------------- MODULE Ids --------------------------------
(***************************************************************************)
(* The ids that people type: prefix-hash, the bare hash or the UUID. Tasks *)
(* get a random hash when they are created; rows of older versions get     *)
(* hash and prefix when a process opens the database, in steps between     *)
(* which other processes open it, create tasks and change prefixes. A hash *)
(* is its length and a number, a prefix a word and the digits behind it.   *)
(***************************************************************************)
EXTENDS Integers, Sequences, SequencesExt, FiniteSets

CONSTANTS IdTasks, Legacy,        \* tasks; those of an older version
          IdOrigins, BaseWord,    \* origins; the word that derive_prefix gives
          IdProcs,
          HashesPerLength, MinHashLen, MaxHashLen, RetriesAtLength,
          IdCommands, IdFaults

ASSUME IdsAssumption ==
  /\ IsFiniteSet(IdTasks) /\ IsFiniteSet(IdOrigins)
  /\ Legacy \subseteq IdTasks /\ BaseWord \in [IdOrigins -> STRING]
  /\ {HashesPerLength, MinHashLen, MaxHashLen, RetriesAtLength, IdCommands, IdFaults} \subseteq Nat

VARIABLES hash, homeOf, prefix, \* tasks.hash, tasks.repo_id, repo_origins.prefix
          opener,               \* what each process is doing
          shown,                \* ids that were printed, with their task
          idSpent

idVars == <<hash, homeOf, prefix, opener, shown, idSpent>>

None == <<>>                    \* '' in the database
Unborn == <<0, 0>>
Hashes == (MinHashLen..MaxHashLen) \X (1..HashesPerLength)
Born(t) == hash[t] # Unborn

IdSpend(b) ==
  /\ idSpent[b] < [commands |-> IdCommands, faults |-> IdFaults][b]
  /\ idSpent' = [idSpent EXCEPT ![b] = @ + 1]

IdIdle == [pc |-> "idle", rows |-> <<>>, suffix |-> 0, length |-> MinHashLen, tries |-> 0]

IdsInit ==
  /\ hash = [t \in IdTasks |-> IF t \in Legacy THEN None ELSE Unborn]
  /\ homeOf \in [IdTasks -> {CHOOSE o \in IdOrigins : TRUE, "nowhere"}]
  /\ prefix = [o \in IdOrigins |-> None]
  /\ opener = [p \in IdProcs |-> IdIdle]
  /\ shown = {} /\ idSpent = [commands |-> 0, faults |-> 0]

Goes(p, changes) == opener' = [opener EXCEPT ![p] = [f \in DOMAIN IdIdle |->
                                 IF f \in DOMAIN changes THEN changes[f] ELSE @[f]]]

-----------------------------------------------------------------------------
(* Opening the database: the backfills. Each lists its rows first.          *)

OpenDb(p) ==
  /\ opener[p].pc = "idle" /\ IdSpend("commands")
  /\ \E rows \in SetToSeqs({o \in IdOrigins : prefix[o] = None}) :
       Goes(p, [pc |-> "prefixes", rows |-> rows])
  /\ UNCHANGED <<hash, homeOf, prefix, shown>>

PrefixTaken(o, q) == \E u \in IdOrigins \ {o} : prefix[u] = q
HashTaken(t, h) == \E u \in IdTasks \ {t} : hash[u] = h

Candidate(o, suffix) == <<BaseWord[o], IF suffix = 0 THEN <<>> ELSE <<suffix>>>>

BackfillPrefix(p) ==
  /\ opener[p].pc = "prefixes" /\ opener[p].rows # <<>>
  /\ LET o == Head(opener[p].rows)
         q == Candidate(o, opener[p].suffix)
         next == [rows |-> Tail(opener[p].rows), suffix |-> 0]
     IN \/ prefix[o] # None /\ Goes(p, next) /\ UNCHANGED prefix
        \/ /\ prefix[o] = None /\ PrefixTaken(o, q)
           /\ Goes(p, [suffix |-> opener[p].suffix + 1]) /\ UNCHANGED prefix
        \/ /\ prefix[o] = None /\ ~PrefixTaken(o, q)
           /\ Goes(p, next) /\ prefix' = [prefix EXCEPT ![o] = q]
  /\ UNCHANGED <<hash, homeOf, shown, idSpent>>

ListTasks(p) ==
  /\ opener[p].pc = "prefixes" /\ opener[p].rows = <<>>
  /\ \E rows \in SetToSeqs({t \in IdTasks : hash[t] = None}) :
       Goes(p, [pc |-> "hashes", rows |-> rows, length |-> MinHashLen, tries |-> 0])
  /\ UNCHANGED <<hash, homeOf, prefix, shown, idSpent>>

\* After enough collisions at a length the next one is longer.
Grown(p) ==
  LET tries == opener[p].tries + 1 IN
  IF tries < RetriesAtLength THEN Goes(p, [tries |-> tries])
  ELSE IF opener[p].length < MaxHashLen THEN Goes(p, [tries |-> 0, length |-> opener[p].length + 1])
  ELSE Goes(p, IdIdle)

\* The update asks for the row by its id alone.
StillEmptyById(t) == TRUE

\* ... AND hash = ''.
StillEmpty(t) == hash[t] = None

BackfillHash(p, h) ==
  /\ opener[p].pc = "hashes" /\ opener[p].rows # <<>> /\ h[1] = opener[p].length
  /\ LET t == Head(opener[p].rows)
         next == [rows |-> Tail(opener[p].rows), length |-> MinHashLen, tries |-> 0]
     IN \/ ~StillEmpty(t) /\ Goes(p, next) /\ UNCHANGED hash
        \/ StillEmpty(t) /\ HashTaken(t, h) /\ Grown(p) /\ UNCHANGED hash
        \/ StillEmpty(t) /\ ~HashTaken(t, h) /\ Goes(p, next) /\ hash' = [hash EXCEPT ![t] = h]
  /\ UNCHANGED <<homeOf, prefix, shown, idSpent>>

OpenEnds(p) ==
  /\ opener[p].pc = "hashes" /\ opener[p].rows = <<>>
  /\ Goes(p, [pc |-> "open"])
  /\ UNCHANGED <<hash, homeOf, prefix, shown, idSpent>>

IdKill(p) ==
  /\ opener[p].pc # "idle" /\ IdSpend("faults")
  /\ Goes(p, IdIdle)
  /\ UNCHANGED <<hash, homeOf, prefix, shown>>

-----------------------------------------------------------------------------
(* What a process that has opened the database may do.                      *)

CreateTask(p, t) ==
  /\ opener[p].pc = "open" /\ hash[t] = Unborn
  /\ \A q \in IdProcs : opener[q].pc = "mint" => opener[q].rows # <<t>>
  /\ Goes(p, [pc |-> "mint", rows |-> <<t>>, length |-> MinHashLen, tries |-> 0])
  /\ UNCHANGED <<hash, homeOf, prefix, shown, idSpent>>

SaveWithMintedHash(p, h) ==
  LET t == Head(opener[p].rows) IN
  /\ opener[p].pc = "mint" /\ h[1] = opener[p].length
  /\ IF HashTaken(t, h) THEN Grown(p) /\ UNCHANGED hash
     ELSE Goes(p, IdIdle) /\ hash' = [hash EXCEPT ![t] = h]
  /\ UNCHANGED <<homeOf, prefix, shown, idSpent>>

SetPrefix(p, o, q) ==
  /\ opener[p].pc = "open" /\ ~PrefixTaken(o, q)
  /\ prefix' = [prefix EXCEPT ![o] = q]
  /\ Goes(p, IdIdle)
  /\ UNCHANGED <<hash, homeOf, shown, idSpent>>

UpdateTaskRepo(p, t, o) ==
  /\ opener[p].pc = "open" /\ Born(t)
  /\ homeOf' = [homeOf EXCEPT ![t] = o]
  /\ Goes(p, IdIdle)
  /\ UNCHANGED <<hash, prefix, shown, idSpent>>

-----------------------------------------------------------------------------
(* Printing and reading an id: kind, prefix, rest.                          *)

PrefixFor(t) == IF homeOf[t] = "nowhere" THEN None ELSE prefix[homeOf[t]]

AssembleTaskDisplayId(t) ==
  IF hash[t] = None THEN [uuid |-> t]
  ELSE [prefix |-> PrefixFor(t), hash |-> hash[t]]

\* The same word with more digits behind it.
IsSupersededPrefix(input, base) ==
  /\ base # None /\ input[1] = base[1]
  /\ Len(input[2]) > Len(base[2]) /\ IsPrefix(base[2], input[2])

IsValidHash(h) == h[1] \in MinHashLen..MaxHashLen

\* The tasks an id leads to: one, or none for an error.
ResolveTask(id) ==
  IF "uuid" \in DOMAIN id THEN {id.uuid}
  ELSE {t \in IdTasks :
          /\ IsValidHash(id.hash) /\ hash[t] = id.hash
          /\ id.prefix \in {None, PrefixFor(t)} \/ IsSupersededPrefix(id.prefix, PrefixFor(t))}

Show(p, t) ==
  /\ opener[p].pc = "open" /\ Born(t)
  /\ shown' = shown \cup {<<AssembleTaskDisplayId(t), t>>}
  /\ Goes(p, IdIdle)
  /\ UNCHANGED <<hash, homeOf, prefix, idSpent>>

IdsNext ==
  \E p \in IdProcs :
    \/ OpenDb(p) \/ BackfillPrefix(p) \/ ListTasks(p) \/ OpenEnds(p) \/ IdKill(p)
    \/ \E h \in Hashes : BackfillHash(p, h) \/ SaveWithMintedHash(p, h)
    \/ \E t \in IdTasks : CreateTask(p, t) \/ Show(p, t) \/ \E o \in IdOrigins : UpdateTaskRepo(p, t, o)
    \/ \E o \in IdOrigins, u \in IdOrigins, n \in 0..1 : SetPrefix(p, o, Candidate(u, n))

IdsSpec == IdsInit /\ [][IdsNext]_idVars

-----------------------------------------------------------------------------
\* No two rows share a hash or a prefix, and a process that has opened the
\* database finds every row it has to show filled.
IdsTypeOK ==
  /\ \A t \in IdTasks : hash[t] \in Hashes \cup {None, Unborn}
  /\ \A t, u \in IdTasks : t # u /\ hash[t] \in Hashes => hash[t] # hash[u]
  /\ \A o, u \in IdOrigins : o # u /\ prefix[o] # None => prefix[o] # prefix[u]
  /\ (\E p \in IdProcs : opener[p].pc = "open") =>
       /\ \A t \in IdTasks : hash[t] # None
       /\ \A o \in IdOrigins : prefix[o] # None

\* The id that a task is shown by leads to that task, and an id that was ever
\* printed never leads to another one, whatever prefix and repo changed since
\* (assemble_task_display_id, resolve_task).
ShownIsOwn ==
  /\ \A t \in IdTasks : Born(t) => ResolveTask(AssembleTaskDisplayId(t)) = {t}
  /\ \A s \in shown : ResolveTask(s[1]) \subseteq {s[2]}

\* A hash is minted once: no backfill that was slower gives a task a second one.
HashIsKept == [][\A t \in IdTasks : hash[t] \in Hashes => hash'[t] = hash[t]]_idVars

\* Ids stay apart, a printed id leads to its task or nowhere, and a hash is minted
\* once although several processes open an old database (the backfills, create,
\* resolve_task).
IdsAreSound == [](IdsTypeOK /\ ShownIsOwn) /\ HashIsKept
=============================================================================
