------------------------------ MODULE Registry ------------------------------
(***************************************************************************)
(* What a repo is called: origins, shared by all workspaces, with their    *)
(* prefix, name and aliases; instances, one per workspace and origin; and  *)
(* the ways a command gets from a handle or from the current directory to  *)
(* an instance. Every command reads, decides and saves whole rows, so the  *)
(* steps of two commands interleave; the unique indexes of the store are   *)
(* all that keeps them apart. A handle is a word and a number, the suffix  *)
(* that breaks a tie of prefixes; 0 is no suffix.                          *)
(***************************************************************************)
EXTENDS Integers, FiniteSets

CONSTANTS RegUrls, RegWorkspaces, RegProcs,
          Words,
          DerivedWord,  \* DerivedWord[u]: derive_prefix of the name of origin u
          NameWord,     \* NameWord[u]: derive_name of canonical url u
          Suffixes,     \* numbers that users and the tie-breaking come to
          RegCommands, RegFaults

None == <<>>

ASSUME RegistryAssumption ==
  /\ DerivedWord \in [RegUrls -> Words] /\ NameWord \in [RegUrls -> Words]
  /\ Suffixes \subseteq Nat /\ 0 \in Suffixes
  /\ {RegCommands, RegFaults} \subseteq Nat

VARIABLES
  origins,   \* repo_origins, by canonical url
  instances, \* repo_instances, by workspace and canonical url: the origin's id
  hidden,    \* archived workspaces
  filing,    \* filing_repo_id of the workspaces' tasks, by workspace and logical repo
  regProc,   \* where each command is
  regSpent   \* how much of each bound is used up

regVars == <<origins, instances, hidden, filing, regProc, regSpent>>

Handle == Words \X Nat
Handles == Words \X Suffixes
Ids == {None} \cup (RegProcs \X RegUrls) \* an origin's id: who minted it, for which url
Origin == [id: Ids, prefix: Handle, name: Handle, aliases: SUBSET Handles]
Dangling == <<"gone">>           \* an origin id that no row has

NewOrigin(id, u) == [id |-> id, prefix |-> <<DerivedWord[u], 0>>, name |-> <<NameWord[u], 0>>, aliases |-> {}]
RegResting == [pc |-> "idle"]

RegInit ==
  /\ origins = [u \in RegUrls |-> NewOrigin(None, u)]
  /\ instances = [b \in RegWorkspaces \X RegUrls |-> None]
  /\ hidden = {}
  /\ filing = [b \in RegWorkspaces \X RegUrls |-> Dangling]
  /\ regProc = [p \in RegProcs |-> RegResting]
  /\ regSpent = [commands |-> 0, faults |-> 0]

RegSpend(b) ==
  /\ regSpent[b] < [commands |-> RegCommands, faults |-> RegFaults][b]
  /\ regSpent' = [regSpent EXCEPT ![b] = @ + 1]
RegAt(p, pc) == regProc[p].pc = pc
RegGoes(p, r) == regProc' = [regProc EXCEPT ![p] = r]

Known(u) == origins[u].id # None
Bound(w, u) == instances[<<w, u>>] # None

-----------------------------------------------------------------------------
(* From a handle to an instance.                                            *)

\* Archived workspaces answer only where no active one does. No result is not
\* found, several are ambiguous.
ResolveMatching(us) ==
  LET views == {b \in RegWorkspaces \X RegUrls : Bound(b[1], b[2]) /\ b[2] \in us}
      active == {b \in views : b[1] \notin hidden}
  IN IF active = {} THEN views ELSE active

ResolveByHandle(h) ==
  LET pinned == ResolveMatching({u \in RegUrls : Known(u) /\ origins[u].prefix = h})
      named == ResolveMatching({u \in RegUrls : Known(u) /\ (origins[u].name = h \/ h \in origins[u].aliases)})
  IN IF pinned # {} THEN pinned ELSE named

\* From the origin of the current directory.
Memberships(u) == {<<w, u>> : w \in {w \in RegWorkspaces \ hidden : Bound(w, u)}}

\* One membership is an answer, none or several are errors.
PickRepo(bs) == IF Cardinality(bs) = 1 THEN bs ELSE {}

\* The repo that a command without --repo works on, in the checkout of u.
ResolveRepoOrCwd(u) == PickRepo(Memberships(u))

\* What --repo or its absence may lead to: a handle, an instance id, the directory.
Resolve ==
  {ResolveByHandle(h) : h \in Handles} \cup {ResolveRepoOrCwd(u) : u \in RegUrls}
    \cup {{b} : b \in {b \in RegWorkspaces \X RegUrls : Bound(b[1], b[2])}}

-----------------------------------------------------------------------------
(* The store.                                                               *)

PrefixTaken(u, o) == \E v \in RegUrls \ {u} : Known(v) /\ origins[v].prefix = o.prefix
UrlTaken(u, o) == Known(u) /\ origins[u].id # o.id

\* Process p saves its copy and goes to next; a copy that another one read before
\* is no longer fresh.
SaveOrigin(p, next) ==
  LET u == regProc[p].url
      o == regProc[p].copy
      outdated(r) == r.pc \in {"origin", "edit"} /\ r.url = u /\ origins[u] # o
  IN /\ ~PrefixTaken(u, o) /\ ~UrlTaken(u, o)
     /\ origins' = [origins EXCEPT ![u] = o]
     /\ regProc' = [q \in RegProcs |-> IF q = p THEN next
                                      ELSE IF outdated(regProc[q]) THEN [regProc[q] EXCEPT !.fresh = FALSE]
                                      ELSE regProc[q]]

-----------------------------------------------------------------------------
(* rl repo attach.                                                          *)

\* An attach derives the prefix anew, for known origins too.
FoundRederived(p, u) ==
  IF Known(u) THEN [origins[u] EXCEPT !.prefix = <<DerivedWord[u], 0>>] ELSE NewOrigin(<<p, u>>, u)

FoundOrNew(p, u) == IF Known(u) THEN origins[u] ELSE NewOrigin(<<p, u>>, u)

Attach(p, w, u, wish) ==
  LET o == FoundOrNew(p, u)
      copy == IF wish = None THEN o ELSE [o EXCEPT !.prefix = wish]
  IN /\ RegAt(p, "idle") /\ RegSpend("commands")
     /\ RegGoes(p, [pc |-> "origin", ws |-> w, url |-> u, fresh |-> TRUE, suffix |-> 0, base |-> copy.prefix,
                    copy |-> copy, asked |-> wish # None, merged |-> Bound(w, u)])
     /\ UNCHANGED <<origins, instances, hidden, filing>>

AttachSavesOrigin(p) ==
  /\ RegAt(p, "origin")
  /\ SaveOrigin(p, [regProc[p] EXCEPT !.pc = "instance"])
  /\ UNCHANGED <<instances, hidden, filing, regSpent>>

\* The base is what the copy had before the first conflict; the number is
\* written behind it.
NextSuffix(r) ==
  [r EXCEPT !.suffix = @ + 1, !.copy = [r.copy EXCEPT !.prefix = <<r.base[1], 10 * r.base[2] + r.suffix + 1>>]]

\* repo_origins.prefix is taken: try the next suffix, or, when the user asked
\* for this prefix, give up.
AttachMeetsPrefix(p) ==
  /\ RegAt(p, "origin") /\ PrefixTaken(regProc[p].url, regProc[p].copy)
  /\ RegGoes(p, IF regProc[p].asked THEN RegResting ELSE NextSuffix(regProc[p]))
  /\ UNCHANGED <<origins, instances, hidden, filing, regSpent>>

\* Another process created the origin since it was looked for.
AttachMeetsUrl(p) ==
  /\ RegAt(p, "origin") /\ UrlTaken(regProc[p].url, regProc[p].copy)
  /\ RegGoes(p, RegResting)
  /\ UNCHANGED <<origins, instances, hidden, filing, regSpent>>

\* UNIQUE(workspace_id, canonical_url) refuses a second new instance; an
\* instance that was found and detached since is inserted again.
AttachSavesInstance(p) ==
  LET r == regProc[p]
  IN /\ RegAt(p, "instance")
     /\ instances' = IF Bound(r.ws, r.url) /\ ~r.merged THEN instances
                     ELSE [instances EXCEPT ![<<r.ws, r.url>>] = r.copy.id]
     /\ RegGoes(p, RegResting)
     /\ UNCHANGED <<origins, hidden, filing, regSpent>>

-----------------------------------------------------------------------------
(* The commands on an origin, addressed by handle or by directory.          *)

SetName(o, h) == IF h \in o.aliases THEN {} ELSE {[o EXCEPT !.name = h]}
AddAlias(o, h) == IF h = o.name THEN {} ELSE {[o EXCEPT !.aliases = @ \cup {h}]}
RemoveAlias(o, h) == IF h \in o.aliases THEN {[o EXCEPT !.aliases = @ \ {h}]} ELSE {}
SetPrefix(o, h) == {[o EXCEPT !.prefix = h]}

Edit(p, targets, h) ==
  /\ RegAt(p, "idle") /\ Cardinality(targets) = 1 /\ RegSpend("commands")
  /\ \E b \in targets :
       LET o == origins[b[2]]
           goes(os, asked) == \E new \in os : RegGoes(p, [pc |-> "edit", url |-> b[2], fresh |-> TRUE, copy |-> new, asked |-> asked])
       IN goes(SetName(o, h), FALSE) \/ goes(AddAlias(o, h), FALSE)
            \/ goes(RemoveAlias(o, h), FALSE) \/ goes(SetPrefix(o, h), TRUE)
  /\ UNCHANGED <<origins, instances, hidden, filing>>

EditSaves(p) ==
  /\ RegAt(p, "edit")
  /\ \/ SaveOrigin(p, RegResting)
     \/ PrefixTaken(regProc[p].url, regProc[p].copy) /\ RegGoes(p, RegResting) /\ UNCHANGED origins
  /\ UNCHANGED <<instances, hidden, filing, regSpent>>

\* The tasks keep their filing repo, which is the origin's.
DetachRepo(targets) ==
  /\ Cardinality(targets) = 1 /\ RegSpend("commands")
  /\ instances' = [b \in DOMAIN instances |-> IF b \in targets THEN None ELSE instances[b]]
  /\ UNCHANGED <<origins, hidden, filing, regProc>>

ArchiveOrBack(w) ==
  /\ RegSpend("commands")
  /\ hidden' = IF w \in hidden THEN hidden \ {w} ELSE hidden \cup {w}
  /\ UNCHANGED <<origins, instances, filing, regProc>>

-----------------------------------------------------------------------------
(* rl repo doctor: tasks whose filing repo is an origin that does not exist. *)

LogicalTarget(w, u) == IF Bound(w, u) THEN {instances[<<w, u>>]} ELSE {}

\* The origins that the issue is mapped to and this workspace has; several are none.
MappedTarget(w, mapped) ==
  LET rows == {instances[<<w, u>>] : u \in {u \in mapped : Bound(w, u)}}
  IN IF Cardinality(rows) = 1 THEN rows ELSE {}

DoctorTarget(w, u, mapped) ==
  IF LogicalTarget(w, u) # {} THEN LogicalTarget(w, u) ELSE MappedTarget(w, mapped)

\* mapped: the origins that remote_mappings has for the task's issue number.
Doctor(w, mapped) ==
  /\ RegSpend("commands")
  /\ filing' = [b \in DOMAIN filing |->
       LET targets == DoctorTarget(b[1], b[2], mapped)
       IN IF b[1] = w /\ filing[b] = Dangling /\ targets # {} THEN CHOOSE id \in targets : TRUE ELSE filing[b]]
  /\ UNCHANGED <<origins, instances, hidden, regProc>>

\* --target: the origin of any repo that resolves, checked to exist before the
\* first task is looked at.
DoctorForced(w, u) ==
  /\ \E targets \in Resolve : Cardinality(targets) = 1 /\ u \in {b[2] : b \in targets}
  /\ Known(u) /\ RegSpend("commands")
  /\ filing' = [b \in DOMAIN filing |-> IF b[1] = w /\ filing[b] = Dangling THEN origins[u].id ELSE filing[b]]
  /\ UNCHANGED <<origins, instances, hidden, regProc>>

-----------------------------------------------------------------------------
Killed(p) ==
  /\ ~RegAt(p, "idle") /\ RegSpend("faults")
  /\ RegGoes(p, RegResting)
  /\ UNCHANGED <<origins, instances, hidden, filing>>

AttachStep(p) == AttachSavesOrigin(p) \/ AttachMeetsPrefix(p) \/ AttachMeetsUrl(p) \/ AttachSavesInstance(p)

RegNext ==
  \/ \E p \in RegProcs, w \in RegWorkspaces, u \in RegUrls :
       Attach(p, w, u, None) \/ \E h \in Handles : Attach(p, w, u, h)
  \/ \E p \in RegProcs : AttachStep(p) \/ EditSaves(p) \/ Killed(p)
  \/ \E targets \in Resolve : DetachRepo(targets) \/ \E p \in RegProcs, h \in Handles : Edit(p, targets, h)
  \/ \E w \in RegWorkspaces : ArchiveOrBack(w) \/ (\E mapped \in SUBSET RegUrls : Doctor(w, mapped))
                                              \/ \E u \in RegUrls : DoctorForced(w, u)

RegSpec == RegInit /\ [][RegNext]_regVars

\* A process that is not killed goes on.
RegFairness == \A p \in RegProcs : WF_regVars(AttachStep(p)) /\ WF_regVars(EditSaves(p))

-----------------------------------------------------------------------------
\* The rows have their types, no two origins share a prefix, and every instance
\* refers to the origin of its own canonical url: an attach that lost the race
\* for the origin leaves no instance behind.
RegTypeOK ==
  /\ origins \in [RegUrls -> Origin]
  /\ \A u, v \in RegUrls : u # v /\ Known(u) /\ Known(v) => origins[u].prefix # origins[v].prefix
  /\ \A b \in DOMAIN instances : instances[b] # None => instances[b] = origins[b[2]].id
  /\ hidden \subseteq RegWorkspaces
  /\ filing \in [RegWorkspaces \X RegUrls -> Ids \cup {Dangling}]

\* "Prefix takes priority because it pins a single origin": a prefix whose origin
\* has an instance leads to that origin, whatever names and aliases others chose.
PrefixPins ==
  \A u \in RegUrls : Known(u) /\ (\E w \in RegWorkspaces : Bound(w, u)) =>
    \A b \in ResolveByHandle(origins[u].prefix) : b[2] = u

\* The two ways to name a repo agree: where the current directory decides the
\* instance, the origin's prefix leads to the same one.
CwdAndPrefixAgree ==
  \A u \in RegUrls : ResolveRepoOrCwd(u) # {} => ResolveByHandle(origins[u].prefix) = ResolveRepoOrCwd(u)

\* "Stable once set": a command that was not told a prefix leaves the prefix of a
\* known origin that nobody else changed since it was read, also when the
\* command is an attach that breaks ties by itself.
PrefixIsStable ==
  [][\A p \in RegProcs : \A u \in RegUrls :
       /\ ~RegAt(p, "idle") /\ regProc'[p].pc # regProc[p].pc
       /\ Known(u) /\ origins'[u].prefix # origins[u].prefix
       => regProc[p].asked \/ ~regProc[p].fresh]_regVars

\* A repair re-points a dangling task only at an origin that exists and, unless
\* the user names it, has an instance in the task's workspace; it leaves every
\* other task alone.
DoctorHeals ==
  [][\A b \in DOMAIN filing : filing'[b] # filing[b] =>
       /\ filing[b] = Dangling
       /\ \E u \in RegUrls : /\ Known(u) /\ filing'[b] = origins[u].id
                            /\ (Bound(b[1], u) \/ DoctorForced(b[1], u))]_regVars

\* Origins keep their prefixes apart, a prefix leads to its own origin although
\* names and aliases may equal it, and to the instance that the current directory
\* leads to, whatever attaches and edits race; no attach changes the prefix of an
\* origin it found, and rl repo doctor re-points dangling tasks only, at origins of
\* their own workspace (RepoBindingService).
RegistryIsSound ==
  /\ [](RegTypeOK /\ PrefixPins /\ CwdAndPrefixAgree)
  /\ PrefixIsStable /\ DoctorHeals

\* Breaking a tie of prefixes ends, however many other attaches race for the
\* same suffixes.
AttachEnds(p) == ~RegAt(p, "idle") ~> RegAt(p, "idle")
=============================================================================
