----------------------------- MODULE MCServices -----------------------------
(***************************************************************************)
(* Four parts of rl that share no state: the worktree links with the       *)
(* daemon's tick over them, the repo registry, the daemon's process, and   *)
(* the commands that install and stop it. A behaviour belongs to one of    *)
(* them, chosen at the start; the variables of the others keep their first *)
(* values, where every property holds.                                     *)
(***************************************************************************)
EXTENDS Worktrees, DaemonRun, Registry, Units, TLC

CONSTANTS w1, w2, i1, i2, p, a, b, p1, p2

VARIABLE part

\* One instance in each workspace.
MCWsOf == [i \in {i1, i2} |-> IF i = i1 THEN w1 ELSE w2]

\* Two origins whose derived prefixes collide; one is also named like the prefix.
MCDerivedWord == [u \in {a, b} |-> "rpl"]
MCNameWord == [u \in {a, b} |-> IF u = a THEN "rpl" ELSE "nm"]

ASSUME ServicesConstants == DaemonRunConstants

-----------------------------------------------------------------------------
ServicesVars == <<part, vars, regVars, runVars, unitVars>>

\* The parts that are not chosen rest in one of their initial states.
ServicesInit ==
  /\ part \in {"worktrees", "registry", "daemon", "units"}
  /\ Init /\ (part # "worktrees" => disk = {} /\ \A k \in Keys : inst[k[1]].links[k[2]] = "none")
  /\ RegInit
  /\ RunInit /\ (part # "daemon" => row = "absent" /\ age = NoBeat)
  /\ UnitsInit /\ (part # "units" => os = "linux")

ServicesNext ==
  \/ part = "worktrees" /\ Next /\ UNCHANGED <<part, regVars, runVars, unitVars>>
  \/ part = "registry" /\ RegNext /\ UNCHANGED <<part, vars, runVars, unitVars>>
  \/ part = "daemon" /\ RunNext /\ UNCHANGED <<part, vars, regVars, unitVars>>
  \/ part = "units" /\ UnitsNext /\ UNCHANGED <<part, vars, regVars, runVars>>

\* The fairness of each part, in its behaviours: see FairSpec of Worktrees,
\* RegFairness and RunFairness.
ServicesSpec ==
  /\ ServicesInit /\ [][ServicesNext]_ServicesVars
  /\ WF_vars(part = "worktrees" /\ DaemonStep) /\ WF_vars(part = "worktrees" /\ CommandStep)
  /\ \A q \in RegProcs : /\ WF_regVars(part = "registry" /\ AttachStep(q))
                          /\ WF_regVars(part = "registry" /\ EditSaves(q))
  /\ WF_runVars(part = "daemon" /\ Launch) /\ WF_runVars(part = "daemon" /\ RunUntil)

-----------------------------------------------------------------------------
(* One property for each part of the state and one for progress, from the   *)
(* properties that the modules state.                                       *)

\* What must happen in the end: a link whose directory stays away is unlinked, an
\* attach finds a free prefix, a stop ends the process although work may hang, and
\* a panic of one task brings both back. Interchangeable values are represented
\* by one of them.
ServicesProgress ==
  /\ PrunedInTheEnd(<<i1, p>>) /\ AttachEnds(p1)
  /\ StopStops /\ PanicRestarts
=============================================================================
