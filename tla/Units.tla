------------------------------- MODULE Units -------------------------------
(***************************************************************************)
(* rl daemon install, uninstall, start and stop on the three platforms.    *)
(* Each is a list of calls of launchctl, systemctl or schtasks, between    *)
(* which the service manager acts by itself, calls fail and the command    *)
(* may be killed. The managers are external: what is modelled of them is   *)
(* what the commands and the templates of the unit files rely on.          *)
(***************************************************************************)
EXTENDS Sequences, Naturals

CONSTANTS Manifests,    \* what install may render: paths of the binary and the log
          UnitCommands, UnitFaults

ASSUME UnitsAssumption == {UnitCommands, UnitFaults} \subseteq Nat /\ "none" \notin Manifests

VARIABLES os,   \* the platform
          unit, \* the manifest on disk, and what the manager has of it
          ctl,  \* the command under way: the calls that are left
          last, \* how the last command ended
          unitSpent

unitVars == <<os, unit, ctl, last, unitSpent>>

Verbs == {"install", "uninstall", "start", "stop"}
Contents == Manifests \cup {"none"}

\* file: the manifest; reg: what the manager has loaded or registered; enabled:
\* its persistent bit; up: systemd has the unit started; live: what the running
\* process was started from; stray: that was in the middle of a stop or uninstall.
UnitsInit ==
  /\ os \in {"linux", "macos", "windows"}
  /\ unit = [file |-> "none", reg |-> "none", enabled |-> FALSE, up |-> FALSE, live |-> "none", stray |-> FALSE]
  /\ ctl = [verb |-> "none", calls |-> <<>>, manifest |-> "none", hurt |-> FALSE]
  /\ last = [verb |-> "none", ok |-> TRUE, hurt |-> FALSE]
  /\ unitSpent = [commands |-> 0, faults |-> 0]

UnitSpend(b) ==
  /\ unitSpent[b] < [commands |-> UnitCommands, faults |-> UnitFaults][b]
  /\ unitSpent' = [unitSpent EXCEPT ![b] = @ + 1]

-----------------------------------------------------------------------------
(* The calls of each command.                                               *)

LinuxInstall == <<"write", "daemon-reload", "enable-now">>
LinuxUninstall == <<"disable-now", "remove", "daemon-reload">>
LinuxStart == <<"enable-now">>
LinuxStop == <<"disable-now">>

MacosInstall == <<"write", "bootout", "enable", "bootstrap">>
MacosUninstall == <<"bootout", "remove">>
MacosStart == <<"print", "enable", "bootstrap">>
MacosStop == <<"disable", "bootout">>

RunUnlessAlreadyRunning == <<"query", "run">>
WindowsInstall == <<"write", "create">> \o RunUnlessAlreadyRunning
WindowsUninstall == <<"end", "delete", "remove">>
WindowsStart == <<"change-enable">> \o RunUnlessAlreadyRunning
WindowsStop == <<"end", "change-disable">>

\* bootstrap comes before enable.
DispatchBootstrapsFirst(platform, verb) ==
  CASE platform = "linux"   -> [install |-> LinuxInstall, uninstall |-> LinuxUninstall,
                                start |-> LinuxStart, stop |-> LinuxStop][verb]
    [] platform = "macos"   -> [install |-> <<"write", "bootout", "bootstrap", "enable">>,
                                uninstall |-> MacosUninstall, start |-> MacosStart, stop |-> MacosStop][verb]
    [] platform = "windows" -> [install |-> WindowsInstall, uninstall |-> WindowsUninstall,
                                start |-> WindowsStart, stop |-> WindowsStop][verb]

Dispatch(platform, verb) ==
  CASE platform = "linux"   -> [install |-> LinuxInstall, uninstall |-> LinuxUninstall,
                                start |-> LinuxStart, stop |-> LinuxStop][verb]
    [] platform = "macos"   -> [install |-> MacosInstall, uninstall |-> MacosUninstall,
                                start |-> MacosStart, stop |-> MacosStop][verb]
    [] platform = "windows" -> [install |-> WindowsInstall, uninstall |-> WindowsUninstall,
                                start |-> WindowsStart, stop |-> WindowsStop][verb]

-----------------------------------------------------------------------------
(* The managers: what a call does, and whether it finds its unit.           *)

Does(u) == [unit |-> u, out |-> "success"]
Fails(u, out) == [unit |-> u, out |-> out]
Started(u) == IF u.live = "none" THEN u.file ELSE u.live

Systemctl(u, call) ==
  IF call = "daemon-reload" THEN Does([u EXCEPT !.reg = u.file])
  ELSE IF u.file = "none" THEN Fails(u, "missing")
  ELSE CASE call = "enable-now"  -> Does([u EXCEPT !.reg = u.file, !.enabled = TRUE, !.up = TRUE, !.live = Started(u)])
         [] call = "disable-now" -> Does([u EXCEPT !.reg = u.file, !.enabled = FALSE, !.up = FALSE, !.live = "none"])

\* A disabled label cannot be bootstrapped, and a loaded one not again.
Launchctl(u, call) ==
  CASE call = "enable"  -> Does([u EXCEPT !.enabled = TRUE])
    [] call = "disable" -> Does([u EXCEPT !.enabled = FALSE])
    [] call = "bootstrap" ->
         IF u.file = "none" \/ ~u.enabled \/ u.reg # "none" THEN Fails(u, "missing")    \* exit 5
         ELSE Does([u EXCEPT !.reg = u.file, !.live = u.file])
    [] call = "print"   -> IF u.reg = "none" THEN Fails(u, "missing") ELSE Does(u)
    [] call = "bootout" -> IF u.reg = "none" THEN Fails(u, "missing") ELSE Does([u EXCEPT !.reg = "none", !.live = "none"])

\* A registration replaces and enables; deleting or disabling it leaves the
\* running instance alone, and a start beside one is rejected (IgnoreNew).
Schtasks(u, call) ==
  IF call = "create" THEN Does([u EXCEPT !.reg = u.file, !.enabled = TRUE])
  ELSE IF u.reg = "none" THEN Fails(u, "missing")
  ELSE CASE call \in {"query", "query-ended"} -> Does(u)
         [] call = "run"    -> IF ~u.enabled \/ u.live # "none" THEN Fails(u, "failed") ELSE Does([u EXCEPT !.live = u.reg, !.stray = FALSE])
         [] call = "end"    -> IF u.live = "none" THEN Fails(u, "failed") ELSE Does([u EXCEPT !.live = "none"])
         [] call = "delete" -> Does([u EXCEPT !.reg = "none"])
         [] call = "change-enable"  -> Does([u EXCEPT !.enabled = TRUE])
         [] call = "change-disable" -> Does([u EXCEPT !.enabled = FALSE])

Managed(u, call) ==
  CASE os = "linux" -> Systemctl(u, call)
    [] os = "macos" -> Launchctl(u, call)
    [] os = "windows" -> Schtasks(u, call)

\* The manager keeps a started unit up (Restart=always, KeepAlive, the repetition).
Keeps(u) ==
  CASE os = "linux" -> u.up
    [] os = "macos" -> u.reg # "none"
    [] os = "windows" -> u.reg # "none" /\ u.enabled

-----------------------------------------------------------------------------
(* The commands.                                                            *)

CtlIdle == ctl.verb = "none"

BeginCommand(verb, m) ==
  /\ CtlIdle /\ UnitSpend("commands")
  /\ ctl' = [verb |-> verb, calls |-> Dispatch(os, verb), manifest |-> m, hurt |-> FALSE]
  /\ UNCHANGED <<os, unit, last>>

Ends(ok, hurt) ==
  /\ last' = [verb |-> ctl.verb, ok |-> ok, hurt |-> hurt]
  /\ ctl' = [verb |-> "none", calls |-> <<>>, manifest |-> "none", hurt |-> FALSE]

GoesOn(rest) ==
  IF rest = <<>> THEN Ends(TRUE, ctl.hurt)
  ELSE ctl' = [ctl EXCEPT !.calls = rest] /\ UNCHANGED last

\* NotFound is no error where nothing to stop is as good as stopped.
Tolerated == {"disable-now", "bootout", "disable", "end", "delete", "change-disable", "print", "query", "query-ended"}
RequireSuccess(call, out) == out = "success" \/ (out = "missing" /\ call \in Tolerated)

WriteIfChanged == [unit EXCEPT !.file = ctl.manifest]

CallManifest(call, rest) ==
  \/ /\ call = "write" /\ unit' = WriteIfChanged /\ GoesOn(rest)
  \/ /\ call = "remove"
     /\ unit' = [unit EXCEPT !.file = "none"]
     /\ GoesOn(IF unit.file = "none" THEN <<>> ELSE rest)

IsRunning == unit.reg # "none" /\ unit.live # "none"

\* end_task looks again when /End failed: an idle task is as good as ended.
CallManager(call, rest) ==
  LET answer == Managed(unit, call) IN
  /\ call \notin {"write", "remove"}
  /\ unit' = answer.unit
  /\ CASE call = "print" /\ answer.out = "success" -> GoesOn(<<"enable">>)
       [] call = "query" /\ IsRunning              -> GoesOn(<<>>)
       [] call = "query-ended" /\ IsRunning        -> Ends(FALSE, ctl.hurt)
       [] call = "end" /\ answer.out = "failed"    -> GoesOn(<<"query-ended">> \o rest)
       [] OTHER -> IF RequireSuccess(call, answer.out) THEN GoesOn(rest) ELSE Ends(FALSE, ctl.hurt)

ControlStep ==
  /\ ~CtlIdle
  /\ \E call \in {Head(ctl.calls)}, rest \in {Tail(ctl.calls)} :
       CallManifest(call, rest) \/ CallManager(call, rest)
  /\ UNCHANGED <<os, unitSpent>>

\* A call that fails ends the command, and so does a kill. Once the unit file is gone
\* a reload that systemctl refuses does no harm to the uninstall.
CommandFails ==
  /\ ~CtlIdle /\ UnitSpend("faults")
  /\ \/ Ends(FALSE, TRUE)
     \/ ctl.verb = "uninstall" /\ ctl.calls = <<"daemon-reload">> /\ Ends(TRUE, ctl.hurt)
  /\ UNCHANGED <<os, unit>>

-----------------------------------------------------------------------------
(* What happens without a command.                                          *)

\* The manager starts what it keeps. On Windows this may fall into a command.
ManagerStarts ==
  /\ Keeps(unit) /\ unit.live = "none"
  /\ unit' = [unit EXCEPT !.live = unit.reg, !.stray = ctl.verb \in {"stop", "uninstall"}]
  /\ ctl' = [ctl EXCEPT !.hurt = ~CtlIdle]
  /\ UNCHANGED <<os, last, unitSpent>>

DaemonDies ==
  /\ unit.live # "none" /\ UnitSpend("faults")
  /\ unit' = [unit EXCEPT !.live = "none"]
  /\ UNCHANGED <<os, ctl, last>>

\* A logout ends the session with its commands; the login brings up what is enabled.
Login ==
  /\ CtlIdle /\ UnitSpend("faults")
  /\ LET wanted == unit.enabled /\ (IF os = "windows" THEN unit.reg # "none" ELSE unit.file # "none")
     IN unit' = [unit EXCEPT !.live = "none", !.up = os = "linux" /\ wanted,
                             !.reg = IF os = "windows" THEN @ ELSE IF wanted THEN unit.file ELSE "none"]
  /\ UNCHANGED <<os, ctl, last>>

UnitsNext ==
  \/ \E m \in Manifests : BeginCommand("install", m)
  \/ \E verb \in Verbs \ {"install"} : BeginCommand(verb, "none")
  \/ ControlStep \/ CommandFails
  \/ ManagerStarts \/ DaemonDies \/ Login

UnitsSpec == UnitsInit /\ [][UnitsNext]_unitVars

-----------------------------------------------------------------------------
\* rl daemon status: an active unit, a label that launchctl knows, a running task.
LinuxStatus == unit.up
MacosStatus == unit.reg # "none"
WindowsStatus == IsRunning
DaemonLoaded == [linux |-> LinuxStatus, macos |-> MacosStatus, windows |-> WindowsStatus][os]

UnitsTypeOK ==
  /\ {unit.file, unit.reg, unit.live} \subseteq Contents
  /\ ctl.verb \in Verbs \cup {"none"} /\ (CtlIdle <=> ctl.calls = <<>>)
  /\ os = "macos" /\ unit.reg = "none" => unit.live = "none"

\* A stop or an uninstall that reports success has stopped the daemon for good:
\* no process, nothing that would start one, also after the next login. Except
\* on Windows, where the repetition may start it between /End and the next call;
\* after an uninstall no later command finds that process.
StopMeansDown ==
  CtlIdle /\ last.verb \in {"stop", "uninstall"} /\ last.ok =>
    /\ ~Keeps(unit)
    /\ (os = "windows" /\ unit.stray) \/ (unit.live = "none" /\ ~DaemonLoaded)

\* An install repairs whatever killed and failed commands left, a disabled unit
\* included: no state makes it fail, and afterwards the manager has the manifest
\* on disk and keeps the daemon up. A stop and an uninstall never fail either.
InstallRepairs ==
  /\ last.verb \in {"install", "stop", "uninstall"} /\ ~last.ok => last.hurt
  /\ CtlIdle /\ last.verb = "install" /\ last.ok => Keeps(unit) /\ unit.file = unit.reg /\ unit.enabled

\* A stop or uninstall that reports success has stopped the daemon for good, and an
\* install repairs whatever failed commands left (the daemon commands of app-cli).
ControlIsSound == UnitsTypeOK /\ StopMeansDown /\ InstallRepairs
=============================================================================
