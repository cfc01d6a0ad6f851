------------------------------- MODULE Files -------------------------------
(***************************************************************************)
(* The files that rl keeps beside the store: the GitHub token with the     *)
(* login cached beside it, the cache of the pinned embedding model, and,   *)
(* in LogTail, the daemon's log. They share no state.                      *)
(***************************************************************************)
EXTENDS LogTail, FiniteSets

CONSTANTS Tokens, LoginOf, TokenProcs, TokenCommands,
          Artifacts,      \* how many files the manifest pins
          Preparers, Loaders, CacheCommands, CacheFaults

ASSUME TokenFileAssumption ==
  /\ Tokens # {} /\ DOMAIN LoginOf = Tokens /\ TokenCommands \in Nat
  /\ \A t \in Tokens : {t, LoginOf[t]} \cap {"none", ""} = {}

ASSUME ModelCacheAssumption ==
  /\ Artifacts \in Nat \ {0} /\ CacheCommands \in Nat /\ CacheFaults \in Nat
  /\ "free" \notin Loaders

VARIABLES platform, env, file, run, tokenSpent, overlapped, meddled, replaced,
          cache, staged, worker, hook, probing, tampered, cacheSpent

tokenVars == <<platform, env, file, run, tokenSpent, overlapped, meddled, replaced>>
cacheVars == <<cache, staged, worker, hook, probing, tampered, cacheSpent>>

-----------------------------------------------------------------------------
(***************************************************************************)
(* rl gh auth writes the token and the login, every other command reads    *)
(* them, on unix with a mode and on Windows with an owner and a DACL.      *)
(*   file:  exists, mode, owner, dacl, and its first two lines             *)
(*   env:   the variables of the environment, "" when blank                *)
(*   run:   each process' command; alone says that no other writer, and    *)
(*          nobody outside rl, touched the file during it and since        *)
(* Tokens have one length, so a body written over another one replaces its *)
(* lines. "none" is a missing value. An access control entry is            *)
(* <<type, sid>>.                                                          *)
(***************************************************************************)
Present(s) == s \notin {"none", ""}

(* Reading.                                                                 *)

\* The first entry that may give someone else access: a deny entry takes access
\* away, and one that is not a plain allow cannot be told.
ForeignAces(dacl) ==
  {i \in DOMAIN dacl.aces : dacl.aces[i][1] # "deny" /\ dacl.aces[i] # <<"allow", "me">>}
ForeignPrincipal(f) ==
  IF f.owner # "me" THEN "owner"
  ELSE IF ~f.dacl.present \/ ForeignAces(f.dacl) # {} THEN "grantee"
  ELSE "nobody"

SecureMode(f) == f.mode = "0600"
EnforceSecurePermissions(f) ==
  IF platform = "unix" THEN SecureMode(f) ELSE ForeignPrincipal(f) = "nobody"

\* A missing file is empty, an unsafe one an error.
ReadTokenFileContents(f) ==
  CASE ~f.exists -> [ok |-> TRUE, token |-> "none", login |-> "none"]
    [] f.exists /\ ~EnforceSecurePermissions(f) -> [ok |-> FALSE, token |-> "none", login |-> "none"]
    [] OTHER -> [ok |-> TRUE, token |-> IF Present(f.lines[1]) THEN f.lines[1] ELSE "none",
                 login |-> IF Present(f.lines[2]) THEN f.lines[2] ELSE "none"]

\* A blank variable falls through to the next source.
FromEnv(e) == IF Present(e.own) THEN e.own ELSE IF Present(e.github) THEN e.github ELSE "none"
ResolveGithubToken(e, f) ==
  IF FromEnv(e) # "none" THEN [ok |-> TRUE, value |-> FromEnv(e)]
  ELSE [ok |-> ReadTokenFileContents(f).ok, value |-> ReadTokenFileContents(f).token]
ResolveGithubLogin(e, f) ==
  IF Present(e.login) THEN [ok |-> TRUE, value |-> e.login]
  ELSE [ok |-> ReadTokenFileContents(f).ok, value |-> ReadTokenFileContents(f).login]

(* Writing.                                                                 *)

Inherited == [present |-> TRUE, aces |-> <<<<"allow", "me">>, <<"allow", "system">>>>]

\* create(true).truncate(true): the mode and the DACL are set at creation only.
CreateTruncated(f) ==
  IF f.exists THEN [f EXCEPT !.lines = <<"none", "none">>]
  ELSE [exists |-> TRUE, mode |-> "0600", owner |-> "me", dacl |-> Inherited, lines |-> <<"none", "none">>]

\* A body without a login is one line, and what follows it stays.
RenderTokenFileBody(f, token, login) ==
  [f EXCEPT !.lines = <<token, IF login = "none" THEN @[2] ELSE login>>]

\* apply_security: the owner and one entry, protected from inheritance.
RestrictTokenFile(f) ==
  [f EXCEPT !.owner = "me", !.dacl = [present |-> TRUE, aces |-> <<<<"allow", "me">>>>]]

SetPermissions(f) == [f EXCEPT !.mode = "0600"]

\* --token, what gh auth token prints, or the prompt.
AuthToken(flag, gh, prompt) == IF flag # "none" THEN flag ELSE IF gh # "none" THEN gh ELSE prompt

Descriptors ==
  {[mode |-> m, owner |-> "me", dacl |-> Inherited] : m \in {"0600", "0644"}}
  \cup {[mode |-> "0600", owner |-> o, dacl |-> [present |-> p, aces |-> <<a, <<"allow", "me">>>>]] :
          o \in {"me", "admin"}, p \in BOOLEAN, a \in {<<"deny", "guest">>, <<"object", "me">>}}

TokenIdle == [pc |-> "idle", token |-> "none", login |-> "none", alone |-> TRUE]

SomeToken == CHOOSE t \in Tokens : TRUE

TokenFileInit ==
  /\ platform \in {"unix", "windows"}
  /\ env \in {[own |-> "", github |-> g, login |-> ""] : g \in {"none", SomeToken}}
  /\ \E e \in BOOLEAN, d \in Descriptors :
       file = [exists |-> e, mode |-> d.mode, owner |-> d.owner, dacl |-> d.dacl,
               lines |-> IF e THEN <<SomeToken, "none">> ELSE <<"none", "none">>]
  /\ run = [c \in TokenProcs |-> TokenIdle]
  /\ tokenSpent = 0 /\ overlapped = FALSE /\ meddled = FALSE /\ replaced = FALSE

Writing == {c \in TokenProcs : run[c].pc \in {"open", "write", "chmod", "create", "restrict", "reopen"}}

\* c goes on; a write of the file ends the undisturbed time of the others.
Go(c, next) ==
  /\ run' = [run EXCEPT ![c] = next]
  /\ UNCHANGED <<platform, env, file, tokenSpent, overlapped, meddled, replaced>>
Touch(c, f, next) ==
  /\ file' = f
  /\ run' = [d \in TokenProcs |-> IF d = c THEN next ELSE [run[d] EXCEPT !.alone = FALSE]]
  /\ overlapped' = (overlapped \/ Writing \ {c} # {})
  /\ replaced' = TRUE
  /\ UNCHANGED <<platform, env, tokenSpent, meddled>>

Begin(c, next) ==
  /\ run[c].pc \in {"idle", "done", "read"} /\ tokenSpent < TokenCommands /\ tokenSpent' = tokenSpent + 1
  /\ run' = [run EXCEPT ![c] = next]
  /\ UNCHANGED <<platform, env, file, overlapped, meddled, replaced>>

\* rl gh auth: an existing file is replaced only by consent, and a blank token is
\* refused; the login is fetched with the new token, if it can be.
GhAuth(c) ==
  \E flag, gh \in Tokens \cup {"none"}, prompt \in Tokens \cup {""} :
    /\ AuthToken(flag, gh, prompt) # ""
    /\ Begin(c, [TokenIdle EXCEPT !.pc = "login", !.token = AuthToken(flag, gh, prompt)])
CurrentUserLogin(c) ==
  /\ run[c].pc = "login"
  /\ \E l \in {LoginOf[run[c].token], "none"} :
       Go(c, [run[c] EXCEPT !.pc = IF platform = "unix" THEN "open" ELSE "create", !.login = l])

\* write_token_file on unix.
OpenFile(c) == run[c].pc = "open" /\ Touch(c, CreateTruncated(file), [run[c] EXCEPT !.pc = "write"])
WriteBody(c) ==
  /\ run[c].pc = "write"
  /\ Touch(c, RenderTokenFileBody(file, run[c].token, run[c].login),
           [run[c] EXCEPT !.pc = IF platform = "unix" THEN "chmod" ELSE "done"])
Chmod(c) == run[c].pc = "chmod" /\ Touch(c, SetPermissions(file), [run[c] EXCEPT !.pc = "done"])

\* write_token_file elsewhere: the token comes last.
CreateFile(c) == run[c].pc = "create" /\ Touch(c, CreateTruncated(file), [run[c] EXCEPT !.pc = "restrict"])
RestrictFile(c) == run[c].pc = "restrict" /\ Touch(c, RestrictTokenFile(file), [run[c] EXCEPT !.pc = "reopen"])
Reopen(c) == run[c].pc = "reopen" /\ Touch(c, CreateTruncated(file), [run[c] EXCEPT !.pc = "write"])

\* A call fails, or the process is killed: what was done to the file stays.
Abort(c) == run[c].pc \notin {"idle", "done", "read"} /\ Go(c, TokenIdle)

\* rl task claim: the login, and then the token, each from a file of its own time.
Claim(c) ==
  LET got == ResolveGithubLogin(env, file)
  IN got.ok /\ got.value # "none" /\ Begin(c, [TokenIdle EXCEPT !.pc = "claim", !.login = got.value])
RequireGithubToken(c) ==
  /\ run[c].pc = "claim"
  /\ LET got == ResolveGithubToken(env, file)
     IN IF got.ok /\ got.value # "none" THEN Go(c, [run[c] EXCEPT !.pc = "read", !.token = got.value])
        ELSE Go(c, TokenIdle)

\* Someone loosens the file, or removes it.
Meddle ==
  /\ ~meddled /\ meddled' = TRUE /\ file.exists
  /\ file' \in {[file EXCEPT !.mode = "0644", !.dacl = Inherited],
                [file EXCEPT !.exists = FALSE, !.lines = <<"none", "none">>]}
  /\ run' = [d \in TokenProcs |-> [run[d] EXCEPT !.alone = FALSE]]
  /\ UNCHANGED <<platform, env, tokenSpent, overlapped, replaced>>

TokenFileNext ==
  \/ Meddle
  \/ \E c \in TokenProcs :
       \/ GhAuth(c) \/ CurrentUserLogin(c) \/ OpenFile(c) \/ WriteBody(c) \/ Chmod(c)
       \/ CreateFile(c) \/ RestrictFile(c) \/ Reopen(c) \/ Abort(c) \/ Claim(c) \/ RequireGithubToken(c)

TokenFileSpec == TokenFileInit /\ [][TokenFileNext]_tokenVars

\* An rl gh auth that ends undisturbed leaves a file that every later command
\* accepts, with its token and its login, whatever file it found.
AuthTakes ==
  \A c \in TokenProcs :
    run[c].pc = "done" /\ run[c].alone =>
      ReadTokenFileContents(file) = [ok |-> TRUE, token |-> run[c].token, login |-> run[c].login]

\* On Windows a token that rl wrote is at no time in a file that others may read,
\* although a new file inherits their entries and an old one keeps them.
NeverExposed ==
  platform = "windows" /\ replaced /\ ~meddled /\ file.lines[1] # "none" =>
    ForeignPrincipal(file) = "nobody"

\* The login a claim assigns belongs to the token it uses, unless the environment
\* gave one of them, two auths wrote at once, or one wrote between its two reads.
LoginFitsToken ==
  \A c \in TokenProcs :
    run[c].pc = "read" /\ run[c].alone /\ ~overlapped /\ FromEnv(env) = "none" /\ ~Present(env.login) =>
      run[c].login = LoginOf[run[c].token]

-----------------------------------------------------------------------------
(***************************************************************************)
(* prepare-model installs the model, searches and rebuilds verify and load *)
(* it.                                                                     *)
(*   cache:   whether the profile's directory exists, and its artifacts    *)
(*   staged:  the temporary directory of each prepare-model                *)
(*   worker:  each command: pc, the artifact it is at, what it loaded      *)
(*   hook:    the panic hook of the process, probing the lock around it    *)
(* An artifact is "good" when it has the pinned digest.                    *)
(***************************************************************************)
Workers == Preparers \cup Loaders
Empty == [i \in 1..Artifacts |-> "absent"]

VerifyArtifact(content) == content = "good"
VerifyCached(c) == c.exists /\ \A i \in 1..Artifacts : VerifyArtifact(c.files[i])

ModelCacheInit ==
  /\ cache = [exists |-> FALSE, files |-> Empty]
  /\ staged = [w \in Preparers |-> Empty]
  /\ worker = [w \in Workers |-> [pc |-> "idle", at |-> 1, got |-> Empty, saved |-> "own"]]
  /\ hook = "own" /\ probing = "free" /\ tampered = FALSE
  /\ cacheSpent = [commands |-> 0, faults |-> 0]

CacheStep(w, pc) == worker' = [worker EXCEPT ![w].pc = pc]
CacheSpend(what) ==
  /\ cacheSpent[what] < (IF what = "commands" THEN CacheCommands ELSE CacheFaults)
  /\ cacheSpent' = [cacheSpent EXCEPT ![what] = @ + 1]
Ready(w) == worker[w].pc \in {"idle", "prepared", "failed", "loaded", "none"}

\* An existing cache is verified and never touched, not even to repair it.
PrepareModel(w) ==
  /\ Ready(w) /\ CacheSpend("commands")
  /\ staged' = [staged EXCEPT ![w] = Empty]
  /\ worker' = [worker EXCEPT ![w].at = 1,
                  ![w].pc = IF ~cache.exists THEN "fetch" ELSE IF VerifyCached(cache) THEN "prepared" ELSE "failed"]
  /\ UNCHANGED <<cache, hook, probing, tampered>>

\* Fetched, verified, copied and verified again.
FetchArtifact(w) ==
  /\ worker[w].pc = "fetch" /\ worker[w].at <= Artifacts
  /\ staged' = [staged EXCEPT ![w][worker[w].at] = "good"]
  /\ worker' = [worker EXCEPT ![w].at = @ + 1]
  /\ UNCHANGED <<cache, hook, probing, tampered, cacheSpent>>

\* A download, a digest or a copy fails: the directory is removed.
FetchFails(w) ==
  /\ worker[w].pc = "fetch" /\ worker[w].at <= Artifacts /\ CacheSpend("faults")
  /\ staged' = [staged EXCEPT ![w] = Empty]
  /\ CacheStep(w, "failed")
  /\ UNCHANGED <<cache, hook, probing, tampered>>

\* The directory moves into place as a whole, unless another one is there.
InstallsEarly(w) == worker[w].at >= Artifacts
Installs(w) == worker[w].at > Artifacts
Install(w) ==
  /\ worker[w].pc = "fetch" /\ Installs(w)
  /\ cache' = IF cache.exists THEN cache ELSE [exists |-> TRUE, files |-> staged[w]]
  /\ staged' = [staged EXCEPT ![w] = Empty]
  /\ CacheStep(w, IF cache.exists THEN "failed" ELSE "prepared")
  /\ UNCHANGED <<hook, probing, tampered, cacheSpent>>

\* The process is killed: its directory stays, under a name no other run takes.
PrepareDies(w) ==
  /\ worker[w].pc = "fetch" /\ CacheSpend("faults") /\ CacheStep(w, "idle")
  /\ UNCHANGED <<cache, staged, hook, probing, tampered>>

\* maybe_build_embedder: digests first, then the device, then the weights.
MaybeBuildEmbedder(w) ==
  /\ Ready(w) /\ CacheSpend("commands")
  /\ CacheStep(w, IF VerifyCached(cache) THEN "probe" ELSE "none")
  /\ UNCHANGED <<cache, staged, hook, probing, tampered>>

\* probe_device: the hook of the process is taken, silenced, and put back after the
\* probe, whether it found a device, failed or panicked, all under one lock.
LockFree == probing = "free"
TakeHook(w) ==
  /\ worker[w].pc = "probe" /\ LockFree
  /\ probing' = w
  /\ worker' = [worker EXCEPT ![w].pc = "probing", ![w].saved = hook]
  /\ hook' = "silent"
  /\ UNCHANGED <<cache, staged, tampered, cacheSpent>>
RestoreHook(w) ==
  /\ worker[w].pc = "probing"
  /\ hook' = worker[w].saved
  /\ probing' = "free"
  /\ CacheStep(w, "load")
  /\ UNCHANGED <<cache, staged, tampered, cacheSpent>>

\* load: a model that does not fit its profile is no model.
Load(w) ==
  /\ worker[w].pc = "load"
  /\ worker' = [worker EXCEPT ![w].got = cache.files, ![w].pc = "loaded"]
  /\ UNCHANGED <<cache, staged, hook, probing, tampered, cacheSpent>>
LoadFails(w) ==
  /\ worker[w].pc = "load" /\ CacheSpend("faults") /\ CacheStep(w, "none")
  /\ UNCHANGED <<cache, staged, hook, probing, tampered>>

\* Somebody outside rl damages or removes a file.
Tamper ==
  /\ cache.exists /\ ~tampered /\ tampered' = TRUE
  /\ \E i \in 1..Artifacts, c \in {"bad", "absent"} : cache' = [cache EXCEPT !.files[i] = c]
  /\ UNCHANGED <<staged, worker, hook, probing, cacheSpent>>

ModelCacheNext ==
  \/ Tamper
  \/ \E w \in Preparers : PrepareModel(w) \/ FetchArtifact(w) \/ FetchFails(w) \/ Install(w) \/ PrepareDies(w)
  \/ \E w \in Loaders : MaybeBuildEmbedder(w) \/ TakeHook(w) \/ RestoreHook(w) \/ Load(w) \/ LoadFails(w)

ModelCacheSpec == ModelCacheInit /\ [][ModelCacheNext]_cacheVars

\* Several prepares, failed and killed ones among them, leave the cache absent or
\* whole: what one reports as prepared, and what a search loads after its check,
\* has every artifact as pinned unless somebody outside changed it.
CacheIsWhole ==
  ~tampered =>
    /\ cache.exists => VerifyCached(cache)
    /\ \A w \in Workers : /\ worker[w].pc = "prepared" => VerifyCached(cache)
                          /\ worker[w].pc = "loaded" => \A i \in 1..Artifacts : worker[w].got[i] = "good"

\* Once no probe runs, a panic is reported again.
HookIsBack == (\A w \in Loaders : worker[w].pc # "probing") => hook = "own"

-----------------------------------------------------------------------------
(* The files: an auth that reports success is in effect, the token is never *)
(* readable by others where the code promises it, a login belongs to its    *)
(* token; a model cache that exists is whole, and the panic hook comes      *)
(* back; rl daemon logs --follow prints every line once and in order across *)
(* rotations (save_token, restrict_token_file, prepare_model, probe,        *)
(* print_logs).                                                             *)
FilesAreSound ==
  /\ AuthTakes /\ NeverExposed /\ LoginFitsToken
  /\ CacheIsWhole /\ HookIsBack
  /\ FollowPrintsAll
=============================================================================
