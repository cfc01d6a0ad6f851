------------------------------- MODULE Names -------------------------------
(***************************************************************************)
(* How rl names things outside: the URL of a repo and of an issue, the     *)
(* prefix that a repo gets from its name, the path of a worktree, and the  *)
(* block that rl agents docs keeps in a file of somebody else.             *)
(* A URL is a sequence of its pieces, a word a sequence of its letters,    *)
(* a path a sequence of its components, a file a sequence of its parts.    *)
(* What may fail returns a set: one element, or none.                      *)
(***************************************************************************)
EXTENDS Naturals, FiniteSets, Sequences, SequencesExt

RECURSIVE TrimEnd(_, _), Split(_)

-----------------------------------------------------------------------------
(* URLs *)

TrimEnd(url, piece) == IF url # <<>> /\ Last(url) = piece THEN TrimEnd(Front(url), piece) ELSE url

Schemes == {"https://", "http://", "ssh://", "git://"}

\* What follows the first of those pieces, or everything.
After(url, pieces) ==
  LET at == {i \in DOMAIN url : url[i] \in pieces}
  IN IF at = {} THEN url ELSE SubSeq(url, (CHOOSE i \in at : \A j \in at : i <= j) + 1, Len(url))

\* git@host:owner/repo, or scheme://user@host/owner/repo.
ParseCanonical(url) ==
  LET short == TrimEnd(TrimEnd(url, "/"), ".git")
  IN IF short = <<>> THEN {}
     ELSE IF Head(short) = "git@"
          THEN IF ":" \in Range(short)
               THEN {[i \in DOMAIN Tail(short) |-> IF Tail(short)[i] = ":" /\ \A j \in 1..(i - 1) : Tail(short)[j] # ":"
                                                   THEN "/" ELSE Tail(short)[i]]}
               ELSE {}
     ELSE IF Head(short) \in Schemes THEN {After(Tail(short), {"user@", "git@"})} ELSE {}

\* The pieces between the slashes.
Split(url) ==
  IF "/" \notin Range(url) THEN <<url>>
  ELSE LET i == CHOOSE k \in DOMAIN url : url[k] = "/" /\ \A j \in 1..(k - 1) : url[j] # "/"
       IN <<SubSeq(url, 1, i - 1)>> \o Split(SubSeq(url, i + 1, Len(url)))

Numbers == {"1", "2"}

ParseIssueUrl(url) ==
  LET short == TrimEnd(url, "/")
      parts == Split(IF short # <<>> /\ Head(short) \in {"https://", "http://"} THEN Tail(short) ELSE short)
  IN IF /\ Len(parts) = 5 /\ parts[1] = <<"github.com">> /\ parts[2] # <<>> /\ parts[3] # <<>>
        /\ parts[4] = <<"issues">> /\ Len(parts[5]) = 1 /\ parts[5][1] \in Numbers
     THEN {[repo |-> <<"github.com", "/">> \o parts[2] \o <<"/">> \o parts[3], number |-> parts[5][1]]}
     ELSE {}

GithubOwnerFromCanonical(canonical) ==
  LET parts == Split(canonical)
  IN IF parts[1] = <<"github.com">> /\ Len(parts) > 1 /\ parts[2] # <<>> THEN {parts[2]} ELSE {}

SplitOwnerRepo(canonical) ==
  LET parts == Split(canonical)
  IN IF parts[1] = <<"github.com">> /\ Len(parts) = 3 /\ parts[2] # <<>> /\ parts[3] # <<>>
     THEN {<<parts[2], parts[3]>>} ELSE {}

\* The repository_url of an answer of the API.
CanonicalFromRepositoryUrl(url) ==
  LET parts == Split(After(url, {"repos"}))
  IN IF "repos" \in Range(url) /\ Len(parts) >= 3 /\ parts[2] # <<>> /\ parts[3] # <<>>
     THEN {<<"github.com", "/">> \o parts[2] \o <<"/">> \o parts[3]} ELSE {}

\* Where an issue is that was asked for at that address, if it is elsewhere.
DetectMoveFromIssue(canonical, number, answer) ==
  {[repo |-> c, number |-> answer.number] :
     c \in {d \in CanonicalFromRepositoryUrl(answer.url) : d # canonical \/ answer.number # number}}

-----------------------------------------------------------------------------
(* The prefix of a repo *)

Vowels == {"a", "e"}
Consonants == {"b", "c", "x", "r", "l", "k"}
Digits == {"2"}
Alphabetic == Vowels \cup Consonants

\* What else than its first letter a word has to tell.
ConsonantsAfterFirst(word) == SelectSeq(Tail(word), LAMBDA c : c \in Consonants)
Upto(word, n) == SubSeq(word, 1, IF Len(word) < n THEN Len(word) ELSE n)

PrefixFromSingleWord(word) ==
  LET short == Upto(<<Head(word)>> \o ConsonantsAfterFirst(word), 3)
      rest == SelectSeq(Tail(word), LAMBDA c : c \in Alphabetic)
  IN short \o Upto(rest, 3 - Len(short))

PrefixFromTwoWords(a, b) ==
  LET first == Len(a) >= Len(b)
      longer == IF first THEN a ELSE b
      extra == IF ConsonantsAfterFirst(longer) # <<>> THEN ConsonantsAfterFirst(longer)[1]
               ELSE IF Len(longer) > 1 THEN longer[2] ELSE "x"
  IN IF first THEN <<a[1], extra, b[1]>> ELSE <<a[1], b[1], extra>>

\* The first letters, each once, then consonants that are not there yet.
PrefixFromMultiWords(words) ==
  LET add(s, letters) == LET new == SelectSeq(letters, LAMBDA c : c \notin Range(s))
                         IN IF Len(s) >= 3 \/ new = <<>> THEN s ELSE Append(s, new[1])
      firsts == FoldLeft(LAMBDA s, w : add(s, <<w[1]>>), <<>>, words)
  IN FoldLeft(LAMBDA s, w : add(s, ConsonantsAfterFirst(w)), firsts, words)

\* From the words of a name, in lower case; "app" stands for the noise words.
DerivePrefix(name) ==
  LET words == SelectSeq(name, LAMBDA w : w # <<>> /\ ~(Range(w) \subseteq Digits) /\ w # <<"app">>)
      raw == CASE Len(words) = 0 -> <<"r", "l", "k">>
               [] Len(words) = 1 -> PrefixFromSingleWord(words[1])
               [] Len(words) = 2 -> PrefixFromTwoWords(words[1], words[2])
               [] OTHER -> PrefixFromMultiWords(words)
      letters == Upto(SelectSeq(raw, LAMBDA c : c \in Alphabetic), 3)
  IN IF letters = <<>> THEN <<"r", "l", "k">> ELSE letters \o SubSeq(<<"x", "x">>, 1, 3 - Len(letters))

IsValidPrefix(p) ==
  /\ Len(p) \in 2..20 /\ Head(p) \in Alphabetic /\ \A c \in Range(Tail(p)) : c \in Alphabetic \cup Digits

-----------------------------------------------------------------------------
(* Paths. A disk is a set of real directories and the targets of links;     *)
(* the first component of an absolute path is "/".                          *)

RECURSIVE Real(_, _)

\* Where a path leads, or none: a link is followed wherever it stands.
Real(disk, path) ==
  IF Len(path) = 1 THEN {path}
  ELSE UNION {LET here == Append(up, Last(path))
              IN IF here \in DOMAIN disk.links THEN Real(disk, disk.links[here])
                 ELSE {here} \cap disk.dirs : up \in Real(disk, Front(path))}

\* rl worktree link stores this; a path that is not there as it was given.
CanonicalizeForLink(disk, path) == IF Real(disk, path) # {} THEN CHOOSE r \in Real(disk, path) : TRUE ELSE path

\* A mutant: a path whose end is gone is looked up as it was given.
LookupAsGiven(disk, path) == CanonicalizeForLink(disk, path)

\* rl worktree unlink: the longest part that is there is resolved, the rest is added.
CanonicalizeForLookup(disk, path) ==
  LET n == CHOOSE k \in 1..Len(path) :
             Real(disk, SubSeq(path, 1, k)) # {} /\ \A j \in (k + 1)..Len(path) : Real(disk, SubSeq(path, 1, j)) = {}
  IN CanonicalizeForLink(disk, SubSeq(path, 1, n)) \o SubSeq(path, n + 1, Len(path))

-----------------------------------------------------------------------------
(* AGENTS.md: text parts, the two markers, and what is between them. *)

MarkerBlock(body) == <<"start", body, "end">>
RenderBlock(bound) == IF bound THEN "bound" ELSE "unbound"

FirstOf(file, part) == {i \in DOMAIN file : file[i] = part /\ \A j \in 1..(i - 1) : file[j] # part}

\* The file after the command, or none where it is left alone. {} is no file.
WriteAgentsMd(file, body) ==
  IF file = {} THEN {<<"heading">> \o MarkerBlock(body)}
  ELSE LET text == CHOOSE t \in file : TRUE
           start == FirstOf(text, "start")
           end == FirstOf(text, "end")
       IN IF start = {} /\ end = {} THEN {text \o <<"using">> \o MarkerBlock(body)}
          ELSE {SubSeq(text, 1, i - 1) \o MarkerBlock(body) \o SubSeq(text, j + 1, Len(text)) :
                  <<i, j>> \in {p \in start \X end : p[1] < p[2]}}
=============================================================================
