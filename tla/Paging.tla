------------------------------- MODULE Paging -------------------------------
(***************************************************************************)
(* How the GitHub adapter reads a list. REST lists are read by page number *)
(* until a short page or a cap; the lists that a mirror is replaced from   *)
(* (sub-issues, blockers, comments) probe one item past the cap, the list  *)
(* of changed issues refuses a full last page. The board is read by        *)
(* cursor, and what lies past the cap is reported as truncated. Between    *)
(* two requests the list may change and the issue may move.                *)
(***************************************************************************)
EXTENDS Integers, FiniteSets, SequencesExt

CONSTANTS PerPage, MaxPages,
          ListChanges   \* changes of the list while it is read

ASSUME PagingAssumption == PerPage \in Nat \ {0} /\ MaxPages \in Nat \ {0} /\ ListChanges \in Nat

VARIABLES
  listed,  \* the list on GitHub
  homed,   \* the issue is where the caller thinks
  reader,  \* kind of list, next page or cursor, what was read, and the result
  began,   \* the list as it was when the reading began
  changes  \* what happened to the list since

pagingVars == <<listed, homed, reader, began, changes>>

ListKinds == {"mirror", "changed", "board"}
Cap == PerPage * MaxPages
Items == 1..Cap + 3

PagingInit ==
  /\ listed \in {[i \in 1..n |-> i] : n \in 0..Cap + 1}
  /\ homed \in BOOLEAN
  /\ reader \in [kind: ListKinds, pc: {"start"}, page: {1}, after: {0}, out: {<<>>}]
  /\ began = listed /\ changes = <<>>

Slice(from, n) == SubSeq(listed, from, IF from + n - 1 <= Len(listed) THEN from + n - 1 ELSE Len(listed))

-----------------------------------------------------------------------------
\* ensure_not_moved: the lists of an issue do not name their issue, so its home
\* is asked for first. The other lists belong to a repo or a board.
EnsureNotMoved ==
  /\ reader.pc = "start"
  /\ reader' = [reader EXCEPT !.pc = IF reader.kind = "mirror" /\ ~homed THEN "moved" ELSE "page"]
  /\ began' = listed
  /\ UNCHANGED <<listed, homed, changes>>

\* Where a REST page of n items leads: a short one ends the list, a full one at
\* the cap is looked past or refused.
AfterPage(n) ==
  IF n < PerPage THEN "ok"
  ELSE IF reader.page < MaxPages THEN "page"
  ELSE IF reader.kind = "mirror" THEN "probe" ELSE "refused"

FetchPage ==
  LET batch == Slice((reader.page - 1) * PerPage + 1, PerPage)
  IN /\ reader.pc = "page" /\ reader.kind # "board"
     /\ reader' = [reader EXCEPT !.pc = AfterPage(Len(batch)), !.page = @ + 1, !.out = @ \o batch]
     /\ UNCHANGED <<listed, homed, began, changes>>

\* The page number is that of the pages, not that of the single items.
ProbeLastPage == MaxPages + 1

ProbeItem == Cap + 1

\* With per_page=1 a page is an item.
ProbePage ==
  /\ reader.pc = "probe"
  /\ reader' = [reader EXCEPT !.pc = IF Slice(ProbeItem, 1) = <<>> THEN "ok" ELSE "refused"]
  /\ UNCHANGED <<listed, homed, began, changes>>

\* The cursor names the last item that was read; what is before it stays read.
BoardFrom == reader.after + 1

FetchBoardPage ==
  LET batch == Slice(BoardFrom, PerPage)
      more == BoardFrom + PerPage - 1 < Len(listed)
  IN /\ reader.pc = "page" /\ reader.kind = "board"
     /\ reader' = [reader EXCEPT !.pc = IF ~more THEN "ok" ELSE IF reader.page < MaxPages THEN "page" ELSE "truncated",
                               !.page = @ + 1, !.after = BoardFrom + Len(batch) - 1, !.out = @ \o batch]
     /\ UNCHANGED <<listed, homed, began, changes>>

\* A request that fails takes the pages before it along.
PageFails ==
  /\ reader.pc \in {"start", "page", "probe"}
  /\ reader' = [reader EXCEPT !.pc = "failed", !.out = <<>>]
  /\ UNCHANGED <<listed, homed, began, changes>>

-----------------------------------------------------------------------------
(* GitHub meanwhile.                                                        *)

Reading == reader.pc \in {"page", "probe"}

ItemAppended(x) ==
  /\ Reading /\ x \notin ToSet(listed) /\ Len(listed) <= Cap + 1
  /\ listed' = Append(listed, x) /\ changes' = Append(changes, "append")
  /\ UNCHANGED <<homed, reader, began>>

ItemRemoved(i) ==
  /\ Reading
  /\ listed' = RemoveAt(listed, i)
  /\ changes' = Append(changes, "remove")
  /\ reader' = [reader EXCEPT !.after = IF i <= @ THEN @ - 1 ELSE @]
  /\ UNCHANGED <<homed, began>>

\* An update puts an issue in front: sort=updated, direction=desc.
ItemTouched(i) ==
  /\ Reading /\ reader.kind = "changed"
  /\ listed' = <<listed[i]>> \o RemoveAt(listed, i)
  /\ changes' = Append(changes, "touch")
  /\ UNCHANGED <<homed, reader, began>>

PagingNext ==
  \/ EnsureNotMoved \/ FetchPage \/ ProbePage \/ FetchBoardPage \/ PageFails
  \/ /\ Len(changes) < ListChanges
     /\ \/ \E x \in Items : ItemAppended(x)
        \/ \E i \in DOMAIN listed : ItemRemoved(i) \/ ItemTouched(i)

PagingSpec == PagingInit /\ [][PagingNext]_pagingVars

-----------------------------------------------------------------------------
Ok == reader.pc = "ok"

\* What is read are items, at most a full window of them, and a cursor stays
\* within the list.
PagingTypeOK ==
  /\ ToSet(reader.out) \subseteq Items /\ Len(reader.out) <= Cap
  /\ reader.after \in 0..Len(listed)

\* A list that held still is read whole, in order, or refused: never truncated
\* in silence, at the boundary of a page and at the cap too. Inbound reconcile
\* would take a missing blocker for one that was dropped.
WholeOrRefused == Ok /\ changes = <<>> => reader.out = listed /\ Len(listed) <= Cap

\* The refusal is not a false alarm: a list that a mirror is replaced from is
\* refused only past the cap.
RefusedIsTooLong == reader.pc = "refused" /\ changes = <<>> /\ reader.kind = "mirror" => Len(listed) > Cap

\* Items that are added during the reading cost no item that was there: only a
\* removal or an update shifts the pages.
AppendsAreHarmless == Ok /\ ToSet(changes) \subseteq {"append"} => ToSet(began) \subseteq ToSet(reader.out)

\* A cursor does not lose its place: what was on the board all the time is read.
CursorKeepsItsPlace ==
  Ok /\ reader.kind = "board" => ToSet(began) \cap ToSet(listed) \subseteq ToSet(reader.out)

\* The same of a list read by page numbers.
StableIsListed == Ok /\ reader.kind = "mirror" => ToSet(began) \cap ToSet(listed) \subseteq ToSet(reader.out)

\* A list that holds still is read whole or refused, and refused only past the
\* cap; appends cost no item, and the board's cursor loses none that stays
\* (list_issues, fetch_sub_issues, fetch_blocked_by, poll_project_items).
ListsAreWhole ==
  /\ PagingTypeOK /\ WholeOrRefused /\ RefusedIsTooLong
  /\ AppendsAreHarmless /\ CursorKeepsItsPlace
=============================================================================
