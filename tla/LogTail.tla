------------------------------ MODULE LogTail ------------------------------
(***************************************************************************)
(* rl daemon logs --follow beside the daemon's rolling appender. The       *)
(* follower polls; between its look at the newest segment and what it does *)
(* about it the appender writes and rotates, and somebody may truncate a   *)
(* file. A line is a number, an offset counts lines.                       *)
(***************************************************************************)
EXTENDS Integers, Sequences

CONSTANTS TailLines,   \* --lines
          MaxLines,    \* lines that are written
          MaxSegments, MaxCuts

ASSUME LogTailAssumption == {TailLines, MaxLines, MaxSegments, MaxCuts} \subseteq Nat

VARIABLES files,   \* the segments by date; the last is the one that is written
          written, \* lines so far
          follow,  \* the follower
          printed, \* what it has printed
          seen,    \* segments when it last looked
          blurred, \* a file was truncated, or it rotated twice between two looks
          cuts

tailVars == <<files, written, follow, printed, seen, blurred, cuts>>

\* file 0: none is open yet; wanted: the segment found by the last look; short:
\* the file that was found is shorter than the offset.
TailInit ==
  /\ \E n \in 0..2 : /\ written = n
                     /\ files \in {<<>>, <<[i \in 1..n |-> i]>>}
                     /\ files = <<>> => n = 0
  /\ follow = [pc |-> "start", file |-> 0, offset |-> 0, wanted |-> 0, short |-> FALSE]
  /\ printed = <<>> /\ seen = 0 /\ blurred = FALSE /\ cuts = 0

-----------------------------------------------------------------------------
(* The appender: daily segments, the newest of which is written.            *)

Line ==
  /\ written < MaxLines /\ files # <<>>
  /\ written' = written + 1
  /\ files' = [files EXCEPT ![Len(files)] = Append(@, written + 1)]
  /\ UNCHANGED <<follow, printed, seen, blurred, cuts>>

Rotate ==
  /\ Len(files) < MaxSegments
  /\ files' = Append(files, <<>>)
  /\ blurred' = (blurred \/ (follow.pc # "start" /\ Len(files) > seen /\ seen > 0))
  /\ UNCHANGED <<written, follow, printed, seen, cuts>>

Truncate ==
  /\ cuts < MaxCuts /\ files # <<>> /\ files[Len(files)] # <<>>
  /\ files' = [files EXCEPT ![Len(files)] = <<>>]
  /\ blurred' = TRUE /\ cuts' = cuts + 1
  /\ UNCHANGED <<written, follow, printed, seen>>

-----------------------------------------------------------------------------
(* The follower.                                                            *)

NewestLogSegment == Len(files)    \* 0: the plain daemon.log, which nobody writes

Rest(f, offset) == SubSeq(files[f], offset + 1, Len(files[f]))

PrintTail ==
  LET n == Len(files[NewestLogSegment]) IN
  SubSeq(files[NewestLogSegment], IF TailLines < n THEN n - TailLines + 1 ELSE 1, n)

PrintLogs ==
  /\ follow.pc = "start"
  /\ IF files = <<>> THEN follow' = [follow EXCEPT !.pc = "sleep"] /\ UNCHANGED printed
     ELSE /\ printed' = PrintTail
          /\ follow' = [follow EXCEPT !.pc = "sleep", !.file = NewestLogSegment,
                                      !.offset = Len(files[NewestLogSegment])]
  /\ seen' = Len(files)
  /\ UNCHANGED <<files, written, blurred, cuts>>

\* The path and its metadata. Without a file the loop goes on.
Look ==
  /\ follow.pc = "sleep" /\ files # <<>>
  /\ follow' = [follow EXCEPT !.pc = "act", !.wanted = NewestLogSegment,
                              !.short = Len(files[NewestLogSegment]) < follow.offset]
  /\ seen' = Len(files)
  /\ UNCHANGED <<files, written, printed, blurred, cuts>>

Replace == follow.wanted # follow.file

\* What was appended to the old segment before the new one began.
FinishCurrent == IF follow.file = 0 THEN <<>> ELSE Rest(follow.file, follow.offset)

SwitchTo ==
  /\ follow.pc = "act" /\ Replace
  /\ printed' = printed \o FinishCurrent \o Rest(follow.wanted, 0)
  /\ follow' = [pc |-> "sleep", file |-> follow.wanted, offset |-> Len(files[follow.wanted]),
                wanted |-> follow.wanted, short |-> FALSE]
  /\ UNCHANGED <<files, written, seen, blurred, cuts>>

\* An offset beyond the end starts again at the top.
PrintAppended ==
  /\ follow.pc = "act" /\ ~Replace
  /\ LET from == IF follow.short THEN 0 ELSE follow.offset
         rest == Rest(follow.file, from)
     IN /\ printed' = printed \o rest
        /\ follow' = [follow EXCEPT !.pc = "sleep", !.offset = from + Len(rest)]
  /\ UNCHANGED <<files, written, seen, blurred, cuts>>

TailNext ==
  \/ Line \/ Rotate \/ Truncate
  \/ PrintLogs \/ Look \/ SwitchTo \/ PrintAppended

TailSpec == TailInit /\ [][TailNext]_tailVars

-----------------------------------------------------------------------------
\* What is printed is in the order in which it was written, no line twice; and
\* nothing between the first and the last line is left out, across rotations too,
\* unless a file was truncated or a whole segment came and went between two looks.
FollowPrintsAll ==
  LET gap(i) == printed[i + 1] - printed[i] IN
  \A i \in 1..Len(printed) - 1 : gap(i) > 0 /\ (blurred \/ gap(i) = 1)
=============================================================================
