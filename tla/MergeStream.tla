------------------------------ MODULE MergeStream ------------------------------
(***************************************************************************)
(* algos/stream/MergeStream: two ordered object streams become one.  The   *)
(* sources are node streams in flowing mode, which the merge pauses and    *)
(* resumes; the merge is a readable stream that stops pulling when its     *)
(* buffer is full.                                                         *)
(***************************************************************************)
EXTENDS Integers, SequencesExt, FiniteSetsExt

CONSTANTS
    Inputs,         \* the pairs of ordered sequences to merge
    BufferLimit,    \* the merge's highWaterMark
    MaxSourceErrors \* bound

Sides == {1, 2}
Other(side) == 3 - side
NotStarted == 0     \* peekItems: undefined
NoMore == -1        \* peekItems: null

ASSUME MergeAssumption ==
    /\ BufferLimit \in Nat \ {0}
    /\ \A pair \in Inputs, side \in Sides : \A i \in DOMAIN pair[side] : pair[side][i] > 0

VARIABLES
    inputs,         \* the pair of this behaviour
    sources,        \* sources[side]: [left, flowing, ending, ended, destroyed]
    peekItems,
    streamEof,
    streamToResume, \* a side, or 0
    buffer,         \* what was pushed and not read; NoMore is the end
    reading,        \* node: _read() was called and nothing was pushed since
    output,         \* what the reader got
    status          \* "open", "ended", "destroyed" or "failed"

mgVars == <<inputs, sources, peekItems, streamEof, streamToResume, buffer, reading, output, status>>

\* The state that a callback of the merge works on.
Merge == [sources |-> sources, peek |-> peekItems, eof |-> streamEof,
          toResume |-> streamToResume, buffer |-> buffer, reading |-> reading]

SetMerge(merge) ==
    \E m \in {merge} :
        /\ sources' = m.sources
        /\ peekItems' = m.peek
        /\ streamEof' = m.eof
        /\ streamToResume' = m.toResume
        /\ buffer' = m.buffer
        /\ reading' = m.reading

Push(m, item) == [m EXCEPT !.buffer = Append(@, item), !.reading = FALSE]
Full(m) == Len(m.buffer) >= BufferLimit
Pause(m, side) == [m EXCEPT !.sources[side].flowing = FALSE]
Resume(m, side) == [m EXCEPT !.sources[side].flowing = ~m.sources[side].ended]

MgInit ==
    /\ inputs \in Inputs
    /\ sources = [side \in Sides |-> [left |-> inputs[side], flowing |-> TRUE, ending |-> FALSE,
                                     ended |-> FALSE, destroyed |-> FALSE]]
    /\ peekItems = [side \in Sides |-> NotStarted]
    /\ streamEof = [side \in Sides |-> FALSE]
    /\ streamToResume = 0
    /\ buffer = <<>>
    /\ reading = FALSE
    /\ output = <<>>
    /\ status = "open"

-----------------------------------------------------------------------------
(* The callbacks of the merge. *)

\* Mutant: a full buffer is not noticed when the other stream's item is pushed,
\* and nobody is left to resume.
ItemForgetsResume(m0, side, item) ==
    LET m == [m0 EXCEPT !.peek[side] = item]
        other == m.peek[Other(side)]
        pushed == Push(m, item)
        otherPushed == Push(m, other)
    IN  IF other = NotStarted THEN Pause(m, side)
        ELSE IF other = NoMore \/ item <= other
        THEN IF Full(pushed) THEN [Pause(pushed, side) EXCEPT !.toResume = side] ELSE pushed
        ELSE IF m.eof[Other(side)] THEN Push([otherPushed EXCEPT !.peek[Other(side)] = NoMore], item)
        ELSE IF Full(otherPushed) THEN Pause(otherPushed, side)
        ELSE Resume(Pause(otherPushed, side), Other(side))

OnItem(m0, side, item) ==
    LET m == [m0 EXCEPT !.peek[side] = item]
        other == m.peek[Other(side)]
        pushed == Push(m, item)
        otherPushed == Push(m, other)
    IN  IF other = NotStarted THEN Pause(m, side)
        ELSE IF other = NoMore \/ item <= other
        THEN IF Full(pushed) THEN [Pause(pushed, side) EXCEPT !.toResume = side] ELSE pushed
        ELSE IF m.eof[Other(side)] THEN Push([otherPushed EXCEPT !.peek[Other(side)] = NoMore], item)
        ELSE IF Full(otherPushed) THEN [Pause(otherPushed, side) EXCEPT !.toResume = Other(side)]
        ELSE Resume(Pause(otherPushed, side), Other(side))

\* What is in peekItems may have been pushed already: the comparison tells.
OnEnd(m0, side) ==
    LET m == [m0 EXCEPT !.eof[side] = TRUE,
                        !.peek[side] = IF @ = NotStarted THEN NoMore ELSE @]
        mine == m.peek[side]
        other == m.peek[Other(side)]
        pushed == IF mine = NoMore \/ mine <= other
                  THEN [Push(m, other) EXCEPT !.peek[side] = NoMore] ELSE m
    IN  IF other = NotStarted THEN m
        ELSE IF other = NoMore THEN Push(m, NoMore)
        ELSE IF m.eof[Other(side)] THEN Push(pushed, NoMore)
        ELSE Resume(pushed, Other(side))

-----------------------------------------------------------------------------
(* Actions. *)

Live(side) == status = "open" /\ ~sources[side].destroyed

\* A flowing source gives its next item. It may know that this is its last one,
\* and then its end follows even if it is paused.
Item(side) ==
    /\ Live(side) /\ sources[side].flowing /\ sources[side].left # <<>>
    /\ \E ending \in IF Len(sources[side].left) = 1 THEN BOOLEAN ELSE {FALSE} :
            SetMerge(OnItem([Merge EXCEPT !.sources[side].left = Tail(@),
                                          !.sources[side].ending = ending],
                            side, Head(sources[side].left)))
    /\ UNCHANGED <<inputs, output, status>>

End(side) ==
    /\ Live(side) /\ sources[side].left = <<>> /\ ~sources[side].ended
    /\ sources[side].flowing \/ sources[side].ending
    /\ SetMerge(OnEnd([Merge EXCEPT !.sources[side].ended = TRUE,
                                    !.sources[side].flowing = FALSE], side))
    /\ UNCHANGED <<inputs, output, status>>

SourceError(side) ==
    /\ MaxSourceErrors > 0
    /\ Live(side) /\ ~sources[side].ended
    /\ sources' = [s \in Sides |-> [sources[s] EXCEPT !.destroyed = TRUE, !.flowing = FALSE]]
    /\ status' = "failed"
    /\ UNCHANGED <<inputs, peekItems, streamEof, streamToResume, buffer, reading, output>>

\* node calls _read() when there is room and nothing is expected already.
Pull ==
    /\ status = "open" /\ ~reading /\ Len(buffer) < BufferLimit
    /\ NoMore \notin Range(buffer)
    /\ LET resumed == IF streamToResume = 0 THEN Merge
                      ELSE [Resume(Merge, streamToResume) EXCEPT !.toResume = 0]
       IN  SetMerge([resumed EXCEPT !.reading = TRUE])
    /\ UNCHANGED <<inputs, output, status>>

ReadItem ==
    /\ status = "open" /\ buffer # <<>>
    /\ buffer' = Tail(buffer)
    /\ IF Head(buffer) = NoMore THEN status' = "ended" /\ UNCHANGED output
       ELSE output' = Append(output, Head(buffer)) /\ UNCHANGED status
    /\ UNCHANGED <<inputs, sources, peekItems, streamEof, streamToResume, reading>>

DestroyMerge ==
    /\ status = "open"
    /\ status' = "destroyed"
    /\ sources' = [s \in Sides |-> IF streamEof[s] THEN sources[s]
                                  ELSE [sources[s] EXCEPT !.destroyed = TRUE, !.flowing = FALSE]]
    /\ UNCHANGED <<inputs, peekItems, streamEof, streamToResume, buffer, reading, output>>

MgNext ==
    \/ \E side \in Sides : Item(side) \/ End(side) \/ SourceError(side)
    \/ Pull \/ ReadItem \/ DestroyMerge

\* Sources that flow give what they have, and the reader goes on reading.
MgFairness ==
    /\ \A side \in Sides : WF_mgVars(Item(side)) /\ WF_mgVars(End(side))
    /\ WF_mgVars(Pull) /\ WF_mgVars(ReadItem)

MgSpec == MgInit /\ [][MgNext]_mgVars /\ MgFairness

-----------------------------------------------------------------------------
(* Properties. *)

\* The reader gets the items of both sources in order, each once, and all of
\* them before the end.
MergeIsExact ==
    LET merged == SortSeq(inputs[1] \o inputs[2], LAMBDA a, b : a < b)
    IN  /\ IsPrefix(output, merged)
        /\ status = "ended" => output = merged

\* A reader that goes on reading gets all that and comes to the end, and no source is
\* left open.
MergeEnds ==
    /\ []MergeIsExact
    /\ <>(status # "open")
    /\ [](status # "open" => \A s \in Sides : sources[s].ended \/ sources[s].destroyed)
=============================================================================
