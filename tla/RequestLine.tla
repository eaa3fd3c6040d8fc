---------------------------- MODULE RequestLine ----------------------------
(***************************************************************************)
(* What the semaphore of the LLM channel promises its callers: one line,   *)
(* served from the front, one at a time, in the order of arrival.  A caller *)
(* behind the front may give up its place.  Everyone in line is served.    *)
(***************************************************************************)
EXTENDS Naturals, Sequences

CONSTANTS
  Clients,    \* who may stand in line
  Quitters    \* who may give up

VARIABLE line

InLine(q) == \E i \in 1..Len(line) : line[i] = q

LineInit == line = <<>>

Join(q) ==
  /\ ~InLine(q)
  /\ line' = Append(line, q)

Serve ==
  /\ line # <<>>
  /\ line' = Tail(line)

GiveUp(q) ==
  \E i \in 2..Len(line) :
    /\ line[i] = q
    /\ line' = [j \in 1..(Len(line) - 1) |-> IF j < i THEN line[j] ELSE line[j + 1]]

LineNext ==
  \/ \E q \in Clients : Join(q)
  \/ Serve
  \/ \E q \in Quitters : GiveUp(q)

LineSafety == LineInit /\ [][LineNext]_line

LineSpec == LineSafety /\ WF_line(Serve)
============================================================================
