------------------------------ MODULE Handover ------------------------------
(***************************************************************************)
(* What a queue between threads promises those who use it, whatever locks  *)
(* or atomic words it is made of: put and take are one step each, what is  *)
(* put waits behind what waits already, and what has waited longest is     *)
(* taken next, until the last item is taken.                               *)
(*                                                                         *)
(* BlockingQueue and YPipe implement this specification (see HandsOver and *)
(* PipeHandsOver there), which the modules of the threads that use them    *)
(* take for granted.                                                       *)
(***************************************************************************)
EXTENDS Naturals, Sequences

CONSTANT LastItem  \* the item behind which nothing is taken

VARIABLES
    waiting,  \* what was put and not taken
    passed    \* what was taken

vars == <<waiting, passed>>

Init == waiting = <<>> /\ passed = <<>>

\* One or more items are put.
Put ==
    /\ Len(waiting) < Len(waiting')
    /\ SubSeq(waiting', 1, Len(waiting)) = waiting
    /\ UNCHANGED passed

Ended == passed # <<>> /\ passed[Len(passed)] = LastItem

Take ==
    /\ waiting # <<>> /\ ~Ended
    /\ passed' = Append(passed, Head(waiting)) /\ waiting' = Tail(waiting)

Next == Put \/ Take

Spec == Init /\ [][Next]_vars
=============================================================================
