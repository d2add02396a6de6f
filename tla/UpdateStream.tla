---------------------------- MODULE UpdateStream ----------------------------
(***************************************************************************)
(* What /dev/lophilo promises its one reader.  Every tick of the sampling  *)
(* timer offers three updates, in the order sec, usec, xa0 (the second,    *)
(* the microsecond, and the reading of pin XA0).  An update is lost only   *)
(* when the queue is full at the moment it is offered; the others are      *)
(* handed over in the order they were offered, each at most once.          *)
(*                                                                         *)
(* Data are abstracted to what tells two updates apart: which of the three *)
(* it is, and which tick produced it (ticks are counted modulo TickMod).   *)
(***************************************************************************)
EXTENDS Naturals, Sequences

CONSTANTS
  Capacity,  \* LOPHILO_FIFO_SIZE
  TickMod,   \* bound: ticks are told apart modulo this number
  Faults     \* TRUE iff copying to the reader's buffer may fail

VARIABLES
  queue,   \* the updates waiting to be read, oldest first
  due,     \* the update the timer will offer next
  handed   \* the two updates handed over last (fewer after a start or an error)

streamVars == <<queue, due, handed>>

Sources == {"sec", "usec", "xa0"}
Update == [source : Sources, tick : 0..(TickMod - 1)]

\* The update offered after u.
Following(u) ==
  CASE u.source = "sec"  -> [u EXCEPT !.source = "usec"]
    [] u.source = "usec" -> [u EXCEPT !.source = "xa0"]
    [] OTHER -> [source |-> "sec", tick |-> (u.tick + 1) % TickMod]

FirstDue == [source |-> "sec", tick |-> 1 % TickMod]

StreamInit == queue = <<>> /\ due = FirstDue /\ handed = <<>>

Accept ==
  /\ Len(queue) < Capacity
  /\ queue' = Append(queue, due)
  /\ due' = Following(due)
  /\ UNCHANGED handed

Lose ==
  /\ Len(queue) = Capacity
  /\ due' = Following(due)
  /\ UNCHANGED <<queue, handed>>

\* The last two elements of s, or s when it is shorter.
LastTwo(s) == SubSeq(s, IF Len(s) < 2 THEN 1 ELSE Len(s) - 1, Len(s))

\* Remove the n oldest updates.
Remove(n) == queue' = SubSeq(queue, n + 1, Len(queue))

Take == \E n \in 1..Len(queue) :
  /\ Remove(n)
  /\ handed' = LastTwo(handed \o SubSeq(queue, 1, n))
  /\ UNCHANGED due

\* The reader's buffer was bad: it is told of an error, and what had been
\* copied by then is gone.
Spoil == \E n \in 0..Len(queue) :
  /\ Faults
  /\ Remove(n)
  /\ handed' = <<>>
  /\ UNCHANGED due

\* The driver is loaded again.
Restart == queue' = <<>> /\ due' = FirstDue /\ handed' = <<>>

StreamNext == Accept \/ Lose \/ Take \/ Spoil \/ Restart

StreamSpec == StreamInit /\ [][StreamNext]_streamVars
=============================================================================
