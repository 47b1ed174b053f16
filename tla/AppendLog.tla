------------------------------ MODULE AppendLog ------------------------------
(***************************************************************************)
(* What storing an object piece by piece promises: the object holds a      *)
(* beginning of the data at all times, it grows by one piece at a time,    *)
(* and no piece is stored before the one before it has been acknowledged.  *)
(* A piece that is written again because its acknowledgement was lost does *)
(* not show.                                                               *)
(***************************************************************************)
EXTENDS Integers, Sequences

CONSTANT Data

VARIABLES stored,   \* what the object holds
          acked     \* how much of it has been acknowledged

Init == stored = << >> /\ acked = 0

Store ==
  /\ Len(stored) = acked
  /\ \E n \in acked + 1 .. Len(Data) : stored' = SubSeq(Data, 1, n)
  /\ UNCHANGED acked

Acknowledge ==
  /\ acked < Len(stored)
  /\ acked' = Len(stored)
  /\ UNCHANGED stored

Next == Store \/ Acknowledge

Safety == Init /\ [][Next]_<<stored, acked>>

Spec == Safety /\ WF_<<stored, acked>>(Next)
=============================================================================
