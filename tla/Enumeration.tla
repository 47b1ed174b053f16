----------------------------- MODULE Enumeration -----------------------------
(***************************************************************************)
(* What a paged listing promises: the entries 1 .. Total come out in       *)
(* order, some at a time, each of them once, and then it is over.  Once    *)
(* something has broken entries may be missing, and nothing else changes.  *)
(***************************************************************************)
EXTENDS Integers, Sequences

CONSTANT Total

VARIABLES out,        \* what has come out so far
          finished,   \* there is no more
          broken      \* something went wrong that cannot be made good

(* The entries p + 1 .. p + n.                                             *)
Run(p, n) == [i \in 1 .. n |-> p + i]

Init == out = << >> /\ finished = FALSE /\ broken = FALSE

Deliver ==
  /\ ~finished
  /\ ~broken
  /\ finished' \in BOOLEAN
  /\ \E n \in Len(out) .. Total :
       /\ out' = Run(0, n)
       /\ finished' => n = Total
  /\ UNCHANGED broken

Break ==
  /\ broken' = TRUE
  /\ finished' \in BOOLEAN
  /\ finished => finished'
  /\ UNCHANGED out

(* Behind a gap the entries still come in order.                           *)
DeliverRest ==
  /\ ~finished
  /\ broken
  /\ \E p \in 0 .. Total : \E n \in 0 .. Total - p :
       /\ out # << >> => out[Len(out)] <= p
       /\ out' = out \o Run(p, n)
  /\ finished' \in BOOLEAN
  /\ UNCHANGED broken

Next == Deliver \/ Break \/ DeliverRest

Safety == Init /\ [][Next]_<<out, finished, broken>>

Spec == Safety /\ WF_<<out, finished, broken>>(Deliver \/ DeliverRest)
=============================================================================
