------------------------------ MODULE MCListing ------------------------------
(* Instances of Listing for TLC.                                           *)
EXTENDS Listing

EveryCall == AllCalls
EveryFault == FaultKinds
=============================================================================
