---------------------------- MODULE MCWriteObject ----------------------------
(* Instances of WriteObject for TLC.                                       *)
EXTENDS WriteObject, TLC

CONSTANTS a, b

TwoBytes == {a, b}

(* The first two bytes are equal, so that a byte stored twice can pass for *)
(* the next one.                                                           *)
ThreeByteSource == <<a, a, b>>

(* A create with one byte and an append with two.                          *)
CreateAndAppend == (0 :> 1) @@ (1 :> 3) @@ (2 :> 3)

(* Three requests of one byte.                                             *)
ByteByByte == (0 :> 1) @@ (1 :> 2) @@ (2 :> 3)

(* One request with everything.                                            *)
AllAtOnce == (0 :> 3) @@ (1 :> 3) @@ (2 :> 3)

(* Modes of the configurations.                                            *)
Ws  == WSCHECKSUM
Gen == GENERATE_CHECKSUM
Off == NONE

AllFaults == FaultKinds

(* Without a checksum damage goes unnoticed.                               *)
DeliveryFaults == {"cut", "refuse", "losereply"}

(* A file that another process rewrites is checksummed as it is sent.      *)
GenerateFaults == FaultKinds \ {"filechange"}

EveryPolicy == AllPolicies
EveryOutcome == Outcomes
=============================================================================
