---------------------------- MODULE MCFilterChain ----------------------------
(* Instances of FilterChain for TLC.                                       *)
EXTENDS FilterChain

AllCalls == DOMAIN Operation

(* set_acl is looked at in a run of its own.                               *)
MostCalls == AllCalls \ {"set_acl"}
=============================================================================
