---------------------------- MODULE MCWsdService ----------------------------
(* One server, with the repeats of the code, and more ids than it can keep.  *)
EXTENDS WsdService, TLC

AnyIds == Permutations(Ids)
=============================================================================
