---------------------------- MODULE MCMutableRefs ----------------------------
EXTENDS MutableRefs

\* Local 0 is a &mut parameter, local 1 a &mut local, local 2 a & local.
MCLocalType == (0 :> "mut_ref") @@ (1 :> "mut_ref") @@ (2 :> "ref")
=============================================================================
