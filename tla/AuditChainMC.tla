---------------------------- MODULE AuditChainMC ------------------------------
(* Three writers, interchangeable, and one activation to purge.              *)
EXTENDS AuditChain, TLC

Interchangeable == Permutations(Writers)
=============================================================================
