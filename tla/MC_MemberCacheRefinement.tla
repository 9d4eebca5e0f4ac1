---------------------- MODULE MC_MemberCacheRefinement ----------------------
(* MemberCacheRefinement with the constants of MC_MemberCacheValues.       *)
EXTENDS MemberCacheRefinement, MC_MemberCacheValues

=============================================================================
