--------------------------- MODULE MC_MemberCache ---------------------------
(* MemberCache with the constants of MC_MemberCacheValues.                 *)
EXTENDS MemberCache, MC_MemberCacheValues

=============================================================================
