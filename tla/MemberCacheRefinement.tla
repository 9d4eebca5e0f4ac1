------------------------ MODULE MemberCacheRefinement ------------------------
(***************************************************************************)
(* MemberCache, with its handlers split into one step per DashMap call,    *)
(* implements MemberCacheAtomic when each handler runs to completion       *)
(* before the next starts (one shard).  The history variable snap holds    *)
(* the cache as it was when the worker last was idle; the refinement       *)
(* mapping shows the abstract specification that state, so the whole      *)
(* handler appears as one abstract step, taken when the worker returns.    *)
(***************************************************************************)
EXTENDS MemberCache

VARIABLE snap   \* the cache when every worker was last idle

CacheOf == [members |-> members, guildMembers |-> guildMembers,
            userGuilds |-> userGuilds, users |-> users]

RInit == Init /\ snap = CacheOf

RNext == Next /\ snap' = IF Quiescent' THEN CacheOf' ELSE snap

RSpec == RInit /\ [][RNext]_<<vars, snap>>

Atomic == INSTANCE MemberCacheAtomic
              WITH members <- snap.members, guildMembers <- snap.guildMembers,
                   userGuilds <- snap.userGuilds, users <- snap.users

\* Every behaviour of the per-call handlers, seen through snap, is a
\* behaviour of the atomic specification: the calls of each handler of
\* member.rs, in the order the code makes them, have together the effect
\* of the handler applied at once, and a MemberChunk (cache_members, then
\* one extend) has the effect of adding its members one at a time.
RefinesAtomic == Atomic!Spec

\* Spec 8, idempotency, from every cache the handlers of member.rs reach
\* when the worker is idle: an event applied a second time right after
\* the first changes nothing.  About the short-circuits of cache_member and
\* the payload variants, the Option::or merge of MemberUpdate, and
\* MemberRemove's decision to delete the user, which must not fire on a
\* repeated remove of a guild the user has already left.
IdempotentAtQuiescence == Atomic!Idempotent

=============================================================================
