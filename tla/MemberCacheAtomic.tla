-------------------------- MODULE MemberCacheAtomic --------------------------
(***************************************************************************)
(* What the member handlers promise (spec 4.3, 5, 8): each event is applied *)
(* to the cache as one atomic step, with the effect of the whole handler of *)
(* cache/in-memory/src/event/member.rs.  A cache state is a record of the  *)
(* four maps, and each handler is an operator from a cache state to the    *)
(* next.  MemberChunk is stated as spec 8's bulk equivalence: the adds of  *)
(* its members one at a time, in order.                                    *)
(***************************************************************************)
EXTENDS MemberCacheOps

VARIABLES members, guildMembers, userGuilds, users, wants

vars == <<members, guildMembers, userGuilds, users, wants>>

Cache == [members |-> members, guildMembers |-> guildMembers,
          userGuilds |-> userGuilds, users |-> users]

\* cache_member, as one step: nothing if the identical member is cached,
\* else cache_user, the member and the roster entry.
CacheMember(c, g, m) ==
    LET k == <<g, m.user>> IN
    IF k \in DOMAIN c.members /\ MemberEq(c.members[k], m)
    THEN c
    ELSE [users |-> Put(c.users, m.user, m.profile),
          userGuilds |-> EntryInsert(c.userGuilds, m.user, g),
          members |-> Put(c.members, k, CachedFromMember(m)),
          guildMembers |-> EntryInsert(c.guildMembers, g, m.user)]

\* MemberAdd::update: cache_member, then the roster insert.
OnAdd(c, g, m) ==
    LET c1 == CacheMember(c, g, m)
    IN  [c1 EXCEPT !.guildMembers = EntryInsert(@, g, m.user)]

\* MemberChunk::update, by spec 8: the members added one at a time in order.
OnChunk(c, g, ms) == FoldLeft(LAMBDA acc, m : OnAdd(acc, g, m), c, ms)

\* MemberRemove::update: the member, the roster entry, the guild of the
\* user's set, and the user if that set is now empty.
OnRemove(c, g, u) ==
    LET inSet == u \in DOMAIN c.userGuilds
        last == inSet /\ LeftNoGuild(c.userGuilds[u], g)
    IN  [members |-> Drop(c.members, <<g, u>>),
         guildMembers |-> IF g \in DOMAIN c.guildMembers
                          THEN [c.guildMembers EXCEPT ![g] = @ \ {u}]
                          ELSE c.guildMembers,
         userGuilds |-> IF inSet THEN [c.userGuilds EXCEPT ![u] = @ \ {g}]
                        ELSE c.userGuilds,
         users |-> IF last THEN Drop(c.users, u) ELSE c.users]

\* MemberUpdate::update: merge into a cached member, drop otherwise.
OnUpdate(c, g, upd) ==
    LET k == <<g, upd.user>> IN
    IF k \notin DOMAIN c.members THEN c
    ELSE [c EXCEPT !.members[k] = [@ EXCEPT !.deaf = OptOr(upd.deaf, @),
                                            !.mute = OptOr(upd.mute, @),
                                            !.nick = upd.nick,
                                            !.pending = upd.pending]]

\* cache_borrowed_partial_member.
OnPartial(c, g, m) ==
    LET k == <<g, m.user>> IN
    IF k \in DOMAIN c.members /\ PartialEq(c.members[k], m) THEN c
    ELSE [c EXCEPT !.guildMembers = EntryInsert(@, g, m.user),
                   !.members = Put(@, k, CachedFromPartial(m))]

\* cache_borrowed_interaction_member; deaf and mute kept from the cached
\* member, None if there is none.
OnInteraction(c, g, m) ==
    LET k == <<g, m.user>>
        flags == IF k \in DOMAIN c.members
                 THEN <<c.members[k].deaf, c.members[k].mute>>
                 ELSE <<None, None>>
    IN  IF k \in DOMAIN c.members /\ InteractionEq(c.members[k], m) THEN c
        ELSE [c EXCEPT !.guildMembers = EntryInsert(@, g, m.user),
                       !.members = Put(@, k, CachedFromInteraction(m, flags))]

\* UpdateCache::update of event e.
Apply(c, e) ==
    CASE e.kind = "add" -> OnAdd(c, e.guild, e.member)
      [] e.kind = "chunk" -> OnChunk(c, e.guild, e.members)
      [] e.kind = "remove" -> OnRemove(c, e.guild, e.user)
      [] e.kind = "update" -> OnUpdate(c, e.guild, e.update)
      [] e.kind = "partial" -> OnPartial(c, e.guild, e.member)
      [] e.kind = "interaction" -> OnInteraction(c, e.guild, e.member)

Init ==
    /\ members = <<>> /\ guildMembers = <<>> /\ userGuilds = <<>> /\ users = <<>>
    /\ wants \in WantsMember

\* One event, applied atomically; a gated or empty event changes nothing.
Handle(e) ==
    /\ ~Dropped(e, wants)
    /\ LET c == Apply(Cache, e) IN
         /\ members' = c.members
         /\ guildMembers' = c.guildMembers
         /\ userGuilds' = c.userGuilds
         /\ users' = c.users
    /\ UNCHANGED wants

Next == \E e \in Events : Handle(e)

Spec == Init /\ [][Next]_vars

-----------------------------------------------------------------------------
\* Spec 8, idempotency: an event applied a second time right after the first
\* changes nothing, from every reachable cache.  About the short-circuits of
\* cache_member and the payload variants, the Option::or merge of
\* MemberUpdate, and MemberRemove's decision to delete the user, which must
\* not fire on a repeated remove of a guild the user has already left.
Idempotent ==
    \A e \in Events :
        ~Dropped(e, wants) => Apply(Apply(Cache, e), e) = Apply(Cache, e)

=============================================================================
