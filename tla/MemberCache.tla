----------------------------- MODULE MemberCache -----------------------------
(***************************************************************************)
(* The member handlers of the in-memory cache                              *)
(* (cache/in-memory/src/event/member.rs) executed by one worker per shard. *)
(*                                                                         *)
(* The cache's DashMaps are partial functions: a key is in the DOMAIN iff  *)
(* the map has an entry for it.  Every DashMap call locks one bucket for   *)
(* the duration of that call only, so each call is one atomic step of the  *)
(* worker, and a handler that makes several calls is several steps that    *)
(* other workers may interleave with.  A guild's events arrive on the      *)
(* guild's shard (ShardOf), and each shard's events are applied in order   *)
(* by that shard's worker; workers of different shards run in parallel.    *)
(***************************************************************************)
EXTENDS MemberCacheOps

CONSTANTS
    Shards,         \* one worker per shard
    ShardOf,        \* ShardOf[g]: the shard guild g's events arrive on
    MaxEvents       \* bound on the number of events delivered

ASSUME ShardOf \in [Guilds -> Shards]
ASSUME MaxEvents \in Nat

VARIABLES
    members,       \* DashMap<(GuildId, UserId), CachedMember>
    guildMembers,  \* DashMap<GuildId, HashSet<UserId>>
    userGuilds,    \* DashMap<UserId, BTreeSet<GuildId>>
    users,         \* DashMap<UserId, User>, the profile of each user
    wants,         \* MEMBER is in the configured resource types
    pc,            \* pc[s]: the call worker s executes next
    ev,            \* ev[s]: the event worker s is applying
    batch,         \* batch[s]: members cache_members has still to cache
    removeUser,    \* local remove_user of MemberRemove::update
    prior,         \* local (deaf, mute) of cache_borrowed_interaction_member
    delivered      \* number of events delivered so far

cacheVars == <<members, guildMembers, userGuilds, users, wants>>
localVars == <<pc, ev, batch, removeUser, prior>>
vars == <<cacheVars, localVars, delivered>>

Steps == {"idle", "cm_check", "cu_user", "cu_guilds", "cm_insert", "cm_roster",
          "add_index", "chunk_index", "rm_member", "rm_roster", "rm_guilds",
          "rm_user", "up_merge", "pm_check", "pm_roster", "pm_insert",
          "im_check", "im_roster", "im_insert"}

-----------------------------------------------------------------------------
Init ==
    /\ members = <<>>
    /\ guildMembers = <<>>
    /\ userGuilds = <<>>
    /\ users = <<>>
    /\ wants \in WantsMember
    /\ pc = [s \in Shards |-> "idle"]
    /\ ev = [s \in Shards |-> NoEvent]
    /\ batch = [s \in Shards |-> <<>>]
    /\ removeUser = [s \in Shards |-> FALSE]
    /\ prior = [s \in Shards |-> <<None, None>>]
    /\ delivered = 0

Goto(s, step) == pc' = [pc EXCEPT ![s] = step]

\* The guild and the member key of worker s's event.
G(s) == ev[s].guild
Key(s, u) == <<G(s), u>>

-----------------------------------------------------------------------------
(* Event delivery: UpdateCache::update of each event, up to its first      *)
(* cache call.  The resource gate and the empty-chunk check return before  *)
(* any call.  cache_borrowed_partial_member and                            *)
(* cache_borrowed_interaction_member are called by other events'          *)
(* handlers, which gate them by their own resource types.                  *)
FirstStep == [add |-> "cm_check", chunk |-> "cm_check", remove |-> "rm_member",
              update |-> "up_merge", partial |-> "pm_check",
              interaction |-> "im_check"]

\* The members cache_member / cache_members is called with.
BatchOf(e) == CASE e.kind = "add" -> <<e.member>>
                [] e.kind = "chunk" -> e.members
                [] OTHER -> <<>>

Deliver(s) ==
    /\ pc[s] = "idle"
    /\ delivered < MaxEvents
    /\ \E e \in Events :
         /\ ShardOf[e.guild] = s
         /\ ev' = [ev EXCEPT ![s] = e]
         /\ Goto(s, IF Dropped(e, wants) THEN "idle" ELSE FirstStep[e.kind])
         /\ batch' = [batch EXCEPT ![s] = BatchOf(e)]
    /\ delivered' = delivered + 1
    /\ UNCHANGED <<cacheVars, removeUser, prior>>

-----------------------------------------------------------------------------
(* cache_members / cache_member: each member of the batch in turn.         *)

\* The member of the batch cache_member is caching.
Cur(s) == Head(batch[s])

\* cache_member returns: go on with the next member, or to the index
\* insert that MemberAdd::update / MemberChunk::update make afterwards.
CacheMemberReturn(s) ==
    /\ batch' = [batch EXCEPT ![s] = Tail(batch[s])]
    /\ Goto(s, IF Tail(batch[s]) # <<>> THEN "cm_check"
               ELSE IF ev[s].kind = "add" THEN "add_index" ELSE "chunk_index")

\* members.get(&id): return early if the identical member is cached.
CacheMemberCheck(s) ==
    /\ pc[s] = "cm_check"
    /\ LET k == Key(s, Cur(s).user) IN
         IF k \in DOMAIN members /\ MemberEq(members[k], Cur(s))
         THEN CacheMemberReturn(s)
         ELSE Goto(s, "cu_user") /\ UNCHANGED batch
    /\ UNCHANGED <<cacheVars, ev, removeUser, prior, delivered, wants>>

\* cache_user(member.user, Some(guild_id)), first call: upsert the profile.
CacheUserProfile(s) ==
    /\ pc[s] = "cu_user"
    /\ users' = Put(users, Cur(s).user, Cur(s).profile)
    /\ Goto(s, "cu_guilds")
    /\ UNCHANGED <<members, guildMembers, userGuilds, ev, batch, removeUser,
                   prior, delivered, wants>>

\* cache_user, second call: add the guild to the user's guild set.
CacheUserGuilds(s) ==
    /\ pc[s] = "cu_guilds"
    /\ userGuilds' = EntryInsert(userGuilds, Cur(s).user, G(s))
    /\ Goto(s, "cm_insert")
    /\ UNCHANGED <<members, guildMembers, users, ev, batch, removeUser, prior,
                   delivered, wants>>

\* Mutant: the member key built as (user_id, guild_id).
CacheMemberInsertSwappedKey(s) ==
    /\ pc[s] = "cm_insert"
    /\ members' = Put(members, <<Cur(s).user, G(s)>>, CachedFromMember(Cur(s)))
    /\ Goto(s, "cm_roster")
    /\ UNCHANGED <<guildMembers, userGuilds, users, ev, batch, removeUser,
                   prior, delivered, wants>>

\* self.0.members.insert(id, cached)
CacheMemberInsert(s) ==
    /\ pc[s] = "cm_insert"
    /\ members' = Put(members, Key(s, Cur(s).user), CachedFromMember(Cur(s)))
    /\ Goto(s, "cm_roster")
    /\ UNCHANGED <<guildMembers, userGuilds, users, ev, batch, removeUser,
                   prior, delivered, wants>>

\* guild_members.entry(guild_id).or_default().insert(member_id)
CacheMemberRoster(s) ==
    /\ pc[s] = "cm_roster"
    /\ guildMembers' = EntryInsert(guildMembers, G(s), Cur(s).user)
    /\ CacheMemberReturn(s)
    /\ UNCHANGED <<members, userGuilds, users, ev, removeUser, prior, delivered, wants>>

\* MemberAdd::update after cache_member: insert the user id again.
MemberAddIndex(s) ==
    /\ pc[s] = "add_index"
    /\ guildMembers' = EntryInsert(guildMembers, G(s), ev[s].member.user)
    /\ Goto(s, "idle")
    /\ UNCHANGED <<members, userGuilds, users, ev, batch, removeUser, prior,
                   delivered, wants>>

\* MemberChunk::update after cache_members: extend the guild's set with
\* every user id of the chunk under one entry lock.
MemberChunkIndex(s) ==
    /\ pc[s] = "chunk_index"
    /\ LET ids == {m.user : m \in Range(ev[s].members)}
           old == IF G(s) \in DOMAIN guildMembers THEN guildMembers[G(s)] ELSE {}
       IN  guildMembers' = Put(guildMembers, G(s), old \cup ids)
    /\ Goto(s, "idle")
    /\ UNCHANGED <<members, userGuilds, users, ev, batch, removeUser, prior,
                   delivered, wants>>

-----------------------------------------------------------------------------
(* MemberRemove::update: four calls, each releasing its lock before the    *)
(* next; the user is removed last, on a flag computed under the            *)
(* user_guilds lock.                                                       *)

\* members.remove(&(guild_id, user.id))
MemberRemoveMember(s) ==
    /\ pc[s] = "rm_member"
    /\ members' = Drop(members, Key(s, ev[s].user))
    /\ Goto(s, "rm_roster")
    /\ UNCHANGED <<guildMembers, userGuilds, users, ev, batch, removeUser,
                   prior, delivered, wants>>

\* Mutant: the guild_members removal left out.
MemberRemoveRosterSkipped(s) ==
    /\ pc[s] = "rm_roster"
    /\ guildMembers' = guildMembers
    /\ Goto(s, "rm_guilds")
    /\ UNCHANGED <<members, userGuilds, users, ev, batch, removeUser, prior,
                   delivered, wants>>

\* guild_members.get_mut(&guild_id) and remove the user id; the entry stays
\* even when its set becomes empty.
MemberRemoveRoster(s) ==
    /\ pc[s] = "rm_roster"
    /\ guildMembers' = IF G(s) \in DOMAIN guildMembers
                       THEN [guildMembers EXCEPT ![G(s)] = @ \ {ev[s].user}]
                       ELSE guildMembers
    /\ Goto(s, "rm_guilds")
    /\ UNCHANGED <<members, userGuilds, users, ev, batch, removeUser, prior,
                   delivered, wants>>

\* user_guilds.get_mut(&user.id): remove the guild, remember whether the
\* set is now empty; the entry stays.
MemberRemoveGuilds(s) ==
    /\ pc[s] = "rm_guilds"
    /\ LET u == ev[s].user IN
         IF u \in DOMAIN userGuilds
         THEN /\ userGuilds' = [userGuilds EXCEPT ![u] = @ \ {G(s)}]
              /\ removeUser' = [removeUser EXCEPT ![s] =
                                   LeftNoGuild(userGuilds[u], G(s))]
         ELSE /\ userGuilds' = userGuilds
              /\ removeUser' = [removeUser EXCEPT ![s] = FALSE]
    /\ Goto(s, "rm_user")
    /\ UNCHANGED <<members, guildMembers, users, ev, batch, prior, delivered, wants>>

\* if remove_user { users.remove(&user.id) }
MemberRemoveUser(s) ==
    /\ pc[s] = "rm_user"
    /\ users' = IF removeUser[s] THEN Drop(users, ev[s].user) ELSE users
    /\ Goto(s, "idle")
    /\ UNCHANGED <<members, guildMembers, userGuilds, ev, batch, removeUser,
                   prior, delivered, wants>>

-----------------------------------------------------------------------------
(* MemberUpdate::update: one get_mut guard held for the whole merge; an    *)
(* update of a member that is not cached is dropped.                       *)
MemberUpdateMerge(s) ==
    /\ pc[s] = "up_merge"
    /\ LET upd == ev[s].update
           k == Key(s, upd.user)
       IN  members' = IF k \in DOMAIN members
                      THEN [members EXCEPT ![k] =
                              [@ EXCEPT !.deaf = OptOr(upd.deaf, @),
                                        !.mute = OptOr(upd.mute, @),
                                        !.nick = upd.nick,
                                        !.pending = upd.pending]]
                      ELSE members
    /\ Goto(s, "idle")
    /\ UNCHANGED <<guildMembers, userGuilds, users, ev, batch, removeUser,
                   prior, delivered, wants>>

-----------------------------------------------------------------------------
(* cache_borrowed_partial_member: the index is written before the member,  *)
(* and the user is not cached.                                             *)

PartialMemberCheck(s) ==
    /\ pc[s] = "pm_check"
    /\ LET m == ev[s].member
           k == Key(s, m.user)
       IN  Goto(s, IF k \in DOMAIN members /\ PartialEq(members[k], m)
                   THEN "idle" ELSE "pm_roster")
    /\ UNCHANGED <<cacheVars, ev, batch, removeUser, prior, delivered, wants>>

PartialMemberRoster(s) ==
    /\ pc[s] = "pm_roster"
    /\ guildMembers' = EntryInsert(guildMembers, G(s), ev[s].member.user)
    /\ Goto(s, "pm_insert")
    /\ UNCHANGED <<members, userGuilds, users, ev, batch, removeUser, prior,
                   delivered, wants>>

PartialMemberInsert(s) ==
    /\ pc[s] = "pm_insert"
    /\ members' = Put(members, Key(s, ev[s].member.user),
                      CachedFromPartial(ev[s].member))
    /\ Goto(s, "idle")
    /\ UNCHANGED <<guildMembers, userGuilds, users, ev, batch, removeUser,
                   prior, delivered, wants>>

-----------------------------------------------------------------------------
(* cache_borrowed_interaction_member: deaf and mute are read from the      *)
(* cached member under the first lookup and written by the later insert.   *)

InteractionMemberCheck(s) ==
    /\ pc[s] = "im_check"
    /\ LET m == ev[s].member
           k == Key(s, m.user)
       IN  IF k \in DOMAIN members
           THEN IF InteractionEq(members[k], m)
                THEN Goto(s, "idle") /\ prior' = prior
                ELSE /\ Goto(s, "im_roster")
                     /\ prior' = [prior EXCEPT ![s] =
                                    <<members[k].deaf, members[k].mute>>]
           ELSE Goto(s, "im_roster") /\ prior' = [prior EXCEPT ![s] = <<None, None>>]
    /\ UNCHANGED <<cacheVars, ev, batch, removeUser, delivered>>

InteractionMemberRoster(s) ==
    /\ pc[s] = "im_roster"
    /\ guildMembers' = EntryInsert(guildMembers, G(s), ev[s].member.user)
    /\ Goto(s, "im_insert")
    /\ UNCHANGED <<members, userGuilds, users, ev, batch, removeUser, prior,
                   delivered, wants>>

\* Mutant: the deaf/mute read under the get guard not carried to the insert.
InteractionMemberInsertFlagsDropped(s) ==
    /\ pc[s] = "im_insert"
    /\ members' = Put(members, Key(s, ev[s].member.user),
                      CachedFromInteraction(ev[s].member, <<None, None>>))
    /\ Goto(s, "idle")
    /\ UNCHANGED <<guildMembers, userGuilds, users, ev, batch, removeUser,
                   prior, delivered, wants>>

InteractionMemberInsert(s) ==
    /\ pc[s] = "im_insert"
    /\ members' = Put(members, Key(s, ev[s].member.user),
                      CachedFromInteraction(ev[s].member, prior[s]))
    /\ Goto(s, "idle")
    /\ UNCHANGED <<guildMembers, userGuilds, users, ev, batch, removeUser,
                   prior, delivered, wants>>

-----------------------------------------------------------------------------
\* No worker is inside a handler.
Quiescent == \A s \in Shards : pc[s] = "idle"

\* The event stream has ended and every handler has returned.
Done ==
    /\ Quiescent
    /\ delivered = MaxEvents
    /\ UNCHANGED vars

Step(s) ==
    \/ Deliver(s)
    \/ CacheMemberCheck(s) \/ CacheUserProfile(s) \/ CacheUserGuilds(s)
    \/ CacheMemberInsert(s) \/ CacheMemberRoster(s)
    \/ MemberAddIndex(s) \/ MemberChunkIndex(s)
    \/ MemberRemoveMember(s) \/ MemberRemoveRoster(s)
    \/ MemberRemoveGuilds(s) \/ MemberRemoveUser(s)
    \/ MemberUpdateMerge(s)
    \/ PartialMemberCheck(s) \/ PartialMemberRoster(s) \/ PartialMemberInsert(s)
    \/ InteractionMemberCheck(s) \/ InteractionMemberRoster(s)
    \/ InteractionMemberInsert(s)

Next == (\E s \in Shards : Step(s)) \/ Done

Spec == Init /\ [][Next]_vars

-----------------------------------------------------------------------------
(* Properties.                                                             *)

TypeOK ==
    /\ DOMAIN members \subseteq Guilds \X Users
    /\ \A k \in DOMAIN members : members[k] \in CachedMember
    /\ DOMAIN guildMembers \subseteq Guilds
    /\ \A g \in DOMAIN guildMembers : guildMembers[g] \subseteq Users
    /\ DOMAIN userGuilds \subseteq Users
    /\ \A u \in DOMAIN userGuilds : userGuilds[u] \subseteq Guilds
    /\ DOMAIN users \subseteq Users
    /\ \A u \in DOMAIN users : users[u] \in Profiles
    /\ pc \in [Shards -> Steps]
    /\ removeUser \in [Shards -> BOOLEAN]
    /\ prior \in [Shards -> Flag \X Flag]
    /\ wants \in BOOLEAN
    /\ delivered \in 0..MaxEvents

\* The cached guild member ids of guild g (guild_members(g)), empty if none.
Roster(g) == IF g \in DOMAIN guildMembers THEN guildMembers[g] ELSE {}

\* The cached guild ids of user u (user_guilds(u)), empty if none.
Membership(u) == IF u \in DOMAIN userGuilds THEN userGuilds[u] ELSE {}

\* Roster index and member table agree once every handler has returned:
\* a member is cached at (g, u) iff u is in guild_members(g).  Broken by a
\* MemberRemove, MemberAdd, MemberChunk or partial/interaction member call
\* that updates one of the two maps and not the other.
RosterMatchesMembers ==
    Quiescent =>
        \A g \in Guilds, u \in Users :
            <<g, u>> \in DOMAIN members <=> u \in Roster(g)

\* A user is cached iff its set of guilds is non-empty, once every handler
\* has returned: MemberRemove deletes the user exactly when it removes the
\* user's last guild, and cache_user re-adds both together.
UserIffMembership ==
    Quiescent =>
        \A u \in Users : u \in DOMAIN users <=> Membership(u) # {}

-----------------------------------------------------------------------------
(* What the spec says of the handlers and the code does differently; each  *)
(* is checked by a run that expects a violation.                           *)

\* Spec 4.2: an index entry whose set becomes empty is dropped.  Read of
\* MemberRemove's guild_members and user_guilds removals, which leave the
\* entry in place.
NoEmptyIndexEntry ==
    /\ \A g \in DOMAIN guildMembers : guildMembers[g] # {}
    /\ \A u \in DOMAIN userGuilds : userGuilds[u] # {}

\* Spec 3 and 4.3: a MemberAdd upserts the user profile it embeds, so when
\* the handler returns the cached profile is the event's.  About the
\* idempotency short-circuit of cache_member, which returns before
\* cache_user when the member fields are unchanged.
UserProfileRefreshed ==
    [][\A s \in Shards :
          (pc[s] = "add_index" /\ pc'[s] = "idle") =>
              /\ ev[s].member.user \in DOMAIN users'
              /\ users'[ev[s].member.user] = ev[s].member.profile]_vars

\* Spec 4.3: a member payload variant keeps, of an already cached member,
\* the fields it does not carry.  About cache_borrowed_partial_member
\* (no pending, no premium_since) and cache_borrowed_interaction_member
\* (no pending), which write constants for them.
AbsentFieldsRetained ==
    [][\A s \in Shards :
          LET k == Key(s, ev[s].member.user) IN
          (pc[s] \in {"pm_insert", "im_insert"} /\ k \in DOMAIN members) =>
              /\ members'[k].pending = members[k].pending
              /\ pc[s] = "pm_insert" => members'[k].premium = members[k].premium
      ]_vars

=============================================================================
