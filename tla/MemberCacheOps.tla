--------------------------- MODULE MemberCacheOps ---------------------------
(***************************************************************************)
(* The data of the member handlers (cache/in-memory/src/event/member.rs):  *)
(* the event payloads, the CachedMember projections each handler builds,   *)
(* the equality checks of the idempotency short-circuits, and the DashMap  *)
(* operations on partial functions.  Shared by the per-call model          *)
(* MemberCache and the atomic specification MemberCacheAtomic.             *)
(***************************************************************************)
EXTENDS Naturals, SequencesExt, TLC

CONSTANTS
    Guilds,         \* GuildId values
    Users,          \* UserId values
    Profiles,       \* the User profile (name, discriminator, avatar)
    Nicks,          \* nick; stands for the always-overwritten nick, roles, joined_at
    Premiums,       \* premium_since timestamps
    None,           \* Option::None
    WantsMember,    \* the values cache.wants(ResourceType::MEMBER) may take
    MemberPayloads,       \* Member payloads of MemberAdd and MemberChunk
    ChunkPayloads,        \* member lists of MemberChunk
    UpdatePayloads,       \* MemberUpdate payloads
    PartialPayloads,      \* PartialMember values embedded in other events
    InteractionPayloads   \* InteractionMember values of interactions

ASSUME None \notin BOOLEAN \cup Premiums
ASSUME WantsMember \subseteq BOOLEAN

Flag == BOOLEAN \cup {None}
CachedMember == [deaf: Flag, mute: Flag, nick: Nicks, pending: BOOLEAN,
                 premium: Premiums \cup {None}]

Events ==
    [kind: {"add"}, guild: Guilds, member: MemberPayloads]
    \cup [kind: {"chunk"}, guild: Guilds, members: ChunkPayloads]
    \cup [kind: {"remove"}, guild: Guilds, user: Users]
    \cup [kind: {"update"}, guild: Guilds, update: UpdatePayloads]
    \cup [kind: {"partial"}, guild: Guilds, member: PartialPayloads]
    \cup [kind: {"interaction"}, guild: Guilds, member: InteractionPayloads]

NoEvent == [kind |-> "none"]

-----------------------------------------------------------------------------
(* DashMap operations on partial functions.                                *)

\* map.insert(k, v)
Put(f, k, v) == (k :> v) @@ f

\* map.remove(&k)
Drop(f, k) == Restrict(f, DOMAIN f \ {k})

\* map.entry(k).or_default().insert(e)
EntryInsert(f, k, e) ==
    Put(f, k, (IF k \in DOMAIN f THEN f[k] ELSE {}) \cup {e})

\* Option<bool>::or
OptOr(new, old) == IF new = None THEN old ELSE new

-----------------------------------------------------------------------------
(* The projections into CachedMember and the equality checks of the        *)
(* idempotency short-circuits.                                             *)

\* CachedMember built by cache_member from a full Member.
CachedFromMember(m) ==
    [deaf |-> m.deaf, mute |-> m.mute, nick |-> m.nick,
     pending |-> m.pending, premium |-> m.premium]

\* CachedMember built by cache_borrowed_partial_member.
CachedFromPartial(m) ==
    [deaf |-> m.deaf, mute |-> m.mute, nick |-> m.nick,
     pending |-> FALSE, premium |-> None]

\* CachedMember built by cache_borrowed_interaction_member; deaf and mute
\* come from the cached member read before the inserts.
CachedFromInteraction(m, flags) ==
    [deaf |-> flags[1], mute |-> flags[2], nick |-> m.nick,
     pending |-> FALSE, premium |-> m.premium]

\* CachedMember == Member: every field the cached member keeps.
MemberEq(c, m) == c = CachedFromMember(m)

\* CachedMember == PartialMember: the fields a PartialMember carries.
PartialEq(c, m) == c.deaf = m.deaf /\ c.mute = m.mute /\ c.nick = m.nick

\* CachedMember == InteractionMember: the fields an InteractionMember carries.
InteractionEq(c, m) == c.nick = m.nick /\ c.premium = m.premium

\* Mutant: remove_user taken from the set before the guild is removed.
LeftNoGuildEarly(set, g) == set = {}

\* Mutant: a `let remove_user` inside the if-let shadows the outer flag,
\* which stays false.
LeftNoGuildShadowed(set, g) == FALSE

\* remove_user of MemberRemove::update: the user's guild set is empty once
\* the guild is removed from it.
LeftNoGuild(set, g) == set \ {g} = {}

\* The gate of MemberAdd, MemberChunk, MemberRemove and MemberUpdate, and
\* MemberChunk's return on an empty member list; wants is
\* cache.wants(ResourceType::MEMBER), set once, when the cache is built.
Dropped(e, wants) ==
    \/ e.kind \in {"add", "chunk", "remove", "update"} /\ ~wants
    \/ e.kind = "chunk" /\ e.members = <<>>

=============================================================================
