------------------------ MODULE MC_MemberCacheValues ------------------------
(* Constants of the member models for TLC: two guilds, two users, one or *)
(* two shards, two profiles and two nicks, and small payload sets that  *)
(* let an add be repeated identically or with a changed profile, an     *)
(* update supply or omit deaf, and a chunk cover both users.           *)
EXTENDS MemberCacheOps

CONSTANTS g1, g2, u1, u2, s1, s2, pa, pb, n1, n2, p1

\* A full Member payload of user u with profile p.
FullMember(u, p) ==
    [user |-> u, profile |-> p, deaf |-> FALSE, mute |-> FALSE, nick |-> n1,
     pending |-> FALSE, premium |-> None]

MCMemberPayloads == {FullMember(u, p) : u \in Users, p \in Profiles}

MCChunkPayloads == {<<>>, <<FullMember(u1, pa), FullMember(u2, pa)>>}

MCUpdatePayloads ==
    [user: Users, deaf: {None, TRUE}, mute: {None}, nick: {n2}, pending: {TRUE}]

MCPartialPayloads == [user: Users, deaf: {FALSE}, mute: {FALSE}, nick: {n2}]

MCInteractionPayloads == [user: Users, nick: {n2}, premium: {None}]

\* One shard carrying both guilds: every handler runs to completion before
\* the next starts.
MCShardOfOne == [g \in Guilds |-> s1]

\* Each guild on its own shard.
MCShardOfTwo == (g1 :> s1) @@ (g2 :> s2)

=============================================================================
