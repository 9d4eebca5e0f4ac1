CONSTANTS
    Guilds = {g1, g2}
    Users = {u1, u2}
    Shards = {s1}
    Profiles = {pa, pb}
    Nicks = {n1, n2}
    Premiums = {p1}
    None = None
    g1 = g1  g2 = g2  u1 = u1  u2 = u2  s1 = s1  s2 = s2
    pa = pa  pb = pb  n1 = n1  n2 = n2  p1 = p1
    WantsMember = {TRUE, FALSE}
    ShardOf <- MCShardOfOne
    MemberPayloads <- MCMemberPayloads
    ChunkPayloads <- MCChunkPayloads
    UpdatePayloads <- MCUpdatePayloads
    PartialPayloads <- MCPartialPayloads
    InteractionPayloads <- MCInteractionPayloads
    MaxEvents = 4
SPECIFICATION RSpec
PROPERTY RefinesAtomic
INVARIANT IdempotentAtQuiescence
INVARIANT UserIffMembership
