# TLA+ models of the twilight sources in this repository

This directory holds TLA+ models of this repository's sources and the TLC configurations that check them. The core is the in-memory cache's member handlers (`src/cache/in-memory/src/event/member.rs`). These are concurrent updates of several shared maps, and that is where the hard behaviour is. The second part is the HTTP client's error bodies (`src/http/src/api_error.rs`). The third is the serde of the gateway payload `InviteCreate` (`src/model/src/gateway/payload/invite_create.rs`).

## 1. Inventory

### Components

| Component | Source | State | Operations |
|---|---|---|---|
| Member event handlers | `cache/in-memory/src/event/member.rs` | the cache's `members`, `guild_members`, `user_guilds` and `users` DashMaps | `cache_members`, `cache_member`, `cache_borrowed_partial_member`, `cache_borrowed_interaction_member`, `UpdateCache::update` for `MemberAdd`, `MemberChunk`, `MemberRemove` and `MemberUpdate` |
| User store and membership index | `cache_user` (not under `src/`, spec §4.3) | `users`, `user_guilds` | upsert the profile, then add the guild to the user's set |
| Other entity kinds (guilds, roles, ...) | not in this repository | — | — (not modelled) |
| Query facade | not under `src/` | none | read-only accessors (not modelled) |
| HTTP API error bodies | `http/src/api_error.rs` | none: pure values | `ErrorCode::num`, `From<u64>`, serde `Serialize`/`Deserialize` of `ErrorCode` and of the untagged `ApiError`, `RatelimitedApiError`'s `PartialEq`, the `Display` impls |
| `InviteCreate` payload | `model/src/gateway/payload/invite_create.rs` | none: pure values | derived `Serialize`/`Deserialize` of `InviteCreate` and `PartialUser` |
| `CreateGlobalMessageCommand` | `http/.../create_global_command/message.rs` | one optional flag | builder, then a REST request (not modelled: the REST layer is out of scope) |

### How the components interact

Gateway events reach the cache through `UpdateCache::update`. Each shard has a worker that applies its events in order, and the workers of different shards share one cache (spec §5). A guild's events always arrive on that guild's shard. So one worker writes the `members` and `guild_members` entries of a guild. A *user*, however, can be in guilds on several shards. That makes the user's `users` and `user_guilds` entries the state that workers share. A DashMap locks one bucket for the length of one call. No handler holds a guard across two calls (`member_locks` checks this, see `MemberLocks`). A handler that makes four calls is therefore four separate critical sections, and other workers can run between them.

`cache_member` calls `cache_user`, which writes `users` and `user_guilds`. `MemberRemove` undoes the same writes in the order members → guild_members → user_guilds → users. It decides whether to delete the user under the `user_guilds` lock and deletes the user after releasing that lock (member.rs:167-179).

### Hard behaviours

* Workers of different shards interleave on the same user's entries. The `remove_user` flag is read under one lock and used after it is released.
* `MemberRemove` is four steps, not a transaction. The partial and interaction variants write the roster before the member, while `cache_member` writes the member first.
* The idempotency short-circuit in `cache_member` returns before `cache_user`.
* The three payload variants each overwrite a different set of fields.
* A gateway may deliver an event twice (a replay after a resume). The handlers must then be idempotent (spec §8).
* In `api_error.rs`, two hand-maintained tables of 127 arms (`num` and `From<u64>`) must be inverse to each other. Codes above 65535 need a wide integer on the wire. `MessageApiError`'s Display has an index-based separator. `ApiError` is `#[serde(untagged)]`, so the order of its variants decides what a body decodes to.

### Correctness properties per component

* **Member handlers:** The model checks two consistency conditions at every quiescent point: member(g,u) ⟺ u ∈ roster(g), and user(u) ⟺ membership(u) ≠ ∅. The spec does not state them in these words; they are what the handlers' cascade (spec §8) is written to keep. A condition g ∈ membership(u) ⇒ member(g,u) is not one of them: `test_cache_user_guild_state` builds a membership with no member through `cache_user` alone. Each event must have the effect of its whole handler applied at once. A chunk must equal its members added one at a time, and an event applied twice must change nothing (§4.3, §8). Other spec requirements are that no index entry is left with an empty set (§4.2), that an add refreshes the user profile (§3), and that a payload variant keeps the fields it does not carry (§4.3).
* **API errors:** serialize ∘ deserialize and deserialize ∘ serialize are the identity, for `ErrorCode` and for each `ApiError` variant. For `ErrorCode` this holds on the values the code produces: `Other(n)` with a registered `n` is never built by `From<u64>`, so it is not an input. Embed fields are shown separated by ", ".

## 2. Modules

### `MemberCacheOps.tla`

The data shared by the member modules, all constant-level:
* the constants (guilds, users, profiles, payload sets);
* the event records;
* the `CachedMember` projections (`CachedFromMember`, `CachedFromPartial`, `CachedFromInteraction`);
* the short-circuit equalities (`MemberEq`, `PartialEq`, `InteractionEq`);
* the DashMap operations (`Put`, `Drop`, `EntryInsert`);
* the gate (`Dropped`).

`MC_MemberCacheValues.tla` gives these constants their values for TLC. `MC_MemberCache` and `MC_MemberCacheRefinement` extend it together with the module they check.

### `MemberCache.tla` (+ `MC_MemberCache.tla`)

**Maps as partial functions.** Each DashMap is a partial function: a key is in the `DOMAIN` iff the map has an entry for it. `Put`, `Drop` and `EntryInsert` model `insert`, `remove` and `entry().or_default().insert()`. An entry whose set becomes empty stays in the `DOMAIN`, as in the code.

**Workers.** There is one worker per shard. `pc[s]` names the DashMap call that worker `s` makes next, and `ev[s]` is the event it is applying. Local variables of the Rust code become per-worker variables:
* `batch`: what `cache_members` still has to cache;
* `removeUser`: `remove_user`;
* `prior`: the `(deaf, mute)` of the interaction variant.

**Actions.** Each action is one call of the code, named after its handler:
* `CacheMemberCheck` (member.rs:21-29)
* `CacheUserProfile` and `CacheUserGuilds` (the two writes of `cache_user`)
* `CacheMemberInsert` and `CacheMemberRoster` (45-50)
* `MemberAddIndex` (130-135) and `MemberChunkIndex` (149-151)
* `MemberRemoveMember`, `MemberRemoveRoster`, `MemberRemoveGuilds` and `MemberRemoveUser` (161-179)
* `MemberUpdateMerge` (183-200), a single step because one `get_mut` guard covers the whole merge
* `PartialMember*` (53-84) and `InteractionMember*` (87-118)

**Delivery.** `Deliver` takes the next event of a guild on the worker's shard and applies the resource gate and the empty-chunk return. The gate flag `wants` is chosen in `Init` and never changes, because the resource types are fixed when the cache is built.

**Payload abstraction.** A payload keeps the fields that the handlers treat differently:
* `deaf` and `mute`, which are merged with `Option::or`;
* `nick`, which stands for the always-overwritten nick, roles and joined_at;
* `pending` and `premium`, which the variants reset.

The user profile is a model value.

**Spec-modelled parts.** `cache_user` and the `PartialEq` impls between `CachedMember` and the three payload types are not under `src/`. They are modelled from the spec and marked `spec_modelled` in PROJECT.json.

### `MemberCacheAtomic.tla`

This is the abstract specification: what the handlers promise. A cache state is a record of the four maps. Each handler is an operator from one cache state to the next:
* `CacheMember`, `OnAdd`, `OnChunk`, `OnRemove`, `OnUpdate`, `OnPartial` and `OnInteraction` make the same map updates as the code's calls, applied together;
* `Apply` dispatches an event to its handler;
* `Handle(e)` applies an event that the gate lets through, in one step.

`OnChunk` is stated the way spec §8 states bulk equivalence, not the way the code does it: it folds `OnAdd` over the chunk's members. The module's own property is `Idempotent`. `MemberCacheRefinement` checks it as `IdempotentAtQuiescence` over every cache the per-call handlers leave when the worker is idle.

### `MemberCacheRefinement.tla` (+ `MC_MemberCacheRefinement.tla`)

This module shows that `MemberCache` implements `MemberCacheAtomic` when one worker applies all events. It adds one history variable, `snap`: the cache as it was when the worker was last idle. The refinement mapping gives `MemberCacheAtomic` the maps of `snap`. As a result:
* the steps inside a handler are stuttering steps of the abstract spec;
* the step that returns the worker to idle is one abstract `Handle` step.

`RefinesAtomic` is `Atomic!Spec`, checked under `RSpec` (the spec with `snap`).

### `ApiError.tla` (+ `MC_ApiError.tla`)

`NumArms` and `FromArms` are the two match tables, copied arm by arm. `Num` and `FromCode` take the first matching arm, with `Other(n)` as the fallback. A value moves through a pipeline:
* `Deserialize`: the visitor of the width the number arrived in, which widens it with `u64::from`;
* `Serialize`: `serialize_u64(num())`;
* `Format`: `Display` of a `MessageApiError`.

A second pipeline covers the untagged `ApiError`:
* `SerializeApi` (`ToJson`) writes the inner struct's fields;
* `DeserializeApi` (`FromJson`) tries `General`, `Message` and `Ratelimited` in declaration order and takes the first whose derived `Deserialize` accepts the object (`GeneralFits`, `MessageFits`, `RatelimitedFits`). A missing `Option` field reads as `None`, and unknown fields are ignored.

`ApiEq` is the derived `PartialEq`, with `RatelimitedApiError`'s hand-written one, which ignores `retry_after`.

Each pipeline repeats up to `MaxTrips` times. `seenWire` and `seenCode` record every form the value has had. The Display output is an actual string, built by the same loop as the code.

### `MemberLocks.tla` (+ `MC_MemberLocks.tla`)

This module models the locks the member handlers take, and no data. Every DashMap call locks its key's shard: a read lock for `get`, a write lock for `get_mut`, `insert`, `remove` and `entry`. The lock is held while the call's guard lives, and Rust's scoping rules decide how long that is:
* a temporary guard lives to the end of its statement;
* the scrutinee of an `if let` or `match` lives to the end of that block;
* a guard bound with `let` lives to the end of the function (`MemberUpdate`'s `member`, `MemberChunk`'s `guild`).

A handler is modelled as its *paths*. A path is the sequence of `Acq` and `Rel` operations along one way through the code, for example with or without the short-circuit return, or with or without `remove_user`. `cache_members` is `RECURSIVE` over the number of members. `cache_user` follows spec §4.3.

Each map is one lock, as if every key fell into one shard. That is DashMap's worst case. A wait-for cycle among per-shard locks maps to a cycle among these coarser locks, so the absence of deadlock shown here carries over to the real sharding.

Per worker, `prog[w]` is the rest of its path and `held[w]` is the set of locks it holds. `Blockers` is parking_lot's `RwLock` rule: reads are shared, writes exclude everything, and the lock is not reentrant. So a worker that asks for a lock it already holds blocks on itself. `Acquire` is enabled only when there are no blockers. A real deadlock would therefore also stop TLC's deadlock check. The `NoDeadlock` invariant reports such a state as soon as it is reached.

### `InviteCreate.tla` (+ `MC_InviteCreate.tla`)

The derived serde of the gateway payload, stated over serde_test's tokens (`Tok`). A struct is written as:
* a `Struct` token with the length the serializer announces;
* a key and a value for each field written;
* a `StructEnd` token.

`Serialize` (through `EncodeAs`) writes the fields in declaration order. It skips the `skip_serializing_if` Options (`InviteSkip`) when they are `None`. Ids are a newtype around their number written as a string, and a `PartialUser` is a nested struct.

`Deserialize` (`DeFields`) is the derived `visit_map`:
* keys may come in any order;
* an unknown key's value is skipped;
* a repeated key fails;
* at `StructEnd` (`Finish`), a missing `Option` is `None` and any other missing field fails.

Integers of either width are accepted if the value fits the field, so `uses` must fit a `u8`. `User` and `TargetType` are outside this repository and are opaque here.

`GatewayForms` are the forms Discord's JSON can give the same value:
* declaration order or its reverse;
* skipped Options absent or sent as null;
* with or without the undeclared key `target_type`.

The pipeline takes a value and writes it, by serde (`WriteSerde`) or by the gateway (`WriteGateway`), then reads it back (`Read`). The tests' values are definitions (`TestInviteCreate`, `TestPartialUser`, from `invite_create.rs:113-165`); `MC_InviteCreate` varies every `Option` around them. The gateway forms are an assumption about Discord's JSON, which neither the code nor spec.md describes.

## 3. Runs

Every run uses `MC_<Module>.tla` with the named `.cfg`.

| Run | Expect | Checks | Shows |
|---|---|---|---|
| `member_shards` | pass | TypeOK, RosterMatchesMembers | 2 shards, one guild each, gate open, up to 5 events: per-guild state stays consistent under parallel workers (5.3M states, about 1 minute). |
| `member_shards_user` | violation | UserIffMembership | A race between shards loses a user (finding 1). |
| `member_empty_index` | violation | NoEmptyIndexEntry | Empty index sets are left behind (finding 2). |
| `member_profile` | violation | UserProfileRefreshed | An unchanged member with a changed profile does not refresh the user (finding 3). |
| `member_absent_fields` | violation | AbsentFieldsRetained | A PartialMember resets pending/premium_since (finding 4). |
| `member_refinement` | pass | UserIffMembership, RefinesAtomic, IdempotentAtQuiescence | 1 shard, 2 guilds, 2 users, 2 profiles, gate on or off, up to 4 events of every kind. When the worker is idle, a user is cached iff its membership set is non-empty: the sequential remove cascade of spec §8 is right, and the failure of `member_shards_user` needs two workers. The per-call handlers implement the atomic ones: each handler's calls together have the handler's effect, and a chunk equals its members added one at a time. From every cache reached with the worker idle, any event applied twice in a row changes nothing (205k states). |
| `member_locks` | pass | NoDeadlock, LockOrder | 3 workers, 4 handlers in total, chunks of 1 or 2 members. However the handlers' DashMap calls interleave, with every guard held as long as its Rust scope keeps it, no set of workers waits only on each other, and no handler locks a map of the same or an earlier rank in spec §4.3's order while it holds another (68k states). |
| `invite_roundtrip` | pass | DecodeInverts | 24 InviteCreate values: every combination of `inviter`, `target_user_type` and `target_user` present or absent, with the nested `PartialUser` with or without `avatar`, and `temporary` both ways. Each decodes back to itself from serde's tokens and from all 8 gateway forms. (424 states). |
| `api_roundtrip` | pass | TypeOK, RoundTripStable | Every registered code and 4 unregistered ones, at every width, survive two round trips. TypeOK also checks that the number fits the width it is written in. |
| `api_embed` | violation | EmbedFieldsSeparated | `[Fields]` is shown as `embed (fields, )` (finding 5). |
| `api_body` | violation | BodyRoundTrip | An `ApiError::Ratelimited` comes back from serde as `ApiError::Message { embed: None }` (finding 6). |

### Findings

1. **`MemberRemove` races a `MemberAdd` of the same user on another shard** (member.rs:177). Shard 1 removes the user's last guild and sets `remove_user`. Shard 2 re-caches the user for its own guild. Shard 1 then deletes the user. The user ends up in `user_guilds` and in the roster of shard 2's guild, with a cached member and no cached `User`. TLC's trace has 20 states.
2. **Empty entries are kept** (member.rs:164, 172). `guild_members(g)` becomes `Some({})` instead of `None`, against spec §4.2.
3. **No profile refresh** (member.rs:26). The `cache_member` short-circuit skips `cache_user`, against spec §3.
4. **Absent fields are overwritten** (member.rs:79-80, 112). The partial and interaction variants overwrite fields they do not carry, against spec §4.3.
5. **Separator after the last field** (api_error.rs:781). `MessageApiError`'s Display writes ", " after the last field instead of between fields.
6. **`ApiError::Ratelimited` is never deserialized** (api_error.rs:729). The untagged enum tries `Message` before `Ratelimited`. `MessageApiError`'s only field is an `Option`, so it accepts any object. A rate-limit body `{global, message, retry_after}` therefore decodes as `Message { embed: None }`, and its Display reads "message fields invalid: ". `test_api_error_ratelimited` tests the inner struct only, so it does not notice.

### Bounds and why they are enough

**Member model.** Two guilds and two users are the fewest that give a user in two guilds and a guild with two members. Those are the cases the cascade and the chunk need. Two profiles make a changed profile possible. The payload sets let an update supply or omit `deaf`, set `pending` and change `nick`. They also include an empty chunk and a chunk of both users. Four events reach the following sequences:
* add → add (with or without a change);
* add → update → partial;
* add(g1) → add(g2) → remove(g1) → remove(g2), the cascade of spec §8.

The cross-shard race needs only three events. `member_shards` fixes the gate open and allows five events. A remove then has room to interleave with an add or a two-member chunk on the other shard, after both guilds have been populated.

**Lock model.** Three workers make a wait-for cycle of length three possible. Four handlers let one worker start a second handler while the others are still in their first. Chunks of two members give `cache_members` its loop. Every path of every handler is enumerated, so every pair of calls that can overlap does.

**ApiError model.** It enumerates every registered code exhaustively.

**InviteCreate model.** The values are the tests' values with every `Option` varied. Those are the only fields whose presence changes the token stream. The scalar fields only pass through.

### Fairness

No run checks a liveness property. Every handler in `member.rs` is a fixed, finite sequence of non-blocking DashMap calls (the loop of `cache_members` runs over a `Vec`), so that a started handler returns is a fact of the code's shape, not something interleaving could break; a property stating it would hold by the model's shape. All runs check safety only. `member_locks` checks for deadlock with an invariant and with TLC's own deadlock check. Its `Done` step stutters only after every worker has finished its path. TLC's deadlock check is on in every run. When the bounded event stream ends, `Done` stutters.

### Not modelled, and why

* **Handlers for other entity kinds and the query facade:** not in this repository.
* **Wording of error messages:** no property depends on it.
* **`CreateGlobalMessageCommand`:** a builder that sets one optional flag and sends one request. The request layer (`Request::builder`, `Client::request`) is not under `src/`, so there is no state or interleaving to check.
* **The stale `deaf`/`mute` read of `cache_borrowed_interaction_member` under two workers:** it can only bite if two workers apply the same guild's events, which the per-guild shard rules out. Under one worker, `RefinesAtomic` checks that the read and the later insert have the atomic handler's effect.
* **The unit tests:** single scenarios; the runs check the same functions over all bounded inputs, and restating a test's assertions as a property would check nothing the test does not. One weakness is worth noting: the bulk-insert half of `test_cache_guild_member` asserts on `GuildId(1)`, so it would pass even if `cache_members` did nothing for `GuildId(2)`. `RefinesAtomic` covers the bulk insert instead.
