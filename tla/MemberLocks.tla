----------------------------- MODULE MemberLocks -----------------------------
(***************************************************************************)
(* The locks the member handlers of cache/in-memory/src/event/member.rs    *)
(* take, and nothing else.  Every DashMap call locks the shard of its key  *)
(* (a read lock for get, a write lock for get_mut, insert, remove and      *)
(* entry) and keeps it while its guard lives: to the end of the statement  *)
(* for a temporary, to the end of the if-let or match for a scrutinee, to  *)
(* the end of the function for a bound guard.  A handler is a path: the    *)
(* sequence of lock acquisitions and releases along one way through its    *)
(* code.  The data decides which way is taken; here it is a free choice.   *)
(*                                                                         *)
(* A map is one lock: every key of a map falls in the same shard.  This    *)
(* is the worst case of DashMap's hashing, and a wait-for cycle between    *)
(* per-shard locks is also one between these coarser locks.                *)
(***************************************************************************)
EXTENDS Naturals, Sequences, FiniteSets

CONSTANTS Workers,     \* the threads that run handlers on one cache
          MaxHandled,  \* bound on the number of handlers run in a behaviour
          MaxChunk     \* bound on the members of a MemberChunk

VARIABLES prog,     \* prog[w]: the lock operations worker w has still to do
          held,     \* held[w]: the locks w holds, as <<map, mode>> pairs
          handled   \* the number of handlers started

vars == <<prog, held, handled>>

\* Spec 4.3's global order: Member table, roster, membership, User table.
Rank == [members |-> 1, guild_members |-> 2, user_guilds |-> 3, users |-> 4]
Maps == DOMAIN Rank

Acq(m, mode) == [op |-> "acq", map |-> m, mode |-> mode]
Rel(m) == [op |-> "rel", map |-> m, mode |-> "-"]

\* One DashMap call whose guard is dropped before the next call.
Call(m, mode) == <<Acq(m, mode), Rel(m)>>

\* Mutant: the users entry guard kept while the membership set is written.
CacheUserNested ==
    <<Acq("users", "w")>> \o Call("user_guilds", "w") \o <<Rel("users")>>

\* cache_user, per spec 4.3: the profile upsert, then the membership insert,
\* each its own call.
CacheUser == Call("users", "w") \o Call("user_guilds", "w")

\* Mutant: the get bound to a variable, its guard alive to the end.
CacheMemberPathsGuardKept ==
    {Call("members", "r"),
     <<Acq("members", "r")>> \o CacheUser \o Call("members", "w")
        \o Call("guild_members", "w") \o <<Rel("members")>>}

\* cache_member: the get of the if-let is dropped at its end (a return when
\* the member is identical), then cache_user, the insert and the entry.
CacheMemberPaths ==
    LET check == Call("members", "r") IN
    {check, check \o CacheUser \o Call("members", "w") \o Call("guild_members", "w")}

\* cache_members: cache_member for each of k members, in order.
RECURSIVE CacheMembersPaths(_)
CacheMembersPaths(k) ==
    IF k = 0 THEN {<<>>}
    ELSE {p \o q : p \in CacheMemberPaths, q \in CacheMembersPaths(k - 1)}

\* MemberAdd::update: cache_member, then the roster entry.
MemberAddPaths == {p \o Call("guild_members", "w") : p \in CacheMemberPaths}

\* MemberChunk::update: cache_members, then the entry guard, held over the
\* extend and dropped at the end of the function.
MemberChunkPaths ==
    {p \o Call("guild_members", "w") : p \in UNION {CacheMembersPaths(k) : k \in 1..MaxChunk}}

\* MemberRemove::update: remove, get_mut of the roster, get_mut of the
\* membership set (its guard dropped at the end of the if-let), then the
\* users remove when remove_user was set.
MemberRemovePaths ==
    LET steps == Call("members", "w") \o Call("guild_members", "w")
                   \o Call("user_guilds", "w")
    IN  {steps, steps \o Call("users", "w")}

\* MemberUpdate::update: the get_mut guard, bound to member, lives to the
\* end of the function; the merge takes no other lock.
MemberUpdatePaths == {Call("members", "w")}

\* cache_borrowed_partial_member: the if-let get, then the entry and insert.
PartialMemberPaths ==
    LET check == Call("members", "r") IN
    {check, check \o Call("guild_members", "w") \o Call("members", "w")}

\* cache_borrowed_interaction_member: the get of the match is dropped at the
\* end of the let; the entry, then the insert.
InteractionMemberPaths ==
    LET check == Call("members", "r") IN
    {check, check \o Call("guild_members", "w") \o Call("members", "w")}

Paths == MemberAddPaths \cup MemberChunkPaths \cup MemberRemovePaths
           \cup MemberUpdatePaths \cup PartialMemberPaths \cup InteractionMemberPaths

Holds(v, m) == \E mode \in {"r", "w"} : <<m, mode>> \in held[v]

\* The workers whose lock on map a.map keeps a from being granted: parking_lot's
\* RwLock shares reads, excludes writes, and is not reentrant.
Blockers(a) ==
    IF a.mode = "r" THEN {v \in Workers : <<a.map, "w">> \in held[v]}
    ELSE {v \in Workers : Holds(v, a.map)}

Init ==
    /\ prog = [w \in Workers |-> <<>>]
    /\ held = [w \in Workers |-> {}]
    /\ handled = 0

\* UpdateCache::update called on an idle worker with some event.
Start(w) ==
    /\ prog[w] = <<>>
    /\ handled < MaxHandled
    /\ \E p \in Paths : prog' = [prog EXCEPT ![w] = p]
    /\ handled' = handled + 1
    /\ UNCHANGED held

Acquire(w) ==
    /\ prog[w] # <<>>
    /\ LET a == Head(prog[w]) IN
         /\ a.op = "acq"
         /\ Blockers(a) = {}
         /\ held' = [held EXCEPT ![w] = @ \cup {<<a.map, a.mode>>}]
    /\ prog' = [prog EXCEPT ![w] = Tail(@)]
    /\ UNCHANGED handled

\* A guard dropped.
Release(w) ==
    /\ prog[w] # <<>>
    /\ LET a == Head(prog[w]) IN
         /\ a.op = "rel"
         /\ held' = [held EXCEPT ![w] = {l \in @ : l[1] # a.map}]
    /\ prog' = [prog EXCEPT ![w] = Tail(@)]
    /\ UNCHANGED handled

Done ==
    /\ handled = MaxHandled
    /\ \A w \in Workers : prog[w] = <<>>
    /\ UNCHANGED vars

Next == (\E w \in Workers : Start(w) \/ Acquire(w) \/ Release(w)) \/ Done

Spec == Init /\ [][Next]_vars

-----------------------------------------------------------------------------
Waiting(w) == prog[w] # <<>> /\ Head(prog[w]).op = "acq" /\ Blockers(Head(prog[w])) # {}

\* Spec 5 and 7, and the comment at member.rs:167: whatever the handlers
\* run at once and however their calls interleave, no set of workers waits
\* only on locks its own members hold (a worker that waits on itself, for
\* a guard still alive when its handler locks the same shard again,
\* included).
NoDeadlock ==
    ~\E S \in SUBSET Workers :
        /\ S # {}
        /\ \A w \in S : Waiting(w) /\ Blockers(Head(prog[w])) \subseteq S

\* Spec 4.3: no handler acquires a lock while it holds one of the same or a
\* later map in the order Member table, roster, membership, User table;
\* checked at every acquisition a handler is about to make.
LockOrder ==
    \A w \in Workers :
        prog[w] # <<>> /\ Head(prog[w]).op = "acq" =>
            \A l \in held[w] : Rank[l[1]] < Rank[Head(prog[w]).map]

=============================================================================
