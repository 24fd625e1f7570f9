------------------------------ MODULE RdKeyPool ------------------------------
(***************************************************************************)
(* The Real-Debrid keys: the round robin that picks one for each call, the *)
(* five-minute lockouts, the requests of /api/keys that add and delete     *)
(* keys, and keys.json, from which a restart rebuilds the pool.            *)
(*                                                                         *)
(* A pool is one RealDebridProvider in debridProviders.  There should be   *)
(* one, but serveAPIKeys looks for it and appends a new one in two         *)
(* critical sections.  Only the first is ever used to call Real-Debrid.    *)
(***************************************************************************)
EXTENDS Naturals, Sequences, SequencesExt, FiniteSetsExt

CONSTANTS
    Tokens,      \* the API keys there are
    NoToken,
    EnvTokens,   \* those that RD_API_KEY may list
    Masks,       \* displayed forms "abcd...wxyz" of the keys
    Mask,        \* Mask[t]: the displayed form of t
    Admins,      \* concurrent requests to /api/keys
    Callers,     \* concurrent calls to Real-Debrid
    Period       \* TokenIdx is kept modulo Period

\* Period is a multiple of every length a pool can have, so the key at
\* TokenIdx % len(Keys) is the one the unbounded counter would give.
ASSUME KeyAssumption ==
    /\ IsFiniteSet(Tokens)
    /\ NoToken \notin Tokens
    /\ EnvTokens \subseteq Tokens
    /\ Masks \cap Tokens = {}
    /\ Mask \in [Tokens -> Masks]
    /\ Period \in Nat \ {0}
    /\ \A n \in 1..Cardinality(Tokens) : Period % n = 0

VARIABLES
    env,      \* the keys in RD_API_KEY, fixed while the process runs
    pools,    \* the Real-Debrid entries of debridProviders, in order
    disk,     \* contents of keys.json
    admin,    \* where each /api/keys request stands
    holding   \* the key each call in progress was given

vars == <<env, pools, disk, admin, holding>>

Pool == [keys : Seq(Tokens), locked : SUBSET Tokens, idx : 0..(Period - 1)]

NewPool(keys) == [keys |-> keys, locked |-> {}, idx |-> 0]

\* The loop that keeps, in order, the keys of s that are not in gone.
Without(s, gone) ==
    LET kept[n \in 0..Len(s)] ==
          IF n = 0 THEN <<>>
          ELSE IF s[n] \in gone THEN kept[n - 1] ELSE Append(kept[n - 1], s[n])
    IN  kept[Len(s)]

\* initDebridPools: the environment's keys, then those of the file it lacks.
BootKeys(listed, file) ==
    SetToSeq(listed) \o Without(file, listed)

BootPools(listed, file) ==
    LET keys == BootKeys(listed, file)
    IN  IF keys = <<>> THEN <<>> ELSE <<NewPool(keys)>>

Idle == [pc |-> "idle", pool |-> 0]

TypeOK ==
    /\ env \subseteq EnvTokens
    /\ pools \in Seq(Pool)
    /\ \A i \in DOMAIN pools : IsInjective(pools[i].keys)
    /\ disk \in Seq(Tokens)
    /\ admin \in [Admins -> [pc : {"idle", "missing", "found"}, pool : 0..Len(pools)]]
    /\ holding \in [Callers -> Tokens \cup {NoToken}]

\* keys.json may hold a key that has since been moved to the environment.
Init ==
    /\ env \in SUBSET EnvTokens
    /\ disk \in {<<>>} \cup {<<t>> : t \in Tokens}
    /\ pools = BootPools(env, disk)
    /\ admin = [a \in Admins |-> Idle]
    /\ holding = [c \in Callers |-> NoToken]

-----------------------------------------------------------------------------
(* getActiveToken.                                                         *)

KeyAt(p, i) == p.keys[((p.idx + i) % Len(p.keys)) + 1]

StepsFromCurrent(p) ==
    LET free == {i \in 0..(Len(p.keys) - 1) : KeyAt(p, i) \notin p.locked}
    IN  IF free = {} THEN Len(p.keys) + 1 ELSE Min(free)

StepsUntilLocked(p) == 1

\* How often TokenIdx is incremented: up to the first free key, or once more
\* than there are keys when all are locked.
Steps(p) ==
    LET free == {i \in 1..Len(p.keys) : KeyAt(p, i) \notin p.locked}
    IN  IF free = {} THEN Len(p.keys) + 1 ELSE Min(free)

Pick(c) ==
    /\ holding[c] = NoToken
    /\ pools # <<>>
    /\ pools[1].keys # <<>>
    /\ holding' = [holding EXCEPT ![c] = KeyAt(pools[1], Steps(pools[1]))]
    /\ pools' = [pools EXCEPT ![1].idx = (@ + Steps(pools[1])) % Period]
    /\ UNCHANGED <<env, disk, admin>>

ReportBlindly(c) ==
    /\ holding[c] # NoToken
    /\ pools' = [pools EXCEPT ![1].locked = @ \cup {holding[c]}]
    /\ holding' = [holding EXCEPT ![c] = NoToken]
    /\ UNCHANGED <<env, disk, admin>>

\* reportError after 429 or 503: lock the key, if the pool still has it.
ReportLimited(c) ==
    /\ holding[c] # NoToken
    /\ pools' = IF holding[c] \in ToSet(pools[1].keys)
                THEN [pools EXCEPT ![1].locked = @ \cup {holding[c]}]
                ELSE pools
    /\ holding' = [holding EXCEPT ![c] = NoToken]
    /\ UNCHANGED <<env, disk, admin>>

\* Any other answer, a link found in the cache, or a call that does not report.
Answer(c) ==
    /\ holding[c] # NoToken
    /\ holding' = [holding EXCEPT ![c] = NoToken]
    /\ UNCHANGED <<env, pools, disk, admin>>

LockoutEnds(i, t) ==
    /\ t \in pools[i].locked
    /\ pools' = [pools EXCEPT ![i].locked = @ \ {t}]
    /\ UNCHANGED <<env, disk, admin, holding>>

-----------------------------------------------------------------------------
(* serveAPIKeys.                                                           *)

Find(a) ==
    /\ admin[a].pc = "idle"
    /\ admin' = [admin EXCEPT ![a] = IF pools = <<>> THEN [pc |-> "missing", pool |-> 0]
                                                     ELSE [pc |-> "found", pool |-> 1]]
    /\ UNCHANGED <<env, pools, disk, holding>>

\* The list is not searched again before the new pool is appended.
Create(a) ==
    /\ admin[a].pc = "missing"
    /\ pools' = Append(pools, NewPool(<<>>))
    /\ admin' = [admin EXCEPT ![a] = [pc |-> "found", pool |-> Len(pools) + 1]]
    /\ UNCHANGED <<env, disk, holding>>

SavedNothing(keys) == disk

\* Keys of the environment are not written to keys.json.
Saved(keys) == Without(keys, env)

SetKeys(a, keys) ==
    /\ pools' = [pools EXCEPT ![admin[a].pool].keys = keys,
                              ![admin[a].pool].locked = @ \cap ToSet(keys)]
    /\ disk' = Saved(keys)

AddKeyAgain(a, t) ==
    /\ admin[a].pc = "found"
    /\ Len(pools[admin[a].pool].keys) < 4
    /\ SetKeys(a, Append(pools[admin[a].pool].keys, t))
    /\ admin' = [admin EXCEPT ![a] = Idle]
    /\ UNCHANGED <<env, holding>>

AddKey(a, t) ==
    LET keys == pools[admin[a].pool].keys
    IN  /\ admin[a].pc = "found"
        /\ t \notin ToSet(keys)
        /\ SetKeys(a, Append(keys, t))
        /\ admin' = [admin EXCEPT ![a] = Idle]
        /\ UNCHANGED <<env, holding>>

\* name is a key or a displayed form, which is what the UI sends; all keys it
\* matches go.  Only a name that occurs in RD_API_KEY is refused.
DeleteKey(a, name) ==
    /\ admin[a].pc = "found"
    /\ name \notin env
    /\ SetKeys(a, Without(pools[admin[a].pool].keys,
                          {t \in Tokens : t = name \/ Mask[t] = name}))
    /\ admin' = [admin EXCEPT ![a] = Idle]
    /\ UNCHANGED <<env, holding>>

\* GET, a refused request, or a key that is already there.
NoChange(a) ==
    /\ admin[a].pc = "found"
    /\ admin' = [admin EXCEPT ![a] = Idle]
    /\ UNCHANGED <<env, pools, disk, holding>>

\* The process starts again, maybe with another RD_API_KEY.
Restart ==
    /\ env' \in SUBSET EnvTokens
    /\ pools' = BootPools(env', disk)
    /\ admin' = [a \in Admins |-> Idle]
    /\ holding' = [c \in Callers |-> NoToken]
    /\ UNCHANGED disk

-----------------------------------------------------------------------------
Call(c) == Pick(c) \/ ReportLimited(c) \/ Answer(c)

Administer(a) ==
    \/ Find(a)
    \/ Create(a)
    \/ \E t \in Tokens : AddKey(a, t)
    \/ \E name \in Tokens \cup Masks : DeleteKey(a, name)
    \/ NoChange(a)

Next ==
    \/ \E c \in Callers : Call(c)
    \/ \E i \in DOMAIN pools, t \in Tokens : LockoutEnds(i, t)
    \/ \E a \in Admins : Administer(a)
    \/ Restart

Spec == Init /\ [][Next]_vars

-----------------------------------------------------------------------------
(* Properties.                                                             *)

Picked(c) == holding[c] = NoToken /\ holding'[c] # NoToken

\* getActiveToken returns a key that is locked out only when all are, whatever
\* was added, deleted or locked since the counter was last moved
\* (debrid.go:178-188).
LockedKeysAreLastResort ==
    [][\A c \in Callers :
         Picked(c) /\ holding'[c] \in pools[1].locked
         => ToSet(pools[1].keys) \subseteq pools[1].locked]_vars

\* How many increments of TokenIdx away the key t of p is.
Distance(p, t) == Min({i \in 1..Len(p.keys) : KeyAt(p, i) = t})

\* "round-robin load balancing" (docs/troubleshooting.md:10): a pick brings
\* every other key that is not locked out closer to its turn, so that no such
\* key waits for more than as many picks as there are keys.
EveryFreeKeyComesCloser ==
    [][\A c \in Callers : Picked(c) =>
         \A t \in ToSet(pools[1].keys) \ pools[1].locked :
             t # holding'[c] => Distance(pools'[1], t) < Distance(pools[1], t)]_vars

\* A key that was not in a pool enters it without a lockout (api.go:222), even
\* one that a call was still using, or was locked out, when it was deleted: the
\* call may report its limit before or after the key is back, and a report
\* about a key that is gone leaves nothing behind (debrid.go:191-207).
AddedKeysAreFree ==
    [][\A i \in DOMAIN pools' : \A t \in ToSet(pools'[i].keys) :
         i \notin DOMAIN pools \/ t \notin ToSet(pools[i].keys)
         => t \notin pools'[i].locked]_vars

\* A restart loads the keys in use and those of the environment, and no
\* others, as long as there is one pool: keys.json is kept in step by every
\* request, though it leaves out the environment's keys and may at first hold
\* some of them (api.go:239-250 and 281-287).
RestartKeepsKeys ==
    Len(pools) = 1 =>
        ToSet(BootKeys(env, disk)) = ToSet(pools[1].keys) \cup env
=============================================================================
