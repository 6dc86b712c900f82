------------------------------ MODULE AuthKeys ------------------------------
(***************************************************************************)
(* The authentication provider (core/auth.rs): the stream keys with their  *)
(* fast-lookup index, the admin tokens, the tracker of failed attempts per *)
(* address, the calls of the control API and of RTMP connections that use  *)
(* them, and the reload of the configuration (main.rs).                    *)
(*                                                                         *)
(* A key is a model value and its bcrypt hash is the key itself; the fast  *)
(* index hash is HashOf, which may collide.  Each action is one section    *)
(* under one of the three locks.  Time is kept as ages and remaining       *)
(* seconds, advanced by Tick.                                              *)
(***************************************************************************)
EXTENDS Integers, Sequences, FiniteSets

CONSTANTS
    Configs,      \* configurations an operator may write: [keys, tokens]
    ApiKeys,      \* plaintexts generate_random_token() may return
    HashOf,       \* fast_key_hash()
    Streams,      \* stream identifiers
    Tokens,       \* bearer tokens an admin may send
    Admins,       \* concurrent control API requests
    Clients,      \* concurrent RTMP connections
    Addresses,    \* their addresses
    IpOf,         \* the address of a client
    NoStream,     \* stream_id: None
    NoToken,      \* a request without a well-formed Authorization header
    MaxAttempts,  \* BRUTE_FORCE_MAX_ATTEMPTS
    Window,       \* BRUTE_FORCE_WINDOW_SECS
    Block         \* BRUTE_FORCE_BLOCK_SECS

KeysOf(list) == {list[i] : i \in DOMAIN list}

ConfigKeys == UNION {KeysOf(c.keys) : c \in Configs}
Keys == ConfigKeys \cup ApiKeys

\* Random keys are fresh, and a block (300 s) outlives the window that led to
\* it (60 s).
ASSUME AuthAssumption ==
    /\ \A c \in Configs : c.keys \in Seq(ConfigKeys)
    /\ ApiKeys \cap ConfigKeys = {}
    /\ DOMAIN HashOf = Keys
    /\ IpOf \in [Clients -> Addresses]
    /\ IsFiniteSet(Clients) /\ IsFiniteSet(Admins)
    /\ NoStream \notin Streams /\ NoToken \notin Tokens
    /\ MaxAttempts \in Nat \ {0}
    /\ Window \in Nat \ {0} /\ Block \in Nat /\ Block > Window

VARIABLES
    store,        \* ingest_keys: [keys, index]
    tokens,       \* admin_tokens
    tracker,      \* brute_force_tracker: per address, an entry or NoEntry
    config,       \* the configuration applied by the reload task, and its step
    known,        \* streams the state manager knows
    made,         \* API keys generated so far
    admin,        \* per request: [pc, stream, token]
    client,       \* per connection: where validate_stream_key_with_ip() is
    overlapped    \* history: streams two rotations of which have overlapped
                  \* since the last one that ran alone

vars == <<store, tokens, tracker, config, known, made, admin, client, overlapped>>

NoEntry == [attempts |-> 0, age |-> 0, block |-> 0]
NoRequest == [pc |-> "idle", stream |-> NoStream, token |-> NoToken]

----------------------------------------------------------------------------
(* IngestKeyStore *)

HashAt(keys, i) == HashOf[keys[i].key]

\* The last position of a hash wins.
RebuildIndex(keys) ==
    [h \in {HashAt(keys, i) : i \in DOMAIN keys} |->
        CHOOSE i \in DOMAIN keys :
            /\ HashAt(keys, i) = h
            /\ \A j \in DOMAIN keys : HashAt(keys, j) = h => j <= i]

Push(s, record) ==
    [keys  |-> Append(s.keys, record),
     index |-> [h \in DOMAIN s.index \cup {HashOf[record.key]} |->
                   IF h = HashOf[record.key] THEN Len(s.keys) + 1 ELSE s.index[h]]]

\* Vec::retain(): the elements at the positions that stay, in their order.
RetainAt(seq, stays) ==
    [n \in 1..Cardinality(stays) |->
        seq[CHOOSE p \in stays : Cardinality({q \in stays : q <= p}) = n]]

Unbound(keys, stream) == {i \in DOMAIN keys : keys[i].stream # stream}

\* Faulty variant: only the entries of the keys that are dropped are taken out
\* of the index.
RetainPatchesIndex(s, stream) ==
    LET gone == {i \in DOMAIN s.keys : s.keys[i].stream = stream}
    IN  [keys  |-> RetainAt(s.keys, Unbound(s.keys, stream)),
         index |-> [h \in DOMAIN s.index \ {HashAt(s.keys, i) : i \in gone} |->
                       s.index[h]]]

\* Faulty variant: keys that are bound to no stream go as well.
RetainBoundOnly(s, stream) ==
    LET kept == RetainAt(s.keys, Unbound(s.keys, stream) \cap Unbound(s.keys, NoStream))
    IN  [keys |-> kept, index |-> RebuildIndex(kept)]

\* The keys that are not bound to a stream.
Retain(s, stream) ==
    LET kept == RetainAt(s.keys, Unbound(s.keys, stream))
    IN  [keys |-> kept, index |-> RebuildIndex(kept)]

\* bcrypt::verify() of the record the index points at, and of all of them when
\* it fails.
Verifies(s, i, key) == i \in DOMAIN s.keys /\ s.keys[i].key = key

ValidateStreamKey(s, key) ==
    \/ s.keys = <<>>
    \/ /\ HashOf[key] \in DOMAIN s.index
       /\ \/ Verifies(s, s.index[HashOf[key]], key)
          \/ \E i \in DOMAIN s.keys : Verifies(s, i, key)

ResolveStreamId(s, key) ==
    LET bound == {i \in DOMAIN s.keys : Verifies(s, i, key) /\ s.keys[i].stream # NoStream}
    IN  IF HashOf[key] \notin DOMAIN s.index THEN NoStream
        ELSE IF Verifies(s, s.index[HashOf[key]], key)
             THEN s.keys[s.index[HashOf[key]]].stream
        ELSE IF bound = {} THEN NoStream
        ELSE s.keys[CHOOSE i \in bound : \A j \in bound : i <= j].stream

\* new() and update_stream_keys(): the configured keys, bound to no stream.
StoreOf(list) ==
    LET records == [i \in DOMAIN list |-> [key |-> list[i], stream |-> NoStream]]
    IN  [keys |-> records, index |-> RebuildIndex(records)]

Init ==
    \E c \in Configs :
        /\ store = StoreOf(c.keys)
        /\ tokens = c.tokens
        /\ tracker = [ip \in Addresses |-> NoEntry]
        /\ config = [step |-> "applied", keys |-> c.keys, tokens |-> c.tokens]
        /\ known = {} /\ made = {}
        /\ admin = [a \in Admins |-> NoRequest]
        /\ client = [c2 \in Clients |-> "idle"]
        /\ overlapped = {}

----------------------------------------------------------------------------
(* Control API requests: authenticate_admin(), then the key operation. *)

\* check_bearer_token(), first lock: open mode.
IsOpenMode(a, token) ==
    /\ admin[a].pc = "idle"
    /\ \/ tokens = <<>> /\ admin' = [admin EXCEPT ![a] = [@ EXCEPT !.pc = "authorised"]]
       \/ /\ tokens # <<>> /\ token # NoToken
          /\ admin' = [admin EXCEPT ![a] = [@ EXCEPT !.pc = "checking", !.token = token]]
       \/ /\ tokens # <<>> /\ token = NoToken       \* 401
          /\ UNCHANGED admin
    /\ UNCHANGED <<store, tokens, tracker, config, known, made, client, overlapped>>

\* check_bearer_token(), second lock.
ValidateBearerToken(a) ==
    /\ admin[a].pc = "checking"
    /\ LET valid == tokens = <<>> \/ \E i \in DOMAIN tokens : tokens[i] = admin[a].token
       IN  admin' = [admin EXCEPT ![a].pc = IF valid THEN "authorised" ELSE "forbidden"]
    /\ UNCHANGED <<store, tokens, tracker, config, known, made, client, overlapped>>

\* The answer 403.
Forbidden(a) ==
    /\ admin[a].pc = "forbidden"
    /\ admin' = [admin EXCEPT ![a] = NoRequest]
    /\ UNCHANGED <<store, tokens, tracker, config, known, made, client, overlapped>>

\* create_stream() registers the record and then generates its key.
CreateStream(a, s) ==
    /\ admin[a].pc = "authorised"
    /\ s \notin known
    /\ known' = known \cup {s}
    /\ admin' = [admin EXCEPT ![a] = [NoRequest EXCEPT !.pc = "generate", !.stream = s]]
    /\ UNCHANGED <<store, tokens, tracker, config, made, client, overlapped>>

Rotating(s) == {a \in Admins : admin[a].pc \in {"generate", "rotate"} /\ admin[a].stream = s}

\* Faulty variant: only the oldest key of the stream is dropped.
RotateDropsOldest(a, s) ==
    /\ admin[a].pc = "authorised"
    /\ s \in known
    /\ LET bound == {i \in DOMAIN store.keys : store.keys[i].stream = s}
           gone == {i \in bound : \A j \in bound : i <= j}
           kept == RetainAt(store.keys, DOMAIN store.keys \ gone)
       IN  store' = [keys |-> kept, index |-> RebuildIndex(kept)]
    /\ admin' = [admin EXCEPT ![a] = [NoRequest EXCEPT !.pc = "rotate", !.stream = s]]
    /\ overlapped' = IF Rotating(s) = {} THEN overlapped \ {s} ELSE overlapped \cup {s}
    /\ UNCHANGED <<tokens, tracker, config, known, made, client>>

\* rotate_stream_key_for_stream(), first lock: the keys of the stream go.
RotateDrop(a, s) ==
    /\ admin[a].pc = "authorised"
    /\ s \in known
    /\ store' = Retain(store, s)
    /\ admin' = [admin EXCEPT ![a] = [NoRequest EXCEPT !.pc = "rotate", !.stream = s]]
    /\ overlapped' = IF Rotating(s) = {} THEN overlapped \ {s} ELSE overlapped \cup {s}
    /\ UNCHANGED <<tokens, tracker, config, known, made, client>>

\* generate_stream_key_for_stream(): a new key, and the answer.
Generate(a, key) ==
    /\ admin[a].pc \in {"generate", "rotate"}
    /\ key \notin made
    /\ made' = made \cup {key}
    /\ store' = Push(store, [key |-> key, stream |-> admin[a].stream])
    /\ admin' = [admin EXCEPT ![a] = NoRequest]
    /\ UNCHANGED <<tokens, tracker, config, known, client, overlapped>>

----------------------------------------------------------------------------
(* validate_stream_key_with_ip() *)

Blocked(ip) == tracker[ip].block > 0

\* is_ip_blocked(): a blocked address is refused without a look at the key.
CheckIp(c) ==
    /\ client[c] = "idle"
    /\ ~Blocked(IpOf[c])
    /\ client' = [client EXCEPT ![c] = "checked"]
    /\ UNCHANGED <<store, tokens, tracker, config, known, made, admin, overlapped>>

\* validate_stream_key() holds the lock of the store over bcrypt.
Verify(c, key) ==
    /\ client[c] = "checked"
    /\ client' = [client EXCEPT ![c] = IF ValidateStreamKey(store, key) THEN "valid" ELSE "invalid"]
    /\ UNCHANGED <<store, tokens, tracker, config, known, made, admin, overlapped>>

ResetIpAttempts(c) ==
    /\ client[c] = "valid"
    /\ tracker' = [tracker EXCEPT ![IpOf[c]] = NoEntry]
    /\ client' = [client EXCEPT ![c] = "idle"]
    /\ UNCHANGED <<store, tokens, config, known, made, admin, overlapped>>

Failed(entry, attempts) ==
    [attempts |-> attempts,
     age      |-> IF entry.age > Window THEN 0 ELSE entry.age,
     block    |-> IF attempts >= MaxAttempts THEN Block
                  ELSE IF entry.age > Window THEN 0 ELSE entry.block]

\* Faulty variant: the attempt that reaches the limit does not yet block.
RecordFailedAttemptLate(c) ==
    /\ client[c] = "invalid"
    /\ LET entry == tracker[IpOf[c]]
           attempts == IF entry.age > Window THEN 1 ELSE entry.attempts + 1
       IN  tracker' = [tracker EXCEPT ![IpOf[c]] =
                IF attempts = MaxAttempts
                THEN [Failed(entry, attempts) EXCEPT !.block = entry.block]
                ELSE Failed(entry, attempts)]
    /\ client' = [client EXCEPT ![c] = "idle"]
    /\ UNCHANGED <<store, tokens, config, known, made, admin, overlapped>>

\* A window that has run out starts again, and a block with it.
RecordFailedAttempt(c) ==
    /\ client[c] = "invalid"
    /\ LET entry == tracker[IpOf[c]]
           attempts == IF entry.age > Window THEN 1 ELSE entry.attempts + 1
       IN  tracker' = [tracker EXCEPT ![IpOf[c]] = Failed(entry, attempts)]
    /\ client' = [client EXCEPT ![c] = "idle"]
    /\ UNCHANGED <<store, tokens, config, known, made, admin, overlapped>>

\* Faulty variant: an entry goes with its window, blocked or not.
CleanupForgetsBlocks ==
    /\ tracker' = [ip \in Addresses |->
                      IF tracker[ip].age < Window THEN tracker[ip] ELSE NoEntry]
    /\ UNCHANGED <<store, tokens, config, known, made, admin, client, overlapped>>

\* cleanup_brute_force_tracker()
CleanupTracker ==
    /\ tracker' = [ip \in Addresses |->
                      IF Blocked(ip) \/ tracker[ip].age < Window THEN tracker[ip] ELSE NoEntry]
    /\ UNCHANGED <<store, tokens, config, known, made, admin, client, overlapped>>

\* A second passes.
Tick ==
    /\ tracker' = [ip \in Addresses |->
          IF tracker[ip].attempts = 0 THEN NoEntry
          ELSE [tracker[ip] EXCEPT !.age = IF @ > Window THEN @ ELSE @ + 1,
                                   !.block = IF @ = 0 THEN 0 ELSE @ - 1]]
    /\ UNCHANGED <<store, tokens, config, known, made, admin, client, overlapped>>

----------------------------------------------------------------------------
(* run_config_reload_task() on SIGHUP: the keys, then the tokens.  A      *)
(* configuration that does not load changes nothing.                       *)

ReloadKeys(c) ==
    /\ config.step = "applied"
    /\ store' = StoreOf(c.keys)
    /\ config' = [step |-> "keys", keys |-> c.keys, tokens |-> c.tokens]
    /\ overlapped' = {s \in Streams : Cardinality(Rotating(s)) > 1}
    /\ UNCHANGED <<tokens, tracker, known, made, admin, client>>

ReloadTokens ==
    /\ config.step = "keys"
    /\ tokens' = config.tokens
    /\ config' = [config EXCEPT !.step = "applied"]
    /\ UNCHANGED <<store, tracker, known, made, admin, client, overlapped>>

Next ==
    \/ \E a \in Admins :
          \/ \E t \in Tokens \cup {NoToken} : IsOpenMode(a, t)
          \/ ValidateBearerToken(a)
          \/ Forbidden(a)
          \/ \E s \in Streams : CreateStream(a, s)
          \/ \E s \in Streams : RotateDrop(a, s)
          \/ \E k \in ApiKeys : Generate(a, k)
    \/ \E c \in Clients :
          \/ CheckIp(c)
          \/ \E k \in Keys : Verify(c, k)
          \/ ResetIpAttempts(c)
          \/ RecordFailedAttempt(c)
    \/ CleanupTracker
    \/ Tick
    \/ \E c \in Configs : ReloadKeys(c)
    \/ ReloadTokens

Spec == Init /\ [][Next]_vars

----------------------------------------------------------------------------
(* Properties *)

\* Records, entries and requests have their shapes, and the index points into
\* the records (IngestKeyStore, BruteForceEntry).
TypeOK ==
    /\ \A i \in DOMAIN store.keys :
          store.keys[i] \in [key : Keys, stream : Streams \cup {NoStream}]
    /\ \A h \in DOMAIN store.index : store.index[h] \in DOMAIN store.keys
    /\ tracker \in [Addresses -> [attempts : Nat, age : 0..(Window + 1), block : 0..Block]]
    /\ client \in [Clients -> {"idle", "checked", "valid", "invalid"}]
    /\ known \subseteq Streams /\ made \subseteq ApiKeys

\* The indexed lookups answer what a scan of all records would, in every
\* sequence of creations, rotations and reloads and with colliding hashes
\* (validate_stream_key(), resolve_stream_id_for_key()).
LookupCorrect ==
    \A k \in Keys :
        LET found == {i \in DOMAIN store.keys : store.keys[i].key = k}
        IN  /\ ValidateStreamKey(store, k) <=> (store.keys = <<>> \/ found # {})
            /\ ResolveStreamId(store, k) # NoStream =>
                  \E i \in found : store.keys[i].stream = ResolveStreamId(store, k)
            /\ (\E i \in found : store.keys[i].stream # NoStream) =>
                  ResolveStreamId(store, k) # NoStream

\* A key of the configuration in force is accepted, and while it has one the
\* store never falls back to accepting every key, whatever rotations run
\* (validate_stream_key(), update_stream_keys()).
ConfiguredKeysHold ==
    /\ \A k \in KeysOf(config.keys) : ValidateStreamKey(store, k)
    /\ config.keys # <<>> => store.keys # <<>>

\* A stream has one key at most, once no rotation of it runs and unless two
\* of them have overlapped since the last one that ran alone
\* (rotate_stream_key_for_stream()).
RotationReplaces ==
    \A s \in Streams :
        Rotating(s) = {} /\ s \notin overlapped =>
            Cardinality({i \in DOMAIN store.keys : store.keys[i].stream = s}) <= 1

\* However many connections of an address are between the check of the block
\* and the record of their failure, no more attempts than those go beyond the
\* limit (is_ip_blocked(), record_failed_attempt()).
OverrunBounded ==
    \A ip \in Addresses :
        tracker[ip].attempts < MaxAttempts + Cardinality({c \in Clients : IpOf[c] = ip})

\* A block ends before its time only by a successful authentication from the
\* address or by a failure recorded after the window ran out
\* (record_failed_attempt(), cleanup_brute_force_tracker()).
BlockLasts ==
    [][\A ip \in Addresses :
          tracker[ip].block > 1 /\ tracker'[ip].block = 0 =>
             \E c \in Clients :
                /\ IpOf[c] = ip
                /\ \/ client[c] = "valid"
                   \/ client[c] = "invalid" /\ tracker[ip].age > Window
                /\ client'[c] = "idle"]_vars

=============================================================================
