---------------------------- MODULE AuthKeysProofs ----------------------------
(***************************************************************************)
(* Proofs about AuthKeys, for any configurations, keys, hash function,     *)
(* streams, requests and connections.  No action touches both the keys and *)
(* the tracker of failed attempts, so there are two inductive invariants,  *)
(* one for each.                                                           *)
(***************************************************************************)
EXTENDS AuthKeys, FiniteSetTheorems, WellFoundedInduction, TLAPS

-----------------------------------------------------------------------------
(* Sequences: the largest position, and what retain() leaves.              *)

\* A set of positions that is not empty has a largest one.
LEMMA LargestPosition ==
    ASSUME NEW n \in Nat, NEW T, T \subseteq 1..n, T # {}
    PROVE  \E i \in T : \A j \in T : j <= i
<1>. DEFINE U == {n - i : i \in T}
<1>1. U \subseteq Nat /\ U # {}
  <2>1. \A i \in T : n - i \in Nat
    OBVIOUS
  <2>. QED  BY <2>1
<1>2. \E x \in U : \A y \in U : ~(<<y, x>> \in OpToRel(<, Nat))
  <2>. HIDE DEF U
  <2>. QED  BY <1>1, NatLessThanWellFounded, WFMin
<1>3. PICK x \in U : \A y \in U : ~(<<y, x>> \in OpToRel(<, Nat))
  BY <1>2
<1>4. \A y \in U : ~(y < x)
  BY <1>1, <1>3 DEF OpToRel
<1>5. PICK i \in T : x = n - i
  OBVIOUS
<1>6. \A j \in T : ~(n - j < n - i)
  BY <1>4, <1>5
<1>. QED  BY <1>6

\* The same for the smallest.
LEMMA SmallestPosition ==
    ASSUME NEW T, T \subseteq Nat, T # {}
    PROVE  \E i \in T : \A j \in T : i <= j
<1>1. \E x \in T : \A y \in T : ~(<<y, x>> \in OpToRel(<, Nat))
  BY NatLessThanWellFounded, WFMin
<1>2. PICK x \in T : \A y \in T : ~(<<y, x>> \in OpToRel(<, Nat))
  BY <1>1
<1>3. \A y \in T : ~(y < x)
  BY <1>2 DEF OpToRel
<1>4. \A y \in T : x <= y
  BY <1>3
<1>. QED  BY <1>4

\* Where the n-th element that stays was before retain().
Origin(stays, n) == CHOOSE p \in stays : Cardinality({q \in stays : q <= p}) = n

\* retain() keeps exactly the positions that stay, each of them once.
LEMMA RetainKeeps ==
    ASSUME NEW S, NEW seq \in Seq(S), NEW stays \in SUBSET DOMAIN seq
    PROVE  /\ RetainAt(seq, stays) \in Seq(S)
           /\ \A n \in DOMAIN RetainAt(seq, stays) :
                 /\ Origin(stays, n) \in stays
                 /\ RetainAt(seq, stays)[n] = seq[Origin(stays, n)]
           /\ \A m, n \in DOMAIN RetainAt(seq, stays) :
                 Origin(stays, m) = Origin(stays, n) => m = n
           /\ \A p \in stays : \E n \in DOMAIN RetainAt(seq, stays) : Origin(stays, n) = p
<1>. DEFINE Rank(p) == Cardinality({q \in stays : q <= p})
            size == Cardinality(stays)
            rank == [p \in stays |-> Rank(p)]
<1>1. IsFiniteSet(stays) /\ stays \subseteq Nat
  <2>1. DOMAIN seq = 1..Len(seq) /\ Len(seq) \in Nat
    OBVIOUS
  <2>2. IsFiniteSet(1..Len(seq))
    BY <2>1, FS_Interval
  <2>. QED  BY <2>1, <2>2, FS_Subset
<1>2. \A p \in stays : IsFiniteSet({q \in stays : q <= p}) /\ {q \in stays : q <= p} \subseteq stays
  BY <1>1, FS_Subset
<1>3. \A p \in stays : Rank(p) \in 1..size
  <2>. TAKE p \in stays
  <2>. DEFINE T == {q \in stays : q <= p}
  <2>1. p \in T
    BY <1>1
  <2>2. IsFiniteSet(T) /\ T \subseteq stays /\ T # {}
    BY <1>2, <2>1
  <2>. HIDE DEF T
  <2>3. Cardinality(T) <= size /\ Cardinality(T) \in Nat /\ size \in Nat
    BY <1>1, <2>2, FS_Subset, FS_CardinalityType
  <2>4. Cardinality(T) # 0
    BY <2>2, FS_EmptySet
  <2>5. Cardinality(T) \in 1..size
    BY <2>3, <2>4
  <2>. QED  BY <2>5 DEF T
<1>4. \A p, q \in stays : p < q => Rank(p) # Rank(q)
  <2>. SUFFICES ASSUME NEW p \in stays, NEW q \in stays, p < q
                PROVE  Rank(p) # Rank(q)
    OBVIOUS
  <2>. DEFINE T == {x \in stays : x <= p}
              U == {x \in stays : x <= q}
  <2>1. T \subseteq U /\ q \in U /\ q \notin T
    BY <1>1
  <2>2. IsFiniteSet(U)
    BY <1>2
  <2>3. Cardinality(U) = Cardinality(T) => U = T
    <3>. HIDE DEF T, U
    <3>. QED  BY <2>1, <2>2, FS_Subset
  <2>4. Cardinality(T) # Cardinality(U)
    BY <2>1, <2>3
  <2>. QED  BY <2>4
<1>. HIDE DEF Rank
<1>5. rank \in Injection(stays, 1..size)
  <2>1. \A p, q \in stays : Rank(p) = Rank(q) => p = q
    BY <1>1, <1>4
  <2>. QED  BY <1>3, <2>1 DEF Injection, IsInjective
<1>6. rank \in Surjection(stays, 1..size)
  <2>1. size \in Nat
    BY <1>1, FS_CardinalityType
  <2>2. IsFiniteSet(1..size) /\ Cardinality(1..size) = size
    BY <2>1, FS_Interval
  <2>. HIDE DEF rank
  <2>3. Cardinality(stays) = Cardinality(1..size) <=> rank \in Surjection(stays, 1..size)
    BY <1>5, <2>2, FS_Injection
  <2>. QED  BY <2>2, <2>3
<1>7. \A n \in 1..size : Origin(stays, n) \in stays /\ Rank(Origin(stays, n)) = n
  <2>. TAKE n \in 1..size
  <2>1. \E p \in stays : Rank(p) = n
    BY <1>6 DEF Surjection
  <2>. QED  BY <2>1 DEF Origin, Rank
<1>8. /\ DOMAIN RetainAt(seq, stays) = 1..size
      /\ \A n \in 1..size : RetainAt(seq, stays)[n] = seq[Origin(stays, n)]
  BY DEF RetainAt, Origin
<1>9. RetainAt(seq, stays) \in Seq(S)
  <2>1. size \in Nat
    BY <1>1, FS_CardinalityType
  <2>2. \A n \in 1..size : seq[Origin(stays, n)] \in S
    BY <1>7
  <2>3. RetainAt(seq, stays) = [n \in 1..size |-> seq[Origin(stays, n)]]
    BY DEF RetainAt, Origin
  <2>. HIDE DEF size
  <2>. QED  BY <2>1, <2>2, <2>3
<1>10. \A p \in stays : Origin(stays, Rank(p)) = p
  <2>. TAKE p \in stays
  <2>1. Origin(stays, Rank(p)) \in stays /\ Rank(Origin(stays, Rank(p))) = Rank(p)
    BY <1>3, <1>7
  <2>. QED  BY <1>1, <1>4, <2>1
<1>11. \A m, n \in 1..size : Origin(stays, m) = Origin(stays, n) => m = n
  BY <1>7
<1>. QED  BY <1>3, <1>7, <1>8, <1>9, <1>10, <1>11

-----------------------------------------------------------------------------
(* The keys.                                                               *)

Records == [key : Keys, stream : Streams \cup {NoStream}]

\* The records of configured keys, and only they, are bound to no stream.
Bindings(keys) ==
    \A i \in DOMAIN keys : keys[i].stream = NoStream <=> keys[i].key \in ConfigKeys

\* The index knows every hash and points into the records.
Indexed(s) ==
    /\ \A i \in DOMAIN s.keys : HashAt(s.keys, i) \in DOMAIN s.index
    /\ \A h \in DOMAIN s.index : s.index[h] \in DOMAIN s.keys

Sound(s) == s.keys \in Seq(Records) /\ Bindings(s.keys) /\ Indexed(s)

BoundTo(s) == {i \in DOMAIN store.keys : store.keys[i].stream = s}

KeyTypes ==
    /\ DOMAIN config = {"step", "keys", "tokens"}
    /\ config.keys \in Seq(ConfigKeys)
    /\ known \subseteq Streams /\ made \subseteq ApiKeys
    /\ DOMAIN admin = Admins
    /\ \A a \in Admins :
          /\ DOMAIN admin[a] = {"pc", "stream", "token"}
          /\ admin[a].pc \in {"generate", "rotate"} => admin[a].stream \in known

\* Every configured key has its record.
Configured ==
    \A k \in KeysOf(config.keys) :
        \E i \in DOMAIN store.keys : store.keys[i] = [key |-> k, stream |-> NoStream]

\* A stream that is not registered has no key, and unless rotations of a stream
\* have overlapped, it has one key, or one request about to make one, or
\* neither.
OneKey ==
    \A s \in Streams :
        /\ s \notin known => BoundTo(s) = {} /\ Rotating(s) = {}
        /\ s \notin overlapped =>
              /\ \A i, j \in BoundTo(s) : i = j
              /\ \A a, b \in Rotating(s) : a = b
              /\ BoundTo(s) = {} \/ Rotating(s) = {}

KeyInv == Sound(store) /\ KeyTypes /\ Configured /\ OneKey

\* The index that is built anew is right.
LEMMA RebuiltIndex ==
    ASSUME NEW keys \in Seq(Records)
    PROVE  /\ \A i \in DOMAIN keys : HashAt(keys, i) \in DOMAIN RebuildIndex(keys)
           /\ \A h \in DOMAIN RebuildIndex(keys) : RebuildIndex(keys)[h] \in DOMAIN keys
<1>1. DOMAIN RebuildIndex(keys) = {HashAt(keys, i) : i \in DOMAIN keys}
  BY DEF RebuildIndex
<1>2. ASSUME NEW h \in DOMAIN RebuildIndex(keys)
      PROVE  RebuildIndex(keys)[h] \in DOMAIN keys
  <2>. DEFINE T == {i \in DOMAIN keys : HashAt(keys, i) = h}
  <2>1. T \subseteq 1..Len(keys) /\ T # {} /\ Len(keys) \in Nat
    BY <1>1
  <2>2. \E i \in T : \A j \in T : j <= i
    <3>. HIDE DEF T
    <3>. QED  BY <2>1, LargestPosition
  <2>3. \E i \in DOMAIN keys :
            /\ HashAt(keys, i) = h
            /\ \A j \in DOMAIN keys : HashAt(keys, j) = h => j <= i
    BY <2>2
  <2>. QED  BY <1>1, <2>3 DEF RebuildIndex
<1>. QED  BY <1>1, <1>2

\* The keys of a configuration.
LEMMA StoreOfConfig ==
    ASSUME NEW list \in Seq(ConfigKeys)
    PROVE  /\ Sound(StoreOf(list))
           /\ DOMAIN StoreOf(list).keys = DOMAIN list
           /\ \A i \in DOMAIN list :
                 StoreOf(list).keys[i] = [key |-> list[i], stream |-> NoStream]
<1>. DEFINE records == [i \in DOMAIN list |-> [key |-> list[i], stream |-> NoStream]]
<1>1. records \in Seq(Records)
  <2>1. \A i \in DOMAIN list : [key |-> list[i], stream |-> NoStream] \in Records
    BY DEF Records, Keys
  <2>2. DOMAIN list = 1..Len(list) /\ Len(list) \in Nat
    OBVIOUS
  <2>. QED  BY <2>1, <2>2
<1>2. Bindings(records)
  BY DEF Bindings
<1>3. /\ StoreOf(list).keys = records /\ StoreOf(list).index = RebuildIndex(records)
      /\ DOMAIN records = DOMAIN list
  BY DEF StoreOf
<1>. HIDE DEF records
<1>4. Indexed(StoreOf(list))
  BY <1>1, <1>3, RebuiltIndex DEF Indexed
<1>. QED  BY <1>1, <1>2, <1>3, <1>4 DEF Sound, records

\* A new key is bound to its stream.
LEMMA PushSound ==
    ASSUME NEW s, Sound(s), NEW k \in ApiKeys, NEW stream \in Streams
    PROVE  /\ Sound(Push(s, [key |-> k, stream |-> stream]))
           /\ Push(s, [key |-> k, stream |-> stream]).keys
                 = Append(s.keys, [key |-> k, stream |-> stream])
<1>. DEFINE r == [key |-> k, stream |-> stream]
            t == Push(s, r)
<1>1. r \in Records /\ r.stream # NoStream /\ r.key \notin ConfigKeys
  BY AuthAssumption DEF Records, Keys
<1>2. /\ t.keys = Append(s.keys, r)
      /\ DOMAIN t.index = DOMAIN s.index \cup {HashOf[r.key]}
      /\ \A h \in DOMAIN t.index :
            t.index[h] = IF h = HashOf[r.key] THEN Len(s.keys) + 1 ELSE s.index[h]
  BY DEF Push
<1>. HIDE DEF r, t
<1>3. s.keys \in Seq(Records)
  BY DEF Sound
<1>4. /\ t.keys \in Seq(Records) /\ DOMAIN t.keys = 1..(Len(s.keys) + 1)
      /\ DOMAIN s.keys = 1..Len(s.keys) /\ Len(s.keys) \in Nat
      /\ \A i \in DOMAIN s.keys : t.keys[i] = s.keys[i]
      /\ t.keys[Len(s.keys) + 1] = r
  BY <1>1, <1>2, <1>3
<1>5. Bindings(t.keys)
  BY <1>1, <1>4 DEF Sound, Bindings
<1>6. Indexed(t)
  <2>1. ASSUME NEW i \in DOMAIN t.keys  PROVE HashAt(t.keys, i) \in DOMAIN t.index
    BY <1>2, <1>4 DEF Sound, Indexed, HashAt
  <2>2. ASSUME NEW h \in DOMAIN t.index  PROVE t.index[h] \in DOMAIN t.keys
    BY <1>2, <1>4 DEF Sound, Indexed
  <2>. QED  BY <2>1, <2>2 DEF Indexed
<1>. QED  BY <1>2, <1>4, <1>5, <1>6 DEF Sound, r, t

\* What a rotation leaves.
LEMMA RetainSound ==
    ASSUME NEW s, Sound(s), NEW stream
    PROVE  /\ Sound(Retain(s, stream))
           /\ Retain(s, stream).keys = RetainAt(s.keys, Unbound(s.keys, stream))
<1>. DEFINE kept == RetainAt(s.keys, Unbound(s.keys, stream))
<1>1. s.keys \in Seq(Records) /\ Unbound(s.keys, stream) \in SUBSET DOMAIN s.keys
  BY DEF Sound, Unbound
<1>2. /\ kept \in Seq(Records)
      /\ \A n \in DOMAIN kept : \E p \in DOMAIN s.keys : kept[n] = s.keys[p]
  BY <1>1, RetainKeeps
<1>3. Retain(s, stream).keys = kept /\ Retain(s, stream).index = RebuildIndex(kept)
  BY DEF Retain
<1>. HIDE DEF kept
<1>4. Bindings(kept)
  BY <1>2 DEF Sound, Bindings
<1>5. Indexed(Retain(s, stream))
  BY <1>2, <1>3, RebuiltIndex DEF Indexed
<1>. QED  BY <1>2, <1>3, <1>4, <1>5 DEF Sound, kept

-----------------------------------------------------------------------------
(* The tracker.                                                            *)

TrackerTypes ==
    /\ tracker \in [Addresses -> [attempts : Nat, age : 0..(Window + 1), block : 0..Block]]
    /\ client \in [Clients -> {"idle", "checked", "valid", "invalid"}]

Of(ip) == {c \in Clients : IpOf[c] = ip}

\* Connections past is_ip_blocked() that have not settled.
Past(ip) == {c \in Of(ip) : client[c] # "idle"}

\* At the limit the address is blocked for as long as its window lasts.
AtLimitBlocked ==
    \A ip \in Addresses :
        /\ tracker[ip].attempts = 0 => tracker[ip].block = 0
        /\ tracker[ip].attempts >= MaxAttempts /\ tracker[ip].age <= Window =>
              tracker[ip].block >= Block - tracker[ip].age

\* Within a window, the failures recorded and those that may still come.
Overrun ==
    \A ip \in Addresses :
        /\ tracker[ip].attempts < MaxAttempts + Cardinality(Of(ip))
        /\ tracker[ip].age <= Window =>
              tracker[ip].attempts + Cardinality(Past(ip)) < MaxAttempts + Cardinality(Of(ip))

TrackInv == TrackerTypes /\ AtLimitBlocked /\ Overrun

-----------------------------------------------------------------------------
(* Steps of the keys.                                                      *)

\* Every configuration starts sound.
LEMMA KeyInit ==
    ASSUME Init
    PROVE  KeyInv
<1>1. PICK c \in Configs :
        /\ store = StoreOf(c.keys)
        /\ config = [step |-> "applied", keys |-> c.keys, tokens |-> c.tokens]
        /\ known = {} /\ made = {} /\ overlapped = {}
        /\ admin = [a \in Admins |-> NoRequest]
  BY DEF Init
<1>2. c.keys \in Seq(ConfigKeys)
  BY AuthAssumption
<1>3. /\ Sound(store) /\ DOMAIN store.keys = DOMAIN c.keys
      /\ \A i \in DOMAIN c.keys : store.keys[i] = [key |-> c.keys[i], stream |-> NoStream]
  BY <1>1, <1>2, StoreOfConfig
<1>4. KeyTypes
  BY <1>1, <1>2 DEF KeyTypes, NoRequest
<1>5. Configured
  BY <1>1, <1>3 DEF Configured, KeysOf
<1>6. OneKey
  <2>1. \A s \in Streams : BoundTo(s) = {} /\ Rotating(s) = {}
    <3>0. NoStream \notin Streams
      BY AuthAssumption
    <3>1. \A i \in DOMAIN store.keys : store.keys[i].stream \notin Streams
      <4>. SUFFICES ASSUME NEW i \in DOMAIN store.keys  PROVE store.keys[i].stream = NoStream
        BY <3>0
      <4>1. store.keys[i] = [key |-> c.keys[i], stream |-> NoStream]
        BY <1>3
      <4>. QED  BY <4>1
    <3>2. \A a \in Admins : admin[a].pc = "idle"
      BY <1>1 DEF NoRequest
    <3>. QED  BY <3>1, <3>2 DEF BoundTo, Rotating
  <2>. QED  BY <2>1 DEF OneKey
<1>. QED  BY <1>3, <1>4, <1>5, <1>6 DEF KeyInv

\* A step of the authentication of a request: nobody begins or ends a rotation.
LEMMA AuthenticationStep ==
    ASSUME KeyInv, NEW a \in Admins, NEW t,
           IsOpenMode(a, t) \/ ValidateBearerToken(a) \/ Forbidden(a)
    PROVE  KeyInv'
<1>1. UNCHANGED <<store, config, known, made, overlapped>>
  BY DEF IsOpenMode, ValidateBearerToken, Forbidden
<1>2. DOMAIN admin = Admins /\ DOMAIN admin[a] = {"pc", "stream", "token"}
  BY DEF KeyInv, KeyTypes
<1>3. /\ admin[a].pc \notin {"generate", "rotate"}
      /\ DOMAIN admin' = Admins
      /\ \A b \in Admins : b # a => admin'[b] = admin[b]
      /\ DOMAIN admin'[a] = {"pc", "stream", "token"}
      /\ admin'[a].pc \notin {"generate", "rotate"}
  <2>1. CASE IsOpenMode(a, t)           BY <1>2, <2>1 DEF IsOpenMode
  <2>2. CASE ValidateBearerToken(a)     BY <1>2, <2>2 DEF ValidateBearerToken
  <2>3. CASE Forbidden(a)               BY <1>2, <2>3 DEF Forbidden, NoRequest
  <2>. QED  BY <2>1, <2>2, <2>3
<1>4. \A s \in Streams : Rotating(s)' = Rotating(s) /\ BoundTo(s)' = BoundTo(s)
  BY <1>1, <1>3 DEF Rotating, BoundTo
<1>5. KeyTypes'
  BY <1>1, <1>3 DEF KeyInv, KeyTypes
<1>6. OneKey'
  BY <1>1, <1>4 DEF KeyInv, OneKey
<1>. QED  BY <1>1, <1>5, <1>6 DEF KeyInv, Configured

\* create_stream(): the first request for a key of a stream that had none.
LEMMA CreateStep ==
    ASSUME KeyInv, NEW a \in Admins, NEW s \in Streams, CreateStream(a, s)
    PROVE  KeyInv'
<1>1. /\ s \notin known /\ known' = known \cup {s}
      /\ admin' = [admin EXCEPT ![a] = [NoRequest EXCEPT !.pc = "generate", !.stream = s]]
      /\ admin[a].pc \notin {"generate", "rotate"}
      /\ UNCHANGED <<store, config, made, overlapped>>
  BY DEF CreateStream
<1>2. DOMAIN admin = Admins
  BY DEF KeyInv, KeyTypes
<1>3. /\ DOMAIN admin' = Admins
      /\ \A b \in Admins : b # a => admin'[b] = admin[b]
      /\ DOMAIN admin'[a] = {"pc", "stream", "token"}
      /\ admin'[a].pc = "generate" /\ admin'[a].stream = s
  BY <1>1, <1>2 DEF NoRequest
<1>4. /\ \A r \in Streams : BoundTo(r)' = BoundTo(r)
      /\ \A r \in Streams : r # s => Rotating(r)' = Rotating(r)
      /\ Rotating(s)' = Rotating(s) \cup {a}
  BY <1>1, <1>3 DEF Rotating, BoundTo
<1>5. BoundTo(s) = {} /\ Rotating(s) = {}
  BY <1>1 DEF KeyInv, OneKey
<1>6. KeyTypes'
  BY <1>1, <1>3 DEF KeyInv, KeyTypes
<1>7. OneKey'
  BY <1>1, <1>4, <1>5 DEF KeyInv, OneKey
<1>. QED  BY <1>1, <1>6, <1>7 DEF KeyInv, Configured

\* rotate_stream_key_for_stream(), first half: the keys of this stream go, and
\* no other.
LEMMA RotateStep ==
    ASSUME KeyInv, NEW a \in Admins, NEW s \in Streams, RotateDrop(a, s)
    PROVE  KeyInv'
<1>1. /\ s \in known /\ store' = Retain(store, s)
      /\ admin' = [admin EXCEPT ![a] = [NoRequest EXCEPT !.pc = "rotate", !.stream = s]]
      /\ admin[a].pc \notin {"generate", "rotate"}
      /\ overlapped' = IF Rotating(s) = {} THEN overlapped \ {s} ELSE overlapped \cup {s}
      /\ UNCHANGED <<config, known, made>>
  BY DEF RotateDrop
<1>2. DOMAIN admin = Admins /\ Sound(store) /\ NoStream \notin Streams
  BY AuthAssumption DEF KeyInv, KeyTypes
<1>3. /\ DOMAIN admin' = Admins
      /\ \A b \in Admins : b # a => admin'[b] = admin[b]
      /\ DOMAIN admin'[a] = {"pc", "stream", "token"}
      /\ admin'[a].pc = "rotate" /\ admin'[a].stream = s
  BY <1>1, <1>2 DEF NoRequest
<1>. DEFINE stays == Unbound(store.keys, s)
<1>4. Sound(store') /\ store'.keys = RetainAt(store.keys, stays)
  BY <1>1, <1>2, RetainSound
<1>5. store.keys \in Seq(Records) /\ stays \in SUBSET DOMAIN store.keys
  BY <1>2 DEF Sound, Unbound
<1>6. /\ \A n \in DOMAIN store'.keys :
            Origin(stays, n) \in stays /\ store'.keys[n] = store.keys[Origin(stays, n)]
      /\ \A m, n \in DOMAIN store'.keys : Origin(stays, m) = Origin(stays, n) => m = n
      /\ \A p \in stays : \E n \in DOMAIN store'.keys : Origin(stays, n) = p
  <2>. HIDE DEF stays
  <2>. QED  BY <1>4, <1>5, RetainKeeps
<1>7. Configured'
  <2>. SUFFICES ASSUME NEW k \in KeysOf(config.keys)
                PROVE  \E n \in DOMAIN store'.keys :
                          store'.keys[n] = [key |-> k, stream |-> NoStream]
    BY <1>1 DEF Configured
  <2>1. PICK i \in DOMAIN store.keys : store.keys[i] = [key |-> k, stream |-> NoStream]
    BY DEF KeyInv, Configured
  <2>2. i \in stays
    BY <1>2, <2>1 DEF Unbound
  <2>. QED  BY <1>6, <2>1, <2>2
<1>8. /\ \A r \in Streams : r # s => Rotating(r)' = Rotating(r)
      /\ Rotating(s)' = Rotating(s) \cup {a}
  BY <1>1, <1>3 DEF Rotating
<1>9. BoundTo(s)' = {}
  <2>1. \A n \in DOMAIN store'.keys : store'.keys[n].stream # s
    BY <1>6 DEF Unbound
  <2>. QED  BY <2>1 DEF BoundTo
<1>10. ASSUME NEW r \in Streams, NEW i \in BoundTo(r)'
       PROVE  Origin(stays, i) \in BoundTo(r)
  BY <1>6 DEF BoundTo, Unbound
<1>11. OneKey'
  <2>. SUFFICES ASSUME NEW r \in Streams
                PROVE  /\ r \notin known => BoundTo(r)' = {} /\ Rotating(r)' = {}
                       /\ r \notin overlapped' =>
                             /\ \A i, j \in BoundTo(r)' : i = j
                             /\ \A b, d \in Rotating(r)' : b = d
                             /\ BoundTo(r)' = {} \/ Rotating(r)' = {}
    BY <1>1 DEF OneKey
  <2>1. CASE r = s
    BY <1>1, <1>8, <1>9, <2>1
  <2>2. CASE r # s
    <3>1. /\ Rotating(r)' = Rotating(r)
          /\ r \notin overlapped' => r \notin overlapped
      BY <1>1, <1>8, <2>2
    <3>2. \A i \in BoundTo(r)' : i \in DOMAIN store'.keys /\ Origin(stays, i) \in BoundTo(r)
      BY <1>10 DEF BoundTo
    <3>3. BoundTo(r) = {} => BoundTo(r)' = {}
      BY <3>2
    <3>4. (\A i, j \in BoundTo(r) : i = j) => (\A i, j \in BoundTo(r)' : i = j)
      BY <1>6, <3>2
    <3>. QED  BY <3>1, <3>3, <3>4 DEF KeyInv, OneKey
  <2>. QED  BY <2>1, <2>2
<1>12. KeyTypes'
  BY <1>1, <1>3 DEF KeyInv, KeyTypes
<1>. QED  BY <1>4, <1>7, <1>11, <1>12 DEF KeyInv

\* generate_stream_key_for_stream(): the request turns into its key.
LEMMA GenerateStep ==
    ASSUME KeyInv, NEW a \in Admins, NEW k \in ApiKeys, Generate(a, k)
    PROVE  KeyInv'
<1>0. PICK s : s = admin[a].stream
  OBVIOUS
<1>. DEFINE r == [key |-> k, stream |-> s]
<1>1. /\ admin[a].pc \in {"generate", "rotate"}
      /\ made' = made \cup {k}
      /\ store' = Push(store, r)
      /\ admin' = [admin EXCEPT ![a] = NoRequest]
      /\ UNCHANGED <<config, known, overlapped>>
  BY <1>0 DEF Generate
<1>2. /\ DOMAIN admin = Admins /\ Sound(store) /\ s \in known /\ s \in Streams
      /\ NoStream \notin Streams
  BY <1>0, <1>1, AuthAssumption DEF KeyInv, KeyTypes
<1>3. Sound(store') /\ store'.keys = Append(store.keys, r)
  BY <1>1, <1>2, PushSound
<1>4. store.keys \in Seq(Records)
  BY <1>2 DEF Sound
<1>5. /\ DOMAIN store'.keys = DOMAIN store.keys \cup {Len(store.keys) + 1}
      /\ Len(store.keys) + 1 \notin DOMAIN store.keys
      /\ \A i \in DOMAIN store.keys : store'.keys[i] = store.keys[i]
      /\ store'.keys[Len(store.keys) + 1].stream = s
  <2>1. DOMAIN store.keys = 1..Len(store.keys) /\ Len(store.keys) \in Nat
    BY <1>4
  <2>. QED  BY <1>3, <1>4, <2>1
<1>6. /\ DOMAIN admin' = Admins
      /\ \A b \in Admins : b # a => admin'[b] = admin[b]
      /\ DOMAIN admin'[a] = {"pc", "stream", "token"} /\ admin'[a].pc = "idle"
  BY <1>1, <1>2 DEF NoRequest
<1>. HIDE DEF r
<1>7. /\ \A q \in Streams : q # s => BoundTo(q)' = BoundTo(q)
      /\ BoundTo(s)' = BoundTo(s) \cup {Len(store.keys) + 1}
  BY <1>5 DEF BoundTo
<1>8. /\ \A q \in Streams : q # s => Rotating(q)' = Rotating(q)
      /\ Rotating(s)' = Rotating(s) \ {a} /\ a \in Rotating(s)
  BY <1>0, <1>1, <1>6 DEF Rotating
<1>9. Configured'
  BY <1>1, <1>5 DEF KeyInv, Configured
<1>10. KeyTypes'
  BY <1>1, <1>6 DEF KeyInv, KeyTypes
<1>11. OneKey'
  <2>. SUFFICES ASSUME NEW q \in Streams
                PROVE  /\ q \notin known => BoundTo(q)' = {} /\ Rotating(q)' = {}
                       /\ q \notin overlapped =>
                             /\ \A i, j \in BoundTo(q)' : i = j
                             /\ \A b, d \in Rotating(q)' : b = d
                             /\ BoundTo(q)' = {} \/ Rotating(q)' = {}
    BY <1>1 DEF OneKey
  <2>1. CASE q = s
    <3>1. q \notin overlapped => BoundTo(q) = {} /\ Rotating(q) = {a}
      BY <1>8, <2>1 DEF KeyInv, OneKey
    <3>. QED  BY <1>2, <1>7, <1>8, <2>1, <3>1
  <2>2. CASE q # s
    BY <1>7, <1>8, <2>2 DEF KeyInv, OneKey
  <2>. QED  BY <2>1, <2>2
<1>. QED  BY <1>3, <1>9, <1>10, <1>11 DEF KeyInv

\* update_stream_keys(): the configured keys replace all the others.
LEMMA ReloadStep ==
    ASSUME KeyInv, NEW c \in Configs, ReloadKeys(c)
    PROVE  KeyInv'
<1>1. /\ store' = StoreOf(c.keys)
      /\ config' = [step |-> "keys", keys |-> c.keys, tokens |-> c.tokens]
      /\ overlapped' = {s \in Streams : Cardinality(Rotating(s)) > 1}
      /\ UNCHANGED <<known, made, admin>>
  BY DEF ReloadKeys
<1>2. c.keys \in Seq(ConfigKeys)
  BY AuthAssumption
<1>3. /\ Sound(store') /\ DOMAIN store'.keys = DOMAIN c.keys
      /\ \A i \in DOMAIN c.keys : store'.keys[i] = [key |-> c.keys[i], stream |-> NoStream]
  BY <1>1, <1>2, StoreOfConfig
<1>4. KeyTypes'
  BY <1>1, <1>2 DEF KeyInv, KeyTypes
<1>5. Configured'
  BY <1>1, <1>3 DEF Configured, KeysOf
<1>6. \A s \in Streams : BoundTo(s)' = {} /\ Rotating(s)' = Rotating(s)
  <2>0. NoStream \notin Streams
    BY AuthAssumption
  <2>1. \A i \in DOMAIN store'.keys : store'.keys[i].stream \notin Streams
    <3>. SUFFICES ASSUME NEW i \in DOMAIN store'.keys  PROVE store'.keys[i].stream = NoStream
      BY <2>0
    <3>1. store'.keys[i] = [key |-> c.keys[i], stream |-> NoStream]
      BY <1>3
    <3>. QED  BY <3>1
  <2>. QED  BY <1>1, <2>1 DEF BoundTo, Rotating
<1>7. ASSUME NEW s \in Streams, s \notin overlapped', NEW a \in Rotating(s), NEW b \in Rotating(s)
      PROVE  a = b
  <2>1. IsFiniteSet(Rotating(s))
    BY AuthAssumption, FS_Subset DEF Rotating
  <2>2. Cardinality(Rotating(s)) \in Nat /\ ~(Cardinality(Rotating(s)) > 1)
    BY <1>1, <1>7, <2>1, FS_CardinalityType
  <2>3. Cardinality(Rotating(s)) # 0
    BY <1>7, <2>1, FS_EmptySet
  <2>4. Cardinality(Rotating(s)) = 1
    BY <2>2, <2>3
  <2>5. \E x : Rotating(s) = {x}
    BY <2>1, <2>4, FS_Singleton
  <2>. QED  BY <1>7, <2>5
<1>8. OneKey'
  BY <1>1, <1>6, <1>7 DEF KeyInv, OneKey
<1>. QED  BY <1>3, <1>4, <1>5, <1>8 DEF KeyInv

\* Everything else leaves the keys alone.
LEMMA KeyStep ==
    ASSUME KeyInv, [Next]_vars
    PROVE  KeyInv'
<1>1. ASSUME NEW a \in Admins, NEW t, IsOpenMode(a, t)  PROVE KeyInv'
  BY <1>1, AuthenticationStep
<1>2. ASSUME NEW a \in Admins, ValidateBearerToken(a) \/ Forbidden(a)  PROVE KeyInv'
  BY <1>2, AuthenticationStep
<1>3. ASSUME NEW a \in Admins, NEW s \in Streams, CreateStream(a, s) \/ RotateDrop(a, s)
      PROVE  KeyInv'
  BY <1>3, CreateStep, RotateStep
<1>4. ASSUME NEW a \in Admins, NEW k \in ApiKeys, Generate(a, k)  PROVE KeyInv'
  BY <1>4, GenerateStep
<1>5. ASSUME NEW c \in Configs, ReloadKeys(c)  PROVE KeyInv'
  BY <1>5, ReloadStep
<1>6. CASE ReloadTokens
  <2>1. /\ config' = [config EXCEPT !.step = "applied"]
        /\ UNCHANGED <<store, known, made, admin, overlapped>>
    BY <1>6 DEF ReloadTokens
  <2>2. DOMAIN config' = {"step", "keys", "tokens"} /\ config'.keys = config.keys
    BY <2>1 DEF KeyInv, KeyTypes
  <2>. QED  BY <2>1, <2>2 DEF KeyInv, KeyTypes, Configured, OneKey, BoundTo, Rotating
<1>7. CASE UNCHANGED <<store, config, known, made, admin, overlapped>>
  BY <1>7 DEF KeyInv, KeyTypes, Configured, OneKey, BoundTo, Rotating
<1>8. ASSUME NEW c \in Clients,
             \/ CheckIp(c) \/ (\E k \in Keys : Verify(c, k))
             \/ ResetIpAttempts(c) \/ RecordFailedAttempt(c)
      PROVE  UNCHANGED <<store, config, known, made, admin, overlapped>>
  BY <1>8 DEF CheckIp, Verify, ResetIpAttempts, RecordFailedAttempt
<1>9. CleanupTracker \/ Tick \/ UNCHANGED vars =>
        UNCHANGED <<store, config, known, made, admin, overlapped>>
  BY DEF CleanupTracker, Tick, vars
<1>. QED  BY <1>1, <1>2, <1>3, <1>4, <1>5, <1>6, <1>7, <1>8, <1>9 DEF Next

-----------------------------------------------------------------------------
(* Steps of the tracker.                                                   *)

\* Finite sets of connections.
LEMMA Counts ==
    ASSUME NEW ip
    PROVE  /\ IsFiniteSet(Of(ip)) /\ Cardinality(Of(ip)) \in Nat
           /\ IsFiniteSet(Past(ip)) /\ Cardinality(Past(ip)) \in Nat
           /\ Cardinality(Past(ip)) <= Cardinality(Of(ip))
<1>1. IsFiniteSet(Of(ip))
  BY AuthAssumption, FS_Subset DEF Of
<1>2. Past(ip) \in SUBSET Of(ip)
  BY DEF Past
<1>3. IsFiniteSet(Past(ip)) /\ Cardinality(Past(ip)) <= Cardinality(Of(ip))
  BY <1>1, <1>2, FS_Subset
<1>. QED  BY <1>1, <1>3, FS_CardinalityType

\* The limits are numbers, ordered as in the code.
LEMMA Limits ==
    /\ MaxAttempts \in Nat \ {0} /\ Window \in Nat \ {0}
    /\ Block \in Nat /\ Block > Window
    /\ IpOf \in [Clients -> Addresses]
BY AuthAssumption

\* A connection that settles is no longer among those past the check.
LEMMA Settles ==
    ASSUME TrackerTypes, NEW c \in Clients, client[c] # "idle",
           client' = [client EXCEPT ![c] = "idle"]
    PROVE  /\ \A ip \in Addresses : ip # IpOf[c] => Past(ip)' = Past(ip)
           /\ Cardinality(Past(IpOf[c])') = Cardinality(Past(IpOf[c])) - 1
<1>1. /\ \A ip \in Addresses : ip # IpOf[c] => Past(ip)' = Past(ip)
      /\ Past(IpOf[c])' = Past(IpOf[c]) \ {c} /\ c \in Past(IpOf[c])
  BY DEF TrackerTypes, Past, Of
<1>2. IsFiniteSet(Past(IpOf[c]))
  BY Counts
<1>3. Cardinality(Past(IpOf[c]) \ {c}) = Cardinality(Past(IpOf[c])) - 1
  BY <1>1, <1>2, FS_RemoveElement
<1>. QED  BY <1>1, <1>3

\* is_ip_blocked() lets a connection pass: in the address's window its
\* attempts are below the limit.
LEMMA CheckStep ==
    ASSUME TrackInv, NEW c \in Clients, CheckIp(c)
    PROVE  TrackInv'
<1>1. /\ client[c] = "idle" /\ tracker[IpOf[c]].block = 0
      /\ client' = [client EXCEPT ![c] = "checked"] /\ tracker' = tracker
  <2>1. IpOf[c] \in Addresses
    BY Limits
  <2>2. tracker[IpOf[c]].block \in Nat
    BY <2>1, Limits DEF TrackInv, TrackerTypes
  <2>. QED  BY <2>2 DEF CheckIp, Blocked
<1>2. TrackerTypes' /\ AtLimitBlocked'
  BY <1>1 DEF TrackInv, TrackerTypes, AtLimitBlocked
<1>3. /\ IpOf[c] \in Addresses
      /\ \A ip \in Addresses : ip # IpOf[c] => Past(ip)' = Past(ip)
  BY <1>1, Limits DEF TrackInv, TrackerTypes, Past, Of
<1>4. tracker[IpOf[c]].age <= Window => tracker[IpOf[c]].attempts < MaxAttempts
  <2>1. /\ tracker[IpOf[c]].age \in Nat /\ tracker[IpOf[c]].attempts \in Nat
        /\ tracker[IpOf[c]].attempts >= MaxAttempts /\ tracker[IpOf[c]].age <= Window =>
              tracker[IpOf[c]].block >= Block - tracker[IpOf[c]].age
    BY <1>3, Limits DEF TrackInv, TrackerTypes, AtLimitBlocked
  <2>. QED  BY <1>1, <2>1, Limits
<1>5. \A ip : Cardinality(Past(ip)') <= Cardinality(Of(ip)) /\ Cardinality(Past(ip)') \in Nat
  <2>. TAKE ip
  <2>1. IsFiniteSet(Of(ip)) /\ Past(ip)' \in SUBSET Of(ip)
    BY Counts DEF Past, Of
  <2>2. IsFiniteSet(Past(ip)') /\ Cardinality(Past(ip)') <= Cardinality(Of(ip))
    BY <2>1, FS_Subset
  <2>. QED  BY <2>2, FS_CardinalityType
<1>6. Overrun'
  <2>. SUFFICES ASSUME NEW ip \in Addresses
                PROVE  /\ tracker[ip].attempts < MaxAttempts + Cardinality(Of(ip))
                       /\ tracker[ip].age <= Window =>
                             tracker[ip].attempts + Cardinality(Past(ip)')
                                < MaxAttempts + Cardinality(Of(ip))
    BY <1>1 DEF Overrun, Of
  <2>1. CASE ip = IpOf[c]
    <3>1. /\ tracker[ip].attempts \in Nat /\ Cardinality(Of(ip)) \in Nat
          /\ tracker[ip].attempts < MaxAttempts + Cardinality(Of(ip))
      BY Counts DEF TrackInv, TrackerTypes, Overrun
    <3>. QED  BY <1>4, <1>5, <2>1, <3>1, Limits
  <2>2. CASE ip # IpOf[c]
    BY <1>3, <2>2 DEF TrackInv, Overrun
  <2>. QED  BY <2>1, <2>2
<1>. QED  BY <1>2, <1>6 DEF TrackInv

\* validate_stream_key() changes nothing the tracker depends on.
LEMMA VerifyStep ==
    ASSUME TrackInv, NEW c \in Clients, NEW k, Verify(c, k)
    PROVE  TrackInv'
<1>1. /\ client[c] = "checked" /\ tracker' = tracker
      /\ \E w \in {"valid", "invalid"} : client' = [client EXCEPT ![c] = w]
  BY DEF Verify
<1>2. TrackerTypes' /\ AtLimitBlocked'
  BY <1>1 DEF TrackInv, TrackerTypes, AtLimitBlocked
<1>3. \A ip : Past(ip)' = Past(ip)
  BY <1>1 DEF TrackInv, TrackerTypes, Past, Of
<1>4. Overrun'
  BY <1>1, <1>3 DEF TrackInv, Overrun, Of
<1>. QED  BY <1>2, <1>4 DEF TrackInv

\* reset_ip_attempts()
LEMMA ResetStep ==
    ASSUME TrackInv, NEW c \in Clients, ResetIpAttempts(c)
    PROVE  TrackInv'
<1>1. /\ client[c] # "idle" /\ tracker' = [tracker EXCEPT ![IpOf[c]] = NoEntry]
      /\ client' = [client EXCEPT ![c] = "idle"]
  BY DEF ResetIpAttempts
<1>2. /\ \A ip \in Addresses : ip # IpOf[c] => Past(ip)' = Past(ip) /\ tracker'[ip] = tracker[ip]
      /\ Cardinality(Past(IpOf[c])') = Cardinality(Past(IpOf[c])) - 1
      /\ tracker'[IpOf[c]] = NoEntry /\ IpOf[c] \in Addresses
  BY <1>1, Settles, Limits DEF TrackInv, TrackerTypes
<1>3. NoEntry \in [attempts : Nat, age : 0..(Window + 1), block : 0..Block]
  BY Limits DEF NoEntry
<1>4. TrackerTypes'
  BY <1>1, <1>3 DEF TrackInv, TrackerTypes
<1>5. AtLimitBlocked'
  BY <1>2, Limits DEF TrackInv, AtLimitBlocked, NoEntry
<1>6. Overrun'
  <2>. SUFFICES ASSUME NEW ip \in Addresses
                PROVE  /\ tracker'[ip].attempts < MaxAttempts + Cardinality(Of(ip))
                       /\ tracker'[ip].age <= Window =>
                             tracker'[ip].attempts + Cardinality(Past(ip)')
                                < MaxAttempts + Cardinality(Of(ip))
    BY DEF Overrun, Of
  <2>1. CASE ip = IpOf[c]
    BY <1>2, <2>1, Counts, Limits DEF NoEntry
  <2>2. CASE ip # IpOf[c]
    BY <1>2, <2>2 DEF TrackInv, Overrun
  <2>. QED  BY <2>1, <2>2
<1>. QED  BY <1>4, <1>5, <1>6 DEF TrackInv

\* record_failed_attempt()
LEMMA RecordStep ==
    ASSUME TrackInv, NEW c \in Clients, RecordFailedAttempt(c)
    PROVE  TrackInv'
<1>. DEFINE e == tracker[IpOf[c]]
            n == IF e.age > Window THEN 1 ELSE e.attempts + 1
            f == Failed(e, n)
<1>1. /\ client[c] # "idle" /\ tracker' = [tracker EXCEPT ![IpOf[c]] = f]
      /\ client' = [client EXCEPT ![c] = "idle"]
  BY DEF RecordFailedAttempt
<1>2. /\ \A ip \in Addresses : ip # IpOf[c] => Past(ip)' = Past(ip) /\ tracker'[ip] = tracker[ip]
      /\ Cardinality(Past(IpOf[c])') = Cardinality(Past(IpOf[c])) - 1
      /\ tracker'[IpOf[c]] = f /\ IpOf[c] \in Addresses
  BY <1>1, Settles, Limits DEF TrackInv, TrackerTypes
<1>3. e.attempts \in Nat /\ e.age \in 0..(Window + 1) /\ e.block \in 0..Block
  BY <1>2 DEF TrackInv, TrackerTypes
<1>4. /\ f \in [attempts : Nat, age : 0..(Window + 1), block : 0..Block]
      /\ f.attempts = n /\ f.age <= Window /\ n # 0
      /\ n >= MaxAttempts => f.block = Block
  BY <1>3, Limits DEF Failed
<1>5. /\ e.attempts < MaxAttempts + Cardinality(Of(IpOf[c]))
      /\ e.age <= Window => e.attempts + Cardinality(Past(IpOf[c]))
                               < MaxAttempts + Cardinality(Of(IpOf[c]))
  BY <1>2 DEF TrackInv, Overrun
<1>6. n + (Cardinality(Past(IpOf[c])) - 1) < MaxAttempts + Cardinality(Of(IpOf[c]))
  <2>1. /\ Cardinality(Past(IpOf[c])) \in Nat /\ Cardinality(Of(IpOf[c])) \in Nat
        /\ Cardinality(Past(IpOf[c])) <= Cardinality(Of(IpOf[c]))
    BY Counts
  <2>. QED  BY <1>3, <1>5, <2>1, Limits
<1>7. Cardinality(Past(IpOf[c])) - 1 \in Nat
  <2>1. c \in Past(IpOf[c])
    BY <1>1 DEF Past, Of
  <2>2. Cardinality(Past(IpOf[c])) \in Nat /\ Cardinality(Past(IpOf[c])) # 0
    BY <2>1, Counts, FS_EmptySet
  <2>. QED  BY <2>2
<1>. HIDE DEF f, n, e
<1>8. TrackerTypes'
  BY <1>1, <1>4 DEF TrackInv, TrackerTypes
<1>9. AtLimitBlocked'
  <2>. SUFFICES ASSUME NEW ip \in Addresses
                PROVE  /\ tracker'[ip].attempts = 0 => tracker'[ip].block = 0
                       /\ tracker'[ip].attempts >= MaxAttempts /\ tracker'[ip].age <= Window =>
                             tracker'[ip].block >= Block - tracker'[ip].age
    BY DEF AtLimitBlocked
  <2>1. CASE ip = IpOf[c]
    BY <1>2, <1>4, <2>1, Limits
  <2>2. CASE ip # IpOf[c]
    BY <1>2, <2>2 DEF TrackInv, AtLimitBlocked
  <2>. QED  BY <2>1, <2>2
<1>10. Overrun'
  <2>. SUFFICES ASSUME NEW ip \in Addresses
                PROVE  /\ tracker'[ip].attempts < MaxAttempts + Cardinality(Of(ip))
                       /\ tracker'[ip].age <= Window =>
                             tracker'[ip].attempts + Cardinality(Past(ip)')
                                < MaxAttempts + Cardinality(Of(ip))
    BY DEF Overrun, Of
  <2>1. CASE ip = IpOf[c]
    <3>1. n \in Nat /\ Cardinality(Of(ip)) \in Nat
      BY <1>4, Counts
    <3>2. n < MaxAttempts + Cardinality(Of(ip))
      BY <1>6, <1>7, <2>1, <3>1, Limits
    <3>. QED  BY <1>2, <1>4, <1>6, <2>1, <3>2
  <2>2. CASE ip # IpOf[c]
    BY <1>2, <2>2 DEF TrackInv, Overrun
  <2>. QED  BY <2>1, <2>2
<1>. QED  BY <1>8, <1>9, <1>10 DEF TrackInv

\* cleanup_brute_force_tracker(), and a second that passes.
LEMMA AgeStep ==
    ASSUME TrackInv, CleanupTracker \/ Tick
    PROVE  TrackInv'
<1>1. client' = client /\ DOMAIN tracker' = Addresses
  BY DEF CleanupTracker, Tick
<1>2. \A ip : Past(ip)' = Past(ip)
  BY <1>1 DEF Past, Of
<1>3. ASSUME NEW ip \in Addresses
      PROVE  /\ tracker'[ip] \in [attempts : Nat, age : 0..(Window + 1), block : 0..Block]
             /\ tracker'[ip].attempts \in {0, tracker[ip].attempts}
             /\ tracker'[ip].age <= Window /\ tracker'[ip].attempts # 0 => tracker[ip].age <= Window
             /\ tracker'[ip].attempts = 0 => tracker'[ip].block = 0
             /\ tracker'[ip].attempts >= MaxAttempts /\ tracker'[ip].age <= Window =>
                   tracker'[ip].block >= Block - tracker'[ip].age
  <2>1. /\ tracker[ip] \in [attempts : Nat, age : 0..(Window + 1), block : 0..Block]
        /\ tracker[ip].attempts = 0 => tracker[ip].block = 0
        /\ tracker[ip].attempts >= MaxAttempts /\ tracker[ip].age <= Window =>
              tracker[ip].block >= Block - tracker[ip].age
    BY DEF TrackInv, TrackerTypes, AtLimitBlocked
  <2>2. CASE tracker'[ip] = NoEntry
    BY <2>2, Limits DEF NoEntry
  <2>3. CASE tracker'[ip] = tracker[ip]
    BY <2>1, <2>3, Limits
  <2>4. CASE tracker[ip].attempts # 0 /\
             tracker'[ip] = [tracker[ip] EXCEPT !.age = IF @ > Window THEN @ ELSE @ + 1,
                                                !.block = IF @ = 0 THEN 0 ELSE @ - 1]
    <3>1. /\ tracker'[ip].attempts = tracker[ip].attempts
          /\ tracker'[ip].age =
                IF tracker[ip].age > Window THEN tracker[ip].age ELSE tracker[ip].age + 1
          /\ tracker'[ip].block = IF tracker[ip].block = 0 THEN 0 ELSE tracker[ip].block - 1
          /\ tracker'[ip] = [attempts |-> tracker'[ip].attempts, age |-> tracker'[ip].age,
                             block |-> tracker'[ip].block]
      BY <2>1, <2>4
    <3>2. /\ tracker[ip].attempts \in Nat /\ tracker[ip].age \in 0..(Window + 1)
          /\ tracker[ip].block \in 0..Block
      BY <2>1
    <3>3. /\ tracker'[ip].age \in 0..(Window + 1) /\ tracker'[ip].block \in 0..Block
          /\ tracker'[ip].age <= Window => tracker[ip].age <= Window
      BY <3>1, <3>2, Limits
    <3>4. tracker'[ip] \in [attempts : Nat, age : 0..(Window + 1), block : 0..Block]
      BY <3>1, <3>2, <3>3
    <3>5. tracker'[ip].attempts >= MaxAttempts /\ tracker'[ip].age <= Window =>
             tracker'[ip].block >= Block - tracker'[ip].age
      BY <2>1, <3>1, <3>2, <3>3, Limits
    <3>. QED  BY <2>4, <3>1, <3>3, <3>4, <3>5
  <2>5. CASE CleanupTracker
    BY <2>2, <2>3, <2>5 DEF CleanupTracker
  <2>6. CASE Tick
    BY <2>2, <2>4, <2>6 DEF Tick
  <2>. QED  BY <2>5, <2>6
<1>4. TrackerTypes'
  <2>1. tracker' = [ip \in Addresses |-> tracker'[ip]]
    BY DEF CleanupTracker, Tick
  <2>. QED  BY <1>1, <1>3, <2>1 DEF TrackInv, TrackerTypes
<1>5. AtLimitBlocked'
  BY <1>3 DEF AtLimitBlocked
<1>6. Overrun'
  <2>. SUFFICES ASSUME NEW ip \in Addresses
                PROVE  /\ tracker'[ip].attempts < MaxAttempts + Cardinality(Of(ip))
                       /\ tracker'[ip].age <= Window =>
                             tracker'[ip].attempts + Cardinality(Past(ip))
                                < MaxAttempts + Cardinality(Of(ip))
    BY <1>2 DEF Overrun, Of
  <2>1. /\ tracker[ip].attempts < MaxAttempts + Cardinality(Of(ip))
        /\ tracker[ip].age <= Window =>
              tracker[ip].attempts + Cardinality(Past(ip)) < MaxAttempts + Cardinality(Of(ip))
    BY DEF TrackInv, Overrun
  <2>2. /\ Cardinality(Past(ip)) \in Nat /\ Cardinality(Of(ip)) \in Nat
        /\ Cardinality(Past(ip)) <= Cardinality(Of(ip))
    BY Counts
  <2>. QED  BY <1>3, <2>1, <2>2, Limits
<1>. QED  BY <1>4, <1>5, <1>6 DEF TrackInv

\* Everything else leaves the tracker alone.
LEMMA TrackStep ==
    ASSUME TrackInv, [Next]_vars
    PROVE  TrackInv'
<1>1. ASSUME NEW c \in Clients, CheckIp(c) \/ ResetIpAttempts(c) \/ RecordFailedAttempt(c)
      PROVE  TrackInv'
  BY <1>1, CheckStep, ResetStep, RecordStep
<1>2. ASSUME NEW c \in Clients, NEW k \in Keys, Verify(c, k)  PROVE TrackInv'
  BY <1>2, VerifyStep
<1>3. CASE CleanupTracker \/ Tick
  BY <1>3, AgeStep
<1>4. CASE UNCHANGED <<tracker, client>>
  BY <1>4 DEF TrackInv, TrackerTypes, AtLimitBlocked, Overrun, Past, Of
<1>5. ASSUME NEW a \in Admins,
             \/ \E t \in Tokens \cup {NoToken} : IsOpenMode(a, t)
             \/ ValidateBearerToken(a) \/ Forbidden(a)
             \/ \E s \in Streams : CreateStream(a, s)
             \/ \E s \in Streams : RotateDrop(a, s)
             \/ \E k \in ApiKeys : Generate(a, k)
      PROVE  UNCHANGED <<tracker, client>>
  BY <1>5 DEF IsOpenMode, ValidateBearerToken, Forbidden, CreateStream, RotateDrop, Generate
<1>6. (\E c \in Configs : ReloadKeys(c)) \/ ReloadTokens \/ UNCHANGED vars =>
        UNCHANGED <<tracker, client>>
  BY DEF ReloadKeys, ReloadTokens, vars
<1>. QED  BY <1>1, <1>2, <1>3, <1>4, <1>5, <1>6 DEF Next

-----------------------------------------------------------------------------
(* The properties.                                                         *)

\* At the start no address has failed.
LEMMA TrackInit ==
    ASSUME Init
    PROVE  TrackInv
<1>1. tracker = [ip \in Addresses |-> NoEntry] /\ client = [c \in Clients |-> "idle"]
  BY DEF Init
<1>2. NoEntry \in [attempts : Nat, age : 0..(Window + 1), block : 0..Block]
  BY Limits DEF NoEntry
<1>3. TrackerTypes /\ AtLimitBlocked
  BY <1>1, <1>2, Limits DEF TrackerTypes, AtLimitBlocked, NoEntry
<1>4. Overrun
  BY <1>1, Counts, Limits DEF Overrun, NoEntry
<1>. QED  BY <1>3, <1>4 DEF TrackInv

\* Both invariants hold throughout.
LEMMA Invariants == Spec => []KeyInv /\ []TrackInv
<1>1. Init => KeyInv /\ TrackInv
  BY KeyInit, TrackInit
<1>2. KeyInv /\ [Next]_vars => KeyInv'
  BY KeyStep
<1>3. TrackInv /\ [Next]_vars => TrackInv'
  BY TrackStep
<1>. QED  BY <1>1, <1>2, <1>3, PTL DEF Spec

\* A sound store accepts exactly the keys it has, or every key when empty.
LEMMA Validation ==
    ASSUME NEW s, Sound(s), NEW k
    PROVE  ValidateStreamKey(s, k)
              <=> (s.keys = <<>> \/ \E i \in DOMAIN s.keys : s.keys[i].key = k)
BY DEF ValidateStreamKey, Verifies, Sound, Indexed, HashAt

\* Records, entries and requests keep their shapes and the index never points
\* past the records, whatever creations, rotations and reloads run
\* (IngestKeyStore, BruteForceEntry).
THEOREM TypeCorrect == Spec => []TypeOK
<1>1. KeyInv /\ TrackInv => TypeOK
  <2>. SUFFICES ASSUME KeyInv, TrackInv  PROVE TypeOK
    OBVIOUS
  <2>1. store.keys \in Seq(Records)
    BY DEF KeyInv, Sound
  <2>2. \A i \in DOMAIN store.keys :
           store.keys[i] \in [key : Keys, stream : Streams \cup {NoStream}]
    <3>1. \A i \in DOMAIN store.keys : store.keys[i] \in Records
      BY <2>1
    <3>. QED  BY <3>1 DEF Records
  <2>. QED  BY <2>2 DEF KeyInv, Sound, Indexed, KeyTypes, TrackInv, TrackerTypes, TypeOK
<1>. QED  BY <1>1, Invariants, PTL

\* The indexed lookups answer what a scan would: for every hash function,
\* colliding ones too (validate_stream_key(), resolve_stream_id_for_key()).
THEOREM LookupsAgreeWithScan == Spec => []LookupCorrect
<1>1. KeyInv => LookupCorrect
  <2>. SUFFICES ASSUME KeyInv, NEW k \in Keys
                PROVE  LET found == {i \in DOMAIN store.keys : store.keys[i].key = k}
                       IN  /\ ValidateStreamKey(store, k) <=> (store.keys = <<>> \/ found # {})
                           /\ ResolveStreamId(store, k) # NoStream =>
                                 \E i \in found : store.keys[i].stream = ResolveStreamId(store, k)
                           /\ (\E i \in found : store.keys[i].stream # NoStream) =>
                                 ResolveStreamId(store, k) # NoStream
    BY DEF LookupCorrect
  <2>. DEFINE found == {i \in DOMAIN store.keys : store.keys[i].key = k}
              bound == {i \in DOMAIN store.keys :
                           Verifies(store, i, k) /\ store.keys[i].stream # NoStream}
              at == store.index[HashOf[k]]
              first == CHOOSE i \in bound : \A j \in bound : i <= j
  <2>1. Sound(store) /\ store.keys \in Seq(Records)
    BY DEF KeyInv, Sound
  <2>2. ValidateStreamKey(store, k) <=> (store.keys = <<>> \/ found # {})
    BY <2>1, Validation
  <2>3. bound = {i \in found : store.keys[i].stream # NoStream}
    BY DEF Verifies
  <2>4. bound # {} => first \in bound
    <3>1. bound \subseteq Nat
      BY <2>1
    <3>2. bound # {} => \E i \in bound : \A j \in bound : i <= j
      <4>. HIDE DEF bound
      <4>. QED  BY <3>1, SmallestPosition
    <3>. HIDE DEF bound
    <3>. QED  BY <3>2
  <2>5. ResolveStreamId(store, k) =
           IF HashOf[k] \notin DOMAIN store.index THEN NoStream
           ELSE IF Verifies(store, at, k) THEN store.keys[at].stream
           ELSE IF bound = {} THEN NoStream ELSE store.keys[first].stream
    BY DEF ResolveStreamId
  <2>6. Verifies(store, at, k) => at \in found
    BY DEF Verifies
  <2>7. found # {} => HashOf[k] \in DOMAIN store.index
    BY <2>1 DEF Sound, Indexed, HashAt
  <2>8. \A i \in found : store.keys[i].stream = NoStream <=> k \in ConfigKeys
    BY <2>1 DEF Sound, Bindings
  <2>. HIDE DEF found, bound, at, first
  <2>9. ResolveStreamId(store, k) # NoStream =>
           \E i \in found : store.keys[i].stream = ResolveStreamId(store, k)
    BY <2>3, <2>4, <2>5, <2>6
  <2>10. (\E i \in found : store.keys[i].stream # NoStream) =>
            ResolveStreamId(store, k) # NoStream
    BY <2>3, <2>4, <2>5, <2>6, <2>7, <2>8
  <2>. QED  BY <2>2, <2>9, <2>10 DEF found
<1>. QED  BY <1>1, Invariants, PTL

\* The keys of the configuration in force are accepted and keep the store from
\* accepting every key, whatever rotations run between reloads
\* (validate_stream_key(), update_stream_keys()).
THEOREM ConfiguredKeysAreAccepted == Spec => []ConfiguredKeysHold
<1>1. KeyInv => ConfiguredKeysHold
  <2>. SUFFICES ASSUME KeyInv  PROVE ConfiguredKeysHold
    OBVIOUS
  <2>1. Sound(store) /\ store.keys \in Seq(Records) /\ config.keys \in Seq(ConfigKeys)
    BY DEF KeyInv, KeyTypes, Sound
  <2>2. ASSUME NEW k \in KeysOf(config.keys)
        PROVE  \E i \in DOMAIN store.keys : store.keys[i].key = k
    <3>1. PICK i \in DOMAIN store.keys : store.keys[i] = [key |-> k, stream |-> NoStream]
      BY DEF KeyInv, Configured
    <3>2. store.keys[i].key = k
      BY <3>1
    <3>. QED  BY <3>2
  <2>3. \A k \in KeysOf(config.keys) : ValidateStreamKey(store, k)
    BY <2>1, <2>2, Validation
  <2>4. config.keys # <<>> => KeysOf(config.keys) # {}
    <3>. SUFFICES ASSUME config.keys # <<>>  PROVE config.keys[1] \in KeysOf(config.keys)
      OBVIOUS
    <3>1. 1 \in DOMAIN config.keys
      BY <2>1
    <3>. QED  BY <3>1 DEF KeysOf
  <2>5. config.keys # <<>> => store.keys # <<>>
    BY <2>1, <2>2, <2>4
  <2>. QED  BY <2>3, <2>5 DEF ConfiguredKeysHold
<1>. QED  BY <1>1, Invariants, PTL

\* Once its rotations are over a stream has one key at most, unless two of them
\* overlapped (rotate_stream_key_for_stream()).
THEOREM RotationsReplaceKeys == Spec => []RotationReplaces
<1>1. KeyInv => RotationReplaces
  <2>. SUFFICES ASSUME KeyInv, NEW s \in Streams, s \notin overlapped
                PROVE  Cardinality(BoundTo(s)) <= 1
    BY DEF RotationReplaces, BoundTo
  <2>1. \A i, j \in BoundTo(s) : i = j
    BY DEF KeyInv, OneKey
  <2>2. CASE BoundTo(s) = {}
    BY <2>2, FS_EmptySet
  <2>3. CASE BoundTo(s) # {}
    <3>1. \E i : BoundTo(s) = {i}
      BY <2>1, <2>3
    <3>2. Cardinality(BoundTo(s)) = 1
      BY <3>1, FS_Singleton
    <3>. QED  BY <3>2
  <2>. QED  BY <2>2, <2>3
<1>. QED  BY <1>1, Invariants, PTL

\* The attempts of an address pass the limit by less than its connections
\* (is_ip_blocked(), record_failed_attempt()).
THEOREM OverrunIsBounded == Spec => []OverrunBounded
<1>1. TrackInv => OverrunBounded
  BY DEF TrackInv, Overrun, OverrunBounded, Of
<1>. QED  BY <1>1, Invariants, PTL

\* Only a success, or a failure after the window ran out, ends a block before
\* its time (record_failed_attempt(), cleanup_brute_force_tracker()).
THEOREM BlocksLast == Spec => BlockLasts
<1>. DEFINE Ends(ip) ==
              tracker[ip].block > 1 /\ tracker'[ip].block = 0 =>
                 \E c \in Clients :
                    /\ IpOf[c] = ip
                    /\ \/ client[c] = "valid"
                       \/ client[c] = "invalid" /\ tracker[ip].age > Window
                    /\ client'[c] = "idle"
<1>1. TrackInv /\ [Next]_vars => [\A ip \in Addresses : Ends(ip)]_vars
  <2>. SUFFICES ASSUME TrackInv, Next, NEW ip \in Addresses, tracker[ip].block > 1,
                       tracker'[ip].block = 0
                PROVE  \E c \in Clients :
                          /\ IpOf[c] = ip
                          /\ \/ client[c] = "valid"
                             \/ client[c] = "invalid" /\ tracker[ip].age > Window
                          /\ client'[c] = "idle"
    OBVIOUS
  <2>1. /\ tracker \in [Addresses -> [attempts : Nat, age : 0..(Window + 1), block : 0..Block]]
        /\ DOMAIN client = Clients
        /\ tracker[ip].block \in Nat /\ tracker[ip].attempts # 0
    BY Limits DEF TrackInv, TrackerTypes, AtLimitBlocked
  <2>2. tracker'[ip] # tracker[ip]
    BY <2>1
  <2>3. ASSUME NEW c \in Clients, ResetIpAttempts(c)
        PROVE  IpOf[c] = ip /\ client[c] = "valid" /\ client'[c] = "idle"
    BY <2>1, <2>2, <2>3 DEF ResetIpAttempts
  <2>4. ASSUME NEW c \in Clients, RecordFailedAttempt(c)
        PROVE  /\ IpOf[c] = ip /\ client[c] = "invalid" /\ client'[c] = "idle"
               /\ tracker[ip].age > Window
    <3>1. IpOf[c] = ip /\ client[c] = "invalid" /\ client'[c] = "idle"
      BY <2>1, <2>2, <2>4 DEF RecordFailedAttempt
    <3>2. \E n \in Nat : tracker'[ip] = Failed(tracker[ip], n)
      BY <2>1, <2>4, <3>1 DEF RecordFailedAttempt
    <3>3. PICK n \in Nat : tracker'[ip] = Failed(tracker[ip], n)
      BY <3>2
    <3>4. tracker'[ip].block = IF n >= MaxAttempts THEN Block
                               ELSE IF tracker[ip].age > Window THEN 0 ELSE tracker[ip].block
      BY <3>3 DEF Failed
    <3>5. tracker[ip].age > Window
      BY <2>1, <3>4, Limits
    <3>. QED  BY <3>1, <3>5
  <2>5. CASE CleanupTracker
    BY <2>1, <2>2, <2>5, Limits DEF CleanupTracker, Blocked
  <2>6. CASE Tick
    <3>1. tracker'[ip] = [tracker[ip] EXCEPT !.age = IF @ > Window THEN @ ELSE @ + 1,
                                             !.block = IF @ = 0 THEN 0 ELSE @ - 1]
      BY <2>1, <2>6 DEF Tick
    <3>2. "block" \in DOMAIN tracker[ip]
      BY <2>1
    <3>3. tracker'[ip].block = tracker[ip].block - 1
      BY <2>1, <3>1, <3>2
    <3>. QED  BY <2>1, <3>3
  <2>7. ASSUME NEW c \in Clients, CheckIp(c) \/ (\E k \in Keys : Verify(c, k))
        PROVE  FALSE
    BY <2>2, <2>7 DEF CheckIp, Verify
  <2>8. ASSUME NEW a \in Admins,
               \/ \E t \in Tokens \cup {NoToken} : IsOpenMode(a, t)
               \/ ValidateBearerToken(a) \/ Forbidden(a)
               \/ \E s \in Streams : CreateStream(a, s)
               \/ \E s \in Streams : RotateDrop(a, s)
               \/ \E k \in ApiKeys : Generate(a, k)
        PROVE  FALSE
    BY <2>2, <2>8 DEF IsOpenMode, ValidateBearerToken, Forbidden, CreateStream, RotateDrop,
                      Generate
  <2>9. CASE (\E c \in Configs : ReloadKeys(c)) \/ ReloadTokens
    BY <2>2, <2>9 DEF ReloadKeys, ReloadTokens
  <2>. QED  BY <2>3, <2>4, <2>5, <2>6, <2>7, <2>8, <2>9 DEF Next
<1>2. Spec => [][\A ip \in Addresses : Ends(ip)]_vars
  BY <1>1, Invariants, PTL DEF Spec
<1>. QED  BY <1>2 DEF BlockLasts

=============================================================================
