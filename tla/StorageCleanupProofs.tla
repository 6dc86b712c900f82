------------------------- MODULE StorageCleanupProofs -------------------------
(***************************************************************************)
(* Proofs about StorageCleanup, for every window, retention, pace of the   *)
(* stream and delay of the writes that the assumption relates.             *)
(***************************************************************************)
EXTENDS StorageCleanup, TLAPS

-----------------------------------------------------------------------------
(* The inductive invariant.                                                *)

Write == [kind : {"segment", "playlist"}, seq : Nat \ {0}, age : Nat]

\* What is stored or under way was cut; no write is under way for longer than
\* Lag.
Types ==
    /\ live \in BOOLEAN
    /\ cut \in 0..MaxSegments /\ sinceCut \in 0..Gap
    /\ pending \subseteq Write
    /\ \A w \in pending : w.seq <= cut /\ w.age <= Lag
    /\ age \in [DOMAIN age -> Nat] /\ DOMAIN age \subseteq 1..cut
    /\ playlist \in 0..cut
    /\ cleaner \in [pc : {"idle", "read", "delete"}, found : BOOLEAN,
                    expired : SUBSET (1..cut), listed : SUBSET Segments]

\* The stream will cut more segments.
GoesOn == live /\ cut < MaxSegments

\* While the stream goes on it cuts a segment in every Gap, and a stored segment
\* is no older than its cut.
AgeInv ==
    /\ GoesOn => \A k \in DOMAIN age : age[k] <= sinceCut + (cut - k) * Gap
    /\ \A k \in DOMAIN age, w \in pending :
          k <= w.seq => age[k] <= w.age + (w.seq - k) * Gap

\* What had expired when the cycle began is out of the window of every playlist
\* that is under way or yet to be cut, and no write of it is under way.
ExpiredInv ==
    \A k \in cleaner.expired :
        /\ GoesOn => k + Window <= cut
        /\ \A w \in pending : /\ w.kind = "playlist" => k \notin Listed(w.seq)
                              /\ w.kind = "segment" => w.seq # k

\* The stored playlist lists an expired segment only if it did so when it was
\* read, or is yet to be read.
PlaylistInv ==
    /\ cleaner.pc = "read" /\ ~cleaner.found =>
          \A k \in cleaner.expired : k \notin Listed(playlist)
    /\ cleaner.pc = "delete" /\ ~blind =>
          \A k \in cleaner.expired \ cleaner.listed : k \notin Listed(playlist)

Inv == Types /\ AgeInv /\ ExpiredInv /\ PlaylistInv

-----------------------------------------------------------------------------
(* Arithmetic.                                                             *)

\* What is used of the product with Gap.
LEMMA Products ==
    /\ \A a \in Nat : a * Gap \in Nat /\ (a + 1) * Gap = a * Gap + Gap
    /\ \A a, b \in Nat : a <= b => a * Gap <= b * Gap
    /\ Gap \in Nat \ {0} /\ Window \in Nat \ {0} /\ Lag \in Nat \ {0}
    /\ Retention \in Nat \ {0} /\ MaxSegments \in Nat \ {0}
    /\ Window * Gap \in Nat /\ Retention >= Window * Gap + Lag
<1>1. Gap \in Nat \ {0} /\ Window \in Nat \ {0} /\ Lag \in Nat \ {0}
      /\ Retention \in Nat \ {0} /\ MaxSegments \in Nat \ {0}
  BY CleanupAssumption
<1>2. ASSUME NEW a \in Nat
      PROVE  a * Gap \in Nat /\ (a + 1) * Gap = a * Gap + Gap
  BY <1>1
<1>3. ASSUME NEW a \in Nat, NEW b \in Nat, a <= b
      PROVE  a * Gap <= b * Gap
  BY <1>1, <1>3
<1>. QED  BY <1>1, <1>2, <1>3, CleanupAssumption

-----------------------------------------------------------------------------
(* The steps.                                                              *)

\* Time passes for every write alike.
LEMMA TickPending ==
    ASSUME Types, Tick
    PROVE  \A v \in pending' : \E w \in pending :
              /\ v.kind = w.kind /\ v.seq = w.seq /\ v.age = w.age + 1
              /\ w.age < Lag /\ v \in Write
<1>. SUFFICES ASSUME NEW v \in pending'
              PROVE  \E w \in pending :
                        /\ v.kind = w.kind /\ v.seq = w.seq /\ v.age = w.age + 1
                        /\ w.age < Lag /\ v \in Write
  OBVIOUS
<1>1. PICK w \in pending : v = [w EXCEPT !.age = @ + 1]
  BY DEF Tick
<1>2. w \in Write /\ w.age < Lag
  BY DEF Types, Tick
<1>3. v.kind = w.kind /\ v.seq = w.seq /\ v.age = w.age + 1 /\ v \in Write
  BY <1>1, <1>2 DEF Write
<1>. QED  BY <1>2, <1>3

\* Every step keeps the types.
LEMMA TypesStep ==
    ASSUME Types, [Next]_vars
    PROVE  Types'
<1>0. Gap \in Nat \ {0} /\ Lag \in Nat \ {0} /\ MaxSegments \in Nat \ {0}
  BY Products
<1>1. ASSUME Cut
      PROVE  Types'
  <2>1. cut' = cut + 1 /\ cut' \in 1..MaxSegments /\ sinceCut' = 0
    BY <1>0, <1>1 DEF Cut, Types
  <2>2. \A w \in pending' : w \in Write /\ w.seq <= cut' /\ w.age <= Lag
    BY <1>0, <1>1, <2>1 DEF Cut, Types, Write
  <2>3. 1..cut \subseteq 1..cut' /\ 0..cut \subseteq 0..cut'
    BY <1>0, <2>1 DEF Types
  <2>4. /\ cleaner' \in [pc : {"idle", "read", "delete"}, found : BOOLEAN,
                         expired : SUBSET (1..cut'), listed : SUBSET Segments]
    BY <1>1, <2>3 DEF Cut, Types
  <2>. QED  BY <1>0, <1>1, <2>1, <2>2, <2>3, <2>4 DEF Cut, Types
<1>2. ASSUME StreamEnds
      PROVE  Types'
  BY <1>2 DEF StreamEnds, Types
<1>3. ASSUME Tick
      PROVE  Types'
  <2>1. \A w \in pending' : w \in Write /\ w.seq <= cut /\ w.age <= Lag
    <3>. SUFFICES ASSUME NEW v \in pending'
                  PROVE  v \in Write /\ v.seq <= cut /\ v.age <= Lag
      OBVIOUS
    <3>1. PICK w \in pending : /\ v.kind = w.kind /\ v.seq = w.seq /\ v.age = w.age + 1
                               /\ w.age < Lag /\ v \in Write
      BY <1>3, TickPending
    <3>. QED  BY <1>0, <3>1 DEF Types, Write
  <2>2. age' \in [DOMAIN age -> Nat] /\ DOMAIN age' = DOMAIN age
    BY <1>3 DEF Tick, Types
  <2>3. sinceCut' \in 0..Gap
    BY <1>0, <1>3 DEF Tick, Types
  <2>. QED  BY <1>3, <2>1, <2>2, <2>3 DEF Tick, Types
<1>4. ASSUME NEW w \in pending, PutLands(w)
      PROVE  Types'
  <2>1. w.seq \in 1..cut
    BY <1>0, <1>4 DEF Types, Write
  <2>2. pending' \subseteq pending
    BY <1>4 DEF PutLands
  <2>3. CASE w.kind = "segment"
    <3>1. /\ age' = [k \in DOMAIN age \cup {w.seq} |-> IF k = w.seq THEN 0 ELSE age[k]]
          /\ UNCHANGED <<live, cut, sinceCut, playlist, cleaner>>
      BY <1>4, <2>3 DEF PutLands
    <3>2. age' \in [DOMAIN age' -> Nat] /\ DOMAIN age' \subseteq 1..cut
      BY <2>1, <3>1 DEF Types
    <3>. QED  BY <2>2, <3>1, <3>2 DEF Types
  <2>4. CASE w.kind # "segment"
    <3>1. playlist' = w.seq /\ UNCHANGED <<live, cut, sinceCut, age, cleaner>>
      BY <1>4, <2>4 DEF PutLands
    <3>2. playlist' \in 0..cut
      BY <1>0, <2>1, <3>1 DEF Types
    <3>. QED  BY <2>2, <3>1, <3>2 DEF Types
  <2>. QED  BY <2>3, <2>4
<1>5. ASSUME NEW w \in pending, PutFails(w)
      PROVE  Types'
  BY <1>5 DEF PutFails, Types
<1>6. ASSUME ListObjects
      PROVE  Types'
  BY <1>6 DEF ListObjects, Types
<1>7. ASSUME ReadPlaylist
      PROVE  Types'
  BY <1>7 DEF ReadPlaylist, Types, Listed
<1>8. ASSUME NEW k \in Segments, DeleteObject(k)
      PROVE  Types'
  <2>1. age' \in [DOMAIN age' -> Nat] /\ DOMAIN age' \subseteq DOMAIN age
    BY <1>8 DEF DeleteObject, Types
  <2>. QED  BY <1>8, <2>1 DEF DeleteObject, Types
<1>9. ASSUME EndCycle
      PROVE  Types'
  BY <1>9 DEF EndCycle, Types, Idle
<1>10. ASSUME UNCHANGED vars
      PROVE  Types'
  BY <1>10 DEF vars, Types
<1>. QED
  BY <1>1, <1>2, <1>3, <1>4, <1>5, <1>6, <1>7, <1>8, <1>9, <1>10 DEF Next

\* Steps that only take writes or segments away keep the ages.
LEMMA QuietAge ==
    ASSUME AgeInv, GoesOn' => GoesOn, UNCHANGED <<cut, sinceCut>>,
           pending' \subseteq pending,
           \A k \in DOMAIN age' : k \in DOMAIN age /\ age'[k] = age[k]
    PROVE  AgeInv'
BY DEF AgeInv

\* The pace of the stream bounds the ages, step by step.
LEMMA AgeStep ==
    ASSUME Types, AgeInv, [Next]_vars
    PROVE  AgeInv'
<1>0. Gap \in Nat \ {0} /\ Lag \in Nat \ {0} /\ MaxSegments \in Nat \ {0}
  BY Products
<1>a. \A k \in DOMAIN age : k \in 1..cut /\ age[k] \in Nat
  BY DEF Types
<1>1. ASSUME Cut
      PROVE  AgeInv'
  <2>1. GoesOn /\ cut' = cut + 1 /\ sinceCut' = 0 /\ age' = age
    BY <1>1 DEF Cut, GoesOn
  <2>2. ASSUME NEW k \in DOMAIN age
        PROVE  age[k] <= (cut' - k) * Gap
    <3>1. cut - k \in Nat /\ age[k] \in Nat /\ sinceCut \in 0..Gap
      BY <1>a DEF Types
    <3>2. age[k] <= sinceCut + (cut - k) * Gap
      BY <2>1 DEF AgeInv
    <3>3. (cut - k + 1) * Gap = (cut - k) * Gap + Gap /\ (cut - k) * Gap \in Nat
      BY <3>1, Products
    <3>4. cut' - k = cut - k + 1
      BY <1>a, <2>1 DEF Types
    <3>. QED  BY <1>0, <3>1, <3>2, <3>3, <3>4
  <2>3. ASSUME NEW k \in DOMAIN age, NEW w \in pending', k <= w.seq
        PROVE  age[k] <= w.age + (w.seq - k) * Gap
    <3>1. CASE w \in pending
      BY <2>3, <3>1 DEF AgeInv
    <3>2. CASE w \notin pending
      <4>1. w.seq = cut' /\ w.age = 0
        BY <1>1, <3>2 DEF Cut
      <4>2. cut' - k \in Nat
        BY <1>a, <2>1 DEF Types
      <4>3. (cut' - k) * Gap \in Nat
        BY <4>2, Products
      <4>. QED  BY <2>2, <4>1, <4>3
    <3>. QED  BY <3>1, <3>2
  <2>4. ASSUME NEW k \in DOMAIN age
        PROVE  age[k] <= sinceCut' + (cut' - k) * Gap
    <3>1. cut' - k \in Nat
      BY <1>a, <2>1 DEF Types
    <3>2. (cut' - k) * Gap \in Nat
      BY <3>1, Products
    <3>. QED  BY <2>1, <2>2, <3>2
  <2>. QED  BY <2>1, <2>3, <2>4 DEF AgeInv
<1>2. ASSUME StreamEnds
      PROVE  AgeInv'
  BY <1>2, QuietAge DEF StreamEnds, GoesOn
<1>3. ASSUME Tick
      PROVE  AgeInv'
  <2>1. /\ DOMAIN age' = DOMAIN age /\ UNCHANGED <<live, cut>>
        /\ \A k \in DOMAIN age : age'[k] \in Nat /\ age'[k] <= age[k] + 1
    BY <1>3, <1>a, Products DEF Tick
  <2>2. GoesOn => sinceCut' = sinceCut + 1
    BY <1>0, <1>3 DEF Tick, GoesOn, Types
  <2>3. ASSUME GoesOn, NEW k \in DOMAIN age
        PROVE  age'[k] <= sinceCut' + (cut - k) * Gap
    <3>1. cut - k \in Nat
      BY <1>a DEF Types
    <3>2. (cut - k) * Gap \in Nat /\ sinceCut \in Nat
      BY <1>0, <3>1, Products DEF Types
    <3>3. age[k] <= sinceCut + (cut - k) * Gap
      BY <2>3 DEF AgeInv
    <3>. QED  BY <1>a, <2>1, <2>2, <2>3, <3>2, <3>3
  <2>4. ASSUME NEW k \in DOMAIN age, NEW v \in pending', k <= v.seq
        PROVE  age'[k] <= v.age + (v.seq - k) * Gap
    <3>1. PICK w \in pending : /\ v.kind = w.kind /\ v.seq = w.seq /\ v.age = w.age + 1
                               /\ w.age < Lag /\ v \in Write
      BY <1>3, TickPending
    <3>2. w.seq \in Nat /\ w.age \in Nat
      BY DEF Types, Write
    <3>3. w.seq - k \in Nat
      BY <1>a, <2>4, <3>1, <3>2 DEF Types
    <3>4. (w.seq - k) * Gap \in Nat
      BY <3>3, Products
    <3>5. age[k] <= w.age + (w.seq - k) * Gap
      BY <2>4, <3>1 DEF AgeInv
    <3>6. age'[k] <= w.age + 1 + (w.seq - k) * Gap
      BY <1>a, <2>1, <3>2, <3>4, <3>5
    <3>. QED  BY <3>1, <3>6
  <2>5. GoesOn' <=> GoesOn
    BY <2>1 DEF GoesOn
  <2>. QED  BY <2>1, <2>3, <2>4, <2>5 DEF AgeInv
<1>4. ASSUME NEW w \in pending, PutLands(w)
      PROVE  AgeInv'
  <2>1. pending' \subseteq pending /\ UNCHANGED <<live, cut, sinceCut>>
    BY <1>4 DEF PutLands
  <2>2. CASE w.kind # "segment"
    BY <1>4, <2>1, <2>2, QuietAge DEF PutLands, GoesOn
  <2>3. CASE w.kind = "segment"
    <3>1. \A k \in DOMAIN age' : IF k = w.seq THEN age'[k] = 0
                                 ELSE k \in DOMAIN age /\ age'[k] = age[k]
      BY <1>4, <2>3 DEF PutLands
    <3>2. \A k \in DOMAIN age' : k \in 1..cut
      BY <1>0, <1>a, <3>1 DEF Types, Write
    <3>3. ASSUME GoesOn, NEW k \in DOMAIN age'
          PROVE  age'[k] <= sinceCut + (cut - k) * Gap
      <4>1. cut - k \in Nat
        BY <3>2 DEF Types
      <4>2. (cut - k) * Gap \in Nat /\ sinceCut \in Nat
        BY <1>0, <4>1, Products DEF Types
      <4>. QED  BY <3>1, <3>3, <4>2 DEF AgeInv
    <3>4. ASSUME NEW k \in DOMAIN age', NEW v \in pending', k <= v.seq
          PROVE  age'[k] <= v.age + (v.seq - k) * Gap
      <4>1. v \in pending /\ v.seq \in Nat /\ v.age \in Nat
        BY <2>1 DEF Types, Write
      <4>2. v.seq - k \in Nat
        BY <3>2, <3>4, <4>1 DEF Types
      <4>3. (v.seq - k) * Gap \in Nat
        BY <4>2, Products
      <4>. QED  BY <3>1, <3>4, <4>1, <4>3 DEF AgeInv
    <3>5. GoesOn' <=> GoesOn
      BY <2>1 DEF GoesOn
    <3>. QED  BY <2>1, <3>3, <3>4, <3>5 DEF AgeInv
  <2>. QED  BY <2>2, <2>3
<1>5. ASSUME NEW w \in pending, PutFails(w)
      PROVE  AgeInv'
  BY <1>5, QuietAge DEF PutFails, GoesOn
<1>6. ASSUME ListObjects \/ ReadPlaylist \/ EndCycle \/ UNCHANGED vars
      PROVE  AgeInv'
  BY <1>6, QuietAge DEF ListObjects, ReadPlaylist, EndCycle, vars, GoesOn
<1>7. ASSUME NEW k \in Segments, DeleteObject(k)
      PROVE  AgeInv'
  BY <1>7, QuietAge DEF DeleteObject, GoesOn
<1>. QED
  BY <1>1, <1>2, <1>3, <1>4, <1>5, <1>6, <1>7 DEF Next

\* What is older than the retention is out of every window to come, and no
\* write of it is under way.
LEMMA OldIsOut ==
    ASSUME Types, AgeInv, NEW k \in DOMAIN age, age[k] > Retention
    PROVE  /\ GoesOn => k + Window <= cut
           /\ \A w \in pending : /\ k \notin Listed(w.seq)
                                 /\ w.seq # k
<1>0. /\ Gap \in Nat \ {0} /\ Lag \in Nat \ {0} /\ Window \in Nat \ {0}
      /\ Retention \in Nat /\ Window * Gap \in Nat /\ Retention >= Window * Gap + Lag
      /\ k \in 1..cut /\ cut \in Nat /\ age[k] \in Nat
  BY Products DEF Types
<1>1. ASSUME GoesOn
      PROVE  k + Window <= cut
  <2>1. cut - k \in Nat /\ sinceCut \in 0..Gap
    BY <1>0 DEF Types
  <2>2. age[k] <= sinceCut + (cut - k) * Gap
    BY <1>1 DEF AgeInv
  <2>3. (cut - k + 1) * Gap = (cut - k) * Gap + Gap /\ (cut - k) * Gap \in Nat
    BY <2>1, Products
  <2>4. (cut - k + 1) * Gap > Window * Gap
    BY <1>0, <2>1, <2>2, <2>3
  <2>5. cut - k + 1 \in Nat /\ (cut - k + 1) * Gap \in Nat
    BY <2>1, <2>3, <1>0
  <2>6. ~(cut - k + 1 <= Window)
    BY <1>0, <2>4, <2>5, Products
  <2>. QED  BY <1>0, <2>1, <2>6
<1>2. ASSUME NEW w \in pending
      PROVE  k \notin Listed(w.seq) /\ w.seq # k
  <2>1. w.seq \in Nat /\ w.age \in 0..Lag
    BY <1>0 DEF Types, Write
  <2>2. CASE w.seq < k
    BY <1>0, <2>1, <2>2 DEF Listed
  <2>3. CASE k <= w.seq
    <3>1. w.seq - k \in Nat
      BY <1>0, <2>1, <2>3
    <3>2. age[k] <= w.age + (w.seq - k) * Gap /\ (w.seq - k) * Gap \in Nat
      BY <2>3, <3>1, Products DEF AgeInv
    <3>3. (w.seq - k) * Gap > Window * Gap
      BY <1>0, <2>1, <3>2
    <3>4. ~(w.seq - k <= Window)
      BY <1>0, <3>1, <3>2, <3>3, Products
    <3>. QED  BY <1>0, <2>1, <3>1, <3>4 DEF Listed
  <2>. QED  BY <1>0, <2>1, <2>2, <2>3
<1>. QED  BY <1>1, <1>2

\* Steps that keep the cycle's list, or shorten it, and bring no write.
LEMMA QuietExpired ==
    ASSUME ExpiredInv, GoesOn' => GoesOn, UNCHANGED cut,
           pending' \subseteq pending, cleaner'.expired \subseteq cleaner.expired
    PROVE  ExpiredInv'
BY DEF ExpiredInv, Listed

\* The cycle's list stays right although it grows old.
LEMMA ExpiredStep ==
    ASSUME Types, AgeInv, ExpiredInv, [Next]_vars
    PROVE  ExpiredInv'
<1>0. Window \in Nat \ {0} /\ cleaner.expired \subseteq 1..cut /\ cut \in Nat
  BY Products DEF Types
<1>1. ASSUME Cut
      PROVE  ExpiredInv'
  <2>1. GoesOn /\ cut' = cut + 1 /\ cleaner' = cleaner
    BY <1>1 DEF Cut, GoesOn
  <2>2. ASSUME NEW k \in cleaner.expired
        PROVE  /\ k + Window <= cut' /\ k # cut' /\ k \notin Listed(cut')
    <3>1. k + Window <= cut
      BY <2>1 DEF ExpiredInv
    <3>. QED  BY <1>0, <2>1, <3>1 DEF Listed
  <2>3. ASSUME NEW k \in cleaner.expired, NEW w \in pending'
        PROVE  /\ w.kind = "playlist" => k \notin Listed(w.seq)
               /\ w.kind = "segment" => w.seq # k
    <3>1. CASE w \in pending
      BY <3>1 DEF ExpiredInv
    <3>2. CASE w \notin pending
      <4>1. w.seq = cut'
        BY <1>1, <3>2 DEF Cut
      <4>. QED  BY <2>2, <4>1
    <3>. QED  BY <3>1, <3>2
  <2>4. \A n : Listed(n)' = Listed(n)
    BY DEF Listed
  <2>. QED  BY <2>1, <2>2, <2>3, <2>4 DEF ExpiredInv, Listed
<1>2. ASSUME StreamEnds
      PROVE  ExpiredInv'
  BY <1>2, QuietExpired DEF StreamEnds, GoesOn
<1>3. ASSUME Tick
      PROVE  ExpiredInv'
  <2>1. UNCHANGED <<live, cut, cleaner>>
    BY <1>3 DEF Tick
  <2>2. ASSUME NEW k \in cleaner.expired, NEW v \in pending'
        PROVE  /\ v.kind = "playlist" => k \notin Listed(v.seq)
               /\ v.kind = "segment" => v.seq # k
    <3>1. PICK w \in pending : v.kind = w.kind /\ v.seq = w.seq
      BY <1>3, TickPending
    <3>. QED  BY <3>1 DEF ExpiredInv
  <2>. QED  BY <2>1, <2>2 DEF ExpiredInv, GoesOn, Listed
<1>4. ASSUME NEW w \in pending, PutLands(w) \/ PutFails(w)
      PROVE  ExpiredInv'
  BY <1>4, QuietExpired DEF PutLands, PutFails, GoesOn
<1>5. ASSUME ListObjects
      PROVE  ExpiredInv'
  <2>1. \A k \in cleaner'.expired : k \in DOMAIN age /\ age[k] > Retention
    BY <1>5 DEF ListObjects
  <2>2. UNCHANGED <<live, cut, pending>>
    BY <1>5 DEF ListObjects
  <2>3. \A k \in cleaner'.expired :
           /\ GoesOn => k + Window <= cut
           /\ \A w \in pending : k \notin Listed(w.seq) /\ w.seq # k
    BY <2>1, OldIsOut
  <2>. QED  BY <2>2, <2>3 DEF ExpiredInv, GoesOn, Listed
<1>6. ASSUME ReadPlaylist \/ EndCycle \/ UNCHANGED vars
      PROVE  ExpiredInv'
  <2>1. cleaner'.expired \subseteq cleaner.expired
    <3>1. CASE ReadPlaylist
      BY <3>1 DEF ReadPlaylist, Types
    <3>2. CASE EndCycle
      <4>1. cleaner' = Idle /\ Idle.expired = {}
        BY <3>2 DEF EndCycle, Idle
      <4>. QED  BY <4>1
    <3>3. CASE UNCHANGED vars
      BY <3>3 DEF vars
    <3>. QED  BY <1>6, <3>1, <3>2, <3>3
  <2>. QED  BY <1>6, <2>1, QuietExpired DEF ReadPlaylist, EndCycle, vars, GoesOn
<1>7. ASSUME NEW k \in Segments, DeleteObject(k)
      PROVE  ExpiredInv'
  BY <1>7, QuietExpired DEF DeleteObject, GoesOn, Types
<1>. QED
  BY <1>1, <1>2, <1>3, <1>4, <1>5, <1>6, <1>7 DEF Next

\* A playlist that lands after the cycle looked lists nothing it will delete.
LEMMA PlaylistStep ==
    ASSUME Types, ExpiredInv, PlaylistInv, [Next]_vars
    PROVE  PlaylistInv'
<1>0. \A n : Listed(n)' = Listed(n)
  BY DEF Listed
<1>1. ASSUME UNCHANGED <<playlist, cleaner, blind>>
      PROVE  PlaylistInv'
  BY <1>1 DEF PlaylistInv, Listed
<1>2. ASSUME NEW w \in pending, PutLands(w)
      PROVE  PlaylistInv'
  <2>1. UNCHANGED <<cleaner, blind>>
    BY <1>2 DEF PutLands
  <2>2. CASE w.kind = "segment"
    BY <1>1, <1>2, <2>1, <2>2 DEF PutLands
  <2>3. CASE w.kind # "segment"
    <3>1. playlist' = w.seq /\ w.kind = "playlist"
      BY <1>2, <2>3 DEF PutLands, Types, Write
    <3>2. \A k \in cleaner.expired : k \notin Listed(w.seq)
      BY <3>1 DEF ExpiredInv
    <3>. QED  BY <2>1, <3>1, <3>2 DEF PlaylistInv, Listed
  <2>. QED  BY <2>2, <2>3
<1>3. ASSUME ListObjects
      PROVE  PlaylistInv'
  <2>1. cleaner'.pc = "read" /\ (~cleaner'.found => playlist = 0) /\ playlist' = playlist
    BY <1>3 DEF ListObjects
  <2>2. Listed(0) = {}
    BY Products DEF Listed, Segments
  <2>3. \A k : playlist' = 0 => k \notin Listed(playlist)'
    BY <2>2 DEF Listed
  <2>. QED  BY <2>1, <2>3 DEF PlaylistInv
<1>4. ASSUME ReadPlaylist
      PROVE  PlaylistInv'
  <2>1. /\ cleaner'.pc = "delete" /\ cleaner'.expired = cleaner.expired
        /\ UNCHANGED playlist
    BY <1>4 DEF ReadPlaylist, Types
  <2>2. \/ blind'
        \/ cleaner'.listed = IF cleaner.found THEN Listed(playlist) ELSE {}
    BY <1>4 DEF ReadPlaylist, Types
  <2>3. ~cleaner.found => \A k \in cleaner.expired : k \notin Listed(playlist)
    BY <1>4 DEF ReadPlaylist, PlaylistInv
  <2>. QED  BY <2>1, <2>2, <2>3 DEF PlaylistInv, Listed
<1>5. ASSUME NEW k \in Segments, DeleteObject(k)
      PROVE  PlaylistInv'
  <2>1. /\ cleaner.pc = "delete" /\ cleaner'.pc = "delete"
        /\ cleaner'.expired \subseteq cleaner.expired
        /\ cleaner'.listed = cleaner.listed /\ UNCHANGED <<playlist, blind>>
    BY <1>5 DEF DeleteObject, Types
  <2>. QED  BY <2>1 DEF PlaylistInv, Listed
<1>6. ASSUME EndCycle
      PROVE  PlaylistInv'
  BY <1>6 DEF EndCycle, Idle, PlaylistInv
<1>7. ASSUME Cut \/ StreamEnds \/ Tick \/ (\E w \in pending : PutFails(w)) \/ UNCHANGED vars
      PROVE  PlaylistInv'
  BY <1>1, <1>7 DEF Cut, StreamEnds, Tick, PutFails, vars
<1>. QED
  BY <1>2, <1>3, <1>4, <1>5, <1>6, <1>7 DEF Next

-----------------------------------------------------------------------------
(* The theorems.                                                           *)

\* Nothing is cut, stored or being cleaned at first.
LEMMA InitInv == Init => Inv
<1>. SUFFICES ASSUME Init PROVE Inv
  OBVIOUS
<1>1. Types
  BY Products DEF Init, Types, Idle
<1>2. AgeInv /\ ExpiredInv /\ PlaylistInv
  BY DEF Init, AgeInv, ExpiredInv, PlaylistInv, Idle
<1>. QED  BY <1>1, <1>2 DEF Inv

\* Every step keeps the invariant.
LEMMA StepInv == Inv /\ [Next]_vars => Inv'
BY TypesStep, AgeStep, ExpiredStep, PlaylistStep DEF Inv

\* So it holds for ever.
LEMMA Invariance == Spec => []Inv
BY InitInv, StepInv, PTL DEF Spec

\* Only the cleaner takes an object away, one it found expired and unlisted.
LEMMA OnlyDeleteRemoves ==
    ASSUME Inv, [Next]_vars, NEW k \in DOMAIN age \ DOMAIN age'
    PROVE  DeleteObject(k) /\ k \in cleaner.expired \ cleaner.listed
<1>1. ASSUME NEW j \in Segments, DeleteObject(j)
      PROVE  j = k
  BY <1>1 DEF DeleteObject
<1>2. \E j \in Segments : DeleteObject(j)
  BY DEF Next, Cut, StreamEnds, Tick, PutLands, PutFails, ListObjects, ReadPlaylist,
         EndCycle, vars
<1>. QED  BY <1>1, <1>2 DEF DeleteObject

\* For any window, retention, pace and delay with room for the window in the
\* retention: a cycle that could read the playlist deletes no segment that the
\* stored playlist lists, nor one that a playlist still under way lists.
THEOREM CleanerSparesListedSegments == Spec => CleanerSparesListed
<1>1. ASSUME Inv, [Next]_vars, NEW k \in DOMAIN age \ DOMAIN age'
      PROVE  \/ blind
             \/ /\ k \notin Listed(playlist)
                /\ \A w \in pending : w.kind = "playlist" => k \notin Listed(w.seq)
  BY <1>1, OnlyDeleteRemoves DEF Inv, ExpiredInv, PlaylistInv, DeleteObject
<1>2. Inv /\ [Next]_vars =>
        [\A k \in DOMAIN age \ DOMAIN age' :
            \/ blind
            \/ /\ k \notin Listed(playlist)
               /\ \A w \in pending : w.kind = "playlist" => k \notin Listed(w.seq)]_vars
  BY <1>1
<1>. QED  BY <1>2, Invariance, PTL DEF Spec, CleanerSparesListed

\* No write of a segment is under way any more when the cleaner deletes it: a
\* late attempt of put_with_retry() does not bring it back.
THEOREM DeletedSegmentsStayDeleted == Spec => DeletedStaysDeleted
<1>1. ASSUME Inv, [Next]_vars, NEW k \in DOMAIN age \ DOMAIN age'
      PROVE  \A w \in pending : w.kind = "segment" => w.seq # k
  BY <1>1, OnlyDeleteRemoves DEF Inv, ExpiredInv
<1>2. Inv /\ [Next]_vars =>
        [\A k \in DOMAIN age \ DOMAIN age' :
            \A w \in pending : w.kind = "segment" => w.seq # k]_vars
  BY <1>1
<1>. QED  BY <1>2, Invariance, PTL DEF Spec, DeletedStaysDeleted

=============================================================================
