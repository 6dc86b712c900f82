----------------------------- MODULE RtmpProofs -----------------------------
(***************************************************************************)
(* Proofs about the RTMP server: RtmpIngest, for any number of             *)
(* connections, streams, keys, permits and queued events, and RtmpSession, *)
(* for any messages, timestamps, chunk sizes and limits.  The two          *)
(* specifications share no variable.                                       *)
(***************************************************************************)
EXTENDS RtmpIngest, RtmpSession, FiniteSetTheorems, TLAPS

-----------------------------------------------------------------------------
(* The connections (RtmpIngest): the inductive invariant.                  *)

\* The connections whose handle() is in one of the phases ps.
In(ps) == {c \in Connections : phase[c] \in ps}

Owning == Phases \ {"new", "closed"}

\* The gauge's part of PermitsConserved.
GaugeCounts == active = Cardinality(In({"start", "live"}))

\* Phases in which handle() has a stream.
Attached == {"create", "header", "start", "live", "ended", "failed"}

\* An identifier that was not generated has no record, no key and no
\* connection; the keys of the others were all handed out.
Identifiers ==
    /\ \A s \in StreamIds \ used :
          state[s] = "Absent" /\ generation[s] = 0 /\ rotating[s] = 0
    /\ \A s \in StreamIds : generation[s] + rotating[s] <= MaxKeys
    /\ \A k \in bound : k[2] <= generation[k[1]]
    /\ \A c \in Connections : phase[c] \in Attached => stream[c] \in used

\* A stream announced in the queue has its publisher, or the report of its end
\* is queued behind the announcement.
StartsAreFollowed ==
    \A s \in StreamIds, i \in DOMAIN events :
        events[i].kind = "StreamStarted" /\ events[i].stream = s =>
            Publishers(s) # {} \/ \E j \in Ends(s) : i < j

-----------------------------------------------------------------------------
(* Permits.                                                                *)

\* What a change of one connection's phase does to a count of connections.
LEMMA CountChange ==
    ASSUME NEW ps, NEW c \in Connections, NEW to,
           phase \in [Connections -> Phases], Go(c, to)
    PROVE  /\ Cardinality(In(ps)) \in Nat
           /\ phase[c] \in ps => Cardinality(In(ps)) > 0
           /\ Cardinality(In(ps)') = Cardinality(In(ps))
                 - (IF phase[c] \in ps THEN 1 ELSE 0) + (IF to \in ps THEN 1 ELSE 0)
<1>1. IsFiniteSet(In(ps)) /\ Cardinality(In(ps)) \in Nat
  BY RtmpIngestAssumption, FS_Subset, FS_CardinalityType DEF In
<1>2. \A d \in Connections : phase'[d] = IF d = c THEN to ELSE phase[d]
  BY DEF Go
<1>3. CASE phase[c] \in ps /\ to \in ps
  <2>1. In(ps)' = In(ps)
    BY <1>2, <1>3 DEF In
  <2>2. c \in In(ps)
    BY <1>3 DEF In
  <2>3. Cardinality(In(ps)) # 0
    BY <1>1, <2>2, FS_EmptySet
  <2>. QED  BY <1>1, <1>3, <2>1, <2>3
<1>4. CASE phase[c] \in ps /\ to \notin ps
  <2>1. In(ps)' = In(ps) \ {c}
    BY <1>2, <1>4 DEF In
  <2>2. c \in In(ps)
    BY <1>4 DEF In
  <2>3. Cardinality(In(ps)) # 0
    BY <1>1, <2>2, FS_EmptySet
  <2>4. Cardinality(In(ps) \ {c}) = Cardinality(In(ps)) - 1
    BY <1>1, <2>2, FS_RemoveElement
  <2>. QED  BY <1>1, <1>4, <2>1, <2>3, <2>4
<1>5. CASE phase[c] \notin ps /\ to \in ps
  <2>1. In(ps)' = In(ps) \cup {c}
    BY <1>2, <1>5 DEF In
  <2>2. c \notin In(ps)
    BY <1>5 DEF In
  <2>3. Cardinality(In(ps) \cup {c}) = Cardinality(In(ps)) + 1
    BY <1>1, <2>2, FS_AddElement
  <2>. QED  BY <1>1, <1>5, <2>1, <2>3
<1>6. CASE phase[c] \notin ps /\ to \notin ps
  <2>1. In(ps)' = In(ps)
    BY <1>2, <1>6 DEF In
  <2>. QED  BY <1>1, <1>6, <2>1
<1>. QED  BY <1>3, <1>4, <1>5, <1>6

\* The two sums in terms of In.
Balanced ==
    /\ connPermits + Cardinality(In(Owning)) = MaxConnections
    /\ streamPermits + Cardinality(In(Admitted)) = MaxStreams

\* With the gauge they are what PermitsConserved states.
LEMMA BalancedIsConserved ==
    ASSUME phase \in [Connections -> Phases]
    PROVE  PermitsConserved <=> Balanced /\ GaugeCounts
<1>1. Owners = In(Owning)
  BY DEF Owners, In, Owning
<1>. QED  BY <1>1 DEF PermitsConserved, Balanced, GaugeCounts, In

\* A step that moves one connection and its permits keeps both sums.
LEMMA MoveBalanced ==
    ASSUME NEW c \in Connections, NEW to \in Phases, Go(c, to),
           phase \in [Connections -> Phases], Balanced,
           connPermits \in Nat, streamPermits \in Nat,
           connPermits' = connPermits
               + (IF phase[c] \in Owning THEN 1 ELSE 0) - (IF to \in Owning THEN 1 ELSE 0),
           streamPermits' = streamPermits
               + (IF phase[c] \in Admitted THEN 1 ELSE 0) - (IF to \in Admitted THEN 1 ELSE 0),
           to \in Owning /\ phase[c] \notin Owning => connPermits > 0,
           to \in Admitted /\ phase[c] \notin Admitted => streamPermits > 0
    PROVE  /\ Balanced'
           /\ connPermits' \in 0..MaxConnections
           /\ streamPermits' \in 0..MaxStreams
           /\ phase' \in [Connections -> Phases]
<1>1. /\ Cardinality(In(Owning)) \in Nat
      /\ phase[c] \in Owning => Cardinality(In(Owning)) > 0
      /\ Cardinality(In(Owning)') = Cardinality(In(Owning))
            - (IF phase[c] \in Owning THEN 1 ELSE 0) + (IF to \in Owning THEN 1 ELSE 0)
  BY CountChange
<1>2. /\ Cardinality(In(Admitted)) \in Nat
      /\ phase[c] \in Admitted => Cardinality(In(Admitted)) > 0
      /\ Cardinality(In(Admitted)') = Cardinality(In(Admitted))
            - (IF phase[c] \in Admitted THEN 1 ELSE 0) + (IF to \in Admitted THEN 1 ELSE 0)
  BY CountChange
<1>3. Owning' = Owning /\ Admitted' = Admitted
  BY DEF Owning, Admitted, Phases
<1>4. /\ Cardinality(In(Owning))' = Cardinality(In(Owning)')
      /\ Cardinality(In(Admitted))' = Cardinality(In(Admitted)')
  OBVIOUS
<1>5. phase' \in [Connections -> Phases]
  BY DEF Go
<1>6. connPermits' + Cardinality(In(Owning)') = MaxConnections /\ connPermits' \in 0..MaxConnections
  BY <1>1, RtmpIngestAssumption DEF Balanced
<1>7. streamPermits' + Cardinality(In(Admitted)') = MaxStreams /\ streamPermits' \in 0..MaxStreams
  BY <1>2, RtmpIngestAssumption DEF Balanced
<1>. QED  BY <1>5, <1>6, <1>7 DEF Balanced

\* The types that the balance of the permits rests on and gives back.
PermitTypes ==
    /\ phase \in [Connections -> Phases]
    /\ connPermits \in 0..MaxConnections
    /\ streamPermits \in 0..MaxStreams

\* handle() returns, from any phase in which it runs.
LEMMA LeaveBalanced ==
    ASSUME NEW c \in Connections, phase[c] \in Owning, Leave(c), PermitTypes, Balanced
    PROVE  (Balanced /\ PermitTypes)'
<1>1. /\ Go(c, "closed")
      /\ connPermits' = connPermits + 1
      /\ streamPermits' = streamPermits + (IF phase[c] \in Admitted THEN 1 ELSE 0)
  BY DEF Leave
<1>2. /\ "closed" \in Phases /\ "closed" \notin Owning /\ "closed" \notin Admitted
  BY DEF Phases, Owning, Admitted
<1>3. connPermits \in Nat /\ streamPermits \in Nat /\ phase \in [Connections -> Phases]
  BY RtmpIngestAssumption DEF PermitTypes
<1>4. /\ connPermits' = connPermits
             + (IF phase[c] \in Owning THEN 1 ELSE 0) - (IF "closed" \in Owning THEN 1 ELSE 0)
      /\ streamPermits' = streamPermits
             + (IF phase[c] \in Admitted THEN 1 ELSE 0) - (IF "closed" \in Admitted THEN 1 ELSE 0)
  BY <1>1, <1>2, <1>3
<1>. QED  BY <1>1, <1>2, <1>3, <1>4, MoveBalanced DEF PermitTypes

\* handle() goes on and keeps the permits it has.
LEMMA StayBalanced ==
    ASSUME NEW c \in Connections, NEW to \in Owning, phase[c] \in Owning,
           phase[c] \in Admitted <=> to \in Admitted,
           Go(c, to), UNCHANGED <<connPermits, streamPermits>>, PermitTypes, Balanced
    PROVE  (Balanced /\ PermitTypes)'
<1>1. to \in Phases
  BY DEF Owning
<1>2. connPermits \in Nat /\ streamPermits \in Nat /\ phase \in [Connections -> Phases]
  BY RtmpIngestAssumption DEF PermitTypes
<1>3. /\ connPermits' = connPermits
             + (IF phase[c] \in Owning THEN 1 ELSE 0) - (IF to \in Owning THEN 1 ELSE 0)
      /\ streamPermits' = streamPermits
             + (IF phase[c] \in Admitted THEN 1 ELSE 0) - (IF to \in Admitted THEN 1 ELSE 0)
  BY <1>2
<1>. QED  BY <1>1, <1>2, <1>3, MoveBalanced DEF PermitTypes

\* A step that moves no connection leaves the permits alone.
LEMMA StillBalanced ==
    ASSUME UNCHANGED <<phase, connPermits, streamPermits>>, PermitTypes, Balanced
    PROVE  (Balanced /\ PermitTypes)'
BY DEF Balanced, PermitTypes, In

\* The permits stay balanced on every step, early returns included.
LEMMA PermitStep ==
    ASSUME PermitTypes, Balanced, [Next]_vars
    PROVE  (Balanced /\ PermitTypes)'
<1>0. connPermits \in Nat /\ streamPermits \in Nat /\ phase \in [Connections -> Phases]
  BY RtmpIngestAssumption DEF PermitTypes
<1>1. ASSUME NEW c \in Connections, Accept(c)
      PROVE  (Balanced /\ PermitTypes)'
  <2>1. CASE connPermits > 0 /\ connPermits' = connPermits - 1 /\ Go(c, "handshake")
    BY <1>0, <1>1, <2>1, MoveBalanced DEF Accept, PermitTypes, Phases, Owning, Admitted
  <2>2. CASE Go(c, "closed") /\ UNCHANGED connPermits
    BY <1>0, <1>1, <2>2, MoveBalanced DEF Accept, PermitTypes, Phases, Owning, Admitted
  <2>. QED  BY <1>1, <2>1, <2>2 DEF Accept
<1>2. ASSUME NEW c \in Connections, Handshake(c)
      PROVE  (Balanced /\ PermitTypes)'
  BY <1>2, LeaveBalanced, StayBalanced DEF Handshake, Owning, Admitted, Phases
<1>3. ASSUME NEW c \in Connections, CommandsFail(c)
      PROVE  (Balanced /\ PermitTypes)'
  BY <1>3, LeaveBalanced DEF CommandsFail, Owning, Phases
<1>4. ASSUME NEW c \in Connections, NEW k, Publish(c, k)
      PROVE  (Balanced /\ PermitTypes)'
  BY <1>4, StayBalanced DEF Publish, Owning, Admitted, Phases, serverVars
<1>5. ASSUME NEW c \in Connections, Authenticate(c)
      PROVE  (Balanced /\ PermitTypes)'
  BY <1>5, LeaveBalanced, StayBalanced DEF Authenticate, Owning, Admitted, Phases
<1>6. ASSUME NEW c \in Connections, AcquireStreamPermit(c)
      PROVE  (Balanced /\ PermitTypes)'
  <2>1. CASE streamPermits > 0 /\ streamPermits' = streamPermits - 1 /\ Go(c, "resolve")
             /\ UNCHANGED connPermits
    BY <1>0, <1>6, <2>1, MoveBalanced
       DEF AcquireStreamPermit, PermitTypes, Phases, Owning, Admitted
  <2>2. CASE Leave(c)
    BY <1>6, <2>2, LeaveBalanced DEF AcquireStreamPermit, Owning, Phases
  <2>. QED  BY <1>6, <2>1, <2>2 DEF AcquireStreamPermit
<1>7. ASSUME NEW c \in Connections, ResolveBound(c)
      PROVE  (Balanced /\ PermitTypes)'
  BY <1>7, LeaveBalanced, StayBalanced DEF ResolveBound, Owning, Admitted, Phases
<1>8. ASSUME NEW c \in Connections, CreateBound(c)
      PROVE  (Balanced /\ PermitTypes)'
  BY <1>8, StayBalanced DEF CreateBound, Owning, Admitted, Phases, serverVars
<1>9. ASSUME NEW c \in Connections, NEW s \in StreamIds, ResolveUnbound(c, s)
      PROVE  (Balanced /\ PermitTypes)'
  BY <1>9, StayBalanced DEF ResolveUnbound, Owning, Admitted, Phases, serverVars
<1>10. ASSUME NEW c \in Connections, HeaderFails(c)
      PROVE  (Balanced /\ PermitTypes)'
  BY <1>10, LeaveBalanced DEF HeaderFails, Owning, Admitted, Phases
<1>11. ASSUME NEW c \in Connections, HeaderArrives(c)
      PROVE  (Balanced /\ PermitTypes)'
  BY <1>11, StayBalanced DEF HeaderArrives, Owning, Admitted, Phases
<1>12. ASSUME NEW c \in Connections, Start(c)
      PROVE  (Balanced /\ PermitTypes)'
  BY <1>12, StayBalanced DEF Start, Owning, Admitted, Phases, serverVars
<1>13. ASSUME NEW c \in Connections, NEW outcome \in {"ended", "failed"},
              EndDemux(c, outcome)
      PROVE  (Balanced /\ PermitTypes)'
  BY <1>13, StayBalanced DEF EndDemux, Owning, Admitted, Phases
<1>14. ASSUME NEW c \in Connections, Report(c)
      PROVE  (Balanced /\ PermitTypes)'
  BY <1>14, LeaveBalanced DEF Report, Owning, Admitted, Phases
<1>15. ASSUME HandleEvent
      PROVE  (Balanced /\ PermitTypes)'
  BY <1>15, StillBalanced DEF HandleEvent, serverVars
<1>16. ASSUME NEW s \in StreamIds,
              CreateStream(s) \/ RotateKey(s) \/ RotateKeyEnd(s) \/ Retire(s)
      PROVE  (Balanced /\ PermitTypes)'
  BY <1>16, StillBalanced
     DEF CreateStream, RotateKey, RotateKeyEnd, Retire, serverVars
<1>17. ASSUME UNCHANGED vars
      PROVE  (Balanced /\ PermitTypes)'
  BY <1>17, StillBalanced DEF vars, serverVars
<1>. QED
  BY <1>1, <1>2, <1>3, <1>4, <1>5, <1>6, <1>7, <1>8, <1>9, <1>10, <1>11, <1>12,
     <1>13, <1>14, <1>15, <1>16, <1>17
     DEF Next, Step

-----------------------------------------------------------------------------
(* The gauge.                                                              *)

\* What the steps do to the phases and to the gauge: a connection that is about
\* to start is counted, one that ends is no longer.
LEMMA GaugeStep ==
    ASSUME phase \in [Connections -> Phases], GaugeCounts, [Next]_vars
    PROVE  GaugeCounts'
<1> DEFINE counted == {"start", "live"}
<1>1. ASSUME UNCHANGED <<phase, active>>
      PROVE  GaugeCounts'
  BY <1>1 DEF GaugeCounts, In
<1>2. ASSUME NEW c \in Connections, NEW to, Go(c, to),
             phase[c] \in counted <=> to \in counted, UNCHANGED active
      PROVE  GaugeCounts'
  <2>1. /\ Cardinality(In(counted)) \in Nat
        /\ Cardinality(In(counted)') = Cardinality(In(counted))
              - (IF phase[c] \in counted THEN 1 ELSE 0) + (IF to \in counted THEN 1 ELSE 0)
    BY <1>2, CountChange
  <2>. QED  BY <1>2, <2>1 DEF GaugeCounts
<1>3. ASSUME NEW c \in Connections, HeaderArrives(c)
      PROVE  GaugeCounts'
  <2>1. /\ Cardinality(In(counted)) \in Nat
        /\ Cardinality(In(counted)') = Cardinality(In(counted))
              - (IF phase[c] \in counted THEN 1 ELSE 0) + 1
    BY <1>3, CountChange DEF HeaderArrives
  <2>. QED  BY <1>3, <2>1 DEF HeaderArrives, GaugeCounts
<1>4. ASSUME NEW c \in Connections, NEW outcome \in {"ended", "failed"},
             EndDemux(c, outcome)
      PROVE  GaugeCounts'
  <2>1. /\ Cardinality(In(counted)) \in Nat
        /\ phase[c] \in counted => Cardinality(In(counted)) > 0
        /\ Cardinality(In(counted)') = Cardinality(In(counted))
              - (IF phase[c] \in counted THEN 1 ELSE 0) + (IF outcome \in counted THEN 1 ELSE 0)
    BY <1>4, CountChange DEF EndDemux
  <2>. QED  BY <1>4, <2>1 DEF EndDemux, GaugeCounts
<1>5. ASSUME NEW c \in Connections, NEW k,
             \/ Accept(c) \/ Handshake(c) \/ CommandsFail(c) \/ Publish(c, k)
             \/ Authenticate(c) \/ AcquireStreamPermit(c)
      PROVE  GaugeCounts'
  BY <1>2, <1>5
     DEF Accept, Handshake, CommandsFail, Publish, Authenticate, AcquireStreamPermit,
         Leave, serverVars
<1>6. ASSUME NEW c \in Connections,
             \/ ResolveBound(c) \/ CreateBound(c) \/ (\E s \in StreamIds : ResolveUnbound(c, s))
             \/ HeaderFails(c) \/ Start(c) \/ Report(c)
      PROVE  GaugeCounts'
  BY <1>2, <1>6
     DEF ResolveBound, CreateBound, ResolveUnbound, HeaderFails, Start, Report,
         Leave, serverVars
<1>7. ASSUME NEW s \in StreamIds,
             CreateStream(s) \/ RotateKey(s) \/ RotateKeyEnd(s) \/ Retire(s)
      PROVE  GaugeCounts'
  BY <1>1, <1>7 DEF CreateStream, RotateKey, RotateKeyEnd, Retire, serverVars
<1>8. ASSUME HandleEvent
      PROVE  GaugeCounts'
  BY <1>1, <1>8 DEF HandleEvent, serverVars
<1>9. ASSUME UNCHANGED vars
      PROVE  GaugeCounts'
  BY <1>1, <1>9 DEF vars, serverVars
<1>. QED
  BY <1>3, <1>4, <1>5, <1>6, <1>7, <1>8, <1>9 DEF Next, Step

-----------------------------------------------------------------------------
(* Identifiers, records and keys.                                          *)

Message == [kind : {"StreamStarted", "StreamEnded", "StreamError"}, stream : StreamIds]

\* The types of what the control plane and the connections share.
ControlTypes ==
    /\ key \in [Connections -> ApiKeys \cup {StaticKey, WrongKey, None}]
    /\ stream \in [Connections -> StreamIds \cup {None}]
    /\ state \in [StreamIds -> States]
    /\ generation \in [StreamIds -> 0..MaxKeys]
    /\ bound \in SUBSET ApiKeys
    /\ rotating \in [StreamIds -> 0..MaxKeys]
    /\ used \in SUBSET StreamIds
    /\ events \in Seq(Message)

\* A key that is bound belongs to a stream that exists or existed.
LEMMA BoundKey ==
    ASSUME ControlTypes, Identifiers, NEW k \in bound
    PROVE  k[1] \in used /\ k[2] \in 1..MaxKeys /\ k = <<k[1], k[2]>>
<1>1. PICK s \in StreamIds, n \in 1..MaxKeys : k = <<s, n>>
  BY DEF ControlTypes, ApiKeys
<1>2. n <= generation[s]
  BY <1>1 DEF Identifiers
<1>3. generation[s] # 0
  BY <1>2, RtmpIngestAssumption DEF ControlTypes
<1>. QED  BY <1>1, <1>3 DEF Identifiers

\* The next key of a stream is a new one, and within the bound.
LEMMA MakeKeyTypes ==
    ASSUME ControlTypes, Identifiers, NEW s \in StreamIds, MakeKey(s),
           generation[s] < MaxKeys
    PROVE  /\ generation' \in [StreamIds -> 0..MaxKeys]
           /\ bound' \in SUBSET ApiKeys
           /\ generation'[s] = generation[s] + 1
           /\ \A t \in StreamIds \ {s} : generation'[t] = generation[t]
           /\ \A k \in bound' : k[2] <= generation'[k[1]]
<1>1. /\ generation' = [generation EXCEPT ![s] = @ + 1]
      /\ bound' = bound \cup {<<s, generation'[s]>>}
  BY DEF MakeKey
<1>2. generation[s] \in 0..MaxKeys /\ generation[s] + 1 \in 1..MaxKeys
  BY RtmpIngestAssumption DEF ControlTypes
<1>3. /\ generation' \in [StreamIds -> 0..MaxKeys]
      /\ generation'[s] = generation[s] + 1
      /\ \A t \in StreamIds \ {s} : generation'[t] = generation[t]
  BY <1>1, <1>2, RtmpIngestAssumption DEF ControlTypes
<1>4. <<s, generation'[s]>> \in ApiKeys
  BY <1>2, <1>3 DEF ApiKeys
<1>5. ASSUME NEW k \in bound'
      PROVE  k[2] <= generation'[k[1]]
  <2>1. CASE k = <<s, generation'[s]>>
    BY <1>2, <1>3, <2>1
  <2>2. CASE k \in bound
    <3>1. k[1] \in StreamIds /\ k[2] \in Nat /\ k[2] <= generation[k[1]]
      BY <2>2, BoundKey, RtmpIngestAssumption DEF Identifiers, ControlTypes
    <3>2. generation[k[1]] \in Nat
      BY <3>1, RtmpIngestAssumption DEF ControlTypes
    <3>3. generation[k[1]] <= generation'[k[1]]
      BY <1>2, <1>3, <3>1, <3>2
    <3>4. generation'[k[1]] \in Nat
      BY <1>3, <3>1, RtmpIngestAssumption
    <3>. QED  BY <3>1, <3>2, <3>3, <3>4
  <2>. QED  BY <1>1, <2>1, <2>2
<1>. QED  BY <1>1, <1>3, <1>4, <1>5 DEF ControlTypes

\* A connection that moves within the phases it is attached in, or leaves, and
\* touches nothing else.
LEMMA QuietIdentifiers ==
    ASSUME ControlTypes, Identifiers, phase \in [Connections -> Phases],
           NEW c \in Connections, NEW to, Go(c, to),
           to \in Attached => phase[c] \in Attached,
           UNCHANGED <<key, stream, state, generation, bound, rotating, used>>,
           events' \in Seq(Message)
    PROVE  (ControlTypes /\ Identifiers)'
BY DEF ControlTypes, Identifiers, Go

\* Every step keeps the types and the bookkeeping of identifiers and keys.
LEMMA IdentifierStep ==
    ASSUME ControlTypes, Identifiers, phase \in [Connections -> Phases], [Next]_vars
    PROVE  (ControlTypes /\ Identifiers)'
<1> USE DEF serverVars, controlVars, keyVars
<1>0. events \in Seq(Message)
  BY DEF ControlTypes
<1>1. ASSUME NEW c \in Connections,
             \/ Accept(c) \/ Handshake(c) \/ CommandsFail(c)
             \/ Authenticate(c) \/ AcquireStreamPermit(c)
             \/ HeaderFails(c) \/ HeaderArrives(c)
             \/ \E outcome \in {"ended", "failed"} : EndDemux(c, outcome)
      PROVE  (ControlTypes /\ Identifiers)'
  BY <1>0, <1>1, QuietIdentifiers
     DEF Accept, Handshake, CommandsFail, Authenticate, AcquireStreamPermit, HeaderFails,
         HeaderArrives, EndDemux, Leave, Attached
<1>2. ASSUME NEW c \in Connections, NEW k \in Known \cup {StaticKey, WrongKey}, Publish(c, k)
      PROVE  (ControlTypes /\ Identifiers)'
  <2>1. k \in ApiKeys \cup {StaticKey, WrongKey, None}
    BY DEF Known
  <2>. QED  BY <1>2, <2>1 DEF Publish, Go, ControlTypes, Identifiers, Attached
<1>3. ASSUME NEW c \in Connections, ResolveBound(c)
      PROVE  (ControlTypes /\ Identifiers)'
  <2>1. key[c][1] \in used
    BY <1>3, BoundKey DEF ResolveBound
  <2>2. PICK to : Go(c, to)
    BY <1>3 DEF ResolveBound, Leave
  <2>. QED  BY <1>3, <2>1, <2>2 DEF ResolveBound, Go, ControlTypes, Identifiers
<1>4. ASSUME NEW c \in Connections, CreateBound(c)
      PROVE  (ControlTypes /\ Identifiers)'
  <2>1. stream[c] \in used
    BY <1>4 DEF CreateBound, Identifiers, Attached
  <2>. QED  BY <1>4, <2>1 DEF CreateBound, Go, ControlTypes, Identifiers, Attached, States
<1>5. ASSUME NEW c \in Connections, NEW s \in StreamIds, ResolveUnbound(c, s)
      PROVE  (ControlTypes /\ Identifiers)'
  BY <1>5 DEF ResolveUnbound, Go, ControlTypes, Identifiers, Attached, States
<1>6. ASSUME NEW c \in Connections, Start(c) \/ Report(c)
      PROVE  (ControlTypes /\ Identifiers)'
  <2>1. stream[c] \in StreamIds
    BY <1>6 DEF Start, Report, Identifiers, Attached, ControlTypes
  <2>2. PICK m \in Message : events' = Append(events, m)
    BY <1>6, <2>1 DEF Start, Report, Send, Message
  <2>3. events' \in Seq(Message)
    BY <1>0, <2>2
  <2>. QED  BY <1>6, <2>3, QuietIdentifiers DEF Start, Report, Leave, Attached
<1>7. ASSUME HandleEvent
      PROVE  (ControlTypes /\ Identifiers)'
  <2>1. Head(events) \in Message /\ Tail(events) \in Seq(Message)
    BY <1>0, <1>7 DEF HandleEvent
  <2>2. PICK from \in SUBSET (States \ {"Absent"}), to \in States :
           Move(Head(events).stream, from, to)
    BY <1>7 DEF HandleEvent, States
  <2>3. Head(events).stream \in StreamIds
    BY <2>1 DEF Message
  <2>4. /\ state' \in [StreamIds -> States]
        /\ \A s \in StreamIds : state[s] = "Absent" => state'[s] = "Absent"
    BY <2>2, <2>3 DEF Move, ControlTypes
  <2>. QED  BY <1>7, <2>1, <2>4 DEF HandleEvent, ControlTypes, Identifiers
<1>8. ASSUME NEW s \in StreamIds, CreateStream(s)
      PROVE  (ControlTypes /\ Identifiers)'
  <2>1. generation[s] = 0 /\ rotating[s] = 0
    BY <1>8 DEF CreateStream, Identifiers
  <2>2. /\ generation' \in [StreamIds -> 0..MaxKeys]
        /\ bound' \in SUBSET ApiKeys
        /\ generation'[s] = generation[s] + 1
        /\ \A t \in StreamIds \ {s} : generation'[t] = generation[t]
        /\ \A k \in bound' : k[2] <= generation'[k[1]]
    BY <1>8, <2>1, MakeKeyTypes, RtmpIngestAssumption DEF CreateStream
  <2>3. ControlTypes'
    BY <1>8, <2>2 DEF CreateStream, ControlTypes, States
  <2>4. /\ \A t \in StreamIds \ used' :
              state'[t] = "Absent" /\ generation'[t] = 0 /\ rotating'[t] = 0
        /\ \A d \in Connections : phase'[d] \in Attached => stream'[d] \in used'
    BY <1>8, <2>2 DEF CreateStream, ControlTypes, Identifiers
  <2>5. \A t \in StreamIds : generation'[t] + rotating'[t] <= MaxKeys
    <3>1. rotating' = rotating /\ MaxKeys \in Nat \ {0}
      BY <1>8, RtmpIngestAssumption DEF CreateStream
    <3>2. generation'[s] + rotating'[s] <= MaxKeys
      BY <2>1, <2>2, <3>1
    <3>. QED  BY <2>2, <3>1, <3>2 DEF Identifiers
  <2>. QED  BY <2>2, <2>3, <2>4, <2>5 DEF Identifiers
<1>9. ASSUME NEW s \in StreamIds, RotateKey(s)
      PROVE  (ControlTypes /\ Identifiers)'
  <2>1. s \in used
    BY <1>9 DEF RotateKey, Identifiers
  <2>2. /\ rotating' = [rotating EXCEPT ![s] = @ + 1]
        /\ rotating[s] \in Nat /\ generation[s] \in Nat
        /\ generation[s] + rotating[s] + 1 <= MaxKeys
    BY <1>9, RtmpIngestAssumption DEF RotateKey, ControlTypes
  <2>3. /\ rotating' \in [StreamIds -> 0..MaxKeys]
        /\ rotating'[s] = rotating[s] + 1
        /\ \A t \in StreamIds \ {s} : rotating'[t] = rotating[t]
    BY <2>2, RtmpIngestAssumption DEF ControlTypes
  <2>4. ControlTypes'
    BY <1>9, <2>3 DEF RotateKey, ControlTypes
  <2>5. \A t \in StreamIds : generation'[t] + rotating'[t] <= MaxKeys
    BY <1>9, <2>2, <2>3 DEF RotateKey, Identifiers
  <2>. QED  BY <1>9, <2>1, <2>3, <2>4, <2>5 DEF RotateKey, Identifiers
<1>10. ASSUME NEW s \in StreamIds, RotateKeyEnd(s)
      PROVE  (ControlTypes /\ Identifiers)'
  <2>1. s \in used
    BY <1>10 DEF RotateKeyEnd, Identifiers
  <2>2. /\ rotating' = [rotating EXCEPT ![s] = @ - 1]
        /\ rotating[s] \in Nat \ {0} /\ generation[s] \in Nat
        /\ generation[s] + rotating[s] <= MaxKeys
    BY <1>10, RtmpIngestAssumption DEF RotateKeyEnd, ControlTypes, Identifiers
  <2>3. /\ rotating' \in [StreamIds -> 0..MaxKeys]
        /\ rotating'[s] = rotating[s] - 1
        /\ \A t \in StreamIds \ {s} : rotating'[t] = rotating[t]
    BY <2>2, RtmpIngestAssumption DEF ControlTypes
  <2>4. /\ generation' \in [StreamIds -> 0..MaxKeys]
        /\ bound' \in SUBSET ApiKeys
        /\ generation'[s] = generation[s] + 1
        /\ \A t \in StreamIds \ {s} : generation'[t] = generation[t]
        /\ \A k \in bound' : k[2] <= generation'[k[1]]
    <3>1. generation[s] < MaxKeys
      BY <2>2, RtmpIngestAssumption
    <3>. QED  BY <1>10, <3>1, MakeKeyTypes DEF RotateKeyEnd
  <2>5. ControlTypes'
    BY <1>10, <2>3, <2>4 DEF RotateKeyEnd, ControlTypes
  <2>6. \A t \in StreamIds : generation'[t] + rotating'[t] <= MaxKeys
    BY <2>2, <2>3, <2>4 DEF Identifiers
  <2>. QED  BY <1>10, <2>1, <2>3, <2>4, <2>5, <2>6 DEF RotateKeyEnd, Identifiers
<1>11. ASSUME NEW s \in StreamIds, Retire(s)
      PROVE  (ControlTypes /\ Identifiers)'
  <2>1. state[s] # "Absent"
    BY <1>11 DEF Retire
  <2>. QED  BY <1>11, <2>1 DEF Retire, ControlTypes, Identifiers, States
<1>12. ASSUME UNCHANGED vars
      PROVE  (ControlTypes /\ Identifiers)'
  BY <1>12 DEF vars, ControlTypes, Identifiers
<1>. QED
  BY <1>1, <1>2, <1>3, <1>4, <1>5, <1>6, <1>7, <1>8, <1>9, <1>10, <1>11, <1>12
     DEF Next, Step

-----------------------------------------------------------------------------
(* Live streams and their publishers.                                      *)

Publishing == {"live", "ended", "failed"}

\* Steps that keep the queue, take no publisher away and make nothing LIVE.
LEMMA QuietLive ==
    ASSUME LiveHasPublisher, StartsAreFollowed, UNCHANGED events,
           \A c \in Connections :
              phase[c] \in Publishing => phase'[c] \in Publishing /\ stream'[c] = stream[c],
           \A s \in StreamIds : state'[s] = "Live" => state[s] = "Live"
    PROVE  (LiveHasPublisher /\ StartsAreFollowed)'
<1>1. \A s : Publishers(s) # {} => Publishers(s)' # {}
  BY DEF Publishers, Publishing
<1>2. \A s : Ends(s)' = Ends(s)
  BY DEF Ends
<1>. QED  BY <1>1, <1>2 DEF LiveHasPublisher, StartsAreFollowed

\* A LIVE stream has its publisher or the report of its end, step by step.
LEMMA LiveStep ==
    ASSUME ControlTypes, Identifiers, phase \in [Connections -> Phases],
           LiveHasPublisher, StartsAreFollowed, [Next]_vars
    PROVE  (LiveHasPublisher /\ StartsAreFollowed)'
<1> USE DEF serverVars, controlVars, keyVars
<1>0. events \in Seq(Message)
  BY DEF ControlTypes
<1>1. ASSUME NEW c \in Connections,
             \/ Accept(c) \/ Handshake(c) \/ CommandsFail(c)
             \/ \E k \in Known \cup {StaticKey, WrongKey} : Publish(c, k)
             \/ Authenticate(c) \/ AcquireStreamPermit(c)
             \/ HeaderFails(c) \/ HeaderArrives(c)
             \/ \E outcome \in {"ended", "failed"} : EndDemux(c, outcome)
      PROVE  (LiveHasPublisher /\ StartsAreFollowed)'
  BY <1>1, QuietLive
     DEF Accept, Handshake, CommandsFail, Publish, Authenticate, AcquireStreamPermit,
         HeaderFails, HeaderArrives, EndDemux, Leave, Go, Publishing
<1>2. ASSUME NEW c \in Connections,
             \/ ResolveBound(c) \/ CreateBound(c)
             \/ \E s \in StreamIds : ResolveUnbound(c, s)
      PROVE  (LiveHasPublisher /\ StartsAreFollowed)'
  <2>1. \A d \in Connections \ {c} : phase'[d] = phase[d] /\ stream'[d] = stream[d]
    BY <1>2 DEF ResolveBound, CreateBound, ResolveUnbound, Leave, Go, ControlTypes
  <2>2. phase[c] \notin Publishing
    BY <1>2 DEF ResolveBound, CreateBound, ResolveUnbound, Publishing
  <2>3. UNCHANGED events /\ \A s \in StreamIds : state'[s] = "Live" => state[s] = "Live"
    BY <1>2 DEF ResolveBound, CreateBound, ResolveUnbound, ControlTypes
  <2>. QED  BY <2>1, <2>2, <2>3, QuietLive
<1>3. ASSUME NEW c \in Connections, Start(c)
      PROVE  (LiveHasPublisher /\ StartsAreFollowed)'
  <2> DEFINE m == [kind |-> "StreamStarted", stream |-> stream[c]]
  <2>1. m \in Message
    BY <1>3 DEF Start, Identifiers, Attached, ControlTypes, Message
  <2>2. /\ events' = Append(events, m)
        /\ phase' = [phase EXCEPT ![c] = "live"]
        /\ UNCHANGED <<stream, state>>
    BY <1>3 DEF Start, Send, Go
  <2>3. /\ Len(events') = Len(events) + 1
        /\ DOMAIN events = 1..Len(events) /\ DOMAIN events' = 1..Len(events')
        /\ Len(events) \in Nat
        /\ \A i \in DOMAIN events : events'[i] = events[i]
        /\ events'[Len(events) + 1] = m
    BY <1>0, <2>1, <2>2
  <2>4. \A s : Publishers(s) \subseteq Publishers(s)' /\ Ends(s) \subseteq Ends(s)'
    BY <2>2, <2>3 DEF Publishers, Ends
  <2>5. \A s : s = stream[c] => c \in Publishers(s)'
    BY <2>2 DEF Publishers
  <2>6. LiveHasPublisher'
    BY <2>2, <2>4 DEF LiveHasPublisher
  <2>7. ASSUME NEW s \in StreamIds, NEW i \in DOMAIN events',
               events'[i].kind = "StreamStarted", events'[i].stream = s
        PROVE  Publishers(s)' # {} \/ \E j \in Ends(s)' : i < j
    <3>1. CASE i \in DOMAIN events
      BY <2>3, <2>4, <2>7, <3>1 DEF StartsAreFollowed
    <3>2. CASE i = Len(events) + 1
      <4>1. s = stream[c]
        BY <2>3, <2>7, <3>2
      <4>. QED  BY <2>5, <4>1
    <3>. QED  BY <2>3, <3>1, <3>2
  <2>. QED  BY <2>6, <2>7 DEF StartsAreFollowed
<1>4. ASSUME NEW c \in Connections, Report(c)
      PROVE  (LiveHasPublisher /\ StartsAreFollowed)'
  <2>1. PICK m \in Message : /\ events' = Append(events, m)
                             /\ m.stream = stream[c]
                             /\ m.kind \in {"StreamEnded", "StreamError"}
    <3>1. stream[c] \in StreamIds
      BY <1>4 DEF Report, Identifiers, Attached, ControlTypes
    <3>. QED  BY <1>4, <3>1 DEF Report, Send, Message
  <2>2. /\ phase' = [phase EXCEPT ![c] = "closed"]
        /\ UNCHANGED <<stream, state>>
    BY <1>4 DEF Report, Leave, Go
  <2>3. /\ Len(events') = Len(events) + 1
        /\ DOMAIN events = 1..Len(events) /\ DOMAIN events' = 1..Len(events')
        /\ Len(events) \in Nat
        /\ \A i \in DOMAIN events : events'[i] = events[i]
        /\ events'[Len(events) + 1] = m
    BY <1>0, <2>1
  <2>4. \A s : Ends(s) \subseteq Ends(s)'
    BY <2>3 DEF Ends
  <2>5. \A s : s # stream[c] => Publishers(s)' = Publishers(s)
    BY <2>2 DEF Publishers
  <2>6. \A s : s = stream[c] => Len(events) + 1 \in Ends(s)'
    BY <2>1, <2>2, <2>3 DEF Ends
  <2>7. LiveHasPublisher'
    BY <2>2, <2>4, <2>5, <2>6 DEF LiveHasPublisher
  <2>8. ASSUME NEW s \in StreamIds, NEW i \in DOMAIN events',
               events'[i].kind = "StreamStarted", events'[i].stream = s
        PROVE  Publishers(s)' # {} \/ \E j \in Ends(s)' : i < j
    <3>1. i \in DOMAIN events
      BY <2>1, <2>3, <2>8
    <3>2. CASE s = stream[c]
      BY <2>3, <2>6, <3>1, <3>2
    <3>3. CASE s # stream[c]
      BY <2>3, <2>4, <2>5, <2>8, <3>1, <3>3 DEF StartsAreFollowed
    <3>. QED  BY <3>2, <3>3
  <2>. QED  BY <2>7, <2>8 DEF StartsAreFollowed
<1>5. ASSUME HandleEvent
      PROVE  (LiveHasPublisher /\ StartsAreFollowed)'
  <2>1. /\ events # <<>> /\ events' = Tail(events)
        /\ UNCHANGED <<phase, stream>>
    BY <1>5 DEF HandleEvent
  <2>2. /\ Len(events) \in Nat \ {0} /\ Len(events') = Len(events) - 1
        /\ DOMAIN events = 1..Len(events) /\ DOMAIN events' = 1..Len(events')
        /\ \A i \in DOMAIN events' : events'[i] = events[i + 1]
        /\ Head(events) = events[1] /\ events[1] \in Message
    BY <1>0, <2>1
  <2>3. \A s : Publishers(s)' = Publishers(s)
    BY <2>1 DEF Publishers
  <2>4. \A s, j : j \in Ends(s) /\ j > 1 => j - 1 \in Ends(s)'
    <3>. SUFFICES ASSUME NEW s, NEW j, j \in Ends(s), j > 1
                  PROVE  j - 1 \in Ends(s)'
      OBVIOUS
    <3>1. j \in DOMAIN events /\ j - 1 \in DOMAIN events'
      BY <2>2 DEF Ends
    <3>2. events'[j - 1] = events[j]
      BY <2>2, <3>1
    <3>. QED  BY <3>1, <3>2 DEF Ends
  <2>5. ASSUME NEW s \in StreamIds, NEW i \in DOMAIN events',
               events'[i].kind = "StreamStarted", events'[i].stream = s
        PROVE  Publishers(s)' # {} \/ \E j \in Ends(s)' : i < j
    <3>1. i + 1 \in DOMAIN events /\ events[i + 1] = events'[i]
      BY <2>2
    <3>2. CASE Publishers(s) # {}
      BY <2>3, <3>2
    <3>3. CASE \E j \in Ends(s) : i + 1 < j
      <4>1. PICK j \in Ends(s) : i + 1 < j
        BY <3>3
      <4>2. j \in Nat /\ i \in Nat /\ j > 1
        BY <2>2, <4>1 DEF Ends
      <4>3. j - 1 \in Ends(s)' /\ i < j - 1
        BY <2>4, <4>1, <4>2
      <4>. QED  BY <4>3
    <3>. QED  BY <2>5, <3>1, <3>2, <3>3 DEF StartsAreFollowed
  <2>6. ASSUME NEW s \in StreamIds, state'[s] = "Live"
        PROVE  Publishers(s)' # {} \/ Ends(s)' # {}
    <3> DEFINE e == events[1]
    <3>1. \A r \in StreamIds \ {e.stream} : state'[r] = state[r]
      BY <1>5, <2>2 DEF HandleEvent, Move, ControlTypes
    <3>2. ASSUME \E j \in Ends(s) : j > 1
          PROVE  Ends(s)' # {}
      BY <2>4, <3>2
    <3>3. ASSUME Publishers(s) # {}
          PROVE  Publishers(s)' # {}
      BY <2>3, <3>3
    <3>4. CASE s # e.stream
      <4>1. state[s] = "Live"
        BY <2>6, <3>1, <3>4
      <4>2. Publishers(s) # {} \/ Ends(s) # {}
        BY <4>1 DEF LiveHasPublisher
      <4>3. \A j \in Ends(s) : j > 1
        BY <2>2, <3>4 DEF Ends
      <4>. QED  BY <3>2, <3>3, <4>2, <4>3
    <3>5. CASE s = e.stream /\ e.kind = "StreamStarted"
      <4>1. Publishers(s) # {} \/ \E j \in Ends(s) : 1 < j
        BY <2>2, <3>5 DEF StartsAreFollowed
      <4>2. ASSUME NEW j \in Ends(s), 1 < j
            PROVE  j > 1
        BY <4>2, <2>2 DEF Ends
      <4>. QED  BY <3>2, <3>3, <4>1, <4>2
    <3>6. CASE s = e.stream /\ e.kind # "StreamStarted"
      <4>1. state'[s] # "Live"
        BY <1>5, <2>2, <3>6 DEF HandleEvent, Move, ControlTypes, States, Message
      <4>. QED  BY <2>6, <4>1
    <3>. QED  BY <3>4, <3>5, <3>6
  <2>. QED  BY <2>5, <2>6 DEF LiveHasPublisher, StartsAreFollowed
<1>6. ASSUME NEW s \in StreamIds,
             CreateStream(s) \/ RotateKey(s) \/ RotateKeyEnd(s) \/ Retire(s)
      PROVE  (LiveHasPublisher /\ StartsAreFollowed)'
  <2>1. UNCHANGED <<phase, stream, events>>
    BY <1>6 DEF CreateStream, RotateKey, RotateKeyEnd, Retire
  <2>2. \A r \in StreamIds : state'[r] = "Live" => state[r] = "Live"
    BY <1>6 DEF CreateStream, RotateKey, RotateKeyEnd, Retire, ControlTypes
  <2>. QED  BY <2>1, <2>2, QuietLive
<1>7. ASSUME UNCHANGED vars
      PROVE  (LiveHasPublisher /\ StartsAreFollowed)'
  BY <1>7, QuietLive DEF vars
<1>. QED
  BY <1>1, <1>2, <1>3, <1>4, <1>5, <1>6, <1>7 DEF Next, Step

-----------------------------------------------------------------------------
(* Records that wait to start.                                             *)

\* What a record that no key leads to waits for.
Awaited(s) ==
    \/ \E c \in Connections : phase[c] \in {"header", "start"} /\ stream[c] = s
    \/ \E i \in DOMAIN events : events[i] = [kind |-> "StreamStarted", stream |-> s]

Keyless(s) == generation[s] = 0 /\ rotating[s] = 0

\* A record that stays PENDING without a key stays awaited.
LEMMA PendingKept ==
    ASSUME PendingHasConnection,
           stranded \subseteq stranded',
           \A s \in StreamIds \ stranded' :
              state'[s] = "Pending" /\ Keyless(s)' =>
                 \/ Awaited(s)'
                 \/ state[s] = "Pending" /\ Keyless(s) /\ (Awaited(s) => Awaited(s)')
    PROVE  PendingHasConnection'
<1>. SUFFICES ASSUME NEW s \in StreamIds \ stranded', state'[s] = "Pending", Keyless(s)'
              PROVE  Awaited(s)'
  BY DEF PendingHasConnection, Awaited, Keyless
<1>1. CASE state[s] = "Pending" /\ Keyless(s) /\ (Awaited(s) => Awaited(s)')
  BY <1>1 DEF PendingHasConnection, Awaited, Keyless
<1>. QED  BY <1>1

\* Steps that touch neither records, keys nor queue, and no connection that
\* waits.
LEMMA QuietPending ==
    ASSUME PendingHasConnection, UNCHANGED <<state, generation, rotating, events>>,
           stranded \subseteq stranded',
           \A c \in Connections : phase[c] \in {"header", "start"} =>
              \/ phase'[c] \in {"header", "start"} /\ stream'[c] = stream[c]
              \/ stream[c] \in stranded'
    PROVE  PendingHasConnection'
<1>1. \A s \in StreamIds \ stranded' : Awaited(s) => Awaited(s)'
  BY DEF Awaited
<1>2. \A s : Keyless(s)' <=> Keyless(s)
  BY DEF Keyless
<1>. QED  BY <1>1, <1>2, PendingKept

\* Every step: a record waits as long as somebody knows of it.
LEMMA PendingStep ==
    ASSUME ControlTypes, Identifiers, phase \in [Connections -> Phases],
           stranded \in SUBSET StreamIds, PendingHasConnection, [Next]_vars
    PROVE  (stranded \in SUBSET StreamIds /\ PendingHasConnection)'
<1> USE DEF serverVars, controlVars, keyVars
<1>0. events \in Seq(Message)
  BY DEF ControlTypes
<1>1. ASSUME NEW c \in Connections,
             \/ Accept(c) \/ Handshake(c) \/ CommandsFail(c)
             \/ \E k \in Known \cup {StaticKey, WrongKey} : Publish(c, k)
             \/ Authenticate(c) \/ AcquireStreamPermit(c)
             \/ \E outcome \in {"ended", "failed"} : EndDemux(c, outcome)
      PROVE  (stranded \in SUBSET StreamIds /\ PendingHasConnection)'
  <2>1. \A d \in Connections : phase[d] \in {"header", "start"} =>
           phase'[d] = phase[d] /\ stream'[d] = stream[d]
    BY <1>1
       DEF Accept, Handshake, CommandsFail, Publish, Authenticate, AcquireStreamPermit,
           EndDemux, Leave, Go
  <2>2. UNCHANGED <<state, generation, rotating, events, stranded>>
    BY <1>1
       DEF Accept, Handshake, CommandsFail, Publish, Authenticate, AcquireStreamPermit,
           EndDemux
  <2>. QED  BY <2>1, <2>2, QuietPending
<1>2. ASSUME NEW c \in Connections, HeaderFails(c) \/ HeaderArrives(c)
      PROVE  (stranded \in SUBSET StreamIds /\ PendingHasConnection)'
  <2>1. stream[c] \in StreamIds
    BY <1>2 DEF HeaderFails, HeaderArrives, Identifiers, Attached, ControlTypes
  <2>2. /\ UNCHANGED <<state, generation, rotating, events, stream>>
        /\ \A d \in Connections \ {c} : phase'[d] = phase[d]
    BY <1>2 DEF HeaderFails, HeaderArrives, Leave, Go
  <2>3. \/ phase'[c] = "start" /\ stranded' = stranded
        \/ stranded' = stranded \cup {stream[c]}
    BY <1>2 DEF HeaderFails, HeaderArrives, Leave, Go
  <2>. QED  BY <2>1, <2>2, <2>3, QuietPending
<1>3. ASSUME NEW c \in Connections, ResolveBound(c)
      PROVE  (stranded \in SUBSET StreamIds /\ PendingHasConnection)'
  <2>1. \A d \in Connections \ {c} : phase'[d] = phase[d] /\ stream'[d] = stream[d]
    BY <1>3 DEF ResolveBound, Leave, Go, ControlTypes
  <2>2. /\ UNCHANGED <<state, generation, rotating, events, stranded>>
        /\ phase[c] = "resolve"
    BY <1>3 DEF ResolveBound
  <2>. QED  BY <2>1, <2>2, QuietPending
<1>4. ASSUME NEW c \in Connections, CreateBound(c) \/ \E s \in StreamIds : ResolveUnbound(c, s)
      PROVE  (stranded \in SUBSET StreamIds /\ PendingHasConnection)'
  <2>1. PICK s \in StreamIds :
           /\ state' = [state EXCEPT ![s] = "Pending"]
           /\ phase' = [phase EXCEPT ![c] = "header"]
           /\ stream'[c] = s
           /\ \A d \in Connections \ {c} : stream'[d] = stream[d]
    <3>1. CASE CreateBound(c)
      <4>1. stream[c] \in StreamIds
        BY <3>1 DEF CreateBound, Identifiers, Attached, ControlTypes
      <4>. QED  BY <3>1, <4>1 DEF CreateBound, Go
    <3>2. CASE \E s \in StreamIds : ResolveUnbound(c, s)
      BY <3>2 DEF ResolveUnbound, Go, ControlTypes
    <3>. QED  BY <1>4, <3>1, <3>2
  <2>2. /\ UNCHANGED <<generation, rotating, events, stranded>>
        /\ phase[c] \in {"create", "resolve"}
    BY <1>4 DEF CreateBound, ResolveUnbound
  <2>3. Awaited(s)'
    BY <2>1 DEF Awaited
  <2>4. \A t \in StreamIds : Awaited(t) => Awaited(t)'
    <3>1. \A d \in Connections : phase[d] \in {"header", "start"} =>
             phase'[d] = phase[d] /\ stream'[d] = stream[d]
      BY <2>1, <2>2
    <3>. QED  BY <2>2, <3>1 DEF Awaited
  <2>5. \A t \in StreamIds : (Keyless(t)' <=> Keyless(t)) /\ (t # s => state'[t] = state[t])
    BY <2>1, <2>2 DEF Keyless, ControlTypes
  <2>. QED  BY <2>2, <2>3, <2>4, <2>5, PendingKept
<1>5. ASSUME NEW c \in Connections, Start(c) \/ Report(c)
      PROVE  (stranded \in SUBSET StreamIds /\ PendingHasConnection)'
  <2>1. stream[c] \in StreamIds
    BY <1>5 DEF Start, Report, Identifiers, Attached, ControlTypes
  <2>2. PICK m \in Message : /\ events' = Append(events, m)
                             /\ Start(c) => m = [kind |-> "StreamStarted", stream |-> stream[c]]
    BY <1>5, <2>1 DEF Start, Report, Send, Message
  <2>3. /\ DOMAIN events = 1..Len(events) /\ DOMAIN events' = 1..(Len(events) + 1)
        /\ Len(events) \in Nat
        /\ \A i \in DOMAIN events : events'[i] = events[i]
        /\ events'[Len(events) + 1] = m
    BY <1>0, <2>2
  <2>4. /\ UNCHANGED <<state, generation, rotating, stream, stranded>>
        /\ \A d \in Connections \ {c} : phase'[d] = phase[d]
        /\ Start(c) \/ phase[c] \notin {"header", "start"}
    BY <1>5 DEF Start, Report, Leave, Go
  <2>5. \A s : Awaited(s) => Awaited(s)'
    <3>. SUFFICES ASSUME NEW s, Awaited(s) PROVE Awaited(s)'
      OBVIOUS
    <3>1. CASE \E i \in DOMAIN events : events[i] = [kind |-> "StreamStarted", stream |-> s]
      BY <2>3, <3>1 DEF Awaited
    <3>2. CASE \E d \in Connections : phase[d] \in {"header", "start"} /\ stream[d] = s
      <4>1. PICK d \in Connections : phase[d] \in {"header", "start"} /\ stream[d] = s
        BY <3>2
      <4>2. CASE d = c
        BY <2>2, <2>3, <2>4, <4>1, <4>2 DEF Awaited
      <4>3. CASE d # c
        BY <2>4, <4>1, <4>3 DEF Awaited
      <4>. QED  BY <4>2, <4>3
    <3>. QED  BY <3>1, <3>2 DEF Awaited
  <2>. QED  BY <2>4, <2>5, PendingKept DEF Keyless
<1>6. ASSUME HandleEvent
      PROVE  (stranded \in SUBSET StreamIds /\ PendingHasConnection)'
  <2>1. /\ events # <<>> /\ events' = Tail(events)
        /\ UNCHANGED <<phase, stream, generation, rotating, stranded>>
    BY <1>6 DEF HandleEvent
  <2>2. /\ Len(events) \in Nat \ {0}
        /\ DOMAIN events = 1..Len(events) /\ DOMAIN events' = 1..(Len(events) - 1)
        /\ \A i \in DOMAIN events' : events'[i] = events[i + 1]
        /\ Head(events) = events[1] /\ events[1] \in Message
    BY <1>0, <2>1
  <2>3. ASSUME NEW s \in StreamIds, state'[s] = "Pending"
        PROVE  /\ state[s] = "Pending"
               /\ events[1] # [kind |-> "StreamStarted", stream |-> s]
    BY <1>6, <2>2, <2>3 DEF HandleEvent, Move, ControlTypes, Message
  <2>4. ASSUME NEW s \in StreamIds, state'[s] = "Pending", Awaited(s)
        PROVE  Awaited(s)'
    <3>1. CASE \E i \in DOMAIN events : events[i] = [kind |-> "StreamStarted", stream |-> s]
      <4>1. PICK i \in DOMAIN events : events[i] = [kind |-> "StreamStarted", stream |-> s]
        BY <3>1
      <4>2. i \in Nat /\ i # 1 /\ i - 1 \in DOMAIN events'
        BY <2>2, <2>3, <2>4, <4>1
      <4>3. events'[i - 1] = events[i]
        BY <2>2, <4>2
      <4>. QED  BY <4>1, <4>2, <4>3 DEF Awaited
    <3>2. CASE \E d \in Connections : phase[d] \in {"header", "start"} /\ stream[d] = s
      BY <2>1, <3>2 DEF Awaited
    <3>. QED  BY <2>4, <3>1, <3>2 DEF Awaited
  <2>. QED  BY <2>1, <2>3, <2>4, PendingKept DEF Keyless
<1>7. ASSUME NEW s \in StreamIds,
             CreateStream(s) \/ RotateKey(s) \/ RotateKeyEnd(s) \/ Retire(s)
      PROVE  (stranded \in SUBSET StreamIds /\ PendingHasConnection)'
  <2>1. UNCHANGED <<phase, stream, events, stranded>>
    BY <1>7 DEF CreateStream, RotateKey, RotateKeyEnd, Retire
  <2>2. \A t \in StreamIds \ {s} :
           state'[t] = state[t] /\ generation'[t] = generation[t] /\ rotating'[t] = rotating[t]
    BY <1>7 DEF CreateStream, RotateKey, RotateKeyEnd, Retire, MakeKey, ControlTypes
  <2>3. state'[s] = "Pending" /\ Keyless(s)' => state[s] = "Pending" /\ Keyless(s)
    <3>0. generation[s] \in Nat /\ rotating[s] \in Nat
      BY RtmpIngestAssumption DEF ControlTypes
    <3>1. CASE CreateStream(s) \/ RotateKeyEnd(s)
      <4>1. generation'[s] = generation[s] + 1
        BY <3>1 DEF CreateStream, RotateKeyEnd, MakeKey, ControlTypes
      <4>. QED  BY <3>0, <4>1 DEF Keyless
    <3>2. CASE RotateKey(s)
      <4>1. rotating'[s] = rotating[s] + 1
        BY <3>2 DEF RotateKey, ControlTypes
      <4>. QED  BY <3>0, <4>1 DEF Keyless
    <3>3. CASE Retire(s)
      <4>1. state'[s] # "Pending"
        BY <3>3 DEF Retire, ControlTypes
      <4>. QED  BY <4>1
    <3>. QED  BY <1>7, <3>1, <3>2, <3>3
  <2>4. \A t : Awaited(t)' <=> Awaited(t)
    BY <2>1 DEF Awaited
  <2>. QED  BY <2>1, <2>2, <2>3, <2>4, PendingKept DEF Keyless
<1>8. ASSUME UNCHANGED vars
      PROVE  (stranded \in SUBSET StreamIds /\ PendingHasConnection)'
  BY <1>8, QuietPending DEF vars
<1>. QED
  BY <1>1, <1>2, <1>3, <1>4, <1>5, <1>6, <1>7, <1>8 DEF Next, Step

-----------------------------------------------------------------------------
(* The theorems about the connections.                                     *)

Inv ==
    /\ PermitTypes /\ Balanced
    /\ GaugeCounts
    /\ ControlTypes /\ Identifiers
    /\ LiveHasPublisher /\ StartsAreFollowed
    /\ stranded \in SUBSET StreamIds /\ PendingHasConnection

\* The server starts with all permits, no stream and an empty queue.
LEMMA InitInv == Init => Inv
<1>. SUFFICES ASSUME Init PROVE Inv
  OBVIOUS
<1>1. PermitTypes
  BY RtmpIngestAssumption DEF Init, PermitTypes, Phases
<1>2. In(Owning) = {} /\ In(Admitted) = {} /\ In({"start", "live"}) = {}
  BY DEF Init, In, Owning, Admitted
<1>3. Balanced /\ GaugeCounts
  <2>1. Cardinality({}) = 0
    BY FS_EmptySet
  <2>2. connPermits = MaxConnections /\ streamPermits = MaxStreams /\ active = 0
    BY DEF Init
  <2>. QED  BY <1>2, <2>1, <2>2, RtmpIngestAssumption DEF Balanced, GaugeCounts
<1>4. ControlTypes
  BY RtmpIngestAssumption DEF Init, ControlTypes, States
<1>5. Identifiers
  BY RtmpIngestAssumption DEF Init, Identifiers, Attached
<1>6. LiveHasPublisher /\ StartsAreFollowed
  BY DEF Init, LiveHasPublisher, StartsAreFollowed
<1>7. stranded \in SUBSET StreamIds /\ PendingHasConnection
  BY DEF Init, PendingHasConnection
<1>. QED  BY <1>1, <1>3, <1>4, <1>5, <1>6, <1>7 DEF Inv

\* Every step keeps the invariant.
LEMMA StepInv == Inv /\ [Next]_vars => Inv'
<1>. SUFFICES ASSUME Inv, [Next]_vars PROVE Inv'
  OBVIOUS
<1>1. phase \in [Connections -> Phases]
  BY DEF Inv, PermitTypes
<1>2. (Balanced /\ PermitTypes)'
  BY PermitStep DEF Inv
<1>3. GaugeCounts'
  BY <1>1, GaugeStep DEF Inv
<1>4. (ControlTypes /\ Identifiers)'
  BY <1>1, IdentifierStep DEF Inv
<1>5. (LiveHasPublisher /\ StartsAreFollowed)'
  BY <1>1, LiveStep DEF Inv
<1>6. (stranded \in SUBSET StreamIds /\ PendingHasConnection)'
  BY <1>1, PendingStep DEF Inv
<1>. QED  BY <1>2, <1>3, <1>4, <1>5, <1>6 DEF Inv

\* So it holds for ever.
LEMMA Invariance == Spec => []Inv
BY InitInv, StepInv, PTL DEF Spec

\* handle() and the control plane keep the types of all they share; no permit
\* is given out twice and the gauge does not fall below zero.
THEOREM TypeCorrect == Spec => []TypeOK
<1>1. ASSUME Inv PROVE TypeOK
  <2>1. Cardinality(In({"start", "live"})) \in Nat
    BY RtmpIngestAssumption, FS_Subset, FS_CardinalityType DEF In
  <2>2. active \in Nat
    BY <1>1, <2>1 DEF Inv, GaugeCounts
  <2>. QED  BY <1>1, <2>2 DEF Inv, PermitTypes, ControlTypes, Message, TypeOK
<1>. QED  BY <1>1, Invariance, PTL

\* However many connections come, are refused, fail or publish, the permits of
\* both semaphores come back on every way out of handle(), and the gauge is the
\* number of streams about to start or live.
THEOREM PermitsAreConserved == Spec => []PermitsConserved
<1>1. Inv => PermitsConserved
  BY BalancedIsConserved DEF Inv, PermitTypes
<1>. QED  BY <1>1, Invariance, PTL

\* A LIVE stream is never orphaned: for any number of connections that attach
\* to it, re-create its record or fail, somebody publishes to it or the report
\* of its end is queued.
THEOREM LiveStreamsHavePublishers == Spec => []LiveHasPublisher
<1>1. Inv => LiveHasPublisher
  BY DEF Inv
<1>. QED  BY <1>1, Invariance, PTL

\* A record that no key leads to waits for a connection or for an announcement
\* that is queued, unless its connection was given up at the sequence header:
\* there is no other way to leave a record PENDING for ever.
THEOREM OnlyHeadersStrand == Spec => []PendingHasConnection
<1>1. Inv => PendingHasConnection
  BY DEF Inv
<1>. QED  BY <1>1, Invariance, PTL

-----------------------------------------------------------------------------
(* One connection and its encoder (RtmpSession): the inductive invariant.  *)

Demuxers == [video : BOOLEAN, audio : BOOLEAN, height : Nat, params : BOOLEAN,
             firstPts : Int \cup {NoPts}]

SessionTypes ==
    /\ stage \in {"commands", "header", "loop", "ended", "failed"}
    /\ clock \in Int
    /\ demuxer \in Demuxers
    /\ errors \in Nat /\ inARow \in Nat

\* The times of a frame are those of the encoder, counted from first_pts.
OnTime(out, ts, first) ==
    out.pts = ts + out.cts - first /\ out.dts = ts - first

\* The last frame is on time by the first_pts the demuxer still has, if its
\* header was full; and first_pts is not set by a frame that is not counted.
FrameOnTime ==
    /\ frame # NoFrame =>
          /\ demuxer.firstPts \in Int
          /\ frame.ts \in Int /\ frame.out.cts \in Int
          /\ frame.full => OnTime(frame.out, frame.ts, demuxer.firstPts)
    /\ frame = NoFrame /\ ~discarded => demuxer.firstPts = NoPts

\* The errors counted came in a row.
ErrorsInARow == errors <= inARow

-----------------------------------------------------------------------------
(* The demuxer.                                                            *)

\* normalize_pts() sets first_pts once.
LEMMA NormalizedOnce ==
    ASSUME NEW d \in Demuxers, NEW pts \in Int
    PROVE  /\ NormalizePts(d, pts) \in Demuxers
           /\ NormalizePts(d, pts).firstPts \in Int
           /\ d.firstPts # NoPts => NormalizePts(d, pts).firstPts = d.firstPts
           /\ d.firstPts = NoPts => NormalizePts(d, pts).firstPts = pts
BY SessionAssumption DEF NormalizePts, Demuxers

\* What a tag that carries a frame makes of the demuxer and of its times.
LEMMA FrameDemuxed ==
    ASSUME NEW d \in Demuxers, NEW ts \in Int, NEW r, NEW cts \in Int,
           r.demuxer = NormalizePts(d, ts + cts), r.out.cts = cts,
           r.out.pts = ts + cts - r.demuxer.firstPts,
           r.out.dts = ts - r.demuxer.firstPts
    PROVE  /\ r.demuxer \in Demuxers /\ r.demuxer.firstPts \in Int
           /\ d.firstPts # NoPts => r.demuxer.firstPts = d.firstPts
           /\ OnTime(r.out, ts, r.demuxer.firstPts) /\ r.out.cts \in Int
           /\ d.firstPts = NoPts => r.out.pts = 0
<1>1. ts + cts \in Int
  OBVIOUS
<1>2. /\ r.demuxer \in Demuxers /\ r.demuxer.firstPts \in Int
      /\ d.firstPts # NoPts => r.demuxer.firstPts = d.firstPts
      /\ d.firstPts = NoPts => r.demuxer.firstPts = ts + cts
  BY <1>1, NormalizedOnce
<1>. QED  BY <1>2 DEF OnTime

\* demux_flv_tag(): a tag without a frame leaves first_pts alone, one with a
\* frame is on time by it.
LEMMA Demuxed ==
    ASSUME NEW d \in Demuxers, NEW tag \in MediaTags, NEW ts \in Int, NEW r,
           r = DemuxFlvTag(d, tag, ts)
    PROVE  /\ r.demuxer \in Demuxers
           /\ r.out = NoFrame => r.demuxer.firstPts = d.firstPts
           /\ r.out # NoFrame =>
                 /\ r.demuxer.firstPts \in Int
                 /\ d.firstPts # NoPts => r.demuxer.firstPts = d.firstPts
                 /\ OnTime(r.out, ts, r.demuxer.firstPts) /\ r.out.cts \in Int
                 /\ d.firstPts = NoPts => r.out.pts = 0
<1>1. CASE tag.type = "avcHeader"
  <2>1. tag.height \in Nat /\ tag.pps \in BOOLEAN
    BY <1>1, SessionAssumption DEF MediaTags
  <2>2. r = ParseAvcDecoderConfig(d, tag)
    BY <1>1 DEF DemuxFlvTag
  <2> DEFINE h == IF tag.height = 0 THEN d.height ELSE tag.height
             stored == [d EXCEPT !.height = h, !.params = @ \/ tag.pps]
  <2>3. stored \in Demuxers /\ stored.firstPts = d.firstPts
    BY <2>1 DEF Demuxers
  <2>4. r.demuxer = stored \/ r.demuxer = [stored EXCEPT !.video = TRUE]
    BY <2>2 DEF ParseAvcDecoderConfig, Result, Failure
  <2> HIDE DEF stored
  <2>5. r.out = NoFrame
    BY <2>2 DEF ParseAvcDecoderConfig, Result, Failure
  <2>6. r.demuxer \in Demuxers /\ r.demuxer.firstPts = d.firstPts
    BY <2>3, <2>4 DEF Demuxers
  <2>. QED  BY <2>5, <2>6
<1>2. CASE tag.type = "nalu" /\ d.video
  <2>1. tag.cts \in Int
    BY <1>2, SessionAssumption DEF MediaTags
  <2>2. r = DemuxVideo(d, tag, ts)
    BY <1>2 DEF DemuxFlvTag
  <2>3. /\ r.demuxer = NormalizePts(d, ts + tag.cts) /\ r.out.cts = tag.cts
        /\ r.out.pts = ts + tag.cts - r.demuxer.firstPts
        /\ r.out.dts = ts - r.demuxer.firstPts
        /\ r.out.track = "video"
    BY <2>2 DEF DemuxVideo, Result
  <2>4. r.out # NoFrame
    BY <2>3 DEF NoFrame
  <2>. QED  BY <2>1, <2>3, <2>4, FrameDemuxed
<1>3. CASE tag.type = "aacHeader"
  <2>1. r = Result([d EXCEPT !.audio = TRUE], NoFrame)
    BY <1>3 DEF DemuxFlvTag
  <2>2. r.out = NoFrame /\ r.demuxer = [d EXCEPT !.audio = TRUE]
    BY <2>1 DEF Result
  <2>3. r.demuxer \in Demuxers /\ r.demuxer.firstPts = d.firstPts
    BY <2>2 DEF Demuxers
  <2>. QED  BY <2>2, <2>3
<1>4. CASE (tag.type = "aac" /\ d.audio) \/ tag.type = "mp3"
  <2>1. r = DemuxAudio(d, ts)
    BY <1>4 DEF DemuxFlvTag
  <2>2. /\ r.demuxer = NormalizePts(d, ts) /\ r.out.cts = 0
        /\ r.out.pts = ts - r.demuxer.firstPts
        /\ r.out.dts = ts - r.demuxer.firstPts
        /\ r.out.track = "audio"
    BY <2>1 DEF DemuxAudio, Result
  <2>3. r.demuxer.firstPts \in Int /\ ts + 0 = ts
    BY <2>2, NormalizedOnce
  <2>4. r.out.pts = ts + 0 - r.demuxer.firstPts
    BY <2>2, <2>3
  <2>5. r.out # NoFrame
    BY <2>2 DEF NoFrame
  <2>. QED  BY <2>2, <2>3, <2>4, <2>5, FrameDemuxed
<1>5. CASE tag.type = "corrupt"
  <2>1. r = Failure(d)
    BY <1>5 DEF DemuxFlvTag
  <2>. QED  BY <2>1 DEF Failure
<1>6. CASE (tag.type = "nalu" /\ ~d.video) \/ (tag.type = "aac" /\ ~d.audio)
  <2>1. r = Result(d, NoFrame)
    BY <1>6 DEF DemuxFlvTag
  <2>. QED  BY <2>1 DEF Result
<1>. QED  BY <1>1, <1>2, <1>3, <1>4, <1>5, <1>6 DEF MediaTags

-----------------------------------------------------------------------------
(* The steps.                                                              *)

SessionInv ==
    SessionTypes /\ FrameOnTime /\ ErrorsInARow /\ ChunkSizesAgree

\* What every step does to a frame: the action properties, as step formulas.
FrameStep ==
    frame # NoFrame /\ frame' # frame /\ frame.full /\ frame'.full =>
          /\ frame'.out.pts - frame.out.pts =
                (frame'.ts + frame'.out.cts) - (frame.ts + frame.out.cts)
          /\ frame'.out.dts - frame.out.dts = frame'.ts - frame.ts

FirstStep ==
    frame = NoFrame /\ frame' # NoFrame /\ ~discarded => frame'.out.pts = 0

\* The difference of two times that are counted from the same first_pts.
LEMMA SameOrigin ==
    ASSUME NEW a, NEW b, NEW s \in Int, NEW t \in Int, NEW first \in Int,
           a.cts \in Int, b.cts \in Int, OnTime(a, s, first), OnTime(b, t, first)
    PROVE  /\ b.pts - a.pts = (t + b.cts) - (s + a.cts)
           /\ b.dts - a.dts = t - s
BY DEF OnTime

\* A message that carries media, whose time is read as ts.
LEMMA MediaStep ==
    ASSUME SessionInv, NEW tag \in MediaTags, NEW ts \in Int, NEW large, NEW full,
           Media(tag, ts, large, full)
    PROVE  SessionInv' /\ FrameStep /\ FirstStep
<1> DEFINE t == TimeRead(ts, full)
           r == DemuxFlvTag(demuxer, tag, t)
<1>1. t \in Int /\ (full => t = ts)
  BY DEF TimeRead, SessionInv, SessionTypes
<1>2. demuxer \in Demuxers
  BY DEF SessionInv, SessionTypes
<1>3. /\ r.demuxer \in Demuxers
      /\ r.out = NoFrame => r.demuxer.firstPts = demuxer.firstPts
      /\ r.out # NoFrame =>
            /\ r.demuxer.firstPts \in Int
            /\ demuxer.firstPts # NoPts => r.demuxer.firstPts = demuxer.firstPts
            /\ OnTime(r.out, t, r.demuxer.firstPts) /\ r.out.cts \in Int
            /\ demuxer.firstPts = NoPts => r.out.pts = 0
  BY <1>1, <1>2, Demuxed
<1> HIDE DEF t, r
<1>4. CASE HeaderMedia(tag, ts, large, full)
  <2>1. /\ stage = "header" /\ demuxer' = r.demuxer /\ clock' = ts
        /\ stage' \in {"failed", "loop", "header"}
        /\ discarded' = (discarded \/ r.out # NoFrame)
        /\ UNCHANGED <<wireSize, chunkSize, synced, errors, inARow, frame, forgotten>>
    BY <1>4 DEF HeaderMedia, countVars, r, t
  <2>2. SessionTypes'
    BY <1>3, <2>1 DEF SessionInv, SessionTypes
  <2>3. FrameOnTime'
    <3>1. CASE frame # NoFrame
      <4>1. demuxer.firstPts \in Int /\ demuxer.firstPts # NoPts
        BY <3>1, SessionAssumption DEF SessionInv, FrameOnTime
      <4>2. demuxer'.firstPts = demuxer.firstPts
        BY <1>3, <2>1, <4>1
      <4>. QED  BY <2>1, <3>1, <4>1, <4>2 DEF SessionInv, FrameOnTime
    <3>2. CASE frame = NoFrame
      BY <1>3, <2>1, <3>2 DEF SessionInv, FrameOnTime
    <3>. QED  BY <3>1, <3>2
  <2>4. ErrorsInARow' /\ ChunkSizesAgree'
    BY <2>1 DEF SessionInv, ErrorsInARow, ChunkSizesAgree
  <2>. QED  BY <2>1, <2>2, <2>3, <2>4 DEF SessionInv, FrameStep, FirstStep
<1>5. CASE LoopMedia(tag, ts, large, full)
  <2>1. /\ stage = "loop" /\ demuxer' = r.demuxer /\ clock' = ts
        /\ frame' = IF r.out = NoFrame THEN frame
                    ELSE [out |-> r.out, ts |-> ts, full |-> full]
        /\ \/ errors' = 0 /\ inARow' = 0
           \/ errors' = 1 /\ inARow' = inARow + 1
        /\ stage' \in {"failed", "loop"}
        /\ UNCHANGED <<wireSize, chunkSize, synced, discarded, forgotten>>
    BY <1>5 DEF LoopMedia, Counted, Tolerates, r, t
  <2>2. SessionTypes' /\ ErrorsInARow' /\ ChunkSizesAgree'
    BY <1>3, <2>1 DEF SessionInv, SessionTypes, ErrorsInARow, ChunkSizesAgree
  <2>3. CASE r.out = NoFrame
    <3>1. frame' = frame /\ demuxer'.firstPts = demuxer.firstPts
      BY <1>3, <2>1, <2>3
    <3>2. FrameOnTime'
      BY <2>1, <3>1 DEF SessionInv, FrameOnTime
    <3>. QED  BY <2>2, <3>1, <3>2 DEF SessionInv, FrameStep, FirstStep
  <2>4. CASE r.out # NoFrame
    <3>1. frame' = [out |-> r.out, ts |-> ts, full |-> full]
      BY <2>1, <2>4
    <3>2. frame' # NoFrame /\ frame'.out = r.out /\ frame'.ts = ts /\ frame'.full = full
      BY <3>1 DEF NoFrame
    <3>3. full => OnTime(r.out, ts, r.demuxer.firstPts)
      BY <1>1, <1>3, <2>4
    <3>4. FrameOnTime'
      BY <1>3, <2>1, <2>4, <3>2, <3>3 DEF FrameOnTime
    <3>5. FirstStep
      BY <1>3, <2>4, <3>2 DEF FirstStep, SessionInv, FrameOnTime
    <3>6. ASSUME frame # NoFrame, frame.full, full
          PROVE  /\ r.out.pts - frame.out.pts = (ts + r.out.cts) - (frame.ts + frame.out.cts)
                 /\ r.out.dts - frame.out.dts = ts - frame.ts
      <4>1. /\ demuxer.firstPts \in Int /\ demuxer.firstPts # NoPts
            /\ frame.ts \in Int /\ frame.out.cts \in Int
            /\ OnTime(frame.out, frame.ts, demuxer.firstPts)
        BY <3>6, SessionAssumption DEF SessionInv, FrameOnTime
      <4>2. OnTime(r.out, ts, demuxer.firstPts) /\ r.out.cts \in Int
        BY <1>3, <2>4, <3>3, <3>6, <4>1
      <4>. QED  BY <4>1, <4>2, SameOrigin
    <3>7. FrameStep
      BY <3>2, <3>6 DEF FrameStep
    <3>. QED  BY <2>2, <3>4, <3>5, <3>7 DEF SessionInv
  <2>. QED  BY <2>3, <2>4
<1>. QED  BY <1>4, <1>5 DEF Media

\* The steps that leave the frame and the demuxer alone.
LEMMA QuietSession ==
    ASSUME SessionInv, UNCHANGED <<demuxer, frame, discarded>>,
           SessionTypes', ErrorsInARow', ChunkSizesAgree'
    PROVE  SessionInv' /\ FrameStep /\ FirstStep
BY DEF SessionInv, FrameOnTime, FrameStep, FirstStep

\* Every step keeps the invariant and does what is asked of it to the frame.
LEMMA SessionStep ==
    ASSUME SessionInv, [SessionNext]_sessionVars
    PROVE  SessionInv' /\ FrameStep /\ FirstStep
<1> USE DEF SessionInv, SessionTypes, ErrorsInARow, ChunkSizesAgree
<1>1. ASSUME NEW n \in Sizes, SetChunkSize(n)
      PROVE  SessionInv' /\ FrameStep /\ FirstStep
  <2>1. SessionTypes' /\ ErrorsInARow'
    BY <1>1 DEF SetChunkSize, Counted
  <2>2. ChunkSizesAgree'
    BY <1>1, SessionAssumption DEF SetChunkSize
  <2>. QED  BY <1>1, <2>1, <2>2, QuietSession DEF SetChunkSize
<1>2. ASSUME LosesSync \/ ReadsGarbage
      PROVE  SessionInv' /\ FrameStep /\ FirstStep
  <2>1. SessionTypes' /\ ErrorsInARow' /\ ChunkSizesAgree'
    BY <1>2 DEF LosesSync, ReadsGarbage, Counted, Tolerates
  <2>. QED  BY <1>2, <2>1, QuietSession DEF LosesSync, ReadsGarbage
<1>3. ASSUME Command \/ PublishCommand \/ CommandFails
      PROVE  SessionInv' /\ FrameStep /\ FirstStep
  <2>1. SessionTypes' /\ ErrorsInARow' /\ ChunkSizesAgree'
    BY <1>3 DEF Command, PublishCommand, CommandFails, countVars
  <2>. QED  BY <1>3, <2>1, QuietSession DEF Command, PublishCommand, CommandFails
<1>4. ASSUME NEW tag \in MediaTags, NEW large \in BOOLEAN, NEW full \in BOOLEAN,
             NEW ts \in clock..MaxTime, Media(tag, ts, large, full)
      PROVE  SessionInv' /\ FrameStep /\ FirstStep
  <2>1. ts \in Int
    BY SessionAssumption
  <2>. QED  BY <1>4, <2>1, MediaStep
<1>5. ASSUME HeaderTimeout \/ ReadFails \/ LoopEnds \/ Inactivity \/ GoesSilent
      PROVE  SessionInv' /\ FrameStep /\ FirstStep
  <2>1. SessionTypes' /\ ErrorsInARow' /\ ChunkSizesAgree'
    BY <1>5
       DEF HeaderTimeout, ReadFails, Tolerates, LoopEnds, Inactivity, GoesSilent,
           countVars, wireVars
  <2>. QED  BY <1>5, <2>1, QuietSession
            DEF HeaderTimeout, ReadFails, LoopEnds, Inactivity, GoesSilent
<1>6. ASSUME UNCHANGED sessionVars
      PROVE  SessionInv' /\ FrameStep /\ FirstStep
  <2>1. SessionTypes' /\ ErrorsInARow' /\ ChunkSizesAgree'
    BY <1>6 DEF sessionVars, countVars, wireVars
  <2>. QED  BY <1>6, <2>1, QuietSession DEF sessionVars
<1>. QED  BY <1>1, <1>2, <1>3, <1>4, <1>5, <1>6 DEF SessionNext

\* A connection starts with a new reader, a new demuxer and no error.
LEMMA SessionInitInv == SessionInit => SessionInv
<1>. SUFFICES ASSUME SessionInit PROVE SessionInv
  OBVIOUS
<1>1. SessionTypes
  BY DEF SessionInit, SessionTypes, Demuxers
<1>2. FrameOnTime /\ ErrorsInARow /\ ChunkSizesAgree
  BY DEF SessionInit, FrameOnTime, ErrorsInARow, ChunkSizesAgree
<1>. QED  BY <1>1, <1>2 DEF SessionInv

\* So the invariant holds for ever.
LEMMA SessionInvariance == SessionSpec => []SessionInv
<1>1. SessionInv /\ [SessionNext]_sessionVars => SessionInv'
  BY SessionStep
<1>. QED  BY <1>1, SessionInitInv, PTL DEF SessionSpec

\* The loop gives up when the count is at its limit, and what it counts came in
\* a row.
LEMMA GiveUpStep ==
    ASSUME SessionInv, [SessionNext]_sessionVars, stage = "loop", stage' = "failed"
    PROVE  inARow' >= MaxErrors
<1>1. errors' >= MaxErrors
  <2>1. ASSUME NEW tag, NEW ts, NEW large, NEW full, Media(tag, ts, large, full)
        PROVE  errors' >= MaxErrors
    BY <2>1 DEF Media, HeaderMedia, LoopMedia, Tolerates
  <2>2. CASE ReadFails \/ ReadsGarbage
    BY <2>2 DEF ReadFails, ReadsGarbage, Tolerates
  <2>3. CASE \/ \E n \in Sizes : SetChunkSize(n)
             \/ LosesSync \/ Command \/ PublishCommand \/ CommandFails
             \/ HeaderTimeout \/ LoopEnds \/ Inactivity \/ GoesSilent
             \/ UNCHANGED sessionVars
    BY <2>3
       DEF SetChunkSize, LosesSync, Command, PublishCommand, CommandFails,
           HeaderTimeout, LoopEnds, Inactivity, GoesSilent, sessionVars
  <2>. QED  BY <2>1, <2>2, <2>3 DEF SessionNext
<1>2. SessionTypes' /\ ErrorsInARow'
  BY SessionStep DEF SessionInv
<1>. QED  BY <1>1, <1>2, SessionAssumption DEF SessionTypes, ErrorsInARow

-----------------------------------------------------------------------------
(* The theorems about one connection.                                      *)

\* After publish the reader splits messages as the encoder does, for all chunk
\* sizes the encoder may announce and any number of messages, as long as the
\* reader is in sync and the size is within the limit and was not announced
\* before publish.
THEOREM ReaderFollowsEncoder == SessionSpec => []ChunkSizesAgree
<1>1. SessionInv => ChunkSizesAgree
  BY DEF SessionInv
<1>. QED  BY <1>1, SessionInvariance, PTL

\* For all timestamps and composition time offsets, in whatever order the
\* headers and frames of both tracks come: sound and picture stay together.
THEOREM SoundFollowsPicture == SessionSpec => TracksStayTogether
<1>1. SessionInv /\ [SessionNext]_sessionVars => [FrameStep]_sessionVars
  BY SessionStep
<1>. QED  BY <1>1, SessionInvariance, PTL DEF SessionSpec, TracksStayTogether, FrameStep

\* The first frame sent is presented at zero, unless a frame was dropped before.
THEOREM FirstFrameAtZero == SessionSpec => StartsAtZero
<1>1. SessionInv /\ [SessionNext]_sessionVars => [FirstStep]_sessionVars
  BY SessionStep
<1>. QED  BY <1>1, SessionInvariance, PTL DEF SessionSpec, StartsAtZero, FirstStep

\* For every limit on the errors, and whatever the socket and the demuxer do,
\* errors with a good message in between never add up to it.
THEOREM OnlyPersistentErrorsEndTheLoop == SessionSpec => TransientErrorsTolerated
<1> DEFINE gives == stage = "loop" /\ stage' = "failed" => inARow' >= MaxErrors
<1>1. SessionInv /\ [SessionNext]_sessionVars => [gives]_sessionVars
  BY GiveUpStep
<1>. QED  BY <1>1, SessionInvariance, PTL DEF SessionSpec, TransientErrorsTolerated

=============================================================================
