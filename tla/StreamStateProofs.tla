-------------------------- MODULE StreamStateProofs --------------------------
(***************************************************************************)
(* Proofs about StreamState, for any number of streams, workers and        *)
(* renditions.                                                             *)
(***************************************************************************)
EXTENDS StreamState, FiniteSetTheorems, TLAPS

-----------------------------------------------------------------------------
(* The inductive invariant.                                                *)

\* What a task's program counter says of what it holds and owes.
TaskInv ==
    \A t \in Tasks :
        /\ sid[t] \in used \cup {None}
        /\ pc[t] \in {"attach", "accept", "ready"} => sid[t] \in used
        /\ pc[t] # "count" => sub[t] = None /\ add[t] = None

\* A record exists only under an identifier that was generated, and its number
\* of expected renditions is not set or one that a transcoder announced.
RecordInv ==
    \A s \in StreamIds :
        /\ state[s] # "Absent" => s \in used
        /\ expected[s] # 0 => expected[s] \in announced[s]

\* The cleanup task's list may be old, but what it says still holds: nothing
\* leaves ERROR but for DELETED, nothing leaves DELETED, and no connection that
\* is about to re-create a record holds a listed identifier.
CleanupInv ==
    /\ \A s \in todo :
          /\ state[s] \in {"Error", "Deleted"}
          /\ sweep = "remove" => state[s] = "Deleted"
    /\ \A w \in Workers : pc[w] = "attach" => sid[w] \notin todo

\* Between mark_rendition_complete()'s decision and its call of transition()
\* the record may be removed, and even re-created by a connection, but it does
\* not get past PENDING again: only the handler moves a live stream on, and the
\* handler is busy.
HandlerInv ==
    pc[Handler] = "ready" =>
        \/ AllComplete(sid[Handler])
        \/ /\ state[sid[Handler]] \notin {"Live", "Processing", "Ready"}
           /\ state[sid[Handler]] = "Pending" => mode[sid[Handler]] = "Live"

-----------------------------------------------------------------------------
(* Type correctness.                                                       *)

\* What the record operations do to the types, whoever calls them.
LEMMA InsertType ==
    ASSUME TypeOK, NEW t \in Tasks, NEW s \in StreamIds, NEW m \in Modes,
           NEW next \in StreamIds \cup {None}, Insert(t, s, m, next),
           UNCHANGED <<counts, gauge, todo, sweep>>
    PROVE  TypeOK'
<1>1. lost' \in [States -> Nat]
  <2>1. CASE state[s] = "Absent"
    BY <2>1 DEF TypeOK, Insert
  <2>2. CASE state[s] # "Absent"
    <3>1. state[s] \in States
      BY <2>2 DEF TypeOK
    <3>2. lost' = [lost EXCEPT ![state[s]] = @ + 1]
      BY <2>2 DEF Insert
    <3>. QED  BY <3>1, <3>2 DEF TypeOK
  <2>. QED  BY <2>1, <2>2
<1>2. /\ state' \in [StreamIds -> States \cup {"Absent"}]
      /\ mode' \in [StreamIds -> Modes]
      /\ ended' \subseteq StreamIds /\ failed' \subseteq StreamIds
      /\ used' \subseteq StreamIds
  BY DEF TypeOK, Insert, States
<1>3. /\ known' \in [StreamIds -> SUBSET Renditions]
      /\ complete' \in [StreamIds -> SUBSET Renditions]
      /\ expected' \in [StreamIds -> Nat]
      /\ announced' \in [StreamIds -> SUBSET Selections]
  BY DEF TypeOK, Insert
<1>4. /\ pc' \in [Tasks -> Phases]
      /\ sid' \in [Tasks -> StreamIds \cup {None}]
      /\ sub' \in [Tasks -> States \cup {None}]
      /\ add' \in [Tasks -> States \cup {None}]
      /\ snap' = snap
  BY DEF TypeOK, Insert, Owe, Phases, States
<1>. QED  BY <1>1, <1>2, <1>3, <1>4 DEF TypeOK

\* transition() keeps the types.
LEMMA TransitionType ==
    ASSUME TypeOK, NEW t \in Tasks, NEW s \in StreamIds, NEW new \in States,
           Transition(t, s, new),
           UNCHANGED <<counts, gauge, sweep>>, todo' \subseteq StreamIds
    PROVE  TypeOK'
BY StreamStateAssumption
   DEF TypeOK, Transition, CanTransition, Owe, States, Modes, Phases

\* The manager starts out well-typed.
LEMMA InitType == Init => TypeOK
BY StreamStateAssumption DEF Init, TypeOK, States, Modes, Tasks, Phases, NoSnap

\* Every step keeps the types, given what the tasks hold.
LEMMA TypeStep ==
    ASSUME TypeOK, TaskInv, [Next]_vars
    PROVE  TypeOK'
<1>1. ASSUME NEW w \in Workers, NEW s \in StreamIds, NEW m \in Modes,
             CreateStream(w, s, m)
      PROVE  TypeOK'
  BY <1>1, InsertType DEF CreateStream, Tasks, Modes
<1>2. ASSUME NEW w \in Workers, NEW s \in StreamIds, RtmpLookup(w, s)
      PROVE  TypeOK'
  BY <1>2 DEF RtmpLookup, TypeOK, recVars, Phases, Tasks
<1>3. ASSUME NEW w \in Workers, RtmpCreate(w)
      PROVE  TypeOK'
  <2>1. sid[w] \in StreamIds
    BY <1>3 DEF RtmpCreate, TaskInv, TypeOK, Tasks
  <2>. QED  BY <1>3, <2>1, InsertType DEF RtmpCreate, Tasks, Modes
<1>4. ASSUME NEW w \in Workers, NEW s \in StreamIds, UploadCreate(w, s)
      PROVE  TypeOK'
  BY <1>4, InsertType DEF UploadCreate, Tasks, Modes
<1>5. ASSUME NEW w \in Workers, UploadAccept(w)
      PROVE  TypeOK'
  <2>1. sid[w] \in StreamIds
    BY <1>5 DEF UploadAccept, TaskInv, TypeOK, Tasks
  <2>2. CASE Transition(w, sid[w], "Processing")
    BY <1>5, <2>1, <2>2, TransitionType DEF UploadAccept, Tasks, States, TypeOK
  <2>3. CASE CannotTransition(w, "Processing")
    BY <1>5, <2>3
       DEF UploadAccept, CannotTransition, TypeOK, recVars, Phases, Tasks
  <2>. QED  BY <1>5, <2>2, <2>3 DEF UploadAccept
<1>6. ASSUME NEW w \in Workers, NEW s \in StreamIds, AdminDelete(w, s)
      PROVE  TypeOK'
  BY <1>6, TransitionType DEF AdminDelete, Tasks, States, TypeOK
<1>7. ASSUME NEW s \in StreamIds, NEW n \in Selections,
             SetExpectedRenditions(s, n)
      PROVE  TypeOK'
  BY <1>7, StreamStateAssumption DEF SetExpectedRenditions, TypeOK, taskVars
<1>8. ASSUME NEW s \in StreamIds, StreamStarted(s)
      PROVE  TypeOK'
  BY <1>8, TransitionType DEF StreamStarted, Tasks, States, TypeOK
<1>9. ASSUME NEW s \in StreamIds, StreamEnded(s)
      PROVE  TypeOK'
  BY <1>9, TransitionType DEF StreamEnded, Tasks, States, TypeOK
<1>10. ASSUME NEW s \in StreamIds, StreamError(s)
      PROVE  TypeOK'
  BY <1>10
     DEF StreamError, TransitionToError, Owe, TypeOK, States, Phases, Tasks
<1>11. ASSUME NEW s \in StreamIds, NEW r \in Renditions,
             SegmentProduced(s, r)
      PROVE  TypeOK'
  BY <1>11 DEF SegmentProduced, TypeOK, taskVars
<1>12. ASSUME NEW s \in StreamIds, NEW r \in Renditions,
             RenditionComplete(s, r)
      PROVE  TypeOK'
  BY <1>12 DEF RenditionComplete, TypeOK, Phases, Tasks
<1>13. CASE AutoReady
  <2>1. sid[Handler] \in StreamIds
    BY <1>13 DEF AutoReady, TaskInv, TypeOK, Tasks
  <2>2. CASE Transition(Handler, sid[Handler], "Ready")
    BY <1>13, <2>1, <2>2, TransitionType DEF AutoReady, Tasks, States, TypeOK
  <2>3. CASE CannotTransition(Handler, "Ready")
    BY <1>13, <2>3
       DEF AutoReady, CannotTransition, TypeOK, recVars, Phases, Tasks
  <2>. QED  BY <1>13, <2>2, <2>3 DEF AutoReady
<1>14. CASE CleanupListErrors
  BY <1>14 DEF CleanupListErrors, CleanupList, TypeOK, recVars, taskVars
<1>15. CASE CleanupListDeleted
  BY <1>15 DEF CleanupListDeleted, CleanupList, TypeOK, recVars, taskVars
<1>16. ASSUME NEW s \in StreamIds, CleanupPurge(s)
      PROVE  TypeOK'
  <2>1. CASE Transition(Cleaner, s, "Deleted")
    BY <1>16, <2>1, TransitionType DEF CleanupPurge, Tasks, States, TypeOK
  <2>2. CASE UNCHANGED <<recVars, used, taskVars, lost>>
    BY <1>16, <2>2 DEF CleanupPurge, TypeOK, recVars, taskVars
  <2>. QED  BY <1>16, <2>1, <2>2 DEF CleanupPurge
<1>17. ASSUME NEW s \in StreamIds, CleanupRemove(s)
      PROVE  TypeOK'
  <2>1. CASE state[s] = "Absent"
    BY <1>17, <2>1 DEF CleanupRemove, TypeOK, recVars, taskVars
  <2>2. CASE state[s] # "Absent"
    <3>1. /\ state' \in [StreamIds -> States \cup {"Absent"}]
          /\ ended' \subseteq StreamIds /\ failed' \subseteq StreamIds
          /\ mode' = mode
      BY <1>17, <2>2 DEF CleanupRemove, TypeOK
    <3>2. /\ known' \in [StreamIds -> SUBSET Renditions]
          /\ complete' \in [StreamIds -> SUBSET Renditions]
          /\ expected' \in [StreamIds -> Nat]
          /\ announced' \in [StreamIds -> SUBSET Selections]
      <4>1. /\ known' = [known EXCEPT ![s] = {}]
            /\ complete' = [complete EXCEPT ![s] = {}]
            /\ expected' = [expected EXCEPT ![s] = 0]
            /\ announced' = [announced EXCEPT ![s] = {}]
        BY <1>17, <2>2 DEF CleanupRemove
      <4>. QED  BY <4>1 DEF TypeOK
    <3>3. /\ pc' \in [Tasks -> Phases]
          /\ sid' \in [Tasks -> StreamIds \cup {None}]
          /\ sub' \in [Tasks -> States \cup {None}]
          /\ add' \in [Tasks -> States \cup {None}]
          /\ snap' = snap
      BY <1>17, <2>2 DEF CleanupRemove, Owe, TypeOK, Phases
    <3>. QED  BY <1>17, <3>1, <3>2, <3>3 DEF CleanupRemove, TypeOK
  <2>. QED  BY <2>1, <2>2
<1>18. ASSUME NEW t \in Tasks, CounterSub(t)
      PROVE  TypeOK'
  BY <1>18 DEF CounterSub, TypeOK, recVars, Phases, Tasks
<1>19. ASSUME NEW t \in Tasks, CounterAdd(t)
      PROVE  TypeOK'
  BY <1>19 DEF CounterAdd, TypeOK, recVars, Phases, Tasks
<1>20. ASSUME NEW t \in Tasks, GaugeLoad(t)
      PROVE  TypeOK'
  BY <1>20, StreamStateAssumption DEF GaugeLoad, Clip, TypeOK, recVars, Phases
<1>21. ASSUME NEW t \in Tasks, GaugePublish(t)
      PROVE  TypeOK'
  BY <1>21 DEF GaugePublish, TypeOK, recVars, Phases, NoSnap
<1>22. CASE UNCHANGED vars
  BY <1>22 DEF vars, recVars, taskVars, TypeOK
<1>. QED
  BY <1>1, <1>2, <1>3, <1>4, <1>5, <1>6, <1>7, <1>8, <1>9, <1>10, <1>11,
     <1>12, <1>13, <1>14, <1>15, <1>16, <1>17, <1>18, <1>19, <1>20, <1>21, <1>22
     DEF Next, WorkerStep, HandlerStep, CleanerStep, MetricStep

\* Every step keeps what the program counters say of the tasks.
LEMMA TaskStep ==
    ASSUME TypeOK, TaskInv, RecordInv, [Next]_vars
    PROVE  TaskInv'
<1>1. ASSUME NEW w \in Workers, NEW s \in StreamIds, NEW m \in Modes,
             CreateStream(w, s, m)
      PROVE  TaskInv'
  BY <1>1 DEF CreateStream, Insert, Owe, TaskInv, TypeOK, Tasks
<1>2. ASSUME NEW w \in Workers, NEW s \in StreamIds, RtmpLookup(w, s)
      PROVE  TaskInv'
  BY <1>2 DEF RtmpLookup, TaskInv, TypeOK, Tasks
<1>3. ASSUME NEW w \in Workers, RtmpCreate(w)
      PROVE  TaskInv'
  BY <1>3 DEF RtmpCreate, Insert, Owe, TaskInv, TypeOK, Tasks
<1>4. ASSUME NEW w \in Workers, NEW s \in StreamIds, UploadCreate(w, s)
      PROVE  TaskInv'
  BY <1>4 DEF UploadCreate, Insert, Owe, TaskInv, TypeOK, Tasks
<1>5. ASSUME NEW w \in Workers, UploadAccept(w)
      PROVE  TaskInv'
  BY <1>5
     DEF UploadAccept, Transition, CannotTransition, Owe, TaskInv, TypeOK, Tasks
<1>6. ASSUME NEW w \in Workers, NEW s \in StreamIds, AdminDelete(w, s)
      PROVE  TaskInv'
  BY <1>6 DEF AdminDelete, Transition, Owe, TaskInv, TypeOK, Tasks
<1>7. ASSUME NEW s \in StreamIds, NEW n \in Selections,
             SetExpectedRenditions(s, n)
      PROVE  TaskInv'
  BY <1>7 DEF SetExpectedRenditions, taskVars, TaskInv, TypeOK, Tasks
<1>8. ASSUME NEW s \in StreamIds, StreamStarted(s)
      PROVE  TaskInv'
  BY <1>8 DEF StreamStarted, Transition, Owe, TaskInv, TypeOK, Tasks
<1>9. ASSUME NEW s \in StreamIds, StreamEnded(s)
      PROVE  TaskInv'
  BY <1>9 DEF StreamEnded, Transition, Owe, TaskInv, TypeOK, Tasks
<1>10. ASSUME NEW s \in StreamIds, StreamError(s)
      PROVE  TaskInv'
  BY <1>10 DEF StreamError, TransitionToError, Owe, TaskInv, TypeOK, Tasks
<1>11. ASSUME NEW s \in StreamIds, NEW r \in Renditions,
             SegmentProduced(s, r)
      PROVE  TaskInv'
  BY <1>11 DEF SegmentProduced, taskVars, TaskInv, TypeOK, Tasks
<1>12. ASSUME NEW s \in StreamIds, NEW r \in Renditions,
             RenditionComplete(s, r)
      PROVE  TaskInv'
  <2>1. s \in used
    BY <1>12 DEF RenditionComplete, RecordInv
  <2>. QED  BY <1>12, <2>1 DEF RenditionComplete, TaskInv, TypeOK, Tasks
<1>13. CASE AutoReady
  BY <1>13
     DEF AutoReady, Transition, CannotTransition, Owe, TaskInv, TypeOK, Tasks
<1>14. CASE CleanupListErrors
  BY <1>14 DEF CleanupListErrors, CleanupList, taskVars, TaskInv, TypeOK, Tasks
<1>15. CASE CleanupListDeleted
  BY <1>15 DEF CleanupListDeleted, CleanupList, taskVars, TaskInv, TypeOK, Tasks
<1>16. ASSUME NEW s \in StreamIds, CleanupPurge(s)
      PROVE  TaskInv'
  BY <1>16 DEF CleanupPurge, Transition, Owe, taskVars, TaskInv, TypeOK, Tasks
<1>17. ASSUME NEW s \in StreamIds, CleanupRemove(s)
      PROVE  TaskInv'
  BY <1>17 DEF CleanupRemove, Owe, taskVars, TaskInv, TypeOK, Tasks
<1>18. ASSUME NEW t \in Tasks, CounterSub(t)
      PROVE  TaskInv'
  BY <1>18 DEF CounterSub, TaskInv, TypeOK, Tasks
<1>19. ASSUME NEW t \in Tasks, CounterAdd(t)
      PROVE  TaskInv'
  BY <1>19 DEF CounterAdd, TaskInv, TypeOK, Tasks
<1>20. ASSUME NEW t \in Tasks, GaugeLoad(t)
      PROVE  TaskInv'
  BY <1>20 DEF GaugeLoad, TaskInv, TypeOK, Tasks
<1>21. ASSUME NEW t \in Tasks, GaugePublish(t)
      PROVE  TaskInv'
  BY <1>21 DEF GaugePublish, TaskInv, TypeOK, Tasks
<1>22. CASE UNCHANGED vars
  BY <1>22 DEF vars, taskVars, TaskInv
<1>. QED
  BY <1>1, <1>2, <1>3, <1>4, <1>5, <1>6, <1>7, <1>8, <1>9, <1>10, <1>11,
     <1>12, <1>13, <1>14, <1>15, <1>16, <1>17, <1>18, <1>19, <1>20, <1>21, <1>22
     DEF Next, WorkerStep, HandlerStep, CleanerStep, MetricStep

\* Every step keeps records under generated identifiers.
LEMMA RecordStep ==
    ASSUME TypeOK, TaskInv, RecordInv, [Next]_vars
    PROVE  RecordInv'
<1>1. ASSUME NEW w \in Workers, NEW s \in StreamIds, NEW m \in Modes,
             CreateStream(w, s, m)
      PROVE  RecordInv'
  BY <1>1 DEF CreateStream, Insert, RecordInv, TypeOK
<1>2. ASSUME NEW w \in Workers, NEW s \in StreamIds, RtmpLookup(w, s)
      PROVE  RecordInv'
  BY <1>2 DEF RtmpLookup, recVars, RecordInv, TypeOK
<1>3. ASSUME NEW w \in Workers, RtmpCreate(w)
      PROVE  RecordInv'
  BY <1>3 DEF RtmpCreate, Insert, RecordInv, TypeOK
<1>4. ASSUME NEW w \in Workers, NEW s \in StreamIds, UploadCreate(w, s)
      PROVE  RecordInv'
  BY <1>4 DEF UploadCreate, Insert, RecordInv, TypeOK
<1>5. ASSUME NEW w \in Workers, UploadAccept(w)
      PROVE  RecordInv'
  BY <1>5
     DEF UploadAccept, Transition, CanTransition, CannotTransition, recVars,
         RecordInv, TypeOK
<1>6. ASSUME NEW w \in Workers, NEW s \in StreamIds, AdminDelete(w, s)
      PROVE  RecordInv'
  BY <1>6 DEF AdminDelete, Transition, CanTransition, RecordInv, TypeOK
<1>7. ASSUME NEW s \in StreamIds, NEW n \in Selections,
             SetExpectedRenditions(s, n)
      PROVE  RecordInv'
  BY <1>7 DEF SetExpectedRenditions, RecordInv, TypeOK
<1>8. ASSUME NEW s \in StreamIds, StreamStarted(s)
      PROVE  RecordInv'
  BY <1>8 DEF StreamStarted, Transition, CanTransition, RecordInv, TypeOK
<1>9. ASSUME NEW s \in StreamIds, StreamEnded(s)
      PROVE  RecordInv'
  BY <1>9 DEF StreamEnded, Transition, CanTransition, RecordInv, TypeOK
<1>10. ASSUME NEW s \in StreamIds, StreamError(s)
      PROVE  RecordInv'
  BY <1>10 DEF StreamError, TransitionToError, RecordInv, TypeOK
<1>11. ASSUME NEW s \in StreamIds, NEW r \in Renditions,
             SegmentProduced(s, r)
      PROVE  RecordInv'
  BY <1>11 DEF SegmentProduced, RecordInv, TypeOK
<1>12. ASSUME NEW s \in StreamIds, NEW r \in Renditions,
             RenditionComplete(s, r)
      PROVE  RecordInv'
  BY <1>12 DEF RenditionComplete, RecordInv, TypeOK
<1>13. CASE AutoReady
  BY <1>13
     DEF AutoReady, Transition, CanTransition, CannotTransition, recVars,
         RecordInv, TypeOK
<1>14. CASE CleanupListErrors
  BY <1>14 DEF CleanupListErrors, CleanupList, recVars, RecordInv, TypeOK
<1>15. CASE CleanupListDeleted
  BY <1>15 DEF CleanupListDeleted, CleanupList, recVars, RecordInv, TypeOK
<1>16. ASSUME NEW s \in StreamIds, CleanupPurge(s)
      PROVE  RecordInv'
  BY <1>16
     DEF CleanupPurge, Transition, CanTransition, recVars, RecordInv, TypeOK
<1>17. ASSUME NEW s \in StreamIds, CleanupRemove(s)
      PROVE  RecordInv'
  BY <1>17 DEF CleanupRemove, recVars, RecordInv, TypeOK
<1>18. ASSUME NEW t \in Tasks, CounterSub(t)
      PROVE  RecordInv'
  BY <1>18 DEF CounterSub, recVars, RecordInv, TypeOK
<1>19. ASSUME NEW t \in Tasks, CounterAdd(t)
      PROVE  RecordInv'
  BY <1>19 DEF CounterAdd, recVars, RecordInv, TypeOK
<1>20. ASSUME NEW t \in Tasks, GaugeLoad(t)
      PROVE  RecordInv'
  BY <1>20 DEF GaugeLoad, recVars, RecordInv, TypeOK
<1>21. ASSUME NEW t \in Tasks, GaugePublish(t)
      PROVE  RecordInv'
  BY <1>21 DEF GaugePublish, recVars, RecordInv, TypeOK
<1>22. CASE UNCHANGED vars
  BY <1>22 DEF vars, recVars, taskVars, RecordInv, TypeOK
<1>. QED
  BY <1>1, <1>2, <1>3, <1>4, <1>5, <1>6, <1>7, <1>8, <1>9, <1>10, <1>11,
     <1>12, <1>13, <1>14, <1>15, <1>16, <1>17, <1>18, <1>19, <1>20, <1>21, <1>22
     DEF Next, WorkerStep, HandlerStep, CleanerStep, MetricStep

\* Every step keeps ended_at and error_message in agreement with the state.
LEMMA TerminalStep ==
    ASSUME TypeOK, TaskInv, TerminalRecords, [Next]_vars
    PROVE  TerminalRecords'
<1>1. ASSUME NEW w \in Workers, NEW s \in StreamIds, NEW m \in Modes,
             CreateStream(w, s, m)
      PROVE  TerminalRecords'
  BY <1>1 DEF CreateStream, Insert, TerminalRecords, TypeOK
<1>2. ASSUME NEW w \in Workers, NEW s \in StreamIds, RtmpLookup(w, s)
      PROVE  TerminalRecords'
  BY <1>2 DEF RtmpLookup, recVars, TerminalRecords, TypeOK
<1>3. ASSUME NEW w \in Workers, RtmpCreate(w)
      PROVE  TerminalRecords'
  BY <1>3 DEF RtmpCreate, Insert, TerminalRecords, TypeOK
<1>4. ASSUME NEW w \in Workers, NEW s \in StreamIds, UploadCreate(w, s)
      PROVE  TerminalRecords'
  BY <1>4 DEF UploadCreate, Insert, TerminalRecords, TypeOK
<1>5. ASSUME NEW w \in Workers, UploadAccept(w)
      PROVE  TerminalRecords'
  BY <1>5
     DEF UploadAccept, Transition, CanTransition, IsValidTransition,
         CannotTransition, recVars, TerminalRecords, TypeOK
<1>6. ASSUME NEW w \in Workers, NEW s \in StreamIds, AdminDelete(w, s)
      PROVE  TerminalRecords'
  BY <1>6
     DEF AdminDelete, Transition, CanTransition, IsValidTransition,
         TerminalRecords, TypeOK
<1>7. ASSUME NEW s \in StreamIds, NEW n \in Selections,
             SetExpectedRenditions(s, n)
      PROVE  TerminalRecords'
  BY <1>7 DEF SetExpectedRenditions, TerminalRecords, TypeOK
<1>8. ASSUME NEW s \in StreamIds, StreamStarted(s)
      PROVE  TerminalRecords'
  BY <1>8
     DEF StreamStarted, Transition, CanTransition, IsValidTransition,
         TerminalRecords, TypeOK
<1>9. ASSUME NEW s \in StreamIds, StreamEnded(s)
      PROVE  TerminalRecords'
  BY <1>9
     DEF StreamEnded, Transition, CanTransition, IsValidTransition,
         TerminalRecords, TypeOK
<1>10. ASSUME NEW s \in StreamIds, StreamError(s)
      PROVE  TerminalRecords'
  BY <1>10 DEF StreamError, TransitionToError, TerminalRecords, TypeOK
<1>11. ASSUME NEW s \in StreamIds, NEW r \in Renditions,
             SegmentProduced(s, r)
      PROVE  TerminalRecords'
  BY <1>11 DEF SegmentProduced, TerminalRecords, TypeOK
<1>12. ASSUME NEW s \in StreamIds, NEW r \in Renditions,
             RenditionComplete(s, r)
      PROVE  TerminalRecords'
  BY <1>12 DEF RenditionComplete, TerminalRecords, TypeOK
<1>13. CASE AutoReady
  BY <1>13
     DEF AutoReady, Transition, CanTransition, IsValidTransition,
         CannotTransition, recVars, TerminalRecords, TypeOK
<1>14. CASE CleanupListErrors
  BY <1>14 DEF CleanupListErrors, CleanupList, recVars, TerminalRecords, TypeOK
<1>15. CASE CleanupListDeleted
  BY <1>15 DEF CleanupListDeleted, CleanupList, recVars, TerminalRecords, TypeOK
<1>16. ASSUME NEW s \in StreamIds, CleanupPurge(s)
      PROVE  TerminalRecords'
  BY <1>16
     DEF CleanupPurge, Transition, CanTransition, IsValidTransition, recVars,
         TerminalRecords, TypeOK
<1>17. ASSUME NEW s \in StreamIds, CleanupRemove(s)
      PROVE  TerminalRecords'
  BY <1>17 DEF CleanupRemove, recVars, TerminalRecords, TypeOK
<1>18. ASSUME NEW t \in Tasks, CounterSub(t)
      PROVE  TerminalRecords'
  BY <1>18 DEF CounterSub, recVars, TerminalRecords, TypeOK
<1>19. ASSUME NEW t \in Tasks, CounterAdd(t)
      PROVE  TerminalRecords'
  BY <1>19 DEF CounterAdd, recVars, TerminalRecords, TypeOK
<1>20. ASSUME NEW t \in Tasks, GaugeLoad(t)
      PROVE  TerminalRecords'
  BY <1>20 DEF GaugeLoad, recVars, TerminalRecords, TypeOK
<1>21. ASSUME NEW t \in Tasks, GaugePublish(t)
      PROVE  TerminalRecords'
  BY <1>21 DEF GaugePublish, recVars, TerminalRecords, TypeOK
<1>22. CASE UNCHANGED vars
  BY <1>22 DEF vars, recVars, taskVars, TerminalRecords, TypeOK
<1>. QED
  BY <1>1, <1>2, <1>3, <1>4, <1>5, <1>6, <1>7, <1>8, <1>9, <1>10, <1>11,
     <1>12, <1>13, <1>14, <1>15, <1>16, <1>17, <1>18, <1>19, <1>20, <1>21, <1>22
     DEF Next, WorkerStep, HandlerStep, CleanerStep, MetricStep

\* Every step keeps the cleanup task's list valid.
LEMMA CleanupStep ==
    ASSUME TypeOK, TaskInv, RecordInv, CleanupInv, [Next]_vars
    PROVE  CleanupInv'
<1>1. ASSUME NEW w \in Workers, NEW s \in StreamIds, NEW m \in Modes,
             CreateStream(w, s, m)
      PROVE  CleanupInv'
  BY <1>1 DEF CreateStream, Insert, Owe, CleanupInv, RecordInv, TypeOK, Tasks
<1>2. ASSUME NEW w \in Workers, NEW s \in StreamIds, RtmpLookup(w, s)
      PROVE  CleanupInv'
  BY <1>2 DEF RtmpLookup, recVars, CleanupInv, RecordInv, TypeOK, Tasks
<1>3. ASSUME NEW w \in Workers, RtmpCreate(w)
      PROVE  CleanupInv'
  BY <1>3 DEF RtmpCreate, Insert, Owe, CleanupInv, RecordInv, TypeOK, Tasks
<1>4. ASSUME NEW w \in Workers, NEW s \in StreamIds, UploadCreate(w, s)
      PROVE  CleanupInv'
  BY <1>4 DEF UploadCreate, Insert, Owe, CleanupInv, RecordInv, TypeOK, Tasks
<1>5. ASSUME NEW w \in Workers, UploadAccept(w)
      PROVE  CleanupInv'
  BY <1>5
     DEF UploadAccept, Transition, CanTransition, IsValidTransition,
         CannotTransition, recVars, Owe, taskVars, CleanupInv, RecordInv,
         TypeOK, Tasks
<1>6. ASSUME NEW w \in Workers, NEW s \in StreamIds, AdminDelete(w, s)
      PROVE  CleanupInv'
  BY <1>6
     DEF AdminDelete, Transition, CanTransition, IsValidTransition, Owe,
         CleanupInv, RecordInv, TypeOK, Tasks
<1>7. ASSUME NEW s \in StreamIds, NEW n \in Selections,
             SetExpectedRenditions(s, n)
      PROVE  CleanupInv'
  BY <1>7
     DEF SetExpectedRenditions, taskVars, CleanupInv, RecordInv, TypeOK, Tasks
<1>8. ASSUME NEW s \in StreamIds, StreamStarted(s)
      PROVE  CleanupInv'
  BY <1>8, StreamStateAssumption
     DEF StreamStarted, Transition, CanTransition, IsValidTransition, Owe,
         CleanupInv, RecordInv, TypeOK, Tasks
<1>9. ASSUME NEW s \in StreamIds, StreamEnded(s)
      PROVE  CleanupInv'
  BY <1>9, StreamStateAssumption
     DEF StreamEnded, Transition, CanTransition, IsValidTransition, Owe,
         CleanupInv, RecordInv, TypeOK, Tasks
<1>10. ASSUME NEW s \in StreamIds, StreamError(s)
      PROVE  CleanupInv'
  BY <1>10, StreamStateAssumption
     DEF StreamError, TransitionToError, Owe, CleanupInv, RecordInv, TypeOK,
         Tasks
<1>11. ASSUME NEW s \in StreamIds, NEW r \in Renditions,
             SegmentProduced(s, r)
      PROVE  CleanupInv'
  BY <1>11 DEF SegmentProduced, taskVars, CleanupInv, RecordInv, TypeOK, Tasks
<1>12. ASSUME NEW s \in StreamIds, NEW r \in Renditions,
             RenditionComplete(s, r)
      PROVE  CleanupInv'
  BY <1>12, StreamStateAssumption
     DEF RenditionComplete, CleanupInv, RecordInv, TypeOK, Tasks
<1>13. CASE AutoReady
  BY <1>13, StreamStateAssumption
     DEF AutoReady, Transition, CanTransition, IsValidTransition,
         CannotTransition, recVars, Owe, CleanupInv, RecordInv, TypeOK, Tasks
<1>14. CASE CleanupListErrors
  BY <1>14
     DEF CleanupListErrors, CleanupList, recVars, RetentionExceedsCalls,
         taskVars, CleanupInv, RecordInv, TypeOK, Tasks
<1>15. CASE CleanupListDeleted
  BY <1>15
     DEF CleanupListDeleted, CleanupList, recVars, RetentionExceedsCalls,
         taskVars, CleanupInv, RecordInv, TypeOK, Tasks
<1>16. ASSUME NEW s \in StreamIds, CleanupPurge(s)
      PROVE  CleanupInv'
  BY <1>16, StreamStateAssumption
     DEF CleanupPurge, Transition, CanTransition, IsValidTransition, recVars,
         Owe, taskVars, CleanupInv, RecordInv, TypeOK, Tasks
<1>17. ASSUME NEW s \in StreamIds, CleanupRemove(s)
      PROVE  CleanupInv'
  BY <1>17, StreamStateAssumption
     DEF CleanupRemove, recVars, Owe, taskVars, CleanupInv, RecordInv, TypeOK,
         Tasks
<1>18. ASSUME NEW t \in Tasks, CounterSub(t)
      PROVE  CleanupInv'
  BY <1>18 DEF CounterSub, recVars, CleanupInv, RecordInv, TypeOK, Tasks
<1>19. ASSUME NEW t \in Tasks, CounterAdd(t)
      PROVE  CleanupInv'
  BY <1>19 DEF CounterAdd, recVars, CleanupInv, RecordInv, TypeOK, Tasks
<1>20. ASSUME NEW t \in Tasks, GaugeLoad(t)
      PROVE  CleanupInv'
  BY <1>20 DEF GaugeLoad, recVars, CleanupInv, RecordInv, TypeOK, Tasks
<1>21. ASSUME NEW t \in Tasks, GaugePublish(t)
      PROVE  CleanupInv'
  BY <1>21 DEF GaugePublish, recVars, CleanupInv, RecordInv, TypeOK, Tasks
<1>22. CASE UNCHANGED vars
  BY <1>22 DEF vars, recVars, taskVars, CleanupInv, RecordInv, TypeOK, Tasks
<1>. QED
  BY <1>1, <1>2, <1>3, <1>4, <1>5, <1>6, <1>7, <1>8, <1>9, <1>10, <1>11,
     <1>12, <1>13, <1>14, <1>15, <1>16, <1>17, <1>18, <1>19, <1>20, <1>21, <1>22
     DEF Next, WorkerStep, HandlerStep, CleanerStep, MetricStep

\* More complete renditions are still enough (mark_rendition_complete() only
\* ever adds to them).
LEMMA EnoughMonotone ==
    ASSUME NEW A, NEW B \in SUBSET Renditions, A \subseteq B, NEW n \in Nat,
           Enough(A, n)
    PROVE  Enough(B, n)
<1>1. IsFiniteSet(B)
  BY FS_Subset, StreamStateAssumption
<1>2. IsFiniteSet(A) /\ Cardinality(A) <= Cardinality(B)
  BY <1>1, FS_Subset
<1>3. Cardinality(A) \in Nat /\ Cardinality(B) \in Nat
  BY <1>1, <1>2, FS_CardinalityType
<1>. QED  BY <1>2, <1>3 DEF Enough

\* Every step keeps READY streams complete, the handler's pending decision
\* included.
LEMMA ReadyStep ==
    ASSUME TypeOK, TaskInv, RecordInv, ReadyOnlyWhenComplete, HandlerInv,
           [Next]_vars
    PROVE  ReadyOnlyWhenComplete' /\ HandlerInv'
<1>1. ASSUME NEW w \in Workers, NEW s \in StreamIds, NEW m \in Modes,
             CreateStream(w, s, m)
      PROVE  ReadyOnlyWhenComplete' /\ HandlerInv'
  BY <1>1, StreamStateAssumption
     DEF CreateStream, Insert, Owe, ReadyOnlyWhenComplete, HandlerInv,
         AllComplete, TaskInv, RecordInv, TypeOK, Tasks, Modes
<1>2. ASSUME NEW w \in Workers, NEW s \in StreamIds, RtmpLookup(w, s)
      PROVE  ReadyOnlyWhenComplete' /\ HandlerInv'
  BY <1>2, StreamStateAssumption
     DEF RtmpLookup, recVars, ReadyOnlyWhenComplete, HandlerInv, AllComplete,
         TaskInv, RecordInv, TypeOK, Tasks, Modes
<1>3. ASSUME NEW w \in Workers, RtmpCreate(w)
      PROVE  ReadyOnlyWhenComplete' /\ HandlerInv'
  BY <1>3, StreamStateAssumption
     DEF RtmpCreate, Insert, Owe, ReadyOnlyWhenComplete, HandlerInv,
         AllComplete, TaskInv, RecordInv, TypeOK, Tasks, Modes
<1>4. ASSUME NEW w \in Workers, NEW s \in StreamIds, UploadCreate(w, s)
      PROVE  ReadyOnlyWhenComplete' /\ HandlerInv'
  BY <1>4, StreamStateAssumption
     DEF UploadCreate, Insert, Owe, ReadyOnlyWhenComplete, HandlerInv,
         AllComplete, TaskInv, RecordInv, TypeOK, Tasks, Modes
<1>5. ASSUME NEW w \in Workers, UploadAccept(w)
      PROVE  ReadyOnlyWhenComplete' /\ HandlerInv'
  <2>1. CASE Transition(w, sid[w], "Processing")
    <3>1. \/ state[sid[w]] = "Pending" /\ mode[sid[w]] = "Vod"
          \/ state[sid[w]] = "Live"
      BY <1>5, <2>1, StreamStateAssumption
         DEF Transition, CanTransition, IsValidTransition, TypeOK, Modes
    <3>2. sid[w] \in StreamIds
      BY <1>5 DEF UploadAccept, TaskInv, TypeOK, Tasks
    <3>3. state' = [state EXCEPT ![sid[w]] = "Processing"]
      BY <2>1 DEF Transition
    <3>4. UNCHANGED <<mode, complete, announced>>
      BY <2>1 DEF Transition
    <3>5. pc'[Handler] = pc[Handler] /\ sid'[Handler] = sid[Handler]
      BY <2>1, StreamStateAssumption DEF Transition, Owe, TypeOK, Tasks
    <3>6. ReadyOnlyWhenComplete'
      BY <3>2, <3>3, <3>4 DEF ReadyOnlyWhenComplete, AllComplete, TypeOK
    <3>7. HandlerInv'
      BY <3>1, <3>2, <3>3, <3>4, <3>5 DEF HandlerInv, AllComplete, TypeOK
    <3>. QED  BY <3>6, <3>7
  <2>2. CASE CannotTransition(w, "Processing")
    BY <1>5, <2>2, StreamStateAssumption
       DEF CannotTransition, recVars, ReadyOnlyWhenComplete, HandlerInv,
           AllComplete, TypeOK, Tasks
  <2>. QED  BY <1>5, <2>1, <2>2 DEF UploadAccept
<1>6. ASSUME NEW w \in Workers, NEW s \in StreamIds, AdminDelete(w, s)
      PROVE  ReadyOnlyWhenComplete' /\ HandlerInv'
  BY <1>6, StreamStateAssumption
     DEF AdminDelete, Transition, CanTransition, IsValidTransition, Owe,
         ReadyOnlyWhenComplete, HandlerInv, AllComplete, TaskInv, RecordInv,
         TypeOK, Tasks, Modes
<1>7. ASSUME NEW s \in StreamIds, NEW n \in Selections,
             SetExpectedRenditions(s, n)
      PROVE  ReadyOnlyWhenComplete' /\ HandlerInv'
  <2>1. ASSUME NEW x \in StreamIds, AllComplete(x)
        PROVE  AllComplete(x)'
    <3>1. announced[x] \subseteq announced'[x] /\ complete' = complete
      BY <1>7 DEF SetExpectedRenditions, TypeOK
    <3>. QED  BY <2>1, <3>1 DEF AllComplete
  <2>. QED
    BY <1>7, <2>1
       DEF SetExpectedRenditions, taskVars, ReadyOnlyWhenComplete, HandlerInv,
           TaskInv, TypeOK, Tasks
<1>8. ASSUME NEW s \in StreamIds, StreamStarted(s)
      PROVE  ReadyOnlyWhenComplete' /\ HandlerInv'
  BY <1>8, StreamStateAssumption
     DEF StreamStarted, Transition, CanTransition, IsValidTransition, Owe,
         ReadyOnlyWhenComplete, HandlerInv, AllComplete, TaskInv, RecordInv,
         TypeOK, Tasks, Modes
<1>9. ASSUME NEW s \in StreamIds, StreamEnded(s)
      PROVE  ReadyOnlyWhenComplete' /\ HandlerInv'
  BY <1>9, StreamStateAssumption
     DEF StreamEnded, Transition, CanTransition, IsValidTransition, Owe,
         ReadyOnlyWhenComplete, HandlerInv, AllComplete, TaskInv, RecordInv,
         TypeOK, Tasks, Modes
<1>10. ASSUME NEW s \in StreamIds, StreamError(s)
      PROVE  ReadyOnlyWhenComplete' /\ HandlerInv'
  BY <1>10, StreamStateAssumption
     DEF StreamError, TransitionToError, Owe, ReadyOnlyWhenComplete,
         HandlerInv, AllComplete, TaskInv, RecordInv, TypeOK, Tasks, Modes
<1>11. ASSUME NEW s \in StreamIds, NEW r \in Renditions,
             SegmentProduced(s, r)
      PROVE  ReadyOnlyWhenComplete' /\ HandlerInv'
  BY <1>11
     DEF SegmentProduced, taskVars, ReadyOnlyWhenComplete, HandlerInv,
         AllComplete, TaskInv, RecordInv, TypeOK, Tasks, Modes
<1>12. ASSUME NEW s \in StreamIds, NEW r \in Renditions,
             RenditionComplete(s, r)
      PROVE  ReadyOnlyWhenComplete' /\ HandlerInv'
  <2>1. ASSUME NEW x \in StreamIds, AllComplete(x)
        PROVE  AllComplete(x)'
    <3>1. complete[x] \subseteq complete'[x] /\ complete'[x] \subseteq Renditions
      BY <1>12 DEF RenditionComplete, TypeOK
    <3>2. announced'[x] = announced[x] /\ announced[x] \subseteq Nat
      BY <1>12, StreamStateAssumption DEF RenditionComplete, TypeOK
    <3>3. PICK n \in announced[x] : Enough(complete[x], n)
      BY <2>1 DEF AllComplete
    <3>4. Enough(complete'[x], n)
      BY <3>1, <3>2, <3>3, EnoughMonotone
    <3>. QED  BY <3>2, <3>3, <3>4 DEF AllComplete
  <2>2. ReadyOnlyWhenComplete'
    BY <1>12, <2>1 DEF RenditionComplete, ReadyOnlyWhenComplete
  <2>3. HandlerInv'
    <3>1. CASE state[s] = "Processing" /\ Enough(complete'[s], expected[s])
      <4>1. sid'[Handler] = s
        BY <1>12, <3>1 DEF RenditionComplete, TypeOK, Tasks
      <4>2. AllComplete(s)'
        <5>1. expected[s] \in announced'[s]
          BY <1>12, <3>1 DEF RenditionComplete, Enough, RecordInv, TypeOK
        <5>. QED  BY <3>1, <5>1 DEF AllComplete
      <4>. QED  BY <4>1, <4>2 DEF HandlerInv, AllComplete
    <3>2. CASE ~(state[s] = "Processing" /\ Enough(complete'[s], expected[s]))
      BY <1>12, <3>2 DEF RenditionComplete, HandlerInv
    <3>. QED  BY <3>1, <3>2
  <2>. QED  BY <2>2, <2>3
<1>13. CASE AutoReady
  BY <1>13, StreamStateAssumption
     DEF AutoReady, Transition, CanTransition, IsValidTransition,
         CannotTransition, recVars, Owe, ReadyOnlyWhenComplete, HandlerInv,
         AllComplete, TaskInv, RecordInv, TypeOK, Tasks, Modes
<1>14. CASE CleanupListErrors
  BY <1>14
     DEF CleanupListErrors, CleanupList, recVars, taskVars,
         ReadyOnlyWhenComplete, HandlerInv, AllComplete, TaskInv, RecordInv,
         TypeOK, Tasks, Modes
<1>15. CASE CleanupListDeleted
  BY <1>15
     DEF CleanupListDeleted, CleanupList, recVars, taskVars,
         ReadyOnlyWhenComplete, HandlerInv, AllComplete, TaskInv, RecordInv,
         TypeOK, Tasks, Modes
<1>16. ASSUME NEW s \in StreamIds, CleanupPurge(s)
      PROVE  ReadyOnlyWhenComplete' /\ HandlerInv'
  BY <1>16, StreamStateAssumption
     DEF CleanupPurge, Transition, CanTransition, IsValidTransition, recVars,
         Owe, taskVars, ReadyOnlyWhenComplete, HandlerInv, AllComplete,
         TaskInv, RecordInv, TypeOK, Tasks, Modes
<1>17. ASSUME NEW s \in StreamIds, CleanupRemove(s)
      PROVE  ReadyOnlyWhenComplete' /\ HandlerInv'
  BY <1>17, StreamStateAssumption
     DEF CleanupRemove, recVars, Owe, taskVars, ReadyOnlyWhenComplete,
         HandlerInv, AllComplete, TaskInv, RecordInv, TypeOK, Tasks, Modes
<1>18. ASSUME NEW t \in Tasks, CounterSub(t)
      PROVE  ReadyOnlyWhenComplete' /\ HandlerInv'
  BY <1>18
     DEF CounterSub, recVars, ReadyOnlyWhenComplete, HandlerInv, AllComplete,
         TaskInv, RecordInv, TypeOK, Tasks, Modes
<1>19. ASSUME NEW t \in Tasks, CounterAdd(t)
      PROVE  ReadyOnlyWhenComplete' /\ HandlerInv'
  BY <1>19
     DEF CounterAdd, recVars, ReadyOnlyWhenComplete, HandlerInv, AllComplete,
         TaskInv, RecordInv, TypeOK, Tasks, Modes
<1>20. ASSUME NEW t \in Tasks, GaugeLoad(t)
      PROVE  ReadyOnlyWhenComplete' /\ HandlerInv'
  BY <1>20
     DEF GaugeLoad, recVars, ReadyOnlyWhenComplete, HandlerInv, AllComplete,
         TaskInv, RecordInv, TypeOK, Tasks, Modes
<1>21. ASSUME NEW t \in Tasks, GaugePublish(t)
      PROVE  ReadyOnlyWhenComplete' /\ HandlerInv'
  BY <1>21
     DEF GaugePublish, recVars, ReadyOnlyWhenComplete, HandlerInv,
         AllComplete, TaskInv, RecordInv, TypeOK, Tasks, Modes
<1>22. CASE UNCHANGED vars
  BY <1>22 DEF vars, recVars, taskVars, ReadyOnlyWhenComplete, HandlerInv,
         AllComplete, TaskInv, RecordInv, TypeOK, Tasks, Modes
<1>. QED
  BY <1>1, <1>2, <1>3, <1>4, <1>5, <1>6, <1>7, <1>8, <1>9, <1>10, <1>11,
     <1>12, <1>13, <1>14, <1>15, <1>16, <1>17, <1>18, <1>19, <1>20, <1>21, <1>22
     DEF Next, WorkerStep, HandlerStep, CleanerStep, MetricStep

-----------------------------------------------------------------------------
(* Conservation of the counters.                                           *)

Same(a, b) == IF a = b THEN 1 ELSE 0

\* f and g differ at a, if at all.
DifferAt(f, g, a) ==
    /\ DOMAIN f = DOMAIN g
    /\ a \in DOMAIN f
    /\ \A i \in DOMAIN f : i # a => f[i] = g[i]

\* Changing one value of a function moves one index from one tally to another.
LEMMA TallyChange ==
    ASSUME NEW f, NEW g, NEW a, IsFiniteSet(DOMAIN f), DifferAt(f, g, a), NEW x
    PROVE  Tally(g, x) = Tally(f, x) - Same(f[a], x) + Same(g[a], x)
<1> DEFINE F == {i \in DOMAIN f : f[i] = x}
           G == {i \in DOMAIN g : g[i] = x}
           Rest == {i \in DOMAIN f \ {a} : f[i] = x}
<1>1. IsFiniteSet(F) /\ IsFiniteSet(Rest)
  BY FS_Subset
<1>2. Cardinality(F) \in Nat /\ Cardinality(Rest) \in Nat
  BY <1>1, FS_CardinalityType
<1>3. Cardinality(Rest \cup {a}) = Cardinality(Rest) + 1
  <2>1. a \notin Rest
    OBVIOUS
  <2>. QED  BY <1>1, <2>1, FS_AddElement
<1>4. Cardinality(F) = Cardinality(Rest) + Same(f[a], x)
  <2>1. CASE f[a] = x
    <3>1. F = Rest \cup {a}
      BY <2>1 DEF DifferAt
    <3>. QED  BY <1>3, <2>1, <3>1 DEF Same
  <2>2. CASE f[a] # x
    <3>1. F = Rest
      BY <2>2
    <3>2. Cardinality(F) = Cardinality(Rest)
      BY <3>1
    <3>3. Same(f[a], x) = 0
      BY <2>2 DEF Same
    <3> HIDE DEF F, G, Rest
    <3>. QED  BY <1>2, <3>2, <3>3
  <2>. QED  BY <2>1, <2>2
<1>5. Cardinality(G) = Cardinality(Rest) + Same(g[a], x)
  <2>1. CASE g[a] = x
    <3>1. G = Rest \cup {a}
      BY <2>1 DEF DifferAt
    <3>. QED  BY <1>3, <2>1, <3>1 DEF Same
  <2>2. CASE g[a] # x
    <3>1. G = Rest
      BY <2>2 DEF DifferAt
    <3>2. Cardinality(G) = Cardinality(Rest)
      BY <3>1
    <3>3. Same(g[a], x) = 0
      BY <2>2 DEF Same
    <3> HIDE DEF F, G, Rest
    <3>. QED  BY <1>2, <3>2, <3>3
  <2>. QED  BY <2>1, <2>2
<1>6. Tally(f, x) = Cardinality(F) /\ Tally(g, x) = Cardinality(G)
  BY DEF Tally
<1>7. Same(f[a], x) \in {0, 1} /\ Same(g[a], x) \in {0, 1}
  BY DEF Same
<1>. QED  BY <1>2, <1>4, <1>5, <1>6, <1>7

\* There are finitely many tasks.
LEMMA TasksFinite == IsFiniteSet(Tasks)
<1>1. IsFiniteSet((Workers \cup {Handler}) \cup {Cleaner})
  BY StreamStateAssumption, FS_AddElement
<1>2. Tasks = (Workers \cup {Handler}) \cup {Cleaner}
  BY DEF Tasks
<1>. QED  BY <1>1, <1>2

\* Tallies of records and of owed updates are natural numbers.
LEMMA TallyTypes ==
    ASSUME TypeOK, NEW x
    PROVE  Tally(state, x) \in Nat /\ Tally(sub, x) \in Nat /\ Tally(add, x) \in Nat
<1>1. ASSUME NEW S, IsFiniteSet(S), NEW f, DOMAIN f = S
      PROVE  Tally(f, x) \in Nat
  BY <1>1, FS_Subset, FS_CardinalityType DEF Tally
<1>2. DOMAIN state = StreamIds /\ DOMAIN sub = Tasks /\ DOMAIN add = Tasks
  BY DEF TypeOK
<1>. QED  BY <1>1, <1>2, TasksFinite, StreamStateAssumption

\* A record that changes its state while its task takes on the matching
\* updates leaves the balance as it was.
LEMMA Balance ==
    ASSUME TypeOK, TaskInv, CountersConserved,
           NEW t \in Tasks, pc[t] # "count", NEW s \in StreamIds,
           DifferAt(state, state', s), DifferAt(sub, sub', t), DifferAt(add,
           add', t),
           counts' = counts,
           \A x \in States :
               lost'[x] = lost[x] + Same(state[s], x) - Same(state'[s], x)
                            - Same(sub'[t], x) + Same(add'[t], x)
    PROVE  CountersConserved'
<1>1. SUFFICES ASSUME NEW x \in States
               PROVE  counts[x] = Tally(state', x) + lost'[x]
                                    + Tally(sub', x) - Tally(add', x)
  BY DEF CountersConserved
<1>2. /\ IsFiniteSet(DOMAIN state)
      /\ IsFiniteSet(DOMAIN sub)
      /\ IsFiniteSet(DOMAIN add)
  BY StreamStateAssumption, TasksFinite DEF TypeOK
<1>3. Same(sub[t], x) = 0 /\ Same(add[t], x) = 0
  BY StreamStateAssumption DEF TaskInv, Same
<1>4. Tally(state', x) = Tally(state, x) - Same(state[s], x) + Same(state'[s], x)
  BY <1>2, TallyChange
<1>5. Tally(sub', x) = Tally(sub, x) - Same(sub[t], x) + Same(sub'[t], x)
  BY <1>2, TallyChange
<1>6. Tally(add', x) = Tally(add, x) - Same(add[t], x) + Same(add'[t], x)
  BY <1>2, TallyChange
<1>7. /\ counts[x] = Tally(state, x) + lost[x] + Tally(sub, x) - Tally(add, x)
      /\ counts[x] \in Int /\ lost[x] \in Nat
  BY DEF CountersConserved, TypeOK
<1>8. /\ Same(state[s], x) \in Int /\ Same(state'[s], x) \in Int
      /\ Same(sub'[t], x) \in Int /\ Same(add'[t], x) \in Int
  BY DEF Same
<1>9. lost'[x] = lost[x] + Same(state[s], x) - Same(state'[s], x)
                   - Same(sub'[t], x) + Same(add'[t], x)
  BY <1>1
<1>. QED  BY <1>3, <1>4, <1>5, <1>6, <1>7, <1>8, <1>9, TallyTypes

\* From one state to another.
LEMMA MoveCounted ==
    ASSUME TypeOK, TaskInv, CountersConserved,
           NEW t \in Tasks, pc[t] # "count",
           NEW s \in StreamIds, NEW new \in States,
           state' = [state EXCEPT ![s] = new],
           sub' = [sub EXCEPT ![t] = state[s]],
           add' = [add EXCEPT ![t] = new],
           counts' = counts, lost' = lost
    PROVE  CountersConserved'
<1>1. DifferAt(state, state', s) /\ state'[s] = new
  BY DEF DifferAt, TypeOK
<1>2. DifferAt(sub, sub', t) /\ sub'[t] = state[s]
  BY DEF DifferAt, TypeOK
<1>3. DifferAt(add, add', t) /\ add'[t] = new
  BY DEF DifferAt, TypeOK
<1>4. ASSUME NEW x \in States
      PROVE  lost'[x] = lost[x] + Same(state[s], x) - Same(state'[s], x)
                          - Same(sub'[t], x) + Same(add'[t], x)
  <2>1. Same(state[s], x) \in Int /\ Same(new, x) \in Int /\ lost[x] \in Nat
    BY DEF Same, TypeOK
  <2>. QED  BY <1>1, <1>2, <1>3, <2>1
<1>. QED  BY <1>1, <1>2, <1>3, <1>4, Balance

\* transition(), whoever calls it.
LEMMA TransitionCounted ==
    ASSUME TypeOK, TaskInv, CountersConserved,
           NEW t \in Tasks, pc[t] # "count",
           NEW s \in StreamIds, NEW new \in States, Transition(t, s, new),
           counts' = counts
    PROVE  CountersConserved'
BY MoveCounted DEF Transition, Owe

\* create_stream(), over an old record or not.
LEMMA InsertCounted ==
    ASSUME TypeOK, TaskInv, CountersConserved,
           NEW t \in Tasks, pc[t] # "count",
           NEW s \in StreamIds, NEW m, NEW next, Insert(t, s, m, next),
           counts' = counts
    PROVE  CountersConserved'
<1>1. DifferAt(state, state', s) /\ state'[s] = "Pending"
  BY DEF Insert, DifferAt, TypeOK
<1>2. DifferAt(sub, sub', t) /\ sub'[t] = None
  BY DEF Insert, Owe, DifferAt, TypeOK
<1>3. DifferAt(add, add', t) /\ add'[t] = "Pending"
  BY DEF Insert, Owe, DifferAt, TypeOK
<1>4. ASSUME NEW x \in States
      PROVE  lost'[x] = lost[x] + Same(state[s], x) - Same(state'[s], x)
                          - Same(sub'[t], x) + Same(add'[t], x)
  <2>1. Same(None, x) = 0 /\ Same("Pending", x) \in Int /\ lost[x] \in Nat
    BY StreamStateAssumption DEF Same, TypeOK
  <2>2. lost'[x] = lost[x] + Same(state[s], x)
    <3>1. CASE state[s] = "Absent"
      BY <2>1, <3>1 DEF Insert, Same, States
    <3>2. CASE state[s] # "Absent"
      <4>1. state[s] \in States /\ lost' = [lost EXCEPT ![state[s]] = @ + 1]
        BY <3>2 DEF Insert, TypeOK
      <4>. QED  BY <4>1 DEF TypeOK, Same
    <3>. QED  BY <3>1, <3>2
  <2>3. Same(state[s], x) \in Int
    BY DEF Same
  <2>. QED  BY <1>1, <1>2, <1>3, <2>1, <2>2, <2>3
<1>. QED  BY <1>1, <1>2, <1>3, <1>4, Balance

\* Every step keeps the counters' balance.
LEMMA CounterStep ==
    ASSUME TypeOK, TaskInv, CountersConserved, [Next]_vars
    PROVE  CountersConserved'
<1>1. ASSUME NEW w \in Workers, NEW s \in StreamIds, NEW m \in Modes,
             CreateStream(w, s, m)
      PROVE  CountersConserved'
  <2>1. s \in StreamIds /\ w \in Tasks /\ pc[w] # "count"
    BY <1>1 DEF CreateStream, TaskInv, TypeOK, Tasks
  <2>2. Insert(w, s, m, None) /\ counts' = counts
    BY <1>1 DEF CreateStream
  <2>. QED  BY <2>1, <2>2, InsertCounted
<1>2. ASSUME NEW w \in Workers, NEW s \in StreamIds, RtmpLookup(w, s)
      PROVE  CountersConserved'
  BY <1>2 DEF RtmpLookup, recVars, CountersConserved
<1>3. ASSUME NEW w \in Workers, RtmpCreate(w)
      PROVE  CountersConserved'
  <2>1. sid[w] \in StreamIds /\ w \in Tasks /\ pc[w] # "count"
    BY <1>3 DEF RtmpCreate, TaskInv, TypeOK, Tasks
  <2>2. Insert(w, sid[w], "Live", None) /\ counts' = counts
    BY <1>3 DEF RtmpCreate
  <2>. QED  BY <2>1, <2>2, InsertCounted
<1>4. ASSUME NEW w \in Workers, NEW s \in StreamIds, UploadCreate(w, s)
      PROVE  CountersConserved'
  <2>1. s \in StreamIds /\ w \in Tasks /\ pc[w] # "count"
    BY <1>4 DEF UploadCreate, TaskInv, TypeOK, Tasks
  <2>2. Insert(w, s, "Vod", s) /\ counts' = counts
    BY <1>4 DEF UploadCreate
  <2>. QED  BY <2>1, <2>2, InsertCounted
<1>5. ASSUME NEW w \in Workers, UploadAccept(w)
      PROVE  CountersConserved'
  <2>1. w \in Tasks /\ pc[w] # "count" /\ "Processing" \in States
    BY <1>5 DEF UploadAccept, Tasks, States
  <2>2. sid[w] \in StreamIds
    BY <1>5 DEF UploadAccept, TaskInv, TypeOK, Tasks
  <2>3. CASE Transition(w, sid[w], "Processing")
    BY <1>5, <2>1, <2>2, <2>3, TransitionCounted DEF UploadAccept
  <2>4. CASE CannotTransition(w, "Processing")
    BY <1>5, <2>4 DEF UploadAccept, CannotTransition, recVars, CountersConserved
  <2>. QED  BY <1>5, <2>3, <2>4 DEF UploadAccept
<1>6. ASSUME NEW w \in Workers, NEW s \in StreamIds, AdminDelete(w, s)
      PROVE  CountersConserved'
  <2>1. w \in Tasks /\ pc[w] # "count" /\ "Deleted" \in States
    BY <1>6 DEF AdminDelete, Tasks, States
  <2>. QED  BY <1>6, <2>1, TransitionCounted DEF AdminDelete
<1>7. ASSUME NEW s \in StreamIds, NEW n \in Selections,
             SetExpectedRenditions(s, n)
      PROVE  CountersConserved'
  BY <1>7 DEF SetExpectedRenditions, taskVars, CountersConserved
<1>8. ASSUME NEW s \in StreamIds, StreamStarted(s)
      PROVE  CountersConserved'
  <2>1. Handler \in Tasks /\ pc[Handler] # "count" /\ "Live" \in States
    BY <1>8 DEF StreamStarted, Tasks, States
  <2>. QED  BY <1>8, <2>1, TransitionCounted DEF StreamStarted
<1>9. ASSUME NEW s \in StreamIds, StreamEnded(s)
      PROVE  CountersConserved'
  <2>1. Handler \in Tasks /\ pc[Handler] # "count" /\ "Processing" \in States
    BY <1>9 DEF StreamEnded, Tasks, States
  <2>. QED  BY <1>9, <2>1, TransitionCounted DEF StreamEnded
<1>10. ASSUME NEW s \in StreamIds, StreamError(s)
      PROVE  CountersConserved'
  <2>1. Handler \in Tasks /\ pc[Handler] # "count" /\ state[s] \in States
    BY <1>10 DEF StreamError, TransitionToError, Tasks, TypeOK
  <2>2. "Error" \in States
    BY DEF States
  <2>. QED
    BY <1>10, <2>1, <2>2, MoveCounted DEF StreamError, TransitionToError, Owe
<1>11. ASSUME NEW s \in StreamIds, NEW r \in Renditions,
             SegmentProduced(s, r)
      PROVE  CountersConserved'
  BY <1>11 DEF SegmentProduced, taskVars, CountersConserved
<1>12. ASSUME NEW s \in StreamIds, NEW r \in Renditions,
             RenditionComplete(s, r)
      PROVE  CountersConserved'
  BY <1>12 DEF RenditionComplete, CountersConserved
<1>13. CASE AutoReady
  <2>1. Handler \in Tasks /\ pc[Handler] # "count" /\ "Ready" \in States
    BY <1>13 DEF AutoReady, Tasks, States
  <2>2. sid[Handler] \in StreamIds
    BY <1>13 DEF AutoReady, TaskInv, TypeOK, Tasks
  <2>3. CASE Transition(Handler, sid[Handler], "Ready")
    BY <1>13, <2>1, <2>2, <2>3, TransitionCounted DEF AutoReady
  <2>4. CASE CannotTransition(Handler, "Ready")
    BY <1>13, <2>4 DEF AutoReady, CannotTransition, recVars, CountersConserved
  <2>. QED  BY <1>13, <2>3, <2>4 DEF AutoReady
<1>14. CASE CleanupListErrors
  BY <1>14
     DEF CleanupListErrors, CleanupList, taskVars, recVars, CountersConserved
<1>15. CASE CleanupListDeleted
  BY <1>15
     DEF CleanupListDeleted, CleanupList, taskVars, recVars, CountersConserved
<1>16. ASSUME NEW s \in StreamIds, CleanupPurge(s)
      PROVE  CountersConserved'
  <2>1. Cleaner \in Tasks /\ pc[Cleaner] # "count" /\ "Deleted" \in States
    BY <1>16 DEF CleanupPurge, Tasks, States
  <2>2. CASE Transition(Cleaner, s, "Deleted")
    BY <1>16, <2>1, <2>2, TransitionCounted DEF CleanupPurge
  <2>3. CASE UNCHANGED <<recVars, used, taskVars, lost>>
    BY <1>16, <2>3 DEF CleanupPurge, recVars, taskVars, CountersConserved
  <2>. QED  BY <1>16, <2>2, <2>3 DEF CleanupPurge
<1>17. ASSUME NEW s \in StreamIds, CleanupRemove(s)
      PROVE  CountersConserved'
  <2>1. Cleaner \in Tasks /\ pc[Cleaner] # "count"
    BY <1>17 DEF CleanupRemove, Tasks
  <2>2. CASE state[s] = "Absent"
    BY <1>17, <2>2 DEF CleanupRemove, recVars, taskVars, CountersConserved
  <2>3. CASE state[s] # "Absent"
    <3>1. state[s] \in States
      BY <2>3 DEF TypeOK
    <3>2. DifferAt(state, state', s) /\ state'[s] = "Absent"
      BY <1>17, <2>3 DEF CleanupRemove, DifferAt, TypeOK
    <3>3. DifferAt(sub, sub', Cleaner) /\ sub'[Cleaner] = state[s]
      BY <1>17, <2>1, <2>3 DEF CleanupRemove, Owe, DifferAt, TypeOK
    <3>4. DifferAt(add, add', Cleaner) /\ add'[Cleaner] = None
      BY <1>17, <2>1, <2>3 DEF CleanupRemove, Owe, DifferAt, TypeOK
    <3>5. counts' = counts /\ lost' = lost
      BY <1>17 DEF CleanupRemove
    <3>6. ASSUME NEW x \in States
          PROVE  lost'[x] = lost[x] + Same(state[s], x) - Same(state'[s], x)
                              - Same(sub'[Cleaner], x) + Same(add'[Cleaner], x)
      <4>1. Same("Absent", x) = 0 /\ Same(None, x) = 0
        BY StreamStateAssumption DEF States, Same
      <4>2. lost[x] \in Nat /\ Same(state[s], x) \in Int
        BY DEF TypeOK, Same
      <4>. QED  BY <3>2, <3>3, <3>4, <3>5, <4>1, <4>2
    <3>. QED  BY <2>1, <3>2, <3>3, <3>4, <3>5, <3>6, Balance
  <2>. QED  BY <2>2, <2>3
<1>18. ASSUME NEW t \in Tasks, CounterSub(t)
      PROVE  CountersConserved'
  <2>1. sub[t] \in States
    BY <1>18 DEF CounterSub, TypeOK
  <2>2. ASSUME NEW x \in States
        PROVE  counts'[x] = Tally(state, x) + lost[x] + Tally(sub', x) - Tally(add, x)
    <3>1. Tally(sub', x) = Tally(sub, x) - Same(sub[t], x)
      <4>1. IsFiniteSet(DOMAIN sub)
        BY TasksFinite DEF TypeOK
      <4>2. DifferAt(sub, sub', t) /\ sub'[t] = None
        BY <1>18 DEF CounterSub, DifferAt, TypeOK
      <4>3. Tally(sub', x) = Tally(sub, x) - Same(sub[t], x) + Same(sub'[t], x)
        BY <4>1, <4>2, TallyChange
      <4>4. Same(None, x) = 0 /\ Same(sub[t], x) \in Int
        BY StreamStateAssumption DEF Same
      <4>. QED  BY <4>2, <4>3, <4>4, TallyTypes
    <3>2. counts'[x] = counts[x] - Same(sub[t], x)
      BY <1>18, <2>1 DEF CounterSub, TypeOK, Same
    <3>. QED  BY <2>2, <3>1, <3>2, TallyTypes
       DEF CountersConserved, TypeOK, Same
  <2>. QED  BY <1>18, <2>2 DEF CounterSub, recVars, CountersConserved
<1>19. ASSUME NEW t \in Tasks, CounterAdd(t)
      PROVE  CountersConserved'
  <2>1. add[t] \in States
    BY <1>19 DEF CounterAdd, TypeOK
  <2>2. ASSUME NEW x \in States
        PROVE  counts'[x] = Tally(state, x) + lost[x] + Tally(sub, x) - Tally(add', x)
    <3>1. Tally(add', x) = Tally(add, x) - Same(add[t], x)
      <4>1. IsFiniteSet(DOMAIN add)
        BY TasksFinite DEF TypeOK
      <4>2. DifferAt(add, add', t) /\ add'[t] = None
        BY <1>19 DEF CounterAdd, DifferAt, TypeOK
      <4>3. Tally(add', x) = Tally(add, x) - Same(add[t], x) + Same(add'[t], x)
        BY <4>1, <4>2, TallyChange
      <4>4. Same(None, x) = 0 /\ Same(add[t], x) \in Int
        BY StreamStateAssumption DEF Same
      <4>. QED  BY <4>2, <4>3, <4>4, TallyTypes
    <3>2. counts'[x] = counts[x] + Same(add[t], x)
      BY <1>19, <2>1 DEF CounterAdd, TypeOK, Same
    <3>. QED  BY <2>2, <3>1, <3>2, TallyTypes
       DEF CountersConserved, TypeOK, Same
  <2>. QED  BY <1>19, <2>2 DEF CounterAdd, recVars, CountersConserved
<1>20. ASSUME NEW t \in Tasks, GaugeLoad(t)
      PROVE  CountersConserved'
  BY <1>20 DEF GaugeLoad, recVars, CountersConserved
<1>21. ASSUME NEW t \in Tasks, GaugePublish(t)
      PROVE  CountersConserved'
  BY <1>21 DEF GaugePublish, recVars, CountersConserved
<1>22. CASE UNCHANGED vars
  BY <1>22 DEF vars, recVars, taskVars, CountersConserved
<1>. QED
  BY <1>1, <1>2, <1>3, <1>4, <1>5, <1>6, <1>7, <1>8, <1>9, <1>10, <1>11,
     <1>12, <1>13, <1>14, <1>15, <1>16, <1>17, <1>18, <1>19, <1>20, <1>21, <1>22
     DEF Next, WorkerStep, HandlerStep, CleanerStep, MetricStep

-----------------------------------------------------------------------------
(* The life cycle.                                                         *)

\* The refinement mapping's value of the abstract variable packaged.
Packaged == {s \in StreamIds : AllComplete(s)}

\* What leaves the renditions alone leaves the packaged streams alone.
LEMMA PackagedKept ==
    ASSUME UNCHANGED <<complete, announced>>
    PROVE  Packaged' = Packaged
BY DEF Packaged, AllComplete

\* A cleared record is no longer packaged.
LEMMA PackagedCleared ==
    ASSUME TypeOK, NEW s \in StreamIds,
           complete' = [complete EXCEPT ![s] = {}],
           announced' = [announced EXCEPT ![s] = {}]
    PROVE  Packaged' = Packaged \ {s}
<1>1. ~AllComplete(s)'
  BY DEF AllComplete, TypeOK
<1>2. \A x \in StreamIds \ {s} : AllComplete(x)' <=> AllComplete(x)
  BY DEF AllComplete, TypeOK
<1>. QED  BY <1>1, <1>2 DEF Packaged

\* Steps that leave the records alone are stuttering steps.
LEMMA RecordsKept ==
    ASSUME UNCHANGED <<state, complete, announced>>
    PROVE  [Lifecycle!Next]_(Lifecycle!vars)
<1>1. Packaged' = Packaged
  BY PackagedKept
<1>. QED  BY <1>1 DEF Lifecycle!vars, Packaged

\* One record's renditions change and it was not packaged before.
LEMMA PackageOne ==
    ASSUME NEW s \in StreamIds, ~AllComplete(s), ReadyOnlyWhenComplete,
           state' = state, state[s] # "Absent",
           \A x \in StreamIds \ {s} : complete'[x] = complete[x]
                                        /\ announced'[x] = announced[x]
    PROVE  [Lifecycle!Next]_(Lifecycle!vars)
<1>1. \A x \in StreamIds \ {s} : AllComplete(x)' <=> AllComplete(x)
  BY DEF AllComplete
<1>2. CASE AllComplete(s)'
  <2>1. Packaged' = Packaged \cup {s}
    BY <1>1, <1>2 DEF Packaged
  <2>2. state[s] \notin {"Absent", "Ready"}
    BY DEF ReadyOnlyWhenComplete
  <2>3. Lifecycle!Package(s)
    BY <2>1, <2>2 DEF Lifecycle!Package, Packaged
  <2>. QED  BY <2>3 DEF Lifecycle!Next
<1>3. CASE ~AllComplete(s)'
  <2>1. Packaged' = Packaged
    BY <1>1, <1>3 DEF Packaged
  <2>. QED  BY <2>1 DEF Lifecycle!vars, Packaged
<1>. QED  BY <1>2, <1>3

\* create_stream() is the creation of a record, over an old one or not.
LEMMA InsertIsCreate ==
    ASSUME TypeOK, NEW t, NEW s \in StreamIds, NEW m, NEW next,
           Insert(t, s, m, next)
    PROVE  [Lifecycle!Next]_(Lifecycle!vars)
<1>1. Packaged' = Packaged \ {s}
  BY PackagedCleared DEF Insert
<1>2. Lifecycle!Create(s)
  BY <1>1 DEF Insert, Lifecycle!Create, Packaged
<1>. QED  BY <1>2 DEF Lifecycle!Next

\* transition() makes only the moves of the life cycle.
LEMMA TransitionIsMove ==
    ASSUME TypeOK, NEW t, NEW s \in StreamIds,
           NEW new \in {"Live", "Processing", "Ready", "Deleted"},
           Transition(t, s, new), new = "Ready" => AllComplete(s)
    PROVE  [Lifecycle!Next]_(Lifecycle!vars)
<1>1. Packaged' = Packaged
  BY PackagedKept DEF Transition
<1>2. state' = [state EXCEPT ![s] = new] /\ IsValidTransition(state[s], new, mode[s])
  BY DEF Transition, CanTransition
<1>3. CASE new = "Live"
  <2>1. state[s] = "Pending"
    BY <1>2, <1>3 DEF IsValidTransition
  <2>2. Lifecycle!Publish(s)
    BY <1>1, <1>2, <1>3, <2>1 DEF Lifecycle!Publish, Lifecycle!Move, Packaged
  <2>. QED  BY <2>2 DEF Lifecycle!Next
<1>4. CASE new = "Processing"
  <2>1. state[s] \in {"Pending", "Live"}
    BY <1>2, <1>4 DEF IsValidTransition
  <2>2. Lifecycle!Process(s)
    BY <1>1, <1>2, <1>4, <2>1 DEF Lifecycle!Process, Lifecycle!Move, Packaged
  <2>. QED  BY <2>2 DEF Lifecycle!Next
<1>5. CASE new = "Ready"
  <2>1. state[s] = "Processing" /\ s \in Packaged
    BY <1>2, <1>5 DEF IsValidTransition, Packaged
  <2>2. Lifecycle!Complete(s)
    BY <1>1, <1>2, <1>5, <2>1 DEF Lifecycle!Complete, Lifecycle!Move, Packaged
  <2>. QED  BY <2>2 DEF Lifecycle!Next
<1>6. CASE new = "Deleted"
  <2>1. state[s] \in {"Ready", "Error"}
    BY <1>2, <1>6 DEF IsValidTransition
  <2>2. Lifecycle!Delete(s)
    BY <1>1, <1>2, <1>6, <2>1 DEF Lifecycle!Delete, Lifecycle!Move, Packaged
  <2>. QED  BY <2>2 DEF Lifecycle!Next
<1>. QED  BY <1>3, <1>4, <1>5, <1>6

\* Every step of the manager is a step of the life cycle or changes nothing
\* there.
LEMMA LifecycleStep ==
    ASSUME TypeOK, TaskInv, RecordInv, CleanupInv, ReadyOnlyWhenComplete,
           HandlerInv, [Next]_vars
    PROVE  [Lifecycle!Next]_(Lifecycle!vars)
<1>1. ASSUME NEW w \in Workers, NEW s \in StreamIds, NEW m \in Modes,
             CreateStream(w, s, m)
      PROVE  [Lifecycle!Next]_(Lifecycle!vars)
  BY <1>1, InsertIsCreate DEF CreateStream
<1>2. ASSUME NEW w \in Workers, NEW s \in StreamIds, RtmpLookup(w, s)
      PROVE  [Lifecycle!Next]_(Lifecycle!vars)
  BY <1>2, RecordsKept DEF RtmpLookup, recVars
<1>3. ASSUME NEW w \in Workers, RtmpCreate(w)
      PROVE  [Lifecycle!Next]_(Lifecycle!vars)
  <2>1. sid[w] \in StreamIds
    BY <1>3 DEF RtmpCreate, TaskInv, TypeOK, Tasks
  <2>. QED  BY <1>3, <2>1, InsertIsCreate DEF RtmpCreate
<1>4. ASSUME NEW w \in Workers, NEW s \in StreamIds, UploadCreate(w, s)
      PROVE  [Lifecycle!Next]_(Lifecycle!vars)
  BY <1>4, InsertIsCreate DEF UploadCreate
<1>5. ASSUME NEW w \in Workers, UploadAccept(w)
      PROVE  [Lifecycle!Next]_(Lifecycle!vars)
  <2>1. sid[w] \in StreamIds
    BY <1>5 DEF UploadAccept, TaskInv, TypeOK, Tasks
  <2>3. CASE Transition(w, sid[w], "Processing")
    BY <2>1, <2>3, TransitionIsMove
  <2>4. CASE CannotTransition(w, "Processing")
    BY <2>4, RecordsKept DEF CannotTransition, recVars
  <2>. QED  BY <1>5, <2>3, <2>4 DEF UploadAccept
<1>6. ASSUME NEW w \in Workers, NEW s \in StreamIds, AdminDelete(w, s)
      PROVE  [Lifecycle!Next]_(Lifecycle!vars)
  BY <1>6, TransitionIsMove DEF AdminDelete
<1>7. ASSUME NEW s \in StreamIds, NEW n \in Selections,
             SetExpectedRenditions(s, n)
      PROVE  [Lifecycle!Next]_(Lifecycle!vars)
  <2>1. CASE AllComplete(s)
    <3>1. state' = state /\ complete' = complete
      BY <1>7 DEF SetExpectedRenditions
    <3>2. /\ announced[s] \subseteq announced'[s]
          /\ \A x \in StreamIds \ {s} : announced'[x] = announced[x]
      BY <1>7 DEF SetExpectedRenditions, TypeOK
    <3>3. Packaged' = Packaged
      BY <2>1, <3>1, <3>2 DEF Packaged, AllComplete
    <3>. QED  BY <3>1, <3>3 DEF Lifecycle!vars, Packaged
  <2>2. CASE ~AllComplete(s)
    <3>1. state' = state /\ complete' = complete /\ state[s] # "Absent"
      BY <1>7 DEF SetExpectedRenditions
    <3>2. \A x \in StreamIds \ {s} : announced'[x] = announced[x]
      BY <1>7 DEF SetExpectedRenditions, TypeOK
    <3>. QED  BY <2>2, <3>1, <3>2, PackageOne
  <2>. QED  BY <2>1, <2>2
<1>8. ASSUME NEW s \in StreamIds, StreamStarted(s)
      PROVE  [Lifecycle!Next]_(Lifecycle!vars)
  BY <1>8, TransitionIsMove DEF StreamStarted
<1>9. ASSUME NEW s \in StreamIds, StreamEnded(s)
      PROVE  [Lifecycle!Next]_(Lifecycle!vars)
  BY <1>9, TransitionIsMove DEF StreamEnded
<1>10. ASSUME NEW s \in StreamIds, StreamError(s)
      PROVE  [Lifecycle!Next]_(Lifecycle!vars)
  <2>1. state[s] \in Lifecycle!Phases \ {"Deleted"}
    BY <1>10
       DEF StreamError, TransitionToError, TypeOK, States, Lifecycle!Phases
  <2>2. Packaged' = Packaged
    BY <1>10, PackagedKept DEF StreamError, TransitionToError
  <2>3. Lifecycle!Fail(s)
    BY <1>10, <2>1, <2>2
       DEF StreamError, TransitionToError, Lifecycle!Fail, Lifecycle!Move,
           Packaged
  <2>. QED  BY <2>3 DEF Lifecycle!Next
<1>11. ASSUME NEW s \in StreamIds, NEW r \in Renditions,
             SegmentProduced(s, r)
      PROVE  [Lifecycle!Next]_(Lifecycle!vars)
  BY <1>11, RecordsKept DEF SegmentProduced
<1>12. ASSUME NEW s \in StreamIds, NEW r \in Renditions,
             RenditionComplete(s, r)
      PROVE  [Lifecycle!Next]_(Lifecycle!vars)
  <2>1. state' = state /\ announced' = announced /\ state[s] # "Absent"
    BY <1>12 DEF RenditionComplete
  <2>2. \A x \in StreamIds \ {s} : complete'[x] = complete[x]
    BY <1>12 DEF RenditionComplete, TypeOK
  <2>3. CASE AllComplete(s)
    <3>1. complete[s] \subseteq complete'[s] /\ complete'[s] \in SUBSET Renditions
      BY <1>12 DEF RenditionComplete, TypeOK
    <3>2. AllComplete(s)'
      <4>1. PICK n \in announced[s] : Enough(complete[s], n)
        BY <2>3 DEF AllComplete
      <4>2. n \in Nat
        BY StreamStateAssumption DEF TypeOK
      <4>3. Enough(complete'[s], n)
        BY <3>1, <4>1, <4>2, EnoughMonotone
      <4>. QED  BY <2>1, <4>1, <4>3 DEF AllComplete
    <3>3. Packaged' = Packaged
      BY <2>1, <2>2, <2>3, <3>2 DEF Packaged, AllComplete
    <3>. QED  BY <2>1, <3>3 DEF Lifecycle!vars, Packaged
  <2>4. CASE ~AllComplete(s)
    BY <2>1, <2>2, <2>4, PackageOne
  <2>. QED  BY <2>3, <2>4
<1>13. CASE AutoReady
  <2>1. sid[Handler] \in StreamIds
    BY <1>13 DEF AutoReady, TaskInv, TypeOK, Tasks
  <2>2. CanTransition(sid[Handler], "Ready") => AllComplete(sid[Handler])
    BY <1>13, StreamStateAssumption
       DEF AutoReady, CanTransition, IsValidTransition, HandlerInv
  <2>3. CASE Transition(Handler, sid[Handler], "Ready")
    BY <2>1, <2>2, <2>3, TransitionIsMove DEF Transition
  <2>4. CASE CannotTransition(Handler, "Ready")
    BY <2>4, RecordsKept DEF CannotTransition, recVars
  <2>. QED  BY <1>13, <2>3, <2>4 DEF AutoReady
<1>14. CASE CleanupListErrors
  BY <1>14, RecordsKept DEF CleanupListErrors, CleanupList, recVars
<1>15. CASE CleanupListDeleted
  BY <1>15, RecordsKept DEF CleanupListDeleted, CleanupList, recVars
<1>16. ASSUME NEW s \in StreamIds, CleanupPurge(s)
      PROVE  [Lifecycle!Next]_(Lifecycle!vars)
  <2>1. CASE Transition(Cleaner, s, "Deleted")
    BY <2>1, TransitionIsMove
  <2>2. CASE UNCHANGED <<recVars, used, taskVars, lost>>
    BY <2>2, RecordsKept DEF recVars
  <2>. QED  BY <1>16, <2>1, <2>2 DEF CleanupPurge
<1>17. ASSUME NEW s \in StreamIds, CleanupRemove(s)
      PROVE  [Lifecycle!Next]_(Lifecycle!vars)
  <2>1. state[s] = "Deleted"
    BY <1>17 DEF CleanupRemove, CleanupInv
  <2>2. /\ state' = [state EXCEPT ![s] = "Absent"]
        /\ complete' = [complete EXCEPT ![s] = {}]
        /\ announced' = [announced EXCEPT ![s] = {}]
    BY <1>17, <2>1 DEF CleanupRemove
  <2>3. Packaged' = Packaged \ {s}
    BY <2>2, PackagedCleared
  <2>4. Lifecycle!Remove(s)
    BY <2>1, <2>2, <2>3 DEF Lifecycle!Remove, Packaged
  <2>. QED  BY <2>4 DEF Lifecycle!Next
<1>18. ASSUME NEW t \in Tasks, CounterSub(t)
      PROVE  [Lifecycle!Next]_(Lifecycle!vars)
  BY <1>18, RecordsKept DEF CounterSub, recVars
<1>19. ASSUME NEW t \in Tasks, CounterAdd(t)
      PROVE  [Lifecycle!Next]_(Lifecycle!vars)
  BY <1>19, RecordsKept DEF CounterAdd, recVars
<1>20. ASSUME NEW t \in Tasks, GaugeLoad(t)
      PROVE  [Lifecycle!Next]_(Lifecycle!vars)
  BY <1>20, RecordsKept DEF GaugeLoad, recVars
<1>21. ASSUME NEW t \in Tasks, GaugePublish(t)
      PROVE  [Lifecycle!Next]_(Lifecycle!vars)
  BY <1>21, RecordsKept DEF GaugePublish, recVars
<1>22. CASE UNCHANGED vars
  BY <1>22, RecordsKept DEF vars, recVars
<1>. QED
  BY <1>1, <1>2, <1>3, <1>4, <1>5, <1>6, <1>7, <1>8, <1>9, <1>10, <1>11,
     <1>12, <1>13, <1>14, <1>15, <1>16, <1>17, <1>18, <1>19, <1>20, <1>21, <1>22
     DEF Next, WorkerStep, HandlerStep, CleanerStep, MetricStep

-----------------------------------------------------------------------------
(* The theorems.                                                           *)

\* The inductive invariant: the properties and what they rest on.
Inv ==
    /\ TypeOK
    /\ TaskInv
    /\ RecordInv
    /\ TerminalRecords
    /\ CleanupInv
    /\ ReadyOnlyWhenComplete
    /\ HandlerInv
    /\ CountersConserved

\* The manager starts out in the invariant.
LEMMA InitInv == Init => Inv
<1> SUFFICES ASSUME Init PROVE Inv
  OBVIOUS
<1>1. TypeOK
  BY InitType
<1>2. TaskInv /\ RecordInv /\ TerminalRecords /\ CleanupInv
  BY StreamStateAssumption
     DEF Init, TaskInv, RecordInv, TerminalRecords, CleanupInv, Tasks
<1>3. ReadyOnlyWhenComplete /\ HandlerInv
  BY DEF Init, ReadyOnlyWhenComplete, HandlerInv, Tasks
<1>4. CountersConserved
  <2>1. ASSUME NEW x \in States
        PROVE  Tally(state, x) = 0 /\ Tally(sub, x) = 0 /\ Tally(add, x) = 0
    <3>1. x # "Absent" /\ x # None
      BY StreamStateAssumption DEF States
    <3>2. /\ {i \in DOMAIN state : state[i] = x} = {}
          /\ {i \in DOMAIN sub : sub[i] = x} = {}
          /\ {i \in DOMAIN add : add[i] = x} = {}
      BY <3>1 DEF Init
    <3>. QED  BY <3>2, FS_EmptySet DEF Tally
  <2>. QED  BY <2>1 DEF Init, CountersConserved
<1>. QED  BY <1>1, <1>2, <1>3, <1>4 DEF Inv

\* Every step of every task keeps the invariant.
LEMMA StepInv == Inv /\ [Next]_vars => Inv'
BY TypeStep, TaskStep, RecordStep, TerminalStep, CleanupStep, ReadyStep,
CounterStep
   DEF Inv

\* The inductive invariant holds throughout.
LEMMA Invariance == Spec => []Inv
BY InitInv, StepInv, PTL DEF Spec

\* The manager's state stays within its types.
THEOREM TypeCorrect == Spec => []TypeOK
<1>1. Inv => TypeOK
  BY DEF Inv
<1>. QED  BY <1>1, Invariance, PTL

\* Whatever the number of concurrent calls, state_counts (state.rs) differs
\* from the true number of records per state by exactly the updates still owed
\* and the records overwritten by create_stream().
THEOREM CountersAreConserved == Spec => []CountersConserved
<1>1. Inv => CountersConserved
  BY DEF Inv
<1>. QED  BY <1>1, Invariance, PTL

\* A READY stream has all the renditions that one of its transcoders announced,
\* although mark_rendition_complete() decides and transitions in two critical
\* sections and other transcoders may announce other numbers in between.
THEOREM ReadyIsComplete == Spec => []ReadyOnlyWhenComplete
<1>1. Inv => ReadyOnlyWhenComplete
  BY DEF Inv
<1>. QED  BY <1>1, Invariance, PTL

\* ended_at and error_message agree with the state on every path.
THEOREM TerminalRecordsAgree == Spec => []TerminalRecords
<1>1. Inv => TerminalRecords
  BY DEF Inv
<1>. QED  BY <1>1, Invariance, PTL

\* The manager and its callers implement the documented life cycle.
THEOREM LifecycleImplemented == Spec => ImplementsLifecycle
<1>1. Init => Lifecycle!Init
  <2> SUFFICES ASSUME Init PROVE Lifecycle!Init
    OBVIOUS
  <2>1. Packaged = {}
    BY DEF Init, Packaged, AllComplete
  <2>. QED  BY <2>1 DEF Init, Lifecycle!Init, Packaged
<1>2. Inv /\ [Next]_vars => [Lifecycle!Next]_(Lifecycle!vars)
  BY LifecycleStep DEF Inv
<1>. QED  BY <1>1, <1>2, Invariance, PTL
   DEF Spec, ImplementsLifecycle, Lifecycle!Spec
=============================================================================
