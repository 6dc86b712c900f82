---------------------------- MODULE ShutdownProofs ----------------------------
(***************************************************************************)
(* Proofs about Shutdown, for any number of streams and all timeouts that  *)
(* stand to each other as those of the code.                               *)
(***************************************************************************)
EXTENDS Shutdown, TLAPS

-----------------------------------------------------------------------------
(* The inductive invariant.                                                *)

TaskNames == {"events", "cleanup", "rtmp", "http", "periodic"}

Records == {"Absent", "Pending", "Live", "Processing", "Ready", "Error"}

Types ==
    /\ phase \in {"serving", "ingest", "transcode", "flush", "join", "returned", "exited"}
    /\ elapsed \in Nat /\ waited \in 0..elapsed
    /\ awaiting \in 1..6
    /\ phase # "returned" /\ phase # "exited" => awaiting \in 1..5
    /\ task \in [TaskNames -> {"running", "stopped", "aborted"}]
    /\ busy \subseteq {"cleanup", "http"}
    /\ events \in Seq([kind : {"Started", "Ended", "Error", "Complete"}, stream : Streams])
    /\ record \in [Streams -> Records]
    /\ conn \in [Streams -> {"none", "accepted", "publishing", "Ended", "Error", "closed"}]

\* A connection that has not published has no record.
NoRecordYet ==
    \A s \in Streams : conn[s] \in {"none", "accepted"} => record[s] = "Absent"

\* Time passes only when the event handler has stopped: from then on no record
\* moves, and a wait that has lasted goes on to its limit.
Frozen ==
    /\ elapsed > 0 => task["events"] # "running"
    /\ phase = "ingest" /\ waited > 0 => \E s \in Streams : record[s] = "Live"

\* Records only move on from where they were at the signal.
MovesOn ==
    /\ phase = "serving" => elapsed = 0 /\ DOMAIN atSignal = {}
    /\ DOMAIN atSignal \subseteq Streams
    /\ \A s \in DOMAIN atSignal :
          /\ atSignal[s] = "Live" => record[s] \in {"Live", "Processing", "Ready", "Error"}
          /\ atSignal[s] = "Processing" => record[s] \in {"Processing", "Ready", "Error"}

\* The exit code is set when main() returns.
CodeInv ==
    /\ Alive => code = NoCode
    /\ code \in {0, 1, NoCode}

\* The first wait lasts to its limit or not at all; what the other waits and
\* the joins of the two tasks that may be busy have used up so far.
Budget ==
    ~ingestStuck =>
        /\ code # 1
        /\ phase = "ingest" => elapsed = waited /\ waited <= IngestDrain
        /\ phase = "transcode" => elapsed = waited /\ waited <= TranscodeDrain
        /\ phase = "flush" => waited <= StorageFlush /\ elapsed <= TranscodeDrain + waited
        /\ phase = "join" =>
              /\ waited <= HttpDrain
              /\ waited > 0 => awaiting \in {2, 4}
              /\ awaiting <= 2 => elapsed <= TranscodeDrain + StorageFlush + waited
              /\ awaiting \in {3, 4} =>
                    elapsed <= TranscodeDrain + StorageFlush + HttpDrain + waited
              /\ awaiting >= 5 => elapsed <= TranscodeDrain + StorageFlush + 2 * HttpDrain

\* A record that is still LIVE after the first wait, or still PROCESSING after
\* the second, has been given its time.
TimeGiven ==
    \A s \in DOMAIN atSignal :
        /\ atSignal[s] = "Live" /\ record[s] = "Live" =>
              /\ phase \in {"transcode", "flush"} => elapsed >= IngestDrain + waited
              /\ phase = "join" => elapsed >= IngestDrain + StorageFlush
              /\ code = 0 => elapsed >= IngestDrain + StorageFlush
        /\ atSignal[s] = "Processing" /\ record[s] = "Processing" =>
              /\ phase = "flush" => elapsed >= TranscodeDrain + waited
              /\ phase = "join" => elapsed >= TranscodeDrain + StorageFlush
              /\ code = 0 => elapsed >= TranscodeDrain + StorageFlush

Inv == Types /\ NoRecordYet /\ Frozen /\ MovesOn /\ CodeInv /\ Budget /\ TimeGiven

-----------------------------------------------------------------------------
(* Facts about the constants.                                              *)

\* The background tasks in the order of their joins.
LEMMA TheTasks ==
    /\ Len(Tasks) = 5
    /\ {Tasks[i] : i \in DOMAIN Tasks} = TaskNames
    /\ \A i \in 1..5 : /\ Tasks[i] \in TaskNames
                       /\ Tasks[i] \in {"cleanup", "http"} <=> i \in {2, 4}
BY DEF Tasks, TaskNames

\* The two waits.
LEMMA TheWaits ==
    /\ DOMAIN Draining = {"ingest", "transcode"}
    /\ Draining["ingest"].state = "Live" /\ Draining["ingest"].limit = IngestDrain
    /\ Draining["ingest"].next = "transcode"
    /\ Draining["transcode"].state = "Processing"
    /\ Draining["transcode"].limit = TranscodeDrain
    /\ Draining["transcode"].next = "flush"
BY DEF Draining

\* The timeouts are numbers, ordered as in the code.
LEMMA TheTimes ==
    /\ IngestDrain \in Nat \ {0} /\ TranscodeDrain \in Nat \ {0}
    /\ StorageFlush \in Nat \ {0} /\ HttpDrain \in Nat \ {0} /\ Total \in Nat \ {0}
    /\ IngestDrain < Total
    /\ TranscodeDrain + StorageFlush + 2 * HttpDrain < Total
BY ShutdownAssumption

-----------------------------------------------------------------------------
(* The steps.                                                              *)

\* Everything that runs beside main().
Beside ==
    \/ \E s \in Streams :
          \/ Accept(s) \/ Publish(s) \/ LeaveLoop(s) \/ ReportEnd(s) \/ Complete(s)
          \/ EncoderEnds(s)
    \/ HandleEvent
    \/ \E t \in DOMAIN task : Begin(t) \/ End(t) \/ Stop(t)

Message == [kind : {"Started", "Ended", "Error", "Complete"}, stream : Streams]

\* A send keeps the type of the queue.
LEMMA SendTypes ==
    ASSUME events \in Seq(Message), NEW s \in Streams,
           NEW k \in {"Started", "Ended", "Error", "Complete"}, Send(k, s)
    PROVE  events' \in Seq(Message)
<1>1. [kind |-> k, stream |-> s] \in Message
  BY DEF Message
<1>. QED  BY <1>1 DEF Send

\* Records move only forward, and only while the event handler runs, but for
\* the record that a publishing connection creates.
Forward ==
    /\ UNCHANGED mainVars
    /\ Types' /\ NoRecordYet'
    /\ \A s \in Streams :
          \/ record'[s] = record[s]
          \/ record[s] = "Absent" /\ record'[s] = "Pending"
          \/ task["events"] = "running" /\ record'[s] = "Live" /\ record[s] = "Pending"
          \/ task["events"] = "running" /\ record'[s] = "Processing" /\ record[s] = "Live"
          \/ task["events"] = "running" /\ record'[s] \in {"Ready", "Error"}
    /\ task["events"] # "running" => task'["events"] # "running"

\* So it is with all that runs beside main().
LEMMA BesideRecords ==
    ASSUME Types, NoRecordYet, Beside
    PROVE  Forward
<1> USE DEF mainVars, streamVars, Forward
<1>0. events \in Seq(Message)
  BY DEF Types, Message
<1>1. ASSUME NEW s \in Streams, Accept(s)
      PROVE  Forward
  BY <1>1 DEF Accept, Types, NoRecordYet
<1>2. ASSUME NEW s \in Streams, Publish(s)
      PROVE  Forward
  <2>1. events' \in Seq(Message)
    BY <1>0, <1>2, SendTypes DEF Publish
  <2>2. record[s] = "Absent"
    BY <1>2 DEF Publish, NoRecordYet
  <2>3. /\ record' = [record EXCEPT ![s] = "Pending"]
        /\ conn' = [conn EXCEPT ![s] = "publishing"]
        /\ UNCHANGED <<mainVars, task, busy>>
    BY <1>2 DEF Publish
  <2>4. NoRecordYet'
    BY <2>3 DEF NoRecordYet, Types
  <2>5. Types'
    BY <2>1, <2>3 DEF Types, Message, Records
  <2>. QED  BY <2>2, <2>3, <2>4, <2>5 DEF Types
<1>3. ASSUME NEW s \in Streams, LeaveLoop(s)
      PROVE  Forward
  BY <1>3 DEF LeaveLoop, Types, NoRecordYet
<1>4. ASSUME NEW s \in Streams, ReportEnd(s)
      PROVE  Forward
  <2>1. events' \in Seq(Message)
    BY <1>0, <1>4, SendTypes DEF ReportEnd
  <2>2. /\ conn' = [conn EXCEPT ![s] = "closed"]
        /\ UNCHANGED <<mainVars, task, busy, record>>
    BY <1>4 DEF ReportEnd
  <2>. QED  BY <2>1, <2>2 DEF Types, NoRecordYet, Message
<1>5. ASSUME NEW s \in Streams, Complete(s)
      PROVE  Forward
  <2>1. events' \in Seq(Message)
    BY <1>0, <1>5, SendTypes DEF Complete
  <2>2. UNCHANGED <<mainVars, task, busy, conn, record>>
    BY <1>5 DEF Complete
  <2>. QED  BY <2>1, <2>2 DEF Types, NoRecordYet, Message
<1>6. ASSUME NEW s \in Streams, EncoderEnds(s)
      PROVE  Forward
  BY <1>6 DEF EncoderEnds, Types, NoRecordYet
<1>7. ASSUME HandleEvent
      PROVE  Forward
  <2> DEFINE e == Head(events)
  <2>1. e \in Message /\ events' \in Seq(Message) /\ task["events"] = "running"
    BY <1>0, <1>7 DEF HandleEvent
  <2>2. e.stream \in Streams /\ record[e.stream] \in Records
    BY <2>1 DEF Message, Types
  <2>3. /\ record' = [record EXCEPT ![e.stream] = After(e.kind, @)]
        /\ UNCHANGED <<mainVars, task, busy, conn>>
    BY <1>7 DEF HandleEvent
  <2>4. /\ After(e.kind, record[e.stream]) \in Records
        /\ record[e.stream] = "Absent" => After(e.kind, record[e.stream]) = "Absent"
        /\ \/ After(e.kind, record[e.stream]) = record[e.stream]
           \/ After(e.kind, record[e.stream]) = "Live" /\ record[e.stream] = "Pending"
           \/ After(e.kind, record[e.stream]) = "Processing" /\ record[e.stream] = "Live"
           \/ After(e.kind, record[e.stream]) \in {"Ready", "Error"}
    BY <2>2 DEF After, Records
  <2>5. Types'
    BY <2>1, <2>2, <2>3, <2>4 DEF Types, Message
  <2>6. NoRecordYet'
    BY <2>2, <2>3, <2>4 DEF NoRecordYet, Types
  <2>. QED  BY <2>1, <2>2, <2>3, <2>4, <2>5, <2>6 DEF Types
<1>8. ASSUME NEW t \in DOMAIN task, Begin(t) \/ End(t)
      PROVE  Forward
  BY <1>8 DEF Begin, End, Types, NoRecordYet
<1>9. ASSUME NEW t \in DOMAIN task, Stop(t)
      PROVE  Forward
  <2>1. events' \in Seq(Message)
    BY <1>0, <1>9 DEF Stop
  <2>2. /\ task' = [task EXCEPT ![t] = "stopped"]
        /\ UNCHANGED <<mainVars, busy, conn, record>>
    BY <1>9 DEF Stop
  <2>3. task' \in [TaskNames -> {"running", "stopped", "aborted"}]
    BY <2>2 DEF Types
  <2>4. task["events"] # "running" => task'["events"] # "running"
    BY <2>2 DEF Types, TaskNames
  <2>. QED  BY <2>1, <2>2, <2>3, <2>4 DEF Types, NoRecordYet, Message
<1>. QED
  BY <1>1, <1>2, <1>3, <1>4, <1>5, <1>6, <1>7, <1>8, <1>9 DEF Beside

\* What runs beside main() keeps the invariant.
LEMMA BesideStep ==
    ASSUME Inv, Beside
    PROVE  Inv'
<1>1. Forward
  BY BesideRecords DEF Inv
<1>2. UNCHANGED <<phase, elapsed, waited, awaiting, code, atSignal, ingestStuck>>
  BY <1>1 DEF Forward, mainVars
<1>3. Frozen'
  <2>1. waited > 0 => elapsed > 0
    BY DEF Inv, Types
  <2>. QED  BY <1>1, <1>2, <2>1 DEF Forward, Inv, Frozen
<1>4. MovesOn'
  BY <1>1, <1>2 DEF Forward, Inv, MovesOn
<1>5. CodeInv' /\ Budget'
  BY <1>2 DEF Inv, CodeInv, Budget, Alive, NoCode
<1>6. TimeGiven'
  <2>1. \A s \in DOMAIN atSignal :
           /\ atSignal[s] = "Live" /\ record'[s] = "Live" => record[s] = "Live"
           /\ atSignal[s] = "Processing" /\ record'[s] = "Processing" =>
                 record[s] = "Processing"
    BY <1>1 DEF Forward, Inv, MovesOn
  <2>. QED  BY <1>2, <2>1 DEF Inv, TimeGiven
<1>. QED  BY <1>1, <1>3, <1>4, <1>5, <1>6 DEF Forward, Inv

\* The signal: the first wait begins, and no time has passed.
LEMMA SignalStep ==
    ASSUME Inv, Signal
    PROVE  Inv'
<1>1. /\ phase = "serving" /\ phase' = "ingest" /\ waited' = 0
      /\ atSignal' = [s \in {r \in Streams : record[r] \in {"Live", "Processing"}} |-> record[s]]
      /\ UNCHANGED <<elapsed, awaiting, code, ingestStuck, task, busy, conn, events, record>>
  BY DEF Signal, streamVars
<1>2. elapsed = 0 /\ code = NoCode
  BY <1>1 DEF Inv, MovesOn, CodeInv, Alive
<1>3. Types' /\ NoRecordYet' /\ Frozen'
  BY <1>1, <1>2 DEF Inv, Types, NoRecordYet, Frozen
<1>4. MovesOn'
  BY <1>1 DEF MovesOn
<1>5. CodeInv' /\ Budget'
  BY <1>1, <1>2, TheTimes DEF CodeInv, Budget, Alive, NoCode
<1>6. TimeGiven'
  BY <1>1, <1>2 DEF TimeGiven, NoCode
<1>. QED  BY <1>3, <1>4, <1>5, <1>6 DEF Inv

\* Time passes in one of the waits.
LEMMA TickStep ==
    ASSUME Inv, Tick
    PROVE  Inv'
<1>1. /\ phase \in {"ingest", "transcode", "flush", "join"}
      /\ elapsed' = elapsed + 1 /\ waited' = waited + 1 /\ waited < Limit
      /\ UNCHANGED <<phase, awaiting, code, atSignal, ingestStuck, task, busy, conn,
                     events, record>>
  BY DEF Tick, Alive, Cancelled, Inv, Types, streamVars
<1>2. \A t \in TaskNames : task[t] = "running" => t \in busy
  BY DEF Tick, Inv, Types
<1>3. task["events"] # "running"
  BY <1>2 DEF Inv, Types, TaskNames
<1>4. Types' /\ NoRecordYet'
  BY <1>1 DEF Inv, Types, NoRecordYet
<1>5. Frozen'
  <2>1. phase = "ingest" => \E s \in Streams : record[s] = "Live"
    BY TheWaits DEF Tick, Remaining
  <2>. QED  BY <1>1, <1>3, <2>1 DEF Frozen
<1>6. MovesOn' /\ CodeInv'
  BY <1>1 DEF Inv, MovesOn, CodeInv, Alive, NoCode
<1>7. /\ phase = "ingest" => Limit = IngestDrain
      /\ phase = "transcode" => Limit = TranscodeDrain
      /\ phase = "flush" => Limit = StorageFlush
      /\ phase = "join" => Limit = HttpDrain
  BY <1>1, TheWaits DEF Limit
<1>8. phase = "join" => awaiting \in {2, 4}
  <2>1. phase = "join" => awaiting \in 1..5 /\ task[Tasks[awaiting]] = "running"
    BY DEF Tick, Inv, Types
  <2>2. phase = "join" => Tasks[awaiting] \in busy
    BY <1>2, <2>1, TheTasks
  <2>. QED  BY <2>1, <2>2, TheTasks DEF Inv, Types
<1>9. Budget'
  <2>1. elapsed \in Nat /\ waited \in Nat
    BY DEF Inv, Types
  <2>2. CASE phase = "ingest"
    BY <1>1, <1>7, <2>1, <2>2, TheTimes DEF Inv, Budget
  <2>3. CASE phase = "transcode"
    BY <1>1, <1>7, <2>1, <2>3, TheTimes DEF Inv, Budget
  <2>4. CASE phase = "flush"
    BY <1>1, <1>7, <2>1, <2>4, TheTimes DEF Inv, Budget
  <2>5. CASE phase = "join"
    BY <1>1, <1>7, <1>8, <2>1, <2>5, TheTimes DEF Inv, Budget
  <2>. QED  BY <1>1, <2>2, <2>3, <2>4, <2>5
<1>10. TimeGiven'
  <2>1. code = NoCode /\ elapsed \in Nat /\ waited \in Nat
    BY <1>1 DEF Inv, CodeInv, Alive, Types
  <2>. QED  BY <1>1, <2>1, TheTimes DEF Inv, TimeGiven, NoCode
<1>. QED  BY <1>4, <1>5, <1>6, <1>9, <1>10 DEF Inv

\* A wait for the records is over, because they are gone or its time is up.
LEMMA DrainStep ==
    ASSUME Inv, DrainCompletes \/ DrainTimesOut
    PROVE  Inv'
<1>1. /\ phase \in {"ingest", "transcode"} /\ phase' = Draining[phase].next /\ waited' = 0
      /\ UNCHANGED <<elapsed, awaiting, code, atSignal, task, busy, conn, events, record>>
  <2>1. CASE DrainCompletes  BY <2>1 DEF DrainCompletes, streamVars
  <2>2. CASE DrainTimesOut   BY <2>2 DEF DrainTimesOut, streamVars
  <2>. QED  BY <2>1, <2>2
<1>2. \/ Remaining = {} /\ ingestStuck' = ingestStuck
      \/ /\ Remaining # {} /\ waited >= Draining[phase].limit
         /\ ingestStuck' = (ingestStuck \/ phase = "ingest")
  BY DEF DrainCompletes, DrainTimesOut
<1>0. ~ingestStuck' => ~ingestStuck
  BY <1>2
<1>3. /\ phase = "ingest" => phase' = "transcode"
      /\ phase = "transcode" => phase' = "flush"
  BY <1>1, TheWaits
<1>4. /\ elapsed \in Nat /\ waited \in 0..elapsed /\ code = NoCode
  BY <1>1 DEF Inv, Types, CodeInv, Alive
<1>5. /\ phase = "ingest" => Remaining = {s \in Streams : record[s] = "Live"}
      /\ phase = "transcode" => Remaining = {s \in Streams : record[s] = "Processing"}
  BY TheWaits DEF Remaining
<1>6. Types' /\ NoRecordYet' /\ Frozen' /\ MovesOn' /\ CodeInv'
  BY <1>1, <1>3, <1>4
     DEF Inv, Types, NoRecordYet, Frozen, MovesOn, CodeInv, Alive, NoCode
<1>7. Budget'
  <2>1. CASE phase = "ingest"
    <3>1. CASE Remaining = {}
      <4>1. ~(waited > 0)
        BY <1>5, <2>1, <3>1 DEF Inv, Frozen
      <4>2. ~ingestStuck' => elapsed = 0
        BY <1>0, <1>1, <1>4, <2>1, <4>1 DEF Inv, Budget
      <4>. QED  BY <1>1, <1>3, <1>4, <2>1, <4>2, TheTimes DEF Budget, NoCode
    <3>2. CASE Remaining # {}
      BY <1>2, <2>1, <3>2 DEF Budget
    <3>. QED  BY <3>1, <3>2
  <2>2. CASE phase = "transcode"
    BY <1>0, <1>1, <1>3, <1>4, <2>2, TheTimes DEF Inv, Budget, NoCode
  <2>. QED  BY <1>1, <2>1, <2>2
<1>8. TimeGiven'
  <2>1. CASE phase = "ingest"
    <3>1. \A s \in DOMAIN atSignal : record[s] = "Live" => elapsed >= IngestDrain
      BY <1>2, <1>4, <1>5, <2>1, TheWaits, TheTimes DEF Inv, MovesOn
    <3>. QED  BY <1>1, <1>3, <1>4, <2>1, <3>1, TheTimes DEF TimeGiven, NoCode
  <2>2. CASE phase = "transcode"
    <3>1. \A s \in DOMAIN atSignal : record[s] = "Processing" => elapsed >= TranscodeDrain
      BY <1>2, <1>4, <1>5, <2>2, TheWaits, TheTimes DEF Inv, MovesOn
    <3>2. \A s \in DOMAIN atSignal :
             atSignal[s] = "Live" /\ record[s] = "Live" => elapsed >= IngestDrain
      BY <1>4, <2>2, TheTimes DEF Inv, TimeGiven
    <3>. QED  BY <1>1, <1>3, <1>4, <2>2, <3>1, <3>2, TheTimes DEF TimeGiven, NoCode
  <2>. QED  BY <1>1, <2>1, <2>2
<1>. QED  BY <1>6, <1>7, <1>8 DEF Inv

\* The sleep is over.
LEMMA FlushStep ==
    ASSUME Inv, FlushEnds
    PROVE  Inv'
<1>1. /\ phase = "flush" /\ waited >= StorageFlush /\ phase' = "join" /\ waited' = 0
      /\ UNCHANGED <<elapsed, awaiting, code, atSignal, ingestStuck, task, busy, conn,
                     events, record>>
  BY DEF FlushEnds, streamVars
<1>2. elapsed \in Nat /\ waited \in 0..elapsed /\ awaiting \in 1..5 /\ code = NoCode
  BY <1>1 DEF Inv, Types, CodeInv, Alive
<1>3. Types' /\ NoRecordYet' /\ Frozen' /\ MovesOn' /\ CodeInv'
  BY <1>1, <1>2 DEF Inv, Types, NoRecordYet, Frozen, MovesOn, CodeInv, Alive, NoCode
<1>4. Budget'
  BY <1>1, <1>2, TheTimes DEF Inv, Budget, NoCode
<1>5. TimeGiven'
  BY <1>1, <1>2, TheTimes DEF Inv, TimeGiven, NoCode
<1>. QED  BY <1>3, <1>4, <1>5 DEF Inv

\* A task is joined, or aborted when its time is up; the last one ends main().
LEMMA JoinStep ==
    ASSUME Inv, Joined \/ JoinTimesOut
    PROVE  Inv'
<1>1. /\ phase = "join" /\ waited' = 0 /\ awaiting' = awaiting + 1
      /\ IF awaiting = 5 THEN phase' = "returned" /\ code' = 0 ELSE UNCHANGED <<phase, code>>
      /\ UNCHANGED <<elapsed, atSignal, ingestStuck, busy, conn, record>>
  BY TheTasks DEF Joined, JoinTimesOut, NextTask
<1>2. elapsed \in Nat /\ waited \in 0..elapsed /\ awaiting \in 1..5 /\ code = NoCode
  BY <1>1 DEF Inv, Types, CodeInv, Alive
<1>3. /\ task' \in [TaskNames -> {"running", "stopped", "aborted"}]
      /\ task["events"] # "running" => task'["events"] # "running"
  BY <1>2, TheTasks DEF Joined, JoinTimesOut, Inv, Types, TaskNames
<1>4. events' \in Seq(Message)
  <2>1. events \in Seq(Message)  BY DEF Inv, Types, Message
  <2>2. CASE events' = <<>>      BY <2>2
  <2>3. CASE events' = events    BY <2>1, <2>3
  <2>. QED  BY <2>2, <2>3 DEF Joined, JoinTimesOut
<1>5. Types' /\ NoRecordYet' /\ Frozen' /\ MovesOn' /\ CodeInv'
  BY <1>1, <1>2, <1>3, <1>4
     DEF Inv, Types, NoRecordYet, Frozen, MovesOn, CodeInv, Alive, NoCode, Message
<1>6. Budget'
  BY <1>1, <1>2, TheTimes DEF Inv, Budget, NoCode
<1>7. TimeGiven'
  BY <1>1, <1>2, TheTimes DEF Inv, TimeGiven, NoCode
<1>. QED  BY <1>5, <1>6, <1>7 DEF Inv

\* The timeout of the whole strikes, which needs a first wait without success.
LEMMA ForceStep ==
    ASSUME Inv, ForceExit
    PROVE  Inv'
<1>1. /\ phase \in {"ingest", "transcode", "flush", "join"} /\ elapsed >= Total
      /\ phase' = "returned" /\ code' = 1
      /\ UNCHANGED <<elapsed, waited, awaiting, atSignal, ingestStuck, task, busy, conn,
                     events, record>>
  BY DEF ForceExit, Alive, Cancelled, Inv, Types, streamVars
<1>2. elapsed \in Nat /\ waited \in 0..elapsed /\ awaiting \in 1..5
  BY <1>1 DEF Inv, Types
<1>3. ingestStuck
  <2>1. CASE phase = "ingest"
    BY <1>1, <1>2, <2>1, TheTimes DEF Inv, Budget
  <2>2. CASE phase = "transcode"
    BY <1>1, <1>2, <2>2, TheTimes DEF Inv, Budget
  <2>3. CASE phase = "flush"
    BY <1>1, <1>2, <2>3, TheTimes DEF Inv, Budget
  <2>4. CASE phase = "join"
    BY <1>1, <1>2, <2>4, TheTimes DEF Inv, Budget
  <2>. QED  BY <1>1, <2>1, <2>2, <2>3, <2>4
<1>4. Types' /\ NoRecordYet' /\ Frozen' /\ MovesOn' /\ CodeInv'
  BY <1>1, <1>2 DEF Inv, Types, NoRecordYet, Frozen, MovesOn, CodeInv, Alive, NoCode
<1>5. Budget' /\ TimeGiven'
  BY <1>1, <1>3 DEF Budget, TimeGiven
<1>. QED  BY <1>4, <1>5 DEF Inv

\* The process is gone, and keeps its code.
LEMMA ExitStep ==
    ASSUME Inv, Exit \/ UNCHANGED vars
    PROVE  Inv'
<1>1. CASE Exit
  <2>1. /\ phase = "returned" /\ phase' = "exited"
        /\ UNCHANGED <<elapsed, waited, awaiting, code, atSignal, ingestStuck, task, busy,
                       conn, events, record>>
    BY <1>1 DEF Exit, streamVars
  <2>2. Types' /\ NoRecordYet' /\ Frozen' /\ MovesOn' /\ CodeInv'
    BY <2>1 DEF Inv, Types, NoRecordYet, Frozen, MovesOn, CodeInv, Alive, NoCode
  <2>3. Budget' /\ TimeGiven'
    BY <2>1 DEF Inv, Budget, TimeGiven
  <2>. QED  BY <2>2, <2>3 DEF Inv
<1>2. CASE UNCHANGED vars
  BY <1>2 DEF vars, mainVars, streamVars, Inv, Types, NoRecordYet, Frozen, MovesOn,
              CodeInv, Budget, TimeGiven, Alive, NoCode
<1>. QED  BY <1>1, <1>2

-----------------------------------------------------------------------------
(* The theorems.                                                           *)

\* The program serves, and there are no streams.
LEMMA InitInv == Init => Inv
<1>. SUFFICES ASSUME Init PROVE Inv
  OBVIOUS
<1>1. Types
  BY TheTasks DEF Init, Types, TaskNames, Records
<1>2. NoRecordYet /\ Frozen /\ MovesOn /\ CodeInv /\ Budget /\ TimeGiven
  BY DEF Init, NoRecordYet, Frozen, MovesOn, CodeInv, Budget, TimeGiven, Alive, NoCode
<1>. QED  BY <1>1, <1>2 DEF Inv

\* Every step keeps the invariant.
LEMMA StepInv == Inv /\ [Next]_vars => Inv'
BY BesideStep, SignalStep, TickStep, DrainStep, FlushStep, JoinStep, ForceStep, ExitStep
   DEF Next, Main, Beside

\* So it holds for ever.
LEMMA Invariance == Spec => []Inv
BY InitInv, StepInv, PTL DEF Spec

\* The exit is forced only when a LIVE record did not go away, for any number of
\* streams: transcodes, a cleanup cycle and a request that never end are not
\* enough, with timeouts related as those of the code.
THEOREM ForcedExitNeedsStuckIngest == Spec => []ForcedExitMeansIngestStuck
<1>1. Inv => ForcedExitMeansIngestStuck
  BY DEF Inv, Budget, ForcedExitMeansIngestStuck
<1>. QED  BY <1>1, Invariance, PTL

\* An orderly exit with a record still LIVE or PROCESSING as at the signal has
\* given it all the time of its wait.
THEOREM StreamsAreGivenTheirTime == Spec => []StreamsGetTheirTime
<1>1. Inv => StreamsGetTheirTime
  BY DEF Inv, TimeGiven, StreamsGetTheirTime
<1>. QED  BY <1>1, Invariance, PTL

=============================================================================
