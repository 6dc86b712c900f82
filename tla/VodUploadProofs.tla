--------------------------- MODULE VodUploadProofs ---------------------------
(***************************************************************************)
(* Proofs about VodUpload, for any ladders, file sizes and channel         *)
(* capacities, with and without ffmpeg.                                    *)
(***************************************************************************)
EXTENDS VodUpload, FiniteSetTheorems, TLAPS

-----------------------------------------------------------------------------
(* The inductive invariant.                                                *)

Message ==
    [type : {"StreamError"}] \cup [type : {"RenditionComplete"}, rendition : Ids]

\* What travels through the pipeline belongs to the renditions of the source.
Types ==
    /\ ffmpeg \in BOOLEAN
    /\ ladder \in Ladders
    /\ chunks \in Nat /\ unread \in Nat
    /\ segments \in Seq(Ids)
    /\ events \in Seq(Message)
    /\ complete \subseteq Ids
    /\ buffered \subseteq Rungs

\* Until the upload is accepted there is no transcoder, and without one there
\* is no pipeline and no record.
NothingBefore ==
    /\ handler \in {"idle", "receiving", "probing", "dropped"} => transcoder = "off"
    /\ transcoder = "off" =>
          /\ feeder = "off"
          /\ record = "Absent" /\ expected = 0 /\ complete = {}
          /\ buffered = {} /\ segments = <<>> /\ events = <<>>

\* Afterwards there is a feeder, unless ffmpeg reads the file.
Tasks == transcoder # "off" => (ffmpeg <=> feeder = "off")

\* The request owns the file while it runs.
RequestHasFile == handler \in {"receiving", "probing"} => file = "there"

\* As long as nobody is to blame, somebody is still going to remove the file.
FileHasOwner ==
    blame = "nobody" /\ file = "there" =>
        handler \in {"receiving", "probing"} \/ feeder \in {"opening", "reading", "removing"}

\* A task that ended in order has seen the whole file.
EndedHasRead ==
    /\ feeder \in {"removing", "ended"} => unread = 0
    /\ ffmpeg /\ transcoder = "ended" => unread = 0

ErrorQueued == \E i \in DOMAIN events : events[i].type = "StreamError"

\* A failure that was reported is queued or has reached the record.
ErrorPrevails ==
    feeder = "reported" \/ transcoder = "reported" =>
        record \in {"ERROR", "DELETED"} \/ ErrorQueued

\* A READY record has as many complete renditions as the transcoder announced.
ReadyHasAll ==
    /\ expected \in {0, Cardinality(Rungs)}
    /\ record = "READY" => expected > 0 /\ Cardinality(complete) >= expected

Inv ==
    /\ Types /\ NothingBefore /\ Tasks
    /\ RequestHasFile /\ ReaderHasFile /\ FileHasOwner
    /\ EndedHasRead /\ ErrorPrevails /\ ReadyHasAll

-----------------------------------------------------------------------------
(* The renditions.                                                         *)

\* Rungs may share an identifier, so there are no more identifiers than rungs.
LEMMA RungsFinite ==
    ASSUME ladder \in Ladders
    PROVE  /\ IsFiniteSet(Rungs) /\ Cardinality(Rungs) \in Nat
           /\ IsFiniteSet(Ids) /\ Cardinality(Ids) \in Nat
           /\ Cardinality(Ids) <= Cardinality(Rungs)
<1>1. Len(ladder) \in Nat /\ DOMAIN ladder = 1..Len(ladder)
  BY VodAssumption
<1>2. IsFiniteSet(DOMAIN ladder)
  BY <1>1, FS_Interval
<1>3. IsFiniteSet({Len(ladder)})
  BY FS_Singleton
<1>4. Rungs = {Len(ladder)} \/ Rungs \subseteq DOMAIN ladder
  BY DEF Rungs, Renditions, SelectRenditions
<1>5. IsFiniteSet(Rungs)
  BY <1>2, <1>3, <1>4, FS_Subset
<1>6. Renditions = [i \in Rungs |-> Renditions[i]]
  BY DEF Rungs, Renditions, SelectRenditions
<1>7. Renditions \in Surjection(Rungs, Ids)
  BY <1>6 DEF Ids, Surjection
<1>. QED  BY <1>5, <1>7, FS_Surjection, FS_CardinalityType

-----------------------------------------------------------------------------
(* The tasks and the file.                                                 *)

\* Which task runs, what it has read and who owns the file.
TaskInv ==
    /\ NothingBefore /\ Tasks
    /\ RequestHasFile /\ ReaderHasFile /\ FileHasOwner
    /\ EndedHasRead

\* Every step of the request, the feeder, the transcoder and the control plane
\* keeps the file with those who need it.
LEMMA TaskStep ==
    ASSUME Types, TaskInv, [Next]_vars
    PROVE  TaskInv'
<1> USE DEF requestVars, recordVars, pipelineVars, TaskInv, NothingBefore, Tasks,
            RequestHasFile, ReaderHasFile, FileHasOwner, EndedHasRead
<1>1. ASSUME StartUpload \/ ReceiveEnds \/ ClientDisconnects \/ ProbeFails
      PROVE  TaskInv'
  BY <1>1 DEF StartUpload, ReceiveEnds, ClientDisconnects, ProbeFails, Answer
<1>2. ASSUME ReceiveChunk \/ ReceiveFails \/ ValidateFails
      PROVE  TaskInv'
  BY <1>2 DEF ReceiveChunk, ReceiveFails, ValidateFails, Answer, Cleanup
<1>3. ASSUME NEW height \in Sources, AcceptUpload(height)
      PROVE  TaskInv'
  BY <1>3 DEF AcceptUpload, Answer
<1>4. ASSUME FeederOpens \/ FeedRefused \/ FeedFails \/ FeedEnds
      PROVE  TaskInv'
  BY <1>4 DEF FeederOpens, FeedRefused, FeedFails, FeedEnds
<1>5. ASSUME FeedFrame
      PROVE  TaskInv'
  BY <1>5 DEF FeedFrame
<1>6. ASSUME FeederRemoves
      PROVE  TaskInv'
  BY <1>6 DEF FeederRemoves, Cleanup
<1>7. ASSUME FeederReports \/ TranscoderReports
      PROVE  TaskInv'
  BY <1>7 DEF FeederReports, TranscoderReports, Send
<1>8. ASSUME StartTranscoder
      PROVE  TaskInv'
  BY <1>8 DEF StartTranscoder
<1>9. ASSUME Transcode
      PROVE  TaskInv'
  BY <1>9 DEF Transcode
<1>10. ASSUME TranscodeFails \/ EndTranscoder
      PROVE  TaskInv'
  BY <1>10 DEF TranscodeFails, EndTranscoder, InputEnded
<1>11. ASSUME NEW i \in buffered, FlushTranscoder(i)
      PROVE  TaskInv'
  BY <1>11 DEF FlushTranscoder
<1>12. ASSUME Package
      PROVE  TaskInv'
  BY <1>12 DEF Package
<1>13. ASSUME HandleEvent \/ Delete
      PROVE  TaskInv'
  BY <1>13 DEF HandleEvent, HandleError, HandleComplete, Delete
<1>14. ASSUME UNCHANGED vars
      PROVE  TaskInv'
  BY <1>14 DEF vars
<1>. QED
  BY <1>1, <1>2, <1>3, <1>4, <1>5, <1>6, <1>7, <1>8, <1>9, <1>10, <1>11, <1>12,
     <1>13, <1>14
     DEF Next, Request, Feeder, Transcoder

-----------------------------------------------------------------------------
(* What travels through the pipeline.                                      *)

\* Steps that leave the ladder, the source and all queues alone.
LEMMA QuietTypes ==
    ASSUME Types, UNCHANGED <<ffmpeg, ladder, source, segments, events, complete>>,
           chunks' \in Nat, unread' \in Nat, buffered' \subseteq Rungs
    PROVE  Types'
<1>1. Rungs' = Rungs /\ Ids' = Ids
  BY DEF Rungs, Ids, Renditions, SelectRenditions
<1>. QED  BY <1>1 DEF Types, Message

\* A task sends an event.
LEMMA SendTypes ==
    ASSUME Types, NEW m \in Message, Send(m), segments' \in Seq(Ids),
           UNCHANGED <<ffmpeg, ladder, source, complete, chunks, unread, buffered>>
    PROVE  Types'
<1>1. Rungs' = Rungs /\ Ids' = Ids
  BY DEF Rungs, Ids, Renditions, SelectRenditions
<1>2. events' \in Seq(Message)
  BY DEF Types, Send
<1>. QED  BY <1>1, <1>2 DEF Types, Message

\* Segments, events and complete renditions stay those of the source.
LEMMA TypesStep ==
    ASSUME Types, TaskInv, [Next]_vars
    PROVE  Types'
<1> USE DEF requestVars, recordVars, pipelineVars
<1>0. chunks \in Nat /\ unread \in Nat /\ buffered \subseteq Rungs
  BY DEF Types
<1>1. ASSUME \/ StartUpload \/ ReceiveChunk \/ ReceiveFails \/ ReceiveEnds
             \/ ClientDisconnects \/ ProbeFails \/ ValidateFails
      PROVE  Types'
  BY <1>0, <1>1, QuietTypes
     DEF StartUpload, ReceiveChunk, ReceiveFails, ReceiveEnds, ClientDisconnects,
         ProbeFails, ValidateFails
<1>2. ASSUME NEW height \in Sources, AcceptUpload(height)
      PROVE  Types'
  BY <1>2 DEF AcceptUpload, TaskInv, NothingBefore, Types
<1>3. ASSUME \/ FeederOpens \/ FeedFrame \/ FeedRefused \/ FeedFails \/ FeedEnds
             \/ FeederRemoves
      PROVE  Types'
  BY <1>0, <1>3, QuietTypes
     DEF FeederOpens, FeedFrame, FeedRefused, FeedFails, FeedEnds, FeederRemoves
<1>4. ASSUME FeederReports \/ TranscoderReports
      PROVE  Types'
  <2>1. [type |-> "StreamError"] \in Message /\ segments \in Seq(Ids)
    BY DEF Message, Types
  <2>. QED  BY <1>4, <2>1, SendTypes DEF FeederReports, TranscoderReports
<1>5. ASSUME StartTranscoder \/ EndTranscoder \/ TranscodeFails
      PROVE  Types'
  BY <1>0, <1>5, QuietTypes DEF StartTranscoder, EndTranscoder, TranscodeFails
<1>6. ASSUME Transcode
      PROVE  Types'
  <2>1. unread' \in Nat /\ buffered' \subseteq Rungs
    BY <1>0, <1>6 DEF Transcode
  <2>. QED  BY <1>0, <1>6, <2>1, QuietTypes DEF Transcode
<1>7. ASSUME NEW i \in buffered, FlushTranscoder(i)
      PROVE  Types'
  <2>1. Rungs' = Rungs /\ Ids' = Ids
    BY <1>7 DEF FlushTranscoder, Rungs, Ids, Renditions, SelectRenditions
  <2>2. Renditions[i] \in Ids
    BY <1>0 DEF Ids
  <2>3. segments' \in Seq(Ids)
    BY <1>7, <2>2 DEF FlushTranscoder, Types
  <2>. QED  BY <1>7, <2>1, <2>3 DEF FlushTranscoder, Types, Message
<1>8. ASSUME Package
      PROVE  Types'
  <2>1. Head(segments) \in Ids /\ segments' \in Seq(Ids)
    BY <1>8 DEF Package, Types
  <2>2. [type |-> "RenditionComplete", rendition |-> Head(segments)] \in Message
    BY <2>1 DEF Message
  <2>. QED  BY <1>8, <2>1, <2>2, SendTypes DEF Package
<1>9. ASSUME HandleEvent
      PROVE  Types'
  <2>1. Rungs' = Rungs /\ Ids' = Ids
    BY <1>9 DEF HandleEvent, Rungs, Ids, Renditions, SelectRenditions
  <2>2. Head(events) \in Message /\ events' \in Seq(Message)
    BY <1>9 DEF HandleEvent, Types
  <2>3. complete' \subseteq Ids
    BY <1>9, <2>2 DEF HandleEvent, HandleError, HandleComplete, Types, Message
  <2>. QED  BY <1>9, <2>1, <2>2, <2>3 DEF HandleEvent, Types, Message
<1>10. ASSUME Delete
      PROVE  Types'
  BY <1>0, <1>10, QuietTypes DEF Delete
<1>11. ASSUME UNCHANGED vars
      PROVE  Types'
  BY <1>0, <1>11, QuietTypes DEF vars
<1>. QED
  BY <1>1, <1>2, <1>3, <1>4, <1>5, <1>6, <1>7, <1>8, <1>9, <1>10, <1>11
     DEF Next, Request, Feeder, Transcoder

-----------------------------------------------------------------------------
(* Errors and completion.                                                  *)

\* A failure on its way to the record is not lost, whatever is queued with it.
LEMMA ErrorStep ==
    ASSUME Types, TaskInv, ErrorPrevails, [Next]_vars
    PROVE  ErrorPrevails'
<1> USE DEF requestVars, recordVars, pipelineVars
<1>0. events \in Seq(Message)
  BY DEF Types
<1>1. ASSUME UNCHANGED <<events, record>>,
             feeder' = "reported" => feeder = "reported",
             transcoder' = "reported" => transcoder = "reported"
      PROVE  ErrorPrevails'
  BY <1>1 DEF ErrorPrevails, ErrorQueued
<1>2. ASSUME Request
      PROVE  ErrorPrevails'
  <2>1. CASE \E height \in Sources : AcceptUpload(height)
    BY <2>1 DEF AcceptUpload, TaskInv, NothingBefore, ErrorPrevails
  <2>2. CASE ~ \E height \in Sources : AcceptUpload(height)
    BY <1>1, <1>2, <2>2
       DEF Request, StartUpload, ReceiveChunk, ReceiveFails, ReceiveEnds,
           ClientDisconnects, ProbeFails, ValidateFails
  <2>. QED  BY <2>1, <2>2
<1>3. ASSUME \/ FeederOpens \/ FeedFrame \/ FeedRefused \/ FeedFails \/ FeedEnds
             \/ FeederRemoves \/ StartTranscoder \/ EndTranscoder \/ TranscodeFails
             \/ Transcode \/ \E i \in buffered : FlushTranscoder(i)
      PROVE  ErrorPrevails'
  BY <1>1, <1>3
     DEF FeederOpens, FeedFrame, FeedRefused, FeedFails, FeedEnds, FeederRemoves,
         StartTranscoder, EndTranscoder, TranscodeFails, Transcode, FlushTranscoder
<1>4. ASSUME NEW m \in Message, Send(m), UNCHANGED record,
             \/ m.type = "StreamError"
             \/ UNCHANGED <<feeder, transcoder>>
      PROVE  ErrorPrevails'
  <2>1. /\ \A i \in DOMAIN events : i \in DOMAIN events' /\ events'[i] = events[i]
        /\ Len(events) + 1 \in DOMAIN events' /\ events'[Len(events) + 1] = m
    BY <1>0, <1>4 DEF Send
  <2>2. ErrorQueued => ErrorQueued'
    BY <2>1 DEF ErrorQueued
  <2>3. CASE m.type = "StreamError"
    BY <2>1, <2>3 DEF ErrorPrevails, ErrorQueued
  <2>4. CASE UNCHANGED <<feeder, transcoder>>
    BY <1>4, <2>2, <2>4 DEF ErrorPrevails
  <2>. QED  BY <1>4, <2>3, <2>4
<1>5. ASSUME FeederReports \/ TranscoderReports
      PROVE  ErrorPrevails'
  <2>1. [type |-> "StreamError"] \in Message
    BY DEF Message
  <2>. QED  BY <1>4, <1>5, <2>1 DEF FeederReports, TranscoderReports
<1>6. ASSUME Package
      PROVE  ErrorPrevails'
  <2>1. [type |-> "RenditionComplete", rendition |-> Head(segments)] \in Message
    BY <1>6 DEF Package, Types, Message
  <2>. QED  BY <1>4, <1>6, <2>1 DEF Package
<1>7. ASSUME HandleEvent
      PROVE  ErrorPrevails'
  <2>1. UNCHANGED <<feeder, transcoder>> /\ events # <<>> /\ events' = Tail(events)
    BY <1>7 DEF HandleEvent
  <2>2. record \in {"ERROR", "DELETED"} => record' \in {"ERROR", "DELETED"}
    BY <1>7 DEF HandleEvent, HandleError, HandleComplete
  <2>3. CASE Head(events).type = "StreamError"
    <3>1. record' \in {"ERROR", "DELETED"}
      BY <1>7, <2>3 DEF HandleEvent, HandleError
    <3>. QED  BY <3>1 DEF ErrorPrevails
  <2>4. CASE Head(events).type # "StreamError"
    <3>1. ASSUME NEW i \in DOMAIN events, events[i].type = "StreamError"
          PROVE  i - 1 \in DOMAIN events' /\ events'[i - 1] = events[i]
      <4>1. i # 1
        BY <1>0, <2>1, <2>4, <3>1
      <4>. QED  BY <1>0, <2>1, <4>1
    <3>2. ErrorQueued => ErrorQueued'
      BY <3>1 DEF ErrorQueued
    <3>. QED  BY <2>1, <2>2, <3>2 DEF ErrorPrevails
  <2>. QED  BY <2>3, <2>4
<1>8. ASSUME Delete
      PROVE  ErrorPrevails'
  BY <1>8 DEF Delete, ErrorPrevails
<1>9. ASSUME UNCHANGED vars
      PROVE  ErrorPrevails'
  BY <1>1, <1>9 DEF vars
<1>. QED
  BY <1>2, <1>3, <1>5, <1>6, <1>7, <1>8, <1>9 DEF Next, Feeder, Transcoder

\* The record becomes READY only with all announced renditions, and stays so.
LEMMA ReadyStep ==
    ASSUME Types, TaskInv, ReadyHasAll, [Next]_vars
    PROVE  ReadyHasAll'
<1> USE DEF requestVars, recordVars, pipelineVars
<1>1. ASSUME UNCHANGED <<ladder, source, expected, complete>>,
             record' = "READY" => record = "READY"
      PROVE  ReadyHasAll'
  BY <1>1 DEF ReadyHasAll, Rungs, Renditions, SelectRenditions
<1>2. ASSUME NEW height \in Sources, AcceptUpload(height)
      PROVE  ReadyHasAll'
  BY <1>2 DEF AcceptUpload, TaskInv, NothingBefore, ReadyHasAll
<1>3. ASSUME \/ StartUpload \/ ReceiveChunk \/ ReceiveFails \/ ReceiveEnds
             \/ ClientDisconnects \/ ProbeFails \/ ValidateFails
      PROVE  ReadyHasAll'
  BY <1>1, <1>3
     DEF StartUpload, ReceiveChunk, ReceiveFails, ReceiveEnds, ClientDisconnects,
         ProbeFails, ValidateFails
<1>4. ASSUME \/ Feeder \/ FeedFails \/ EndTranscoder \/ TranscodeFails
             \/ Transcode \/ (\E i \in buffered : FlushTranscoder(i))
             \/ TranscoderReports \/ Package \/ Delete
      PROVE  ReadyHasAll'
  BY <1>1, <1>4
     DEF Feeder, FeederOpens, FeedFrame, FeedRefused, FeedFails, FeedEnds, FeederRemoves,
         FeederReports, EndTranscoder, TranscodeFails, Transcode, FlushTranscoder,
         TranscoderReports, Package, Delete
<1>5. ASSUME StartTranscoder
      PROVE  ReadyHasAll'
  <2>1. Rungs' = Rungs
    BY <1>5 DEF StartTranscoder, Rungs, Renditions, SelectRenditions
  <2>2. CASE Rungs = {}
    BY <1>1, <1>5, <2>2 DEF StartTranscoder
  <2>3. CASE Rungs # {}
    <3>1. expected' = Cardinality(Rungs) /\ UNCHANGED <<record, complete>>
      BY <1>5, <2>3 DEF StartTranscoder
    <3>2. record = "READY" => expected' = expected
      BY <3>1 DEF ReadyHasAll
    <3>. QED  BY <2>1, <3>1, <3>2 DEF ReadyHasAll
  <2>. QED  BY <2>2, <2>3
<1>6. ASSUME HandleEvent
      PROVE  ReadyHasAll'
  <2>1. Rungs' = Rungs /\ expected' = expected
    BY <1>6 DEF HandleEvent, Rungs, Renditions, SelectRenditions
  <2>2. CASE HandleError
    BY <1>6, <2>2, <1>1 DEF HandleEvent, HandleError
  <2>3. CASE HandleComplete(Head(events).rendition)
    <3> DEFINE r == Head(events).rendition
    <3>1. IsFiniteSet(complete)
      <4>1. IsFiniteSet(Ids) /\ complete \in SUBSET Ids
        BY RungsFinite DEF Types
      <4>. QED  BY <4>1, FS_Subset
    <3>2. /\ Cardinality(complete) \in Nat /\ Cardinality(complete \cup {r}) \in Nat
          /\ Cardinality(complete) <= Cardinality(complete \cup {r})
      <4>1. Cardinality(complete) \in Nat
        BY <3>1, FS_CardinalityType
      <4>2. Cardinality(complete \cup {r}) =
               IF r \in complete THEN Cardinality(complete) ELSE Cardinality(complete) + 1
        BY <3>1, FS_AddElement
      <4>. QED  BY <4>1, <4>2
    <3>3. expected \in Nat
      BY RungsFinite DEF Types, ReadyHasAll
    <3>4. complete' = complete \cup {r}
      BY <2>3 DEF HandleComplete
    <3>5. record' = "READY" => expected > 0 /\ Cardinality(complete') >= expected
      <4>1. CASE record = "READY"
        BY <3>2, <3>3, <3>4, <4>1 DEF ReadyHasAll
      <4>2. CASE record # "READY"
        BY <2>3, <4>2 DEF HandleComplete
      <4>. QED  BY <4>1, <4>2
    <3>. QED  BY <2>1, <3>5 DEF ReadyHasAll
  <2>. QED  BY <1>6, <2>2, <2>3 DEF HandleEvent
<1>7. ASSUME UNCHANGED vars
      PROVE  ReadyHasAll'
  BY <1>1, <1>7 DEF vars
<1>. QED
  BY <1>2, <1>3, <1>4, <1>5, <1>6, <1>7 DEF Next, Request, Transcoder

-----------------------------------------------------------------------------
(* The theorems.                                                           *)

\* Before the request nothing is there.
LEMMA InitInv == Init => Inv
<1>. SUFFICES ASSUME Init PROVE Inv
  OBVIOUS
<1>1. Types
  BY DEF Init, Types
<1>2. TaskInv
  BY DEF Init, TaskInv, NothingBefore, Tasks, RequestHasFile, ReaderHasFile,
         FileHasOwner, EndedHasRead
<1>3. ErrorPrevails /\ ReadyHasAll
  <2>1. /\ feeder = "off" /\ transcoder = "off"
        /\ record = "Absent" /\ expected = 0
    BY DEF Init
  <2>. QED  BY <2>1 DEF ErrorPrevails, ReadyHasAll
<1>. QED  BY <1>1, <1>2, <1>3 DEF Inv, TaskInv

\* Every step keeps the invariant.
LEMMA StepInv == Inv /\ [Next]_vars => Inv'
<1>. SUFFICES ASSUME Inv, [Next]_vars PROVE Inv'
  OBVIOUS
<1>1. Types /\ TaskInv /\ ErrorPrevails /\ ReadyHasAll
  BY DEF Inv, TaskInv
<1>2. Types'
  BY <1>1, TypesStep
<1>3. TaskInv'
  BY <1>1, TaskStep
<1>4. ErrorPrevails' /\ ReadyHasAll'
  BY <1>1, ErrorStep, ReadyStep
<1>. QED  BY <1>2, <1>3, <1>4 DEF Inv, TaskInv

\* So it holds for ever.
LEMMA Invariance == Spec => []Inv
BY InitInv, StepInv, PTL DEF Spec

\* No exit of upload_vod() and no task of the pipeline removes the temporary
\* file under the feeder or ffmpeg, which read it after the request is over.
THEOREM ReadersHaveTheirFile == Spec => []ReaderHasFile
<1>1. Inv => ReaderHasFile
  BY DEF Inv
<1>. QED  BY <1>1, Invariance, PTL

\* The temporary file of an upload that is over is gone, but on the paths of
\* the code that are known to leave it.
THEOREM TempFilesAreRemoved == Spec => []TempFileRemoved
<1>1. Inv => TempFileRemoved
  BY DEF Inv, FileHasOwner, TempFileRemoved, Quiet, FeederDone
<1>. QED  BY <1>1, Invariance, PTL

\* For every ladder, also one whose rungs share identifiers, a stream that is
\* READY at rest was read to the end, has all its renditions and no failure.
THEOREM ReadyStreamsAreWhole == Spec => []ReadyIsWhole
<1>1. ASSUME Inv, record = "READY", Quiet
      PROVE  unread = 0 /\ complete = Ids /\ ~Failed
  <2>1. feeder # "reported" /\ transcoder # "reported"
    BY <1>1 DEF Inv, ErrorPrevails, ErrorQueued, Quiet
  <2>2. transcoder = "ended" /\ feeder \in {"off", "ended"}
    BY <1>1, <2>1 DEF Inv, NothingBefore, Quiet, FeederDone, TranscoderDone
  <2>3. unread = 0
    BY <1>1, <2>2 DEF Inv, Tasks, EndedHasRead
  <2>4. complete = Ids
    <3>1. Cardinality(complete) >= Cardinality(Rungs)
      BY <1>1 DEF Inv, ReadyHasAll
    <3>2. /\ IsFiniteSet(Ids) /\ Cardinality(Ids) \in Nat /\ Cardinality(Rungs) \in Nat
          /\ Cardinality(Ids) <= Cardinality(Rungs)
          /\ complete \in SUBSET Ids
      BY <1>1, RungsFinite DEF Inv, Types
    <3>3. /\ Cardinality(complete) <= Cardinality(Ids)
          /\ Cardinality(Ids) = Cardinality(complete) => Ids = complete
          /\ Cardinality(complete) \in Nat
      BY <3>2, FS_Subset, FS_CardinalityType
    <3>. QED  BY <3>1, <3>2, <3>3
  <2>. QED  BY <2>2, <2>3, <2>4 DEF Failed
<1>2. Inv => ReadyIsWhole
  BY <1>1 DEF ReadyIsWhole
<1>. QED  BY <1>2, Invariance, PTL

=============================================================================
