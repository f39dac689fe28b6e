--------------------------- MODULE JobQueueProofs ---------------------------
(***************************************************************************)
(* Proofs about JobQueue for any number of processes and jobs, any zombie  *)
(* age and any bound on time and faults.                                   *)
(***************************************************************************)
EXTENDS JobQueue, TLAPS

\* A worker loop has a job in memory exactly in the steps that need one, and may
\* have one while it hangs.
HoldsWhenWorking ==
    \A p \in Procs : /\ pc[p] \in Holding => cur[p] # NoJob
                     /\ cur[p] # NoJob => pc[p] \in Holding \cup {"hung"}

\* A held job has a row: nothing resets a status to "none".
HeldIsSubmitted ==
    \A p \in Procs : cur[p] # NoJob => status[cur[p]] # "none"

\* The final UPDATE to "completed" is only reached through the upload.
SavingHasAudio == \A p \in Procs : pc[p] = "saving" => cur[p] \in audio

\* What TypeOK needs to be inductive: UploadDone and the final UPDATEs name
\* cur[p], which is a job only where HoldsWhenWorking says so.
Shape == TypeOK /\ HoldsWhenWorking

\* The inductive invariant: the checked invariants and what they rest on.
IInv == /\ Shape
        /\ HeldIsSubmitted
        /\ SavingHasAudio
        /\ CompletedHasAudio
        /\ YoungJobsRunOnce
        /\ UnattendedOnlyAfterFault

\* The helpers that every action is written with.
USE DEF Fault, NoFault, Hold, Release, Goto, SetStatus, table, Holding
-----------------------------------------------------------------------------
\* The initial state satisfies the inductive invariant.
LEMMA InitIInv == Init => IInv
BY JobQueueAssumption
   DEF Init, IInv, Shape, TypeOK, HoldsWhenWorking, HeldIsSubmitted,
       SavingHasAudio, CompletedHasAudio, YoungJobsRunOnce,
       UnattendedOnlyAfterFault, Unattended, Statuses, Locations

\* Every action keeps the types and the link between pc and cur.
LEMMA NextShape == Shape /\ [Next]_vars => Shape'
<1> SUFFICES ASSUME Shape, [Next]_vars PROVE Shape'
  OBVIOUS
<1> USE JobQueueAssumption DEF Shape, TypeOK, HoldsWhenWorking, Statuses, Locations
<1>1. CASE Tick
  BY <1>1 DEF Tick
<1>2. ASSUME NEW j \in Jobs, DeleteContent(j) PROVE Shape'
  BY <1>2 DEF DeleteContent
<1>3. ASSUME NEW j \in Jobs, NEW k \in Kinds, Submit(j, k) PROVE Shape'
  <2>1. k.prio \in {0, 10, 50} /\ k.source \in {"text", "content"}
    BY DEF Submissions, TtsSubmissions, EmbedSubmissions, ContentSubmissions
  <2>2. QED BY <1>3, <2>1 DEF Submit
<1>4. ASSUME NEW p \in Procs, Start(p) \/ Hang(p) PROVE Shape'
  BY <1>4 DEF Start, Hang
<1>5. ASSUME NEW p \in Procs, RecoverZombies(p) PROVE Shape'
  BY <1>5 DEF RecoverZombies
<1>6. ASSUME NEW p \in Procs, NEW j \in Jobs,
             \/ ClaimText(p, j) \/ ClaimEmpty(p, j)
             \/ ClaimUndecodable(p, j) \/ ClaimReplyLost(p, j)
      PROVE  Shape'
  BY <1>6 DEF ClaimText, ClaimEmpty, ClaimUndecodable, ClaimReplyLost, TakeFirst
<1>7. ASSUME NEW p \in Procs,
             TtsDone(p) \/ TtsFailed(p) \/ UploadDone(p) \/ UploadFailed(p)
      PROVE  Shape'
  BY <1>7 DEF TtsDone, TtsFailed, UploadDone, UploadFailed
<1>8. ASSUME NEW p \in Procs, SaveCompleted(p) \/ MarkFailed(p) PROVE Shape'
  BY <1>8 DEF SaveCompleted, MarkFailed
<1>9. ASSUME NEW p \in Procs, Crash(p) \/ RecoverFails(p) \/ FinalUpdateFails(p)
      PROVE  Shape'
  BY <1>9 DEF Crash, RecoverFails, FinalUpdateFails
<1>10. ASSUME NEW k \in Kinds, OthersSubmit(k) PROVE Shape'
  <2>1. k.prio \in {0, 10, 50}
    BY DEF Submissions, TtsSubmissions, EmbedSubmissions, ContentSubmissions
  <2>2. QED BY <1>10, <2>1 DEF OthersSubmit
<1>11. CASE UNCHANGED vars
  BY <1>11 DEF vars
<1>12. QED
  BY <1>1, <1>2, <1>3, <1>4, <1>5, <1>6, <1>7, <1>8, <1>9, <1>10, <1>11
     DEF Next, Work, Faulty

\* The jobs table and the worker loops stay within their types.
THEOREM TypeCorrect == Spec => []TypeOK
<1>1. Init => Shape
  BY InitIInv DEF IInv
<1>2. Shape => TypeOK
  BY DEF Shape
<1>3. QED
  BY <1>1, <1>2, NextShape, PTL DEF Spec
-----------------------------------------------------------------------------
\* Every action keeps the safety invariants.
LEMMA NextIInv == IInv /\ [Next]_vars => IInv'
<1> SUFFICES ASSUME IInv, [Next]_vars PROVE IInv'
  OBVIOUS
<1>1. Shape /\ Shape'
  BY NextShape DEF IInv
<1> DEFINE Rest == /\ HeldIsSubmitted /\ SavingHasAudio /\ CompletedHasAudio
                   /\ YoungJobsRunOnce /\ UnattendedOnlyAfterFault
<1> SUFFICES Rest'
  BY <1>1 DEF IInv
<1> USE <1>1, JobQueueAssumption
    DEF IInv, Shape, TypeOK, HoldsWhenWorking, HeldIsSubmitted, SavingHasAudio,
        CompletedHasAudio, YoungJobsRunOnce, UnattendedOnlyAfterFault,
        Unattended, Aged, Statuses, Locations
\* A job only grows older: who was aged stays aged.
<1>2. CASE Tick
  BY <1>2 DEF Tick
<1>3. ASSUME NEW j \in Jobs, DeleteContent(j) PROVE Rest'
  BY <1>3 DEF DeleteContent
\* A new row rejuvenates its job, so nobody may be holding it yet.
<1>4. ASSUME NEW j \in Jobs, NEW k \in Kinds, Submit(j, k) PROVE Rest'
  <2>1. \A p \in Procs : cur[p] # j
    BY <1>4 DEF Submit
  <2>2. (HeldIsSubmitted /\ SavingHasAudio /\ CompletedHasAudio)'
    BY <1>4, <2>1 DEF Submit
  <2>3. YoungJobsRunOnce'
    BY <1>4, <2>1 DEF Submit
  <2>4. UnattendedOnlyAfterFault'
    BY <1>4 DEF Submit
  <2>5. QED BY <2>2, <2>3, <2>4
<1>5. ASSUME NEW p \in Procs, Start(p) \/ Hang(p) PROVE Rest'
  BY <1>5 DEF Start, Hang
\* Recovery takes only aged jobs from their holders and leaves no new
\* "processing" row behind.
<1>6. ASSUME NEW p \in Procs, RecoverZombies(p) PROVE Rest'
  <2>1. \A j \in Jobs : status'[j] # status[j] => Aged(j) /\ status'[j] = "queued"
    BY <1>6 DEF RecoverZombies, Zombie
  <2>2. (HeldIsSubmitted /\ SavingHasAudio /\ CompletedHasAudio)'
    BY <1>6 DEF RecoverZombies
  <2>3. YoungJobsRunOnce'
    BY <1>6, <2>1 DEF RecoverZombies
  <2>4. UnattendedOnlyAfterFault'
    BY <1>6, <2>1 DEF RecoverZombies
  <2>5. QED BY <2>2, <2>3, <2>4
\* A claimed job was "queued", so a holder it may still have holds an aged job.
<1>7. ASSUME NEW p \in Procs, NEW j \in Jobs,
             ClaimText(p, j) \/ ClaimEmpty(p, j)
      PROVE  Rest'
  <2>1. status[j] = "queued" /\ pc[p] = "idle" /\ cur[p] = NoJob
    BY <1>7 DEF ClaimText, ClaimEmpty, TakeFirst, First, Queued
  <2>2. \A q \in Procs : cur[q] = j => Aged(j)
    BY <2>1
  <2>3. (HeldIsSubmitted /\ SavingHasAudio /\ CompletedHasAudio)'
    BY <1>7, <2>1 DEF ClaimText, ClaimEmpty, TakeFirst
  <2>4. YoungJobsRunOnce'
    BY <1>7, <2>1, <2>2 DEF ClaimText, ClaimEmpty, TakeFirst
  <2>5. UnattendedOnlyAfterFault'
    BY <1>7, <2>1 DEF ClaimText, ClaimEmpty, TakeFirst
  <2>6. QED BY <2>3, <2>4, <2>5
<1>8. ASSUME NEW p \in Procs, NEW j \in Jobs,
             ClaimUndecodable(p, j) \/ ClaimReplyLost(p, j)
      PROVE  Rest'
  <2>1. status[j] = "queued"
    BY <1>8 DEF ClaimUndecodable, ClaimReplyLost, TakeFirst, First, Queued
  <2>2. QED BY <1>8, <2>1 DEF ClaimUndecodable, ClaimReplyLost, TakeFirst
<1>9. ASSUME NEW p \in Procs,
             TtsDone(p) \/ TtsFailed(p) \/ UploadDone(p) \/ UploadFailed(p)
      PROVE  Rest'
  BY <1>9 DEF TtsDone, TtsFailed, UploadDone, UploadFailed
\* The holder writes its verdict and lets go.
<1>10. ASSUME NEW p \in Procs, SaveCompleted(p) \/ MarkFailed(p) PROVE Rest'
  <2>1. cur[p] \in Jobs /\ status'[cur[p]] \in Terminal
    BY <1>10 DEF SaveCompleted, MarkFailed, Terminal
  <2>2. (HeldIsSubmitted /\ SavingHasAudio /\ CompletedHasAudio)'
    BY <1>10 DEF SaveCompleted, MarkFailed
  <2>3. YoungJobsRunOnce'
    BY <1>10, <2>1 DEF SaveCompleted, MarkFailed
  <2>4. UnattendedOnlyAfterFault'
    BY <1>10, <2>1 DEF SaveCompleted, MarkFailed, Terminal
  <2>5. QED BY <2>2, <2>3, <2>4
<1>11. ASSUME NEW p \in Procs, Crash(p) \/ RecoverFails(p) \/ FinalUpdateFails(p)
       PROVE  Rest'
  BY <1>11 DEF Crash, RecoverFails, FinalUpdateFails
<1>12. ASSUME NEW k \in Kinds, OthersSubmit(k) PROVE Rest'
  BY <1>12 DEF OthersSubmit
<1>13. CASE UNCHANGED vars
  BY <1>13 DEF vars
<1>14. QED
  BY <1>2, <1>3, <1>4, <1>5, <1>6, <1>7, <1>8, <1>9, <1>10, <1>11, <1>12, <1>13
     DEF Next, Work, Faulty

\* The inductive invariant holds in every reachable state.
THEOREM Inductive == Spec => []IInv
BY InitIInv, NextIInv, PTL DEF Spec

\* A completed job has its audio.
THEOREM CompletedAudio == Spec => []CompletedHasAudio
BY Inductive, PTL DEF IInv

\* Until it is old enough to be recovered, a job is run by one process.
THEOREM YoungExclusive == Spec => []YoungJobsRunOnce
BY Inductive, PTL DEF IInv

\* Without a fault no text job is left half done.
THEOREM NoSilentLoss == Spec => []UnattendedOnlyAfterFault
BY Inductive, PTL DEF IInv
-----------------------------------------------------------------------------
\* One process at a time, where nothing comes in late.
Solo == \A p, q \in Procs : p = q

\* With one process, whatever is held is in "processing": only the process
\* itself could requeue or finish it, and it does neither while it holds it.
HeldIsProcessing ==
    \A p \in Procs : cur[p] # NoJob => status[cur[p]] = "processing"

LifeInv == IInv /\ (Solo => HeldIsProcessing)

LEMMA NextLifeInv == LifeInv /\ [Next]_vars => LifeInv'
<1> SUFFICES ASSUME LifeInv, [Next]_vars, Solo PROVE HeldIsProcessing'
  BY NextIInv DEF LifeInv, Solo
<1> USE JobQueueAssumption
    DEF LifeInv, IInv, Shape, TypeOK, HoldsWhenWorking, HeldIsProcessing, Statuses
<1>1. CASE Tick
  BY <1>1 DEF Tick
<1>2. ASSUME NEW j \in Jobs, DeleteContent(j) PROVE HeldIsProcessing'
  BY <1>2 DEF DeleteContent
<1>3. ASSUME NEW j \in Jobs, NEW k \in Kinds, Submit(j, k) PROVE HeldIsProcessing'
  BY <1>3 DEF Submit
<1>4. ASSUME NEW p \in Procs, Start(p) \/ Hang(p) PROVE HeldIsProcessing'
  BY <1>4 DEF Start, Hang
\* The recovering process is the only one, and it holds nothing.
<1>5. ASSUME NEW p \in Procs, RecoverZombies(p) PROVE HeldIsProcessing'
  <2>1. \A q \in Procs : cur'[q] = NoJob
    BY <1>5 DEF RecoverZombies, Solo
  <2>2. QED BY <2>1
<1>6. ASSUME NEW p \in Procs, NEW j \in Jobs,
             \/ ClaimText(p, j) \/ ClaimEmpty(p, j)
             \/ ClaimUndecodable(p, j) \/ ClaimReplyLost(p, j)
      PROVE  HeldIsProcessing'
  BY <1>6 DEF ClaimText, ClaimEmpty, ClaimUndecodable, ClaimReplyLost, TakeFirst
<1>7. ASSUME NEW p \in Procs,
             TtsDone(p) \/ TtsFailed(p) \/ UploadDone(p) \/ UploadFailed(p)
      PROVE  HeldIsProcessing'
  BY <1>7 DEF TtsDone, TtsFailed, UploadDone, UploadFailed
<1>8. ASSUME NEW p \in Procs, SaveCompleted(p) \/ MarkFailed(p)
      PROVE  HeldIsProcessing'
  <2>1. \A q \in Procs : cur'[q] = NoJob
    BY <1>8 DEF SaveCompleted, MarkFailed, Solo
  <2>2. QED BY <2>1
<1>9. ASSUME NEW p \in Procs, Crash(p) \/ RecoverFails(p) \/ FinalUpdateFails(p)
      PROVE  HeldIsProcessing'
  BY <1>9 DEF Crash, RecoverFails, FinalUpdateFails
<1>10. ASSUME NEW k \in Kinds, OthersSubmit(k) PROVE HeldIsProcessing'
  BY <1>10 DEF OthersSubmit
<1>11. CASE UNCHANGED vars
  BY <1>11 DEF vars
<1>12. QED
  BY <1>1, <1>2, <1>3, <1>4, <1>5, <1>6, <1>7, <1>8, <1>9, <1>10, <1>11
     DEF Next, Work, Faulty

\* A held job is on its way in the lifecycle: a young one because its holder is
\* the only one, any one where there is a single process.
LEMMA HeldIsUnderWay ==
    ASSUME LifeInv, NEW p \in Procs, cur[p] # NoJob
    PROVE  cur[p] \in Jobs /\ Lifecycle!UnderWay(cur[p])
<1> USE DEF LifeInv, IInv, Shape, TypeOK, HeldIsSubmitted
<1>1. CASE Solo
  BY <1>1 DEF HeldIsProcessing, Lifecycle!UnderWay
<1>2. CASE ~Solo /\ Aged(cur[p])
  BY <1>2 DEF Solo, Lifecycle!UnderWay, Old, Aged
<1>3. CASE ~Aged(cur[p])
  BY <1>3 DEF YoungJobsRunOnce, Lifecycle!UnderWay
<1>4. QED
  BY <1>1, <1>2, <1>3

\* Only time and the first row of a job change what is old.
LEMMA OldStays ==
    ASSUME LifeInv, UNCHANGED <<now, created>>,
           \A j \in Jobs : status'[j] = "none" <=> status[j] = "none"
    PROVE  Old' = Old
BY DEF Old, Aged

\* Every step is a lifecycle step or changes nothing of what it looks at.
LEMMA StepRefines ==
    LifeInv /\ [Next]_vars => [Lifecycle!Next]_(Lifecycle!lvars)
<1> SUFFICES ASSUME LifeInv, [Next]_vars, ~UNCHANGED <<status, audio, Old>>
             PROVE  Lifecycle!Next
  BY DEF Lifecycle!lvars
<1> USE JobQueueAssumption
    DEF LifeInv, IInv, Shape, TypeOK, HoldsWhenWorking, SavingHasAudio, Statuses
<1>1. ASSUME NEW j \in Jobs, NEW k \in Kinds, Submit(j, k)
      PROVE  Lifecycle!Next
  <2>1. Old' = Old
    BY <1>1 DEF Submit, Old, Aged
  <2>2. Lifecycle!Submit(j)
    BY <1>1, <2>1 DEF Submit, Lifecycle!Submit
  <2>3. QED BY <2>2 DEF Lifecycle!Next
<1>2. CASE Tick
  <2>1. \A j \in Old : j \in Old'
    BY <1>2 DEF Tick, Old, Aged
  <2>2. Lifecycle!Age(Old')
    BY <1>2, <2>1 DEF Tick, Old, Aged, Lifecycle!Age
  <2>3. Old' \in SUBSET Jobs
    BY DEF Old, Aged
  <2>4. QED BY <2>2, <2>3 DEF Lifecycle!Next
<1>3. ASSUME NEW p \in Procs, RecoverZombies(p) PROVE Lifecycle!Next
  <2> DEFINE Z == {j \in Jobs : Zombie(j)}
  <2>1. Old' = Old
    BY <1>3, OldStays DEF RecoverZombies, Zombie
  <2>2. Lifecycle!Requeue(Z)
    BY <1>3, <2>1 DEF RecoverZombies, Zombie, Lifecycle!Requeue, Old, Aged
  <2>3. Z \in SUBSET Jobs
    OBVIOUS
  <2>4. QED BY <2>2, <2>3 DEF Lifecycle!Next
<1>4. ASSUME NEW p \in Procs, NEW j \in Jobs, TakeFirst(p, j)
      PROVE  Lifecycle!Next
  <2>1. status[j] = "queued"
    BY <1>4 DEF TakeFirst, First, Queued
  <2>2. Old' = Old
    BY <1>4, <2>1, OldStays DEF TakeFirst
  <2>3. Lifecycle!Claim(j)
    BY <1>4, <2>1, <2>2 DEF TakeFirst, Lifecycle!Claim
  <2>4. QED BY <2>3 DEF Lifecycle!Next
<1>5. ASSUME NEW p \in Procs, UploadDone(p) PROVE Lifecycle!Next
  <2>1. cur[p] \in Jobs /\ Lifecycle!UnderWay(cur[p])
    BY <1>5, HeldIsUnderWay DEF UploadDone, Holding
  <2>2. Old' = Old
    BY <1>5, OldStays DEF UploadDone
  <2>3. Lifecycle!Store(cur[p])
    BY <1>5, <2>1, <2>2 DEF UploadDone, Lifecycle!Store
  <2>4. QED BY <2>1, <2>3 DEF Lifecycle!Next
<1>6. ASSUME NEW p \in Procs, SaveCompleted(p) \/ MarkFailed(p) PROVE Lifecycle!Next
  <2>1. cur[p] \in Jobs /\ Lifecycle!UnderWay(cur[p]) /\ status[cur[p]] # "none"
    BY <1>6, HeldIsUnderWay DEF SaveCompleted, MarkFailed, Holding, HeldIsSubmitted
  <2>2. Old' = Old
    BY <1>6, <2>1, OldStays DEF SaveCompleted, MarkFailed
  <2>3. CASE SaveCompleted(p)
    <3>1. cur[p] \in audio
      BY <2>3 DEF SaveCompleted
    <3>2. Lifecycle!Complete(cur[p])
      BY <2>1, <2>2, <2>3, <3>1 DEF SaveCompleted, Lifecycle!Complete
    <3>3. QED BY <2>1, <3>2 DEF Lifecycle!Next
  <2>4. CASE MarkFailed(p)
    <3>1. Lifecycle!Fail(cur[p])
      BY <2>1, <2>2, <2>4 DEF MarkFailed, Lifecycle!Fail
    <3>2. QED BY <2>1, <3>1 DEF Lifecycle!Next
  <2>5. QED BY <1>6, <2>3, <2>4
\* An upload that hangs may have stored the object.
<1>7. ASSUME NEW p \in Procs, Hang(p) PROVE Lifecycle!Next
  <2>1. Old' = Old /\ status' = status
    BY <1>7, OldStays DEF Hang
  <2>2. pc[p] = "upload" /\ audio' = audio \cup {cur[p]}
    BY <1>7, <2>1 DEF Hang
  <2>3. cur[p] \in Jobs /\ Lifecycle!UnderWay(cur[p])
    BY <2>2, HeldIsUnderWay DEF Holding
  <2>4. Lifecycle!Store(cur[p])
    BY <2>1, <2>2, <2>3 DEF Lifecycle!Store
  <2>5. QED BY <2>3, <2>4 DEF Lifecycle!Next
<1>8. QED
  BY <1>1, <1>2, <1>3, <1>4, <1>5, <1>6, <1>7
     DEF Next, vars, Work, Faulty, DeleteContent, OthersSubmit, Start, Crash, Old, Aged,
         RecoverFails, ClaimText, ClaimEmpty, ClaimUndecodable, ClaimReplyLost,
         TtsDone, TtsFailed, UploadFailed, FinalUpdateFails

\* The jobs table implements JobLifecycle, for any number of processes: a young
\* job has one attempt and a verdict that stands, and with a single process so
\* has every job.
THEOREM TableImplementsLifecycle == Spec => ImplementsLifecycle
<1>1. Init => LifeInv
  BY InitIInv DEF LifeInv, HeldIsProcessing, Init
<1>2. LifeInv /\ [Next]_vars => LifeInv'
  BY NextLifeInv
<1>3. Init => Lifecycle!Init
  BY DEF Init, Lifecycle!Init, Old, Aged
<1>4. QED
  BY <1>1, <1>2, <1>3, StepRefines, PTL
     DEF Spec, ImplementsLifecycle, Lifecycle!Spec
=============================================================================
