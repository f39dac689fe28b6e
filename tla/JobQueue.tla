------------------------------ MODULE JobQueue ------------------------------
(***************************************************************************)
(* The jobs table and the API processes that work through it               *)
(* (sonotxt-api/src/job_worker.rs, with the INSERTs of the route handlers). *)
(*                                                                         *)
(* Every API process runs one worker loop over the shared PostgreSQL       *)
(* table.  A database statement is one atomic step; everything between two *)
(* awaits is local to the process.  A process may crash between any two    *)
(* steps and be started again; a statement may fail, or its reply may be   *)
(* lost after it committed.                                                *)
(***************************************************************************)
EXTENDS Integers, FiniteSets

CONSTANTS Procs,      \* API processes (each spawns one job_worker::run)
          Jobs,       \* job ids (fresh uuids, so never reused)
          NoJob,      \* "no job in hand"
          Kinds,      \* the submissions of this instance, see Submissions
          ZombieAge,  \* the INTERVAL '5 minutes' of recover_zombies
          MaxTime,    \* bound on the clock
          MaxFaults   \* bound on crashes and database errors together

\* The INSERTs of the handlers: TTS, paid (50) or on the free tier of someone
\* logged in (10) or not, and /process; an embed, of a site or of a user; a
\* site's stored content.  The column's default is 0.
TtsSubmissions     == [prio : {0, 10, 50}, source : {"text"}]
EmbedSubmissions   == [prio : {0}, source : {"text"}]
ContentSubmissions == [prio : {0}, source : {"content"}]
Submissions == TtsSubmissions \cup EmbedSubmissions \cup ContentSubmissions

ASSUME JobQueueAssumption ==
    /\ NoJob \notin Jobs
    /\ Kinds \subseteq Submissions
    /\ ZombieAge \in Nat
    /\ MaxTime \in Nat
    /\ MaxFaults \in Nat

VARIABLES now,      \* the database clock, NOW()
          faults,   \* crashes and database errors so far
          status,   \* jobs.status, "none" before the row exists
          prio,     \* jobs.priority
          source,   \* text_content set, content_id set, or neither
          created,  \* jobs.created_at
          audio,    \* jobs whose <id>.wav is in the bucket
          stream,   \* the highest priority queued outside Jobs, 0 for none
          pc,       \* where each worker loop is
          cur       \* the job each worker loop holds in memory

vars == <<now, faults, status, prio, source, created, audio, stream, pc, cur>>
table == <<prio, source, created, stream>>

Statuses == {"none", "queued", "processing", "completed", "failed"}
Terminal == {"completed", "failed"}
Holding == {"synth", "upload", "saving", "failing"}
Locations == {"down", "booting", "idle", "hung"} \cup Holding

Init == /\ now = 0
        /\ faults = 0
        /\ status = [j \in Jobs |-> "none"]
        /\ prio = [j \in Jobs |-> 0]
        /\ source = [j \in Jobs |-> "none"]
        /\ created = [j \in Jobs |-> 0]
        /\ audio = {}
        /\ stream = 0
        /\ pc = [p \in Procs |-> "down"]
        /\ cur = [p \in Procs |-> NoJob]
-----------------------------------------------------------------------------
\* Older than five minutes, counted from submission and not from the claim.
Aged(j) == created[j] + ZombieAge < now

\* ORDER BY priority DESC, created_at ASC
Precedes(j, k) == \/ prio[j] > prio[k]
                  \/ prio[j] = prio[k] /\ created[j] < created[k]

\* Mutant: the claim also picks up failed jobs again.
Queued_RetryFailed == {j \in Jobs : status[j] \in {"queued", "failed"}}

Queued == {j \in Jobs : status[j] = "queued"}

\* Somebody else's job comes first.
Outranked(j) == prio[j] < stream

First(j) == /\ j \in Queued
            /\ ~Outranked(j)
            /\ \A k \in Queued : ~Precedes(k, j)

\* A crash or a failed statement, counted against MaxFaults.
Fault == faults < MaxFaults /\ faults' = faults + 1
NoFault == UNCHANGED faults

Hold(p, j, loc) == /\ pc' = [pc EXCEPT ![p] = loc]
                   /\ cur' = [cur EXCEPT ![p] = j]
Release(p, loc) == Hold(p, NoJob, loc)
Goto(p, loc) == pc' = [pc EXCEPT ![p] = loc] /\ UNCHANGED cur
SetStatus(j, s) == status' = [status EXCEPT ![j] = s]
-----------------------------------------------------------------------------
\* A handler inserts a job row.
Submit(j, k) ==
    /\ status[j] = "none"
    /\ SetStatus(j, "queued")
    /\ prio' = [prio EXCEPT ![j] = k.prio]
    /\ source' = [source EXCEPT ![j] = k.source]
    /\ created' = [created EXCEPT ![j] = now]
    /\ NoFault
    /\ UNCHANGED <<now, audio, stream, pc, cur>>

\* Others submit jobs, more important ones maybe, and the loops take them in
\* turn: these come and go without a bound.
OthersSubmit(k) ==
    /\ stream' \in {0, k.prio}
    /\ NoFault
    /\ UNCHANGED <<now, status, prio, source, created, audio, pc, cur>>

\* The content row goes away: ON DELETE SET NULL on jobs.content_id.
DeleteContent(j) ==
    /\ source[j] = "content"
    /\ source' = [source EXCEPT ![j] = "none"]
    /\ NoFault
    /\ UNCHANGED <<now, status, prio, created, audio, stream, pc, cur>>

Tick == /\ now < MaxTime
        /\ now' = now + 1
        /\ NoFault
        /\ UNCHANGED <<status, table, audio, pc, cur>>

Start(p) == /\ pc[p] = "down"
            /\ Goto(p, "booting")
            /\ NoFault
            /\ UNCHANGED <<now, status, table, audio>>

Crash(p) == /\ pc[p] # "down"
            /\ Fault
            /\ Release(p, "down")
            /\ UNCHANGED <<now, status, table, audio>>

\* Mutant: the age condition dropped.
Zombie_AnyAge(j) == status[j] = "processing"

\* recover_zombies, run once when the loop starts.
Zombie(j) == status[j] = "processing" /\ Aged(j)

RecoverZombies(p) ==
    /\ pc[p] = "booting"
    /\ status' = [j \in Jobs |-> IF Zombie(j) THEN "queued" ELSE status[j]]
    /\ Goto(p, "idle")
    /\ NoFault
    /\ UNCHANGED <<now, table, audio>>

\* The statement fails; run logs the error and enters the loop all the same.
RecoverFails(p) ==
    /\ pc[p] = "booting"
    /\ Fault
    /\ Goto(p, "idle")
    /\ UNCHANGED <<now, status, table, audio>>
-----------------------------------------------------------------------------
\* process_next: the claiming UPDATE ... FOR UPDATE SKIP LOCKED RETURNING.
TakeFirst(p, j) ==
    /\ pc[p] = "idle"
    /\ First(j)
    /\ SetStatus(j, "processing")
    /\ UNCHANGED <<now, table, audio>>

ClaimText(p, j) == /\ TakeFirst(p, j)
                   /\ source[j] = "text"
                   /\ Hold(p, j, "synth")
                   /\ NoFault

\* Neither text nor content: on the way to mark_failed("No content").
ClaimEmpty(p, j) == /\ TakeFirst(p, j)
                    /\ source[j] = "none"
                    /\ Hold(p, j, "failing")
                    /\ NoFault

\* content_id is a UUID column and JobRow reads it as i64: the row is
\* claimed, decoding it fails, and `?` leaves process_next.
ClaimUndecodable(p, j) == /\ TakeFirst(p, j)
                          /\ source[j] = "content"
                          /\ NoFault
                          /\ UNCHANGED <<pc, cur>>

\* The UPDATE commits but the connection breaks before the row arrives.
ClaimReplyLost(p, j) == /\ TakeFirst(p, j)
                        /\ Fault
                        /\ UNCHANGED <<pc, cur>>

\* pool.tts returns
TtsDone(p) == /\ pc[p] = "synth"
              /\ Goto(p, "upload")
              /\ NoFault
              /\ UNCHANGED <<now, status, table, audio>>

\* Mutants: `?` instead of mark_failed; back to the queue instead of failed.
TtsFailed_Propagated(p) == /\ pc[p] = "synth"
                           /\ Release(p, "idle")
                           /\ NoFault
                           /\ UNCHANGED <<now, status, table, audio>>

TtsFailed_Requeued(p) == /\ pc[p] = "synth"
                         /\ SetStatus(cur[p], "queued")
                         /\ Release(p, "idle")
                         /\ NoFault
                         /\ UNCHANGED <<now, table, audio>>

TtsFailed(p) == /\ pc[p] = "synth"
                /\ Goto(p, "failing")
                /\ NoFault
                /\ UNCHANGED <<now, status, table, audio>>

\* storage.upload returns
UploadDone(p) == /\ pc[p] = "upload"
                 /\ audio' = audio \cup {cur[p]}
                 /\ Goto(p, "saving")
                 /\ NoFault
                 /\ UNCHANGED <<now, status, table>>

UploadFailed(p) == /\ pc[p] = "upload"
                   /\ Goto(p, "failing")
                   /\ NoFault
                   /\ UNCHANGED <<now, status, table, audio>>

\* The store never answers, for the upload or for the pin that comes after it in
\* the same call: the HTTP client of StorageService has no timeout.  It may be
\* the upload of a job outside Jobs.
Hang(p) == /\ \/ pc[p] = "upload" /\ audio' \in {audio, audio \cup {cur[p]}}
              \/ pc[p] = "idle" /\ UNCHANGED audio
           /\ Goto(p, "hung")
           /\ NoFault
           /\ UNCHANGED <<now, status, table>>

\* UPDATE jobs SET status = 'completed' ... WHERE id = $7
SaveCompleted(p) == /\ pc[p] = "saving"
                    /\ SetStatus(cur[p], "completed")
                    /\ Release(p, "idle")
                    /\ NoFault
                    /\ UNCHANGED <<now, table, audio>>

\* mark_failed: UPDATE jobs SET status = 'failed' ... WHERE id = $2
MarkFailed(p) == /\ pc[p] = "failing"
                 /\ SetStatus(cur[p], "failed")
                 /\ Release(p, "idle")
                 /\ NoFault
                 /\ UNCHANGED <<now, table, audio>>

\* The final UPDATE fails: `?` after a completed job, ignored by mark_failed.
\* Either way the loop goes on without the job.
FinalUpdateFails(p) == /\ pc[p] \in {"saving", "failing"}
                       /\ Fault
                       /\ Release(p, "idle")
                       /\ UNCHANGED <<now, status, table, audio>>
-----------------------------------------------------------------------------
\* What a worker loop does when nothing goes wrong around it.
Work(p) == \/ RecoverZombies(p)
           \/ \E j \in Jobs : \/ ClaimText(p, j)
                              \/ ClaimEmpty(p, j)
                              \/ ClaimUndecodable(p, j)
           \/ TtsDone(p) \/ TtsFailed(p)
           \/ UploadDone(p) \/ UploadFailed(p)
           \/ SaveCompleted(p) \/ MarkFailed(p)

Faulty(p) == \/ Crash(p)
             \/ RecoverFails(p)
             \/ \E j \in Jobs : ClaimReplyLost(p, j)
             \/ FinalUpdateFails(p)

Next == \/ Tick
        \/ \E j \in Jobs : DeleteContent(j) \/ \E k \in Kinds : Submit(j, k)
        \/ \E k \in Kinds : OthersSubmit(k)
        \/ \E p \in Procs : Start(p) \/ Work(p) \/ Hang(p) \/ Faulty(p)

Spec == Init /\ [][Next]_vars

\* A running loop goes on from step to step: pool.tts returns within its
\* timeouts, and a statement ends or its connection breaks.  An upload may end in
\* Hang instead, from which only a restart leads on, and nothing obliges anyone
\* to start a process: neither is fair.  A process that the bucket check keeps
\* from its loop for good (run, before the recovery) counts as not started.
FairSpec == Spec /\ \A p \in Procs : WF_vars(Work(p))
-----------------------------------------------------------------------------
Unattended(j) == status[j] = "processing" /\ \A p \in Procs : cur[p] # j
\* No loop is going to claim anything before somebody restarts a process.
AllStopped == \A p \in Procs : pc[p] \in {"down", "hung"}

TypeOK ==
    /\ now \in 0..MaxTime
    /\ faults \in 0..MaxFaults
    /\ status \in [Jobs -> Statuses]
    /\ prio \in [Jobs -> {0, 10, 50}]
    /\ source \in [Jobs -> {"none", "text", "content"}]
    /\ created \in [Jobs -> 0..MaxTime]
    /\ audio \in SUBSET Jobs
    /\ stream \in {0, 10, 50}
    /\ pc \in [Procs -> Locations]
    /\ cur \in [Procs -> Jobs \cup {NoJob}]

\* A job that reads "completed" has its audio object in the bucket, whatever
\* crashed, was requeued or was processed twice on the way
\* (job_worker.rs:118-131: upload first, then the row).
CompletedHasAudio == \A j \in Jobs : status[j] = "completed" => j \in audio

\* Two processes work on the same job only once it is old enough for
\* recover_zombies to take it away from its holder; until then the holder is
\* the only one and the row says "processing" (job_worker.rs:36-75).
YoungJobsRunOnce ==
    \A p \in Procs : cur[p] # NoJob /\ ~Aged(cur[p]) =>
        /\ status[cur[p]] = "processing"
        /\ \A q \in Procs : cur[q] = cur[p] => q = p

\* The worker loop by itself never drops a text job half done: a row left in
\* "processing" with nobody working on it is the trace of a crash or of a
\* failed statement (job_worker.rs:59-151).
UnattendedOnlyAfterFault ==
    \A j \in Jobs : Unattended(j) /\ source[j] = "text" => faults > 0

\* A queued text job is eventually completed or failed, with these exceptions
\* and no other: a fault left it unattended; its upload hangs; every loop is
\* down or hangs in an upload; or more important jobs come in for ever, so that
\* each look finds one of them ahead of it (job_worker.rs:26-33, and :68 for the
\* order, in which a job never gains on others by waiting).
TextJobSettles ==
    \A j \in Jobs : status[j] = "queued" /\ source[j] = "text"
        ~> \/ status[j] \in Terminal
           \/ Unattended(j)
           \/ \E p \in Procs : pc[p] = "hung" /\ cur[p] = j
           \/ AllStopped
           \/ Outranked(j)

\* Jobs that a starting process may give to another one.
Old == {j \in Jobs : status[j] # "none" /\ Aged(j)}

\* The table seen through JobLifecycle.
Lifecycle == INSTANCE JobLifecycle
             WITH Shared <- \E p, q \in Procs : p # q, old <- Old

\* The jobs table behaves as JobLifecycle says (job_worker.rs as a whole): with
\* any number of processes as long as a job is young, with one at any age.  The
\* final UPDATEs are unconditional (job_worker.rs:120-131, 153-159) and yet
\* overwrite no verdict but that of a job recover_zombies may have given away.
ImplementsLifecycle == Lifecycle!Spec
-----------------------------------------------------------------------------
\* What comments and headers of the code say and the code does not do.

\* job_worker.rs:21 "Recover zombie jobs on startup": after the recovery of a
\* starting process no row is in "processing" without a process at work on it.
StartupRecoversZombies ==
    [][\A p \in Procs : RecoverZombies(p) => \A j \in Jobs : ~Unattended(j)']_vars

\* job_worker.rs:1 and :83-91 (a job's text is fetched from its content row):
\* a queued content job is eventually completed or failed.
ContentJobSettles ==
    \A j \in Jobs : status[j] = "queued" /\ source[j] = "content"
        ~> status[j] \in Terminal \/ AllStopped \/ Outranked(j)

\* api.rs:444 "Count position in queue": the position that /status reports is
\* the number of jobs that will be taken before this one.
ReportedPosition(j) == Cardinality({k \in Queued : created[k] < created[j]})

PositionIsPlaceInQueue ==
    \A j \in Queued :
        ReportedPosition(j) = Cardinality({k \in Queued : Precedes(k, j)})
=============================================================================
