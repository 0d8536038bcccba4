---------------------------- MODULE IndexerWorkers ----------------------------
(***************************************************************************)
(* The index phase of reccmp/source/batch.py: threads take jobs from one   *)
(* queue, and each drives an "indexer --serve" process of its own          *)
(* (reccmp/source/indexer.cpp:serve), one job and one reply at a time.     *)
(* When every thread has ended the collection either raises, naming the    *)
(* units in "failures", or publishes every output.                         *)
(*                                                                         *)
(* A process can die at any moment.  A reply is one line: a process that   *)
(* dies while writing it can leave part of it, which json.loads refuses    *)
(* with an exception _ask does not catch; starting a process can raise too *)
(* (no memory, no more processes).  Either ends the thread.                *)
(***************************************************************************)
EXTENDS Naturals, Sequences, FiniteSets

CONSTANTS
    Jobs,       \* outputs of the units to index
    Threads,    \* min(len(fresh), jobs or cpu_count)
    None        \* no job in hand

ASSUME WorkersAssumption ==
    /\ IsFiniteSet(Jobs)
    /\ IsFiniteSet(Threads)
    /\ None \notin Jobs

VARIABLES
    pending,    \* the queue
    failures,   \* outputs with diagnostics
    pc,         \* where each thread is
    job,        \* the job each thread has in hand
    process,    \* what each thread's process is doing
    built,      \* outputs on disk
    verdict     \* what the collection does after the threads have joined

vars == <<pending, failures, pc, job, process, built, verdict>>

(* none: no process.  up: reading stdin.  busy: indexing.  ok, failed: its  *)
(* reply is in the pipe.  torn: it died part way through a reply.  dead: it *)
(* died with nothing in the pipe.                                           *)
ProcessStates == {"none", "up", "busy", "ok", "failed", "torn", "dead"}

TypeOK ==
    /\ pending \in Seq(Jobs)
    /\ failures \subseteq Jobs
    /\ pc \in [Threads -> {"take", "start", "ask", "reply", "stop", "raise",
                           "joined", "raised"}]
    /\ job \in [Threads -> Jobs \cup {None}]
    /\ process \in [Threads -> ProcessStates]
    /\ built \subseteq Jobs
    /\ verdict \in {"running", "failed", "published", "missing output"}

(* The order the compile database lists the units in. *)
Orders == {s \in [1 .. Cardinality(Jobs) -> Jobs] :
              \A i, j \in DOMAIN s : s[i] = s[j] => i = j}

Init ==
    /\ pending \in Orders
    /\ failures = {}
    /\ pc = [t \in Threads |-> "take"]
    /\ job = [t \in Threads |-> None]
    /\ process = [t \in Threads |-> "none"]
    /\ built = {}
    /\ verdict = "running"

-------------------------------------------------------------------------------
(* Threads: _Workers.run.work *)

Go(t, step) == pc' = [pc EXCEPT ![t] = step]
Becomes(t, state) == process' = [process EXCEPT ![t] = state]

(* Mutant: the queue is looked at and only later popped. *)
PeekJob(t) ==
    /\ pc[t] = "take"
    /\ pending # << >>
    /\ job' = [job EXCEPT ![t] = Head(pending)]
    /\ pending' = IF \E u \in Threads \ {t} : pc[u] = "take"
                  THEN pending ELSE Tail(pending)
    /\ Go(t, IF process[t] = "none" THEN "start" ELSE "ask")
    /\ UNCHANGED <<failures, process, built, verdict>>

TakeJob(t) ==
    /\ pc[t] = "take"
    /\ pending # << >>
    /\ job' = [job EXCEPT ![t] = Head(pending)]
    /\ pending' = Tail(pending)
    /\ Go(t, IF process[t] = "none" THEN "start" ELSE "ask")
    /\ UNCHANGED <<failures, process, built, verdict>>

QueueEmpty(t) ==
    /\ pc[t] = "take"
    /\ pending = << >>
    /\ job' = [job EXCEPT ![t] = None]
    /\ Go(t, IF process[t] = "none" THEN "joined" ELSE "stop")
    /\ UNCHANGED <<pending, failures, process, built, verdict>>

(* Popen either starts the process or raises with no process to stop. *)
StartProcess(t) ==
    /\ pc[t] = "start"
    /\ \/ Becomes(t, "up") /\ Go(t, "ask")
       \/ UNCHANGED process /\ Go(t, "raised")
    /\ UNCHANGED <<pending, failures, job, built, verdict>>

(* A job written to a process that is gone is lost in the pipe or refused   *)
(* by it: either way there is no reply to read.                             *)
SendJob(t) ==
    /\ pc[t] = "ask"
    /\ IF process[t] = "up" THEN Becomes(t, "busy") ELSE UNCHANGED process
    /\ Go(t, "reply")
    /\ UNCHANGED <<pending, failures, job, built, verdict>>

(* Mutant: a worker that died is not a failed unit. *)
ForgetDeath(t) ==
    /\ pc[t] = "reply"
    /\ process[t] = "dead"
    /\ Becomes(t, "none")
    /\ Go(t, "take")
    /\ UNCHANGED <<pending, failures, job, built, verdict>>

(* Mutant: a dead process is written to again. *)
KeepDeadProcess(t) ==
    /\ pc[t] = "reply"
    /\ process[t] = "dead"
    /\ Go(t, "ask")
    /\ UNCHANGED <<pending, process, failures, job, built, verdict>>

(* The worker died on this unit: report it, start afresh. *)
ReadNothing(t) ==
    /\ pc[t] = "reply"
    /\ process[t] = "dead"
    /\ Becomes(t, "none")
    /\ failures' = failures \cup {job[t]}
    /\ Go(t, "take")
    /\ UNCHANGED <<pending, job, built, verdict>>

(* Mutant: the failed unit is the one the reply names, and a reply to a job *)
(* the indexer could not read names none.                                   *)
ReadReplyOutput(t) ==
    /\ pc[t] = "reply"
    /\ process[t] \in {"ok", "failed"}
    /\ failures' \in IF process[t] = "ok" THEN {failures}
                     ELSE {failures \cup {job[t]}, failures \cup {None}}
    /\ Becomes(t, "up")
    /\ Go(t, "take")
    /\ UNCHANGED <<pending, job, built, verdict>>

ReadReply(t) ==
    /\ pc[t] = "reply"
    /\ process[t] \in {"ok", "failed"}
    /\ failures' = IF process[t] = "ok" THEN failures ELSE failures \cup {job[t]}
    /\ Becomes(t, "up")
    /\ Go(t, "take")
    /\ UNCHANGED <<pending, job, built, verdict>>

(* Mutant: the exception leaves the thread without stopping the process. *)
ReadTornAndLeave(t) ==
    /\ pc[t] = "reply"
    /\ process[t] = "torn"
    /\ Go(t, "raised")
    /\ UNCHANGED <<pending, failures, job, process, built, verdict>>

(* json.loads raises on part of a line; work's finally stops the process. *)
ReadTornReply(t) ==
    /\ pc[t] = "reply"
    /\ process[t] = "torn"
    /\ Go(t, "raise")
    /\ UNCHANGED <<pending, failures, job, process, built, verdict>>

(* _stop closes stdin and waits: the process reads end of file and leaves.  *)
StopProcess(t) ==
    /\ pc[t] \in {"stop", "raise"}
    /\ Becomes(t, "none")
    /\ Go(t, IF pc[t] = "stop" THEN "joined" ELSE "raised")
    /\ UNCHANGED <<pending, failures, job, built, verdict>>

Thread(t) ==
    \/ TakeJob(t) \/ QueueEmpty(t) \/ StartProcess(t) \/ SendJob(t)
    \/ ReadNothing(t) \/ ReadReply(t) \/ ReadTornReply(t) \/ StopProcess(t)

-------------------------------------------------------------------------------
(* Processes: indexer.cpp:serve *)

(* runJob: the output stays only when the unit was indexed; the reply comes *)
(* after it and may be cut short.                                           *)
FinishJob(t) ==
    /\ process[t] = "busy"
    /\ \E status \in {"ok", "failed"} :
        /\ built' = IF status = "ok" THEN built \cup {job[t]} ELSE built
        /\ process' \in {[process EXCEPT ![t] = status],
                         [process EXCEPT ![t] = "torn"]}
    /\ UNCHANGED <<pending, failures, pc, job, verdict>>

(* It is killed: idle, or with a unit half indexed or indexed and not yet   *)
(* reported.  Half an output is never read: nothing was reported for it.    *)
Die(t) ==
    /\ process[t] \in {"up", "busy"}
    /\ Becomes(t, "dead")
    /\ built' \in IF process[t] = "busy" THEN {built, built \cup {job[t]}} ELSE {built}
    /\ UNCHANGED <<pending, failures, pc, job, verdict>>

-------------------------------------------------------------------------------
(* The collection *)

AllJoined == \A t \in Threads : pc[t] \in {"joined", "raised"}

(* With a failure every output is removed and the collection raises;        *)
(* without one every output is loaded, and one that is not there raises.    *)
Collect ==
    /\ AllJoined
    /\ verdict = "running"
    /\ verdict' = IF failures # {} THEN "failed"
                  ELSE IF Jobs \subseteq built THEN "published"
                  ELSE "missing output"
    /\ built' = IF failures # {} THEN {} ELSE built
    /\ UNCHANGED <<pending, failures, pc, job, process>>

Next ==
    \/ \E t \in Threads : Thread(t) \/ FinishJob(t) \/ Die(t)
    \/ Collect

(* A thread that can run does, and Clang ends every unit it is given: the   *)
(* code has no timeout, so one that never ends would hold the collection    *)
(* for ever.  No process has to die.                                        *)
Fairness ==
    /\ \A t \in Threads : WF_vars(Thread(t)) /\ WF_vars(FinishJob(t))
    /\ WF_vars(Collect)

Spec == Init /\ [][Next]_vars /\ Fairness

-------------------------------------------------------------------------------
(* Properties *)

Holds(t, j) ==
    job[t] = j /\ pc[t] \in {"start", "ask", "reply", "raise", "raised"}

(* A unit is unaccounted for, neither built nor reported, only when the     *)
(* thread that had it in hand raised, or when every thread did and nobody   *)
(* was left to take it: no death, refusal or failed reply loses a job.      *)
LostOnlyByRaise ==
    AllJoined /\ verdict = "running" =>
        \A j \in Jobs \ (built \cup failures) :
            \/ \E t \in Threads : Holds(t, j)
            \/ /\ \A t \in Threads : pc[t] = "raised"
               /\ \E i \in DOMAIN pending : pending[i] = j

(* However its thread ends, no indexer process outlives the phase.          *)
NoOrphans == AllJoined => \A t \in Threads : process[t] = "none"

(* The collection always ends: deaths, torn replies and raised threads never *)
(* leave a thread waiting for a reply nobody will write.                    *)
Ends == <>(verdict # "running")

(* What run promises (JobPool): every job is given to one worker once and   *)
(* settled once.                                                            *)
Status(j) ==
    IF \E i \in DOMAIN pending : pending[i] = j THEN "queued"
    ELSE IF \E t \in Threads : Holds(t, j) /\ pc[t] \in {"raise", "raised"}
    THEN "lost"
    ELSE IF j \in failures THEN "failed"
    ELSE IF \E t \in Threads : Holds(t, j) THEN "given"
    ELSE "indexed"

Abstract == INSTANCE JobPool WITH
    status <- [j \in Jobs |-> Status(j)],
    given <- [t \in Threads |-> IF \E j \in Jobs : Holds(t, j) THEN job[t] ELSE None]

ImplementsJobPool == Abstract!Spec

(* reccmp/source/batch.py:297, "Run every job; returns diagnostics for each *)
(* output that failed": when the threads have joined, a unit without an     *)
(* output is among the failures.                                            *)
FailuresAreComplete ==
    AllJoined /\ verdict = "running" => Jobs \ built \subseteq failures
===============================================================================
