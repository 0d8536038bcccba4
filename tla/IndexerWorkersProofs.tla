-------------------------- MODULE IndexerWorkersProofs --------------------------
(***************************************************************************)
(* Proofs about the index phase, for any number of jobs and threads,       *)
(* processes that die at any moment, torn replies and processes that do    *)
(* not start.  A thread's place tells what its process can be doing        *)
(* (PlaceInv), a job is in one place only (OnceInv), and until the         *)
(* collection has looked none is nowhere (KnownInv).                       *)
(***************************************************************************)
EXTENDS IndexerWorkers, FiniteSetTheorems, SequenceTheorems, TLAPS

Queued(j) == \E i \in DOMAIN pending : pending[i] = j

(* The places in which a thread has its job in hand. *)
Busy == {"start", "ask", "reply", "raise", "raised"}

(* What the process of a thread can be doing, by the thread's place. *)
CanBe(place) ==
    CASE place = "take"  -> {"none", "up", "dead"}
      [] place = "ask"   -> {"up", "dead"}
      [] place = "reply" -> {"busy", "ok", "failed", "torn", "dead"}
      [] place = "stop"  -> {"up", "dead"}
      [] place = "raise" -> {"torn"}
      [] OTHER           -> {"none"}

PlaceInv ==
    \A t \in Threads :
       /\ process[t] \in CanBe(pc[t])
       /\ pc[t] \in {"stop", "joined"} => pending = << >>
       /\ pc[t] \in Busy => job[t] \in Jobs

(* A job is queued once, or in one thread's hand, or reported. *)
OnceInv ==
    /\ \A i, k \in DOMAIN pending : pending[i] = pending[k] => i = k
    /\ \A t \in Threads : pc[t] \in Busy => ~Queued(job[t]) /\ job[t] \notin failures
    /\ \A t, u \in Threads : pc[t] \in Busy /\ pc[u] \in Busy /\ job[t] = job[u] => t = u
    /\ \A j \in failures : ~Queued(j)

(* No job is nowhere, and "ok" is said of one that is built. *)
KnownInv ==
    verdict = "running" =>
       /\ \A t \in Threads : process[t] = "ok" => job[t] \in built
       /\ \A j \in Jobs : \/ j \in built \cup failures
                          \/ Queued(j)
                          \/ \E t \in Threads : pc[t] \in Busy /\ job[t] = j

Inv == TypeOK /\ PlaceInv /\ OnceInv /\ KnownInv

-------------------------------------------------------------------------------
(* The queue *)

LEMMA QueueFacts ==
    ASSUME pending \in Seq(Jobs), pending # << >>
    PROVE  /\ Head(pending) \in Jobs /\ Tail(pending) \in Seq(Jobs)
           /\ DOMAIN pending = 1 .. Len(pending) /\ Len(pending) \in Nat \ {0}
           /\ Head(pending) = pending[1]
           /\ DOMAIN Tail(pending) = 1 .. (Len(pending) - 1)
           /\ \A i \in DOMAIN Tail(pending) :
                 Tail(pending)[i] = pending[i + 1] /\ i + 1 \in DOMAIN pending
OBVIOUS

(* Popping the queue takes the head, and nothing else, out of it. *)
LEMMA Popped ==
    ASSUME pending \in Seq(Jobs), pending # << >>, pending' = Tail(pending),
           \A i, k \in DOMAIN pending : pending[i] = pending[k] => i = k
    PROVE  /\ \A j : Queued(j)' <=> Queued(j) /\ j # Head(pending)
           /\ Queued(Head(pending))
           /\ \A i, k \in DOMAIN pending' : pending'[i] = pending'[k] => i = k
<1>1. ASSUME NEW j, Queued(j)' PROVE Queued(j) /\ j # Head(pending)
  <2>1. PICK i \in DOMAIN Tail(pending) : Tail(pending)[i] = j
        BY <1>1 DEF Queued
  <2>2. i + 1 \in DOMAIN pending /\ pending[i + 1] = j /\ i \in Nat \ {0} /\ 1 \in DOMAIN pending
        BY <2>1, QueueFacts
  <2>3. Head(pending) = pending[1] /\ i + 1 # 1
        BY <2>2, QueueFacts
  <2> QED  BY <2>2, <2>3 DEF Queued
<1>2. ASSUME NEW j, Queued(j), j # Head(pending) PROVE Queued(j)'
  <2>1. PICK i \in DOMAIN pending : pending[i] = j
        BY <1>2 DEF Queued
  <2>2. i # 1 /\ i \in 1 .. Len(pending) /\ Len(pending) \in Nat
        BY <1>2, <2>1, QueueFacts
  <2>3. i - 1 \in DOMAIN Tail(pending) /\ Tail(pending)[i - 1] = pending[(i - 1) + 1]
        BY <2>2, QueueFacts
  <2>4. (i - 1) + 1 = i
        BY <2>2
  <2> QED  BY <2>1, <2>3, <2>4 DEF Queued
<1>3. Queued(Head(pending))
  <2>1. 1 \in DOMAIN pending /\ pending[1] = Head(pending)
        BY QueueFacts
  <2> QED  BY <2>1 DEF Queued
<1>4. ASSUME NEW i \in DOMAIN pending', NEW k \in DOMAIN pending', pending'[i] = pending'[k]
      PROVE  i = k
  <2>1. /\ i \in Nat /\ k \in Nat /\ i + 1 \in DOMAIN pending /\ k + 1 \in DOMAIN pending
        /\ pending[i + 1] = pending[k + 1]
        BY <1>4, QueueFacts
  <2> QED  BY <2>1
<1> QED  BY <1>1, <1>2, <1>3, <1>4

-------------------------------------------------------------------------------
(* The invariant *)

LEMMA InitQueued == Init => pending \in Seq(Jobs) /\ \A j \in Jobs : Queued(j)
<1> SUFFICES ASSUME Init PROVE pending \in Seq(Jobs) /\ \A j \in Jobs : Queued(j)
    OBVIOUS
<1>1. Cardinality(Jobs) \in Nat
      BY WorkersAssumption, FS_CardinalityType
<1> DEFINE n == Cardinality(Jobs)
<1>2. pending \in [1 .. n -> Jobs] /\ \A i, k \in 1 .. n : pending[i] = pending[k] => i = k
      BY DEF Init, Orders
<1>3. pending \in Injection(1 .. n, Jobs)
      BY <1>2 DEF Injection, IsInjective
<1>4. IsFiniteSet(1 .. n) /\ Cardinality(1 .. n) = n
      BY <1>1, FS_Interval
<1>5. pending \in Surjection(1 .. n, Jobs)
      BY <1>3, <1>4, WorkersAssumption, FS_Injection
<1>6. \A j \in Jobs : Queued(j)
      BY <1>2, <1>5 DEF Surjection, Queued
<1> QED  BY <1>1, <1>2, <1>6, IsASeq

LEMMA InitInv == Init => Inv
<1> SUFFICES ASSUME Init PROVE Inv
    OBVIOUS
<1>1. \A i, k \in DOMAIN pending : pending[i] = pending[k] => i = k
      BY DEF Init, Orders
<1>2. TypeOK
      BY InitQueued DEF Init, TypeOK, ProcessStates
<1>3. PlaceInv
      BY DEF Init, PlaceInv, Busy, CanBe
<1>4. OnceInv
      BY <1>1 DEF Init, OnceInv, Busy
<1>5. KnownInv
      BY InitQueued DEF Init, KnownInv
<1> QED  BY <1>2, <1>3, <1>4, <1>5 DEF Inv

LEMMA TakeJobKept == ASSUME Inv, NEW t \in Threads, TakeJob(t) PROVE Inv'
<1> USE DEF TakeJob, Go
<1>1. TypeOK /\ PlaceInv /\ OnceInv /\ KnownInv /\ pc[t] \notin Busy
      BY DEF Inv, Busy
<1>2. /\ Head(pending) \in Jobs /\ Tail(pending) \in Seq(Jobs)
      /\ \A j : Queued(j)' <=> Queued(j) /\ j # Head(pending)
      /\ Queued(Head(pending))
      /\ \A i, k \in DOMAIN pending' : pending'[i] = pending'[k] => i = k
      BY <1>1, QueueFacts, Popped DEF TypeOK, OnceInv
<1>3. /\ pc'[t] \in {"start", "ask"} /\ job'[t] = Head(pending)
      /\ process[t] \in CanBe(pc'[t])
      /\ \A u \in Threads \ {t} : pc'[u] = pc[u] /\ job'[u] = job[u]
      BY <1>1 DEF TypeOK, PlaceInv, CanBe
<1>4. TypeOK'
      BY <1>1, <1>2, <1>3 DEF TypeOK
<1>5. PlaceInv'
      BY <1>1, <1>2, <1>3 DEF PlaceInv, Busy
<1>6. OnceInv'
      BY <1>1, <1>2, <1>3 DEF OnceInv, PlaceInv, Busy
<1>7. KnownInv'
  <2> SUFFICES ASSUME verdict = "running" PROVE KnownInv'
      BY DEF KnownInv
  <2>1. \A u \in Threads : process[u] = "ok" => job'[u] \in built
        BY <1>1, <1>3 DEF KnownInv, PlaceInv, CanBe
  <2>2. ASSUME NEW j \in Jobs, j \notin built \cup failures, ~Queued(j)'
        PROVE  \E u \in Threads : pc'[u] \in Busy /\ job'[u] = j
    <3>1. CASE j = Head(pending)
          BY <1>3, <3>1 DEF Busy
    <3>2. CASE j # Head(pending)
      <4>1. PICK u \in Threads : pc[u] \in Busy /\ job[u] = j
            BY <1>1, <1>2, <2>2, <3>2 DEF KnownInv
      <4> QED  BY <1>1, <1>3, <4>1
    <3> QED  BY <3>1, <3>2
  <2> QED  BY <2>1, <2>2 DEF KnownInv
<1> QED  BY <1>4, <1>5, <1>6, <1>7 DEF Inv

(* A step of a thread that leaves the queue alone, by what it does to the   *)
(* job in hand.                                                             *)
LEMMA QueueKept == ASSUME UNCHANGED pending PROVE \A j : Queued(j)' <=> Queued(j)
BY DEF Queued

LEMMA QueueEmptyKept == ASSUME Inv, NEW t \in Threads, QueueEmpty(t) PROVE Inv'
<1> USE DEF QueueEmpty, Go
<1>1. TypeOK /\ PlaceInv /\ OnceInv /\ KnownInv /\ pc[t] \notin Busy
      BY DEF Inv, Busy
<1>2. /\ pc'[t] \in {"stop", "joined"} /\ process[t] \in CanBe(pc'[t])
      /\ process[t] # "ok" /\ job'[t] = None
      /\ \A u \in Threads \ {t} : pc'[u] = pc[u] /\ job'[u] = job[u]
      BY <1>1 DEF TypeOK, PlaceInv, CanBe
<1>3. TypeOK'
      BY <1>1, <1>2 DEF TypeOK
<1>4. PlaceInv'
      BY <1>1, <1>2 DEF PlaceInv, Busy
<1>5. OnceInv'
      BY <1>1, <1>2, QueueKept DEF OnceInv, Busy
<1>6. KnownInv'
      BY <1>1, <1>2, QueueKept DEF KnownInv, Busy
<1> QED  BY <1>3, <1>4, <1>5, <1>6 DEF Inv

(* A step after which the thread still has its job. *)
LEMMA StillBusy ==
    ASSUME Inv, NEW t \in Threads, pc[t] \in Busy, pc'[t] \in Busy,
           \A u \in Threads \ {t} : pc'[u] = pc[u] /\ process'[u] = process[u],
           pc' \in [Threads -> {"take", "start", "ask", "reply", "stop", "raise",
                                "joined", "raised"}],
           process' \in [Threads -> ProcessStates],
           process'[t] \in CanBe(pc'[t]), process'[t] = "ok" => process[t] = "ok",
           UNCHANGED <<pending, failures, job, built, verdict>>
    PROVE  Inv'
<1>1. TypeOK /\ PlaceInv /\ OnceInv /\ KnownInv
      BY DEF Inv
<1>2. TypeOK'
      BY <1>1 DEF TypeOK
<1>3. PlaceInv'
      BY <1>1 DEF PlaceInv, Busy
<1>4. OnceInv'
      BY <1>1, QueueKept DEF OnceInv
<1>5. KnownInv'
      BY <1>1, QueueKept DEF KnownInv
<1> QED  BY <1>2, <1>3, <1>4, <1>5 DEF Inv

LEMMA StartProcessKept == ASSUME Inv, NEW t \in Threads, StartProcess(t) PROVE Inv'
<1>1. TypeOK /\ PlaceInv
      BY DEF Inv
<1>2. /\ pc[t] \in Busy /\ pc'[t] \in {"ask", "raised"}
      /\ process'[t] \in CanBe(pc'[t]) /\ process'[t] # "ok"
      /\ \A u \in Threads \ {t} : pc'[u] = pc[u] /\ process'[u] = process[u]
      BY <1>1 DEF StartProcess, Go, Becomes, TypeOK, PlaceInv, CanBe, Busy
<1>3. process' \in [Threads -> ProcessStates]
      BY <1>1 DEF StartProcess, Becomes, TypeOK, ProcessStates
<1>4. pc' \in [Threads -> {"take", "start", "ask", "reply", "stop", "raise", "joined", "raised"}]
      BY <1>1 DEF StartProcess, Go, TypeOK
<1> QED  BY <1>2, <1>3, <1>4, StillBusy DEF StartProcess, Busy

LEMMA SendJobKept == ASSUME Inv, NEW t \in Threads, SendJob(t) PROVE Inv'
<1>1. TypeOK /\ PlaceInv
      BY DEF Inv
<1>2. /\ pc[t] \in Busy /\ pc'[t] = "reply" /\ process'[t] \in {"busy", "dead"}
      /\ \A u \in Threads \ {t} : pc'[u] = pc[u] /\ process'[u] = process[u]
      BY <1>1 DEF SendJob, Go, Becomes, TypeOK, PlaceInv, CanBe, Busy
<1>3. process' \in [Threads -> ProcessStates]
      BY <1>1 DEF SendJob, Becomes, TypeOK, ProcessStates
<1>4. pc' \in [Threads -> {"take", "start", "ask", "reply", "stop", "raise", "joined", "raised"}]
      BY <1>1 DEF SendJob, Go, TypeOK
<1>5. process'[t] \in CanBe(pc'[t])
      BY <1>2 DEF CanBe
<1> QED  BY <1>2, <1>3, <1>4, <1>5, StillBusy DEF SendJob, Busy

LEMMA ReadTornReplyKept == ASSUME Inv, NEW t \in Threads, ReadTornReply(t) PROVE Inv'
<1>1. TypeOK
      BY DEF Inv
<1>2. /\ pc[t] \in Busy /\ pc'[t] = "raise" /\ process'[t] = "torn"
      /\ \A u \in Threads \ {t} : pc'[u] = pc[u] /\ process'[u] = process[u]
      BY <1>1 DEF ReadTornReply, Go, TypeOK, Busy
<1>3. pc' \in [Threads -> {"take", "start", "ask", "reply", "stop", "raise", "joined", "raised"}]
      BY <1>1 DEF ReadTornReply, Go, TypeOK
<1>4. process'[t] \in CanBe(pc'[t])
      BY <1>2 DEF CanBe
<1> QED  BY <1>1, <1>2, <1>3, <1>4, StillBusy DEF ReadTornReply, TypeOK, Busy

LEMMA StopProcessKept == ASSUME Inv, NEW t \in Threads, StopProcess(t) PROVE Inv'
<1> USE DEF StopProcess, Go, Becomes
<1>1. TypeOK /\ PlaceInv /\ OnceInv /\ KnownInv
      BY DEF Inv
<1>2. process' \in [Threads -> ProcessStates] /\ process'[t] = "none"
      /\ \A u \in Threads \ {t} : pc'[u] = pc[u] /\ process'[u] = process[u]
      BY <1>1 DEF TypeOK, ProcessStates
<1>3. pc' \in [Threads -> {"take", "start", "ask", "reply", "stop", "raise", "joined", "raised"}]
      BY <1>1 DEF TypeOK
<1>4. CASE pc[t] = "raise"
  <2>1. pc'[t] = "raised" /\ process'[t] \in CanBe(pc'[t])
        BY <1>1, <1>2, <1>4 DEF TypeOK, CanBe
  <2> QED  BY <1>2, <1>3, <1>4, <2>1, StillBusy DEF Busy
<1>5. CASE pc[t] = "stop"
  <2>1. pc'[t] = "joined" /\ process'[t] \in CanBe(pc'[t]) /\ pc'[t] \notin Busy /\ pc[t] \notin Busy
        BY <1>1, <1>2, <1>5 DEF TypeOK, CanBe, Busy
  <2>2. TypeOK'
        BY <1>1, <1>2, <1>3 DEF TypeOK
  <2>3. PlaceInv'
        BY <1>1, <1>2, <1>5, <2>1 DEF PlaceInv, Busy
  <2>4. OnceInv'
        BY <1>1, <1>2, <2>1, QueueKept DEF OnceInv
  <2>5. KnownInv'
        BY <1>1, <1>2, <2>1, QueueKept DEF KnownInv
  <2> QED  BY <2>2, <2>3, <2>4, <2>5 DEF Inv
<1> QED  BY <1>4, <1>5

(* A step that settles the thread's job. *)
LEMMA SettledKept ==
    ASSUME Inv, NEW t \in Threads, pc[t] = "reply", pc' = [pc EXCEPT ![t] = "take"],
           process' \in {[process EXCEPT ![t] = "none"], [process EXCEPT ![t] = "up"]},
           \/ failures' = failures /\ process[t] = "ok"
           \/ failures' = failures \cup {job[t]},
           UNCHANGED <<pending, job, built, verdict>>
    PROVE  Inv'
<1>1. TypeOK /\ PlaceInv /\ OnceInv /\ KnownInv /\ pc[t] \in Busy /\ job[t] \in Jobs
      BY DEF Inv, Busy, PlaceInv
<1>2. /\ pc'[t] = "take" /\ pc'[t] \notin Busy /\ process'[t] \in {"none", "up"}
      /\ \A u \in Threads \ {t} : pc'[u] = pc[u] /\ process'[u] = process[u]
      BY <1>1 DEF TypeOK, Busy
<1>3. TypeOK'
      BY <1>1 DEF TypeOK, ProcessStates
<1>4. PlaceInv'
  <2>1. process'[t] \in CanBe(pc'[t])
        BY <1>2 DEF CanBe
  <2> QED  BY <1>1, <1>2, <2>1 DEF PlaceInv
<1>5. OnceInv'
      BY <1>1, <1>2, QueueKept DEF OnceInv
<1>6. KnownInv'
  <2> SUFFICES ASSUME verdict = "running" PROVE KnownInv'
      BY DEF KnownInv
  <2>1. \A u \in Threads : process'[u] = "ok" => job[u] \in built
        BY <1>1, <1>2 DEF KnownInv
  <2>2. job[t] \in built \cup failures'
        BY <1>1 DEF KnownInv
  <2>3. ASSUME NEW j \in Jobs, j \notin built \cup failures', ~Queued(j)'
        PROVE  \E u \in Threads : pc'[u] \in Busy /\ job[u] = j
    <3>1. PICK u \in Threads : pc[u] \in Busy /\ job[u] = j
          BY <1>1, <2>3, QueueKept DEF KnownInv
    <3> QED  BY <1>2, <2>2, <2>3, <3>1
  <2> QED  BY <2>1, <2>3 DEF KnownInv
<1> QED  BY <1>3, <1>4, <1>5, <1>6 DEF Inv

LEMMA ReadNothingKept == ASSUME Inv, NEW t \in Threads, ReadNothing(t) PROVE Inv'
BY SettledKept DEF ReadNothing, Go, Becomes

LEMMA ReadReplyKept == ASSUME Inv, NEW t \in Threads, ReadReply(t) PROVE Inv'
BY SettledKept DEF ReadReply, Go, Becomes

(* A step of a process: its thread is where it was. *)
LEMMA ProcessKept ==
    ASSUME Inv, NEW t \in Threads,
           process' \in [Threads -> ProcessStates],
           \A u \in Threads \ {t} : process'[u] = process[u],
           process'[t] \in CanBe(pc[t]), process'[t] = "ok" => job[t] \in built',
           built \subseteq built', built' \subseteq Jobs,
           UNCHANGED <<pending, failures, pc, job, verdict>>
    PROVE  Inv'
<1>1. TypeOK /\ PlaceInv /\ OnceInv /\ KnownInv
      BY DEF Inv
<1>2. TypeOK' /\ PlaceInv'
      BY <1>1 DEF TypeOK, PlaceInv
<1>3. OnceInv'
      BY <1>1, QueueKept DEF OnceInv
<1>4. KnownInv'
      BY <1>1, QueueKept DEF KnownInv
<1> QED  BY <1>2, <1>3, <1>4 DEF Inv

LEMMA FinishJobKept == ASSUME Inv, NEW t \in Threads, FinishJob(t) PROVE Inv'
<1>1. TypeOK /\ PlaceInv
      BY DEF Inv
<1>2. pc[t] = "reply" /\ job[t] \in Jobs
      BY <1>1 DEF FinishJob, TypeOK, PlaceInv, CanBe, Busy
<1>3. PICK status \in {"ok", "failed"} :
         /\ built' = IF status = "ok" THEN built \cup {job[t]} ELSE built
         /\ process' \in {[process EXCEPT ![t] = status], [process EXCEPT ![t] = "torn"]}
      BY DEF FinishJob
<1>4. /\ process' \in [Threads -> ProcessStates]
      /\ \A u \in Threads \ {t} : process'[u] = process[u]
      /\ process'[t] \in {status, "torn"}
      BY <1>1, <1>3 DEF TypeOK, ProcessStates
<1>5. process'[t] \in CanBe(pc[t])
      BY <1>2, <1>4 DEF CanBe
<1>6. built \subseteq built' /\ built' \subseteq Jobs /\ (process'[t] = "ok" => job[t] \in built')
      BY <1>1, <1>2, <1>3, <1>4 DEF TypeOK
<1> QED  BY <1>4, <1>5, <1>6, ProcessKept DEF FinishJob

LEMMA DieKept == ASSUME Inv, NEW t \in Threads, Die(t) PROVE Inv'
<1>1. TypeOK /\ PlaceInv
      BY DEF Inv
<1>2. /\ process' \in [Threads -> ProcessStates] /\ process'[t] = "dead"
      /\ \A u \in Threads \ {t} : process'[u] = process[u]
      BY <1>1 DEF Die, Becomes, TypeOK, ProcessStates
<1>3. process'[t] \in CanBe(pc[t])
      BY <1>1, <1>2 DEF Die, PlaceInv, CanBe
<1>4. process[t] = "busy" => job[t] \in Jobs
      BY <1>1 DEF PlaceInv, CanBe, TypeOK, Busy
<1>5. built \subseteq built' /\ built' \subseteq Jobs
      BY <1>1, <1>4 DEF Die, TypeOK
<1> QED  BY <1>2, <1>3, <1>5, ProcessKept DEF Die

LEMMA CollectKept == ASSUME Inv, Collect PROVE Inv'
<1>1. TypeOK /\ PlaceInv /\ OnceInv
      BY DEF Inv
<1>2. TypeOK' /\ PlaceInv'
      BY <1>1 DEF Collect, TypeOK, PlaceInv
<1>3. OnceInv'
      BY <1>1, QueueKept DEF Collect, OnceInv
<1>4. KnownInv'
      BY DEF Collect, KnownInv
<1> QED  BY <1>2, <1>3, <1>4 DEF Inv

LEMMA InvKept == Inv /\ [Next]_vars => Inv'
<1>1. ASSUME Inv, UNCHANGED vars PROVE Inv'
      BY <1>1, QueueKept DEF Inv, vars, TypeOK, PlaceInv, OnceInv, KnownInv
<1> QED
    BY <1>1, TakeJobKept, QueueEmptyKept, StartProcessKept, SendJobKept, ReadNothingKept,
       ReadReplyKept, ReadTornReplyKept, StopProcessKept, FinishJobKept, DieKept, CollectKept
    DEF Next, Thread

-------------------------------------------------------------------------------
(* The theorems *)

(* A job is in one place, and a process does what its thread's place allows.*)
THEOREM Invariance == Spec => []Inv
BY InitInv, InvKept, PTL DEF Spec

(* Every variable keeps its type. *)
THEOREM TypeCorrect == Spec => []TypeOK
<1>1. Inv => TypeOK
      BY DEF Inv
<1> QED  BY Invariance, <1>1, PTL

(* _Workers.run: a unit is neither built nor reported only when its thread, *)
(* or every thread, raised.                                                 *)
THEOREM OnlyRaiseLoses == Spec => []LostOnlyByRaise
<1>1. Inv => LostOnlyByRaise
  <2> SUFFICES ASSUME Inv, AllJoined, verdict = "running",
                      NEW j \in Jobs, j \notin built \cup failures,
                      ~ \E t \in Threads : Holds(t, j)
               PROVE  /\ \A t \in Threads : pc[t] = "raised"
                      /\ \E i \in DOMAIN pending : pending[i] = j
      BY DEF LostOnlyByRaise
  <2>1. Queued(j)
        BY DEF Inv, KnownInv, Holds, Busy
  <2>2. pending # << >>
        BY <2>1 DEF Queued
  <2>3. \A t \in Threads : pc[t] # "joined"
        BY <2>2 DEF Inv, PlaceInv
  <2> QED  BY <2>1, <2>3 DEF Queued, AllJoined
<1> QED  BY Invariance, <1>1, PTL

(* work's finally: no process outlives its thread. *)
THEOREM NoneOutlives == Spec => []NoOrphans
<1>1. Inv => NoOrphans
      BY DEF Inv, PlaceInv, CanBe, NoOrphans, AllJoined
<1> QED  BY Invariance, <1>1, PTL

-------------------------------------------------------------------------------
(* The index phase implements the pool of jobs *)

StatusOf == [j \in Jobs |-> Status(j)]
GivenOf == [t \in Threads |-> IF \E j \in Jobs : Holds(t, j) THEN job[t] ELSE None]

(* What a pool says, by the places of its jobs. *)
LEMMA StatusFacts ==
    ASSUME NEW j
    PROVE  /\ Queued(j) => Status(j) = "queued"
           /\ \A t \in Threads :
                 /\ Inv /\ pc[t] \in {"raise", "raised"} /\ job[t] = j => Status(j) = "lost"
                 /\ Inv /\ pc[t] \in {"start", "ask", "reply"} /\ job[t] = j => Status(j) = "given"
           /\ Inv /\ j \in failures => Status(j) = "failed"
           /\ ~Queued(j) /\ j \notin failures /\ (\A t \in Threads : pc[t] \in Busy => job[t] # j)
                 => Status(j) = "indexed"
<1>1. Queued(j) => Status(j) = "queued"
      BY DEF Queued, Status
<1>2. ASSUME Inv, NEW t \in Threads, pc[t] \in {"raise", "raised"}, job[t] = j
      PROVE  Status(j) = "lost"
  <2>1. ~Queued(j)
        BY <1>2 DEF Inv, OnceInv, Busy
  <2> QED  BY <1>2, <2>1 DEF Status, Holds, Queued
<1>3. ASSUME Inv, NEW t \in Threads, pc[t] \in {"start", "ask", "reply"}, job[t] = j
      PROVE  Status(j) = "given"
  <2>1. ~Queued(j) /\ j \notin failures
        BY <1>3 DEF Inv, OnceInv, Busy
  <2>2. \A u \in Threads : pc[u] \in {"raise", "raised"} => job[u] # j
        BY <1>3 DEF Inv, OnceInv, Busy
  <2> QED  BY <1>3, <2>1, <2>2 DEF Status, Holds, Queued
<1>4. ASSUME Inv, j \in failures PROVE Status(j) = "failed"
  <2>1. ~Queued(j) /\ \A u \in Threads : pc[u] \in Busy => job[u] # j
        BY <1>4 DEF Inv, OnceInv
  <2> QED  BY <1>4, <2>1 DEF Status, Holds, Queued, Busy
<1>5. ~Queued(j) /\ j \notin failures /\ (\A t \in Threads : pc[t] \in Busy => job[t] # j)
        => Status(j) = "indexed"
      BY DEF Status, Holds, Queued, Busy
<1> QED  BY <1>1, <1>2, <1>3, <1>4, <1>5

LEMMA GivenFacts ==
    ASSUME Inv
    PROVE  GivenOf = [t \in Threads |-> IF pc[t] \in Busy THEN job[t] ELSE None]
BY DEF GivenOf, Holds, Busy, Inv, PlaceInv

(* A job whose places are the same has the same status. *)
LEMMA StatusKept ==
    ASSUME NEW j, Queued(j)' <=> Queued(j), j \in failures' <=> j \in failures,
           \A t \in Threads : Holds(t, j)' <=> Holds(t, j),
           \A t \in Threads : Holds(t, j) => (pc'[t] \in {"raise", "raised"}
                                                <=> pc[t] \in {"raise", "raised"})
    PROVE  Status(j)' = Status(j)
BY DEF Status, Queued

LEMMA Stutters ==
    ASSUME Inv, Inv', UNCHANGED <<pending, failures>>,
           \A t \in Threads : pc'[t] \in Busy <=> pc[t] \in Busy,
           \A t \in Threads : pc[t] \in Busy => /\ job'[t] = job[t]
                                                /\ pc'[t] \in {"raise", "raised"}
                                                     <=> pc[t] \in {"raise", "raised"}
    PROVE  StatusOf' = StatusOf /\ GivenOf' = GivenOf
<1>1. \A j \in Jobs : Status(j)' = Status(j)
  <2> SUFFICES ASSUME NEW j \in Jobs PROVE Status(j)' = Status(j)
      OBVIOUS
  <2>1. \A t \in Threads : Holds(t, j)' <=> Holds(t, j)
        BY DEF Holds, Busy
  <2>2. \A t \in Threads : Holds(t, j) => (pc'[t] \in {"raise", "raised"}
                                             <=> pc[t] \in {"raise", "raised"})
        BY DEF Holds, Busy
  <2> QED  BY <2>1, <2>2, QueueKept, StatusKept
<1>2. GivenOf' = [t \in Threads |-> IF pc'[t] \in Busy THEN job'[t] ELSE None]
      BY GivenFacts DEF GivenOf, Holds, Busy, Inv, PlaceInv
<1> QED  BY <1>1, <1>2, GivenFacts DEF StatusOf

(* The status of every job but one, across a step of one thread. *)
LEMMA OthersKept ==
    ASSUME Inv, Inv', NEW t \in Threads, NEW j \in Jobs,
           \A k \in Jobs \ {j} : /\ Queued(k)' <=> Queued(k)
                                 /\ k \in failures' <=> k \in failures
           , \A u \in Threads \ {t} : pc'[u] = pc[u] /\ job'[u] = job[u],
           pc[t] \in Busy => job[t] = j, pc'[t] \in Busy => job'[t] = j
    PROVE  \A k \in Jobs \ {j} : StatusOf'[k] = StatusOf[k]
<1> SUFFICES ASSUME NEW k \in Jobs \ {j} PROVE Status(k)' = Status(k)
    BY DEF StatusOf
<1>1. ~Holds(t, k) /\ ~Holds(t, k)'
      BY DEF Holds, Busy
<1>2. \A u \in Threads \ {t} : Holds(u, k)' <=> Holds(u, k)
      BY DEF Holds
<1>3. \A u \in Threads : Holds(u, k)' <=> Holds(u, k)
      BY <1>1, <1>2
<1>4. \A u \in Threads : Holds(u, k) => (pc'[u] \in {"raise", "raised"}
                                           <=> pc[u] \in {"raise", "raised"})
      BY <1>1
<1> QED  BY <1>3, <1>4, StatusKept

LEMMA TakeJobGives ==
    ASSUME Inv, Inv', NEW t \in Threads, TakeJob(t), NEW j \in Jobs, j = Head(pending)
    PROVE  Abstract!Give(t, j)
<1> USE DEF TakeJob, Go
<1>1. TypeOK /\ OnceInv /\ pc[t] = "take" /\ pc[t] \notin Busy
      BY DEF Inv, Busy
<1>2. Queued(j) /\ \A k : Queued(k)' <=> Queued(k) /\ k # j
      BY <1>1, QueueFacts, Popped DEF TypeOK, OnceInv
<1>3. /\ pc'[t] \in {"start", "ask"} /\ job'[t] = j /\ pc'[t] \in Busy
      /\ \A u \in Threads \ {t} : pc'[u] = pc[u] /\ job'[u] = job[u]
      BY <1>1 DEF TypeOK, Busy
<1>4. StatusOf[j] = "queued"
      BY <1>2, StatusFacts DEF StatusOf
<1>5. Status(j)' = "given"
  <2>1. ~Queued(j)' /\ j \notin failures'
        BY <1>1, <1>2 DEF OnceInv
  <2>2. \A u \in Threads : pc'[u] \in {"raise", "raised"} => job'[u] # j
        BY <1>1, <1>2, <1>3 DEF OnceInv, Busy
  <2> QED  BY <1>3, <2>1, <2>2 DEF Status, Holds, Queued
<1>6. \A k \in Jobs \ {j} : StatusOf'[k] = StatusOf[k]
      BY <1>1, <1>2, <1>3, OthersKept
<1>7. StatusOf' = [StatusOf EXCEPT ![j] = "given"]
      BY <1>2, <1>5, <1>6 DEF StatusOf
<1>8. GivenOf[t] = None /\ GivenOf' = [GivenOf EXCEPT ![t] = j]
  <2>1. GivenOf' = [u \in Threads |-> IF pc'[u] \in Busy THEN job'[u] ELSE None]
        BY DEF GivenOf, Holds, Busy, Inv, PlaceInv
  <2> QED  BY <1>1, <1>3, <2>1, GivenFacts
<1> QED  BY <1>4, <1>7, <1>8 DEF Abstract!Give, StatusOf, GivenOf

(* A step that settles a job, by what the job's status is after it. *)
LEMMA Settles ==
    ASSUME Inv, Inv', NEW t \in Threads, NEW outcome,
           pc[t] \in {"start", "ask", "reply"}, Status(job[t])' = outcome,
           UNCHANGED <<pending, job>>, failures' \ {job[t]} = failures \ {job[t]},
           \A u \in Threads \ {t} : pc'[u] = pc[u],
           IF outcome = "lost" THEN pc'[t] \in Busy ELSE pc'[t] \notin Busy
    PROVE  Abstract!Settle(t, outcome)
<1>1. pc[t] \in Busy /\ job[t] \in Jobs /\ None \notin Jobs
      BY WorkersAssumption DEF Busy, Inv, PlaceInv
<1>2. GivenOf[t] = job[t] /\ GivenOf[t] # None
      BY <1>1, GivenFacts
<1>3. StatusOf[job[t]] = "given"
      BY <1>1, StatusFacts DEF StatusOf
<1>4. \A k \in Jobs \ {job[t]} : StatusOf'[k] = StatusOf[k]
      BY <1>1, QueueKept, OthersKept
<1>5. StatusOf' = [StatusOf EXCEPT ![job[t]] = outcome]
      BY <1>1, <1>4 DEF StatusOf
<1>6. GivenOf' = [GivenOf EXCEPT ![t] = IF outcome = "lost" THEN @ ELSE None]
  <2>1. GivenOf' = [u \in Threads |-> IF pc'[u] \in Busy THEN job'[u] ELSE None]
        BY DEF GivenOf, Holds, Busy, Inv, PlaceInv
  <2> QED  BY <1>1, <2>1, GivenFacts
<1> QED  BY <1>2, <1>3, <1>5, <1>6 DEF Abstract!Settle, StatusOf, GivenOf

LEMMA StatusNext ==
    ASSUME Inv', NEW t \in Threads
    PROVE  /\ pc'[t] \in {"raise", "raised"} => Status(job[t])' = "lost"
           /\ job'[t] \in failures' => Status(job[t])' = "failed"
<1>1. ASSUME pc'[t] \in {"raise", "raised"} PROVE Status(job[t])' = "lost"
  <2>1. ~Queued(job[t])'
        BY <1>1 DEF Inv, OnceInv, Busy
  <2> QED  BY <1>1, <2>1 DEF Status, Holds, Queued
<1>2. ASSUME job'[t] \in failures' PROVE Status(job[t])' = "failed"
  <2>1. ~Queued(job[t])' /\ \A u \in Threads : pc'[u] \in Busy => job'[u] # job'[t]
        BY <1>2 DEF Inv, OnceInv
  <2> QED  BY <1>2, <2>1 DEF Status, Holds, Queued, Busy
<1> QED  BY <1>1, <1>2

LEMMA ReplySettles ==
    ASSUME Inv, Inv', NEW t \in Threads, ReadNothing(t) \/ ReadReply(t)
    PROVE  \E outcome \in {"indexed", "failed"} : Abstract!Settle(t, outcome)
<1> USE DEF ReadNothing, ReadReply, Go
<1>1. TypeOK /\ OnceInv /\ pc[t] = "reply" /\ pc[t] \in Busy
      BY DEF Inv, Busy
<1>2. /\ pc'[t] = "take" /\ pc'[t] \notin Busy /\ UNCHANGED <<pending, job>>
      /\ \A u \in Threads \ {t} : pc'[u] = pc[u]
      BY <1>1 DEF TypeOK, Busy
<1>3. CASE failures' = failures \cup {job[t]}
  <2>1. Status(job[t])' = "failed"
        BY <1>2, <1>3, StatusNext
  <2> QED  BY <1>1, <1>2, <1>3, <2>1, Settles
<1>4. CASE failures' = failures
  <2>1. ~Queued(job[t])' /\ job[t] \notin failures'
        BY <1>1, <1>2, <1>4, QueueKept DEF OnceInv
  <2>2. \A u \in Threads : pc'[u] \in Busy => job'[u] # job[t]
        BY <1>1, <1>2 DEF OnceInv
  <2>3. Status(job[t])' = "indexed"
        BY <1>2, <2>1, <2>2 DEF Status, Holds, Queued, Busy
  <2> QED  BY <1>1, <1>2, <1>4, <2>3, Settles
<1> QED  BY <1>3, <1>4

LEMMA RaiseLoses ==
    ASSUME Inv, Inv', NEW t \in Threads, pc[t] \in {"start", "ask", "reply"},
           pc'[t] \in {"raise", "raised"}, \A u \in Threads \ {t} : pc'[u] = pc[u],
           UNCHANGED <<pending, failures, job>>
    PROVE  Abstract!Settle(t, "lost")
<1>1. Status(job[t])' = "lost" /\ pc'[t] \in Busy
      BY StatusNext DEF Busy
<1> QED  BY <1>1, Settles

(* The steps a pool does not see. *)
Silent(t) ==
    QueueEmpty(t) \/ SendJob(t) \/ StopProcess(t) \/ (StartProcess(t) /\ pc'[t] # "raised")

LEMMA StepImplementsPool ==
    ASSUME Inv, Inv', [Next]_vars
    PROVE  [Abstract!Next]_<<StatusOf, GivenOf>>
<1> USE DEF Go
<1>1. TypeOK
      BY DEF Inv
<1>2. ASSUME NEW t \in Threads, TakeJob(t) PROVE Abstract!Next
  <2>1. Head(pending) \in Jobs
        BY <1>1, <1>2, QueueFacts DEF TakeJob, TypeOK
  <2> QED  BY <1>2, <2>1, TakeJobGives DEF Abstract!Next
<1>3. ASSUME NEW t \in Threads, ReadNothing(t) \/ ReadReply(t) PROVE Abstract!Next
      BY <1>3, ReplySettles DEF Abstract!Next
<1>4. ASSUME NEW t \in Threads, ReadTornReply(t) PROVE Abstract!Next
  <2>1. Abstract!Settle(t, "lost")
        BY <1>1, <1>4, RaiseLoses DEF ReadTornReply, TypeOK
  <2> QED  BY <2>1 DEF Abstract!Next
<1>5. ASSUME NEW t \in Threads, StartProcess(t), pc'[t] = "raised" PROVE Abstract!Next
  <2>1. Abstract!Settle(t, "lost")
        BY <1>1, <1>5, RaiseLoses DEF StartProcess, TypeOK
  <2> QED  BY <2>1 DEF Abstract!Next
<1>6. ASSUME NEW t \in Threads, Silent(t)
      PROVE  StatusOf' = StatusOf /\ GivenOf' = GivenOf
  <2>1. UNCHANGED <<pending, failures>> /\ \A u \in Threads \ {t} : pc'[u] = pc[u] /\ job'[u] = job[u]
        BY <1>1, <1>6 DEF Silent, QueueEmpty, SendJob, StopProcess, StartProcess, TypeOK
  <2>2. /\ pc'[t] \in Busy <=> pc[t] \in Busy
        /\ pc[t] \in Busy => /\ job'[t] = job[t]
                             /\ pc'[t] \in {"raise", "raised"} <=> pc[t] \in {"raise", "raised"}
        BY <1>1, <1>6 DEF Silent, QueueEmpty, SendJob, StopProcess, StartProcess, TypeOK, Busy
  <2> QED  BY <2>1, <2>2, Stutters
<1>7. ASSUME UNCHANGED <<pending, failures, pc, job>>
      PROVE  StatusOf' = StatusOf /\ GivenOf' = GivenOf
      BY <1>7, Stutters
<1>8. CASE UNCHANGED vars
      BY <1>7, <1>8 DEF vars
<1>9. CASE Collect \/ \E t \in Threads : FinishJob(t) \/ Die(t)
      BY <1>7, <1>9 DEF Collect, FinishJob, Die
<1>10. CASE \E t \in Threads : Thread(t)
  <2>1. PICK t \in Threads : Thread(t)
        BY <1>10
  <2>2. CASE TakeJob(t) \/ ReadNothing(t) \/ ReadReply(t) \/ ReadTornReply(t)
        BY <1>2, <1>3, <1>4, <2>2
  <2>3. CASE QueueEmpty(t) \/ SendJob(t) \/ StopProcess(t)
        BY <1>6, <2>3 DEF Silent
  <2>4. CASE StartProcess(t)
        BY <1>5, <1>6, <2>4 DEF Silent
  <2> QED  BY <2>1, <2>2, <2>3, <2>4 DEF Thread
<1> QED  BY <1>8, <1>9, <1>10 DEF Next

LEMMA InitImplementsPool == Init => Abstract!Init
<1> SUFFICES ASSUME Init PROVE Abstract!Init
    OBVIOUS
<1>1. Inv /\ \A t \in Threads : pc[t] \notin Busy
      BY InitInv DEF Init, Busy
<1>2. \A j \in Jobs : Queued(j)
      BY <1>1, InitQueued
<1>3. \A j \in Jobs : Status(j) = "queued"
      BY <1>2, StatusFacts
<1>4. GivenOf = [t \in Threads |-> None]
      BY <1>1, GivenFacts
<1> QED  BY <1>3, <1>4 DEF Abstract!Init, GivenOf

(* _Workers.run: every behaviour of threads and processes, deaths and torn  *)
(* replies included, is one of a pool that gives each job once and settles  *)
(* it once.                                                                 *)
THEOREM ImplementsPool == Spec => ImplementsJobPool
<1>1. Inv /\ Inv' /\ [Next]_vars => [Abstract!Next]_<<StatusOf, GivenOf>>
      BY StepImplementsPool
<1> QED
    BY <1>1, InitImplementsPool, Invariance, PTL
    DEF Spec, ImplementsJobPool, Abstract!Spec, Abstract!vars, StatusOf, GivenOf
===============================================================================
