------------------------------- MODULE Pipeline -------------------------------
(***************************************************************************)
(* The way of a job through the server: a request thread tracks it in the  *)
(* progress registry and pushes it (fp_submit_job), a worker pops it,      *)
(* handles it and pushes its result (fp_worker_thread), and the request    *)
(* threads, all popping from the one result queue, pass foreign results on *)
(* through a small cache (fp_wait_for_result).                             *)
(*                                                                         *)
(* The queues are the bounded FIFOs that FerretQueue implements, each put  *)
(* and get at the instant it takes effect.  A call may also be refused     *)
(* with the queue neither full nor empty, while another thread is in       *)
(* mid-call; a refused call is tried again, so only the attempts of a push *)
(* of a job are counted.                                                   *)
(***************************************************************************)
EXTENDS Naturals, Sequences, FiniteSets

CONSTANTS
    Submissions,    (* requests, each with one job *)
    Workers,        (* worker threads *)
    IdOf,           (* job id of each submission: a counter or X-Job-ID *)
    QueueSize,      (* FERRET_QUEUE_SIZE, the capacity of both queues *)
    CacheMax,       (* FP_RESULT_CACHE_MAX *)
    RegistrySize,   (* capacity of the progress registry, twice the queues' *)
    MaxAttempts,    (* pushes of a job before the request gives up: 5000 in the code *)
    MaxConcurrent,  (* bound: requests in flight at once *)
    MemoryFails,    (* bound: whether a worker's calloc may fail *)
    None            (* NULL *)

ASSUME PipelineAssumption ==
    /\ QueueSize \in Nat \ {0}
    /\ CacheMax \in Nat
    /\ RegistrySize \in Nat
    /\ MaxAttempts \in Nat \ {0}
    /\ MaxConcurrent \in Nat
    /\ MemoryFails \in BOOLEAN
    /\ None \notin Submissions

VARIABLES
    req,        (* where each request thread is *)
    attempts,   (* pushes its job has been refused *)
    held,       (* the foreign result a request thread has popped *)
    answer,     (* the submission whose result a request was answered with *)
    jobs,       (* job_queue *)
    results,    (* result_queue *)
    cache,      (* g_result_cache *)
    work,       (* the job or the result each worker has in hand *)
    stage,      (* what each worker does with it *)
    tracked,    (* submissions with an entry in the progress registry *)
    lost        (* history: jobs and results freed unanswered *)

vars == <<req, attempts, held, answer, jobs, results, cache, work, stage, tracked, lost>>

Init ==
    /\ req = [s \in Submissions |-> "new"]
    /\ attempts = [s \in Submissions |-> 0]
    /\ held = [s \in Submissions |-> None]
    /\ answer = [s \in Submissions |-> None]
    /\ jobs = <<>>
    /\ results = <<>>
    /\ cache = {}
    /\ work = [w \in Workers |-> None]
    /\ stage = [w \in Workers |-> "idle"]
    /\ tracked = {}
    /\ lost = {}

InFlight == {s \in Submissions : req[s] \in {"push", "check", "wait", "store"}}

Goto(s, from, to) ==
    /\ req[s] = from
    /\ req' = [req EXCEPT ![s] = to]

(* The job of s is not freed yet: it still refers to its channel. *)
JobAlive(s) ==
    \/ \E i \in 1 .. Len(jobs) : jobs[i] = s
    \/ \E w \in Workers : stage[w] = "job" /\ work[w] = s

(* A plausible mistake, never part of Next: the entry kept after the answer. *)
AnswerKeepsEntry(s, from, r) ==
    /\ Goto(s, from, "answered")
    /\ answer' = [answer EXCEPT ![s] = r]
    /\ UNCHANGED tracked

(* Request s, at from, is answered with the result of r: it emits the      *)
(* status, closes its channel and lets it go.                              *)
Answer(s, from, r) ==
    /\ Goto(s, from, "answered")
    /\ answer' = [answer EXCEPT ![s] = r]
    /\ tracked' = IF JobAlive(s) THEN tracked ELSE tracked \ {s}

(* A worker frees its job, before its result is pushed; the entry goes if  *)
(* the request has already let go of the channel.                          *)
FreeJob(s) == tracked' = IF req[s] = "answered" THEN tracked \ {s} ELSE tracked
-----------------------------------------------------------------------------
(* Plausible mistakes, never part of Next: the properties must catch them. *)

(* A result that does not fit the cache is neither kept nor freed. *)
StoreLeaks(s) ==
    /\ Goto(s, "store", "wait")
    /\ held' = [held EXCEPT ![s] = None]
    /\ cache' = IF Cardinality(cache) < CacheMax THEN cache \cup {held[s]} ELSE cache
    /\ UNCHANGED <<attempts, answer, jobs, results, work, stage, tracked, lost>>

(* A job that fails is freed and no result is made of its failure. *)
HandleDiscards(w) ==
    /\ stage[w] = "job"
    /\ stage' = [stage EXCEPT ![w] = "idle"]
    /\ work' = [work EXCEPT ![w] = None]
    /\ FreeJob(work[w])
    /\ UNCHANGED <<req, attempts, held, answer, jobs, results, cache, lost>>
-----------------------------------------------------------------------------
(* The request thread: fp_submit_job *)

(* A new connection; a full registry is a 503. *)
Submit(s) ==
    /\ Cardinality(InFlight) < MaxConcurrent
    /\ IF Cardinality(tracked) < RegistrySize
       THEN Goto(s, "new", "push") /\ tracked' = tracked \cup {s}
       ELSE Goto(s, "new", "untracked") /\ UNCHANGED tracked
    /\ UNCHANGED <<attempts, held, answer, jobs, results, cache, work, stage, lost>>

PushJob(s) ==
    /\ Len(jobs) < QueueSize
    /\ Goto(s, "push", "check")
    /\ jobs' = Append(jobs, s)
    /\ UNCHANGED <<attempts, held, answer, results, cache, work, stage, tracked, lost>>

PushRefused(s) ==
    /\ req[s] = "push"
    /\ Len(jobs) = QueueSize
    /\ attempts[s] < MaxAttempts
    /\ attempts' = [attempts EXCEPT ![s] = @ + 1]
    /\ UNCHANGED <<req, held, answer, jobs, results, cache, work, stage, tracked, lost>>

(* A 503.  The job is freed with its progress pointer already cleared, so  *)
(* its reference, and the entry in the registry, stay.                     *)
GiveUp(s) ==
    /\ attempts[s] = MaxAttempts
    /\ Goto(s, "push", "busy")
    /\ UNCHANGED <<attempts, held, answer, jobs, results, cache, work, stage, tracked, lost>>

(* fp_result_cache_take, once, before the loop. *)
CacheHit(s) ==
    \E r \in cache :
        /\ IdOf[r] = IdOf[s]
        /\ Answer(s, "check", r)
        /\ cache' = cache \ {r}
        /\ UNCHANGED <<attempts, held, jobs, results, work, stage, lost>>

CacheMiss(s) ==
    /\ \A r \in cache : IdOf[r] # IdOf[s]
    /\ Goto(s, "check", "wait")
    /\ UNCHANGED <<attempts, held, answer, jobs, results, cache, work, stage, tracked, lost>>

PopOwn(s) ==
    /\ results # <<>>
    /\ IdOf[Head(results)] = IdOf[s]
    /\ Answer(s, "wait", Head(results))
    /\ results' = Tail(results)
    /\ UNCHANGED <<attempts, held, jobs, cache, work, stage, lost>>

PopForeign(s) ==
    /\ results # <<>>
    /\ IdOf[Head(results)] # IdOf[s]
    /\ Goto(s, "wait", "store")
    /\ held' = [held EXCEPT ![s] = Head(results)]
    /\ results' = Tail(results)
    /\ UNCHANGED <<attempts, answer, jobs, cache, work, stage, tracked, lost>>

(* fp_result_cache_store; without a free slot the result is freed. *)
Store(s) ==
    /\ Goto(s, "store", "wait")
    /\ held' = [held EXCEPT ![s] = None]
    /\ IF Cardinality(cache) < CacheMax
       THEN cache' = cache \cup {held[s]} /\ UNCHANGED lost
       ELSE lost' = lost \cup {held[s]} /\ UNCHANGED cache
    /\ UNCHANGED <<attempts, answer, jobs, results, work, stage, tracked>>
-----------------------------------------------------------------------------
(* The worker: fp_worker_thread *)

PopJob(w) ==
    /\ stage[w] = "idle"
    /\ jobs # <<>>
    /\ work' = [work EXCEPT ![w] = Head(jobs)]
    /\ stage' = [stage EXCEPT ![w] = "job"]
    /\ jobs' = Tail(jobs)
    /\ UNCHANGED <<req, attempts, held, answer, results, cache, tracked, lost>>

(* fp_worker_handle_job ends with a result, good or bad. *)
HandleJob(w) ==
    /\ stage[w] = "job"
    /\ stage' = [stage EXCEPT ![w] = "result"]
    /\ FreeJob(work[w])
    /\ UNCHANGED <<req, attempts, held, answer, jobs, results, cache, work, lost>>

(* No memory for a result: the job is freed and nothing is pushed. *)
HandleFails(w) ==
    /\ MemoryFails
    /\ stage[w] = "job"
    /\ stage' = [stage EXCEPT ![w] = "idle"]
    /\ work' = [work EXCEPT ![w] = None]
    /\ lost' = lost \cup {work[w]}
    /\ FreeJob(work[w])
    /\ UNCHANGED <<req, attempts, held, answer, jobs, results, cache>>

(* Tried until the queue takes it. *)
PushResult(w) ==
    /\ stage[w] = "result"
    /\ Len(results) < QueueSize
    /\ results' = Append(results, work[w])
    /\ stage' = [stage EXCEPT ![w] = "idle"]
    /\ work' = [work EXCEPT ![w] = None]
    /\ UNCHANGED <<req, attempts, held, answer, jobs, cache, tracked, lost>>
-----------------------------------------------------------------------------
RequestStep(s) ==
    \/ PushJob(s) \/ PushRefused(s) \/ GiveUp(s)
    \/ CacheHit(s) \/ CacheMiss(s) \/ PopOwn(s) \/ PopForeign(s) \/ Store(s)

WorkerStep(w) == PopJob(w) \/ HandleJob(w) \/ HandleFails(w) \/ PushResult(w)

Next ==
    \/ \E s \in Submissions : Submit(s) \/ RequestStep(s)
    \/ \E w \in Workers : WorkerStep(w)

Spec == Init /\ [][Next]_vars

(* Every thread is scheduled; a request thread polls for ever, and so does *)
(* a worker.                                                               *)
Fairness ==
    /\ \A s \in Submissions : WF_vars(RequestStep(s))
    /\ \A w \in Workers : WF_vars(WorkerStep(w))

FairSpec == Spec /\ Fairness
-----------------------------------------------------------------------------
(* Types, and the bounds of the queues and the cache. *)
TypeOK ==
    /\ req \in [Submissions -> {"new", "untracked", "push", "busy", "check",
                                "wait", "store", "answered"}]
    /\ attempts \in [Submissions -> 0 .. MaxAttempts]
    /\ held \in [Submissions -> Submissions \cup {None}]
    /\ answer \in [Submissions -> Submissions \cup {None}]
    /\ jobs \in Seq(Submissions) /\ Len(jobs) <= QueueSize
    /\ results \in Seq(Submissions) /\ Len(results) <= QueueSize
    /\ cache \subseteq Submissions /\ Cardinality(cache) <= CacheMax
    /\ work \in [Workers -> Submissions \cup {None}]
    /\ stage \in [Workers -> {"idle", "job", "result"}]
    /\ tracked \subseteq Submissions /\ Cardinality(tracked) <= RegistrySize
    /\ lost \subseteq Submissions

(* The places a pushed job, or its result, can be. *)
Places(s) ==
    {<<"jobs", i>> : i \in {i \in 1 .. Len(jobs) : jobs[i] = s}} \cup
    {<<"worker", w>> : w \in {w \in Workers : work[w] = s}} \cup
    {<<"results", i>> : i \in {i \in 1 .. Len(results) : results[i] = s}} \cup
    {<<"held", t>> : t \in {t \in Submissions : held[t] = s}} \cup
    {<<"answer", t>> : t \in {t \in Submissions : answer[t] = s}} \cup
    {<<"cache", i>> : i \in {i \in {s} : i \in cache}} \cup
    {<<"lost", i>> : i \in {i \in {s} : i \in lost}}

(* A job accepted by the queue is somewhere, once: never duplicated, never *)
(* dropped but by a full cache or a failed allocation; a job refused is    *)
(* nowhere.                                                                *)
JobsAreConserved ==
    /\ TypeOK
    /\ \A s \in Submissions :
         Cardinality(Places(s)) =
             IF req[s] \in {"check", "wait", "store", "answered"} THEN 1 ELSE 0

(* The registry tracks the requests in flight, and for ever those the job  *)
(* queue refused: each of them costs the server an entry.                  *)
EntriesLeakOnlyWhenBusy ==
    tracked = InFlight \cup {s \in Submissions : req[s] = "busy"}

(* Nothing is in a thread's hands or in a queue for ever: each accepted    *)
(* job ends in an answer, in the cache, or lost.                           *)
JobsSettle ==
    \A s \in Submissions :
        req[s] = "check" ~> s \in cache \cup lost \/ \E t \in Submissions : answer[t] = s

(* Every request tracked is answered: with a result or with "busy".        *)
RequestsAreAnswered ==
    \A s \in Submissions : req[s] = "push" ~> req[s] \in {"answered", "busy"}
=============================================================================
