------------------------------- MODULE Shutdown -------------------------------
(***************************************************************************)
(* The life of the server process around its pipeline: main starts the     *)
(* workers, accepts connections, each served by a detached thread or, when *)
(* none can be had, by main itself, and, when accept fails, stops and      *)
(* joins the workers, frees what all share, and returns.  No signal stops  *)
(* the server in order: there is no handler.  Nobody waits for the         *)
(* connections' threads.                                                   *)
(***************************************************************************)
EXTENDS Pipeline

ASSUME ShutdownAssumption ==
    IsFiniteSet(Workers) /\ Workers = 1 .. Cardinality(Workers)

VARIABLES
    main,       (* where the main thread is *)
    at,         (* the worker of its loop *)
    inline,     (* the requests it has served itself *)
    running,    (* workers[w].running *)
    thread,     (* the thread of each worker *)
    accepted,   (* requests with a connection *)
    freed,      (* the shared objects main has freed *)
    openAtStop, (* history: connections open when accept failed *)
    dangling    (* history: requests that used what was freed *)

control == <<main, at, inline, running, thread, accepted, freed, openAtStop>>
allVars == <<vars, control, dangling>>

WorkerCount == Cardinality(Workers)
Ended == {"untracked", "busy", "answered"}
Open == {s \in accepted : req[s] \notin Ended /\ s \notin dangling}

StartInit ==
    /\ Init
    /\ main = "starting" /\ at = 1
    /\ inline = {}
    /\ running = [w \in Workers |-> FALSE]
    /\ thread = [w \in Workers |-> "none"]
    /\ accepted = {}
    /\ freed = {}
    /\ openAtStop = {}
    /\ dangling = {}

Proceed(from, to, n) == main = from /\ main' = to /\ at' = n
-----------------------------------------------------------------------------
(* Plausible mistakes, never part of StartNext: the properties must catch  *)
(* them.                                                                   *)

(* Nobody is waited for. *)
JoinNobody ==
    /\ at <= WorkerCount
    /\ Proceed("joining", "joining", at + 1)
    /\ UNCHANGED <<vars, inline, running, thread, accepted, freed, openAtStop, dangling>>

(* The last worker is not told to stop. *)
StopAllButOne ==
    /\ at < WorkerCount
    /\ running' = [running EXCEPT ![at] = FALSE]
    /\ Proceed("stopping", IF at + 1 = WorkerCount THEN "joining" ELSE "stopping",
               IF at + 1 = WorkerCount THEN 1 ELSE at + 1)
    /\ UNCHANGED <<vars, inline, thread, accepted, freed, openAtStop, dangling>>

(* main goes back to accept before its own request has an answer. *)
InlineLeft ==
    /\ Proceed("inline", "accept", at)
    /\ UNCHANGED <<vars, inline, running, thread, accepted, freed, openAtStop, dangling>>
-----------------------------------------------------------------------------
(* fp_workers_create *)

StartWorker ==
    /\ at <= WorkerCount
    /\ running' = [running EXCEPT ![at] = TRUE]
    /\ thread' = [thread EXCEPT ![at] = "idle"]
    /\ Proceed("starting", "starting", at + 1)
    /\ UNCHANGED <<vars, inline, accepted, freed, openAtStop, dangling>>

(* No thread for a worker: those before it are stopped and joined, one     *)
(* after the other.                                                        *)
StartFails ==
    /\ at <= WorkerCount
    /\ Proceed("starting", "unwinding", 1)
    /\ UNCHANGED <<vars, inline, running, thread, accepted, freed, openAtStop, dangling>>

UnwindOne ==
    /\ at <= WorkerCount
    /\ running[at]
    /\ running' = [running EXCEPT ![at] = FALSE]
    /\ Proceed("unwinding", "unwinding", at)
    /\ UNCHANGED <<vars, inline, thread, accepted, freed, openAtStop, dangling>>

UnwindJoin ==
    /\ at <= WorkerCount
    /\ ~running[at] /\ thread[at] = "gone"
    /\ Proceed("unwinding", "unwinding", at + 1)
    /\ UNCHANGED <<vars, inline, running, thread, accepted, freed, openAtStop, dangling>>

Unwound ==
    /\ Proceed("unwinding", "freeing", at)
    /\ thread[at] = "none"
    /\ UNCHANGED <<vars, inline, running, thread, accepted, freed, openAtStop, dangling>>
-----------------------------------------------------------------------------
(* fp_server_run *)

Listen ==
    /\ at > WorkerCount
    /\ Proceed("starting", "accept", 1)
    /\ UNCHANGED <<vars, inline, running, thread, accepted, freed, openAtStop, dangling>>

(* A socket that cannot be had ends fp_server_run, too. *)
ListenFails ==
    /\ at > WorkerCount
    /\ Proceed("starting", "stopping", 1)
    /\ UNCHANGED <<vars, inline, running, thread, accepted, freed, openAtStop, dangling>>

Accept(s) ==
    /\ s \notin accepted
    /\ Proceed("accept", "accept", at)
    /\ accepted' = accepted \cup {s}
    /\ UNCHANGED <<vars, inline, running, thread, freed, openAtStop, dangling>>

AcceptInline(s) ==
    /\ s \notin accepted
    /\ Proceed("accept", "inline", at)
    /\ accepted' = accepted \cup {s}
    /\ inline' = inline \cup {s}
    /\ UNCHANGED <<vars, running, thread, freed, openAtStop, dangling>>

InlineDone ==
    /\ \A s \in inline : req[s] \in Ended
    /\ Proceed("inline", "accept", at)
    /\ UNCHANGED <<vars, inline, running, thread, accepted, freed, openAtStop, dangling>>

(* Whatever accept fails with but EINTR, no memory or descriptors left     *)
(* included, ends the loop.                                                *)
AcceptFails ==
    /\ Proceed("accept", "stopping", 1)
    /\ openAtStop' = Open
    /\ UNCHANGED <<vars, inline, running, thread, accepted, freed, dangling>>
-----------------------------------------------------------------------------
(* fp_workers_destroy, and the end of main *)

StopWorker ==
    /\ at <= WorkerCount
    /\ running' = [running EXCEPT ![at] = FALSE]
    /\ Proceed("stopping", IF at = WorkerCount THEN "joining" ELSE "stopping",
               IF at = WorkerCount THEN 1 ELSE at + 1)
    /\ UNCHANGED <<vars, inline, thread, accepted, freed, openAtStop, dangling>>

Join ==
    /\ at <= WorkerCount
    /\ thread[at] = "gone"
    /\ Proceed("joining", "joining", at + 1)
    /\ UNCHANGED <<vars, inline, running, thread, accepted, freed, openAtStop, dangling>>

Joined ==
    /\ at > WorkerCount
    /\ Proceed("joining", "freeing", at)
    /\ UNCHANGED <<vars, inline, running, thread, accepted, freed, openAtStop, dangling>>

(* In this order; a failed start and an orderly end free the same things. *)
Free ==
    /\ Proceed("freeing", IF freed = {"jobs", "results"} THEN "freed" ELSE "freeing", at)
    /\ freed' = freed \cup (IF "jobs" \notin freed THEN {"jobs"}
                            ELSE IF "results" \notin freed THEN {"results"}
                            ELSE {"registry"})
    /\ UNCHANGED <<vars, inline, running, thread, accepted, openAtStop, dangling>>

(* The process ends, and with it every thread. *)
Return ==
    /\ Proceed("freed", "returned", at)
    /\ UNCHANGED <<vars, inline, running, thread, accepted, freed, openAtStop, dangling>>

MainStep ==
    \/ StartWorker \/ StartFails \/ UnwindOne \/ UnwindJoin \/ Unwound
    \/ Listen \/ ListenFails \/ InlineDone
    \/ StopWorker \/ Join \/ Joined \/ Free \/ Return
-----------------------------------------------------------------------------
(* fp_worker_thread: it looks at its flag before each pop; what it has     *)
(* popped it handles and pushes, whatever the flag says.                   *)
Look(w) ==
    /\ thread[w] = "idle" /\ stage[w] = "idle"
    /\ thread' = [thread EXCEPT ![w] = IF running[w] THEN "looked" ELSE "gone"]
    /\ UNCHANGED <<vars, main, at, inline, running, accepted, freed, openAtStop, dangling>>

Pop(w) ==
    /\ thread[w] = "looked"
    /\ thread' = [thread EXCEPT ![w] = "idle"]
    /\ \/ PopJob(w)
       \/ jobs = <<>> /\ UNCHANGED vars
    /\ UNCHANGED <<main, at, inline, running, accepted, freed, openAtStop, dangling>>

HandleAndPush(w) ==
    /\ HandleJob(w) \/ HandleFails(w) \/ PushResult(w)
    /\ UNCHANGED <<control, dangling>>

WorkerThread(w) ==
    /\ main # "returned"
    /\ Look(w) \/ Pop(w) \/ HandleAndPush(w)
-----------------------------------------------------------------------------
(* The next step of request s uses what main has freed: the job queue, the *)
(* result queue, or its channel and the registry.                          *)
UsesFreed(s) ==
    \/ req[s] = "new" /\ "registry" \in freed
    \/ req[s] = "check" /\ "registry" \in freed /\ \E r \in cache : IdOf[r] = IdOf[s]
    \/ req[s] = "push" /\ "jobs" \in freed
    \/ req[s] = "wait" /\ "results" \in freed

(* What it does then is undefined; it is not followed any further. *)
Dangle(s) ==
    /\ UsesFreed(s)
    /\ dangling' = dangling \cup {s}
    /\ UNCHANGED <<vars, control>>

Serve(s) ==
    /\ ~UsesFreed(s)
    /\ Submit(s) \/ RequestStep(s)
    /\ UNCHANGED <<control, dangling>>

RequestThread(s) ==
    /\ main # "returned"
    /\ s \in Open
    /\ Dangle(s) \/ Serve(s)
-----------------------------------------------------------------------------
StartNext ==
    \/ MainStep
    \/ AcceptFails
    \/ \E s \in Submissions : Accept(s) \/ AcceptInline(s) \/ RequestThread(s)
    \/ \E w \in Workers : WorkerThread(w)

(* All threads are scheduled; nobody need connect, and accept need never   *)
(* fail.                                                                   *)
StartSpec ==
    /\ StartInit /\ [][StartNext]_allVars
    /\ WF_allVars(MainStep)
    /\ \A s \in Submissions : WF_allVars(RequestThread(s))
    /\ \A w \in Workers : WF_allVars(WorkerThread(w))
-----------------------------------------------------------------------------
(* Types of the state. *)
ControlTypeOK ==
    /\ main \in {"starting", "unwinding", "accept", "inline", "stopping", "joining",
                 "freeing", "freed", "returned"}
    /\ at \in 1 .. WorkerCount + 1
    /\ inline \subseteq accepted
    /\ running \in [Workers -> BOOLEAN]
    /\ thread \in [Workers -> {"none", "idle", "looked", "gone"}]
    /\ accepted \subseteq Submissions
    /\ freed \subseteq {"jobs", "results", "registry"}
    /\ openAtStop \subseteq accepted /\ dangling \subseteq accepted

(* No worker runs once anything is freed, and none has left with a job or  *)
(* a result in its hands.                                                  *)
WorkersOutlivedByQueues ==
    /\ ControlTypeOK
    /\ freed # {} => \A w \in Workers : thread[w] \in {"none", "gone"}
    /\ \A w \in Workers : thread[w] # "idle" => work[w] = None

(* Freed memory is used only by connections that were open when accept     *)
(* failed, never by one that main serves itself.                           *)
OnlyOpenDangle == dangling \subseteq openAtStop \ inline

(* That, and: a server that stops with none open leaves nothing undone.    *)
QuietStopIsClean ==
    /\ OnlyOpenDangle
    /\ freed # {} /\ openAtStop = {} => jobs = <<>> /\ results = <<>>

(* A server that stops, or fails to start, returns: a worker with a result *)
(* in its hands finds room for it, because the requests go on polling.     *)
MainReturns ==
    main \in {"stopping", "unwinding"} ~> main = "returned"
=============================================================================
