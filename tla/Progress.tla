------------------------------- MODULE Progress -------------------------------
(***************************************************************************)
(* The progress channels of src/src/progress.c and the life their three    *)
(* kinds of users give them: the request thread that registers a channel   *)
(* for its job (fp_submit_job), the worker that emits the outputs and      *)
(* frees the job, and the threads that stream a job's events to a client   *)
(* (fp_handle_event_stream).                                               *)
(*                                                                         *)
(* A step is one critical section: of the registry mutex, of a channel     *)
(* mutex, or of neither.  fp_progress_acquire is two steps, because the    *)
(* registry mutex is released before the channel mutex is taken, and       *)
(* fp_progress_release is up to three.  A thread that touches a channel    *)
(* another thread has freed is stopped as "dangling": what it does next is *)
(* undefined.                                                              *)
(***************************************************************************)
EXTENDS Integers, Sequences, FiniteSets

CONSTANTS
    Submissions,   (* one per request; it also names the request's channel *)
    Streams,       (* threads that serve GET /api/jobs/<id>/events *)
    IdOf,          (* job id of each submission: a counter or the X-Job-ID header *)
    WantedId,      (* job id each stream asks for *)
    Capacity,      (* registry->capacity *)
    MaxOutputs,    (* bound: outputs a job emits *)
    MemoryFails,   (* bound: whether the allocation of a channel may fail *)
    NoChannel      (* NULL *)

ASSUME ProgressAssumption ==
    /\ IdOf \in [Submissions -> Nat \ {0}]
    /\ WantedId \in [Streams -> Nat \ {0}]
    /\ Capacity \in Nat \ {0}
    /\ MaxOutputs \in Nat
    /\ MemoryFails \in BOOLEAN
    /\ NoChannel \notin Submissions

Request(s) == <<"request", s>>
Job(s) == <<"job", s>>
Stream(r) == <<"stream", r>>
Requests == {Request(s) : s \in Submissions}
Jobs == {Job(s) : s \in Submissions}
Actors == Requests \cup Jobs \cup {Stream(r) : r \in Streams}

VARIABLES
    entries,   (* registry->entries: the channel in each, whose id is the entry's *)
    life,      (* of each channel: "none", "live" or "freed" *)
    ref,       (* channel->ref_count *)
    closed,    (* channel->closed *)
    events,    (* the list from channel->head to channel->tail *)
    log,       (* history: every event the channel accepted *)
    pc,        (* where each actor is *)
    on,        (* the channel each actor works on *)
    results,   (* submissions whose result waits for a request to take it *)
    late,      (* history: channels an acquire locked when nobody held them *)
    served     (* history: streams that ended because the channel was done *)

vars == <<entries, life, ref, closed, events, log, pc, on, results, late, served>>
chan == <<life, ref, closed, events, log>>

Index == 0 .. (Capacity - 1)

Init ==
    /\ entries = [i \in Index |-> NoChannel]
    /\ life = [s \in Submissions |-> "none"]
    /\ ref = [s \in Submissions |-> 0]
    /\ closed = [s \in Submissions |-> FALSE]
    /\ events = [s \in Submissions |-> <<>>]
    /\ log = [s \in Submissions |-> <<>>]
    /\ pc = [a \in Actors |-> IF a \in Requests THEN "new"
                              ELSE IF a \in Jobs THEN "none" ELSE "seeking"]
    /\ on = [a \in Actors |-> IF a \in Requests \cup Jobs THEN a[2] ELSE NoChannel]
    /\ results = {}
    /\ late = {}
    /\ served = {}

Goto(a, from, to) ==
    /\ pc[a] = from
    /\ pc' = [pc EXCEPT ![a] = to]

(* Actor a, at from, may use its channel: it has not been freed. *)
At(a, from) == pc[a] = from /\ life[on[a]] = "live"

(* fp_progress_channel_push: an event for a closed channel is dropped. *)
Push(s, e) ==
    IF closed[s]
    THEN UNCHANGED <<events, log>>
    ELSE /\ events' = [events EXCEPT ![s] = Append(@, e)]
         /\ log' = [log EXCEPT ![s] = Append(@, e)]

(* The i-th entry an id is looked for in. *)
Probe(id, i) == (id + i) % Capacity
Matches(i, id) == entries[i] # NoChannel /\ IdOf[entries[i]] = id
-----------------------------------------------------------------------------
(* Plausible mistakes, never part of Next: the properties must catch them. *)

(* job->progress set without a reference of its own. *)
RetainNothing(s) ==
    /\ At(Request(s), "registered")
    /\ pc' = [pc EXCEPT ![Request(s)] = "pushing", ![Job(s)] = "made"]
    /\ UNCHANGED <<entries, chan, on, results, late, served>>

(* The result of any job taken for one's own. *)
TakeAnyResult(s) ==
    /\ Goto(Request(s), "waiting", "status")
    /\ \E r \in results : results' = results \ {r}
    /\ UNCHANGED <<entries, chan, on, late, served>>

(* The job freed without its reference. *)
FreeJobLeaks(s) ==
    /\ Goto(Job(s), "working", "deliver")
    /\ UNCHANGED <<entries, chan, on, results, late, served>>

(* The stream ends as soon as the channel is closed. *)
NextEventHasty(r) ==
    LET s == on[Stream(r)] IN
    /\ At(Stream(r), "streaming")
    /\ events[s] # <<>> \/ closed[s]
    /\ events' = [events EXCEPT ![s] = IF @ = <<>> THEN <<>> ELSE Tail(@)]
    /\ Goto(Stream(r), "streaming", IF closed[s] THEN "drop" ELSE "streaming")
    /\ served' = IF closed[s] THEN served \cup {r} ELSE served
    /\ UNCHANGED <<entries, life, ref, closed, log, on, results, late>>

(* A stream that waits for an event without looking at `closed`.           *)
NextEventDeaf(r) ==
    LET s == on[Stream(r)] IN
    /\ At(Stream(r), "streaming")
    /\ events[s] # <<>>
    /\ events' = [events EXCEPT ![s] = Tail(@)]
    /\ UNCHANGED <<entries, life, ref, closed, log, pc, on, results, late, served>>

(* The entry of a freed channel kept. *)
ForgetNothing(a) ==
    /\ At(a, "forget")
    /\ Goto(a, "forget", "destroy")
    /\ UNCHANGED <<entries, chan, on, results, late, served>>
-----------------------------------------------------------------------------
(* The request thread: fp_submit_job *)

(* fp_progress_register takes the first free entry; it does not look for   *)
(* another channel with the same id.                                       *)
Register(s) ==
    /\ Goto(Request(s), "new", "registered")
    /\ \E i \in Index :
         /\ entries[Probe(IdOf[s], i)] = NoChannel
         /\ \A j \in 0 .. (i - 1) : entries[Probe(IdOf[s], j)] # NoChannel
         /\ entries' = [entries EXCEPT ![Probe(IdOf[s], i)] = s]
    /\ life' = [life EXCEPT ![s] = "live"]
    /\ ref' = [ref EXCEPT ![s] = 1]
    /\ UNCHANGED <<closed, events, log, on, results, late, served>>

(* No free entry, or no memory for the channel. *)
RegisterFails(s) ==
    /\ (\A i \in Index : entries[i] # NoChannel) \/ MemoryFails
    /\ Goto(Request(s), "new", "refused")
    /\ UNCHANGED <<entries, chan, on, results, late, served>>

(* The second reference is job->progress. *)
Retain(s) ==
    /\ At(Request(s), "registered")
    /\ pc' = [pc EXCEPT ![Request(s)] = "pushing", ![Job(s)] = "made"]
    /\ ref' = [ref EXCEPT ![s] = @ + 1]
    /\ UNCHANGED <<entries, life, closed, events, log, on, results, late, served>>

PushJob(s) ==
    /\ pc[Request(s)] = "pushing"
    /\ pc' = [pc EXCEPT ![Request(s)] = "waiting", ![Job(s)] = "working"]
    /\ UNCHANGED <<entries, chan, on, results, late, served>>

(* After 5000 refusals: job->progress is cleared before fp_free_job, which *)
(* would have released it, so the job's reference stays in the count.      *)
PushGivesUp(s) ==
    /\ pc[Request(s)] = "pushing"
    /\ pc' = [pc EXCEPT ![Request(s)] = "status", ![Job(s)] = "leaked"]
    /\ UNCHANGED <<entries, chan, on, results, late, served>>

(* fp_wait_for_result: any result that carries the request's job id. *)
TakeResult(s) ==
    /\ Goto(Request(s), "waiting", "status")
    /\ \E r \in results : IdOf[r] = IdOf[s] /\ results' = results \ {r}
    /\ UNCHANGED <<entries, chan, on, late, served>>

(* (Memory for the event is taken to be there: without it the event is     *)
(* missing, and nothing else changes.)                                     *)
EmitStatus(s) ==
    /\ At(Request(s), "status")
    /\ Goto(Request(s), "status", "close")
    /\ Push(s, "status")
    /\ UNCHANGED <<entries, life, ref, closed, on, results, late, served>>

Close(s) ==
    /\ At(Request(s), "close")
    /\ Goto(Request(s), "close", "drop")
    /\ closed' = [closed EXCEPT ![s] = TRUE]
    /\ UNCHANGED <<entries, life, ref, events, log, on, results, late, served>>
-----------------------------------------------------------------------------
(* The worker: fp_encode_task_run and the end of fp_worker_handle_job *)

EmitOutput(s) ==
    /\ At(Job(s), "working")
    /\ Len(log[s]) < MaxOutputs
    /\ Push(s, "output")
    /\ UNCHANGED <<entries, life, ref, closed, pc, on, results, late, served>>

(* All encoders joined: fp_free_job, before the result is published. *)
FreeJob(s) ==
    /\ Goto(Job(s), "working", "drop")
    /\ UNCHANGED <<entries, chan, on, results, late, served>>

PushResult(s) ==
    /\ Goto(Job(s), "deliver", "done")
    /\ results' = results \cup {s}
    /\ UNCHANGED <<entries, chan, on, late, served>>
-----------------------------------------------------------------------------
(* The event stream: fp_handle_event_stream *)

(* fp_progress_registry_find, under the registry mutex. *)
Find(r) ==
    /\ Goto(Stream(r), "seeking", "found")
    /\ \E i \in Index :
         /\ Matches(Probe(WantedId[r], i), WantedId[r])
         /\ \A j \in 0 .. (i - 1) : ~Matches(Probe(WantedId[r], j), WantedId[r])
         /\ on' = [on EXCEPT ![Stream(r)] = entries[Probe(WantedId[r], i)]]
    /\ UNCHANGED <<entries, chan, results, late, served>>

(* 200 attempts, 50 ms apart, have all missed: 404. *)
Unknown(r) ==
    /\ \A i \in Index : ~Matches(i, WantedId[r])
    /\ Goto(Stream(r), "seeking", "unknown")
    /\ UNCHANGED <<entries, chan, on, results, late, served>>

(* The rest of fp_progress_acquire, under the channel mutex. *)
Attach(r) ==
    LET s == on[Stream(r)] IN
    /\ At(Stream(r), "found")
    /\ Goto(Stream(r), "found", "attached")
    /\ ref' = [ref EXCEPT ![s] = @ + 1]
    /\ late' = IF ref[s] = 0 THEN late \cup {s} ELSE late
    /\ UNCHANGED <<entries, life, closed, events, log, on, results, served>>

SendHeaders(r) ==
    /\ \E to \in {"streaming", "drop"} : Goto(Stream(r), "attached", to)
    /\ UNCHANGED <<entries, chan, on, results, late, served>>

(* fp_progress_next_event; the event is sent whether or not the client is  *)
(* still there, and the loop ends when the channel is closed and drained.  *)
NextEvent(r) ==
    LET s == on[Stream(r)]
        rest == IF events[s] = <<>> THEN <<>> ELSE Tail(events[s])
        open == ~closed[s] \/ rest # <<>>
    IN
    /\ At(Stream(r), "streaming")
    /\ events[s] # <<>> \/ closed[s]
    /\ events' = [events EXCEPT ![s] = rest]
    /\ Goto(Stream(r), "streaming", IF open THEN "streaming" ELSE "drop")
    /\ served' = IF open THEN served ELSE served \cup {r}
    /\ UNCHANGED <<entries, life, ref, closed, log, on, results, late>>
-----------------------------------------------------------------------------
(* fp_progress_release, by any actor *)

AfterRelease(a) == IF a \in Jobs THEN "deliver" ELSE "done"

Drop(a) ==
    LET s == on[a] IN
    /\ At(a, "drop")
    /\ ref' = [ref EXCEPT ![s] = @ - 1]
    /\ Goto(a, "drop", IF ref[s] = 1 THEN "forget" ELSE AfterRelease(a))
    /\ UNCHANGED <<entries, life, closed, events, log, on, results, late, served>>

(* fp_progress_registry_forget clears the first entry with the job id,     *)
(* whichever channel is in it.                                             *)
Forget(a) ==
    LET id == IdOf[on[a]] IN
    /\ At(a, "forget")
    /\ Goto(a, "forget", "destroy")
    /\ entries' = [i \in Index |->
                     IF Matches(i, id) /\ \A j \in 0 .. (i - 1) : ~Matches(j, id)
                     THEN NoChannel ELSE entries[i]]
    /\ UNCHANGED <<chan, on, results, late, served>>

Destroy(a) ==
    LET s == on[a] IN
    /\ At(a, "destroy")
    /\ Goto(a, "destroy", AfterRelease(a))
    /\ life' = [life EXCEPT ![s] = "freed"]
    /\ events' = [events EXCEPT ![s] = <<>>]
    /\ UNCHANGED <<entries, ref, closed, log, on, results, late, served>>

(* The next access of a is to a freed channel. *)
Touches == {"registered", "status", "close", "working", "found", "streaming",
            "drop", "forget", "destroy"}

Dangle(a) ==
    /\ pc[a] \in Touches
    /\ life[on[a]] = "freed"
    /\ pc' = [pc EXCEPT ![a] = "dangling"]
    /\ late' = IF pc[a] = "found" THEN late \cup {on[a]} ELSE late
    /\ UNCHANGED <<entries, chan, on, results, served>>
-----------------------------------------------------------------------------
RequestStep(s) ==
    \/ Register(s) \/ RegisterFails(s) \/ Retain(s) \/ PushJob(s) \/ PushGivesUp(s)
    \/ TakeResult(s) \/ EmitStatus(s) \/ Close(s)

WorkerStep(s) == EmitOutput(s) \/ FreeJob(s) \/ PushResult(s)

StreamStep(r) ==
    Find(r) \/ Unknown(r) \/ Attach(r) \/ SendHeaders(r) \/ NextEvent(r)

ReleaseStep(a) == Drop(a) \/ Forget(a) \/ Destroy(a) \/ Dangle(a)

Next ==
    \/ \E s \in Submissions : RequestStep(s) \/ WorkerStep(s)
    \/ \E r \in Streams : StreamStep(r)
    \/ \E a \in Actors : ReleaseStep(a)

Spec == Init /\ [][Next]_vars

(* Threads are scheduled; encoders end; a stream gives up after its        *)
(* attempts.  A request is not assumed to get its result (TakeResult):     *)
(* another request may have popped it, as module Pipeline shows.           *)
Fairness ==
    /\ \A s \in Submissions :
         /\ WF_vars(Retain(s) \/ PushJob(s) \/ PushGivesUp(s))
         /\ WF_vars(EmitStatus(s) \/ Close(s))
         /\ WF_vars(FreeJob(s) \/ PushResult(s))
    /\ \A r \in Streams : WF_vars(StreamStep(r))
    /\ \A a \in Actors : WF_vars(ReleaseStep(a))

FairSpec == Spec /\ Fairness
-----------------------------------------------------------------------------
(* Types of the state; a freed channel has no more events. *)
TypeOK ==
    /\ entries \in [Index -> Submissions \cup {NoChannel}]
    /\ life \in [Submissions -> {"none", "live", "freed"}]
    /\ ref \in [Submissions -> Nat]
    /\ closed \in [Submissions -> BOOLEAN]
    /\ events \in [Submissions -> Seq({"output", "status"})]
    /\ log \in [Submissions -> Seq({"output", "status"})]
    /\ pc \in [Actors -> Touches \cup {"new", "refused", "pushing", "waiting",
                 "none", "made", "leaked", "deliver", "seeking", "unknown",
                 "attached", "done", "dangling"}]
    /\ on \in [Actors -> Submissions \cup {NoChannel}]
    /\ results \subseteq Submissions
    /\ late \subseteq Submissions
    /\ served \subseteq Streams
    /\ \A s \in Submissions : life[s] # "live" => events[s] = <<>>

(* Who holds a reference: a request until its drop, a job from its making  *)
(* (a leaked one for ever), a stream from its attach to its drop.          *)
Holders(s) ==
    {a \in Actors : on[a] = s /\
        pc[a] \in (IF a \in Requests
                   THEN {"registered", "pushing", "waiting", "status", "close", "drop"}
                   ELSE {"made", "working", "leaked", "attached", "streaming", "drop"})}

(* The count of a channel in use is the number of its users.               *)
RefsMatchHolders ==
    \A s \in Submissions : life[s] = "live" => ref[s] = Cardinality(Holders(s))

(* Freed memory is touched only through the window of fp_progress_acquire: *)
(* the thread that found the channel before its last release and locks it  *)
(* after, or the threads such a latecomer's own release trips.             *)
DanglingOnlyAfterLateLock ==
    \A a \in Actors : pc[a] = "dangling" => on[a] \in late

(* No entry points to a freed channel, and a job whose request is waiting  *)
(* can be found by its id.                                                 *)
RegistryMatchesChannels ==
    /\ TypeOK
    /\ \A i \in Index : entries[i] # NoChannel => life[entries[i]] = "live"
    /\ \A s \in Submissions :
         Request(s) \in Holders(s) => \E i \in Index : entries[i] = s

(* An encoder's output is never dropped because its channel was closed.    *)
OutputsNotDropped ==
    \A s \in Submissions : pc[Job(s)] \in {"made", "working"} => ~closed[s]

(* When a stream has run to the end its channel is drained for good: every *)
(* event went to one of the streams of the job, and the verdict was last.  *)
ServedToTheEnd ==
    \A r \in served :
        LET s == on[Stream(r)] IN
        /\ events[s] = <<>>
        /\ log[s] # <<>>
        /\ \A i \in 1 .. Len(log[s]) : log[s][i] = "status" <=> i = Len(log[s])

(* A stream whose channel is closed ends: the close reaches a stream that  *)
(* waits for an event, and one that has yet to look.                       *)
StreamsEnd ==
    \A r \in Streams : \A s \in Submissions :
        on[Stream(r)] = s /\ pc[Stream(r)] = "attached" /\ closed[s]
            ~> pc[Stream(r)] \in {"done", "dangling"}

(* A closed channel is freed in the end, unless the queue refused its job, *)
(* whose reference nothing gives back.                                     *)
ChannelsFreed ==
    \A s \in Submissions :
        closed[s] ~> life[s] = "freed" \/ pc[Job(s)] = "leaked"
=============================================================================
