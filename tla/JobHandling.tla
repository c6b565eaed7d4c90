------------------------------ MODULE JobHandling ------------------------------
(***************************************************************************)
(* What happens to one job between the server's acceptance of its request  *)
(* (fp_handle_compress, fp_handle_expert_compress) and its verdict: the    *)
(* worker decodes the image, chooses the encoders to run, starts a thread  *)
(* for each, or runs it itself when no thread can be had, joins them all,  *)
(* and judges (fp_worker_handle_job).  Encoders run concurrently, each on  *)
(* its own output, all on the same image and job, and note the time they   *)
(* took in the one table of EtaTable.                                      *)
(***************************************************************************)
EXTENDS ImageOps, EtaTable, FiniteSets, SequencesExt

CONSTANTS
    Uploads,    (* requests: [expert, format, label, intent, picture, ops] *)
    EtaFiles,   (* what earlier runs of the server may have left in the ETA file *)
    Pictures,   (* pictures and operations to check ImageOps with *)
    Operations

(* A format or label is "" when its header is missing; an intent is 0 then *)
(* (X-Tune-Intent is neither "more", 1, nor "less", -1).  Only an expert   *)
(* request can have its picture trimmed or cropped.  A file is a sequence  *)
(* of lines, told by their keys.                                           *)
ASSUME JobAssumption ==
    /\ \A u \in Uploads :
         /\ u.expert \in BOOLEAN /\ u.intent \in {-1, 0, 1}
         /\ u.ops.trim \/ u.ops.crop => u.expert
    /\ \A file \in EtaFiles : file \in Seq(Range(file))

(* Sizes are positive ints, as libpng yields them; numbers of an operation *)
(* are any the request's text gives.                                       *)
ASSUME PreparationAssumption ==
    /\ \A p \in Pictures : p.width \in 1 .. IntMax /\ p.height \in 1 .. IntMax
    /\ \A ops \in Operations :
         /\ ops.trim \in BOOLEAN /\ ops.crop \in BOOLEAN /\ ops.tolerance \in Int
         /\ ops.rectangle \in [x : Int, y : Int, width : Int, height : Int]

VARIABLES
    upload,    (* the request *)
    stage,     (* how far the handling is *)
    tasks,     (* the encoders to run *)
    at,        (* the index of the loop that starts or joins *)
    encoder,   (* what each task does *)
    inline,    (* the tasks for which no thread could be had *)
    outputs,   (* the tasks with data in result->outputs *)
    events,    (* the outputs emitted to the job's channel, in order *)
    memory,    (* of "image" and "job", those not freed yet *)
    report,    (* the image to encode, and what the result says of it *)
    eta,       (* the ETA table and its file *)
    status,    (* result->status *)
    count      (* result->output_count *)

vars == <<upload, stage, tasks, at, encoder, inline, outputs, events, memory,
          report, eta, status, count>>
work == <<tasks, at, encoder, inline, outputs, events, eta>>
verdict == <<status, count>>
result == <<report, verdict>>

(* The four encoders, in the order they are always considered, each with   *)
(* the status its failure gives the job.                                   *)
Encoders ==
    << [format |-> "png", label |-> "lossless", failure |-> -2],
       [format |-> "png", label |-> "pngquant q80", failure |-> -5],
       [format |-> "webp", label |-> "high", failure |-> -3],
       [format |-> "avif", label |-> "medium", failure |-> -4] >>

(* A plausible mistake, never part of Next: the format alone is looked at. *)
KnownFormat(u) == \E i \in 1 .. Len(Encoders) : Encoders[i].format = u.format

(* fp_is_known_target: what the server takes for a target.  A missing      *)
(* label is the empty string here, never NULL, and no target has it.       *)
KnownTarget(u) ==
    \E i \in 1 .. Len(Encoders) :
        Encoders[i].format = u.format /\ Encoders[i].label = u.label

(* fp_should_run_task: whether the worker runs an encoder for an upload.   *)
ShouldRun(u, e) ==
    \/ u.format = ""
    \/ u.format = e.format /\ u.label \in {"", e.label}

IfRun(u, e) == IF ShouldRun(u, e) THEN <<e>> ELSE <<>>

(* An expert job asks for all four, whatever the tune headers say.         *)
TasksFor(u) ==
    IF u.expert THEN Encoders
    ELSE IfRun(u, Encoders[1]) \o IfRun(u, Encoders[2])
         \o IfRun(u, Encoders[3]) \o IfRun(u, Encoders[4])

Index == 1 .. Len(tasks)

Init ==
    /\ upload \in Uploads
    /\ stage = "arrived"
    /\ tasks = <<>>
    /\ at = 1
    /\ encoder = <<>>
    /\ inline = {}
    /\ outputs = {}
    /\ events = <<>>
    /\ memory = {"job"}
    /\ report = Report(Decoded(upload.picture))
    /\ \E file \in EtaFiles, writable \in BOOLEAN :
         eta = [table |-> Loaded(file), file |-> file, writable |-> writable]
    /\ status = 0
    /\ count = 0

Goto(from, to) == stage = from /\ stage' = to

(* The worker is done: image and job freed, result given its status. *)
Finish(from, s, n) ==
    /\ Goto(from, "done")
    /\ memory' = {}
    /\ status' = s
    /\ count' = n
    /\ UNCHANGED <<upload, tasks, at, encoder, inline, outputs, events, report, eta>>
-----------------------------------------------------------------------------
(* Plausible mistakes, never part of Next: the properties must catch them. *)

(* The event emitted before the outcome is looked at. *)
FailLoudly(i) ==
    /\ encoder[i] = "running"
    /\ encoder' = [encoder EXCEPT ![i] = "failed"]
    /\ events' = Append(events, i)
    /\ UNCHANGED <<upload, stage, tasks, at, inline, outputs, memory, result, eta>>

(* An encoder that has failed passes for one still to be waited for. *)
JoinOnlySuccess ==
    /\ at \in Index
    /\ stage = "join"
    /\ encoder[at] = "ok"
    /\ at' = at + 1
    /\ UNCHANGED <<upload, stage, tasks, encoder, inline, outputs, events, memory, result, eta>>

(* Threads are not waited for. *)
JoinNobody ==
    /\ at \in Index
    /\ stage = "join"
    /\ at' = at + 1
    /\ UNCHANGED <<upload, stage, tasks, encoder, inline, outputs, events, memory, result, eta>>

(* The verdict is that of the last task. *)
JudgeLast ==
    /\ stage = "join"
    /\ at > Len(tasks)
    /\ IF encoder[Len(tasks)] = "failed"
       THEN Finish("join", tasks[Len(tasks)].failure, 0)
       ELSE Finish("join", 0, Len(tasks))
-----------------------------------------------------------------------------
(* The server.  Only a tune request, with a format and an intent, has its  *)
(* target checked; an expert request has no tune.                          *)
Checked(u) == ~u.expert /\ u.intent # 0 /\ u.format # ""

Accept ==
    /\ Checked(upload) => KnownTarget(upload)
    /\ Goto("arrived", "decode")
    /\ UNCHANGED <<upload, work, memory, result>>

(* 400 "Unknown tune target" *)
Reject ==
    /\ Checked(upload) /\ ~KnownTarget(upload)
    /\ Goto("arrived", "rejected")
    /\ memory' = {}
    /\ UNCHANGED <<upload, work, result>>
-----------------------------------------------------------------------------
(* The worker *)

DecodeFails == Finish("decode", -1, 0)

(* Trim and crop change the image, or warn and leave it. *)
Decode ==
    /\ Goto("decode", "start")
    /\ report' \in {Prepared(upload.picture, upload.ops)}
    /\ memory' = memory \cup {"image"}
    /\ tasks' = TasksFor(upload)
    /\ encoder' = [i \in 1 .. Len(TasksFor(upload)) |-> "none"]
    /\ UNCHANGED <<upload, at, inline, outputs, events, eta, verdict>>

(* "unknown_tune_target" *)
NothingToRun == tasks = <<>> /\ Finish("start", -6, 0)

(* The worker is not itself encoding. *)
Free == \A i \in inline : encoder[i] \in {"ok", "failed"}

(* A thread of its own for the task or, without one, the worker's. *)
Start ==
    /\ stage = "start" /\ Free
    /\ at \in Index
    /\ encoder' = [encoder EXCEPT ![at] = "running"]
    /\ inline' \in {inline, inline \cup {at}}
    /\ at' = at + 1
    /\ UNCHANGED <<upload, stage, tasks, outputs, events, memory, result, eta>>

StartJoining ==
    /\ tasks # <<>>
    /\ at > Len(tasks) /\ Free
    /\ Goto("start", "join")
    /\ at' = 1
    /\ UNCHANGED <<upload, tasks, encoder, inline, outputs, events, memory, result, eta>>

(* pthread_join, for a task that has a thread. *)
Join ==
    /\ at \in Index
    /\ stage = "join"
    /\ at \in inline \/ encoder[at] \in {"ok", "failed"}
    /\ at' = at + 1
    /\ UNCHANGED <<upload, stage, tasks, encoder, inline, outputs, events, memory, result, eta>>

(* The first task that failed, in the order of the tasks, gives the        *)
(* verdict.  fp_free_result frees the first output_count outputs, and no   *)
(* output is counted yet: those of the tasks that succeeded stay.          *)
Judge ==
    LET failed == {i \in Index : encoder[i] = "failed"} IN
    /\ stage = "join"
    /\ at > Len(tasks)
    /\ \/ failed = {} /\ Finish("join", 0, Len(tasks))
       \/ \E i \in failed : /\ \A j \in failed : i <= j
                            /\ Finish("join", tasks[i].failure, 0)

-----------------------------------------------------------------------------
(* The encoder of task i: fp_encode_task_run *)

Encode(i) ==
    /\ encoder[i] = "running"
    /\ encoder' = [encoder EXCEPT ![i] = "encoded"]
    /\ outputs' = outputs \cup {i}
    /\ UNCHANGED <<upload, stage, tasks, at, inline, events, memory, result, eta>>

EncodeFails(i) ==
    /\ encoder[i] = "running"
    /\ encoder' = [encoder EXCEPT ![i] = "failed"]
    /\ UNCHANGED <<upload, stage, tasks, at, inline, outputs, events, memory, result, eta>>

KeyOf(i) ==
    EtaKey(<<upload.expert, tasks[i].label>>, report.image.width * report.image.height)

(* worker_eta_update; a file that cannot be written is left as it is.  The *)
(* first call of all loads the table, before it or any other writes: Init  *)
(* has it loaded.                                                          *)
Record(i) ==
    /\ encoder[i] = "encoded"
    /\ encoder' = [encoder EXCEPT ![i] = "timed"]
    /\ eta' = [eta EXCEPT !.table = Recorded(@, KeyOf(i)),
                          !.file = IF eta.writable THEN Append(@, KeyOf(i)) ELSE @]
    /\ UNCHANGED <<upload, stage, tasks, at, inline, outputs, events, memory, result>>

(* fp_progress_emit_output, and the thread ends. *)
Emit(i) ==
    /\ encoder[i] = "timed"
    /\ encoder' = [encoder EXCEPT ![i] = "ok"]
    /\ events' = Append(events, i)
    /\ UNCHANGED <<upload, stage, tasks, at, inline, outputs, memory, result, eta>>
-----------------------------------------------------------------------------
WorkerStep ==
    \/ DecodeFails \/ Decode \/ NothingToRun
    \/ Start \/ StartJoining \/ Join \/ Judge

EncoderStep(i) == Encode(i) \/ EncodeFails(i) \/ Record(i) \/ Emit(i)

Next ==
    \/ Accept \/ Reject
    \/ WorkerStep
    \/ \E i \in Index : EncoderStep(i)

Spec == Init /\ [][Next]_vars

(* The worker and the encoders are scheduled, and an encoder's library     *)
(* call returns.                                                           *)
FairSpec ==
    /\ Spec
    /\ WF_vars(WorkerStep)
    /\ \A i \in 1 .. Len(Encoders) : WF_vars(i \in Index /\ EncoderStep(i))
-----------------------------------------------------------------------------
(* Types of the state. *)
TypeOK ==
    /\ upload \in Uploads
    /\ stage \in {"arrived", "rejected", "decode", "start", "join", "done"}
    /\ tasks \in {<<>>} \cup {TasksFor(u) : u \in Uploads}
    /\ at \in 1 .. (Len(tasks) + 1)
    /\ encoder \in [Index -> {"none", "running", "encoded", "timed", "ok", "failed"}]
    /\ inline \subseteq Index /\ outputs \subseteq Index
    /\ events \in Seq(Index)
    /\ memory \subseteq {"image", "job"}
    /\ report \in {Report(Decoded(upload.picture)), Prepared(upload.picture, upload.ops)}
    /\ eta.table \in [EtaIndex -> [key : {NoKey} \cup {eta.file[n] : n \in 1 .. Len(eta.file)}
                                           \cup {KeyOf(i) : i \in Index},
                                   own : Nat, foreign : Nat]]
    /\ eta.writable \in BOOLEAN
    /\ status \in -6 .. 0
    /\ count \in 0 .. Len(tasks)

(* The image and the job (whose channel gets the events) outlive every     *)
(* encoder that uses them.                                                 *)
EncodersOutlived ==
    (\E i \in Index : encoder[i] \in {"running", "encoded", "timed"}) => memory = {"image", "job"}

(* The stream and the result agree: each output is emitted at most once, a *)
(* failed task emits nothing, and of an "ok" job every output counted is   *)
(* there and has been emitted before the result is out.                    *)
StreamMatchesResult ==
    /\ TypeOK
    /\ IsInjective(events)
    /\ \A k \in 1 .. Len(events) : events[k] \in outputs
    /\ stage = "done" /\ status = 0 =>
           /\ count = Len(tasks) /\ count > 0
           /\ outputs = 1 .. count
           /\ {events[k] : k \in 1 .. Len(events)} = outputs

(* Whatever the order in which the encoders end, the verdict is that of    *)
(* the first one of the list that failed; outputs are left behind in a     *)
(* result that counts none of them only when some encoder failed.          *)
VerdictIgnoresTiming ==
    stage = "done" /\ tasks # <<>> =>
        /\ status = 0 => \A i \in Index : encoder[i] = "ok"
        /\ \A i \in Index :
             /\ encoder[i] = "failed"
             /\ \A j \in 1 .. (i - 1) : encoder[j] = "ok"
             => status = tasks[i].failure
        /\ \A i \in outputs : i > count => status # 0

(* Server and worker agree on what a target is: a tune request the server  *)
(* lets through runs exactly the encoder it names.                         *)
AcceptedTuneRuns ==
    stage \in {"start", "join"} /\ Checked(upload) =>
        Len(tasks) = 1 /\ tasks[1].format = upload.format /\ tasks[1].label = upload.label

(* The ETA table is what a restart would make of the file, with one entry  *)
(* per key for that key's samples alone: as long as there are entries for  *)
(* all keys and the file can be written.                                   *)
EtaSurvivesRestart ==
    LET Lines(key) == {n \in 1 .. Len(eta.file) : eta.file[n] = key}
        keys == {eta.file[n] : n \in 1 .. Len(eta.file)}
    IN  eta.writable /\ Cardinality(keys) <= EtaSlots =>
            /\ eta.table = Loaded(eta.file)
            /\ \A key \in keys :
                 \E i \in EtaIndex :
                    /\ EntriesOf(eta.table, key) = {i}
                    /\ eta.table[i].own = Cardinality(Lines(key))
            /\ \A i \in EtaIndex : eta.table[i].foreign = 0

(* What is left of a picture, told without buffers: trimming leaves what   *)
(* lies between visible points, or one point; cropping leaves a rectangle  *)
(* from the point asked for, in so far as it is in the picture, and all if *)
(* that is nothing.                                                        *)
Between(a, b, c) == a <= b /\ b <= c

TrimLeaves(picture, tolerance) ==
    LET threshold == IF tolerance <= 0 THEN SomeAlpha ELSE Min({tolerance, MaxAlpha})
        points == Points(picture.width, picture.height)
        visible == {p \in points : picture.alpha[p] > threshold}
    IN  IF visible = {} THEN {<<0, 0>>}
        ELSE {q \in points : /\ \E a, b \in visible : Between(a[1], q[1], b[1])
                             /\ \E a, b \in visible : Between(a[2], q[2], b[2])}

Origin(points) == <<Min({p[1] : p \in points}), Min({p[2] : p \in points})>>

CropLeaves(points, c) ==
    LET x == Origin(points)[1] + Max({c.x, 0})
        y == Origin(points)[2] + Max({c.y, 0})
        inside == {q \in points : /\ Between(x, q[1], x + c.width - 1)
                                  /\ Between(y, q[2], y + c.height - 1)}
    IN  IF inside = {} THEN points ELSE inside

Left(picture, ops) ==
    LET trimmed == IF ops.trim THEN TrimLeaves(picture, ops.tolerance)
                   ELSE Points(picture.width, picture.height)
    IN  IF ops.crop THEN CropLeaves(trimmed, ops.rectangle) ELSE trimmed

(* The far corner of the rectangle is an int. *)
WithinInt(c) ==
    Max({c.x, 0}) + c.width <= IntMax /\ Max({c.y, 0}) + c.height <= IntMax

(* The picture an image was made of is in its place: the points that       *)
(* should be left, row by row.                                             *)
InPlace(img, left) ==
    LET At(p) == <<Origin(left)[1] + p[1], Origin(left)[2] + p[2]>> IN
    /\ Len(img.pixels) = Cardinality(left)
    /\ left = {At(p) : p \in Points(img.width, img.height)}
    /\ \A p \in Points(img.width, img.height) : PixelAt(img, p[1], p[2]) = At(p)

Misprepared ==
    {c \in Pictures \X Operations :
        /\ WithinInt(c[2].rectangle)
        /\ LET r == Prepared(c[1], c[2]) IN
           ~ /\ InPlace(r.image, Left(c[1], c[2]))
             /\ ~(r.trimmed /\ c[2].crop) =>
                    r.inputWidth = c[1].width /\ r.inputHeight = c[1].height}

(* Trimming and cropping a buffer leaves exactly the points it should,     *)
(* each at its place, as long as the rectangle's corner is an int; and the *)
(* result tells the picture's own size, unless it was trimmed before it    *)
(* was cropped: fp_crop_image then notes the trimmed size over it.  A      *)
(* request may come with any of the pictures and operations.               *)
PreparedAsAsked == stage = "arrived" => Misprepared = {}

(* Every job a worker takes up gets its verdict. *)
EventuallyJudged == stage = "decode" ~> stage = "done"
=============================================================================
