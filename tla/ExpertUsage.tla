------------------------------ MODULE ExpertUsage ------------------------------
(***************************************************************************)
(* The daily quota of Expert mode and the requests that draw on it         *)
(* (fp_track_expert_usage and its caller fp_handle_expert_compress), their *)
(* bodies taken apart as ExpertUpload has it.  The                         *)
(* usage table holds one entry per user and day; an entry of another day   *)
(* is free for reuse.  A request reads the clock before it takes the       *)
(* table's mutex, so a day may end in between.                             *)
(***************************************************************************)
EXTENDS ExpertUpload, FiniteSetsExt

CONSTANTS
    Requests,   (* requests past authorization *)
    UserOf,     (* the user of each; Nobody for a key from the environment *)
    Batches,    (* the requests that may be sent together, each with its body *)
    Nobody,     (* user id 0 *)
    Slots,      (* entries in g_expert_usage: 64 in the code *)
    MaxJobs,    (* FP_EXPERT_MAX_DAILY_JOBS *)
    MaxBytes,   (* FP_EXPERT_MAX_DAILY_BYTES *)
    LastDay,    (* bound: the clock stops there *)
    MaxInFlight (* bound: requests being served at once *)

(* One request alone never exceeds a day's quota: at most 10 files and     *)
(* 100 MB, of 500 and 2 GB.                                                *)
ASSUME UsageAssumption ==
    /\ Slots \in Nat
    /\ LastDay \in Nat
    /\ MaxInFlight \in Nat
    /\ MaxJobs \in Nat /\ MaxBytes \in Nat
    /\ MaxFiles <= MaxJobs /\ MaxTotal <= MaxBytes
    /\ IsFiniteSet(Requests)

(* A body is a sequence of parts; those that are files have a size, and    *)
(* metadata gives numbers.                                                 *)
ASSUME BatchesAssumption ==
    \A batch \in Batches : \A r \in DOMAIN batch :
        /\ batch[r] \in Seq(Range(batch[r]))
        /\ \A part \in Range(batch[r]) :
             /\ part.kind = "file" => part.size \in Nat
             /\ part.kind \in {"shared", "own"} =>
                  \A name \in DOMAIN part.options : part.options[name] \in Int

VARIABLES
    body,        (* the parts of each request sent *)
    request,     (* what was made of them: its files and their bytes *)
    day,         (* of the clock *)
    entries,     (* g_expert_usage *)
    pc,          (* where each request is *)
    today,       (* the day a request has read *)
    finished,    (* the files of a request compressed so far, with their settings *)
    charged,     (* history: what each user was let through with, by day *)
    straddled    (* history: a request took the mutex a day after its reading *)

vars == <<body, request, day, entries, pc, today, finished, charged, straddled>>

Users == {UserOf[r] : r \in Requests} \ {Nobody}
Days == 0 .. LastDay
Index == 1 .. Slots

Init ==
    /\ body \in Batches
    /\ request = [r \in Requests |-> [files |-> <<>>, total |-> 0]]
    /\ day = 0
    /\ entries = [i \in Index |-> [user |-> Nobody, day |-> 0, jobs |-> 0, bytes |-> 0]]
    /\ pc = [r \in Requests |-> "new"]
    /\ today = [r \in Requests |-> 0]
    /\ finished = [r \in Requests |-> <<>>]
    /\ charged = [u \in Users |-> [d \in Days |-> {}]]
    /\ straddled = FALSE

Goto(r, from, to) ==
    /\ pc[r] = from
    /\ pc' = [pc EXCEPT ![r] = to]

(* The bound leaves room for one more request. *)
MayStart == Cardinality({r \in Requests : pc[r] \in {"tracking", "running"}}) < MaxInFlight

FilesOf(r) == Len(request[r].files)
BytesOf(r) == request[r].total
Jobs(rs) == SumFunctionOnSet([r \in Requests |-> FilesOf(r)], rs)
Bytes(rs) == SumFunctionOnSet([r \in Requests |-> BytesOf(r)], rs)
-----------------------------------------------------------------------------
(* Plausible mistakes, never part of Next: the properties must catch them. *)

(* A used-up quota is noticed only by the next request. *)
FitsNow(e, r) == e.jobs < MaxJobs /\ e.bytes < MaxBytes

(* An entry taken over with the counts of its last owner. *)
ClaimedDirty(e, r) ==
    [e EXCEPT !.user = UserOf[r], !.day = today[r]]

(* Only entries never used are free. *)
ReusableOnce(e, r) == e.user = Nobody
-----------------------------------------------------------------------------
(* fp_handle_expert_compress takes the body apart.  (One that is not       *)
(* multipart is refused before it has any effect.)                         *)
Parse(r) ==
    /\ MayStart
    /\ r \in DOMAIN body
    /\ request' = [request EXCEPT ![r] = Parsed(body[r])]

(* 400 or 413 for a body without files, or with a bad one. *)
Reject(r) ==
    /\ Parse(r)
    /\ request'[r].files = <<>>
    /\ Goto(r, "new", "rejected")
    /\ UNCHANGED <<body, day, entries, today, finished, charged, straddled>>
-----------------------------------------------------------------------------
(* fp_track_expert_usage *)

Mine(e, r) == e.user = UserOf[r] /\ e.day = today[r]
Reusable(e, r) == e.user = Nobody \/ e.day # today[r]

(* The loop stops at the first entry that is the user's, or reusable. *)
Chosen(r, i) ==
    /\ i \in Index
    /\ Mine(entries[i], r) \/ Reusable(entries[i], r)
    /\ \A j \in 1 .. (i - 1) : ~Mine(entries[j], r) /\ ~Reusable(entries[j], r)

Claimed(e, r) ==
    [e EXCEPT !.user = UserOf[r], !.day = today[r], !.jobs = 0, !.bytes = 0]

(* The user's entry before the charge. *)
Entry(r, i) ==
    IF Mine(entries[i], r) THEN entries[i] ELSE Claimed(entries[i], r)

Fits(e, r) == e.jobs + FilesOf(r) <= MaxJobs /\ e.bytes + BytesOf(r) <= MaxBytes

(* A key without a user is not metered. *)
Unmetered(r) ==
    /\ UserOf[r] = Nobody
    /\ Parse(r)
    /\ request'[r].files # <<>>
    /\ Goto(r, "new", "running")
    /\ UNCHANGED <<body, day, entries, today, finished, charged, straddled>>

ReadDay(r) ==
    /\ UserOf[r] # Nobody
    /\ Parse(r)
    /\ request'[r].files # <<>>
    /\ Goto(r, "new", "tracking")
    /\ today' = [today EXCEPT ![r] = day]
    /\ UNCHANGED <<body, day, entries, finished, charged, straddled>>

Charged(e, r) == [e EXCEPT !.jobs = @ + FilesOf(r), !.bytes = @ + BytesOf(r)]

Charge(r) ==
    \E i \in Index :
        /\ Chosen(r, i)
        /\ Fits(Entry(r, i), r)
        /\ entries' = [entries EXCEPT ![i] = Charged(Entry(r, i), r)]
        /\ Goto(r, "tracking", "running")
        /\ charged' = [charged EXCEPT ![UserOf[r]][today[r]] = @ \cup {r}]
        /\ straddled' = (straddled \/ today[r] # day)
        /\ UNCHANGED <<body, request, day, today, finished>>

(* 429 "Daily job limit reached" or "Daily byte limit reached" *)
Refuse(r) ==
    \E i \in Index :
        /\ Chosen(r, i)
        /\ ~Fits(Entry(r, i), r)
        /\ entries' = [entries EXCEPT ![i] = Entry(r, i)]
        /\ Goto(r, "tracking", "refused")
        /\ straddled' = (straddled \/ today[r] # day)
        /\ UNCHANGED <<body, request, day, today, finished, charged>>

(* 429 "Server busy" *)
RefuseBusy(r) ==
    /\ \A i \in Index : ~Chosen(r, i)
    /\ Goto(r, "tracking", "refused")
    /\ UNCHANGED <<body, request, day, entries, today, finished, charged, straddled>>
-----------------------------------------------------------------------------
(* The rest of fp_handle_expert_compress: one job per file, in order *)

FileDone(r) ==
    LET n == Len(finished[r]) + 1
        file == request[r].files[n]
    IN
    /\ Goto(r, "running", IF n = FilesOf(r) THEN "answered" ELSE "running")
    /\ finished' = [finished EXCEPT
                        ![r] = Append(@, [part |-> file.part, settings |-> Settings(file.options)])]
    /\ UNCHANGED <<body, request, day, entries, today, charged, straddled>>

(* No result, or a bad one: an error for the whole request, the results of *)
(* the files before it are freed, and the quota is not given back.         *)
FileFails(r) ==
    /\ Goto(r, "running", "failed")
    /\ finished' = [finished EXCEPT ![r] = <<>>]
    /\ UNCHANGED <<body, request, day, entries, today, charged, straddled>>

Midnight ==
    /\ day < LastDay
    /\ day' = day + 1
    /\ UNCHANGED <<body, request, entries, pc, today, finished, charged, straddled>>
-----------------------------------------------------------------------------
Next ==
    \/ Midnight
    \/ \E r \in Requests :
         \/ Reject(r) \/ Unmetered(r) \/ ReadDay(r) \/ Charge(r) \/ Refuse(r) \/ RefuseBusy(r)
         \/ FileDone(r) \/ FileFails(r)

Spec == Init /\ [][Next]_vars
-----------------------------------------------------------------------------
(* Types of the state. *)
TypeOK ==
    /\ day \in Days
    /\ entries \in [Index -> [user : Users \cup {Nobody}, day : Days,
                              jobs : 0 .. MaxJobs, bytes : 0 .. MaxBytes]]
    /\ pc \in [Requests -> {"new", "rejected", "tracking", "running",
                         "refused", "answered", "failed"}]
    /\ today \in [Requests -> Days]
    /\ \A r \in Requests : Len(finished[r]) <= FilesOf(r) /\ FilesOf(r) <= MaxFiles
    /\ charged \in [Users -> [Days -> SUBSET Requests]]
    /\ straddled \in BOOLEAN

Within(rs) == Jobs(rs) <= MaxJobs /\ Bytes(rs) <= MaxBytes

(* As long as no request locks the table a day after it read the clock, no *)
(* user is let through with more than a day's quota.                       *)
CapUnlessStraddled ==
    ~straddled => \A u \in Users, d \in Days : Within(charged[u][d])

(* Until then the table is an account of the day: whoever was let through  *)
(* today has one entry, with all that was charged.                         *)
TableIsExact ==
    TypeOK /\ (~straddled =>
        \A u \in Users :
            LET mine == {i \in Index : entries[i].user = u /\ entries[i].day = day} IN
            /\ Cardinality(mine) <= 1
            /\ charged[u][day] # {} => mine # {}
            /\ \A i \in mine : /\ entries[i].jobs = Jobs(charged[u][day])
                               /\ entries[i].bytes = Bytes(charged[u][day]))

(* Other users let through on the day a request has read. *)
Others(r) == {u \in Users \ {UserOf[r]} : charged[u][today[r]] # {}}

(* Whenever the clock turned, a request is refused only for a reason: its  *)
(* user's quota of the day it read would be exceeded, or that day's other  *)
(* users need the whole table.  (Once a request has straddled midnight,    *)
(* fewer than Slots users may hold it, some of them with two entries.)     *)
RefusedForAReason ==
    [][\A r \in Requests :
          pc[r] = "tracking" /\ pc'[r] = "refused" =>
              \/ ~Within(charged[UserOf[r]][today[r]] \cup {r})
              \/ /\ \A i \in Index : entries[i].user \in Others(r) /\ entries[i].day = today[r]
                 /\ ~straddled => Cardinality(Others(r)) >= Slots
      ]_vars

(* The parts of a body with a name, and the setting meant for its file i. *)
Named(parts) ==
    LET named[n \in 0 .. Len(parts)] ==
            IF n = 0 THEN <<>>
            ELSE IF parts[n].kind = "nameless" THEN named[n - 1]
            ELSE Append(named[n - 1], parts[n])
    IN  named[Len(parts)]

MeantFor(parts, i, name) ==
    LET saying(ns) == {n \in ns : name \in DOMAIN parts[n].options}
        shared == saying({n \in DOMAIN parts : parts[n].kind = "shared"})
        owns == {n \in DOMAIN parts : parts[n].kind = "own" /\ parts[n].of = i}
        own == IF owns = {} THEN {} ELSE saying({Max(owns)})
        value == IF own # {} THEN parts[Max(own)].options[name]
                 ELSE IF shared # {} THEN parts[Max(shared)].options[name]
                 ELSE Default[name]
    IN  IF value <= 0 THEN Default[name] ELSE Max({Lowest[name], Min({Highest[name], value})})

(* An answered request compressed every file it was sent, in order, each   *)
(* with the options meant for it: those of its own metadata, for the rest  *)
(* those of the metadata for all, for the rest the defaults; values out of *)
(* range replaced by the nearest or, without a meaning, by the default.    *)
(* This takes a body with room for all its parts, in which the metadata    *)
(* for all comes before that for one file (the last, if there are more).   *)
FilesGetTheirOptions ==
    \A r \in Requests :
        LET parts == Named(body[r])
            At(kind) == {n \in DOMAIN parts : parts[n].kind = kind}
            Rank(n) == Cardinality({m \in At("file") : m <= n})
        IN  /\ pc[r] = "answered"
            /\ Len(parts) <= MaxParts
            /\ \A n \in At("shared"), m \in At("own") : n < m
            => /\ Len(finished[r]) = Cardinality(At("file"))
               /\ \A n \in At("file") :
                    finished[r][Rank(n)] =
                        [part |-> n, settings |-> [name \in Names |-> MeantFor(parts, Rank(n), name)]]

(* "per-user daily job caps" (EXPERT_MODE.md:33), midnight or not. *)
DailyCap == \A u \in Users, d \in Days : Within(charged[u][d])
=============================================================================
