------------------------------ MODULE ExpertUpload ------------------------------
(***************************************************************************)
(* The body of an Expert request: the form parts fp_parse_multipart keeps, *)
(* the walk of fp_handle_expert_compress over them, and the settings each  *)
(* file is compressed with (fp_populate_expert_outputs, and the worker's   *)
(* fp_worker_build_expert_tasks).                                          *)
(***************************************************************************)
EXTENDS Integers, Sequences, FiniteSets, SequencesExt

CONSTANTS
    MaxFiles,   (* FP_EXPERT_MAX_FILES: 10 *)
    MaxParts,   (* parts the request has room for: MaxFiles + 4 *)
    MaxFile,    (* FP_EXPERT_MAX_FILE, in bytes *)
    MaxTotal    (* FP_EXPERT_MAX_TOTAL *)

ASSUME UploadAssumption ==
    /\ MaxFiles \in Nat \ {0} /\ MaxParts \in Nat
    /\ MaxFile \in Nat \ {0} /\ MaxTotal \in Nat \ {0}

(* The options of a file.  Trimming and cropping are given and inherited   *)
(* the same way; ImageOps has what they do.                                *)
Names == {"pngLevel", "pngQuantColors", "webpQuality", "avifQuality"}
Default == [pngLevel |-> 6, pngQuantColors |-> 128, webpQuality |-> 90, avifQuality |-> 28]
Lowest == [pngLevel |-> 1, pngQuantColors |-> 8, webpQuality |-> 10, avifQuality |-> 0]
Highest == [pngLevel |-> 9, pngQuantColors |-> 256, webpQuality |-> 100, avifQuality |-> 63]

(* The kinds of parts.  Metadata gives values for some names; text that is *)
(* not JSON gives none, and is no error.  "metadataN" is for file N,       *)
(* counted from 1 here.                                                    *)
FilePart(size) == [kind |-> "file", size |-> size]
Metadata(options) == [kind |-> "shared", options |-> options]
MetadataFor(n, options) == [kind |-> "own", of |-> n, options |-> options]
OtherPart == [kind |-> "other"]
Nameless == [kind |-> "nameless"]

(* The options metadata gives, over those there were. *)
Over(options, others) ==
    [name \in DOMAIN options \cup DOMAIN others |->
        IF name \in DOMAIN options THEN options[name] ELSE others[name]]

(* Those of file n noted. *)
WithOwn(walk, n, options) ==
    [walk EXCEPT !.own = [i \in DOMAIN @ \cup {n} |-> IF i = n THEN options ELSE @[i]]]
-----------------------------------------------------------------------------
(* A plausible mistake: a file's metadata starts from the defaults. *)
OwnFromDefaults(walk, p) == WithOwn(walk, p.of, Over(p.options, Default))
-----------------------------------------------------------------------------
(* fp_parse_multipart: parts without a name are dropped, and those beyond  *)
(* the room for them.                                                      *)
KeepPart(kept, p) ==
    IF p.kind = "nameless" \/ Len(kept) >= MaxParts THEN kept ELSE Append(kept, p)

Kept(body) ==
    LET kept[n \in 0 .. Len(body)] == IF n = 0 THEN <<>> ELSE KeepPart(kept[n - 1], body[n])
    IN  kept[Len(body)]

(* A walk over parts: the shared options so far, the files with options of *)
(* their own, the files (their parts' positions), and whether it failed.   *)
Start == [shared |-> Default, own |-> <<>>, files |-> <<>>, total |-> 0, failed |-> FALSE]

OwnOptions(walk, p) == WithOwn(walk, p.of, Over(p.options, walk.shared))

(* 400 "Too many files", 400 "Empty file", 413 "File too large", 413       *)
(* "Total payload too large"                                               *)
Refused(walk, p) ==
    \/ Len(walk.files) >= MaxFiles
    \/ p.size = 0
    \/ p.size > MaxFile
    \/ walk.total + p.size > MaxTotal

AddFile(walk, p, n) ==
    IF Refused(walk, p) THEN [walk EXCEPT !.failed = TRUE]
    ELSE [walk EXCEPT !.files = Append(@, n), !.total = @ + p.size]

WalkPart(walk, p, n) ==
    IF walk.failed THEN walk
    ELSE IF p.kind = "own" /\ p.of <= MaxFiles THEN OwnOptions(walk, p)
    ELSE IF p.kind = "shared" THEN [walk EXCEPT !.shared = Over(p.options, @)]
    ELSE IF p.kind = "file" THEN AddFile(walk, p, n)
    ELSE walk

Walk(parts) ==
    LET after[n \in 0 .. Len(parts)] ==
            IF n = 0 THEN Start ELSE WalkPart(after[n - 1], parts[n], n)
    IN  after[Len(parts)]

(* What the rest of the request works with: its files, each with the       *)
(* options it ends up with, and their bytes.  Nothing if it is refused.    *)
Parsed(body) ==
    LET w == Walk(Kept(body)) IN
    IF w.failed THEN [files |-> <<>>, total |-> 0]
    ELSE [total |-> w.total,
          files |-> [i \in 1 .. Len(w.files) |->
                        [part |-> w.files[i],
                         options |-> IF i \in DOMAIN w.own THEN w.own[i] ELSE w.shared]]]
-----------------------------------------------------------------------------
Clamp(n, low, high) == IF n < low THEN low ELSE IF n > high THEN high ELSE n

(* fp_populate_expert_outputs: what the job asks for. *)
Populated(options) ==
    [n \in Names |->
        Clamp(IF options[n] > 0 \/ n = "avifQuality" THEN options[n] ELSE Default[n],
              Lowest[n], Highest[n])]

(* fp_worker_build_expert_tasks: what the encoders are given. *)
Settings(options) ==
    [n \in Names |->
        Clamp(IF Populated(options)[n] # 0 THEN Populated(options)[n] ELSE Default[n],
              Lowest[n], Highest[n])]
=============================================================================
