---------------------------- MODULE MCExpertUsage ----------------------------
(* An instance of ExpertUsage for TLC. *)
EXTENDS ExpertUsage

CONSTANTS r1, r2, r3, r4, r5, r6, alice, bob, carol

(* Requests of one user too large together, by their bytes (r1, r2) or by  *)
(* their files (r1, r3); two more users for a table of two; and a key      *)
(* without a user.                                                         *)
MCUserOf == (r1 :> alice) @@ (r2 :> alice) @@ (r3 :> alice) @@ (r4 :> bob)
            @@ (r5 :> carol) @@ (r6 :> Nobody)
Quota ==
    (r1 :> <<FilePart(3)>>) @@ (r2 :> <<FilePart(2)>>)
    @@ (r3 :> <<FilePart(1), OtherPart, FilePart(1)>>)
    @@ (r4 :> <<FilePart(1)>>) @@ (r5 :> <<FilePart(1)>>) @@ (r6 :> <<FilePart(1)>>)

(* One request alone, with any body of a few parts. *)
Parts ==
    {FilePart(1), FilePart(2), Nameless,
     Metadata([webpQuality |-> 50]), Metadata([webpQuality |-> 200, pngLevel |-> 3]),
     MetadataFor(1, [webpQuality |-> 0]), MetadataFor(1, [avifQuality |-> -1, pngLevel |-> 20]),
     MetadataFor(2, [pngQuantColors |-> 4])}
BadFiles == {FilePart(0), FilePart(4), OtherPart, MetadataFor(3, [pngLevel |-> 1])}
Bodies ==
    UNION {[1 .. n -> Parts] : n \in 0 .. 4} \cup
    {<<a, b, c>> : a, b, c \in Parts \cup BadFiles} \cup
    {<<a, b, c, d, FilePart(1)>> : a, b, c, d \in Parts}

MCBatches == {Quota} \cup {(r1 :> b) : b \in Bodies}
QuotaOnly == {Quota}
=============================================================================
