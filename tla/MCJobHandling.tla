---------------------------- MODULE MCJobHandling ----------------------------
(* An instance of JobHandling for TLC. *)
EXTENDS JobHandling

Nothing == [x |-> 0, y |-> 0, width |-> 0, height |-> 0]
NoOps == [trim |-> FALSE, tolerance |-> 0, crop |-> FALSE, rectangle |-> Nothing]
TrimAndCrop == [trim |-> TRUE, tolerance |-> 0, crop |-> TRUE,
                rectangle |-> [x |-> 0, y |-> 0, width |-> 1, height |-> 5]]

(* Pictures with at most two opaque points, clear or faint elsewhere. *)
Showing(w, h, points, rest) ==
    [width |-> w, height |-> h,
     alpha |-> [p \in Points(w, h) |-> IF p \in points THEN 2 ELSE rest]]
MCPictures ==
    {Showing(3, 2, {p, q}, rest) : p, q \in Points(3, 2), rest \in {0, 1}} \cup
    {Showing(1, 3, points, 1) : points \in SUBSET Points(1, 3)}

(* Rectangles inside, across the edges and outside of them, and some whose *)
(* corner is beyond the largest int.                                       *)
MCOperations ==
    {[trim |-> FALSE, tolerance |-> 0, crop |-> TRUE, rectangle |-> r] :
        r \in [x : {-1, 1, 3}, y : {0, 2}, width : {1, 7}, height : {0, 1, 4}]} \cup
    {[trim |-> TRUE, tolerance |-> t, crop |-> crop, rectangle |-> r] :
        t \in {0, 2, 5}, crop \in BOOLEAN,
        r \in [x : {0, 1}, y : {-1}, width : {2}, height : {1, 4}]}

APicture == Showing(3, 2, {<<2, 1>>}, 0)

Upload(expert, format, label, intent, ops) ==
    [expert |-> expert, format |-> format, label |-> label, intent |-> intent,
     picture |-> APicture, ops |-> ops]

(* Expert jobs; plain jobs with the tune headers in every combination that *)
(* names a format, one the server does not know among them, and without.   *)
MCUploads ==
    {Upload(TRUE, "", "", 0, ops) : ops \in {NoOps, TrimAndCrop}} \cup
    {Upload(FALSE, "", label, 1, NoOps) : label \in {"", "high"}} \cup
    {Upload(FALSE, format, label, intent, NoOps) :
        format \in {"png", "webp", "gif"},
        label \in {"", "pngquant q80", "high", "tiny"},
        intent \in {-1, 0, 1}}

(* A file of earlier runs: nothing, or samples of this and another size. *)
MCEtaFiles ==
    {<<>>,
     <<EtaKey(<<FALSE, "high">>, 6), EtaKey(<<FALSE, "high">>, 1), EtaKey(<<FALSE, "high">>, 6)>>}
=============================================================================
