------------------------------ MODULE MCQuantize ------------------------------
(* Instances of Quantize for TLC. *)
EXTENDS Quantize

(* Two values to a bucket.  The first image has five colours, is widest in *)
(* blue and, once cut, in red; of two colours one is seen twice and two    *)
(* pixels that differ share a bucket.  The second is widest in red, then   *)
(* in alpha, with a tie between channels and between colours.  The third   *)
(* has one colour, the fourth fewer than the palette.                      *)
Wide   == << <<0, 0, 0, 7>>, <<4, 0, 6, 7>>, <<4, 1, 6, 7>>, <<2, 2, 0, 7>>,
             <<0, 2, 7, 7>>, <<6, 0, 2, 7>> >>
Tied   == << <<0, 0, 0, 0>>, <<6, 0, 0, 6>>, <<6, 2, 0, 0>>, <<2, 0, 0, 6>>,
             <<2, 2, 0, 2>> >>
Plain  == << <<3, 3, 3, 7>>, <<2, 3, 3, 7>> >>
Few    == << <<0, 0, 0, 7>>, <<7, 7, 7, 7>>, <<7, 7, 7, 7>>, <<7, 7, 7, 0>> >>
SomePictures == {Wide, Tied, Plain, Few}
=============================================================================
