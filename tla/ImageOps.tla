------------------------------- MODULE ImageOps -------------------------------
(***************************************************************************)
(* Trimming and cropping (src/src/image_ops.c) and the worker's use of     *)
(* them.  An image is a buffer of pixels, row after row, as the code has   *)
(* it; a pixel is represented by the point of the upload it comes from, so *)
(* that one can say which part of the upload is left.                      *)
(***************************************************************************)
EXTENDS Integers, Sequences, FiniteSetsExt

CONSTANTS
    IntMax,     (* INT_MAX *)
    MaxAlpha,   (* of an opaque pixel: 255 *)
    SomeAlpha   (* the tolerance used for one that is not positive: 0.01, in units of alpha *)

ASSUME ImageOpsAssumption ==
    /\ IntMax \in Nat /\ MaxAlpha \in Nat
    /\ SomeAlpha \in 0 .. MaxAlpha

(* What fp_decode_png yields: a picture has a width, a height and the      *)
(* alpha of each of its points.                                            *)
Points(w, h) == (0 .. w - 1) \X (0 .. h - 1)
Decoded(p) ==
    [width |-> p.width, height |-> p.height,
     pixels |-> [k \in 1 .. p.width * p.height |-> <<(k - 1) % p.width, (k - 1) \div p.width>>]]

(* The point at column i of row j; beyond the buffer there is none. *)
Nowhere == <<-1, -1>>
PixelAt(img, i, j) ==
    LET k == j * img.width + i + 1 IN
    IF k \in 1 .. Len(img.pixels) THEN img.pixels[k] ELSE Nowhere

(* The sum of two ints, as two's complement wraps it. *)
Plus(a, b) == IF a + b > IntMax THEN a + b - 2 * (IntMax + 1) ELSE a + b
-----------------------------------------------------------------------------
(* A plausible mistake: a rectangle that is not cut off at the edge. *)
Uncut(at, extent, limit) == extent
-----------------------------------------------------------------------------
(* What a result says of an image: the size it had, and what was done. *)
Report(img) ==
    [image |-> img, inputWidth |-> img.width, inputHeight |-> img.height,
     trimmed |-> FALSE, cropped |-> FALSE]

(* fp_image_ops_seed_report: each operation notes the size it finds. *)
Seed(r) == [r EXCEPT !.inputWidth = r.image.width, !.inputHeight = r.image.height]

(* The extent of a rectangle from at, cut off at the edge. *)
CutOff(at, extent, limit) == IF Plus(at, extent) > limit THEN limit - at ELSE extent

AtLeastZero(n) == IF n < 0 THEN 0 ELSE n

(* fp_crop_image; one that fails leaves the image. *)
Crop(r, c) ==
    LET img == r.image
        x == AtLeastZero(c.x)
        y == AtLeastZero(c.y)
        w == CutOff(x, c.width, img.width)
        h == CutOff(y, c.height, img.height)
    IN  IF c.width <= 0 \/ c.height <= 0 THEN r
        ELSE IF x >= img.width \/ y >= img.height THEN Seed(r)
        ELSE [Seed(r) EXCEPT
                !.image = [width |-> w, height |-> h,
                           pixels |-> [k \in 1 .. w * h |->
                               PixelAt(img, x + ((k - 1) % w), y + ((k - 1) \div w))]],
                !.cropped = TRUE]

(* The box of the pixels whose alpha exceeds the threshold; without any,   *)
(* one pixel.                                                              *)
BoundingBox(seen) ==
    IF seen = {} THEN [x |-> 0, y |-> 0, width |-> 1, height |-> 1]
    ELSE LET xs == {p[1] : p \in seen}
             ys == {p[2] : p \in seen}
         IN  [x |-> Min(xs), y |-> Min(ys),
              width |-> Max(xs) - Min(xs) + 1, height |-> Max(ys) - Min(ys) + 1]

(* fp_trim_image, on a picture as it was decoded. *)
Trim(r, picture, tolerance) ==
    LET threshold == IF tolerance > MaxAlpha THEN MaxAlpha ELSE AtLeastZero(tolerance)
        seen == {p \in Points(picture.width, picture.height) : picture.alpha[p] > threshold}
        box == BoundingBox(seen)
    IN  IF box.width = r.image.width /\ box.height = r.image.height THEN Seed(r)
        ELSE [Crop(Seed(r), box) EXCEPT !.trimmed = TRUE]

(* What fp_worker_handle_job does to a picture before it is encoded: trim, *)
(* then crop, each if it was asked for.                                    *)
Prepared(picture, ops) ==
    LET whole == Report(Decoded(picture))
        tolerance == IF ops.tolerance <= 0 THEN SomeAlpha ELSE ops.tolerance
        trimmed == IF ops.trim THEN Trim(whole, picture, tolerance) ELSE whole
    IN  IF ops.crop THEN Crop(trimmed, ops.rectangle) ELSE trimmed
=============================================================================
