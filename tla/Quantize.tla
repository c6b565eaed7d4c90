-------------------------------- MODULE Quantize --------------------------------
(***************************************************************************)
(* fp_compress_png_quantized: the palette encoder's median cut.  An image  *)
(* is reduced to a histogram of colours; one box of all colours is cut in  *)
(* two, again and again, until there are as many boxes as the palette      *)
(* shall have colours; each box gives the palette its mean colour.         *)
(*                                                                         *)
(* Encoder threads of different workers run this at the same time.  All    *)
(* they work on is their own, but for the channel to sort by:              *)
(* fp_quant_sort_channel is a plain global which each thread writes before *)
(* a sort and which qsort's comparator reads at every comparison.          *)
(***************************************************************************)
EXTENDS Integers, Sequences, FiniteSets, FiniteSetsExt, Functions

CONSTANTS
    Threads,      (* encoder threads that quantize *)
    Pictures,     (* images: sequences of pixels, <<r, g, b, a>> each *)
    Palettes,     (* values of the argument target_colors *)
    BucketSize,   (* values of a channel that count as one: 16 *)
    Levels        (* buckets of a channel: 16 *)

(* Red, green, blue and alpha: 0 to 3 in the code.                         *)
Channels == 1 .. 4

ASSUME QuantizeAssumption ==
    /\ BucketSize \in Nat \ {0} /\ Levels \in Nat \ {0}
    /\ Palettes \subseteq Int
    /\ \A image \in Pictures :
           /\ image \in Seq([Channels -> 0 .. BucketSize * Levels - 1])
           /\ image # <<>>

VARIABLES
    sortChannel,   (* fp_quant_sort_channel *)
    image,         (* the picture each thread quantizes *)
    target,        (* target_colors *)
    stage,         (* "count", "choose", "sort", "split", "done" or "failed" *)
    colors,        (* the histogram, in its present order *)
    boxes,         (* fp_color_box: colors[start + 1 .. end] and its statistics *)
    index,         (* the box being cut *)
    seen,          (* channels the comparator has read during the present sort *)
    palette,       (* the mean of each box, in the end *)
    disturbed      (* history: the cuts, by number, during whose sort another
                      thread chose its channel *)

vars == <<sortChannel, image, target, stage, colors, boxes, index, seen, palette, disturbed>>

-----------------------------------------------------------------------------
(* The histogram *)

Bucket(px) ==
    LET q == [c \in Channels |-> px[c] \div BucketSize]
    IN ((q[1] * Levels + q[2]) * Levels + q[3]) * Levels + q[4]

(* The sums of the first n numbers of a sequence, for each n.              *)
Sums(f) ==
    LET sums[n \in 0 .. Len(f)] == IF n = 0 THEN 0 ELSE sums[n - 1] + f[n]
    IN sums

(* Sums over the colours first .. last of a sequence.                      *)
Weight(s, first, last) ==
    LET sums == Sums([i \in DOMAIN s |-> s[i].count])
    IN sums[last] - sums[first - 1]

Mass(s, first, last, c) ==
    LET sums == Sums([i \in DOMAIN s |-> s[i].value[c] * s[i].count])
    IN sums[last] - sums[first - 1]

Mean(s, first, last) ==
    [value |-> [c \in Channels |-> Mass(s, first, last, c) \div Weight(s, first, last)],
     count |-> Weight(s, first, last)]

(* One colour for each bucket that a pixel falls into, in bucket order:    *)
(* the mean of its pixels.                                                 *)
Histogram(picture) ==
    LET used   == {Bucket(picture[i]) : i \in DOMAIN picture}
        Nth(k) == CHOOSE b \in used : Cardinality({a \in used : a < b}) = k - 1
        In(b)  == [i \in DOMAIN picture |->
                      [value |-> picture[i],
                       count |-> IF Bucket(picture[i]) = b THEN 1 ELSE 0]]
    IN [k \in 1 .. Cardinality(used) |-> Mean(In(Nth(k)), 1, Len(picture))]

-----------------------------------------------------------------------------
(* Boxes *)

Places(box) == (box.start + 1) .. box.end

(* fp_quant_box_recalc.  (An empty box is left as it is, all zero.)        *)
Recalc(s, start, end) ==
    LET In(c) == IF start >= end THEN {0}
                 ELSE {s[i].value[c] : i \in (start + 1) .. end}
    IN [start |-> start, end |-> end,
        min   |-> [c \in Channels |-> Min(In(c))],
        max   |-> [c \in Channels |-> Max(In(c))],
        total |-> Weight(s, start + 1, end)]

Extent(box, c) == box.max[c] - box.min[c]
Widest(box) == Max({Extent(box, c) : c \in Channels})

(* The first channel, in the order r, g, b, a, as wide as any.             *)
CutChannel(box) == Min({c \in Channels : Extent(box, c) = Widest(box)})

Cuttable(bs) == {i \in DOMAIN bs : bs[i].end - bs[i].start >= 2}

(* The last of the widest boxes: the code's comparison is >=.              *)
Chosen(bs) ==
    Max({i \in Cuttable(bs) : \A j \in Cuttable(bs) : Widest(bs[i]) >= Widest(bs[j])})

-----------------------------------------------------------------------------
(* Plausible mistakes, never part of Next: the properties must catch them. *)

(* BoxesSound: half of the pixels may leave nothing for the second box.    *)
MiddleUnclamped(s, box) ==
    Min({m \in box.start .. box.end :
            Weight(s, box.start + 1, m) > box.total \div 2} \cup {box.end})

(* CutFollowsChannel: the comparator looks at the counts first.            *)
CompareCounts(x, y, c) ==
    IF x.count # y.count THEN y.count - x.count ELSE x.value[c] - y.value[c]

(* UndisturbedAgree: red, the channel's initial value, is taken for the    *)
(* default and not chosen again.                                           *)
ChooseNotRed(t) ==
    /\ stage[t] = "choose" /\ Len(boxes[t]) < target[t] /\ Cuttable(boxes[t]) # {}
    /\ stage' = [stage EXCEPT ![t] = "sort"]
    /\ index' = [index EXCEPT ![t] = Chosen(boxes[t])]
    /\ sortChannel' = LET c == CutChannel(boxes[t][Chosen(boxes[t])])
                      IN IF c = 1 THEN sortChannel ELSE c
    /\ seen' = [seen EXCEPT ![t] = {}]
    /\ disturbed' = [u \in Threads |-> IF u # t /\ stage[u] = "sort"
                                       THEN disturbed[u] \cup {Len(boxes[u])}
                                       ELSE disturbed[u]]
    /\ UNCHANGED <<image, target, colors, boxes, palette>>
-----------------------------------------------------------------------------
(* fp_quant_compare: by the channel, then the more frequent colour first.  *)
Compare(x, y, c) ==
    IF x.value[c] # y.value[c] THEN x.value[c] - y.value[c] ELSE y.count - x.count

(***************************************************************************)
(* What qsort can make of the colours at places P when the comparator read *)
(* the channels Cs in the course of it.  The C library's qsort is a stable *)
(* merge sort: of two colours that come out next to each other, it has     *)
(* compared one with the other, and the later one came first only if it    *)
(* compared less.  With one channel that leaves one order.  (With several, *)
(* which comparison saw which is left open.)                               *)
(***************************************************************************)
Sorted(s, P, Cs) ==
    LET Before(i, j) == \E c \in Cs : \/ Compare(s[i], s[j], c) < 0
                                       \/ (Compare(s[i], s[j], c) = 0 /\ i < j)
    IN {q \in Bijection(P, P) : \A i \in P : i + 1 \in P => Before(q[i], q[i + 1])}

-----------------------------------------------------------------------------
Init ==
    /\ sortChannel = 1
    /\ image \in [Threads -> Pictures]
    /\ target \in [Threads -> Palettes]
    /\ stage = [t \in Threads |-> "count"]
    /\ colors = [t \in Threads |-> <<>>]
    /\ boxes = [t \in Threads |-> <<>>]
    /\ index = [t \in Threads |-> 0]
    /\ seen = [t \in Threads |-> {}]
    /\ palette = [t \in Threads |-> <<>>]
    /\ disturbed = [t \in Threads |-> {}]

Goto(t, s) == stage' = [stage EXCEPT ![t] = s]

(* target_colors: 128 by default, 256 at most, no more than there are.     *)
Limit(wanted, available) ==
    Min({IF wanted <= 0 THEN 128 ELSE wanted, 256, available})

(* The histogram is taken, the first box holds all of it.                  *)
Count(t) ==
    /\ stage[t] = "count"
    /\ Goto(t, "choose")
    /\ LET all == Histogram(image[t])
       IN /\ colors' = [colors EXCEPT ![t] = all]
          /\ target' = [target EXCEPT ![t] = Limit(@, Len(all))]
          /\ boxes' = [boxes EXCEPT ![t] = <<Recalc(all, 0, Len(all))>>]
    /\ UNCHANGED <<sortChannel, image, index, seen, palette, disturbed>>

More(t) == Len(boxes[t]) < target[t] /\ Cuttable(boxes[t]) # {}

(* The box to cut and its channel are chosen; only the channel is shared.  *)
Choose(t) ==
    /\ stage[t] = "choose" /\ More(t)
    /\ Goto(t, "sort")
    /\ index' = [index EXCEPT ![t] = Chosen(boxes[t])]
    /\ sortChannel' = CutChannel(boxes[t][Chosen(boxes[t])])
    /\ seen' = [seen EXCEPT ![t] = {}]
    /\ disturbed' = [u \in Threads |-> IF u # t /\ stage[u] = "sort"
                                       THEN disturbed[u] \cup {Len(boxes[u])}
                                       ELSE disturbed[u]]
    /\ UNCHANGED <<image, target, colors, boxes, palette>>

(* A comparison of qsort reads a channel it has not met during this sort.  *)
ReadChannel(t) ==
    /\ stage[t] = "sort" /\ sortChannel \notin seen[t]
    /\ seen' = [seen EXCEPT ![t] = @ \cup {sortChannel}]
    /\ UNCHANGED <<sortChannel, image, target, stage, colors, boxes, index, palette, disturbed>>

Reordered(s, q) == [i \in DOMAIN s |-> IF i \in DOMAIN q THEN s[q[i]] ELSE s[i]]

(* qsort returns.                                                          *)
Sort(t) ==
    /\ stage[t] = "sort" /\ seen[t] # {}
    /\ Goto(t, "split")
    /\ \E q \in Sorted(colors[t], Places(boxes[t][index[t]]), seen[t]) :
           colors' = [colors EXCEPT ![t] = Reordered(@, q)]
    /\ UNCHANGED <<sortChannel, image, target, boxes, index, seen, palette, disturbed>>

(* Where to cut: after the first colours that make half of the pixels,     *)
(* with at least one colour on each side.                                  *)
Middle(s, box) ==
    LET enough == {m \in box.start .. box.end :
                     Weight(s, box.start + 1, m) >= box.total \div 2}
    IN Max({box.start + 1, Min({box.end - 1, Min(enough)})})

(* The box becomes its first half, the other half a new box.               *)
Halved(bs, k, s) ==
    LET mid == Middle(s, bs[k])
    IN Append([bs EXCEPT ![k] = Recalc(s, bs[k].start, mid)], Recalc(s, mid, bs[k].end))

Split(t) ==
    /\ stage[t] = "split"
    /\ Goto(t, "choose")
    /\ boxes' = [boxes EXCEPT ![t] = Halved(@, index[t], colors[t])]
    /\ UNCHANGED <<sortChannel, image, target, colors, index, seen, palette, disturbed>>

Means(s, bs) == [i \in DOMAIN bs |-> Mean(s, bs[i].start + 1, bs[i].end)]

(* The palette is made, the pixels are mapped to it and encoded.           *)
Finish(t) ==
    /\ stage[t] = "choose" /\ ~More(t)
    /\ Goto(t, "done")
    /\ palette' = [palette EXCEPT ![t] = Means(colors[t], boxes[t])]
    /\ UNCHANGED <<sortChannel, image, target, colors, boxes, index, seen, disturbed>>

(* An allocation fails, of the histogram, of the indexed image or in       *)
(* libpng.                                                                 *)
Fail(t) ==
    /\ stage[t] = "count" \/ (stage[t] = "choose" /\ ~More(t))
    /\ Goto(t, "failed")
    /\ UNCHANGED <<sortChannel, image, target, colors, boxes, index, seen, palette, disturbed>>

ThreadStep(t) ==
    \/ Count(t) \/ Choose(t) \/ ReadChannel(t) \/ Sort(t)
    \/ Split(t) \/ Finish(t) \/ Fail(t)

(* All threads have returned: that is the only end, any other is a         *)
(* deadlock to TLC.                                                        *)
Ended == (\A t \in Threads : stage[t] \in {"done", "failed"}) /\ UNCHANGED vars

Next == (\E t \in Threads : ThreadStep(t)) \/ Ended

Spec == Init /\ [][Next]_vars

-----------------------------------------------------------------------------
(* Properties *)

(* Types, and the bound of the arrays on the stack (compress_png.c:508,    *)
(* 579): no more boxes than colours asked for.                             *)
TypeOK ==
    /\ sortChannel \in Channels
    /\ \A t \in Threads :
           /\ image[t] \in Pictures
           /\ stage[t] \in {"count", "choose", "sort", "split", "done", "failed"}
           /\ boxes[t] # <<>> => Len(boxes[t]) <= target[t] /\ target[t] <= 256
           /\ Len(palette[t]) \in {0, Len(boxes[t])}
           /\ stage[t] \in {"sort", "split"} => index[t] \in Cuttable(boxes[t])
           /\ seen[t] \subseteq Channels
           /\ disturbed[t] \subseteq DOMAIN boxes[t]

(* Whatever channels a disturbed sort has seen: every pixel still falls    *)
(* into the bucket of exactly one colour, and every colour into exactly    *)
(* one box; no box is empty; and the statistics kept in a box, taken when  *)
(* it was made, are those of the colours in it now, though later sorts     *)
(* have moved colours.  The cutting does not stop short of the palette.    *)
BoxesSound ==
    TypeOK /\ \A t \in Threads : boxes[t] # <<>> =>
        /\ \A i \in DOMAIN colors[t] :
               \E k \in DOMAIN boxes[t] :
                   {j \in DOMAIN boxes[t] : i \in Places(boxes[t][j])} = {k}
        /\ \A k \in DOMAIN boxes[t] :
               /\ Places(boxes[t][k]) # {}
               /\ boxes[t][k] = Recalc(colors[t], boxes[t][k].start, boxes[t][k].end)
        /\ \A px \in Range(image[t]) :
               Cardinality({i \in DOMAIN colors[t] :
                               Bucket(colors[t][i].value) = Bucket(px)}) = 1
        /\ Weight(colors[t], 1, Len(colors[t])) = Len(image[t])
        /\ stage[t] = "done" => Len(palette[t]) = target[t]

(* A box is cut with its colours in the order of its widest channel,       *)
(* unless another thread chose a channel while it was being sorted.  (Then *)
(* the cut may be along that thread's channel, or none.)                   *)
CutFollowsChannel ==
    \A t \in Threads : stage[t] = "split" /\ Len(boxes[t]) \notin disturbed[t] =>
        LET box == boxes[t][index[t]]
            c   == CutChannel(box)
        IN \A i, j \in Places(box) :
               i < j => colors[t][i].value[c] <= colors[t][j].value[c]

(* Two threads that quantize the same image to as many colours make the    *)
(* same palette, if neither was disturbed.  (If one was, they need not:    *)
(* what a user gets depends on whose images are compressed meanwhile.)     *)
UndisturbedAgree ==
    \A t, u \in Threads :
        /\ stage[t] = "done" /\ stage[u] = "done"
        /\ image[t] = image[u] /\ target[t] = target[u]
        /\ disturbed[t] = {} /\ disturbed[u] = {}
        => palette[t] = palette[u]

=============================================================================
