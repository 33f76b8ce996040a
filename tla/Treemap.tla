------------------------------- MODULE Treemap ------------------------------
(***************************************************************************)
(* TreemapView: the entries of a directory as tiles whose areas are        *)
(* proportional to their sizes, and below them a list of those too small   *)
(* to draw.  The arithmetic is exact here: what rounding to a double does  *)
(* to a coordinate is left out.                                            *)
(***************************************************************************)
EXTENDS Integers, FiniteSets, SeqFilter

CONSTANTS
    Size,             \* bytes
    MaxEntries,       \* bound: entries of a directory
    Width,            \* of the pane, in pixels
    MinHeight, MaxHeight, MIN_TILE_AREA

ASSUME TreemapAssumption ==
    /\ Size \subseteq Nat /\ MaxEntries \in Nat /\ Width \subseteq Nat
    /\ MinHeight \in Nat \ {0} /\ MaxHeight \in Nat \ {0} /\ MIN_TILE_AREA \in Nat \ {0}
    \* No side of a pane is so long that a tile across it could be a hairline.
    /\ \A side \in Width \cup {MaxHeight} : side < 100 * MIN_TILE_AREA

VARIABLES entries, width
tileVars == <<entries, width>>

\* Files, directories with their aggregate, and directories without one.
Listed == [dir : {FALSE}, size : Size] \cup [dir : {TRUE}, total : Size] \cup {[dir |-> TRUE]}

-----------------------------------------------------------------------------
\* Fractions, in lowest terms.
gcd[p \in Nat \X Nat] == IF p[2] = 0 THEN p[1] ELSE gcd[<<p[2], p[1] % p[2]>>]
Q(n, d) == LET g == gcd[<<n, d>>] IN <<n \div g, d \div g>>
Whole(n) == <<n, 1>>
Zero == Whole(0)

Times(p, q) == Q(p[1] * q[1], p[2] * q[2])
Over(p, q)  == Q(p[1] * q[2], p[2] * q[1])
Plus(p, q)  == Q(p[1] * q[2] + q[1] * p[2], p[2] * q[2])
Minus(p, q) == Q(p[1] * q[2] - q[1] * p[2], p[2] * q[2])
Leq(p, q)   == p[1] * q[2] <= q[1] * p[2]
Least(p, q) == IF Leq(p, q) THEN p ELSE q
Most(p, q)  == IF Leq(p, q) THEN q ELSE p

\* What the first i of a list add up to.
upTo(s) ==
    LET total[i \in 0..Len(s)] == IF i = 0 THEN Zero ELSE Plus(total[i - 1], s[i])
    IN  total
Sum(s) == upTo(s)[Len(s)]

-----------------------------------------------------------------------------
\* A directory counts with what is below it, as far as that is known.
effectiveSize(e) == IF ~e.dir THEN e.size ELSE IF "total" \in DOMAIN e THEN e.total ELSE 0

\* Largest first, and alike as they came.
Before(s, t) == s.size > t.size \/ (s.size = t.size /\ s.id < t.id)
sized ==
    LET Items == {[id |-> i, size |-> effectiveSize(entries[i])] : i \in DOMAIN entries}
    IN  CHOOSE s \in [DOMAIN entries -> Items] :
           /\ Range(s) = Items
           /\ \A i, j \in DOMAIN s : i < j => Before(s[i], s[j])

paneHeight(w) ==
    LET half == (w + 1) \div 2
        tall == IF half < MinHeight THEN MinHeight ELSE half
    IN  IF tall > MaxHeight THEN MaxHeight ELSE tall

Area == Whole(width * paneHeight(width))

Total(s) == Sum([i \in DOMAIN s |-> Whole(s[i].size)])
Share(t, total) == Times(Over(Whole(t.size), total), Area)

\* What is large enough to be drawn, and the others.
drawn ==
    LET total == Total(sized)
        Large(t) == t.size > 0 /\ Leq(Whole(MIN_TILE_AREA), Share(t, total))
    IN  IF Area = Zero \/ total = Zero THEN <<>>
        ELSE Without(sized, {t \in Range(sized) : ~ Large(t)})
rest == Without(sized, Range(drawn))

-----------------------------------------------------------------------------
\* The worst aspect ratio in a row of tiles, largest first, along a side.
worstRatio(areas, side) ==
    LET sum2 == Times(Sum(areas), Sum(areas))
        side2 == Times(side, side)
    IN  Most(Over(Times(side2, areas[1]), sum2), Over(sum2, Times(side2, Last(areas))))

areasOf(items) == [i \in DOMAIN items |-> items[i].area]

\* How many tiles the next row takes: it grows while that makes the worst of
\* them no worse.
RowLength(queue, side) ==
    LET NoWorse(m) == Leq(worstRatio(areasOf(SubSeq(queue, 1, m)), side),
                          worstRatio(areasOf(SubSeq(queue, 1, m - 1)), side))
    IN  CHOOSE n \in 1..Len(queue) :
           /\ \A m \in 2..n : NoWorse(m)
           /\ n < Len(queue) => ~ NoWorse(n + 1)

\* A row down the left edge, or across the top edge, of what is left of the
\* rectangle.
TilesOf(row, r, across, along) ==
    LET lengths == [i \in DOMAIN row |-> Over(row[i].area, along)]
        Offset(i) == upTo(lengths)[i - 1]
    IN  [i \in DOMAIN row |->
           IF across
           THEN [id |-> row[i].id, x |-> Plus(r.x, Offset(i)), y |-> r.y, w |-> lengths[i], h |-> along]
           ELSE [id |-> row[i].id, x |-> r.x, y |-> Plus(r.y, Offset(i)), w |-> along, h |-> lengths[i]]]

\* One turn of the loop: a row is placed, and cut off what is left.
PlaceRow(s) ==
    LET r == s.left
        across == ~ Leq(r.h, r.w)
        side == Least(r.h, r.w)
        n == RowLength(s.queue, side)
        row == SubSeq(s.queue, 1, n)
        along == Over(Sum(areasOf(row)), side)
    IN  [queue |-> SubSeq(s.queue, n + 1, Len(s.queue)),
         tiles |-> s.tiles \o TilesOf(row, r, across, along),
         left  |-> IF across THEN [r EXCEPT !.y = Plus(@, along), !.h = Minus(@, along)]
                             ELSE [r EXCEPT !.x = Plus(@, along), !.w = Minus(@, along)]]

\* Rows one after another, as long as something is queued and there is room, of
\* more than a hundredth of a pixel.
Hairline == Q(1, 100)
squarify(items, rect) ==
    LET after[k \in 0..Len(items)] ==
            IF k = 0 THEN [queue |-> items, tiles |-> <<>>, left |-> rect]
            ELSE LET s == after[k - 1]
                 IN  IF s.queue = <<>> \/ Leq(s.left.w, Hairline) \/ Leq(s.left.h, Hairline)
                     THEN s ELSE PlaceRow(s)
    IN  after[Len(items)].tiles

\* Mutation: the areas are shares of the whole directory.
ScaledByTotal(s) == [i \in DOMAIN s |-> [id |-> s[i].id, area |-> Share(s[i], Total(sized))]]

\* The areas of what is drawn fill the rectangle.
Scaled(s) == [i \in DOMAIN s |-> [id |-> s[i].id, area |-> Share(s[i], Total(s))]]

Pane == [x |-> Zero, y |-> Zero, w |-> Whole(width), h |-> Whole(paneHeight(width))]
Tiles == squarify(Scaled(drawn), Pane)

TilesInit == entries \in BoundedSeq(Listed, MaxEntries) /\ width \in Width

-----------------------------------------------------------------------------
\* Side by side, or one below the other.
Apart(s, t) ==
    \/ Leq(Plus(s.x, s.w), t.x) \/ Leq(Plus(t.x, t.w), s.x)
    \/ Leq(Plus(s.y, s.h), t.y) \/ Leq(Plus(t.y, t.h), s.y)

Within(t, r) ==
    /\ Leq(r.x, t.x) /\ Leq(Plus(t.x, t.w), Plus(r.x, r.w))
    /\ Leq(r.y, t.y) /\ Leq(Plus(t.y, t.h), Plus(r.y, r.h))

\* Each entry has one of the tiles ts or is listed in `hidden`; the tiles have
\* their shares of the total.
ShowsAll(ts, hidden, total) ==
    LET Shown == [i \in DOMAIN ts |-> ts[i].id] \o [i \in DOMAIN hidden |-> hidden[i].id]
    IN  /\ Len(Shown) = Len(entries) /\ \A i \in DOMAIN entries : Contains(Shown, i)
        /\ \A i \in DOMAIN ts :
             /\ Within(ts[i], Pane)
             /\ Times(ts[i].w, ts[i].h) =
                   Times(Over(Whole(effectiveSize(entries[ts[i].id])), total), Area)
             /\ Leq(Whole(MIN_TILE_AREA), Times(ts[i].w, ts[i].h))
             /\ \A j \in DOMAIN ts : i # j => Apart(ts[i], ts[j])

\* "Entries silently vanished" in an earlier version: every entry has a tile or
\* is listed below, once; the tiles lie side by side in the rectangle and fill
\* it, each as large as its share of what is drawn, and none too small to hit.
TilesCover == ShowsAll(Tiles, rest, Total(drawn))
=============================================================================
