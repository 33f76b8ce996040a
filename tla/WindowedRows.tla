---------------------------- MODULE WindowedRows ----------------------------
(***************************************************************************)
(* useWindowedRows: of a long table only the rows near the viewport exist; *)
(* spacers stand for the others.  Heights are estimated until a row has    *)
(* been drawn and measured.  The browser scrolls before the hook computes, *)
(* content above the table moves it without a scroll event, and every      *)
(* commit may be followed by others before anything is painted.            *)
(***************************************************************************)
EXTENDS Integers, FiniteSetsExt

CONSTANTS
    MaxCount,         \* bound: rows of a result
    threshold, overscan, estimateHeight,
    Height,           \* what a row may measure
    View,             \* clientHeight of the scroller
    Anchor            \* what is above the rows, in the scroller

\* A row is never lower than the estimate, which is that of one line of text.
ASSUME RowsAssumption ==
    /\ MaxCount \in Nat /\ threshold \in Nat /\ overscan \in Nat /\ estimateHeight \in Nat \ {0}
    /\ \A h \in Height : h \in Nat /\ h >= estimateHeight
    /\ View \subseteq Nat \ {0} /\ Anchor \subseteq Nat

VARIABLES
    count, tall,      \* the rows, and the height each has when it is drawn
    view, anchor, scrollTop,
    heights,          \* heightsRef: what was measured, 0 for nothing
    range,
    dom,              \* what is drawn: rows start..end - 1 between two spacers
    frame,            \* a requestAnimationFrame is pending
    phase,            \* "render": React has yet to commit the range
    anchorAt          \* history: the anchor at the last compute

rowVars == <<count, tall, view, anchor, scrollTop, heights, range, dom, frame, phase, anchorAt>>

Row == 0..MaxCount - 1
windowed(n) == n > threshold
Unmeasured == [i \in Row |-> 0]

\* heights[i] ?? estimateHeight
height(h) == IF h = 0 THEN estimateHeight ELSE h

\* The heights of from..to - 1, added up one by one.
sum(hs, from, to) ==
    LET total[i \in from..to] == IF i = from THEN 0 ELSE total[i - 1] + height(hs[i - 1])
    IN  total[to]

\* The rows to draw, for n rows and a scroller at `top`.
compute(n, hs, top, a, v) ==
    LET start == Min({s \in 0..n : s = n \/ sum(hs, 0, s + 1) >= top - a})
        end   == Min({e \in start..n : e = n \/ sum(hs, 0, e) >= top - a + v})
    IN  [start |-> Max({0, start - overscan}), end |-> Min({n, end + overscan})]

\* What the hook returns to be drawn.
Drawn(n, r, hs) ==
    LET end == Min({r.end, n})
        start == Min({r.start, end})
    IN  IF windowed(n)
        THEN [start |-> start, end |-> end, padTop |-> sum(hs, 0, start), padBottom |-> sum(hs, end, n)]
        ELSE [start |-> 0, end |-> n, padTop |-> 0, padBottom |-> 0]

Rows(d) == sum(tall, d.start, d.end)

\* Where the browser leaves the scroller when its content has become shorter.
Clamp(d, rows, a, v) == Min({scrollTop, Max({0, a + d.padTop + rows + d.padBottom - v})})

RowsInit ==
    /\ count = 0 /\ tall = [i \in Row |-> estimateHeight]
    /\ view \in View /\ anchor \in Anchor /\ anchorAt = anchor /\ scrollTop = 0
    /\ heights = Unmeasured /\ range = [start |-> 0, end |-> 0]
    /\ dom = Drawn(0, range, heights) /\ frame = FALSE /\ phase = "idle"

\* A commit; the rows that are drawn are measured, and the range is computed
\* again if one was not as high as assumed.
Commit ==
    /\ phase = "render"
    /\ dom' = Drawn(count, range, heights)
    /\ scrollTop' = Clamp(dom', Rows(dom'), anchor, view)
    /\ frame' = (frame \/ (windowed(count) /\ scrollTop' # scrollTop))
    /\ heights' = [i \in Row |-> IF windowed(count) /\ i \in dom'.start..dom'.end - 1 /\ tall[i] # estimateHeight
                                 THEN tall[i] ELSE heights[i]]
    /\ IF heights' = heights
       THEN UNCHANGED <<range, anchorAt>>
       ELSE range' = compute(count, heights', scrollTop', anchor, view) /\ anchorAt' = anchor
    /\ phase' = IF range' = range THEN "idle" ELSE "render"
    /\ UNCHANGED <<count, tall, view, anchor>>

\* Mutation: only the measurements are thrown away.
NewResultsForgetful(n, hs) ==
    /\ phase = "idle" /\ phase' = "render"
    /\ count' = n /\ tall' = hs /\ heights' = Unmeasured
    /\ dom' = Drawn(n, range, heights)
    /\ scrollTop' = Clamp(dom', sum(hs, dom'.start, dom'.end), anchor, view)
    /\ frame' = (windowed(n) /\ ((n = count /\ frame) \/ scrollTop' # scrollTop))
    /\ UNCHANGED <<view, anchor, range, anchorAt>>

\* Other rows, or other columns: a first commit draws them by what is left of
\* the old ones; before it is painted, the measurements are thrown away, the
\* range is computed anew, and the listener (with its pending frame) replaced
\* if the number of rows has changed.
NewResults(n, hs) ==
    /\ phase = "idle" /\ phase' = "render"
    /\ count' = n /\ tall' = hs /\ heights' = Unmeasured
    /\ dom' = Drawn(n, range, heights)
    /\ scrollTop' = Clamp(dom', sum(hs, dom'.start, dom'.end), anchor, view)
    /\ frame' = (windowed(n) /\ ((n = count /\ frame) \/ scrollTop' # scrollTop))
    /\ IF windowed(n)
       THEN range' = compute(n, Unmeasured, scrollTop', anchor, view) /\ anchorAt' = anchor
       ELSE range' = [start |-> 0, end |-> 0] /\ UNCHANGED anchorAt
    /\ UNCHANGED <<view, anchor>>

\* The page is rendered again: a row is selected, or a rule comes or goes above
\* the table, which moves it.
Rerender ==
    /\ phase = "idle" /\ phase' = "render"
    /\ anchor' \in Anchor
    /\ UNCHANGED <<count, tall, view, scrollTop, heights, range, dom, frame, anchorAt>>

\* The ResizeObserver: rows wrap otherwise now.
Resize ==
    /\ phase = "idle"
    /\ view' \in View /\ \E wrap \in {estimateHeight} \cup Height :
           tall' = [i \in Row |-> IF i < count THEN wrap ELSE tall[i]]
    /\ scrollTop' = Clamp(dom, sum(tall', dom.start, dom.end), anchor, view')
    /\ IF windowed(count)
       THEN /\ heights' = Unmeasured
            /\ range' = compute(count, Unmeasured, scrollTop', anchor, view') /\ anchorAt' = anchor
       ELSE UNCHANGED <<heights, range, anchorAt>>
    /\ frame' = (frame \/ (windowed(count) /\ scrollTop' # scrollTop))
    /\ phase' = IF range' = range THEN "idle" ELSE "render"
    /\ UNCHANGED <<count, anchor, dom>>

\* The user scrolls; the hook computes in the next animation frame.
Scroll ==
    /\ phase = "idle"
    /\ scrollTop' \in 0..Max({0, anchor + dom.padTop + Rows(dom) + dom.padBottom - view})
    /\ frame' = windowed(count)
    /\ UNCHANGED <<count, tall, view, anchor, heights, range, dom, phase, anchorAt>>

Frame ==
    /\ phase = "idle" /\ frame /\ frame' = FALSE
    /\ range' = compute(count, heights, scrollTop, anchor, view) /\ anchorAt' = anchor
    /\ phase' = IF range' = range THEN "idle" ELSE "render"
    /\ UNCHANGED <<count, tall, view, anchor, scrollTop, heights, dom>>

RowsNext ==
    \/ Commit \/ Rerender \/ Resize \/ Scroll \/ Frame
    \/ \E n \in 0..MaxCount : \E hs \in [0..n - 1 -> Height] :
           NewResults(n, [i \in Row |-> IF i < n THEN hs[i] ELSE estimateHeight])

RowsSpec == RowsInit /\ [][RowsNext]_rowVars

-----------------------------------------------------------------------------
\* Whatever is scrolled, loaded, resized and measured in whatever order: once
\* the frame is over, the viewport shows no spacer where rows belong.  Not so
\* when what is above the table has moved it by more than the overscan since
\* the range was computed, and not when a resize has thrown the measurements
\* away and left the range as it was: then nothing draws the spacers anew.
WindowCoversViewport ==
    LET top == scrollTop - anchor
        shift == IF anchor < anchorAt THEN anchorAt - anchor ELSE anchor - anchorAt
    IN  /\ phase = "idle" /\ ~frame
        /\ shift <= overscan * estimateHeight
        /\ dom = Drawn(count, range, heights)
        => /\ dom.start = 0 \/ dom.padTop <= top
           /\ dom.end = count \/ dom.padTop + Rows(dom) >= top + view
=============================================================================
