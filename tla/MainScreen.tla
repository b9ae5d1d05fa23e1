------------------------------ MODULE MainScreen ------------------------------
(***************************************************************************)
(* The terminal UI on the main screen: TuiBase's render scheduling and     *)
(* TuiMainScreen.doRender, which brings the terminal from the lines it     *)
(* showed to the new ones with relative cursor moves and as few lines as   *)
(* possible.                                                               *)
(*                                                                         *)
(* A line is a member of Lines: Blank, some text, or Image, the header of  *)
(* a kitty image that covers ImageRows rows.  The terminal is its buffer   *)
(* (scrollback and screen), the cursor and the images placed on it; its    *)
(* behaviour is external.  Rows are counted from 0.                        *)
(***************************************************************************)
EXTENDS Integers, Sequences, SequencesExt

CONSTANTS Texts,          \* lines with text
          Blank, Image,   \* an empty line; an image header
          WithImages,     \* whether content may hold the image
          ImageRows,      \* rows the image covers
          Heights,        \* terminal heights
          MaxLines,       \* bound on the lines of the content
          ClearOnShrink,  \* setClearOnShrink
          Forces,         \* whether a forced render, a stop or a resize happens
          CursorAnywhere, \* whether the cursor may be on a row above the screen
          MaxTicks,       \* bound on callbacks queued in one turn of the event loop
          Garbled         \* what a row holds after the terminal reflowed it

VARIABLES
  term,     \* [buf, top, row, imgs]: buffer, first screen row, cursor row, image rows
  height,   \* terminal.rows
  width,    \* terminal.columns: 1 or 2
  prev,     \* what the last render left: previousLines, ... (TuiMainScreen's fields)
  content,  \* the lines the components would render
  drawn,    \* history: the last render drew the current content on this terminal
  sched,    \* renderRequested, immediateRenderScheduled, renderTimer
  ticks,    \* callbacks queued by process.nextTick
  stopped

vars == <<term, height, width, prev, content, drawn, sched, ticks, stopped>>

Lines == Texts \cup {Blank} \cup (IF WithImages THEN {Image} ELSE {})

\* At most one line holds the image: a component has its own image id.
Contents == {ls \in UNION {[1..n -> Lines] : n \in 0..MaxLines} :
               \A i, j \in DOMAIN ls : ls[i] = Image /\ ls[j] = Image => i = j}

Larger(a, b) == IF a < b THEN b ELSE a
Smaller(a, b) == IF a < b THEN a ELSE b

-----------------------------------------------------------------------------
(* The terminal: what the control sequences do. *)

Blanks(n) == [i \in 1..n |-> Blank]

Newlines(t, h, n) ==
  LET scroll == Larger(0, t.row + n - (h - 1))
  IN  [t EXCEPT !.row = @ + n - scroll, !.top = @ + scroll, !.buf = @ \o Blanks(scroll)]

\* CSI n B and CSI n A: down and up, not past the screen's edges.
Moved(t, h, n) == [t EXCEPT !.row = Larger(0, Smaller(h - 1, @ + n))]

Erased(t) == [t EXCEPT !.buf[t.top + t.row + 1] = Blank]

\* Text overwrites the row, an image header places the image there.
Written(t, l) ==
  CASE l = Blank -> t
    [] l = Image -> [t EXCEPT !.imgs = {t.top + t.row}]
    [] OTHER -> [t EXCEPT !.buf[t.top + t.row + 1] = l]

\* Screen and scrollback are cleared, the images the last render knew are deleted.
Cleared(t, p, h) ==
  [buf |-> Blanks(h), top |-> 0, row |-> 0, imgs |-> IF p.image THEN {} ELSE t.imgs]

-----------------------------------------------------------------------------
(* doRender. *)

At(ls, i) == IF i < Len(ls) THEN ls[i + 1] ELSE Blank
Indices(a, b) == [k \in 1..Larger(0, b - a + 1) |-> a + k - 1]
HasImage(ls) == \E i \in DOMAIN ls : ls[i] = Image

\* getKittyImageReservedRows: the blank lines below a header that belong to it.
ReservedRows(ls, index, maxIndex) ==
  LET maxRows == Smaller(ImageRows, Smaller(maxIndex - index + 1, Len(ls) - index))
      free(r) == \A k \in 1..(r - 1) : At(ls, index + k) = Blank
  IN  IF At(ls, index) # Image \/ ImageRows <= 1 \/ maxRows <= 1 THEN 1
      ELSE CHOOSE r \in 1..maxRows : free(r) /\ (r = maxRows \/ ~free(r + 1))

\* The rows of an image are made first, then the header is written above them.
ImageDrawn(t, h, n, clear) ==
  LET rows == FoldLeft(LAMBDA u, k : IF clear THEN Erased(Newlines(u, h, 1)) ELSE Newlines(u, h, 1),
                       IF clear THEN Erased(t) ELSE t, Indices(1, n - 1))
  IN  Moved(Written(Moved(rows, h, 1 - n), Image), h, n - 1)

\* positionHardwareCursor: cursor row cur of the content, -1 when there is none.
Positioned(t, p, h, cur, total) ==
  LET target == Larger(0, Smaller(cur, total - 1))
  IN  IF cur = -1 \/ total = 0 THEN [t |-> t, p |-> p]
      ELSE [t |-> Moved(t, h, target - p.hw), p |-> [p EXCEPT !.hw = target]]

Kept(p, ls) == [p EXCEPT !.lines = ls, !.image = HasImage(ls), !.w = width, !.h = height]

fullRender(t, p, ls, cur, clear) ==
  LET h == height
      step(s, i) ==
        LET n == ReservedRows(ls, i, Len(ls) - 1)
            u == IF i > 0 THEN Newlines(s.t, h, 1) ELSE s.t
        IN  IF s.skip > 0 THEN [s EXCEPT !.skip = @ - 1]
            ELSE IF n > 1 /\ n <= h THEN [t |-> ImageDrawn(u, h, n, FALSE), skip |-> n - 1]
            ELSE [t |-> Written(u, At(ls, i)), skip |-> 0]
      out == FoldLeft(step, [t |-> IF clear THEN Cleared(t, p, h) ELSE t, skip |-> 0],
                      Indices(0, Len(ls) - 1)).t
      p1 == [Kept(p, ls) EXCEPT !.hw = Larger(0, Len(ls) - 1),
                                !.max = IF clear THEN Len(ls) ELSE Larger(@, Len(ls)),
                                !.vt = Larger(h, Len(ls)) - h]
  IN  Positioned(out, p1, h, cur, Len(ls))

Min0(S) == CHOOSE x \in S : \A y \in S : x <= y
Max0(S) == CHOOSE x \in S : \A y \in S : x >= y

\* The changed range, [-1, -1] when nothing changed.
Changed(p, ls) ==
  LET old == p.lines
      diff == {i \in 0..(Larger(Len(ls), Len(old)) - 1) : At(old, i) # At(ls, i)}
      first == IF diff # {} THEN Min0(diff) ELSE IF Len(ls) > Len(old) THEN Len(old) ELSE -1
      last == IF Len(ls) > Len(old) THEN Len(ls) - 1 ELSE IF diff # {} THEN Max0(diff) ELSE -1
      blocks(s) == {<<i, i + ReservedRows(s, i, Len(s) - 1) - 1>> :
                      i \in {k \in 0..(Len(s) - 1) : At(s, k) = Image}}
      hit == {b \in blocks(old) \cup blocks(ls) : b[1] >= first \/ (b[1] <= last /\ b[2] >= first)}
  IN  IF first = -1 THEN [first |-> -1, last |-> -1]
      ELSE [first |-> Min0({first} \cup {b[1] : b \in hit}),
            last |-> Max0({last} \cup {b[2] : b \in hit})]

\* deleteChangedKittyImages
ImagesDeleted(t, p, c) ==
  IF \E i \in c.first..Smaller(c.last, Len(p.lines) - 1) : At(p.lines, i) = Image
  THEN [t EXCEPT !.imgs = {}] ELSE t

\* Only lines at the end went: their rows are erased without scrolling.
deleteLines(t, p, ls, cur, c) ==
  LET h == height
      target == Larger(0, Len(ls) - 1)
      extra == Len(p.lines) - Len(ls)
      offset == IF Len(ls) = 0 THEN 0 ELSE 1
      start == Moved(Moved(ImagesDeleted(t, p, c), h, target - p.hw), h, offset)
      erased == FoldLeft(LAMBDA u, k : IF k < extra THEN Moved(Erased(u), h, 1) ELSE Erased(u),
                         start, Indices(1, extra))
  IN  IF target < p.vt \/ extra > h THEN fullRender(t, p, ls, cur, TRUE)
      ELSE LET r == Positioned(Moved(erased, h, 0 - (extra - 1 + offset)),
                               [p EXCEPT !.hw = target], h, cur, Len(ls))
           IN  [r EXCEPT !.p = Kept(@, ls)]

AboveScreen_never(p, c) == FALSE

\* Rows above the screen cannot be rewritten.
AboveScreen(p, c) == c.first < p.vt

\* Lines first..last are rewritten in place, scrolling where they do not fit.
rewriteLines(t, p, ls, cur, c) ==
  LET h == height
      append == Len(ls) > Len(p.lines) /\ c.first = Len(p.lines) /\ c.first > 0
      goal == IF append THEN c.first - 1 ELSE c.first
      scroll == Larger(0, goal - (p.vt + h - 1))
      vt == p.vt + scroll
      hw == IF scroll > 0 THEN goal ELSE p.hw
      t0 == ImagesDeleted(t, p, c)
      t1 == IF scroll = 0 THEN t0
            ELSE Newlines(Moved(t0, h, h - 1 - Larger(0, Smaller(h - 1, p.hw - p.vt))), h, scroll)
      t2 == Moved(t1, h, goal - hw)
      t3 == IF append THEN Newlines(t2, h, 1) ELSE t2
      end == Smaller(c.last, Len(ls) - 1)
      step(s, i) ==
        LET n == ReservedRows(ls, i, end)
            u == IF i > c.first THEN Newlines(s.t, h, 1) ELSE s.t
        IN  IF s.skip > 0 THEN [s EXCEPT !.skip = @ - 1]
            ELSE IF n > 1 THEN [t |-> ImageDrawn(u, h, n, TRUE), skip |-> n - 1,
                                full |-> s.full \/ i - vt < 0 \/ i - vt + n > h]
            ELSE [s EXCEPT !.t = Written(Erased(u), At(ls, i))]
      out == FoldLeft(step, [t |-> t3, skip |-> 0, full |-> FALSE], Indices(c.first, end))
      extra == Larger(0, Len(p.lines) - Len(ls))
      last == IF extra > 0 THEN Larger(end, Len(ls) - 1) ELSE end
      t4 == IF extra = 0 THEN out.t
            ELSE Moved(FoldLeft(LAMBDA u, k : Erased(Newlines(u, h, 1)),
                                Moved(out.t, h, last - end), Indices(1, extra)), h, 0 - extra)
      p1 == [p EXCEPT !.hw = last, !.max = Larger(@, Len(ls)), !.vt = Larger(vt, last - h + 1)]
      r == Positioned(t4, p1, h, cur, Len(ls))
  IN  IF AboveScreen(p, c) \/ out.full THEN fullRender(t, p, ls, cur, TRUE)
      ELSE [r EXCEPT !.p = Kept(@, ls)]

Rendered(ls, cur) ==
  LET p == prev
      c == Changed(p, ls)
      resized == (p.w # 0 /\ p.w # width) \/ (p.h # 0 /\ p.h # height)
  IN  CASE Len(p.lines) = 0 /\ ~resized -> fullRender(term, p, ls, cur, FALSE)
        [] resized -> fullRender(term, p, ls, cur, TRUE)
        [] ClearOnShrink /\ Len(ls) < p.max /\ ~resized /\ Len(p.lines) > 0 ->
             fullRender(term, p, ls, cur, TRUE)
        [] OTHER ->
             IF c.first = -1 THEN Positioned(term, p, height, cur, Len(ls))
             ELSE IF c.first >= Len(ls) THEN deleteLines(term, p, ls, cur, c)
             ELSE rewriteLines(term, p, ls, cur, c)

\* extractCursorPosition finds a marker on the last rows of the content, or none.
CursorRows(ls) == {-1} \cup {i \in 0..(Len(ls) - 1) : i >= Len(ls) - height}

doRender ==
  \E cur \in CursorRows(content) :
    LET r == Rendered(content, cur)
    IN  /\ CursorAnywhere \/ cur \in {-1} \cup r.p.vt..Len(content)
        /\ term' = r.t
        /\ prev' = r.p
        /\ drawn' = TRUE
        /\ UNCHANGED <<height, width, content, stopped>>

-----------------------------------------------------------------------------
(* TuiBase: requests and their scheduling. *)

NoState == [lines |-> <<>>, image |-> FALSE, w |-> 0, h |-> 0, hw |-> 0, max |-> 0, vt |-> 0]

Init ==
  /\ height \in Heights /\ width = 1
  /\ term = [buf |-> Blanks(height), top |-> 0, row |-> 0, imgs |-> {}]
  /\ prev = NoState
  /\ content = <<>> /\ drawn = FALSE /\ stopped = FALSE
  /\ sched = [requested |-> TRUE, immediate |-> FALSE, timer |-> FALSE]
  /\ ticks = <<"schedule">>

\* resetRenderState: the next render clears everything; the images stay known.
ResetState(p) == [NoState EXCEPT !.image = p.image, !.w = -1, !.h = -1]

requestRender ==
  /\ sched' = [sched EXCEPT !.requested = TRUE]
  /\ ticks' = IF sched.requested THEN ticks ELSE Append(ticks, "schedule")

requestImmediateRender ==
  /\ sched' = [requested |-> TRUE, immediate |-> TRUE, timer |-> FALSE]
  /\ ticks' = IF sched.immediate THEN ticks ELSE Append(ticks, "immediate")

\* A component changes what it shows and asks for a render.
change(ls) ==
  /\ ls # content /\ Len(ticks) < MaxTicks
  /\ content' = ls /\ drawn' = FALSE
  /\ requestRender
  /\ UNCHANGED <<term, height, width, prev, stopped>>

\* The terminal reflows its rows and reports the new size.  A size that comes back
\* before the next render leaves the rows to the terminal and is not modelled.
resize(w, h) ==
  /\ Forces /\ ~stopped /\ ticks = <<>> /\ <<w, h>> # <<width, height>> /\ <<w, h>> # <<prev.w, prev.h>>
  /\ width' = w /\ height' = h /\ drawn' = FALSE
  /\ term' = [term EXCEPT !.buf = IF \A i \in DOMAIN @ : @[i] = Blank THEN Blanks(h)
                                  ELSE [i \in 1..h |-> Garbled],
                          !.top = 0,
                          !.row = Smaller(h - 1, @)]
  /\ requestRender
  /\ UNCHANGED <<prev, content, stopped>>

force ==
  /\ Forces /\ ~stopped /\ Len(ticks) < MaxTicks
  /\ prev' = ResetState(prev) /\ drawn' = FALSE
  /\ requestImmediateRender
  /\ UNCHANGED <<term, height, width, content, stopped>>

\* stop moves below the content; another program writes; start is followed by a
\* forced render (suspend and the external editor of interactive mode).
stop ==
  /\ Forces /\ ~stopped
  /\ stopped' = TRUE /\ drawn' = FALSE
  /\ sched' = [sched EXCEPT !.timer = FALSE]
  /\ term' = IF prev.lines = <<>> THEN term
             ELSE Newlines(Moved(term, height, Len(prev.lines) - prev.hw), height, 1)
  /\ UNCHANGED <<height, width, prev, content, ticks>>

start ==
  /\ stopped /\ ticks = <<>>
  /\ stopped' = FALSE
  /\ prev' = ResetState(prev)
  /\ requestImmediateRender
  /\ UNCHANGED <<term, height, width, content, drawn>>

\* The mode switch: a new TuiMainScreen takes over the captured render state after
\* the alternate screen, which showed no images of this one, is gone.
restoreRenderState ==
  /\ Forces /\ ~stopped /\ drawn
  /\ term' = [term EXCEPT !.imgs = {}]
  /\ prev' = [prev EXCEPT !.lines = [i \in DOMAIN @ |-> IF @[i] = Image THEN Blank ELSE @[i]],
                          !.image = FALSE]
  /\ drawn' = FALSE
  /\ sched' = [requested |-> TRUE, immediate |-> FALSE, timer |-> FALSE]
  /\ ticks' = <<"schedule">>
  /\ UNCHANGED <<height, width, content, stopped>>

Ready == ~stopped /\ sched.requested

\* The next queued callback: scheduleRender arms the timer, an immediate one draws.
tick ==
  /\ ticks # <<>>
  /\ ticks' = Tail(ticks)
  /\ IF Head(ticks) = "schedule"
     THEN /\ sched' = IF Ready THEN [sched EXCEPT !.timer = TRUE] ELSE sched
          /\ UNCHANGED <<term, height, width, prev, content, drawn, stopped>>
     ELSE IF Ready
     THEN /\ sched' = [requested |-> FALSE, immediate |-> FALSE, timer |-> FALSE]
          /\ doRender
     ELSE /\ sched' = [sched EXCEPT !.immediate = FALSE]
          /\ UNCHANGED <<term, height, width, prev, content, drawn, stopped>>

\* Timers run once no callback of this turn is left.
timer ==
  /\ sched.timer /\ ticks = <<>>
  /\ IF Ready THEN sched' = [sched EXCEPT !.requested = FALSE, !.timer = FALSE] /\ doRender
     ELSE /\ sched' = [sched EXCEPT !.timer = FALSE]
          /\ UNCHANGED <<term, height, width, prev, content, drawn, stopped>>
  /\ UNCHANGED ticks

renderNow ==
  /\ Forces /\ ~stopped
  /\ sched' = [sched EXCEPT !.requested = FALSE, !.timer = FALSE]
  /\ doRender
  /\ UNCHANGED ticks

Next ==
  \/ \E ls \in Contents : change(ls)
  \/ \E w \in 1..2, h \in Heights : resize(w, h)
  \/ force \/ stop \/ start \/ restoreRenderState \/ tick \/ timer \/ renderNow

Spec == Init /\ [][Next]_vars

\* The event loop runs queued callbacks and due timers.
FairSpec == Spec /\ WF_vars(tick) /\ WF_vars(timer) /\ WF_vars(start)

-----------------------------------------------------------------------------
(* Properties. *)

\* After a render the terminal shows exactly the content: every row of the screen
\* and of the scrollback, although only the changed rows were written (doRender).
ScreenShowsContent ==
  drawn => \A i \in 0..(Len(term.buf) - 1) :
             term.buf[i + 1] = IF At(content, i) = Image THEN Blank ELSE At(content, i)

\* The position every later relative move starts from is where the cursor is, and
\* the first visible row is the one the renderer believes (hardwareCursorRow,
\* previousViewportTop).
CursorIsTracked ==
  drawn => term.top + term.row = prev.hw /\ term.top = prev.vt

\* The image on the terminal is the one in the content, where the content has it:
\* moving, scrolling, covering or removing it leaves no old placement behind.
ImagesMatch ==
  drawn => term.imgs = {i \in 0..(Len(content) - 1) : At(content, i) = Image}

UpToDate == drawn \/ stopped

=============================================================================
