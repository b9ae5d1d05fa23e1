----------------------------- MODULE OverlayFocus -----------------------------
(***************************************************************************)
(* Keyboard focus among the components of the screen and the overlays      *)
(* above it (tui/src/tui.ts): who gets the next key while overlays are     *)
(* shown, hidden, removed, focused and released, and while components of   *)
(* the screen take the focus for a time.  An overlay's component is its    *)
(* own and is shown once; focusOrder is the order of the sequence `order`. *)
(***************************************************************************)
EXTENDS Integers, Sequences, SequencesExt, FiniteSets

CONSTANTS
  Base,          \* components of the screen
  Overlays,      \* overlays that may be shown
  NonCapturing,  \* those shown with nonCapturing
  Conditional,   \* those whose visible() asks for a wide terminal
  Targets,       \* overlays that unfocus() may be given as its target
  LateHandles,   \* whether handles of removed overlays are still used
  Editor, None

VARIABLES
  ui,        \* the overlays and the focus
  wide,      \* the terminal's size, as visible() sees it
  mounted,   \* components that are children of the screen
  received,  \* who got the key, if the last step was one
  owner      \* auxiliary: the overlay that was last given the focus and has not been released

vars == <<ui, wide, mounted, received, owner>>

Inactive == [status |-> "inactive", overlay |-> None, blockedBy |-> None, resume |-> "none", target |-> None]
Eligible(o) == [Inactive EXCEPT !.status = "eligible", !.overlay = o]
Blocked(o, b, resume, target) ==
  [status |-> "blocked", overlay |-> o, blockedBy |-> b, resume |-> resume, target |-> target]

Shown(s) == ToSet(s.stack)
isOverlayVisible(s, o) == ~s.hidden[o] /\ (o \in Conditional => wide)
Visible(s) == {o \in Shown(s) : isOverlayVisible(s, o)}

Fallbacks(s) == SelectSeq(s.order, LAMBDA o : o \in Visible(s) /\ o \notin NonCapturing)
getTopmostVisibleOverlay(s) == IF Fallbacks(s) = <<>> THEN None ELSE Last(Fallbacks(s))

getVisibleOverlayFocusRestore(s) == IF s.restore.overlay \in Visible(s) THEN s.restore ELSE Inactive

\* The components that had the focus when the overlay and the ones below it were shown.
Ancestors(s, o) ==
  LET up[n \in 0..Cardinality(Overlays)] ==
        IF n = 0 THEN {s.pre[o]} ELSE up[n - 1] \cup {s.pre[p] : p \in up[n - 1] \cap Shown(s)}
  IN  up[Cardinality(Overlays)]
isOverlayFocusAncestor(s, o, c) == c \in Ancestors(s, o)

clearOverlayFocusRestoreFor(s, o) == IF s.restore.overlay = o THEN [s EXCEPT !.restore = Inactive] ELSE s

-----------------------------------------------------------------------------
(* setFocusInternal *)

\* What the blocked state makes of the focus when its blocker gives it up.
Resumed(s, r) ==
  IF r.resume = "restore-overlay" THEN [s EXCEPT !.focused = r.overlay]
  ELSE [s EXCEPT !.focused = r.target, !.restore = Inactive]

Chosen(s, c, policy, live) ==
  LET r == getVisibleOverlayFocusRestore(s)
      blocker == r.status = "blocked" /\ r.blockedBy = s.focused
      moved == [s EXCEPT !.focused = c]
  IN  IF c = None
      THEN IF blocker THEN Resumed(s, r)
           ELSE IF policy = "clear" THEN [moved EXCEPT !.restore = Inactive] ELSE moved
      ELSE IF c \in Shown(s) THEN moved
      ELSE IF blocker
      THEN IF r.resume = "focus-target" \/ r.blockedBy \notin live THEN Resumed(s, r)
           ELSE [moved EXCEPT !.restore = Blocked(r.overlay, c, r.resume, r.target)]
      ELSE IF /\ s.focused \in Visible(s) /\ r.overlay = s.focused
              /\ ~isOverlayFocusAncestor(s, s.focused, c)
      THEN [moved EXCEPT !.restore = Blocked(s.focused, c, "restore-overlay", None)]
      ELSE moved

setFocusInternal(s, c, policy, live) ==
  LET n == Chosen(s, c, policy, live)
  IN  IF n.focused \in Visible(n) THEN [n EXCEPT !.restore = Eligible(n.focused)] ELSE n

setFocus(s, c) == setFocusInternal(s, c, "clear", mounted)

\* The overlay's place in the order of focus is the last one.
Raised(s, o) == [s EXCEPT !.order = Append(SelectSeq(s.order, LAMBDA p : p # o), o)]

\* Focus falls from an overlay that loses it.
FallFrom(s, o) ==
  IF s.focused # o THEN s
  ELSE LET top == getTopmostVisibleOverlay(s) IN setFocus(s, IF top # None THEN top ELSE s.pre[o])

\* retargetOverlayPreFocus
Retargeted(s, o) == [p \in Overlays |-> IF p \in Shown(s) \ {o} /\ s.pre[p] = o THEN s.pre[o] ELSE s.pre[p]]

Removed(s, o) ==
  LET without == [clearOverlayFocusRestoreFor(s, o) EXCEPT
                    !.pre = Retargeted(s, o),
                    !.stack = SelectSeq(s.stack, LAMBDA p : p # o),
                    !.order = SelectSeq(s.order, LAMBDA p : p # o)]
  IN  FallFrom(without, o)

-----------------------------------------------------------------------------
Init ==
  /\ ui = [stack |-> <<>>, order |-> <<>>, pre |-> [o \in Overlays |-> None], hidden |-> [o \in Overlays |-> FALSE],
           shown |-> {}, focused |-> Editor, restore |-> Inactive]
  /\ wide = TRUE
  /\ mounted = {Editor}
  /\ received = None
  /\ owner = None

\* Who owns the keyboard after a step that released the overlays in `out` and
\* gave the focus to the one in `asked`: the overlay the focus moved to.  Taking
\* the focus from everyone releases all of them.
Owner(s, out, asked) ==
  IF s.focused \in Visible(s) /\ (s.focused # ui.focused \/ s.focused \in asked) THEN s.focused
  ELSE IF owner \in out THEN None ELSE owner

Step(s, out, asked) ==
  /\ ui' = s
  /\ owner' = IF s.focused = None /\ ui.focused # None THEN None ELSE Owner(s, out, asked)
  /\ received' = None
  /\ UNCHANGED wide

showOverlay(o) ==
  /\ o \notin ui.shown
  /\ LET entered == [ui EXCEPT !.pre[o] = ui.focused, !.stack = Append(@, o), !.order = Append(@, o), !.shown = @ \cup {o}]
     IN  Step(IF o \notin NonCapturing /\ isOverlayVisible(entered, o) THEN setFocus(entered, o) ELSE entered, {}, {o})
  /\ UNCHANGED mounted

\* The handle's hide.
hide(o) ==
  /\ o \in Shown(ui)
  /\ Step(Removed(ui, o), {o}, {})
  /\ UNCHANGED mounted

hideOverlay ==
  /\ ui.stack # <<>>
  /\ Step(Removed(ui, Last(ui.stack)), {Last(ui.stack)}, {})
  /\ UNCHANGED mounted

\* setHidden does not ask whether the overlay is still in the stack.
setHidden(o, h) ==
  /\ o \in ui.shown
  /\ o \in Shown(ui) \/ LateHandles
  /\ ui.hidden[o] # h
  /\ LET s == [ui EXCEPT !.hidden[o] = h]
     IN  Step(IF h THEN FallFrom(clearOverlayFocusRestoreFor(s, o), o)
              ELSE IF o \notin NonCapturing /\ isOverlayVisible(s, o)
              THEN setFocus(IF o \in Shown(s) THEN Raised(s, o) ELSE s, o) ELSE s,
              IF h THEN {o} ELSE {}, IF h \/ o \in NonCapturing THEN {} ELSE {o})
  /\ UNCHANGED mounted

focus(o) ==
  /\ o \in Visible(ui)
  /\ Step(setFocus(Raised(ui, o), o), {}, {o})
  /\ UNCHANGED mounted

\* unfocus: `given` says whether a target was, and t which.
unfocus(o, given, t) ==
  /\ o \in Shown(ui)
  /\ ui.focused = o \/ ui.restore.overlay = o
  /\ LET r == ui.restore
         cleared == clearOverlayFocusRestoreFor(ui, o)
         top == getTopmostVisibleOverlay(ui)
         s == IF r.status = "blocked" /\ r.overlay = o /\ ui.focused = r.blockedBy
              THEN [ui EXCEPT !.restore = IF given THEN Blocked(o, r.blockedBy, "focus-target", t) ELSE Inactive]
              ELSE IF given THEN setFocus(cleared, t)
              ELSE IF ui.focused = o THEN setFocus(cleared, IF top \notin {None, o} THEN top ELSE ui.pre[o])
              ELSE cleared
     IN  Step(s, {o}, {})
  /\ UNCHANGED mounted

\* setFocus by the program: to a component of the screen, to nobody or to an overlay.
giveFocus(c) ==
  /\ c \in mounted \cup {None} \cup Visible(ui)
  /\ Step(setFocus(ui, c), IF c = None THEN Overlays ELSE {}, {c})
  /\ UNCHANGED mounted

\* A component of the screen takes the place of another and the focus.
replace(b, c) ==
  /\ b \in mounted /\ c \in Base \ mounted
  /\ mounted' = (mounted \ {b}) \cup {c}
  /\ Step(setFocusInternal(ui, c, "clear", (mounted \ {b}) \cup {c}), {}, {})

\* A component is added beside the others, as yet without the focus.
mount(c) ==
  /\ c \in Base \ mounted
  /\ mounted' = mounted \cup {c}
  /\ received' = None
  /\ UNCHANGED <<ui, wide, owner>>

resize ==
  /\ Conditional # {}
  /\ wide' = ~wide
  /\ received' = None
  /\ UNCHANGED <<ui, mounted, owner>>

-----------------------------------------------------------------------------
(* handleTerminalInput *)

\* A focused overlay that is not visible any more passes the focus on.
Redirected(s) ==
  IF s.focused \notin Shown(s) \ Visible(s) THEN s
  ELSE LET top == getTopmostVisibleOverlay(s)
       IN  IF top # None THEN setFocus(s, top) ELSE setFocusInternal(s, s.pre[s.focused], "preserve", mounted)

\* A visible overlay takes back the focus it was not released from.
Restored(s) ==
  LET r == getVisibleOverlayFocusRestore(s)
  IN  IF s.focused \in Shown(s) THEN s
      ELSE IF r.status = "eligible" THEN setFocus(s, r.overlay)
      ELSE IF r.status = "blocked" /\ r.blockedBy # s.focused
      THEN IF r.resume = "restore-overlay" THEN setFocus(s, r.overlay)
           ELSE setFocus([s EXCEPT !.restore = Inactive], r.target)
      ELSE s

input ==
  /\ ui' = Restored(Redirected(ui))
  /\ received' = ui'.focused
  /\ owner' = Owner(ui', {}, {})
  /\ UNCHANGED <<wide, mounted>>

-----------------------------------------------------------------------------
Next ==
  \/ \E o \in Overlays : showOverlay(o) \/ hide(o) \/ focus(o) \/ unfocus(o, FALSE, None)
  \/ \E o \in Overlays, h \in BOOLEAN : setHidden(o, h)
  \/ \E o \in Overlays, t \in Base \cup Targets \cup {None} : (t \in mounted \cup Visible(ui) \cup {None}) /\ unfocus(o, TRUE, t)
  \/ hideOverlay
  \/ \E c \in Base \cup Overlays \cup {None} : giveFocus(c)
  \/ \E b, c \in Base : replace(b, c)
  \/ \E c \in Base : mount(c)
  \/ resize
  \/ input

Spec == Init /\ [][Next]_vars

-----------------------------------------------------------------------------
(* Properties. *)

\* What waits to get the focus back is an overlay in the stack
\* (clearOverlayFocusRestoreFor).
RestoreIsShown == ui.restore.status # "inactive" => ui.restore.overlay \in Shown(ui)

=============================================================================
