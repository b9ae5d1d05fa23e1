------------------------- MODULE EditorAutocomplete -------------------------
(***************************************************************************)
(* The editor's autocomplete: requests that are debounced, queued behind   *)
(* one another and aborted, a provider that answers late, and a picker     *)
(* that is open while the user goes on editing.                            *)
(*                                                                         *)
(* A position stands for the text together with the cursor.  What an edit  *)
(* does to the text is Editor's subject: here it leads to some position.   *)
(***************************************************************************)
EXTENDS Integers, Sequences

CONSTANTS Positions,     \* texts with a cursor
          NoFiles,       \* positions where shouldTriggerFileCompletion is false
          None,
          SilentEdits,   \* whether the edits that ignore an open picker are used
          MaxTokens      \* bound on autocompleteStartToken

VARIABLES
  pos,         \* the text and the cursor
  startToken,  \* autocompleteStartToken
  timer,       \* None, or the debounced request
  queue,       \* autocompleteRequestTask: requests chained behind the running one
  run,         \* None, or the request the provider works on
  abortable,   \* autocompleteAbort is the running request's controller
  picker,      \* None, or [kind, at, token]: autocompleteState, list and prefix
  cancelled    \* history: startToken after the last cancelAutocomplete

vars == <<pos, startToken, timer, queue, run, abortable, picker, cancelled>>

Init ==
  /\ pos \in Positions
  /\ startToken = 0
  /\ timer = None
  /\ queue = <<>>
  /\ run = None
  /\ abortable = FALSE
  /\ picker = None
  /\ cancelled = 0

-----------------------------------------------------------------------------
(* Requests. *)

Aborted == IF abortable THEN [run EXCEPT !.aborted = TRUE] ELSE run

cancelAutocomplete ==
  /\ startToken < MaxTokens
  /\ startToken' = startToken + 1
  /\ timer' = None
  /\ run' = Aborted
  /\ abortable' = FALSE
  /\ picker' = None
  /\ cancelled' = startToken'
  /\ UNCHANGED queue

NoRequest == UNCHANGED <<startToken, timer, queue, run, abortable>>

\* The request before it is cancelled; the new one waits for the debounce
\* timer or goes to the end of the queue.
requestAutocomplete(at, force, explicitTab) ==
  IF force /\ at \in NoFiles
  THEN NoRequest
  ELSE LET request == [token |-> startToken + 2, force |-> force, explicitTab |-> explicitTab]
       IN  /\ startToken + 2 <= MaxTokens
           /\ startToken' = startToken + 2
           /\ run' = Aborted
           /\ abortable' = FALSE
           /\ \/ /\ ~ force /\ ~ explicitTab
                 /\ timer' = request
                 /\ UNCHANGED queue
              \/ /\ timer' = None
                 /\ queue' = Append(queue, request)

updateAutocomplete(at) == requestAutocomplete(at, picker.kind = "force", FALSE)

debounceTimer ==
  /\ timer # None
  /\ queue' = Append(queue, timer)
  /\ timer' = None
  /\ UNCHANGED <<pos, startToken, run, abortable, picker, cancelled>>

\* The next request of the queue, when the one before it has ended.
startAutocompleteRequest ==
  /\ queue # <<>> /\ run = None
  /\ queue' = Tail(queue)
  /\ LET request == Head(queue)
     IN  IF request.token # startToken
         THEN UNCHANGED <<run, abortable>>
         ELSE /\ run' = [token |-> request.token, force |-> request.force,
                         explicitTab |-> request.explicitTab, aborted |-> FALSE, at |-> pos]
              /\ abortable' = TRUE
  /\ UNCHANGED <<pos, startToken, timer, picker, cancelled>>

isAutocompleteRequestCurrent == ~ run.aborted /\ run.at = pos

\* The provider answers with no, one or many suggestions.
runAutocompleteRequest ==
  /\ run # None
  /\ IF ~ isAutocompleteRequestCurrent
     THEN /\ run' = None
          \* the controller left behind aborts a request that has ended
          /\ abortable' = FALSE
          /\ UNCHANGED <<pos, startToken, timer, picker, cancelled>>
     ELSE /\ run' = None
          /\ abortable' = FALSE
          /\ \/ \* none
                /\ startToken < MaxTokens
                /\ startToken' = startToken + 1
                /\ timer' = None
                /\ picker' = None
                /\ cancelled' = startToken'
                /\ UNCHANGED pos
             \/ \* one for an explicit Tab: applied at once; an open picker stays
                /\ run.force /\ run.explicitTab
                /\ pos' \in Positions
                /\ UNCHANGED <<startToken, timer, picker, cancelled>>
             \/ /\ picker' = [kind |-> IF run.force THEN "force" ELSE "regular",
                              at |-> run.at, token |-> run.token]
                /\ UNCHANGED <<pos, startToken, timer, cancelled>>
  /\ UNCHANGED queue

-----------------------------------------------------------------------------
(* What the user does. *)

insertCharacter(p) ==
  /\ p # pos
  /\ pos' = p
  /\ IF picker # None
     THEN updateAutocomplete(p)
     ELSE requestAutocomplete(p, FALSE, FALSE) \/ NoRequest
  /\ UNCHANGED <<picker, cancelled>>

\* Arrow keys and clicks: refresh an open picker.
moveCursor(p) ==
  /\ p # pos
  /\ pos' = p
  /\ IF picker # None THEN updateAutocomplete(p) ELSE NoRequest
  /\ UNCHANGED <<picker, cancelled>>

\* Pastes, line breaks, setText, insertTextAtCursor, history keys, submission.
handlePaste(p) ==
  /\ pos' = p
  /\ cancelAutocomplete

\* undo, the deletions that kill, yank and yankPop, and motion by words, to a
\* line's ends, by pages and jumps.
undo(p) ==
  /\ SilentEdits
  /\ p # pos
  /\ pos' = p
  /\ NoRequest
  /\ UNCHANGED <<picker, cancelled>>

\* Escape in the picker.
selectCancel ==
  /\ picker # None
  /\ cancelAutocomplete
  /\ UNCHANGED pos

\* Tab or Enter in the picker applies the selected item and its prefix.
selectConfirm ==
  /\ picker # None
  /\ pos' \in Positions
  /\ cancelAutocomplete

\* Tab without a picker: a slash command's name, or a file.
handleTabCompletion ==
  /\ picker = None
  /\ requestAutocomplete(pos, FALSE, TRUE) \/ requestAutocomplete(pos, TRUE, TRUE)
  /\ UNCHANGED <<pos, picker, cancelled>>

Next ==
  \/ \E p \in Positions : insertCharacter(p) \/ moveCursor(p) \/ handlePaste(p) \/ undo(p)
  \/ selectCancel
  \/ selectConfirm
  \/ handleTabCompletion
  \/ debounceTimer
  \/ startAutocompleteRequest
  \/ runAutocompleteRequest

Spec == Init /\ [][Next]_vars

(* A timer fires, a queued task runs and the provider answers.             *)
FairSpec ==
  Spec /\ WF_vars(debounceTimer) /\ WF_vars(startAutocompleteRequest)
       /\ WF_vars(runAutocompleteRequest)

-----------------------------------------------------------------------------
(* Properties. *)

Underway(request) == request # None /\ request.token = startToken

(* A picker that does not fit the text and the cursor any more is being    *)
(* refreshed: a request made since the last edit waits, or the provider    *)
(* works on exactly this text (updateAutocomplete, moveCursor).            *)
PickerRefreshes ==
  picker # None /\ picker.at # pos =>
    \/ Underway(timer)
    \/ \E i \in DOMAIN queue : queue[i].token = startToken
    \/ run # None /\ ~ run.aborted /\ run.at = pos

(* What was dismissed stays dismissed: after Escape, a paste or a          *)
(* submission, no timer, queued task or late answer of a request made      *)
(* before opens the picker again (cancelAutocomplete).                     *)
DismissedStaysClosed == picker # None => picker.token > cancelled

Stale == picker # None /\ picker.at # pos

=============================================================================
