----------------------------- MODULE Navigation -----------------------------
(***************************************************************************)
(* The router of the workbench and its guard of unsaved work: a link or a  *)
(* step in the browser's history that would leave unsaved work waits for   *)
(* the author, who stays or discards the work and goes on.                 *)
(*                                                                         *)
(* A step in the history is asynchronous: the browser queues it, moves to  *)
(* the entry and only then tells the router, which can but ask the browser *)
(* to step back again. Other steps may stand in the queue at that time.    *)
(***************************************************************************)
EXTENDS Integers, Sequences

CONSTANTS
    NvHrefs,      \* the addresses of the workbench
    NvPageOf,     \* the page an address shows; a lesson has several addresses
    NvDrops,      \* the pages whose work the guard can discard itself
    NvMaxSteps    \* what the author does, at most

ASSUME NvPages == NvMaxSteps \in Nat /\ \A h \in NvHrefs : NvPageOf[h] \in {"lesson", "curriculum"}

VARIABLES
    nvStack,     \* the history: addresses, each with its __lessonWorkbenchHistoryIndex
    nvAt,        \* the entry the browser is at
    nvSteps,     \* traversals the browser has yet to make
    nvKnown,     \* knownHref
    nvIndex,     \* historyIndex
    nvPending,   \* pendingNavigation: the guard's dialog is open
    nvRestoring, \* restoringNavigation
    nvAllowed,   \* allowedHistoryHref
    nvShown,     \* the address whose page React shows
    nvDirty,     \* the page holds unsaved work
    nvAgreed,    \* the author has agreed to leave it
    nvCount      \* actions of the author so far

nvVars == <<nvStack, nvAt, nvSteps, nvKnown, nvIndex, nvPending, nvRestoring, nvAllowed,
            nvShown, nvDirty, nvAgreed, nvCount>>

Nobody == [kind |-> "none"]
NoHref == "none"
Here == nvStack[nvAt].href

NvInit ==
    /\ \E h \in NvHrefs : /\ nvStack = <<[href |-> h, index |-> 0]>>
                        /\ nvKnown = h
                        /\ nvShown = h
    /\ nvAt = 1
    /\ nvSteps = <<>>
    /\ nvIndex = 0
    /\ nvPending = Nobody
    /\ nvRestoring = Nobody
    /\ nvAllowed = NoHref
    /\ nvDirty = FALSE
    /\ nvAgreed = FALSE
    /\ nvCount = 0

-----------------------------------------------------------------------------
\* notifyRouteListeners: React shows the page of the address the browser is
\* at; work registered by a page that goes away goes with it
Shows(href) ==
    /\ nvShown' = href
    /\ nvDirty' = (nvDirty /\ NvPageOf[href] = NvPageOf[nvShown])
    /\ nvAgreed' = (nvAgreed /\ NvPageOf[href] = NvPageOf[nvShown])

\* commitNavigation
Push(href) ==
    /\ nvStack' = Append(SubSeq(nvStack, 1, nvAt), [href |-> href, index |-> nvIndex + 1])
    /\ nvAt' = nvAt + 1
    /\ nvIndex' = nvIndex + 1
    /\ nvKnown' = href
    /\ Shows(href)

Acts == nvCount < NvMaxSteps /\ nvCount' = nvCount + 1
NoDialog == nvPending = Nobody
\* A traversal takes milliseconds: the author clicks in the page before or
\* after it. The browser's buttons, pressed in a row, queue their steps.
Quiet == nvSteps = <<>>

-----------------------------------------------------------------------------
(* The author.                                                             *)

\* hasUnsavedNavigationWork
GuardedUnlessRestoring == nvDirty /\ nvRestoring = Nobody
Guarded == nvDirty

\* navigate(): a link of the page, which the open dialog covers
Follow(href) ==
    /\ Acts /\ NoDialog /\ Quiet /\ href # Here
    /\ IF Guarded
       THEN /\ nvPending' = [kind |-> "link", href |-> href]
            /\ UNCHANGED <<nvStack, nvAt, nvIndex, nvKnown, nvShown, nvDirty, nvAgreed>>
       ELSE /\ Push(href)
            /\ UNCHANGED nvPending
    /\ UNCHANGED <<nvSteps, nvRestoring, nvAllowed>>

\* updateLessonRouteState: another view of the lesson shown
SwitchView(href) ==
    /\ Acts /\ NoDialog /\ Quiet
    /\ href # Here /\ NvPageOf[href] = "lesson" /\ NvPageOf[Here] = "lesson"
    /\ Push(href)
    /\ UNCHANGED <<nvSteps, nvPending, nvRestoring, nvAllowed>>

\* the browser's buttons, which the dialog does not cover
Step(distance) ==
    /\ Acts
    /\ nvSteps' = Append(nvSteps, distance)
    /\ UNCHANGED <<nvStack, nvAt, nvIndex, nvKnown, nvPending, nvRestoring, nvAllowed, nvShown, nvDirty, nvAgreed>>

\* registerNavigationWork, as the page reports it
Work(dirty) ==
    /\ Acts /\ NoDialog /\ Quiet /\ nvDirty # dirty
    /\ nvDirty' = dirty
    /\ nvAgreed' = FALSE
    /\ UNCHANGED <<nvStack, nvAt, nvSteps, nvIndex, nvKnown, nvPending, nvRestoring, nvAllowed, nvShown>>

Cancel ==
    /\ Acts /\ ~NoDialog
    /\ nvPending' = Nobody
    /\ UNCHANGED <<nvStack, nvAt, nvSteps, nvIndex, nvKnown, nvRestoring, nvAllowed, nvShown, nvDirty, nvAgreed>>

\* confirmPendingNavigation: a history entry is reached by another traversal,
\* an address by a new entry
TraversesNever == FALSE
Traverses == nvPending.kind = "history" /\ nvPending.target # nvIndex

Confirm ==
    /\ Acts /\ ~NoDialog /\ Quiet
    /\ nvPending' = Nobody
    /\ LET clean == NvPageOf[nvShown] \in NvDrops
       IN  IF Traverses
           THEN /\ nvAllowed' = nvPending.href
                /\ nvSteps' = Append(nvSteps, nvPending.target - nvIndex)
                /\ nvDirty' = (nvDirty /\ ~clean)
                /\ nvAgreed' = TRUE
                /\ UNCHANGED <<nvStack, nvAt, nvIndex, nvKnown, nvShown>>
           ELSE /\ nvAllowed' = IF nvPending.kind = "history" THEN nvPending.href ELSE nvAllowed
                /\ nvStack' = Append(SubSeq(nvStack, 1, nvAt), [href |-> nvPending.href, index |-> nvIndex + 1])
                /\ nvAt' = nvAt + 1
                /\ nvIndex' = nvIndex + 1
                /\ nvKnown' = nvPending.href
                /\ nvShown' = nvPending.href
                /\ nvDirty' = (nvDirty /\ ~clean /\ NvPageOf[nvPending.href] = NvPageOf[nvShown])
                /\ nvAgreed' = (NvPageOf[nvPending.href] = NvPageOf[nvShown])
                /\ UNCHANGED nvSteps
    /\ UNCHANGED nvRestoring

-----------------------------------------------------------------------------
(* The browser makes a traversal and tells the router.                     *)

\* onPopState
Reach(entry) ==
    CASE nvAllowed = entry.href ->
           /\ nvAllowed' = NoHref
           /\ nvKnown' = entry.href
           /\ nvIndex' = entry.index
           /\ Shows(entry.href)
           /\ nvSteps' = Tail(nvSteps)
           /\ UNCHANGED <<nvPending, nvRestoring>>
      [] nvAllowed # entry.href /\ nvRestoring # Nobody /\ entry.href = nvKnown ->
           /\ nvIndex' = entry.index
           /\ nvPending' = nvRestoring
           /\ nvRestoring' = Nobody
           /\ nvSteps' = Tail(nvSteps)
           /\ UNCHANGED <<nvAllowed, nvKnown, nvShown, nvDirty, nvAgreed>>
      [] nvAllowed # entry.href /\ nvRestoring = Nobody /\ entry.href = nvKnown ->
           /\ nvIndex' = entry.index
           /\ nvSteps' = Tail(nvSteps)
           /\ UNCHANGED <<nvPending, nvRestoring, nvAllowed, nvKnown, nvShown, nvDirty, nvAgreed>>
      [] nvAllowed # entry.href /\ entry.href # nvKnown /\ Guarded ->
           /\ nvRestoring' = [kind |-> "history", href |-> entry.href, target |-> entry.index]
           /\ nvSteps' = Append(Tail(nvSteps), nvIndex - entry.index)
           /\ UNCHANGED <<nvIndex, nvPending, nvAllowed, nvKnown, nvShown, nvDirty, nvAgreed>>
      [] nvAllowed # entry.href /\ entry.href # nvKnown /\ ~Guarded ->
           /\ nvKnown' = entry.href
           /\ nvIndex' = entry.index
           /\ Shows(entry.href)
           /\ nvSteps' = Tail(nvSteps)
           /\ UNCHANGED <<nvPending, nvRestoring, nvAllowed>>

Traverse ==
    /\ nvSteps # <<>>
    /\ LET to == nvAt + Head(nvSteps)
       IN  IF to \in DOMAIN nvStack
           THEN nvAt' = to /\ Reach(nvStack[to])
           ELSE /\ nvSteps' = Tail(nvSteps)
                /\ UNCHANGED <<nvAt, nvIndex, nvPending, nvRestoring, nvAllowed, nvKnown, nvShown, nvDirty, nvAgreed>>
    /\ UNCHANGED <<nvStack, nvCount>>

NvNext ==
    \/ \E h \in NvHrefs : Follow(h) \/ SwitchView(h)
    \/ \E d \in {-1, 1} : Step(d)
    \/ \E dirty \in BOOLEAN : Work(dirty)
    \/ Cancel \/ Confirm
    \/ Traverse

NvSpec == NvInit /\ [][NvNext]_nvVars

-----------------------------------------------------------------------------
NvTypeOK ==
    /\ nvAt \in DOMAIN nvStack
    /\ {nvKnown, nvShown} \subseteq NvHrefs
    /\ nvDirty \in BOOLEAN /\ nvAgreed \in BOOLEAN

\* Unsaved work goes away with its page only after the author agreed to it.
WorkNotLost == [][nvDirty /\ NvPageOf[nvShown'] # NvPageOf[nvShown] => nvAgreed \/ Confirm]_nvVars

\* At rest the address, the page shown and the router's idea of both agree.
Settled == Quiet /\ NoDialog
InStep == Settled => nvRestoring = Nobody /\ Here = nvKnown /\ nvShown = nvKnown /\ nvIndex = nvStack[nvAt].index

\* Unsaved work is left only with the author's consent, and whatever steps are
\* asked back or let go, address, page and router agree once they are made.
NavigationSafe == [](NvTypeOK /\ InStep) /\ WorkNotLost
=============================================================================
