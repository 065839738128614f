---------------------------- MODULE DraftEditor ----------------------------
(***************************************************************************)
(* One lesson's text in the browser: the source editor with its debounced  *)
(* writes, the edits that outlive the editor that made them, the queue in  *)
(* which all writes of the lesson stand, and the copy of the lesson that   *)
(* the page reads from and refetches.                                      *)
(*                                                                         *)
(* A text is the number of the edit that made it, whether it has the form  *)
(* the server gives a text it stores (newlines and a final one), and how   *)
(* many changes of single blocks (an accepted proposal, a block edit) it   *)
(* contains: the source editor writes the whole text, the others a part.   *)
(***************************************************************************)
EXTENDS Integers, Sequences

CONSTANTS DeMaxEdits, DeMaxChanges, DeMaxFails, DeMaxVisits

ASSUME DeBounds == {DeMaxEdits, DeMaxChanges, DeMaxFails, DeMaxVisits} \subseteq Nat

VARIABLES
    deFile,     \* lesson.md of the draft, on the server
    deCache,    \* the lesson in the query cache, which the page shows
    deFetch,    \* a GET under way: NoFetch, asked, or the text it was answered
    deQueue,    \* the mutations of scope write-<lesson>, oldest first
    dePage,     \* the lesson page is open
    deEd,       \* the mounted source editor, or None
    dePending,  \* K_WORKBENCH_PENDING_SOURCE_EDITS of the lesson, or None
    deWant,     \* the last edit the author made, NoEdit when taken back
    deCount     \* edits, changes, failures and visits so far; last edit went back

deVars == <<deFile, deCache, deFetch, deQueue, dePage, deEd, dePending, deWant, deCount>>

NoEdit == -1
None == [kind |-> "none"]
NoFetch == [kind |-> "idle"]
Asked == [kind |-> "asked"]
Told(t) == [kind |-> "told", text |-> t]
Text == [rest : 0 .. DeMaxEdits, norm : BOOLEAN, block : 0 .. DeMaxChanges]

DeInit ==
    /\ deFile = [rest |-> 0, norm |-> TRUE, block |-> 0]
    /\ deCache = deFile
    /\ deFetch = NoFetch
    /\ deQueue = <<>>
    /\ dePage = TRUE
    /\ deEd = None
    /\ dePending = None
    /\ deWant = NoEdit
    /\ deCount = [edits |-> 0, changes |-> 0, fails |-> 0, visits |-> 1, back |-> FALSE]

-----------------------------------------------------------------------------
Mounted(ed) == ed # None
OnDisk(t) == [t EXCEPT !.norm = TRUE]
Writes(queue) == SelectSeq(queue, LAMBDA m : m.kind = "write")
\* isPending of useWriteFile: only the writes of this editor count
IsPending(ed, queue) == \E i \in 1 .. Len(queue) : queue[i].kind = "write" /\ queue[i].visit = ed.visit
Busy(ed, queue) == Mounted(ed) /\ (ed.text # ed.saved \/ IsPending(ed, queue))

\* the effect that follows the lesson when the editor holds no edit of its own
Synced(ed, cache, queue) ==
    IF Mounted(ed) /\ ~Busy(ed, queue) /\ cache # ed.saved
    THEN [ed EXCEPT !.text = cache, !.saved = cache] ELSE ed
Entry(text) == [kind |-> "edit", text |-> text, failed |-> FALSE]
Mutation(kind, text) ==
    [kind |-> kind, text |-> text, visit |-> deCount.visits, served |-> None, must |-> NoEdit]

\* save(): the same text is not sent twice by one editor
SaveText(ed) ==
    /\ ed.inFlight # Entry(ed.text)
    /\ dePending' = Entry(ed.text)
    /\ deQueue' = Append(deQueue, Mutation("write", ed.text))

\* deWant after a failed write or a new visit. A text typed back is no longer
\* vouched for: the browser may take it for saved while the draft holds another.
Vouched == IF deCount.back THEN NoEdit ELSE deWant

-----------------------------------------------------------------------------
(* The author, in the source editor.                                       *)

Revert(ed) == ed.saved
TypedText(ed, norm) == [rest |-> deCount.edits + 1, norm |-> norm, block |-> ed.text.block]

\* onChange: an edit that restores the saved text leaves nothing pending
NoEditLeft(next) == next = deEd.saved /\ ~IsPending(deEd, deQueue)
TypeText(next) ==
    /\ Mounted(deEd) /\ next # deEd.text
    /\ LET taken == NoEditLeft(next)
           typed == [deEd EXCEPT !.text = next, !.failed = None,
                                 !.typed = IF taken THEN NoEdit ELSE next.rest]
       IN  /\ dePending' = IF taken THEN None ELSE Entry(next)
           /\ deWant' = IF next = deEd.saved /\ ~IsPending(deEd, deQueue) THEN NoEdit ELSE next.rest
           /\ deEd' = Synced(typed, deCache, deQueue)
    /\ UNCHANGED <<deFile, deCache, deFetch, deQueue, dePage>>

Type ==
    /\ deCount.edits < DeMaxEdits
    /\ deCount' = [deCount EXCEPT !.edits = @ + 1, !.back = FALSE]
    /\ \E norm \in BOOLEAN : TypeText(TypedText(deEd, norm))

TypeBack ==
    /\ Mounted(deEd)
    /\ deCount' = [deCount EXCEPT !.back = TRUE]
    /\ TypeText(Revert(deEd))

\* the timer of an edit that rests, and the author's retry of a failed write
Rests(ed) == ed.text # ed.saved /\ ~IsPending(ed, deQueue) /\ ed.failed # Entry(ed.text)
Sends ==
    /\ SaveText(deEd)
    /\ deEd' = [deEd EXCEPT !.inFlight = Entry(deEd.text),
                            !.failed = IF @ = Entry(deEd.text) THEN None ELSE @]
    /\ UNCHANGED <<deFile, deCache, deFetch, dePage, deWant, deCount>>

Debounced == Mounted(deEd) /\ Rests(deEd) /\ Sends
RetryWrite == Mounted(deEd) /\ deEd.failed # None /\ Sends

\* LessonPage mounts the editor when its view is first opened, with the edit
\* that an earlier editor left behind
OpenEditor ==
    /\ dePage /\ ~Mounted(deEd)
    /\ LET text == IF dePending = None THEN deCache ELSE dePending.text
       IN  deEd' = [kind |-> "editor", text |-> text, saved |-> deCache,
                    failed |-> IF dePending # None /\ dePending.failed THEN Entry(text) ELSE None,
                    inFlight |-> None, visit |-> deCount.visits, typed |-> NoEdit]
    /\ UNCHANGED <<deFile, deCache, deFetch, deQueue, dePage, dePending, deWant, deCount>>

\* the cleanup of the editor writes what no write has taken along
UnsentNone(ed) == FALSE
Unsent(ed) == ed.text # ed.saved \/ (IsPending(ed, deQueue) /\ ed.inFlight # Entry(ed.text))
LeavePage ==
    /\ dePage
    /\ dePage' = FALSE
    /\ deEd' = None
    /\ IF Mounted(deEd) /\ Unsent(deEd) /\ deEd.inFlight # Entry(deEd.text) THEN SaveText(deEd)
       ELSE UNCHANGED <<deQueue, dePending>>
    /\ UNCHANGED <<deFile, deCache, deFetch, deWant, deCount>>

ReturnToPage ==
    /\ ~dePage /\ deCount.visits < DeMaxVisits
    /\ dePage' = TRUE
    /\ deCount' = [deCount EXCEPT !.visits = @ + 1]
    /\ deFetch' = IF deFetch = NoFetch THEN Asked ELSE deFetch
    /\ deWant' = Vouched
    /\ UNCHANGED <<deFile, deCache, deQueue, deEd, dePending>>

-----------------------------------------------------------------------------
(* The other writes of the lesson: one block or one decided proposal, and  *)
(* the commit of the draft, which waits for the editor to be idle.         *)

ChangeBlock ==
    /\ dePage /\ deCount.changes < DeMaxChanges
    /\ deCount' = [deCount EXCEPT !.changes = @ + 1]
    /\ deQueue' = Append(deQueue, Mutation("change", deCache))
    /\ UNCHANGED <<deFile, deCache, deFetch, dePage, deEd, dePending, deWant>>

MaySaveAnyTime == TRUE
MaySave == ~Busy(deEd, deQueue)
SaveDraft ==
    /\ dePage /\ MaySave
    /\ \A i \in 1 .. Len(deQueue) : deQueue[i].kind # "save"
    /\ deQueue' = Append(deQueue, [Mutation("save", deCache) EXCEPT
                                     !.must = IF Mounted(deEd) /\ ~deCount.back
                                              THEN deWant ELSE NoEdit])
    /\ UNCHANGED <<deFile, deCache, deFetch, dePage, deEd, dePending, deWant, deCount>>

-----------------------------------------------------------------------------
(* The server: the requests of one scope come one after the other.         *)

AnyInLine == 1 .. Len(deQueue)
FirstInLine == IF deQueue = <<>> THEN {} ELSE {1}
After(m) ==
    CASE m.kind = "write" -> OnDisk(m.text)
      [] m.kind = "change" -> [deFile EXCEPT !.block = deCount.changes]
      [] m.kind = "save" -> deFile

Serve ==
    \E i \in FirstInLine :
        /\ deQueue[i].served = None
        /\ deFile' = After(deQueue[i])
        /\ deQueue' = [deQueue EXCEPT ![i].served = Told(deFile')]
    /\ UNCHANGED <<deCache, deFetch, dePage, deEd, dePending, deWant, deCount>>

\* onSuccess: the cache takes the answer and every GET under way is dropped
\* for a new one; a query nobody watches is left alone
RefetchedNever == deFetch
Refetched == IF dePage THEN Asked ELSE deFetch
\* the editor's .then(): its edit is done unless a newer one took its place
LandedWhole(ed, m, text) ==
    IF Mounted(ed) /\ m.kind = "write" /\ ed.visit = m.visit
    THEN [ed EXCEPT !.saved = text, !.text = text, !.failed = None, !.inFlight = None] ELSE ed
Landed(ed, m, text) ==
    IF Mounted(ed) /\ m.kind = "write" /\ ed.visit = m.visit
    THEN [ed EXCEPT !.saved = text, !.text = IF @ = m.text THEN text ELSE @,
                    !.failed = IF @ = Entry(m.text) THEN None ELSE @,
                    !.inFlight = IF @ = Entry(m.text) THEN None ELSE @]
    ELSE ed
OwnsAny(m) == m.kind = "write" /\ dePending # None
Owns(m) == m.kind = "write" /\ dePending # None /\ dePending.text = m.text
Drop(queue, i) == SubSeq(queue, 1, i - 1) \o SubSeq(queue, i + 1, Len(queue))

Reply ==
    \E i \in FirstInLine :
        LET m == deQueue[i]
            left == Drop(deQueue, i)
            cache == IF m.kind = "save" THEN deCache ELSE m.served.text
        IN  /\ m.served # None
            /\ deQueue' = left
            /\ deCache' = cache
            /\ deFetch' = Refetched
            /\ dePending' = IF Owns(m) THEN None ELSE dePending
            /\ deEd' = Synced(Landed(deEd, m, m.served.text), cache, left)
            /\ UNCHANGED <<deFile, dePage, deWant, deCount>>

\* A request refused, or one that fails after it wrote the file (its preview
\* cannot be built).
AnswerFails ==
    \E i \in FirstInLine :
        LET m == deQueue[i]
            left == Drop(deQueue, i)
            back == IF Mounted(deEd) /\ m.kind = "write" /\ deEd.visit = m.visit
                    THEN [deEd EXCEPT !.inFlight = IF @ = Entry(m.text) THEN None ELSE @] ELSE deEd
        IN  /\ deCount.fails < DeMaxFails
            /\ deCount' = [deCount EXCEPT !.fails = @ + 1]
            /\ deQueue' = left
            /\ dePending' = IF Owns(m) THEN [dePending EXCEPT !.failed = TRUE] ELSE dePending
            /\ deEd' = Synced(IF Owns(m) /\ Mounted(back) /\ back.visit = m.visit
                              THEN [back EXCEPT !.failed = Entry(m.text)] ELSE back,
                              deCache, left)
            /\ deWant' = Vouched
            /\ UNCHANGED <<deFile, deCache, deFetch, dePage>>

\* useLesson: a GET (refetchInterval while a chat turn runs, or invalidated)
AskText ==
    /\ dePage /\ deFetch = NoFetch
    /\ deFetch' = Asked
    /\ UNCHANGED <<deFile, deCache, deQueue, dePage, deEd, dePending, deWant, deCount>>

FetchServed ==
    /\ deFetch = Asked
    /\ deFetch' = Told(deFile)
    /\ UNCHANGED <<deFile, deCache, deQueue, dePage, deEd, dePending, deWant, deCount>>

FetchAnswered ==
    /\ deFetch.kind = "told"
    /\ deFetch' = NoFetch
    /\ deCache' = deFetch.text
    /\ deEd' = Synced(deEd, deFetch.text, deQueue)
    /\ UNCHANGED <<deFile, deQueue, dePage, dePending, deWant, deCount>>

DeNext ==
    \/ Type \/ TypeBack \/ Debounced \/ RetryWrite
    \/ OpenEditor \/ LeavePage \/ ReturnToPage
    \/ ChangeBlock \/ SaveDraft
    \/ Serve \/ Reply \/ AnswerFails
    \/ AskText \/ FetchServed \/ FetchAnswered

DeSpec == DeInit /\ [][DeNext]_deVars

-----------------------------------------------------------------------------
DeTypeOK ==
    /\ {deFile, deCache} \subseteq Text
    /\ deFetch = NoFetch \/ deFetch = Asked \/ (deFetch.kind = "told" /\ deFetch.text \in Text)
    /\ dePage \in BOOLEAN
    /\ deEd = None \/ (dePage /\ {deEd.text, deEd.saved} \subseteq Text)
    /\ dePending = None \/ dePending.text \in Text
    /\ deWant \in NoEdit .. DeMaxEdits

\* The author's last edit is never gone: it is in the editor, among the edits
\* that wait for an editor, in the last write under way, or in the draft.
LastEditKept ==
    LET writes == Writes(deQueue)
    IN  deWant # NoEdit =>
            \/ Mounted(deEd) /\ deEd.text.rest = deWant
            \/ dePending # None /\ dePending.text.rest = deWant
            \/ writes # <<>> /\ writes[Len(writes)].text.rest = deWant
            \/ writes = <<>> /\ deFile.rest = deWant

\* When no write is under way and no edit waits, the draft is what the author
\* last typed: no older text has come in after it.
QuietMeansWritten ==
    deWant # NoEdit /\ Writes(deQueue) = <<>> /\ dePending = None /\ ~Busy(deEd, deQueue)
        => deFile.rest = deWant

\* The editor never takes back what was typed into it, whatever the answers
\* and refetches that come in.
TypedStays ==
    Mounted(deEd) /\ deEd.typed # NoEdit /\ deEd.typed = deWant => deEd.text.rest = deEd.typed

\* A refetch never leaves an open page with an older text than a write told
\* it: with nothing under way the page shows the draft. (A GET that an earlier
\* visit of the page left behind is not dropped by a write, and may.)
DraftIsShown ==
    dePage /\ deQueue = <<>> /\ deFetch = NoFetch /\ deCount.fails = 0 /\ deCount.visits = 1 => deCache = deFile

\* The commit of a Save takes along the new text that the author saw saved (a
\* text typed back while a write is under way whose answer is lost is not).
SaveTakesEdit ==
    [][ \A i \in 1 .. Len(deQueue) :
          deQueue[i].kind = "save" /\ deQueue[i].served = None /\ deQueue[i].must # NoEdit
            /\ i \in DOMAIN deQueue' /\ deQueue'[i].served # None
            => deFile.rest = deQueue[i].must \/ deWant # deQueue[i].must ]_deVars

\* All of the above: no edit of the author is lost, overtaken or left out.
DraftTextSafe ==
    /\ [](DeTypeOK /\ LastEditKept /\ QuietMeansWritten /\ TypedStays /\ DraftIsShown)
    /\ SaveTakesEdit
=============================================================================
