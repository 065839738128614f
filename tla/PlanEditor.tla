----------------------------- MODULE PlanEditor -----------------------------
(***************************************************************************)
(* The curriculum page of the workbench: the author moves entries, edits   *)
(* them in a dialog that previews each change on the server, accepts what  *)
(* the preview shows, reviews the result and saves it. Accepted edits stay *)
(* in the page until then, while lesson creations insert entries on the    *)
(* server, fetches bring the plan, and previews are answered in any order. *)
(*                                                                         *)
(* A plan is the sequence of its ids. A merge is for it a removal, a split *)
(* an addition; `rev` stands for what the fields of the dialog hold.       *)
(***************************************************************************)
EXTENDS Naturals, Sequences, SequencesExt

CONSTANTS
    PeStart,        \* the plan at first
    PeNew,          \* the id the author adds
    PeCreated,      \* the id a lesson creation inserts
    PeMaxMoves, PeMaxEdits, PeMaxTypes, PeMaxFetches, PeMaxSaves, PeMaxFails

VARIABLES
    pePlan,     \* the server's plan
    peData,     \* the page's copy of it (query cache)
    peFetch,    \* a fetch under way, with the plan once it is served
    peOrder,    \* draftOrderIds
    peStaged,   \* stagedEdits
    pePreview,  \* stagedPreview, and the edits it was asked for
    peDialog,   \* CurriculumEditDialog: edit, request id, cumulativePreview
    peReview,   \* CurriculumReviewDialog: reviewEdits and its preview
    peAsked,    \* previews asked of the server
    peSave,     \* the Save under way
    peMade,     \* history: edits accepted since the last Save that succeeded
    peCount     \* steps spent of each bound

peVars == <<pePlan, peData, peFetch, peOrder, peStaged, pePreview, peDialog,
            peReview, peAsked, peSave, peMade, peCount>>

Nought == <<>>
\* Values that may be absent are sequences of at most one.
Has(box) == box # Nought
In(box) == box[1]

-----------------------------------------------------------------------------
(* The server: preview_workbench_curriculum_edits                          *)

Holds(plan, id) == \E i \in DOMAIN plan : plan[i] = id
Without(plan, id) == SelectSeq(plan, LAMBDA other : other # id)

Acceptable(plan, e) ==
    CASE e.kind = "add"     -> ~Holds(plan, e.id) /\ Holds(plan, e.after)
      [] e.kind = "reorder" -> ToSet(e.order) = ToSet(plan)
      [] OTHER              -> Holds(plan, e.id)

Apply(plan, e) ==
    CASE e.kind = "add"     -> InsertAt(plan, 1 + CHOOSE i \in DOMAIN plan : plan[i] = e.after, e.id)
      [] e.kind = "remove"  -> Without(plan, e.id)
      [] e.kind = "reorder" -> e.order
      [] OTHER              -> plan

\* The plan after the edits, none when one of them is refused.
Result(plan, edits) ==
    FoldLeft(LAMBDA box, e : IF Has(box) /\ Acceptable(In(box), e)
                             THEN <<Apply(In(box), e)>> ELSE Nought,
             <<plan>>, edits)

-----------------------------------------------------------------------------
(* What the page shows.                                                    *)

Base == IF Has(pePreview) THEN In(pePreview).order ELSE peData
Order == IF Has(peOrder) THEN In(peOrder) ELSE Base
Reorder(order) == [kind |-> "reorder", order |-> order]
\* pendingEdits: the entries moved since then become one more edit
Pending == IF Order # Base THEN Append(peStaged, Reorder(Order)) ELSE peStaged
Unsaved == Pending # <<>>

\* A dialog covers the page, and a Save disables its buttons.
MayEdit == ~Has(peDialog) /\ ~Has(peReview) /\ ~Has(peSave)
Spends(what) == peCount[what] > 0 /\ peCount' = [peCount EXCEPT ![what] = @ - 1]

PeInit ==
    /\ pePlan = PeStart /\ peData = PeStart
    /\ peFetch = Nought /\ peOrder = Nought /\ pePreview = Nought
    /\ peDialog = Nought /\ peReview = Nought /\ peSave = Nought
    /\ peStaged = <<>> /\ peMade = <<>>
    /\ peAsked = {}
    /\ peCount = [moves |-> PeMaxMoves, edits |-> PeMaxEdits, types |-> PeMaxTypes,
                  fetches |-> PeMaxFetches, saves |-> PeMaxSaves, fails |-> PeMaxFails,
                  creations |-> 1]

Server == <<pePlan, peData, peFetch>>
Page == <<peOrder, peStaged, pePreview, peMade>>
Dialogs == <<peDialog, peReview, peAsked, peSave>>

-----------------------------------------------------------------------------
(* The author moves entries, or opens a dialog for an edit and types in it.*)

\* moveItem
MoveItem(order, from, to) == InsertAt(Remove(order, order[from]), to, order[from])

Move ==
    /\ MayEdit
    /\ Spends("moves")
    /\ \E from, to \in DOMAIN Order :
         from # to /\ peOrder' = <<MoveItem(Order, from, to)>>
    /\ UNCHANGED <<Server, peStaged, pePreview, peMade, Dialogs>>

\* openAdd, openSplit, openRemove, openMerge, the entry form and the chat's proposal
EditsOffered ==
    LET known == {Order[i] : i \in DOMAIN Order} IN
    [kind : {"remove", "change"}, id : known, rev : {0}]
      \union [kind : {"add"}, id : {PeNew}, after : known, rev : {0}]

\* the effect of the dialog: a preview is due, the last one no longer counts
Opened(edit, id) == [edit |-> edit, id |-> id, sent |-> FALSE, seen |-> Nought]

OpenEdit ==
    /\ MayEdit
    /\ Spends("edits")
    /\ \E edit \in EditsOffered : peDialog' = <<Opened(edit, 0)>>
    /\ UNCHANGED <<Server, Page, peReview, peAsked, peSave>>

TypeInEdit ==
    /\ Has(peDialog)
    /\ Spends("types")
    /\ LET d == In(peDialog) IN
       peDialog' = <<Opened([d.edit EXCEPT !.rev = @ + 1], d.id + 1)>>
    /\ UNCHANGED <<Server, Page, peReview, peAsked, peSave>>

\* the dialog is closed; its previews on the way are for nobody
CancelEdit ==
    /\ Has(peDialog)
    /\ peDialog' = Nought
    /\ peAsked' = {}
    /\ UNCHANGED <<Server, Page, peReview, peSave, peCount>>

\* 220 ms later
AskPreview ==
    /\ Has(peDialog) /\ ~In(peDialog).sent
    /\ LET d == In(peDialog) IN
       /\ peAsked' = peAsked \union {[id |-> d.id, edits |-> Append(Pending, d.edit)]}
       /\ peDialog' = <<[d EXCEPT !.sent = TRUE]>>
    /\ UNCHANGED <<Server, Page, peReview, peSave, peCount>>

OfLastRequestAny(d, id) == TRUE
OfLastRequest(d, id) == d.id = id

\* The server answers one of the previews asked, a refused one by an error.
Preview(q) ==
    /\ Has(peDialog)
    /\ LET d == In(peDialog)
           result == Result(pePlan, q.edits)
       IN  peDialog' = IF OfLastRequest(d, q.id) /\ Has(result)
                       THEN <<[d EXCEPT !.seen = <<[edits |-> q.edits, order |-> In(result)]>>]>>
                       ELSE peDialog
    /\ peAsked' = peAsked \ {q}
    /\ UNCHANGED <<Server, Page, peReview, peSave, peCount>>

KeptStaged == peStaged
\* The entries moved before are an edit of their own from now on.
KeptMoves == Pending

\* acceptEdit
AcceptEdit ==
    /\ Has(peDialog) /\ Has(In(peDialog).seen)
    /\ LET d == In(peDialog) IN
       /\ peStaged' = Append(KeptMoves, d.edit)
       /\ peMade' = Append(peMade, d.edit)
       /\ pePreview' = d.seen
       /\ peOrder' = <<In(d.seen).order>>
    /\ peDialog' = Nought
    /\ peAsked' = {}
    /\ UNCHANGED <<Server, peReview, peSave, peCount>>

-----------------------------------------------------------------------------
(* Review and Save.                                                        *)

BeginReview ==
    /\ MayEdit /\ Unsaved
    /\ Spends("saves")
    /\ peReview' = <<[edits |-> Pending, due |-> TRUE, seen |-> Nought]>>
    /\ UNCHANGED <<Server, Page, peDialog, peAsked, peSave>>

\* the digest binds the preview to the plan it was made on
ShowReview ==
    /\ Has(peReview) /\ In(peReview).due
    /\ LET r == In(peReview)
           result == Result(pePlan, r.edits)
       IN  peReview' = <<[r EXCEPT !.due = FALSE,
                            !.seen = IF Has(result) THEN <<[order |-> In(result), digest |-> pePlan]>>
                                     ELSE Nought]>>
    /\ UNCHANGED <<Server, Page, peDialog, peAsked, peSave, peCount>>

MayCloseAlways == TRUE
MayClose == peSave = Nought

CloseReview ==
    /\ Has(peReview) /\ MayClose
    /\ peReview' = Nought
    /\ UNCHANGED <<Server, Page, peDialog, peAsked, peSave, peCount>>

SendSave ==
    /\ Has(peReview) /\ Has(In(peReview).seen) /\ peSave = Nought
    /\ peSave' = <<[edits |-> In(peReview).edits, digest |-> In(In(peReview).seen).digest,
                    saved |-> Nought]>>
    /\ UNCHANGED <<Server, Page, peDialog, peReview, peAsked, peCount>>

\* save_workbench_curriculum_edits: a plan that moved on is refused
ServeSave ==
    /\ Has(peSave) /\ ~Has(In(peSave).saved)
    /\ LET s == In(peSave) IN
       IF s.digest = pePlan
       THEN /\ pePlan' = In(Result(pePlan, s.edits))
            /\ peSave' = <<[s EXCEPT !.saved = <<pePlan'>>]>>
       ELSE /\ peSave' = Nought
            /\ UNCHANGED pePlan
    /\ UNCHANGED <<peData, peFetch, Page, peDialog, peReview, peAsked, peCount>>

\* A Save that fails for another reason leaves page and plan as they are.
FailSave ==
    /\ Has(peSave) /\ ~Has(In(peSave).saved)
    /\ Spends("fails")
    /\ peSave' = Nought
    /\ UNCHANGED <<Server, Page, peDialog, peReview, peAsked>>

SaveLands ==
    /\ Has(peSave) /\ Has(In(peSave).saved)
    /\ peData' = In(In(peSave).saved)
    /\ peOrder' = Nought /\ peStaged' = <<>> /\ pePreview' = Nought
    /\ peMade' = SelectSeq(peMade, LAMBDA e : ~Holds(In(peSave).edits, e))
    /\ peReview' = Nought /\ peSave' = Nought
    /\ UNCHANGED <<pePlan, peFetch, peDialog, peAsked, peCount>>

-----------------------------------------------------------------------------
(* Lesson creations and fetches.                                           *)

CreateLesson ==
    /\ Spends("creations")
    /\ pePlan' = Append(pePlan, PeCreated)
    /\ UNCHANGED <<peData, peFetch, Page, Dialogs>>

AskPlan ==
    /\ peFetch = Nought
    /\ Spends("fetches")
    /\ peFetch' = <<Nought>>
    /\ UNCHANGED <<pePlan, peData, Page, Dialogs>>

ServePlan ==
    /\ Has(peFetch) /\ ~Has(In(peFetch))
    /\ peFetch' = <<<<pePlan>>>>
    /\ UNCHANGED <<pePlan, peData, Page, Dialogs, peCount>>

ReconciledKept(current, known) == current
\* reconcileOrder: entries that went are dropped, new ones come last
Reconciled(current, known) ==
    SelectSeq(current, LAMBDA id : Holds(known, id))
      \o SelectSeq(known, LAMBDA id : ~Holds(current, id))

\* The plan arrives. An open dialog asks for its preview again.
PlanLands ==
    /\ Has(peFetch) /\ Has(In(peFetch))
    /\ peFetch' = Nought
    /\ peData' = In(In(peFetch))
    /\ peOrder' = IF Has(peOrder) /\ ~Has(pePreview)
                  THEN <<Reconciled(In(peOrder), peData')>> ELSE peOrder
    /\ peDialog' = IF Has(peDialog) THEN <<Opened(In(peDialog).edit, In(peDialog).id + 1)>>
                   ELSE Nought
    /\ UNCHANGED <<pePlan, peStaged, pePreview, peMade, peReview, peAsked, peSave, peCount>>

PeNext ==
    \/ Move \/ OpenEdit \/ TypeInEdit \/ CancelEdit \/ AskPreview
    \/ \E q \in peAsked : Preview(q)
    \/ AcceptEdit
    \/ BeginReview \/ ShowReview \/ CloseReview
    \/ SendSave \/ ServeSave \/ FailSave \/ SaveLands
    \/ CreateLesson \/ AskPlan \/ ServePlan \/ PlanLands

PeSpec == PeInit /\ [][PeNext]_peVars

-----------------------------------------------------------------------------
PeTypeOK ==
    /\ LET boxes == <<peOrder, pePreview, peDialog, peReview, peSave, peFetch>>
       IN  \A i \in DOMAIN boxes : Len(boxes[i]) <= 1
    /\ Has(pePreview) <=> peStaged # <<>>

\* The order the page shows is the outcome of the edits it will send: those
\* the server previewed, and the reordering made since.
ShownIsPending == Has(pePreview) => In(pePreview).edits = peStaged

\* No edit the author accepted is dropped but by the Save that wrote it.
AcceptedIsPending == \A i \in DOMAIN peMade : Holds(peStaged, peMade[i])

\* With nothing staged, entries the author moved make an order of just the
\* entries the page knows of: the server does not refuse it for one it lacks.
OrderCovers == Has(peOrder) /\ ~Has(pePreview) => ToSet(In(peOrder)) = ToSet(peData)

\* A Save writes the very order its author saw in the review.
SavedAsShown ==
    [][ServeSave /\ pePlan' # pePlan => Has(peReview) /\ Has(In(peReview).seen) /\ pePlan' = In(In(peReview).seen).order]_peVars

\* The page sends what it shows, keeps what was accepted until it is written,
\* and the server writes what was shown.
PlanEditsKept ==
    [](PeTypeOK /\ ShownIsPending /\ AcceptedIsPending /\ OrderCovers) /\ SavedAsShown
=============================================================================
