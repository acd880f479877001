------------------------------ MODULE PcDialogs ------------------------------
(***************************************************************************)
(* The dialogs of the PC list (PcList.tsx, usePcListDialogState.ts): the   *)
(* details of a PC with the form that edits it, the deletion and the       *)
(* shutdown to confirm.  The list below them changes at any time.  Rows    *)
(* behind a dialog are reached by keyboard.  The fields of a PC are one    *)
(* text, 0 when a required one is empty; a render and its effects are one  *)
(* step with the change.                                                   *)
(***************************************************************************)
EXTENDS Integers

CONSTANTS ListedPc, Nobody, Texts

ASSUME DialogAssumption == Texts \in Nat /\ Nobody \notin ListedPc

VARIABLES
  items,      \* items[p]: the text of a listed PC, or Absent
  allowed,    \* the PCs that may be shut down: configured, online, not busy
  selected, detailOpen, isEditing, editForm,
  update,     \* the update awaited: its PC, its text, "asked" or "saved"; editLoading
  pendingDelete,
  deletion,   \* the deletion awaited: its PC, the PC then selected, "asked" or "done"; confirmLoading
  shutdownTarget,
  typed       \* history: what the user left in the form

dialogVars == <<items, allowed, selected, detailOpen, isEditing, editForm, update, pendingDelete, deletion,
                shutdownTarget, typed>>
requests == <<update, deletion>>

Absent == -1
NoRequest == [pc |-> Nobody, step |-> "none"]
Form(p, text) == [of |-> p, text |-> text]
Listed(p) == p # Nobody /\ items[p] # Absent
editLoading == update # NoRequest
confirmLoading == deletion # NoRequest

DialogInit ==
  /\ items \in [ListedPc -> {Absent, 1}] /\ allowed = {}
  /\ selected = Nobody /\ detailOpen = FALSE /\ isEditing = FALSE /\ editForm = Form(Nobody, 0)
  /\ update = NoRequest /\ pendingDelete = Nobody /\ deletion = NoRequest /\ shutdownTarget = Nobody
  /\ typed = 0
-----------------------------------------------------------------------------
\* Plausible bug: a list loaded again fills the form that is being edited.
RenderRefills(its, sel, open, editing, form) ==
  LET there == sel # Nobody /\ its[sel] # Absent
      lost == sel # Nobody /\ ~there
  IN /\ items' = its
     /\ selected' = IF lost THEN Nobody ELSE sel
     /\ detailOpen' = (open /\ ~lost) /\ isEditing' = (editing /\ ~lost)
     /\ editForm' = IF there THEN Form(sel, its[sel]) ELSE form

\* The two effects: a PC that left the list is no longer selected, and the form
\* shows the PC selected unless it is edited.
Render(its, sel, open, editing, form) ==
  LET there == sel # Nobody /\ its[sel] # Absent
      lost == sel # Nobody /\ ~there
  IN /\ items' = its
     /\ selected' = IF lost THEN Nobody ELSE sel
     /\ detailOpen' = (open /\ ~lost) /\ isEditing' = (editing /\ ~lost)
     /\ editForm' = IF there /\ ~editing THEN Form(sel, its[sel]) ELSE form

\* A load, an event or another operation changes the list.
ListChanges(p, text) ==
  /\ text # items[p]
  /\ Render([items EXCEPT ![p] = text], selected, detailOpen, isEditing, editForm)
  /\ UNCHANGED <<allowed, requests, pendingDelete, shutdownTarget, typed>>

ShutdownAllowed(p) ==
  /\ allowed' = IF p \in allowed THEN allowed \ {p} ELSE allowed \cup {p}
  /\ UNCHANGED <<items, selected, detailOpen, isEditing, editForm, requests, pendingDelete, shutdownTarget,
                 typed>>

OpenDetail(p) ==
  /\ Listed(p) /\ ~confirmLoading /\ ~editLoading
  /\ Render(items, p, TRUE, FALSE, editForm)
  /\ UNCHANGED <<allowed, requests, pendingDelete, shutdownTarget, typed>>

CloseDetail ==
  /\ detailOpen /\ ~confirmLoading /\ ~editLoading
  /\ Render(items, selected, FALSE, FALSE, editForm)
  /\ UNCHANGED <<allowed, requests, pendingDelete, shutdownTarget, typed>>
-----------------------------------------------------------------------------
StartEdit ==
  /\ detailOpen /\ ~isEditing
  /\ Render(items, selected, detailOpen, TRUE, Form(selected, items[selected]))
  /\ typed' = items[selected]
  /\ UNCHANGED <<allowed, requests, pendingDelete, shutdownTarget>>

CancelEdit ==
  /\ detailOpen /\ isEditing /\ ~editLoading
  /\ Render(items, selected, detailOpen, FALSE, editForm)
  /\ UNCHANGED <<allowed, requests, pendingDelete, shutdownTarget, typed>>

\* The fields are not locked while a save is awaited.
UpdateEditField(text) ==
  /\ detailOpen /\ isEditing
  /\ Render(items, selected, detailOpen, isEditing, Form(editForm.of, text))
  /\ typed' = text
  /\ UNCHANGED <<allowed, requests, pendingDelete, shutdownTarget>>

\* submitEdit: only a complete form is sent.
SubmitEdit ==
  /\ detailOpen /\ isEditing /\ ~editLoading /\ editForm.text # 0
  /\ update' = [pc |-> selected, text |-> editForm.text, step |-> "asked"]
  /\ UNCHANGED <<items, allowed, selected, detailOpen, isEditing, editForm, deletion, pendingDelete,
                 shutdownTarget, typed>>

\* updatePcEntry: a saved PC replaces its row; the logs are loaded before the
\* form is told.
UpdateSaved ==
  /\ update.step = "asked"
  /\ Render(IF Listed(update.pc) THEN [items EXCEPT ![update.pc] = update.text] ELSE items,
            selected, detailOpen, isEditing, editForm)
  /\ update' = [update EXCEPT !.step = "saved"]
  /\ UNCHANGED <<allowed, deletion, pendingDelete, shutdownTarget, typed>>

\* The form ends with a saved update and stays with a failed one.
UpdateEnds ==
  /\ editLoading
  /\ Render(items, selected, detailOpen, isEditing /\ update.step # "saved", editForm)
  /\ update' = NoRequest
  /\ UNCHANGED <<allowed, deletion, pendingDelete, shutdownTarget, typed>>
-----------------------------------------------------------------------------
\* The button of the details, disabled while this PC is deleted.
OpenDeleteDialog ==
  /\ detailOpen /\ ~isEditing /\ deletion.pc # selected
  /\ pendingDelete' = selected
  /\ UNCHANGED <<items, allowed, selected, detailOpen, isEditing, editForm, requests, shutdownTarget, typed>>

CloseDeleteDialog ==
  /\ pendingDelete # Nobody /\ ~confirmLoading
  /\ pendingDelete' = Nobody
  /\ UNCHANGED <<items, allowed, selected, detailOpen, isEditing, editForm, requests, shutdownTarget, typed>>

ConfirmAndDelete ==
  /\ pendingDelete # Nobody /\ ~confirmLoading
  /\ deletion' = [pc |-> pendingDelete, selected |-> selected, step |-> "asked"]
  /\ UNCHANGED <<items, allowed, selected, detailOpen, isEditing, editForm, update, pendingDelete,
                 shutdownTarget, typed>>

\* deletePcEntry: the row goes first, then the logs are loaded.
Deleted ==
  /\ deletion.step = "asked"
  /\ deletion' = [deletion EXCEPT !.step = "done"]
  /\ Render([items EXCEPT ![deletion.pc] = Absent], selected, detailOpen, isEditing, editForm)
  /\ UNCHANGED <<allowed, update, pendingDelete, shutdownTarget, typed>>

\* The dialogs close, also when the deletion failed, which the row shows.
DeleteEnds ==
  /\ confirmLoading
  /\ IF deletion.selected = deletion.pc THEN Render(items, Nobody, FALSE, FALSE, editForm)
     ELSE Render(items, selected, detailOpen, isEditing, editForm)
  /\ pendingDelete' = Nobody /\ deletion' = NoRequest
  /\ UNCHANGED <<allowed, update, shutdownTarget, typed>>
-----------------------------------------------------------------------------
AskShutdown(p) ==
  /\ Listed(p) /\ p \in allowed
  /\ shutdownTarget' = p
  /\ UNCHANGED <<items, allowed, selected, detailOpen, isEditing, editForm, requests, pendingDelete, typed>>

\* Cancelled, or confirmed while the PC may be shut down; the dialog is there
\* while the PC is listed.
EndShutdownDialog ==
  /\ Listed(shutdownTarget)
  /\ shutdownTarget' = Nobody
  /\ UNCHANGED <<items, allowed, selected, detailOpen, isEditing, editForm, requests, pendingDelete, typed>>

DialogNext ==
  \/ \E p \in ListedPc :
       \/ \E text \in {Absent} \cup 1 .. Texts : ListChanges(p, text)
       \/ ShutdownAllowed(p) \/ OpenDetail(p) \/ AskShutdown(p)
  \/ \E text \in 0 .. Texts : UpdateEditField(text)
  \/ CloseDetail \/ StartEdit \/ CancelEdit \/ SubmitEdit \/ UpdateSaved \/ UpdateEnds
  \/ OpenDeleteDialog \/ CloseDeleteDialog \/ ConfirmAndDelete \/ Deleted \/ DeleteEnds
  \/ EndShutdownDialog

DialogSpec == DialogInit /\ [][DialogNext]_dialogVars
-----------------------------------------------------------------------------
\* A form that is edited belongs to the PC whose details are open and has what the
\* user left in it, however often the list is loaded meanwhile (the effect of
\* usePcListDialogState); otherwise the details are those of the list.
FormIsTyped ==
  detailOpen => /\ Listed(selected)
                /\ editForm = Form(selected, IF isEditing THEN typed ELSE items[selected])

\* While an update or a deletion is awaited, no other PC gets into the details:
\* its end, which closes the form or the details, meets the PC it is about, also
\* when that PC left the list meanwhile (openDetail, closeDetail).
EndMeetsItsPc ==
  /\ editLoading => selected \in {update.pc, Nobody}
  /\ confirmLoading => selected \in {deletion.selected, Nobody}

\* The page does not scroll only while a dialog is on it (the effect of PcList),
\* or was when the PC to shut down left the list, whose dialog goes unanswered.
LockedBehindDialog ==
  LET locked == detailOpen \/ pendingDelete # Nobody \/ shutdownTarget # Nobody
      onPage == (detailOpen /\ Listed(selected)) \/ pendingDelete # Nobody \/ Listed(shutdownTarget)
  IN locked => onPage \/ shutdownTarget # Nobody

\* The three together (usePcListDialogState, PcList).
DialogsHold == FormIsTyped /\ EndMeetsItsPc /\ LockedBehindDialog
=============================================================================
