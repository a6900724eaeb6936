------------------------------- MODULE Autosave -------------------------------
(***************************************************************************)
(* The session's autosave and the scene link in the address, of the app in *)
(* a browser: crates/funfern-app/src/ui/session.rs, with recovery.rs       *)
(* (where the autosave is stored), sharing.rs (the link) and stopped.rs    *)
(* (what a stop of rendering tells).                                       *)
(*                                                                         *)
(* A document is what the editor holds.  Each frame ends in autosave(),    *)
(* which notices that the document moved and writes it once 0.8 s have     *)
(* passed without another edit.  Beside the session, in a slot that the    *)
(* page's own handlers can reach, lies a copy of what is still to be       *)
(* written, for a page that is hidden or leaves and runs no more frames.   *)
(* A reload opens the link in the address ahead of the autosave.           *)
(***************************************************************************)
EXTENDS Naturals

CONSTANTS
    Documents,  \* the documents a user may make
    Default,    \* the one the playground is built with, before launch opens any
    Examples,   \* what launch opens where there is nothing to restore
    Linkable,   \* the documents within a link's size
    MaxEdits,   \* bound: the edits of a behaviour
    None,       \* no autosave, no link, no copy in the slot
    Broken      \* an autosave or a link that does not open

ASSUME DocumentsAssumption ==
    /\ Default \in Documents
    /\ Examples \subseteq Documents \ {Default}
    /\ Examples # {}
    /\ Linkable \subseteq Documents
    /\ None \notin Documents
    /\ Broken \notin Documents
    /\ None # Broken
    /\ None \notin [document : Documents, link : BOOLEAN]

ASSUME EditsAssumption == MaxEdits \in Nat

VARIABLES
    document,  \* the editor's document; once the page is gone, as it was left
    session,   \* the playground's own account of the autosave
    unsaved,   \* the slot the page's handlers write from
    storage,   \* the autosave, and whether the last write to it was refused
    address,   \* the scene the address carries
    page,      \* "unopened", "shown", "hidden", "left" or "crashed"
    answer,    \* what the page was told at a stop: "none", "saved", "unsaved"
    edits      \* how many edits were made

vars == <<document, session, unsaved, storage, address, page, answer, edits>>

Sessions == [observed : Documents, due : BOOLEAN, failure : BOOLEAN, linked : BOOLEAN]

Slots == {None} \cup [document : Documents, link : BOOLEAN]

TypeOK ==
    /\ document \in Documents
    /\ session \in Sessions
    /\ unsaved \in Slots
    /\ storage \in [kept : Documents \cup {None, Broken}, refused : BOOLEAN]
    /\ address \in Documents \cup {None, Broken}
    /\ page \in {"unopened", "shown", "hidden", "left", "crashed"}
    /\ answer \in {"none", "saved", "unsaved"}
    /\ edits \in 0 .. MaxEdits

Running == page \in {"shown", "hidden"}

-----------------------------------------------------------------------------
(* What a launch opens: the link first, then the autosave, then an example. *)

Opens ==
    IF address \in Documents THEN {address}
    ELSE IF storage.kept \in Documents THEN {storage.kept}
    ELSE Examples

Reopens(d) ==
    \/ address = d
    \/ address \notin Documents /\ storage.kept = d

Init ==
    /\ document = Default
    /\ session = [observed |-> Default, due |-> FALSE, failure |-> FALSE, linked |-> FALSE]
    /\ unsaved = None
    /\ storage \in [kept : Documents \cup {None, Broken}, refused : {FALSE}]
    /\ address \in Documents \cup {None, Broken}
    /\ page = "unopened"
    /\ answer = "none"
    /\ edits = 0

\* Mutant of Observe: the slot never learns that the address follows.
ObserveUnlinked(d, s) ==
    /\ session' = [s EXCEPT !.observed = d, !.due = TRUE]
    /\ unsaved' = [document |-> d, link |-> FALSE]

\* The first half of autosave(): the document d is not the one last observed.
Observe(d, s) ==
    /\ session' = [s EXCEPT !.observed = d, !.due = TRUE]
    /\ unsaved' = [document |-> d, link |-> s.linked]

\* The first frame of a page: the startup scene opened and then observed.
\* A link that did not open is still in the address, and counts as one.
Launch(d) ==
    LET fresh == [observed |-> Default, due |-> FALSE,
                  failure |-> FALSE, linked |-> address # None]
    IN  /\ ~Running
        /\ d \in Opens
        /\ document' = d
        /\ \/ d # Default /\ Observe(d, fresh)
           \/ d = Default /\ session' = fresh /\ unsaved' = None
        /\ page' = "shown"
        /\ answer' = "none"
        /\ storage' = [storage EXCEPT !.refused = FALSE]
        /\ UNCHANGED <<address, edits>>

-----------------------------------------------------------------------------
(* A frame: it moves the document, copies a link, or finds the debounce     *)
(* over.  A frame that edits does not write: its edit starts the debounce   *)
(* anew.                                                                    *)

Edit(d) ==
    /\ page = "shown"
    /\ edits < MaxEdits
    /\ d # document
    /\ document' = d
    /\ Observe(d, session)
    /\ edits' = edits + 1
    /\ UNCHANGED <<storage, address, page, answer>>

CopyLink ==
    /\ page = "shown"
    /\ document \in Linkable
    /\ address' = document
    /\ session' = [session EXCEPT !.linked = TRUE]
    /\ UNCHANGED <<document, unsaved, storage, page, answer, edits>>

\* The store takes the document or refuses it, and keeps what it had.
Stores(d, written) ==
    storage' = [kept    |-> IF written THEN d ELSE storage.kept,
                refused |-> ~written]

\* Mutant of WriteAutosave: the link is left where it was.
WriteAutosaveOnly(written) ==
    /\ unsaved' = None
    /\ Stores(document, written)
    /\ session' = [observed |-> document,
                   due      |-> FALSE,
                   failure  |-> ~written,
                   linked   |-> session.linked]
    /\ UNCHANGED address

\* Mutant of WriteAutosave: a refused write is not told.
WriteAutosaveUntold(written) ==
    /\ unsaved' = None
    /\ Stores(document, written)
    /\ session' = [observed |-> document,
                   due      |-> FALSE,
                   failure  |-> FALSE,
                   linked   |-> session.linked /\ document \in Linkable]
    /\ address' = IF ~session.linked THEN address
                  ELSE IF document \in Linkable THEN document ELSE None

WriteAutosave(written) ==
    /\ unsaved' = None
    /\ Stores(document, written)
    /\ session' = [observed |-> document,
                   due      |-> FALSE,
                   failure  |-> ~written,
                   linked   |-> session.linked /\ document \in Linkable]
    /\ address' = IF ~session.linked THEN address
                  ELSE IF document \in Linkable THEN document ELSE None

DebounceOver(written) ==
    /\ page = "shown"
    /\ session.due
    /\ WriteAutosave(written)
    /\ UNCHANGED <<document, page, answer, edits>>

-----------------------------------------------------------------------------
(* What does not wait for the debounce.                                     *)

\* Mutant of Pending: an edit the debounce holds was observed, and is not
\* taken for one to write.
PendingUnobserved == document # session.observed \/ session.failure

Pending == document # session.observed \/ session.due \/ session.failure

AutosaveNow(written) ==
    \/ Pending /\ WriteAutosave(written)
    \/ ~Pending /\ UNCHANGED <<session, unsaved, storage, address>>

\* Rendering stopped: written at once, and the page told whether it is saved.
\* Told once a page; the main world keeps running.
Announce(written) ==
    /\ page = "shown"
    /\ answer = "none"
    /\ AutosaveNow(written)
    /\ answer' = IF session'.failure THEN "unsaved" ELSE "saved"
    /\ UNCHANGED <<document, page, edits>>

\* A close asked for, or an exit: written at the end of the last frame.
Close(written) ==
    /\ page = "shown"
    /\ AutosaveNow(written)
    /\ page' = "left"
    /\ UNCHANGED <<document, answer, edits>>

-----------------------------------------------------------------------------
(* What is written where no frame is left.                                  *)

\* Mutant of FlushUnsaved: the link stays behind the autosave.
FlushUnsavedOnly(written) ==
    \/ unsaved = None /\ UNCHANGED <<unsaved, storage, address>>
    \/ /\ unsaved # None
       /\ unsaved' = None
       /\ Stores(unsaved.document, written)
       /\ UNCHANGED address

\* The slot is taken; the link follows where the scene encodes.  What fails
\* here fails silently, and the session does not hear of it.
FlushUnsaved(written) ==
    \/ unsaved = None /\ UNCHANGED <<unsaved, storage, address>>
    \/ /\ unsaved # None
       /\ unsaved' = None
       /\ Stores(unsaved.document, written)
       /\ address' = IF unsaved.link /\ unsaved.document \in Linkable
                     THEN unsaved.document ELSE address

Hide(written) ==
    /\ page = "shown"
    /\ FlushUnsaved(written)
    /\ page' = "hidden"
    /\ UNCHANGED <<document, session, answer, edits>>

Show ==
    /\ page = "hidden"
    /\ page' = "shown"
    /\ UNCHANGED <<document, session, unsaved, storage, address, answer, edits>>

\* A reload, a closed tab, a quit.
Leave(written) ==
    /\ Running
    /\ FlushUnsaved(written)
    /\ page' = "left"
    /\ UNCHANGED <<document, session, answer, edits>>

\* No handler runs.
Crash ==
    /\ Running
    /\ page' = "crashed"
    /\ UNCHANGED <<document, session, unsaved, storage, address, answer, edits>>

-----------------------------------------------------------------------------

Next ==
    \/ \E d \in Documents : Launch(d) \/ Edit(d)
    \/ CopyLink
    \/ Show
    \/ Crash
    \/ \E written \in BOOLEAN :
           \/ DebounceOver(written)
           \/ Announce(written)
           \/ Close(written)
           \/ Hide(written)
           \/ Leave(written)

\* A shown page keeps running frames, and each one reads the clock.
Fairness == WF_vars(\E written \in BOOLEAN : DebounceOver(written))

Spec == Init /\ [][Next]_vars

FairSpec == Spec /\ Fairness

-----------------------------------------------------------------------------
(* Safety.                                                                  *)

\* A session with nothing due and no failure told is one a reload brings back:
\* what launch would open is the document as it stands, the link in the
\* address and the autosave taken together (session.rs:403-474).
QuietMeansKept ==
    Running /\ ~session.due /\ ~session.failure => Reopens(document)

Away == page \in {"hidden", "left"}

LinkCarries == session.linked => document \in Linkable

\* A page that was hidden, left or closed at any moment, inside the debounce
\* too, comes back as it was left, if the store took the last write and the
\* link can still carry the scene (session.rs:39-53, 55-67, 81-107).
AwayMeansKept == Away /\ ~storage.refused /\ LinkCarries => Reopens(document)

\* The same with nothing said of the link's size: "a reload opens the link
\* ahead of the autosave, and a link left behind would drop every edit since"
\* (session.rs:463-465), so no link may be left behind.
NoLinkLeftBehind == Away /\ ~storage.refused => Reopens(document)

\* The words "The document is saved" at a stop of rendering are said only
\* where a reload opens the document as it stands then (stopped.rs:60-75).
StopSaysSaved ==
    [][answer # "saved" /\ answer' = "saved" => Reopens(document)']_vars

-----------------------------------------------------------------------------
(* The inductive invariant: what the slot, the session, the store and the   *)
(* address know of each other while the page runs.                          *)

\* The slot holds the document as it stands, and only while a write is due.
SlotHoldsTheEdit ==
    unsaved # None => session.due /\ unsaved.document = document

\* The session knows whether the address carries a link.  The slot learnt it
\* at the edit: a link copied since is of this very document.
LinkIsKnown ==
    /\ session.linked <=> address # None
    /\ unsaved # None =>
           IF unsaved.link THEN session.linked
           ELSE session.linked => address = document

\* A write that is due and no longer in the slot was made as the page hid.
FlushedMeansKept ==
    session.due /\ unsaved = None /\ ~storage.refused /\ LinkCarries
        => Reopens(document)

RunningInvariant ==
    /\ session.observed = document
    /\ SlotHoldsTheEdit
    /\ LinkIsKnown
    /\ FlushedMeansKept
    /\ ~session.due /\ session.failure => storage.refused
    /\ ~session.due /\ ~session.failure => Reopens(document)

\* The document, its slot, the store and the address agree in every state a
\* session can be in (session.rs:32-67, 403-489).
AutosaveInvariant ==
    /\ TypeOK
    /\ Running => RunningInvariant
    /\ page = "hidden" => unsaved = None
    /\ page = "left" /\ ~storage.refused /\ LinkCarries => Reopens(document)

-----------------------------------------------------------------------------
(* Liveness.                                                                *)

\* A session left open ends up kept, or with its failure told: the debounce
\* is not forgotten, whatever the edits, hides and returns before.
LeftOpenEndsKept ==
    <>[](page = "shown") => <>[](session.failure \/ Reopens(document))

=============================================================================
