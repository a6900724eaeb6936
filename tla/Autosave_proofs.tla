---------------------------- MODULE Autosave_proofs ----------------------------
(***************************************************************************)
(* That AutosaveInvariant holds of every session, for any documents and    *)
(* any number of edits, and what follows from it.                          *)
(***************************************************************************)
EXTENDS Autosave, TLAPS

\* A session starts with no page, and so with nothing to agree on.
LEMMA InitAgrees == Init => AutosaveInvariant
<1> SUFFICES ASSUME Init PROVE AutosaveInvariant
  OBVIOUS
<1>1. session \in Sessions /\ unsaved \in Slots
  BY DocumentsAssumption DEF Init, Sessions, Slots
<1>2. storage \in [kept : Documents \cup {None, Broken}, refused : BOOLEAN]
  BY DEF Init
<1>3. edits \in 0 .. MaxEdits
  BY EditsAssumption DEF Init
<1>4. TypeOK
  BY <1>1, <1>2, <1>3, DocumentsAssumption DEF Init, TypeOK
<1>5. ~Running /\ page # "left" /\ page # "hidden"
  BY DEF Init, Running
<1> QED
  BY <1>4, <1>5 DEF AutosaveInvariant

\* A launch opens what it restores, and nothing else opens in its place.
LEMMA LaunchAgrees ==
    ASSUME TypeOK, NEW d \in Documents, Launch(d)
    PROVE  AutosaveInvariant'
<1> USE DocumentsAssumption
<1>1. d \in Opens /\ document' = d /\ page' = "shown"
      /\ address' = address /\ storage'.kept = storage.kept
      /\ storage'.refused = FALSE /\ answer' = "none" /\ edits' = edits
  BY DEF Launch, TypeOK
<1>2. storage' \in [kept : Documents \cup {None, Broken}, refused : BOOLEAN]
  BY DEF Launch, TypeOK
<1>3. CASE d # Default
  <2>1. session' = [observed |-> d, due |-> TRUE, failure |-> FALSE, linked |-> address # None]
        /\ unsaved' = [document |-> d, link |-> address # None]
    BY <1>3 DEF Launch, Observe
  <2>2. unsaved' # None /\ unsaved' \in Slots /\ session' \in Sessions
    <3>1. (address # None) \in BOOLEAN
      OBVIOUS
    <3>2. unsaved' \in [document : Documents, link : BOOLEAN]
      BY <2>1, <3>1, Zenon
    <3>3. session' \in Sessions
      BY <2>1, <3>1, Zenon DEF Sessions
    <3> QED
      BY <3>2, <3>3 DEF Slots
  <2>3. TypeOK'
    BY <1>1, <1>2, <2>2 DEF TypeOK
  <2>4. RunningInvariant'
    BY <1>1, <2>1, <2>2
    DEF RunningInvariant, SlotHoldsTheEdit, LinkIsKnown, FlushedMeansKept
  <2> QED
    BY <1>1, <2>3, <2>4 DEF AutosaveInvariant
<1>4. CASE d = Default
  <2>1. session' = [observed |-> d, due |-> FALSE, failure |-> FALSE, linked |-> address # None]
        /\ unsaved' = None
    BY <1>4 DEF Launch
  <2>2. Reopens(document)'
    BY <1>1, <1>4 DEF Opens, Reopens, TypeOK
  <2> QED
    BY <1>1, <1>2, <2>1, <2>2
    DEF AutosaveInvariant, RunningInvariant, TypeOK, Sessions, Slots, Running,
        SlotHoldsTheEdit, LinkIsKnown, FlushedMeansKept
<1> QED
  BY <1>3, <1>4

\* A write leaves nothing due, and keeps the document unless it is told failed.
LEMMA WriteAgrees ==
    ASSUME AutosaveInvariant, Running, NEW written \in BOOLEAN,
           WriteAutosave(written), document' = document
    PROVE  /\ RunningInvariant'
           /\ session' \in Sessions
           /\ unsaved' \in Slots
           /\ storage' \in [kept : Documents \cup {None, Broken}, refused : BOOLEAN]
           /\ address' \in Documents \cup {None, Broken}
           /\ ~session'.failure => Reopens(document)'
           /\ ~storage'.refused => Reopens(document)'
<1> USE DocumentsAssumption
<1>1. session' = [observed |-> document, due |-> FALSE, failure |-> ~written,
                  linked |-> session.linked /\ document \in Linkable]
      /\ unsaved' = None
      /\ storage' = [kept |-> IF written THEN document ELSE storage.kept, refused |-> ~written]
  BY DEF WriteAutosave, Stores
<1>2. TypeOK /\ (session.linked <=> address # None)
  BY DEF AutosaveInvariant, RunningInvariant, LinkIsKnown
<1>3. address' = IF session'.linked THEN document ELSE None
  <2>1. session'.linked <=> session.linked /\ document \in Linkable
    BY <1>1
  <2>2. address' = IF ~session.linked THEN address
                   ELSE IF document \in Linkable THEN document ELSE None
    BY DEF WriteAutosave
  <2> QED
    BY <1>2, <2>1, <2>2
<1>4. /\ session' \in Sessions
      /\ unsaved' \in Slots
      /\ storage' \in [kept : Documents \cup {None, Broken}, refused : BOOLEAN]
      /\ address' \in Documents \cup {None, Broken}
  BY <1>1, <1>2, <1>3 DEF TypeOK, Sessions, Slots
<1>5. written => Reopens(document)'
  BY <1>1, <1>2, <1>3 DEF Reopens, TypeOK
<1>6. RunningInvariant'
  BY <1>1, <1>2, <1>3, <1>5
  DEF RunningInvariant, SlotHoldsTheEdit, LinkIsKnown, FlushedMeansKept, TypeOK
<1> QED
  BY <1>1, <1>4, <1>5, <1>6

\* Writing now leaves the session kept, or its failure told.
LEMMA AutosaveNowAgrees ==
    ASSUME AutosaveInvariant, Running, NEW written \in BOOLEAN,
           AutosaveNow(written), document' = document
    PROVE  /\ RunningInvariant'
           /\ session' \in Sessions
           /\ unsaved' \in Slots
           /\ storage' \in [kept : Documents \cup {None, Broken}, refused : BOOLEAN]
           /\ address' \in Documents \cup {None, Broken}
           /\ ~session'.failure => Reopens(document)'
           /\ ~storage'.refused => Reopens(document)'
<1>1. CASE Pending /\ WriteAutosave(written)
  BY <1>1, WriteAgrees
<1>2. CASE ~Pending /\ UNCHANGED <<session, unsaved, storage, address>>
  <2>1. TypeOK /\ RunningInvariant /\ Reopens(document) /\ ~session.failure
    BY <1>2 DEF AutosaveInvariant, RunningInvariant, Pending
  <2> QED
    BY <1>2, <2>1
    DEF RunningInvariant, SlotHoldsTheEdit, LinkIsKnown, FlushedMeansKept,
        LinkCarries, Reopens, TypeOK
<1> QED
  BY <1>1, <1>2 DEF AutosaveNow

\* A flush takes the slot, and keeps what it held where link and store allow.
LEMMA FlushAgrees ==
    ASSUME AutosaveInvariant, Running, NEW written \in BOOLEAN,
           FlushUnsaved(written), document' = document, session' = session
    PROVE  /\ RunningInvariant'
           /\ unsaved' \in Slots
           /\ storage' \in [kept : Documents \cup {None, Broken}, refused : BOOLEAN]
           /\ address' \in Documents \cup {None, Broken}
           /\ ~storage'.refused /\ LinkCarries' => Reopens(document)'
<1> USE DocumentsAssumption
<1>1. TypeOK /\ RunningInvariant
  BY DEF AutosaveInvariant
<1>2. CASE unsaved = None /\ UNCHANGED <<unsaved, storage, address>>
  <2>1. RunningInvariant'
    BY <1>1, <1>2
    DEF RunningInvariant, SlotHoldsTheEdit, LinkIsKnown, FlushedMeansKept,
        LinkCarries, Reopens
  <2>2. ~storage'.refused /\ LinkCarries' => Reopens(document)'
    BY <1>1, <1>2 DEF RunningInvariant, FlushedMeansKept, LinkCarries, Reopens, TypeOK, Sessions
  <2> QED
    BY <1>1, <1>2, <2>1, <2>2 DEF TypeOK
<1>3. CASE unsaved # None
  <2>1. unsaved \in [document : Documents, link : BOOLEAN] /\ unsaved.document = document
        /\ session.due /\ session.observed = document
    BY <1>1, <1>3 DEF TypeOK, Slots, RunningInvariant, SlotHoldsTheEdit
  <2>2. /\ unsaved' = None
        /\ storage' = [kept |-> IF written THEN document ELSE storage.kept, refused |-> ~written]
        /\ address' = IF unsaved.link /\ document \in Linkable THEN document ELSE address
    BY <1>3, <2>1 DEF FlushUnsaved, Stores
  <2>3. session.linked <=> address' # None
    BY <1>1, <1>3, <2>1, <2>2 DEF RunningInvariant, LinkIsKnown
  <2>4. ~storage'.refused /\ LinkCarries' => Reopens(document)'
    <3> SUFFICES ASSUME written, session.linked => document \in Linkable
                 PROVE  Reopens(document)'
      BY <2>2 DEF LinkCarries
    <3>1. storage'.kept = document
      BY <2>2
    <3>2. CASE session.linked
      BY <1>1, <1>3, <2>1, <2>2, <3>2 DEF RunningInvariant, LinkIsKnown, Reopens
    <3>3. CASE ~session.linked
      BY <1>1, <2>3, <3>1, <3>3 DEF Reopens
    <3> QED
      BY <3>2, <3>3
  <2>5. RunningInvariant'
    BY <2>1, <2>2, <2>3, <2>4
    DEF RunningInvariant, SlotHoldsTheEdit, LinkIsKnown, FlushedMeansKept
  <2> QED
    BY <1>1, <2>1, <2>2, <2>4, <2>5 DEF TypeOK, Slots
<1> QED
  BY <1>2, <1>3 DEF FlushUnsaved

\* Every step of a session keeps the agreement.
LEMMA NextAgrees == AutosaveInvariant /\ [Next]_vars => AutosaveInvariant'
<1> SUFFICES ASSUME AutosaveInvariant, [Next]_vars
             PROVE  AutosaveInvariant'
  OBVIOUS
<1> USE DocumentsAssumption
<1>0. TypeOK
  BY DEF AutosaveInvariant
<1>1. ASSUME NEW d \in Documents, Launch(d) PROVE AutosaveInvariant'
  BY <1>0, <1>1, LaunchAgrees
<1>2. ASSUME NEW d \in Documents, Edit(d) PROVE AutosaveInvariant'
  <2>1. session' = [session EXCEPT !.observed = d, !.due = TRUE]
        /\ unsaved' = [document |-> d, link |-> session.linked]
    BY <1>2 DEF Edit, Observe
  <2>2. session.linked <=> address # None
    BY <1>2 DEF AutosaveInvariant, RunningInvariant, Running, LinkIsKnown, Edit
  <2>3. edits' \in 0 .. MaxEdits
    BY <1>0, <1>2, EditsAssumption DEF Edit, TypeOK
  <2>4. TypeOK'
    BY <1>0, <1>2, <2>1, <2>3 DEF Edit, TypeOK, Sessions, Slots
  <2>5. unsaved' # None /\ document' = d /\ address' = address
        /\ session'.observed = d /\ session'.due /\ session'.linked = session.linked
    BY <1>0, <1>2, <2>1 DEF Edit, TypeOK, Sessions
  <2>6. RunningInvariant'
    BY <2>1, <2>2, <2>5
    DEF RunningInvariant, SlotHoldsTheEdit, LinkIsKnown, FlushedMeansKept
  <2> QED
    BY <1>2, <2>4, <2>6 DEF AutosaveInvariant, Edit
<1>3. ASSUME CopyLink PROVE AutosaveInvariant'
  <2>1. RunningInvariant
    BY <1>3 DEF AutosaveInvariant, Running, CopyLink
  <2>2. TypeOK'
    BY <1>0, <1>3 DEF CopyLink, TypeOK, Sessions
  <2>3. Reopens(document)'
    BY <1>3 DEF CopyLink, Reopens
  <2>4. session' = [session EXCEPT !.linked = TRUE] /\ address' = document /\ address' # None
    BY <1>0, <1>3 DEF CopyLink, TypeOK
  <2>5. RunningInvariant'
    BY <1>0, <1>3, <2>1, <2>3, <2>4
    DEF CopyLink, RunningInvariant, SlotHoldsTheEdit, LinkIsKnown, FlushedMeansKept,
        TypeOK, Sessions
  <2> QED
    BY <1>3, <2>2, <2>5 DEF AutosaveInvariant, CopyLink
<1>4. ASSUME Show PROVE AutosaveInvariant'
  BY <1>0, <1>4
  DEF Show, AutosaveInvariant, Running, TypeOK, RunningInvariant, SlotHoldsTheEdit,
      LinkIsKnown, FlushedMeansKept, LinkCarries, Reopens
<1>5. ASSUME Crash PROVE AutosaveInvariant'
  BY <1>0, <1>5 DEF Crash, AutosaveInvariant, Running, TypeOK
<1>6. ASSUME NEW written \in BOOLEAN, DebounceOver(written) PROVE AutosaveInvariant'
  BY <1>0, <1>6, WriteAgrees DEF DebounceOver, Running, AutosaveInvariant, TypeOK
<1>7. ASSUME NEW written \in BOOLEAN, Announce(written) PROVE AutosaveInvariant'
  <2>1. answer' \in {"none", "saved", "unsaved"}
    BY <1>7 DEF Announce
  <2> QED
    BY <1>0, <1>7, <2>1, AutosaveNowAgrees DEF Announce, Running, AutosaveInvariant, TypeOK
<1>8. ASSUME NEW written \in BOOLEAN, Close(written) PROVE AutosaveInvariant'
  BY <1>0, <1>8, AutosaveNowAgrees DEF Close, Running, AutosaveInvariant, TypeOK
<1>9. ASSUME NEW written \in BOOLEAN, Hide(written) PROVE AutosaveInvariant'
  <2>1. Running /\ FlushUnsaved(written) /\ document' = document /\ session' = session
        /\ page' = "hidden" /\ answer' = answer /\ edits' = edits
    BY <1>9 DEF Hide, Running
  <2>2. TypeOK'
    BY <1>0, <2>1, FlushAgrees DEF TypeOK
  <2>3. RunningInvariant'
    BY <2>1, FlushAgrees
  <2>4. unsaved' = None
    BY <2>1 DEF FlushUnsaved
  <2> QED
    BY <2>1, <2>2, <2>3, <2>4 DEF AutosaveInvariant
<1>10. ASSUME NEW written \in BOOLEAN, Leave(written) PROVE AutosaveInvariant'
  <2>1. Running /\ FlushUnsaved(written) /\ document' = document /\ session' = session
        /\ page' = "left" /\ answer' = answer /\ edits' = edits
    BY <1>10 DEF Leave
  <2>2. TypeOK'
    BY <1>0, <2>1, FlushAgrees DEF TypeOK
  <2>3. ~storage'.refused /\ LinkCarries' => Reopens(document)'
    BY <2>1, FlushAgrees
  <2> QED
    BY <2>1, <2>2, <2>3 DEF AutosaveInvariant, Running
<1>11. CASE UNCHANGED vars
  BY <1>0, <1>11
  DEF vars, AutosaveInvariant, Running, TypeOK, RunningInvariant, SlotHoldsTheEdit,
      LinkIsKnown, FlushedMeansKept, LinkCarries, Reopens
<1> QED
  BY <1>1, <1>2, <1>3, <1>4, <1>5, <1>6, <1>7, <1>8, <1>9, <1>10, <1>11 DEF Next

\* The document, its slot, the store and the address agree in every state of
\* every session (session.rs:32-67, 403-489).
THEOREM SessionsAgree == Spec => []AutosaveInvariant
<1> QED
  BY InitAgrees, NextAgrees, PTL DEF Spec

\* With nothing due and no failure told, a reload brings the session back
\* (session.rs:403-474).
THEOREM QuietSessionsAreKept == Spec => []QuietMeansKept
<1>1. AutosaveInvariant => QuietMeansKept
  BY DEF AutosaveInvariant, RunningInvariant, QuietMeansKept
<1> QED
  BY <1>1, SessionsAgree, PTL

\* A page hidden, left or closed comes back as it was left, unless the store
\* refused it or the link outgrew its size (session.rs:39-107).
THEOREM PagesLeftAreKept == Spec => []AwayMeansKept
<1>1. AutosaveInvariant => AwayMeansKept
  <2> SUFFICES ASSUME AutosaveInvariant, Away, ~storage.refused, LinkCarries
               PROVE  Reopens(document)
    BY DEF AwayMeansKept
  <2>1. CASE page = "left"
    BY <2>1 DEF AutosaveInvariant
  <2>2. CASE page = "hidden"
    BY <2>2 DEF AutosaveInvariant, Running, RunningInvariant, FlushedMeansKept
  <2> QED
    BY <2>1, <2>2 DEF Away
<1> QED
  BY <1>1, SessionsAgree, PTL

\* A stop says saved only where a reload opens the document (stopped.rs:60-75).
THEOREM StopsTellTheTruth == Spec => StopSaysSaved
<1>1. AutosaveInvariant /\ [Next]_vars
        => [answer # "saved" /\ answer' = "saved" => Reopens(document)']_vars
  <2> SUFFICES ASSUME AutosaveInvariant, Next, answer # "saved", answer' = "saved"
               PROVE  Reopens(document)'
    OBVIOUS
  <2>1. PICK written \in BOOLEAN : Announce(written)
    BY DEF Next, Launch, Edit, CopyLink, Show, Crash, DebounceOver, Close, Hide, Leave
  <2> QED
    BY <2>1, AutosaveNowAgrees DEF Announce, Running
<1> QED
  BY <1>1, SessionsAgree, PTL DEF Spec, StopSaysSaved

=============================================================================
