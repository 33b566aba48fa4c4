-------------------------- MODULE AgentReviewProofs --------------------------
(***************************************************************************)
(* Proofs about AgentReview, for any set of files and any number of        *)
(* revisions.  NoSilentDrift is inductive once the types are known: each   *)
(* step that changes a file leaves an event for its buffer, and each step  *)
(* that consumes one either loads the file or flags the conflict.  Reverts *)
(* need one fact more: a transaction holds the text its first edit told of.*)
(*                                                                         *)
(* The last theorem is about what stands beside it in MCBuffers: what      *)
(* LspDocSyncProofs proves of the server's texts.                          *)
(***************************************************************************)
EXTENDS AgentReview, ServerDocs, TLAPS

\* The transaction of a file keeps the text from before the first edit.
FirstTextKept == \A f \in DOMAIN tx : tx[f] = origin[f]

Inv == TypeOK /\ NoSilentDrift /\ FirstTextKept

USE BoundsAssumption

LEMMA InitInv == Init => Inv
  BY DEF Init, Inv, TypeOK, NoSilentDrift, FirstTextKept, Texts, None, Request

-----------------------------------------------------------------------------
(* The two ways a buffer takes over a text.                                *)

\* The loaded files show the given texts, unmodified; the others are as before.
Loaded(fs, content) ==
  /\ text' \in [Files -> Texts] /\ baseline' \in [Files -> Texts]
  /\ modified' \in [Files -> BOOLEAN] /\ collision' \in [Files -> BOOLEAN]
  /\ \A f \in Files : f \in fs => /\ text'[f] = content[f] /\ baseline'[f] = content[f]
                                 /\ ~modified'[f] /\ ~collision'[f]
  /\ \A f \in Files : f \notin fs =>
        /\ text'[f] = text[f] /\ baseline'[f] = baseline[f]
        /\ modified'[f] = modified[f] /\ collision'[f] = collision[f]

LEMMA LoadTypes ==
  ASSUME TypeOK, NEW fs \in SUBSET Files, NEW content \in [Files -> Texts], Load(fs, content)
  PROVE  Loaded(fs, content)
  BY DEF Load, TypeOK, Loaded

-----------------------------------------------------------------------------
(* Each action preserves the invariant.                                    *)

LEMMA OpenInv == ASSUME Inv, NEW f \in Files, Open(f) PROVE Inv'
  <1>1. TypeOK /\ Load({f}, disk) /\ disk \in [Files -> Texts]
    BY DEF Inv, TypeOK, Open
  <1>5. Loaded({f}, disk)
    BY <1>1, LoadTypes
  <1>2. TypeOK'
    BY <1>1, <1>5 DEF TypeOK, Open, UserOp, agentVars, Loaded
  <1>3. NoSilentDrift'
    BY <1>1, <1>5 DEF Inv, TypeOK, NoSilentDrift, Open, Loaded
  <1>4. FirstTextKept'
    BY DEF Inv, FirstTextKept, Open, agentVars
  <1> QED BY <1>2, <1>3, <1>4 DEF Inv

LEMMA CloseInv == ASSUME Inv, NEW f \in Files, Close(f) PROVE Inv'
  <1>1. TypeOK'
    BY DEF Inv, TypeOK, Close, UserOp, agentVars, Texts
  <1>2. NoSilentDrift' /\ FirstTextKept'
    BY DEF Inv, TypeOK, NoSilentDrift, FirstTextKept, Close, agentVars
  <1> QED BY <1>1, <1>2 DEF Inv

LEMMA EditInv == ASSUME Inv, NEW f \in Files, Edit(f) \/ UndoAll(f) PROVE Inv'
  <1>1. CASE Edit(f)
    <2>1. TypeOK'
      BY <1>1 DEF Inv, TypeOK, Edit, NewRevision, agentVars, Texts
    <2>2. NoSilentDrift' /\ FirstTextKept'
      BY <1>1 DEF Inv, TypeOK, NoSilentDrift, FirstTextKept, Edit, agentVars
    <2> QED BY <2>1, <2>2 DEF Inv
  <1>2. CASE UndoAll(f)
    <2>1. TypeOK'
      BY <1>2 DEF Inv, TypeOK, UndoAll, UserOp, agentVars
    <2>2. NoSilentDrift' /\ FirstTextKept'
      BY <1>2 DEF Inv, TypeOK, NoSilentDrift, FirstTextKept, UndoAll, agentVars
    <2> QED BY <2>1, <2>2 DEF Inv
  <1> QED BY <1>1, <1>2

LEMMA SaveInv == ASSUME Inv, NEW f \in Files, Save(f) PROVE Inv'
  <1>1. TypeOK'
    BY DEF Inv, TypeOK, Save, UserOp, agentVars
  <1>2. NoSilentDrift' /\ FirstTextKept'
    BY DEF Inv, TypeOK, NoSilentDrift, FirstTextKept, Save, agentVars
  <1> QED BY <1>1, <1>2 DEF Inv

LEMMA MonitorInv == ASSUME Inv, NEW f \in Files, MonitorChanged(f) PROVE Inv'
  <1>1. CASE modified[f]
    <2>1. TypeOK'
      BY <1>1 DEF Inv, TypeOK, MonitorChanged, agentVars, historyVars
    <2>2. NoSilentDrift' /\ FirstTextKept'
      BY <1>1 DEF Inv, TypeOK, NoSilentDrift, FirstTextKept, MonitorChanged, agentVars,
                  historyVars
    <2> QED BY <2>1, <2>2 DEF Inv
  <1>2. CASE ~modified[f]
    <2>1. TypeOK /\ Load({f}, disk) /\ disk \in [Files -> Texts]
      BY <1>2 DEF Inv, TypeOK, MonitorChanged
    <2>2. snapshot' \in [Files -> Texts \cup {None}]
          /\ \A g \in Files : g # f => snapshot'[g] = snapshot[g]
      BY <1>2 DEF Inv, TypeOK, MonitorChanged
    <2>5. Loaded({f}, disk)
      BY <2>1, LoadTypes
    <2>3. TypeOK'
      BY <1>2, <2>1, <2>2, <2>5 DEF TypeOK, MonitorChanged, agentVars, historyVars, Loaded
    <2>4. NoSilentDrift' /\ FirstTextKept'
      BY <1>2, <2>1, <2>5 DEF Inv, TypeOK, NoSilentDrift, FirstTextKept, MonitorChanged,
                              agentVars, historyVars, Loaded
    <2> QED BY <2>3, <2>4 DEF Inv
  <1> QED BY <1>1, <1>2

LEMMA WritesInv == ASSUME Inv, NEW f \in Files, OtherWrites(f) \/ AgentWrites(f) PROVE Inv'
  <1>0. revs' \in Texts
    BY DEF Inv, TypeOK, OtherWrites, AgentWrites, NewRevision, Texts
  <1>1. /\ revs' \in Texts /\ disk' = [disk EXCEPT ![f] = revs']
        /\ events' = events \cup Reported({f})
        /\ UNCHANGED <<bufferVars, tx, origin>>
    BY <1>0 DEF OtherWrites, AgentWrites, agentVars
  <1>2. requests' \subseteq Request /\ ops' = ops
    BY DEF Inv, TypeOK, OtherWrites, AgentWrites, agentVars, Request
  <1>3. TypeOK'
    BY <1>1, <1>2 DEF Inv, TypeOK, bufferVars, Reported
  <1>4. NoSilentDrift' /\ FirstTextKept'
    BY <1>1 DEF Inv, TypeOK, NoSilentDrift, FirstTextKept, bufferVars, Reported
  <1> QED BY <1>3, <1>4 DEF Inv

LEMMA DispatchInv == ASSUME Inv, NEW r \in requests, Dispatch(r) PROVE Inv'
  <1> DEFINE f == r.file
             old == IF r.old = None THEN disk[f] ELSE r.old
  <1>1. f \in Files /\ old \in Texts /\ RecordEdit(f, old)
    BY DEF Inv, TypeOK, Request, Dispatch
  <1>2. TypeOK /\ Reported({f}) \in SUBSET Files /\ disk \in [Files -> Texts]
        /\ Load(Reported({f}), disk)
    BY <1>1 DEF Inv, TypeOK, RecordEdit, ReloadForReview, Reported
  <1>3. DOMAIN tx' \subseteq Files /\ tx' \in [DOMAIN tx' -> Texts]
        /\ origin' \in [Files -> Texts \cup {None}]
    BY <1>1 DEF Inv, TypeOK, RecordEdit
  <1>4. FirstTextKept'
    BY <1>1 DEF Inv, TypeOK, RecordEdit, FirstTextKept
  <1>5. snapshot' \in [Files -> Texts \cup {None}]
        /\ \A g \in Files : ~isOpen[g] => snapshot'[g] = snapshot[g]
    BY <1>1 DEF Inv, TypeOK, RecordEdit, ReloadForReview, Reported
  <1>6. UNCHANGED <<isOpen, disk, events, revs, ops>> /\ requests' \subseteq requests
    BY <1>1 DEF RecordEdit, ReloadForReview, Dispatch
  <1>9. Loaded(Reported({f}), disk)
    BY <1>2, LoadTypes
  <1>7. TypeOK'
    BY <1>2, <1>3, <1>5, <1>6, <1>9 DEF TypeOK, Reported, Loaded
  <1>8. NoSilentDrift'
    BY <1>1, <1>2, <1>6, <1>9 DEF Inv, TypeOK, NoSilentDrift, Reported, Loaded
  <1> QED BY <1>4, <1>7, <1>8 DEF Inv

\* A reload that settles files also forgets their snapshots.
Settled(fs, content) ==
  /\ Loaded(Reported(fs), content)
  /\ snapshot' \in [Files -> Texts \cup {None}] /\ isOpen' = isOpen
  /\ \A f \in Files : ~isOpen[f] => ~modified'[f] /\ ~collision'[f] /\ snapshot'[f] = None

LEMMA SettledInv ==
  ASSUME Inv, NEW fs \in SUBSET Files, NEW content \in [Files -> Texts],
         ReloadSettled(fs, content)
  PROVE  Settled(fs, content)
  <1>1. TypeOK /\ Reported(fs) \in SUBSET Files /\ Load(Reported(fs), content)
    BY DEF Inv, ReloadSettled, Reported
  <1>2. Loaded(Reported(fs), content)
    BY <1>1, LoadTypes
  <1>3. snapshot' \in [Files -> Texts \cup {None}] /\ isOpen' = isOpen
        /\ \A f \in Files : ~isOpen[f] => snapshot'[f] = None
    BY <1>1 DEF TypeOK, ReloadSettled, Reported
  <1>4. \A f \in Files : ~isOpen[f] => ~modified'[f] /\ ~collision'[f]
    BY <1>1, <1>2 DEF TypeOK, Reported, Loaded
  <1> QED BY <1>2, <1>3, <1>4 DEF Settled

LEMMA ReloadRequestInv == ASSUME Inv, NEW f \in Files, ReloadRequest(f) PROVE Inv'
  <1>1. disk \in [Files -> Texts] /\ {f} \in SUBSET Files /\ ReloadSettled({f}, disk)
    BY DEF Inv, TypeOK, ReloadRequest
  <1>4. Settled({f}, disk)
    BY <1>1, SettledInv
  <1>2. TypeOK'
    BY <1>1, <1>4 DEF Inv, TypeOK, ReloadRequest, UserOp, agentVars, Settled, Loaded, Reported
  <1>3. NoSilentDrift' /\ FirstTextKept'
    BY <1>1, <1>4 DEF Inv, TypeOK, NoSilentDrift, FirstTextKept, ReloadRequest, agentVars,
                      Settled, Loaded, Reported
  <1> QED BY <1>2, <1>3 DEF Inv

LEMMA AcceptInv == ASSUME Inv, AcceptAll PROVE Inv'
  <1>1. disk \in [Files -> Texts] /\ DOMAIN tx \in SUBSET Files
        /\ ReloadSettled(DOMAIN tx, disk)
    BY DEF Inv, TypeOK, AcceptAll
  <1>2. DOMAIN tx' = {} /\ tx' \in [DOMAIN tx' -> Texts]
    BY DEF AcceptAll
  <1>5. Settled(DOMAIN tx, disk)
    BY <1>1, SettledInv
  <1>3. TypeOK'
    BY <1>1, <1>2, <1>5 DEF Inv, TypeOK, AcceptAll, UserOp, Settled, Loaded, Reported
  <1>4. NoSilentDrift' /\ FirstTextKept'
    BY <1>1, <1>2, <1>5 DEF Inv, TypeOK, NoSilentDrift, FirstTextKept, AcceptAll, Settled,
                            Loaded, Reported
  <1> QED BY <1>3, <1>4 DEF Inv

LEMMA RejectInv ==
  ASSUME Inv, NEW bad, RejectAll(bad)
  PROVE  Inv' /\ \A f \in DOMAIN tx \ bad :
                   disk'[f] = origin[f] /\ (isOpen[f] => text'[f] = origin[f])
  <1> DEFINE back == [f \in Files |-> IF f \in DOMAIN tx \ bad THEN tx[f] ELSE disk[f]]
  <1>1. back \in [Files -> Texts] /\ DOMAIN tx \in SUBSET Files
    BY DEF Inv, TypeOK
  <1>2. /\ disk' = back /\ ReloadSettled(DOMAIN tx, back)
        /\ events' = events \cup Reported(DOMAIN tx \ bad)
        /\ DOMAIN tx' = {} /\ tx' \in [DOMAIN tx' -> Texts] /\ ops' \in 0 .. MaxOps
        /\ UNCHANGED <<requests, revs, origin>>
    BY DEF RejectAll, UserOp, Inv, TypeOK
  <1>8. Settled(DOMAIN tx, back)
    BY <1>1, <1>2, SettledInv
  <1>3. TypeOK'
    BY <1>1, <1>2, <1>8 DEF Inv, TypeOK, Reported, Settled, Loaded
  <1>5. ASSUME NEW f \in Files, isOpen'[f]
        PROVE  /\ f \notin events' => disk'[f] = baseline'[f] \/ collision'[f]
               /\ ~modified'[f] => text'[f] = baseline'[f]
    <2>1. isOpen[f]
      BY <1>5, <1>8 DEF Settled
    <2>2. CASE f \in Reported(DOMAIN tx)
      BY <1>1, <1>2, <1>8, <2>2 DEF Settled, Loaded
    <2>3. CASE f \notin Reported(DOMAIN tx)
      <3>1. f \notin DOMAIN tx /\ disk'[f] = disk[f]
        BY <1>2, <2>1, <2>3 DEF Reported
      <3> QED BY <1>2, <1>8, <2>1, <2>3, <3>1 DEF Inv, NoSilentDrift, Settled, Loaded
    <2> QED BY <2>2, <2>3
  <1>6. NoSilentDrift' /\ FirstTextKept'
    BY <1>2, <1>5 DEF NoSilentDrift, FirstTextKept
  <1>7. \A f \in DOMAIN tx \ bad : disk'[f] = origin[f] /\ (isOpen[f] => text'[f] = origin[f])
    BY <1>1, <1>2, <1>8 DEF Inv, FirstTextKept, Reported, Settled, Loaded
  <1> QED BY <1>3, <1>6, <1>7 DEF Inv

LEMMA NextInv == ASSUME Inv, [Next]_vars PROVE Inv'
  <1>1. CASE UNCHANGED vars
    BY <1>1 DEF Inv, TypeOK, NoSilentDrift, FirstTextKept, vars, bufferVars, agentVars,
                historyVars
  <1>2. ASSUME NEW r \in requests, RequestTimesOut(r) PROVE Inv'
    BY <1>2 DEF Inv, TypeOK, NoSilentDrift, FirstTextKept, RequestTimesOut, bufferVars,
                historyVars
  <1> QED
    BY <1>1, <1>2, OpenInv, CloseInv, EditInv, SaveInv, MonitorInv, WritesInv, DispatchInv,
       ReloadRequestInv, AcceptInv, RejectInv DEF Next

-----------------------------------------------------------------------------
\* The invariant holds in every reachable state.
THEOREM Invariance == Spec => []Inv
  <1>1. Inv /\ [Next]_vars => Inv'
    BY NextInv
  <1> QED BY InitInv, <1>1, PTL DEF Spec

\* The variables have their types, and nothing is left of a closed buffer.
THEOREM TypeCorrect == Spec => []TypeOK
  <1>1. Inv => TypeOK
    BY DEF Inv
  <1> QED BY <1>1, Invariance, PTL

\* A buffer is behind its file only while an event is due or the conflict is
\* flagged, however the user, agents and other programs write.
THEOREM DriftIsNeverSilent == Spec => []NoSilentDrift
  <1>1. Inv => NoSilentDrift
    BY DEF Inv
  <1> QED BY <1>1, Invariance, PTL

\* REVERT ALL restores the text before the first edit under review.
THEOREM RejectAlwaysRestores == Spec => RejectRestores
  <1>1. ASSUME Inv
        PROVE  [\A bad \in SUBSET Files : RejectAll(bad) =>
                  \A f \in DOMAIN tx \ bad :
                    disk'[f] = origin[f] /\ (isOpen[f] => text'[f] = origin[f])]_vars
    BY <1>1, RejectInv
  <1> QED BY <1>1, Invariance, PTL DEF RejectRestores, Spec

-----------------------------------------------------------------------------
(* The server's side of a buffer (ide_lsp.c), for any number of documents, *)
(* edits and replacements of the server: nothing points at a freed client, *)
(* no message comes that makes no sense to the server, and it has the      *)
(* buffer's text once nothing is on its way, and when it reads a save, a   *)
(* hover or a format request - but for a request to format a document      *)
(* that a server in another's place was not told of yet.                   *)
THEOREM ServerAlwaysKnowsTheText == Server!Spec => []ServerKnowsTheText
  <1>1. Server!Spec => [](/\ Server!TypeOK /\ Server!NoDanglingClient /\ Server!ServerFollows
                          /\ Server!InStep /\ Server!AsksAboutCurrentText)
    BY ServerAssumption, Server!ServerKeepsUp, PTL DEF ServerAssumption
  <1>2. (/\ Server!TypeOK /\ Server!NoDanglingClient /\ Server!ServerFollows
         /\ Server!InStep /\ Server!AsksAboutCurrentText) => ServerKnowsTheText
    BY DEF ServerKnowsTheText
  <1> QED BY <1>1, <1>2, PTL
=============================================================================
