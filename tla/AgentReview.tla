----------------------------- MODULE AgentReview -----------------------------
(***************************************************************************)
(* The editor's buffers and the files they show (src/ide/ide_buffer.c),    *)
(* and the review of what coding agents changed (src/ide/ide_agent_ipc.c). *)
(*                                                                         *)
(* A text is its revision: whoever writes makes a new one.  External: the  *)
(* file system, whose monitor reports a change some time after it was made,*)
(* other programs, and agents, which write a file and then send a `diff`   *)
(* request with the text it had before, each on a connection of its own.   *)
(***************************************************************************)
EXTENDS Integers, FiniteSets

CONSTANTS
  Files,
  MaxRevs,   \* bound on the revisions made
  MaxOps     \* bound on what the user does besides editing

ASSUME BoundsAssumption == MaxRevs \in Nat /\ MaxOps \in Nat

VARIABLES
  \* IdeBuffer, per file
  isOpen, text, modified, baseline, snapshot, collision,
  \* IdeAgentIpc: the transactions under review, and requests on their way
  tx,        \* the files under review, with their old text
  requests,
  \* external
  disk,     \* what the file holds
  events,   \* the files the monitor has yet to report
  \* history
  revs, ops,
  byUser,   \* the revisions the user made
  touched,  \* files another program wrote since they were opened
  origin    \* per file under review, its text before the agent's first edit

bufferVars == <<isOpen, text, modified, baseline, snapshot, collision>>
agentVars == <<tx, requests>>
historyVars == <<revs, ops, byUser, touched, origin>>
vars == <<bufferVars, agentVars, disk, events, historyVars>>

None == -1  \* a NULL text
Texts == 0 .. MaxRevs
Request == [file : Files, old : Texts \cup {None}]

Init ==
  /\ isOpen = [f \in Files |-> FALSE] /\ text = [f \in Files |-> 0]
  /\ modified = [f \in Files |-> FALSE] /\ baseline = [f \in Files |-> 0]
  /\ snapshot = [f \in Files |-> None] /\ collision = [f \in Files |-> FALSE]
  /\ tx = [f \in {} |-> 0] /\ requests = {}
  /\ disk = [f \in Files |-> 0] /\ events = {}
  /\ revs = 0 /\ ops = 0 /\ byUser = {} /\ touched = {} /\ origin = [f \in Files |-> None]

NewRevision == revs < MaxRevs /\ revs' = revs + 1
UserOp == ops < MaxOps /\ ops' = ops + 1
Reported(fs) == {f \in fs : isOpen[f]}

-----------------------------------------------------------------------------
(* The buffer.                                                             *)

\* Mutant.
LoadKeepingBaseline(fs, content) ==
  /\ text' = [f \in Files |-> IF f \in fs THEN content[f] ELSE text[f]]
  /\ modified' = [f \in Files |-> f \notin fs /\ modified[f]]
  /\ collision' = [f \in Files |-> f \notin fs /\ collision[f]]
  /\ UNCHANGED baseline

\* ide_buffer_load_from_disk, when the files hold `content`.
Load(fs, content) ==
  /\ text' = [f \in Files |-> IF f \in fs THEN content[f] ELSE text[f]]
  /\ baseline' = [f \in Files |-> IF f \in fs THEN content[f] ELSE baseline[f]]
  /\ modified' = [f \in Files |-> f \notin fs /\ modified[f]]
  /\ collision' = [f \in Files |-> f \notin fs /\ collision[f]]

Open(f) ==
  /\ ~isOpen[f] /\ UserOp
  /\ isOpen' = [isOpen EXCEPT ![f] = TRUE]
  /\ Load({f}, disk)
  /\ snapshot' = [snapshot EXCEPT ![f] = None]
  /\ touched' = touched \ {f}
  /\ UNCHANGED <<agentVars, disk, events, revs, byUser, origin>>

\* ide_buffer_free.
Close(f) ==
  /\ isOpen[f] /\ UserOp
  /\ isOpen' = [isOpen EXCEPT ![f] = FALSE]
  /\ modified' = [modified EXCEPT ![f] = FALSE]
  /\ collision' = [collision EXCEPT ![f] = FALSE]
  /\ snapshot' = [snapshot EXCEPT ![f] = None]
  /\ text' = [text EXCEPT ![f] = 0] /\ baseline' = [baseline EXCEPT ![f] = 0]
  /\ events' = events \ {f}
  /\ UNCHANGED <<agentVars, disk, revs, byUser, touched, origin>>

Edit(f) ==
  /\ isOpen[f] /\ NewRevision
  /\ text' = [text EXCEPT ![f] = revs'] /\ modified' = [modified EXCEPT ![f] = TRUE]
  /\ byUser' = byUser \cup {revs'}
  /\ UNCHANGED <<isOpen, baseline, snapshot, collision, agentVars, disk, events, ops,
                 touched, origin>>

\* Undo back to the text last loaded or saved.
UndoAll(f) ==
  /\ isOpen[f] /\ modified[f] /\ UserOp
  /\ text' = [text EXCEPT ![f] = baseline[f]] /\ modified' = [modified EXCEPT ![f] = FALSE]
  /\ UNCHANGED <<isOpen, baseline, snapshot, collision, agentVars, disk, events, revs,
                 byUser, touched, origin>>

\* ide_buffer_save.  saving_internally is back to FALSE before the monitor
\* reports the write.  Saving all saves unmodified buffers too.
Save(f) ==
  /\ isOpen[f] /\ UserOp
  /\ disk' = [disk EXCEPT ![f] = text[f]]
  /\ baseline' = [baseline EXCEPT ![f] = text[f]]
  /\ modified' = [modified EXCEPT ![f] = FALSE]
  /\ collision' = [collision EXCEPT ![f] = FALSE]
  /\ events' = events \cup {f}
  /\ UNCHANGED <<isOpen, text, snapshot, agentVars, revs, byUser, touched, origin>>

\* Mutant.
MonitorChangedUnflagged(f) ==
  /\ f \in events /\ events' = events \ {f}
  /\ IF modified[f] THEN UNCHANGED bufferVars
     ELSE /\ snapshot' = [snapshot EXCEPT ![f] = IF @ = None THEN baseline[f] ELSE @]
          /\ Load({f}, disk)
          /\ UNCHANGED isOpen
  /\ UNCHANGED <<agentVars, disk, historyVars>>

\* on_file_monitor_changed.
MonitorChanged(f) ==
  /\ f \in events /\ events' = events \ {f}
  /\ \/ /\ modified[f]
        /\ collision' = [collision EXCEPT ![f] = TRUE]
        /\ UNCHANGED <<isOpen, text, modified, baseline, snapshot>>
     \/ /\ ~modified[f]
        /\ snapshot' = [snapshot EXCEPT ![f] = IF @ = None THEN baseline[f] ELSE @]
        /\ Load({f}, disk)
        /\ UNCHANGED isOpen
  /\ UNCHANGED <<agentVars, disk, historyVars>>

-----------------------------------------------------------------------------
(* The review.                                                             *)

\* on_agent_reload_cb for an edit under review, and for one that is settled.
ReloadForReview(f) ==
  LET open == Reported({f})
  IN  /\ snapshot' = [g \in Files |-> IF g \in open /\ snapshot[g] = None THEN text[g]
                                       ELSE snapshot[g]]
      /\ Load(open, disk)
      /\ UNCHANGED isOpen

ReloadSettled(fs, content) ==
  /\ snapshot' = [f \in Files |-> IF f \in Reported(fs) THEN None ELSE snapshot[f]]
  /\ Load(Reported(fs), content)
  /\ UNCHANGED isOpen

\* Mutant.
RecordEditAnew(f, old) ==
  /\ tx' = [g \in DOMAIN tx \cup {f} |-> IF g = f THEN old ELSE tx[g]]
  /\ origin' = [origin EXCEPT ![f] = IF f \in DOMAIN tx THEN @ ELSE old]
  /\ ReloadForReview(f)

\* ide_agent_ipc_record_edit keeps the first old text; the new one is only shown.
RecordEdit(f, old) ==
  /\ tx' = [g \in DOMAIN tx \cup {f} |-> IF g \in DOMAIN tx THEN tx[g] ELSE old]
  /\ origin' = [origin EXCEPT ![f] = IF f \in DOMAIN tx THEN @ ELSE old]
  /\ ReloadForReview(f)

\* A `diff` request; a text it leaves out is read from the file.
Dispatch(r) ==
  /\ r \in requests /\ requests' = requests \ {r}
  /\ RecordEdit(r.file, IF r.old = None THEN disk[r.file] ELSE r.old)
  /\ UNCHANGED <<disk, events, revs, ops, byUser, touched>>

\* The line did not arrive within IDE_AGENT_READ_TIMEOUT_MS.
RequestTimesOut(r) ==
  /\ r \in requests /\ requests' = requests \ {r}
  /\ UNCHANGED <<bufferVars, tx, disk, events, historyVars>>

\* A `reload` request.
ReloadRequest(f) ==
  /\ UserOp
  /\ ReloadSettled({f}, disk)
  /\ UNCHANGED <<agentVars, disk, events, revs, byUser, touched, origin>>

AcceptAll ==
  /\ DOMAIN tx # {} /\ UserOp
  /\ tx' = [f \in {} |-> 0]
  /\ ReloadSettled(DOMAIN tx, disk)
  /\ UNCHANGED <<requests, disk, events, revs, byUser, touched, origin>>

\* Every file is written back and reloaded; a write that fails (`bad`) is not
\* noticed, and its transaction is dropped with the others.
RejectAll(bad) ==
  LET back == [f \in Files |-> IF f \in DOMAIN tx \ bad THEN tx[f] ELSE disk[f]]
  IN  /\ DOMAIN tx # {} /\ bad \subseteq DOMAIN tx /\ UserOp
      /\ disk' = back
      /\ ReloadSettled(DOMAIN tx, back)
      /\ tx' = [f \in {} |-> 0]
      /\ events' = events \cup Reported(DOMAIN tx \ bad)
      /\ UNCHANGED <<requests, revs, byUser, touched, origin>>

-----------------------------------------------------------------------------
(* Agents and other programs (external).                                   *)

OtherWrites(f) ==
  /\ NewRevision
  /\ disk' = [disk EXCEPT ![f] = revs']
  /\ events' = events \cup Reported({f}) /\ touched' = touched \cup {f}
  /\ UNCHANGED <<bufferVars, agentVars, ops, byUser, origin>>

AgentWrites(f) ==
  /\ NewRevision
  /\ ~\E r \in requests : r.file = f
  /\ disk' = [disk EXCEPT ![f] = revs']
  /\ \E told \in {disk[f], None} :
       requests' = requests \cup {[file |-> f, old |-> told]}
  /\ events' = events \cup Reported({f}) /\ touched' = touched \cup {f}
  /\ UNCHANGED <<bufferVars, tx, ops, byUser, origin>>

Next ==
  \/ \E f \in Files :
       \/ Open(f) \/ Close(f) \/ Edit(f) \/ UndoAll(f) \/ Save(f)
       \/ MonitorChanged(f) \/ ReloadRequest(f) \/ OtherWrites(f) \/ AgentWrites(f)
  \/ \E r \in requests : Dispatch(r) \/ RequestTimesOut(r)
  \/ AcceptAll
  \/ \E bad \in SUBSET Files : RejectAll(bad)

Spec == Init /\ [][Next]_vars

\* The file monitor reports every change, and the main loop handles it.
Fairness == \A f \in Files : WF_vars(MonitorChanged(f))
FairSpec == Spec /\ Fairness

-----------------------------------------------------------------------------
\* The variables have their types, and nothing is left of a closed buffer.
TypeOK ==
  /\ isOpen \in [Files -> BOOLEAN] /\ modified \in [Files -> BOOLEAN]
  /\ collision \in [Files -> BOOLEAN]
  /\ text \in [Files -> Texts] /\ baseline \in [Files -> Texts] /\ disk \in [Files -> Texts]
  /\ snapshot \in [Files -> Texts \cup {None}] /\ origin \in [Files -> Texts \cup {None}]
  /\ DOMAIN tx \subseteq Files /\ tx \in [DOMAIN tx -> Texts]
  /\ requests \subseteq Request /\ events \subseteq {f \in Files : isOpen[f]}
  /\ revs \in Texts /\ ops \in 0 .. MaxOps
  /\ \A f \in Files : ~isOpen[f] => ~modified[f] /\ ~collision[f] /\ snapshot[f] = None

\* A buffer is behind its file only while the monitor has something to report
\* or the conflict is flagged; and one that is not marked modified shows what
\* was last read or written.
NoSilentDrift ==
  \A f \in Files : isOpen[f] =>
    /\ f \notin events => disk[f] = baseline[f] \/ collision[f]
    /\ ~modified[f] => text[f] = baseline[f]

\* REVERT ALL takes every file whose write succeeds, and its buffer, back to
\* the text before the first edit under review, however many followed.
RejectRestores ==
  [][\A bad \in SUBSET Files : RejectAll(bad) =>
       \A f \in DOMAIN tx \ bad :
         disk'[f] = origin[f] /\ (isOpen[f] => text'[f] = origin[f])]_vars

\* What another program writes reaches an open buffer, unless unsaved edits keep
\* it out or the buffer is closed.
ReachesEditor ==
  \A f \in Files :
    isOpen[f] /\ text[f] # disk[f] ~> ~isOpen[f] \/ text[f] = disk[f] \/ modified[f]
                                       \/ collision[f]

\* "Dirty buffer protection: never overwrite unsaved user edits".  Only the user
\* replaces an edit that has not been saved.
UnsavedEditsSurvive ==
  [][\A f \in Files : modified[f] /\ text'[f] # text[f] =>
        text'[f] \in byUser' \/ UndoAll(f) \/ Close(f)]_vars

\* A buffer has a snapshot for review only if another program wrote its file.
OnlyOthersAreReviewed == \A f \in Files : snapshot[f] # None => f \in touched
=============================================================================
