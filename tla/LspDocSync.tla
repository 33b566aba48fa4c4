------------------------------ MODULE LspDocSync ------------------------------
(***************************************************************************)
(* How the language-server manager (src/ide/ide_lsp.c) keeps a server's    *)
(* copies of the open documents in step with the editor's buffers, across  *)
(* the deaths and replacements of the server.  One server and project root;*)
(* the documents share its client, as ClientEntry does.                    *)
(*                                                                         *)
(* A text is its revision: every edit makes a new one.  That messages      *)
(* reach the server in the order they were sent, those sent while it       *)
(* starts included, and that requests fail when it dies, is LspClient.     *)
(***************************************************************************)
EXTENDS Naturals, Sequences, FiniteSets

CONSTANTS
  Docs,          \* the files of the server's language
  RestartLimit,  \* replacements of a dead client get_client grants: 3 in the code
  MaxEdits,      \* bound on the edits of all buffers
  MaxOps         \* bound on the user's requests, saves and visits to tabs

Texts == 0 .. MaxEdits

VARIABLES
  \* DocState, per document
  isOpen,    \* it has a DocState
  docClient, \* the generation of the client the DocState points at; 0: NULL
  version, sentOpen,
  timer,     \* change_timer is running
  \* the manager
  active,    \* active_doc, or 0
  gen,       \* generations of the client there have been; the last is in `clients`
  cstate,    \* its state
  missing,   \* the server is not installed, or could not be started
  inflight,  \* inflight_client (its generation) and inflight_id of the popover request
  \* the editor
  text,      \* the text of each buffer
  edits, ops,
  \* the server (external)
  wire,      \* what was sent to it and not yet read
  answers,   \* what it answered and the manager has not read
  srvOpen, srvVersion, srvText,
  \* history
  confused,  \* the server met a message that makes no sense
  stale      \* documents changed behind the manager's back since the last send

docVars == <<isOpen, docClient, version, sentOpen, timer>>
clientVars == <<gen, cstate, missing>>
srvVars == <<srvOpen, srvVersion, srvText, confused>>
vars == <<docVars, active, clientVars, inflight, text, edits, ops, wire, answers, srvVars,
          stale>>

Message == [kind : {"open", "change", "save", "close", "hover", "format"}, doc : Docs,
            version : Nat, text : Texts]
NoPopover == [client |-> 0, id |-> 0]
Msg(kind, d, v) == [kind |-> kind, doc |-> d, version |-> v, text |-> text[d]]

Init ==
  /\ isOpen = [d \in Docs |-> FALSE] /\ docClient = [d \in Docs |-> 0]
  /\ version = [d \in Docs |-> 0] /\ sentOpen = [d \in Docs |-> FALSE]
  /\ timer = [d \in Docs |-> FALSE]
  /\ active = 0 /\ gen = 0 /\ cstate = "NONE" /\ missing = FALSE /\ inflight = NoPopover
  /\ text = [d \in Docs |-> 0] /\ edits = 0 /\ ops = 0
  /\ wire = <<>> /\ answers = <<>>
  /\ srvOpen = {} /\ srvVersion = [d \in Docs |-> 0] /\ srvText = [d \in Docs |-> 0]
  /\ confused = FALSE /\ stale = {}

Alive == cstate \in {"STARTING", "READY"}

-----------------------------------------------------------------------------
(* get_client: the running client, or a new one.  `result` is what it      *)
(* returns; `granted` tells whether a new client was made and `clients` is *)
(* the docClient the documents end up with.                                *)

(* Fault: the documents of the dead client are not re-pointed. *)
RepointKeepsOld(d) == docClient[d]

(* Re-point documents of the dead client at the replacement. *)
Repoint(d) == IF gen # 0 /\ docClient[d] = gen THEN gen + 1 ELSE docClient[d]

(* The client was restarted as often as allowed, or cannot be started. *)
Refused == (gen > RestartLimit) \/ missing

(* A client is there. *)
ClientRuns(result) ==
  /\ Alive
  /\ result = gen
  /\ UNCHANGED clientVars

ClientRefused(result) ==
  /\ ~Alive /\ Refused
  /\ result = 0
  /\ UNCHANGED clientVars

(* There is no command to start it with (asked for again the next time),   *)
(* or its program is not found.                                            *)
NotInstalled(result) ==
  /\ ~Alive /\ ~Refused
  /\ result = 0
  /\ missing' \in {missing, TRUE}
  /\ UNCHANGED <<gen, cstate>>

(* A new client; it may fail to start, after the documents were re-pointed.*)
ClientReplaced(result) ==
  /\ ~Alive /\ ~Refused
  /\ gen' = gen + 1
  /\ \/ cstate' = "STARTING" /\ result = gen + 1 /\ missing' = missing
     \/ cstate' = "STOPPED" /\ result = 0 /\ missing' = TRUE

(* The new server knows nothing of the documents. *)
NewServer ==
  IF gen' = gen
  THEN UNCHANGED <<srvOpen, srvVersion, srvText>>
  ELSE /\ srvOpen' = {} /\ srvVersion' = [d \in Docs |-> 0]
       /\ srvText' = [d \in Docs |-> 0]

(* notify_open for document d once get_client returned `c`: doc_send_open  *)
(* unless there is no client.                                              *)
OpenWith(d, c, v) ==
  LET repointed == [e \in Docs |-> IF gen' # gen THEN Repoint(e) ELSE docClient[e]]
      unsent == {e \in Docs : gen' # gen /\ docClient[e] = gen}
  IN
  /\ docClient' = [repointed EXCEPT ![d] = IF c # 0 THEN c
                                           ELSE IF isOpen[d] THEN @ ELSE 0]
  /\ sentOpen' = [e \in Docs |-> IF e = d THEN c # 0 ELSE sentOpen[e] /\ e \notin unsent]
  /\ wire' = IF c # 0 THEN Append(wire, Msg("open", d, v)) ELSE wire
  /\ stale' = IF c # 0 THEN stale \ {d} ELSE stale

GetClient(d, v) ==
  \E c \in 0 .. gen + 1 :
    /\ ClientRuns(c) \/ ClientRefused(c) \/ NotInstalled(c) \/ ClientReplaced(c)
    /\ OpenWith(d, c, v)
    /\ NewServer

(* notify_open of a buffer that was not open: a new DocState. *)
Open(d) ==
  /\ ops < MaxOps /\ ops' = ops + 1
  /\ ~isOpen[d]
  /\ isOpen' = [isOpen EXCEPT ![d] = TRUE]
  /\ version' = [version EXCEPT ![d] = 1]
  /\ active' = d
  /\ GetClient(d, 1)
  /\ UNCHANGED <<timer, inflight, text, edits, answers, confused>>

(* notify_open of an open document, when the user comes back to its tab: a *)
(* dead client may be replaced.                                            *)
Visit(d) ==
  /\ ops < MaxOps /\ ops' = ops + 1
  /\ isOpen[d]
  /\ active' = d
  /\ IF docClient[d] # 0 /\ cstate = "STOPPED"
     THEN GetClient(d, version[d])
     ELSE UNCHANGED <<docClient, sentOpen, wire, stale, clientVars, srvOpen, srvVersion, srvText>>
  /\ UNCHANGED <<isOpen, version, timer, inflight, text, edits, answers, confused>>

-----------------------------------------------------------------------------
(* Fault: a change is sent with the version of the last one. *)
BumpNever(d, extra) ==
  IF docClient[d] # 0 /\ sentOpen[d]
  THEN /\ version' = version
       /\ wire' = wire \o <<Msg("change", d, version[d])>> \o extra
       /\ stale' = stale \ {d}
  ELSE UNCHANGED version /\ wire' = wire \o extra /\ stale' = stale

(* doc_send_change_now, then the messages that follow it in the caller: the*)
(* whole text is sent whenever the server has the document open, and the   *)
(* timer is gone in any case (the callers' own steps clear it).            *)
Bump(d, extra) ==
  IF docClient[d] # 0 /\ sentOpen[d]
  THEN /\ version' = [version EXCEPT ![d] = @ + 1]
       /\ wire' = wire \o <<Msg("change", d, version[d] + 1)>> \o extra
       /\ stale' = stale \ {d}
  ELSE UNCHANGED version /\ wire' = wire \o extra /\ stale' = stale

(* Fault: only changes of the tab in front are noticed. *)
RestartTimerInFront(d) ==
  timer' = IF docClient[d] # 0 /\ sentOpen[d] /\ active = d
           THEN [timer EXCEPT ![d] = TRUE] ELSE timer

(* notify_change: (re)starts the timer of a document the server has open.  *)
RestartTimer(d) ==
  timer' = IF docClient[d] # 0 /\ sentOpen[d] THEN [timer EXCEPT ![d] = TRUE] ELSE timer

(* An edit that goes through the editor's keys, or through apply_edits. *)
Edit(d) ==
  /\ isOpen[d] /\ edits < MaxEdits
  /\ edits' = edits + 1
  /\ text' = [text EXCEPT ![d] = edits + 1]
  /\ RestartTimer(d)
  /\ UNCHANGED <<isOpen, docClient, version, sentOpen, active, clientVars, inflight, ops, wire,
                 answers, srvVars, stale>>

(* A change of the buffer that nobody reports: a reload after the file     *)
(* changed on disk, a replacement in all files, a checklist item.          *)
SilentEdit(d) ==
  /\ isOpen[d] /\ edits < MaxEdits
  /\ edits' = edits + 1
  /\ text' = [text EXCEPT ![d] = edits + 1]
  /\ stale' = stale \cup {d}
  /\ UNCHANGED <<docVars, active, clientVars, inflight, ops, wire, answers, srvVars>>

(* Fault: a document waits until it is in front. *)
ChangeTimerInFront(d) ==
  /\ timer[d] /\ active = d
  /\ timer' = [timer EXCEPT ![d] = FALSE]
  /\ Bump(d, <<>>)
  /\ UNCHANGED <<isOpen, docClient, sentOpen, active, clientVars, inflight, text, edits, ops,
                 answers, srvVars>>

(* on_change_timer. *)
ChangeTimer(d) ==
  /\ timer[d]
  /\ timer' = [timer EXCEPT ![d] = FALSE]
  /\ Bump(d, <<>>)
  /\ UNCHANGED <<isOpen, docClient, sentOpen, active, clientVars, inflight, text, edits, ops,
                 answers, srvVars>>

(* Fault: didSave without the text that was saved. *)
SaveWithoutFlush(d) ==
  /\ ops < MaxOps /\ ops' = ops + 1
  /\ isOpen[d] /\ docClient[d] # 0 /\ sentOpen[d]
  /\ wire' = Append(wire, Msg("save", d, 0))
  /\ UNCHANGED <<docVars, active, clientVars, inflight, text, edits, answers, srvVars,
                 stale>>

(* notify_save: the pending change goes first. *)
Save(d) ==
  /\ ops < MaxOps /\ ops' = ops + 1
  /\ isOpen[d] /\ docClient[d] # 0 /\ sentOpen[d]
  /\ timer' = [timer EXCEPT ![d] = FALSE]
  /\ Bump(d, <<Msg("save", d, 0)>>)
  /\ UNCHANGED <<isOpen, docClient, sentOpen, active, clientVars, inflight, text, edits, answers,
                 srvVars>>

(* request_hover and request_completion: the popover request of before is  *)
(* cancelled; if the server has the document its text is flushed and the   *)
(* request follows it.                                                     *)
Hover(d) ==
  /\ ops < MaxOps /\ ops' = ops + 1
  /\ isOpen[d]
  /\ \/ /\ docClient[d] # 0 /\ sentOpen[d] /\ Alive
        /\ timer' = [timer EXCEPT ![d] = FALSE]
        /\ Bump(d, <<Msg("hover", d, ops')>>)
        /\ inflight' = [client |-> docClient[d], id |-> ops']
     \/ /\ ~(docClient[d] # 0 /\ sentOpen[d] /\ Alive)
        /\ inflight' = NoPopover
        /\ UNCHANGED <<timer, version, wire, stale>>
  /\ UNCHANGED <<isOpen, docClient, sentOpen, active, clientVars, text, edits, answers, srvVars>>

(* Fault: the server is asked to format without the pending change.        *)
FormatWithoutFlush(d) ==
  /\ ops < MaxOps /\ ops' = ops + 1
  /\ isOpen[d] /\ docClient[d] # 0 /\ cstate = "READY"
  /\ wire' = Append(wire, Msg("format", d, 0))
  /\ UNCHANGED <<docVars, active, clientVars, inflight, text, edits, answers, srvVars,
                 stale>>

(* request_format_with_options: asks for a ready server, not for an open   *)
(* document: the request also goes to a server that replaced another and   *)
(* was never told of the document.                                         *)
Format(d) ==
  /\ ops < MaxOps /\ ops' = ops + 1
  /\ isOpen[d] /\ docClient[d] # 0 /\ cstate = "READY"
  /\ timer' = [timer EXCEPT ![d] = FALSE]
  /\ Bump(d, <<Msg("format", d, 0)>>)
  /\ UNCHANGED <<isOpen, docClient, sentOpen, active, clientVars, inflight, text, edits, answers,
                 srvVars>>

(* notify_close, and doc_free. *)
Close(d) ==
  /\ ops < MaxOps /\ ops' = ops + 1
  /\ isOpen[d]
  /\ wire' = IF docClient[d] # 0 /\ sentOpen[d] /\ Alive
             THEN Append(wire, Msg("close", d, 0)) ELSE wire
  /\ isOpen' = [isOpen EXCEPT ![d] = FALSE]
  /\ docClient' = [docClient EXCEPT ![d] = 0]
  /\ version' = [version EXCEPT ![d] = 0]
  /\ sentOpen' = [sentOpen EXCEPT ![d] = FALSE]
  /\ timer' = [timer EXCEPT ![d] = FALSE]
  /\ active' = IF active = d THEN 0 ELSE active
  /\ inflight' = NoPopover /\ stale' = stale \ {d}
  /\ UNCHANGED <<clientVars, text, edits, answers, srvVars>>

-----------------------------------------------------------------------------
(* The server dies: on_client_state(STOPPED), after the callbacks of all   *)
(* open requests ran with an error (on_hover_response forgets inflight).   *)
ServerDies ==
  /\ Alive
  /\ cstate' = "STOPPED"
  /\ sentOpen' = [d \in Docs |-> sentOpen[d] /\ docClient[d] # gen]
  /\ inflight' = NoPopover /\ wire' = <<>> /\ answers' = <<>>
  /\ UNCHANGED <<isOpen, docClient, version, timer, active, gen, missing, text, edits, ops,
                 srvVars, stale>>

(* It answers `initialize`; what was sent before is delivered from now on. *)
ServerReady ==
  /\ cstate = "STARTING"
  /\ cstate' = "READY"
  /\ UNCHANGED <<docVars, active, gen, missing, inflight, text, edits, ops, wire, answers,
                 srvVars, stale>>

(* What a server can do with a message.  Asked to format a document it does*)
(* not have it answers an error; AsksAboutCurrentText says when it is.     *)
MakesSense(m) ==
  CASE m.kind = "open" -> m.doc \notin srvOpen
    [] m.kind = "change" -> m.doc \in srvOpen /\ m.version > srvVersion[m.doc]
    [] m.kind \in {"save", "close", "hover"} -> m.doc \in srvOpen
    [] OTHER -> TRUE

(* The server reads a message: the texts of didOpen and didChange are all  *)
(* it knows of a document.                                                 *)
ServerReads ==
  /\ cstate = "READY" /\ wire # <<>>
  /\ wire' = Tail(wire)
  /\ LET m == Head(wire) IN
     /\ confused' = (confused \/ ~MakesSense(m))
     /\ srvOpen' = IF m.kind = "open" THEN srvOpen \cup {m.doc}
                   ELSE IF m.kind = "close" THEN srvOpen \ {m.doc} ELSE srvOpen
     /\ srvVersion' = IF m.kind \in {"open", "change"}
                      THEN [srvVersion EXCEPT ![m.doc] = m.version] ELSE srvVersion
     /\ srvText' = IF m.kind \in {"open", "change"}
                   THEN [srvText EXCEPT ![m.doc] = m.text] ELSE srvText
     /\ answers' = IF m.kind \in {"hover", "format"} /\ m.doc \in srvOpen
                   THEN Append(answers, [m EXCEPT !.text = srvText[m.doc]]) ELSE answers
  /\ UNCHANGED <<docVars, active, clientVars, inflight, text, edits, ops, stale>>

(* ctx_done, for the answer to request `id`: a cancelled request is not in *)
(* the client's table any more and its answer is dropped.                  *)
EndPopover(id) == IF inflight.id = id THEN NoPopover ELSE inflight

(* on_hover_response. *)
HoverAnswered ==
  /\ answers # <<>> /\ Head(answers).kind = "hover"
  /\ answers' = Tail(answers)
  /\ inflight' = EndPopover(Head(answers).version)
  /\ UNCHANGED <<docVars, active, clientVars, text, edits, ops, wire, srvVars, stale>>

(* on_format_response, and the other answers that carry edits: they are    *)
(* applied to the buffer as it is now, or nothing happens if it was closed *)
(* or there is nothing to change.                                          *)
FormatAnswered ==
  /\ answers # <<>> /\ Head(answers).kind = "format"
  /\ answers' = Tail(answers)
  /\ LET d == Head(answers).doc IN
     \/ UNCHANGED <<text, edits, timer>>
     \/ /\ isOpen[d] /\ edits < MaxEdits
        /\ edits' = edits + 1
        /\ text' = [text EXCEPT ![d] = edits + 1]
        /\ RestartTimer(d)
  /\ UNCHANGED <<isOpen, docClient, version, sentOpen, active, clientVars, inflight, ops, wire,
                 srvVars, stale>>

-----------------------------------------------------------------------------
UserNext ==
  \E d \in Docs :
    Open(d) \/ Visit(d) \/ Edit(d) \/ SilentEdit(d) \/ Save(d) \/ Hover(d) \/ Format(d) \/ Close(d)

LoopNext == (\E d \in Docs : ChangeTimer(d)) \/ HoverAnswered \/ FormatAnswered

ServerNext == ServerDies \/ ServerReady \/ ServerReads

Next == UserNext \/ LoopNext \/ ServerNext

Spec == Init /\ [][Next]_vars

(* Timers expire, and a server that is up reads its input. *)
FairSpec ==
  Spec /\ (\A d \in Docs : WF_vars(ChangeTimer(d))) /\ WF_vars(ServerReads)
       /\ WF_vars(ServerReady)

-----------------------------------------------------------------------------
(* Type invariant. *)
TypeOK ==
  /\ isOpen \in [Docs -> BOOLEAN] /\ sentOpen \in [Docs -> BOOLEAN]
  /\ timer \in [Docs -> BOOLEAN] /\ version \in [Docs -> Nat]
  /\ docClient \in [Docs -> 0 .. gen]
  /\ active \in Docs \cup {0}
  /\ gen \in 0 .. RestartLimit + 1 /\ inflight \in [client : 0 .. gen, id : 0 .. MaxOps]
  /\ cstate \in {"NONE", "STARTING", "READY", "STOPPED"} /\ missing \in BOOLEAN
  /\ text \in [Docs -> Texts] /\ edits \in 0 .. MaxEdits /\ ops \in 0 .. MaxOps
  /\ wire \in Seq(Message) /\ answers \in Seq(Message)
  /\ srvOpen \subseteq Docs /\ srvVersion \in [Docs -> Nat] /\ srvText \in [Docs -> Texts]
  /\ stale \subseteq Docs /\ confused \in BOOLEAN

(* get_client frees the dead client when it replaces it: no document and no*)
(* popover request points at a client that was freed, and none thinks a    *)
(* dead server has it open.                                                *)
NoDanglingClient ==
  /\ \A d \in Docs : docClient[d] \in {0, gen} /\ (timer[d] => isOpen[d])
  /\ inflight # NoPopover => inflight.client = gen /\ Alive
  /\ \A d \in Docs : sentOpen[d] => isOpen[d] /\ docClient[d] = gen /\ Alive

(* Whatever dies, is replaced, opened again or closed: the server never    *)
(* sees a change, a save, a close or a hover for a document it does not    *)
(* have, an open for one it has, nor a version that does not increase.     *)
(* (A format request for a document it does not have it does see.)         *)
ServerFollows == ~confused

Behind(d) == \E i \in DOMAIN wire : wire[i].doc = d /\ wire[i].kind \in {"open", "change", "close"}

(* "Edits are sent to the server after a short debounce (full-document     *)
(* sync)" (docs/kajo_ide_manual.md): with no timer running and nothing on  *)
(* its way the server's text of a document it has open is the buffer's,    *)
(* except for changes nobody reported to the manager.                      *)
InStep ==
  \A d \in Docs :
    sentOpen[d] /\ ~timer[d] /\ ~Behind(d) /\ d \notin stale =>
      d \in srvOpen /\ srvText[d] = text[d] /\ srvVersion[d] = version[d]

(* The server sees a save, a hover or a format request with the text the   *)
(* user had when making it, even though the changes are debounced.  The    *)
(* exception: request_format_with_options does not look at sent_open, so a *)
(* server that replaced another is asked to format a document it was not   *)
(* told of yet.                                                            *)
AsksAboutCurrentText ==
  wire # <<>> /\ Head(wire).kind \in {"save", "hover", "format"} =>
    LET m == Head(wire) IN
    \/ m.doc \in srvOpen /\ srvText[m.doc] = m.text
    \/ m.kind = "format" /\ m.doc \notin srvOpen /\ gen > 1

(* Every edit reaches the server in the end, unless the server dies, the   *)
(* document is closed or it is changed behind the manager's back.          *)
EditsArrive ==
  \A d \in Docs :
    (timer[d] /\ sentOpen[d]) ~> (srvText[d] = text[d] \/ ~sentOpen[d] \/ d \in stale)

(* "Re-point documents of the dead client at the replacement" and "A dead  *)
(* client may be replaced when the user comes back to the tab" (ide_lsp.c):*)
(* the server knows the document the user looks at.                        *)
ActiveIsServed == active # 0 /\ Alive /\ docClient[active] = gen => sentOpen[active]
=============================================================================
