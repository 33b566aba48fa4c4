-------------------------- MODULE DapSessionProofs --------------------------
(***************************************************************************)
(* What holds of DapSession for every value of its constants.              *)
(*                                                                         *)
(* In order: the types; an ended session shows nothing; the numbers of the *)
(* requests; nothing is shown unless the session is paused; the adapter's  *)
(* breakpoints; the panel as a whole; the client is kept.                  *)
(***************************************************************************)
EXTENDS DapSession, WellFoundedInduction, SequenceTheorems, TLAPS

(* What the view composes before a number is given to it. *)
Command == [kind : RequestKinds, frame : 0 .. NFrames, marks : SUBSET Lines]

(* The frame on_stack_trace selects is one of the stack. *)
LEMMA PreferredIsAFrame == Preferred \in Frames
<1>1. CASE Sourced = {}
  BY <1>1, ConstantsAssumption DEF Preferred, Frames
<1>2. CASE Sourced # {}
  <2>1. \A f \in Sourced : f \in Nat /\ f \in Frames
    BY ConstantsAssumption DEF Frames
  <2>2. \E f \in Sourced : \A g \in Sourced : f <= g
    <3> DEFINE less == {ss \in Nat \X Nat : ss[1] < ss[2]}
    <3>1. IsWellFoundedOn(less, Nat)
      BY NatLessThanWellFounded DEF OpToRel
    <3> HIDE DEF less
    <3>2. PICK f \in Sourced : \A g \in Sourced : <<g, f>> \notin less
      BY <1>2, <2>1, <3>1, WFMin
    <3> USE DEF less
    <3>3. \A g \in Sourced : ~(g < f)
      BY <2>1, <3>2
    <3> QED BY <2>1, <3>3
  <2> QED BY <1>2, <2>1, <2>2 DEF Preferred
<1> QED BY <1>1, <1>2

(* A request the view composes is a command. *)
LEMMA ReqType ==
  ASSUME NEW kind \in RequestKinds, NEW f \in 0 .. NFrames, NEW m \in SUBSET Lines
  PROVE  Req(kind, f, m) \in Command
BY DEF Req, Command

(* What ide_dap_client_request does to the table and to the channel: every *)
(* entry it adds has a new number and the kind of its command, and the     *)
(* commands follow what was queued, in their order, when the adapter is there*)
(* to be written to.                                                       *)
LEMMA IssueSends ==
  ASSUME TypeOK, NEW reqs \in Seq(Command), NEW table \in SUBSET Pending,
         Issue(reqs, table, gen)
  PROVE  /\ pending' \in SUBSET Pending /\ nextSeq' \in Nat /\ nextSeq <= nextSeq'
         /\ toAdapter' \in Seq(Request)
         /\ \A p \in pending' : 
              p \in table \/ (/\ p.gen = gen /\ nextSeq <= p.seq /\ p.seq < nextSeq'
                              /\ p.seq - nextSeq + 1 \in 1 .. Len(reqs)
                              /\ p.kind = reqs[p.seq - nextSeq + 1].kind)
         /\ Len(toAdapter) <= Len(toAdapter')
         /\ \A i \in 1 .. Len(toAdapter) : toAdapter'[i] = toAdapter[i]
         /\ \A i \in Len(toAdapter) + 1 .. Len(toAdapter') :
              /\ i - Len(toAdapter) \in 1 .. Len(reqs)
              /\ toAdapter'[i].seq = nextSeq + (i - Len(toAdapter)) - 1
              /\ toAdapter'[i].seq < nextSeq'
              /\ toAdapter'[i].kind = reqs[i - Len(toAdapter)].kind
              /\ toAdapter'[i].marks = reqs[i - Len(toAdapter)].marks
         /\ ~exited /\ adapter = "up" /\ outOpen
              => Len(toAdapter') = Len(toAdapter) + Len(reqs)
<1>1. CASE exited
  BY <1>1 DEF Issue, TypeOK
<1>2. CASE ~exited
  <2> DEFINE new == [i \in DOMAIN reqs |->
                    [seq |-> nextSeq + i - 1, kind |-> reqs[i].kind,
                     frame |-> reqs[i].frame, marks |-> reqs[i].marks]]
  <2>0. Len(reqs) \in Nat /\ DOMAIN reqs = 1 .. Len(reqs) /\ \A i \in 1 .. Len(reqs) : reqs[i] \in Command
    OBVIOUS
  <2>1. new \in Seq(Request) /\ Len(new) = Len(reqs)
    <3>1. \A i \in DOMAIN reqs : new[i] \in Request
      BY <2>0 DEF Command, Request, TypeOK
    <3> QED BY <2>0, <3>1
  <2>2. /\ nextSeq' = nextSeq + Len(reqs)
        /\ pending' = table \cup
            {[seq |-> nextSeq + i - 1, kind |-> reqs[i].kind, gen |-> gen] : i \in DOMAIN reqs}
    BY <1>2 DEF Issue
  <2>3. nextSeq \in Nat /\ gen \in Nat /\ toAdapter \in Seq(Request)
    BY DEF TypeOK
  <2>4. pending' \in SUBSET Pending
    BY <2>0, <2>2, <2>3 DEF Pending, Command
  <2>5. \A p \in pending' : 
              p \in table \/ (/\ p.gen = gen /\ nextSeq <= p.seq /\ p.seq < nextSeq'
                              /\ p.seq - nextSeq + 1 \in 1 .. Len(reqs)
                              /\ p.kind = reqs[p.seq - nextSeq + 1].kind)
    BY <2>0, <2>2, <2>3
  <2>6. toAdapter' = IF adapter = "up" /\ outOpen THEN toAdapter \o new ELSE toAdapter
    BY <1>2 DEF Issue
  <2>7. \A i \in 1 .. Len(new) : /\ new[i].seq = nextSeq + i - 1
                                 /\ new[i].kind = reqs[i].kind
                                 /\ new[i].marks = reqs[i].marks
    BY <2>0, <2>1
  <2> HIDE DEF new
  <2>8. CASE adapter = "up" /\ outOpen
    <3>1. /\ toAdapter' \in Seq(Request) /\ Len(toAdapter') = Len(toAdapter) + Len(reqs)
          /\ \A i \in 1 .. Len(toAdapter) + Len(new) : toAdapter'[i] =
                     IF i <= Len(toAdapter) THEN toAdapter[i] ELSE new[i - Len(toAdapter)]
      <4>1. toAdapter' = toAdapter \o new
        BY <2>6, <2>8
      <4>2. /\ toAdapter \o new \in Seq(Request)
            /\ Len(toAdapter \o new) = Len(toAdapter) + Len(new)
            /\ \A i \in 1 .. Len(toAdapter) + Len(new) : (toAdapter \o new)[i] =
                     IF i <= Len(toAdapter) THEN toAdapter[i] ELSE new[i - Len(toAdapter)]
        BY <2>1, <2>3, ConcatProperties
      <4> QED BY <2>1, <4>1, <4>2
    <3>2. Len(toAdapter) \in Nat /\ nextSeq' \in Nat /\ nextSeq <= nextSeq'
      BY <2>0, <2>2, <2>3
    <3>3. ASSUME NEW i \in Len(toAdapter) + 1 .. Len(toAdapter')
          PROVE  /\ i - Len(toAdapter) \in 1 .. Len(reqs)
                 /\ toAdapter'[i].seq = nextSeq + (i - Len(toAdapter)) - 1
                 /\ toAdapter'[i].seq < nextSeq'
                 /\ toAdapter'[i].kind = reqs[i - Len(toAdapter)].kind
                 /\ toAdapter'[i].marks = reqs[i - Len(toAdapter)].marks
      <4>1. i - Len(toAdapter) \in 1 .. Len(reqs) /\ i \in 1 .. Len(toAdapter) + Len(new)
            /\ ~(i <= Len(toAdapter))
        BY <2>0, <2>1, <3>1, <3>2
      <4>2. toAdapter'[i] = new[i - Len(toAdapter)]
        BY <3>1, <4>1
      <4> QED BY <2>0, <2>1, <2>2, <2>3, <2>7, <3>2, <4>1, <4>2
    <3>4. \A i \in 1 .. Len(toAdapter) : toAdapter'[i] = toAdapter[i]
      BY <2>0, <2>1, <3>1, <3>2
    <3> QED BY <2>0, <2>4, <2>5, <3>1, <3>2, <3>3, <3>4
  <2>9. CASE ~(adapter = "up" /\ outOpen)
    <3>1. toAdapter' = toAdapter /\ nextSeq' \in Nat /\ nextSeq <= nextSeq' /\ Len(toAdapter) \in Nat
      BY <2>0, <2>2, <2>3, <2>6, <2>9
    <3> QED BY <2>3, <2>4, <2>5, <2>9, <3>1
  <2> QED BY <2>8, <2>9
<1> QED BY <1>1, <1>2

-----------------------------------------------------------------------------
(* A request sent alone. *)
LEMMA OneCommand ==
  ASSUME NEW kind \in RequestKinds, NEW f \in 0 .. NFrames, NEW m \in SUBSET Lines
  PROVE  /\ <<Req(kind, f, m)>> \in Seq(Command) /\ Len(<<Req(kind, f, m)>>) = 1
         /\ <<Req(kind, f, m)>>[1].kind = kind /\ <<Req(kind, f, m)>>[1].marks = m
<1>1. Req(kind, f, m) \in Command
  BY ReqType
<1>2. Req(kind, f, m).kind = kind /\ Req(kind, f, m).marks = m
  BY DEF Req
<1> QED BY <1>1, <1>2

(* Ending an active session keeps the types of what it changes. *)
LEMMA EndActiveType ==
  ASSUME TypeOK, EndActive
  PROVE  /\ state' \in States /\ gen' \in Nat /\ stack' \in Nat /\ selected' \in 0 .. NFrames
         /\ locals' \in Shown /\ marker' \in Shown /\ reported' \in BOOLEAN
         /\ alive' \in BOOLEAN /\ outOpen' \in BOOLEAN /\ adapter' \in {"none", "up", "dead"}
<1>1. Nothing \in Shown
  BY ConstantsAssumption DEF Nothing, Shown
<1>2. alive' \in BOOLEAN /\ outOpen' \in BOOLEAN /\ adapter' \in {"none", "up", "dead"}
  BY DEF TypeOK, EndActive, StopClient
<1>3. state' \in States /\ gen' \in Nat /\ stack' \in Nat /\ selected' \in 0 .. NFrames
  BY DEF TypeOK, EndActive, ClearStoppedUi, States
<1> QED BY <1>1, <1>2, <1>3 DEF EndActive, ClearStoppedUi

(* So does creating a client ... *)
LEMMA FreshClientType ==
  ASSUME NEW kind \in {"process", "socket"}, NEW g \in Nat, TypeOK, FreshClient(kind, g)
  PROVE  /\ client' \in {"none", "process", "socket"}
         /\ alive' \in BOOLEAN /\ exited' \in BOOLEAN /\ reading' \in BOOLEAN /\ outOpen' \in BOOLEAN
         /\ pending' \in SUBSET Pending /\ nextSeq' \in Nat
         /\ toAdapter' \in Seq(Request) /\ fromAdapter' \in Seq(Message)
         /\ adapter' \in {"none", "up", "dead"} /\ debuggee' \in {"none", "running", "stopped", "ended"}
         /\ launch' \in Nat /\ ready' \in SUBSET {"init", "launched", "configured"}
         /\ epoch' \in Nat /\ abps' \in SUBSET Lines
<1>1. [seq |-> 1, kind |-> "initialize", frame |-> 0, marks |-> {}] \in Request
  BY ConstantsAssumption DEF Request, RequestKinds
<1>2. [seq |-> 1, kind |-> "initialize", gen |-> g] \in Pending
  BY DEF Pending, RequestKinds
<1>3. <<>> \in Seq(Message)
  BY EmptySeq
<1>4. /\ toAdapter' \in Seq(Request) /\ fromAdapter' \in Seq(Message)
      /\ pending' \in SUBSET Pending /\ nextSeq' \in Nat /\ launch' \in Nat
  BY <1>1, <1>2, <1>3 DEF FreshClient
<1>5. /\ epoch' \in Nat /\ abps' \in SUBSET Lines
      /\ ready' \in SUBSET {"init", "launched", "configured"}
  BY DEF FreshClient, TypeOK
<1> QED BY <1>4, <1>5 DEF FreshClient

(* ... and dropping one. *)
LEMMA NoClientType ==
  ASSUME TypeOK, NoClient
  PROVE  /\ client' \in {"none", "process", "socket"}
         /\ alive' \in BOOLEAN /\ exited' \in BOOLEAN /\ reading' \in BOOLEAN /\ outOpen' \in BOOLEAN
         /\ pending' \in SUBSET Pending /\ nextSeq' \in Nat
         /\ toAdapter' \in Seq(Request) /\ fromAdapter' \in Seq(Message)
         /\ adapter' \in {"none", "up", "dead"} /\ debuggee' \in {"none", "running", "stopped", "ended"}
         /\ launch' \in Nat /\ ready' \in SUBSET {"init", "launched", "configured"}
         /\ epoch' \in Nat /\ abps' \in SUBSET Lines
<1>1. <<>> \in Seq(Message) /\ <<>> \in Seq(Request)
  BY EmptySeq
<1>2. /\ toAdapter' \in Seq(Request) /\ fromAdapter' \in Seq(Message)
      /\ pending' \in SUBSET Pending /\ nextSeq' \in Nat /\ launch' \in Nat
  BY <1>1 DEF NoClient
<1>3. /\ epoch' \in Nat /\ abps' \in SUBSET Lines
      /\ ready' \in SUBSET {"init", "launched", "configured"}
  BY DEF NoClient, TypeOK
<1> QED BY <1>2, <1>3 DEF NoClient

(* The user's operations keep the types, *)
LEMMA UserType ==
  ASSUME TypeOK, UserOperation
  PROVE  TypeOK'
<1>0. /\ 0 \in 0 .. NFrames /\ {} \in SUBSET Lines /\ Nothing \in Shown /\ pending \in SUBSET Pending
      /\ Frames \subseteq 0 .. NFrames /\ "disconnect" \in RequestKinds /\ "resume" \in RequestKinds
      /\ "evaluate" \in RequestKinds /\ "pause" \in RequestKinds
      /\ "scopes" \in RequestKinds /\ "setBreakpoints" \in RequestKinds
  BY ConstantsAssumption DEF Nothing, Shown, TypeOK, Frames, RequestKinds, UiKinds
<1>1. ASSUME StartProcess PROVE TypeOK'
  <2>1. gen + 2 \in Nat /\ FreshClient("process", gen + 2)
    BY <1>1 DEF StartProcess, TypeOK
  <2>2. state' \in States /\ gen' \in Nat /\ preps' \in SUBSET Nat /\ sessions' \in Nat
    BY <1>1 DEF StartProcess, TypeOK, States
  <2>3. /\ stack' \in Nat /\ selected' \in 0 .. NFrames /\ locals' \in Shown /\ marker' \in Shown
        /\ reported' \in BOOLEAN /\ bps' \in SUBSET Lines /\ ops' \in Nat /\ startToggles' \in Nat
    BY <1>1 DEF StartProcess, TypeOK
  <2> HIDE DEF FreshClient
  <2> QED BY <2>1, <2>2, <2>3, FreshClientType DEF TypeOK
<1>2. ASSUME StartJava PROVE TypeOK'
  <2>1. reported' \in BOOLEAN /\ NoClient
    BY <1>2 DEF StartJava
  <2> HIDE DEF NoClient
  <2> QED BY <1>2, <2>1, NoClientType DEF StartJava, TypeOK, States
<1>3. ASSUME StartFails PROVE TypeOK'
  <2>1. reported' \in BOOLEAN /\ NoClient
    BY <1>3 DEF StartFails
  <2> HIDE DEF NoClient
  <2> QED BY <1>3, <2>1, NoClientType DEF StartFails, TypeOK
<1>4. ASSUME Stop PROVE TypeOK'
  <2>1. pending' \in SUBSET Pending /\ nextSeq' \in Nat /\ toAdapter' \in Seq(Request)
    <3>1. CASE Issue(<<Req("disconnect", 0, {})>>, pending, gen)
      BY <1>0, <3>1, IssueSends, OneCommand
    <3>2. CASE Settle(pending)
      BY <3>2 DEF Settle, TypeOK
    <3> QED BY <1>4, <3>1, <3>2 DEF Stop
  <2> QED BY <1>4, <2>1, EndActiveType DEF Stop, TypeOK, boundVars
<1>5. ASSUME Pause PROVE TypeOK'
  <2>1. pending' \in SUBSET Pending /\ nextSeq' \in Nat /\ toAdapter' \in Seq(Request)
    BY <1>0, <1>5, IssueSends, OneCommand DEF Pause, SendControl
  <2> QED BY <1>5, <2>1 DEF Pause, SendControl, UserStep, TypeOK, viewVars, adapterVars
<1>6. ASSUME NEW l \in Lines, ToggleBreakpoint(l) PROVE TypeOK'
  <2>0. bps' \in SUBSET Lines
    BY <1>6 DEF ToggleBreakpoint, TypeOK
  <2>1. pending' \in SUBSET Pending /\ nextSeq' \in Nat /\ toAdapter' \in Seq(Request)
    <3>1. CASE Issue(<<Req("setBreakpoints", 0, bps')>>, pending, gen)
      BY <1>0, <2>0, <3>1, IssueSends, OneCommand
    <3>2. CASE Settle(pending)
      BY <3>2 DEF Settle, TypeOK
    <3> QED BY <1>6, <3>1, <3>2 DEF ToggleBreakpoint
  <2> QED BY <1>6, <2>0, <2>1 DEF ToggleBreakpoint, UserStep, TypeOK, viewVars, adapterVars
<1>7. ASSUME NEW kind \in {"resume", "evaluate"}, Control(kind) PROVE TypeOK'
  <2>1. pending' \in SUBSET Pending /\ nextSeq' \in Nat /\ toAdapter' \in Seq(Request)
    BY <1>0, <1>7, IssueSends, OneCommand DEF Control, SendControl
  <2> QED BY <1>7, <2>1 DEF Control, SendControl, UserStep, TypeOK, viewVars, adapterVars
<1>8. ASSUME NEW f \in Frames, SelectRow(f) PROVE TypeOK'
  <2>1. pending' \in SUBSET Pending /\ nextSeq' \in Nat /\ toAdapter' \in Seq(Request)
    BY <1>0, <1>8, IssueSends, OneCommand DEF SelectRow
  <2>2. selected' \in 0 .. NFrames /\ marker' \in Shown
    BY <1>0, <1>8 DEF SelectRow, SelectFrame, Shown, TypeOK
  <2> QED BY <1>8, <2>1, <2>2 DEF SelectRow, UserStep, TypeOK, adapterVars
<1> QED BY <1>1, <1>2, <1>3, <1>4, <1>5, <1>6, <1>7, <1>8 DEF UserOperation

(* so do the callbacks of a Java preparation, *)
LEMMA JavaType ==
  ASSUME TypeOK, NEW g \in preps, JavaConnected(g) \/ JavaFailed(g) \/ JavaStale(g)
  PROVE  TypeOK'
<1>1. ASSUME JavaConnected(g) PROVE TypeOK'
  BY <1>1, FreshClientType DEF JavaConnected, TypeOK, viewVars, boundVars
<1>2. ASSUME JavaFailed(g) PROVE TypeOK'
  BY <1>2, EndActiveType DEF JavaFailed, TypeOK, boundVars
<1>3. ASSUME JavaStale(g) PROVE TypeOK'
  BY <1>3 DEF JavaStale, TypeOK, viewVars, clientVars, adapterVars, boundVars
<1> QED BY <1>1, <1>2, <1>3

(* the end of a session, *)
LEMMA EndSessionType ==
  ASSUME TypeOK, EndSession
  PROVE  /\ state' \in States /\ gen' \in Nat /\ stack' \in Nat /\ selected' \in 0 .. NFrames
         /\ locals' \in Shown /\ marker' \in Shown /\ reported' \in BOOLEAN
         /\ alive' \in BOOLEAN /\ outOpen' \in BOOLEAN /\ adapter' \in {"none", "up", "dead"}
BY EndActiveType DEF EndSession, TypeOK, viewVars

(* the reading of a message, *)
LEMMA ReceiveType ==
  ASSUME TypeOK, Receive
  PROVE  /\ Incoming \in Message /\ fromAdapter' \in Seq(Message) /\ reading' \in BOOLEAN
BY HeadTailProperties DEF Receive, Incoming, TypeOK

(* a handler that gives what it sets a value of its type, *)
LEMMA HandlerType ==
  ASSUME TypeOK, HandlerFrame,
         state' \in States, gen' \in Nat, stack' \in Nat, selected' \in 0 .. NFrames,
         locals' \in Shown, marker' \in Shown, reported' \in BOOLEAN, alive' \in BOOLEAN, outOpen' \in BOOLEAN,
         adapter' \in {"none", "up", "dead"},
         pending' \in SUBSET Pending, nextSeq' \in Nat, toAdapter' \in Seq(Request),
         Receive
  PROVE  TypeOK'
BY ReceiveType DEF HandlerFrame, boundVars, TypeOK

(* and so every handler of the client. *)
LEMMA ClientType ==
  ASSUME TypeOK, ClientStep
  PROVE  TypeOK'
<1> USE DEF viewVars
<1>0. /\ 0 \in 0 .. NFrames /\ {} \in SUBSET Lines /\ Nothing \in Shown
      /\ Preferred \in 0 .. NFrames /\ Preferred \in Frames
      /\ RequestKinds = UiKinds \cup
            {"initialize", "launch", "setBreakpoints", "setExceptionBreakpoints",
             "configurationDone", "resume", "pause", "evaluate", "disconnect"}
      /\ UiKinds = {"stackTrace", "scopes", "variables"}
      /\ \A q : pending \ {q} \in SUBSET Pending
      /\ pending \in SUBSET Pending
  BY ConstantsAssumption, PreferredIsAFrame
     DEF Nothing, Shown, TypeOK, Frames, RequestKinds, UiKinds
<1>1. ASSUME OnUnknownResponse PROVE TypeOK'
  BY <1>0, <1>1, HandlerType DEF OnUnknownResponse, Quietly, Settle, TypeOK
<1>2. ASSUME OnIgnoredResponse PROVE TypeOK'
  BY <1>0, <1>2, HandlerType DEF OnIgnoredResponse, Quietly, Settle, Without, TypeOK
<1>3. ASSUME OnInitialized PROVE TypeOK'
  <2> PICK q \in pending : /\ Issue(<<Req("launch", 0, {})>>, Without(q), gen)
                           /\ UNCHANGED <<viewVars, alive, adapter, outOpen>>
                           /\ HandlerFrame /\ Receive
    BY <1>3 DEF OnInitialized
  <2>1. pending' \in SUBSET Pending /\ nextSeq' \in Nat /\ toAdapter' \in Seq(Request)
    BY <1>0, IssueSends, OneCommand DEF Without
  <2> QED BY <2>1, HandlerType DEF TypeOK
<1>4. ASSUME OnStartRefused PROVE TypeOK'
  BY <1>0, <1>4, EndSessionType, HandlerType DEF OnStartRefused, Settle, Without, TypeOK
<1>5. ASSUME OnConfigDone PROVE TypeOK'
  BY <1>0, <1>5, HandlerType DEF OnConfigDone, Settle, Without, TypeOK, States
<1>15. ASSUME OnConfigRefused PROVE TypeOK'
  BY <1>0, <1>15, HandlerType DEF OnConfigRefused, Settle, Without, TypeOK
<1>6. ASSUME OnStackTrace PROVE TypeOK'
  <2> PICK q \in pending :
        /\ Receive
        /\ stack' = Incoming.body.epoch
        /\ \/ /\ SelectFrame(Preferred, stack')
              /\ Issue(<<Req("scopes", Preferred, {})>>, Without(q), gen)
           \/ /\ Settle(Without(q)) /\ UNCHANGED <<selected, marker>>
        /\ UNCHANGED <<state, gen, locals, reported, alive, adapter, outOpen>>
        /\ HandlerFrame
    BY <1>6 DEF OnStackTrace
  <2>1. stack' \in Nat
    BY ReceiveType DEF Message, Shown
  <2>2. selected' \in 0 .. NFrames /\ marker' \in Shown
    BY <1>0, <2>1 DEF SelectFrame, Shown, TypeOK
  <2>3. pending' \in SUBSET Pending /\ nextSeq' \in Nat /\ toAdapter' \in Seq(Request)
    <3>1. CASE Issue(<<Req("scopes", Preferred, {})>>, Without(q), gen)
      BY <1>0, <3>1, IssueSends, OneCommand DEF Without
    <3>2. CASE Settle(Without(q))
      BY <1>0, <3>2 DEF Settle, Without, TypeOK
    <3> QED BY <3>1, <3>2
  <2> QED BY <2>1, <2>2, <2>3, HandlerType DEF TypeOK
<1>7. ASSUME OnScopes PROVE TypeOK'
  <2> PICK q \in pending :
        /\ Receive
        /\ \/ Issue(<<Req("variables", Incoming.body.frame, {})>>, Without(q), gen)
           \/ Settle(Without(q))
        /\ UNCHANGED <<viewVars, alive, adapter, outOpen>>
        /\ HandlerFrame
    BY <1>7 DEF OnScopes
  <2>1. Incoming.body.frame \in 0 .. NFrames
    BY ReceiveType DEF Message, Shown
  <2>2. pending' \in SUBSET Pending /\ nextSeq' \in Nat /\ toAdapter' \in Seq(Request)
    <3>1. CASE Issue(<<Req("variables", Incoming.body.frame, {})>>, Without(q), gen)
      BY <1>0, <2>1, <3>1, IssueSends, OneCommand DEF Without
    <3>2. CASE Settle(Without(q))
      BY <1>0, <3>2 DEF Settle, Without, TypeOK
    <3> QED BY <3>1, <3>2
  <2> QED BY <2>2, HandlerType DEF TypeOK
<1>8. ASSUME OnVariables PROVE TypeOK'
  <2>1. locals' \in Shown /\ Receive
    BY <1>8, ReceiveType DEF OnVariables, Message
  <2> QED BY <1>0, <1>8, <2>1, HandlerType DEF OnVariables, Settle, Without, TypeOK
<1>9. ASSUME OnInitializedEvent PROVE TypeOK'
  <2> DEFINE reqs == <<Req("setBreakpoints", 0, bps), Req("setExceptionBreakpoints", 0, {}),
                       Req("configurationDone", 0, {})>>
  <2>1. Issue(reqs, pending, gen)
    BY <1>9 DEF OnInitializedEvent
  <2>2. reqs \in Seq(Command)
    BY <1>0, ReqType DEF TypeOK
  <2> HIDE DEF reqs
  <2>3. pending' \in SUBSET Pending /\ nextSeq' \in Nat /\ toAdapter' \in Seq(Request)
    BY <1>0, <2>1, <2>2, IssueSends
  <2> QED BY <1>9, <2>3, HandlerType DEF OnInitializedEvent, TypeOK
<1>10. ASSUME OnStopped PROVE TypeOK'
  <2>1. pending' \in SUBSET Pending /\ nextSeq' \in Nat /\ toAdapter' \in Seq(Request)
    BY <1>0, <1>10, IssueSends, OneCommand DEF OnStopped
  <2> QED BY <1>10, <2>1, HandlerType DEF OnStopped, TypeOK, States
<1>11. ASSUME OnContinued PROVE TypeOK'
  BY <1>0, <1>11, HandlerType DEF OnContinued, ClearStoppedUi, Settle, TypeOK, States
<1>12. ASSUME OnTerminated PROVE TypeOK'
  BY <1>0, <1>12, EndSessionType, HandlerType DEF OnTerminated, Settle, TypeOK
<1>13. ASSUME MarkExited
       PROVE  /\ state' \in States /\ gen' \in Nat /\ stack' \in Nat /\ selected' \in 0 .. NFrames
              /\ locals' \in Shown /\ marker' \in Shown /\ reported' \in BOOLEAN
              /\ alive' \in BOOLEAN /\ outOpen' \in BOOLEAN /\ exited' \in BOOLEAN
              /\ adapter' \in {"none", "up", "dead"}
              /\ pending' \in SUBSET Pending /\ nextSeq' \in Nat /\ toAdapter' \in Seq(Request)
  BY <1>0, <1>13, EndActiveType DEF MarkExited, Settle, TypeOK
<1>14. ASSUME OnEof \/ OnProcessExit PROVE TypeOK'
  <2>1. MarkExited
    BY <1>14 DEF OnEof, OnProcessExit
  <2> QED BY <1>13, <1>14, <2>1 DEF OnEof, OnProcessExit, TypeOK, boundVars
<1> QED BY <1>1, <1>2, <1>3, <1>4, <1>5, <1>6, <1>7, <1>8, <1>9, <1>10, <1>11, <1>12, <1>14,
          <1>15 DEF ClientStep

(* The adapter says one thing at a time, but for a resumption it announces. *)
LEMMA SaysOne ==
  ASSUME TypeOK, NEW m \in Message, Say(<<m>>)
  PROVE  /\ fromAdapter' \in Seq(Message) /\ Len(fromAdapter') = Len(fromAdapter) + 1
         /\ \A i \in 1 .. Len(fromAdapter) : fromAdapter'[i] = fromAdapter[i]
         /\ fromAdapter'[Len(fromAdapter) + 1] = m
BY DEF Say, TypeOK

(* Two more messages of the adapter. *)
LEMMA SaysTwo ==
  ASSUME TypeOK, NEW m \in Message, NEW n \in Message, Say(<<m>> \o <<n>>)
  PROVE  /\ fromAdapter' \in Seq(Message) /\ Len(fromAdapter') = Len(fromAdapter) + 2
         /\ \A i \in 1 .. Len(fromAdapter) : fromAdapter'[i] = fromAdapter[i]
         /\ fromAdapter'[Len(fromAdapter) + 1] = m /\ fromAdapter'[Len(fromAdapter) + 2] = n
BY DEF Say, TypeOK

(* What the adapter says are messages. *)
LEMMA MessageTypes ==
  ASSUME TypeOK
  PROVE  /\ \A s \in Nat, ok \in BOOLEAN : Response(s, ok, Nothing) \in Message
         /\ \A s \in Nat, f \in 0 .. NFrames : Response(s, TRUE, [epoch |-> epoch, frame |-> f]) \in Message
         /\ \A t \in {"initialized", "stopped", "continued", "terminated"} : Event(t) \in Message
BY ConstantsAssumption DEF Response, Event, Message, Shown, Nothing, TypeOK

(* What the adapter serves is a request. *)
LEMMA ServingType ==
  ASSUME TypeOK, NEW kind, Serving(kind)
  PROVE  Served \in Request /\ toAdapter' \in Seq(Request)
BY HeadTailProperties DEF Serving, Served, TypeOK

(* The adapter's steps keep the types. *)
LEMMA AdapterType ==
  ASSUME TypeOK, AdapterStep
  PROVE  TypeOK'
<1> USE MessageTypes
<1>0. AdapterFrame
  BY DEF AdapterStep, AdapterServes, ServeRefused, ServeInitialize, ServeLaunch,
         ServeBreakpoints, ServeConfigurationDone, ServePlain, ServeQuestion, ServeResume,
         ServeDisconnect, AnswerLaunch, RefuseLaunchLate, AnnounceInitialized,
         DebuggeeStops, DebuggeeEnds, AdapterDies
<1>1. /\ state' \in States /\ gen' \in Nat /\ stack' \in Nat /\ selected' \in 0 .. NFrames
      /\ locals' \in Shown /\ marker' \in Shown /\ reported' \in BOOLEAN
      /\ bps' \in SUBSET Lines /\ preps' \in SUBSET Nat
      /\ client' \in {"none", "process", "socket"}
      /\ alive' \in BOOLEAN /\ exited' \in BOOLEAN /\ reading' \in BOOLEAN /\ outOpen' \in BOOLEAN
      /\ pending' \in SUBSET Pending /\ nextSeq' \in Nat
      /\ sessions' \in Nat /\ ops' \in Nat /\ startToggles' \in Nat
  BY <1>0 DEF AdapterFrame, TypeOK, viewVars, clientVars, boundVars
<1> DEFINE Typed == /\ toAdapter' \in Seq(Request) /\ fromAdapter' \in Seq(Message)
                    /\ adapter' \in {"none", "up", "dead"}
                    /\ debuggee' \in {"none", "running", "stopped", "ended"}
                    /\ launch' \in Nat /\ ready' \in SUBSET {"init", "launched", "configured"}
                    /\ epoch' \in Nat /\ abps' \in SUBSET Lines
<1> SUFFICES Typed
  BY <1>1 DEF TypeOK
<1>2. ASSUME ServeRefused PROVE Typed
  BY <1>2, ServingType, SaysOne DEF ServeRefused, adapterVars, Request, TypeOK
<1>3. ASSUME ServeInitialize PROVE Typed
  BY <1>3, ServingType, SaysOne DEF ServeInitialize, adapterVars, Request, TypeOK
<1>4. ASSUME ServeLaunch PROVE Typed
  BY <1>4, ServingType DEF ServeLaunch, Request, TypeOK
<1>5. ASSUME ServeBreakpoints PROVE Typed
  BY <1>5, ServingType, SaysOne DEF ServeBreakpoints, Request, TypeOK
<1>6. ASSUME ServeConfigurationDone PROVE Typed
  BY <1>6, ServingType, SaysOne DEF ServeConfigurationDone, Request, TypeOK
<1>7. ASSUME ServePlain PROVE Typed
  BY <1>7, ServingType, SaysOne DEF ServePlain, adapterVars, Request, TypeOK
<1>8. ASSUME ServeQuestion PROVE Typed
  BY <1>8, ServingType, SaysOne DEF ServeQuestion, adapterVars, Request, TypeOK
<1>9. ASSUME ServeResume PROVE Typed
  <2>1. toAdapter' \in Seq(Request) /\ Served.seq \in Nat
    BY <1>9, ServingType DEF ServeResume, Request
  <2>2. debuggee' \in {"none", "running", "stopped", "ended"}
    BY <1>9 DEF ServeResume, TypeOK
  <2>3. \/ Say(<<Response(Served.seq, TRUE, Nothing)>> \o <<Event("continued")>>)
        \/ Say(<<Response(Served.seq, TRUE, Nothing)>> \o <<>>)
        \/ Say(<<Response(Served.seq, FALSE, Nothing)>>)
    BY <1>9 DEF ServeResume
  <2>4. <<Response(Served.seq, TRUE, Nothing)>> \o <<>> = <<Response(Served.seq, TRUE, Nothing)>>
    OBVIOUS
  <2>5. fromAdapter' \in Seq(Message)
    BY <2>1, <2>3, <2>4, SaysOne, SaysTwo
  <2> QED BY <1>9, <2>1, <2>2, <2>5 DEF ServeResume, TypeOK
<1>10. ASSUME ServeDisconnect PROVE Typed
  BY <1>10, ServingType, SaysOne DEF ServeDisconnect, Request, TypeOK
<1>11. ASSUME AnswerLaunch PROVE Typed
  BY <1>11, SaysOne DEF AnswerLaunch, TypeOK
<1>12. ASSUME RefuseLaunchLate PROVE Typed
  BY <1>12, SaysOne DEF RefuseLaunchLate, TypeOK
<1>13. ASSUME AnnounceInitialized PROVE Typed
  BY <1>13, SaysOne DEF AnnounceInitialized, TypeOK
<1>14. ASSUME DebuggeeStops PROVE Typed
  <2>1. Say(<<Event("stopped")>>) /\ Event("stopped") \in Message
    BY <1>14 DEF DebuggeeStops
  <2>2. fromAdapter' \in Seq(Message)
    BY <2>1, SaysOne
  <2> QED BY <1>14, <2>2 DEF DebuggeeStops, TypeOK
<1>15. ASSUME DebuggeeEnds PROVE Typed
  BY <1>15, SaysOne DEF DebuggeeEnds, TypeOK
<1>16. ASSUME AdapterDies PROVE Typed
  BY <1>16 DEF AdapterDies, TypeOK
<1> QED BY <1>2, <1>3, <1>4, <1>5, <1>6, <1>7, <1>8, <1>9, <1>10, <1>11, <1>12, <1>13, <1>14,
           <1>15, <1>16 DEF AdapterStep, AdapterServes

(* Every variable keeps its type, whatever the constants are.              *)
THEOREM TypeAlways == Spec => []TypeOK
<1>1. Init => TypeOK
  <2>1. <<>> \in Seq(Message) /\ <<>> \in Seq(Request) /\ Nothing \in Shown /\ 0 \in 0 .. NFrames
    BY EmptySeq, ConstantsAssumption DEF Nothing, Shown
  <2>2. Init => toAdapter \in Seq(Request) /\ fromAdapter \in Seq(Message) /\ pending \in SUBSET Pending
    BY <2>1 DEF Init
  <2>3. Init => /\ state \in States /\ gen \in Nat /\ stack \in Nat /\ selected \in 0 .. NFrames
                /\ locals \in Shown /\ marker \in Shown
    BY <2>1 DEF Init, States
  <2>4. Init => /\ bps \in SUBSET Lines /\ preps \in SUBSET Nat /\ abps \in SUBSET Lines
                /\ ready \in SUBSET {"init", "launched", "configured"}
    BY DEF Init
  <2>5. Init => /\ client \in {"none", "process", "socket"} /\ alive \in BOOLEAN
                /\ exited \in BOOLEAN /\ reading \in BOOLEAN /\ outOpen \in BOOLEAN
                /\ reported \in BOOLEAN /\ adapter \in {"none", "up", "dead"}
                /\ debuggee \in {"none", "running", "stopped", "ended"}
    BY DEF Init
  <2>6. Init => /\ nextSeq \in Nat /\ launch \in Nat /\ epoch \in Nat
                /\ sessions \in Nat /\ ops \in Nat /\ startToggles \in Nat
    BY DEF Init
  <2> QED BY <2>2, <2>3, <2>4, <2>5, <2>6 DEF TypeOK
<1>2. TypeOK /\ [Next]_vars => TypeOK'
  <2> SUFFICES ASSUME TypeOK, [Next]_vars PROVE TypeOK'
    OBVIOUS
  <2>1. CASE UNCHANGED vars
    BY <2>1 DEF vars, viewVars, clientVars, adapterVars, boundVars, TypeOK
  <2>2. CASE Next
    BY <2>2, UserType, JavaType, ClientType, AdapterType DEF Next, JavaReady
  <2> QED BY <2>1, <2>2
<1> QED BY <1>1, <1>2, PTL DEF Spec

-----------------------------------------------------------------------------
Rest == {"IDLE", "ENDED"}

(* The answers still awaited were asked for in this session or an earlier  *)
(* one; at rest, the ones that would fill the screen are all of an earlier *)
(* generation, because ending a session takes a new one.                   *)
Tokens ==
  /\ gen \in Nat
  /\ \A p \in pending : p.gen \in Nat /\ p.gen <= gen

OldAnswers == state \in Rest => \A p \in pending : p.kind \in UiKinds => p.gen < gen

ScreenInv ==
  /\ state \in States
  /\ Tokens
  /\ OldAnswers
  /\ EndedShowsNothing

-----------------------------------------------------------------------------
(* A request adds entries of its own kinds and generation to the table.    *)
LEMMA IssueAdds ==
  ASSUME NEW reqs, NEW table, NEW g, Issue(reqs, table, g), NEW p \in pending'
  PROVE  \/ p \in table
         \/ p.gen = g /\ \E i \in DOMAIN reqs : p.kind = reqs[i].kind
BY DEF Issue

(* Ending an active session leaves the screen empty and outdates whatever  *)
(* is still awaited.                                                       *)
LEMMA EndActiveScreen ==
  ASSUME ScreenInv, EndActive, pending' \subseteq pending
  PROVE  ScreenInv'
BY DEF ScreenInv, Tokens, OldAnswers, EndedShowsNothing, EndActive, ClearStoppedUi,
       States, Rest

(* So does ending a session that may have ended already. *)
LEMMA EndSessionScreen ==
  ASSUME ScreenInv, EndSession, pending' \subseteq pending
  PROVE  ScreenInv'
<1>1. CASE state \in Active /\ EndActive
  BY <1>1, EndActiveScreen
<1>2. CASE UNCHANGED viewVars
  BY <1>2 DEF ScreenInv, Tokens, OldAnswers, EndedShowsNothing, viewVars, Rest
<1> QED BY <1>1, <1>2 DEF EndSession

(* A step that leaves the view alone and adds no request but ones that     *)
(* cannot fill the screen.                                                 *)
LEMMA QuietScreen ==
  ASSUME ScreenInv, UNCHANGED viewVars,
         \A p \in pending' : p \in pending \/ (p.gen = gen /\ p.kind \notin UiKinds)
  PROVE  ScreenInv'
BY DEF ScreenInv, Tokens, OldAnswers, EndedShowsNothing, viewVars, Rest

(* A step within an active session may issue any request. *)
LEMMA ActiveScreen ==
  ASSUME ScreenInv, state' \in Active, gen' = gen,
         \A p \in pending' : p \in pending \/ p.gen = gen
  PROVE  ScreenInv'
BY DEF ScreenInv, Tokens, OldAnswers, EndedShowsNothing, Rest, Active, States

-----------------------------------------------------------------------------
LEMMA UserScreen ==
  ASSUME ScreenInv, UserOperation
  PROVE  ScreenInv'
<1>1. ASSUME StartProcess PROVE ScreenInv'
  BY <1>1 DEF StartProcess, FreshClient, ScreenInv, Tokens, OldAnswers, EndedShowsNothing,
              Rest, States
<1>2. ASSUME StartJava PROVE ScreenInv'
  BY <1>2 DEF StartJava, NoClient, ScreenInv, Tokens, OldAnswers, EndedShowsNothing,
              Rest, States
<1>3. ASSUME StartFails PROVE ScreenInv'
  BY <1>3 DEF StartFails, NoClient, ScreenInv, Tokens, OldAnswers, EndedShowsNothing,
              Rest, States
<1>4. ASSUME Stop PROVE ScreenInv'
  <2>1. \A p \in pending' : p \in pending \/ p.gen = gen
    BY <1>4, IssueAdds DEF Stop, Settle
  <2> QED BY <1>4, <2>1 DEF Stop, EndActive, ClearStoppedUi, ScreenInv, Tokens, OldAnswers,
                           EndedShowsNothing, States, Rest
<1>5. ASSUME Pause PROVE ScreenInv'
  <2>1. \A p \in pending' : p \in pending \/ p.gen = gen
    BY <1>5, IssueAdds DEF Pause, SendControl
  <2>2. UNCHANGED viewVars /\ state \in Active
    BY <1>5 DEF Pause, SendControl, Active
  <2> QED BY <2>1, <2>2, ActiveScreen DEF viewVars
<1>6. ASSUME NEW l \in Lines, ToggleBreakpoint(l) PROVE ScreenInv'
  <2>1. UNCHANGED viewVars
    BY <1>6 DEF ToggleBreakpoint
  <2>2. CASE state \in {"RUNNING", "STOPPED"} /\ Issue(<<Req("setBreakpoints", 0, bps')>>, pending, gen)
    <3>1. \A p \in pending' : p \in pending \/ p.gen = gen
      BY <2>2, IssueAdds
    <3> QED BY <2>1, <2>2, <3>1, ActiveScreen DEF viewVars, Active
  <2>3. CASE Settle(pending)
    BY <2>1, <2>3, QuietScreen DEF Settle
  <2> QED BY <1>6, <2>2, <2>3 DEF ToggleBreakpoint
<1>7. ASSUME NEW kind \in {"resume", "evaluate"}, Control(kind) PROVE ScreenInv'
  <2>1. \A p \in pending' : p \in pending \/ p.gen = gen
    BY <1>7, IssueAdds DEF Control, SendControl
  <2>2. UNCHANGED viewVars /\ state \in Active
    BY <1>7 DEF Control, SendControl, Active
  <2> QED BY <2>1, <2>2, ActiveScreen DEF viewVars
<1>8. ASSUME NEW f \in Frames, SelectRow(f) PROVE ScreenInv'
  <2>1. \A p \in pending' : p \in pending \/ p.gen = gen
    BY <1>8, IssueAdds DEF SelectRow
  <2>2. state' \in Active /\ gen' = gen
    BY <1>8 DEF SelectRow, Active
  <2> QED BY <2>1, <2>2, ActiveScreen
<1> QED BY <1>1, <1>2, <1>3, <1>4, <1>5, <1>6, <1>7, <1>8 DEF UserOperation

LEMMA JavaScreen ==
  ASSUME ScreenInv, NEW g \in preps, JavaConnected(g) \/ JavaFailed(g) \/ JavaStale(g)
  PROVE  ScreenInv'
<1>1. ASSUME JavaConnected(g) PROVE ScreenInv'
  BY <1>1 DEF JavaConnected, Current, FreshClient, viewVars, ScreenInv, Tokens, OldAnswers,
              EndedShowsNothing, Rest
<1>2. ASSUME JavaFailed(g) PROVE ScreenInv'
  BY <1>2, EndActiveScreen DEF JavaFailed
<1>3. ASSUME JavaStale(g) PROVE ScreenInv'
  BY <1>3, QuietScreen DEF JavaStale, clientVars
<1> QED BY <1>1, <1>2, <1>3

LEMMA ClientScreen ==
  ASSUME ScreenInv, ClientStep
  PROVE  ScreenInv'
<1>1. ASSUME OnUnknownResponse PROVE ScreenInv'
  BY <1>1, QuietScreen DEF OnUnknownResponse, Quietly, Settle
<1>2. ASSUME OnIgnoredResponse PROVE ScreenInv'
  BY <1>2, QuietScreen DEF OnIgnoredResponse, Quietly, Settle, Without
<1>3. ASSUME OnInitialized PROVE ScreenInv'
  <2> PICK q \in pending : /\ Issue(<<Req("launch", 0, {})>>, Without(q), gen)
                           /\ UNCHANGED viewVars
    BY <1>3 DEF OnInitialized
  <2>1. \A p \in pending' : p \in pending \/ (p.gen = gen /\ p.kind = "launch")
    BY IssueAdds DEF Without, Req
  <2> QED BY <2>1, QuietScreen DEF UiKinds
<1>4. ASSUME OnStartRefused PROVE ScreenInv'
  BY <1>4, EndSessionScreen DEF OnStartRefused, Settle, Without
<1>5. ASSUME OnConfigDone PROVE ScreenInv'
  BY <1>5, ActiveScreen DEF OnConfigDone, Settle, Without, Active
<1>15. ASSUME OnConfigRefused PROVE ScreenInv'
  BY <1>15 DEF OnConfigRefused, Settle, Without, ScreenInv, Tokens, OldAnswers, EndedShowsNothing, Rest
<1>6. ASSUME OnStackTrace PROVE ScreenInv'
  <2> PICK q \in pending :
        /\ q.kind = "stackTrace" /\ q.gen = gen
        /\ state' = state /\ gen' = gen
        /\ \/ Issue(<<Req("scopes", Preferred, {})>>, Without(q), gen)
           \/ Settle(Without(q))
    BY <1>6 DEF OnStackTrace, TokenValid
  <2>1. \A p \in pending' : p \in pending \/ p.gen = gen
    BY IssueAdds DEF Without, Settle
  <2>2. state \in Active
    BY DEF ScreenInv, OldAnswers, Tokens, UiKinds, Rest, Active, States
  <2> QED BY <2>1, <2>2, ActiveScreen
<1>7. ASSUME OnScopes PROVE ScreenInv'
  <2> PICK q \in pending :
        /\ q.kind = "scopes" /\ q.gen = gen
        /\ UNCHANGED viewVars
        /\ \/ Issue(<<Req("variables", Incoming.body.frame, {})>>, Without(q), gen)
           \/ Settle(Without(q))
    BY <1>7 DEF OnScopes, TokenValid
  <2>1. \A p \in pending' : p \in pending \/ p.gen = gen
    BY IssueAdds DEF Without, Settle
  <2>2. state \in Active
    BY DEF ScreenInv, OldAnswers, Tokens, UiKinds, Rest, Active, States
  <2> QED BY <2>1, <2>2, ActiveScreen DEF viewVars
<1>8. ASSUME OnVariables PROVE ScreenInv'
  <2> PICK q \in pending :
        /\ q.kind = "variables" /\ q.gen = gen
        /\ state' = state /\ gen' = gen /\ Settle(Without(q))
    BY <1>8 DEF OnVariables, TokenValid
  <2>1. state \in Active
    BY DEF ScreenInv, OldAnswers, Tokens, UiKinds, Rest, Active, States
  <2> QED BY <2>1, ActiveScreen DEF Settle, Without
<1>9. ASSUME OnInitializedEvent PROVE ScreenInv'
  <2> DEFINE reqs == <<Req("setBreakpoints", 0, bps), Req("setExceptionBreakpoints", 0, {}),
                       Req("configurationDone", 0, {})>>
  <2>1. Issue(reqs, pending, gen) /\ UNCHANGED viewVars
    BY <1>9 DEF OnInitializedEvent
  <2>2. \A i \in DOMAIN reqs : reqs[i].kind \notin UiKinds
    BY DEF Req, UiKinds
  <2> HIDE DEF reqs
  <2>3. \A p \in pending' : p \in pending \/ (p.gen = gen /\ p.kind \notin UiKinds)
    BY <2>1, <2>2, IssueAdds
  <2> QED BY <2>1, <2>3, QuietScreen
<1>10. ASSUME OnStopped PROVE ScreenInv'
  <2>1. \A p \in pending' : p \in pending \/ p.gen = gen
    BY <1>10, IssueAdds DEF OnStopped
  <2> QED BY <1>10, <2>1, ActiveScreen DEF OnStopped, Active
<1>11. ASSUME OnContinued PROVE ScreenInv'
  BY <1>11, ActiveScreen DEF OnContinued, Settle, Active
<1>12. ASSUME OnTerminated PROVE ScreenInv'
  BY <1>12, EndSessionScreen DEF OnTerminated, Settle
<1>13. ASSUME MarkExited PROVE ScreenInv'
  <2>1. pending' \subseteq pending
    BY <1>13 DEF MarkExited, Settle
  <2>2. CASE EndActive
    BY <2>1, <2>2, EndActiveScreen
  <2>3. CASE UNCHANGED viewVars
    BY <2>1, <2>3, QuietScreen
  <2> QED BY <1>13, <2>2, <2>3 DEF MarkExited
<1>14. ASSUME OnEof \/ OnProcessExit PROVE ScreenInv'
  BY <1>13, <1>14 DEF OnEof, OnProcessExit
<1> QED BY <1>1, <1>2, <1>3, <1>4, <1>5, <1>6, <1>7, <1>8, <1>9, <1>10, <1>11, <1>12, <1>14,
          <1>15 DEF ClientStep

LEMMA AdapterScreen ==
  ASSUME ScreenInv, AdapterStep
  PROVE  ScreenInv'
<1>1. AdapterFrame
  BY DEF AdapterStep, AdapterServes, ServeRefused, ServeInitialize, ServeLaunch,
         ServeBreakpoints, ServeConfigurationDone, ServePlain, ServeQuestion, ServeResume,
         ServeDisconnect, AnswerLaunch, RefuseLaunchLate, AnnounceInitialized,
         DebuggeeStops, DebuggeeEnds, AdapterDies
<1> QED BY <1>1, QuietScreen DEF AdapterFrame, clientVars

-----------------------------------------------------------------------------
(* Every reachable state keeps the screen's invariant. *)
LEMMA ScreenAlways == Spec => []ScreenInv
<1>1. Init => ScreenInv
  BY DEF Init, ScreenInv, Tokens, OldAnswers, EndedShowsNothing, Rest, States
<1>2. ScreenInv /\ [Next]_vars => ScreenInv'
  <2> SUFFICES ASSUME ScreenInv, [Next]_vars PROVE ScreenInv'
    OBVIOUS
  <2>1. CASE UNCHANGED vars
    BY <2>1, QuietScreen DEF vars, clientVars
  <2>2. CASE Next
    BY <2>2, UserScreen, JavaScreen, ClientScreen, AdapterScreen DEF Next, JavaReady
  <2> QED BY <2>1, <2>2
<1> QED BY <1>1, <1>2, PTL DEF Spec

(* An ended session never shows anything again, whatever answers are still *)
(* on their way (the generation check in token_valid, ide_dap.c).          *)
THEOREM EndedShowsNothingAlways == Spec => []EndedShowsNothing
<1>1. ScreenInv => EndedShowsNothing
  BY DEF ScreenInv
<1> QED BY <1>1, ScreenAlways, PTL

-----------------------------------------------------------------------------
(* The i-th message on the way is the answer to p. *)
Answered(p, i) == fromAdapter[i].type = "response" /\ fromAdapter[i].seq = p.seq

(* Numbers are given once: whatever is on the way, either way, carries one *)
(* already given, and one that is still in the table stands there for the  *)
(* same kind of request.                                                   *)
Numbered ==
  /\ \A p \in pending : p.seq < nextSeq
  /\ \A i \in 1 .. Len(toAdapter) :
       /\ toAdapter[i].seq < nextSeq
       /\ \A p \in pending : p.seq = toAdapter[i].seq => p.kind = toAdapter[i].kind
  /\ launch # 0 => launch < nextSeq /\ \A p \in pending : p.seq = launch => p.kind = "launch"
  /\ \A i \in 1 .. Len(fromAdapter) :
       fromAdapter[i].type = "response" => fromAdapter[i].seq < nextSeq

(* A request takes a number nothing on the way has. *)
LEMMA IssueNumbers ==
  ASSUME TypeOK, Numbered, NEW reqs \in Seq(Command), NEW table \in SUBSET pending,
         Issue(reqs, table, gen), launch' = launch, TypeOK',
         \A i \in 1 .. Len(fromAdapter') :
            fromAdapter'[i].type = "response" => fromAdapter'[i].seq < nextSeq
  PROVE  Numbered'
<1>0. table \in SUBSET Pending
  BY DEF TypeOK
<1>1. /\ nextSeq' \in Nat /\ nextSeq <= nextSeq' /\ nextSeq \in Nat
      /\ \A p \in pending' :
              p \in table \/ (/\ nextSeq <= p.seq /\ p.seq < nextSeq'
                              /\ p.seq - nextSeq + 1 \in 1 .. Len(reqs)
                              /\ p.kind = reqs[p.seq - nextSeq + 1].kind)
      /\ Len(toAdapter) <= Len(toAdapter')
      /\ \A i \in 1 .. Len(toAdapter) : toAdapter'[i] = toAdapter[i]
      /\ \A i \in Len(toAdapter) + 1 .. Len(toAdapter') :
              /\ i - Len(toAdapter) \in 1 .. Len(reqs)
              /\ toAdapter'[i].seq = nextSeq + (i - Len(toAdapter)) - 1
              /\ toAdapter'[i].seq < nextSeq'
              /\ toAdapter'[i].kind = reqs[i - Len(toAdapter)].kind
  BY <1>0, IssueSends DEF TypeOK
<1>2. \A p \in pending : p.seq \in Nat /\ p.seq < nextSeq
  BY DEF TypeOK, Pending, Numbered
<1> HIDE DEF TypeOK
<1>a. pending' \in SUBSET Pending
  BY DEF TypeOK
<1>b. \A i \in 1 .. Len(toAdapter) : toAdapter[i].seq \in Nat
  <2>1. toAdapter \in Seq(Request)
    BY DEF TypeOK
  <2>2. \A i \in 1 .. Len(toAdapter) : toAdapter[i] \in Request
    BY <2>1, ElementOfSeq
  <2> QED BY <2>2 DEF Request
<1>c. \A i \in 1 .. Len(fromAdapter') : fromAdapter'[i].seq \in Nat
  <2>1. fromAdapter' \in Seq(Message)
    BY DEF TypeOK
  <2>2. \A i \in 1 .. Len(fromAdapter') : fromAdapter'[i] \in Message
    BY <2>1, ElementOfSeq
  <2> QED BY <2>2 DEF Message
<1>3. \A p \in pending' : p.seq \in Nat /\ p.seq < nextSeq'
  <2>1. \A p \in pending' : p.seq \in Nat
    BY <1>a DEF Pending
  <2> QED BY <1>1, <1>2, <2>1
<1>4. ASSUME NEW i \in 1 .. Len(toAdapter')
      PROVE  /\ toAdapter'[i].seq < nextSeq'
             /\ \A p \in pending' : p.seq = toAdapter'[i].seq => p.kind = toAdapter'[i].kind
  <2>0. Len(toAdapter) \in Nat /\ Len(toAdapter') \in Nat
    <3>1. toAdapter \in Seq(Request)
      BY DEF TypeOK
    <3>2. toAdapter' \in Seq(Request)
      BY DEF TypeOK
    <3> QED BY <3>1, <3>2
  <2>1. CASE i \in 1 .. Len(toAdapter)
    <3>1. toAdapter'[i] = toAdapter[i] /\ toAdapter[i].seq \in Nat /\ toAdapter[i].seq < nextSeq
      BY <1>1, <1>b, <2>1 DEF Numbered
    <3> QED BY <1>1, <2>1, <3>1 DEF Numbered
  <2>2. CASE i \in Len(toAdapter) + 1 .. Len(toAdapter')
    <3>1. toAdapter'[i].seq = nextSeq + (i - Len(toAdapter)) - 1 /\ toAdapter'[i].seq < nextSeq'
          /\ toAdapter'[i].kind = reqs[i - Len(toAdapter)].kind
      BY <1>1, <2>2
    <3>2. ASSUME NEW p \in pending', p.seq = toAdapter'[i].seq PROVE p.kind = toAdapter'[i].kind
      <4>1. p \notin table
        BY <1>1, <1>2, <2>0, <2>2, <3>1, <3>2
      <4>2. p.seq - nextSeq + 1 = i - Len(toAdapter)
        BY <1>1, <2>0, <3>1, <3>2
      <4> QED BY <1>1, <3>1, <4>1, <4>2
    <3> QED BY <3>1, <3>2
  <2> QED BY <2>0, <2>1, <2>2
<1>5. launch' # 0 => launch' < nextSeq' /\ \A p \in pending' : p.seq = launch' => p.kind = "launch"
  BY <1>1, <1>2 DEF Numbered, TypeOK
<1>6. \A i \in 1 .. Len(fromAdapter') :
            fromAdapter'[i].type = "response" => fromAdapter'[i].seq < nextSeq'
  BY <1>1, <1>c
<1> QED BY <1>3, <1>4, <1>5, <1>6 DEF Numbered

(* Nothing is numbered anew when nothing is sent. *)
LEMMA SettleNumbers ==
  ASSUME TypeOK, Numbered, NEW table \in SUBSET pending, Settle(table), launch' = launch,
         \A i \in 1 .. Len(fromAdapter') :
            fromAdapter'[i].type = "response" => fromAdapter'[i].seq < nextSeq
  PROVE  Numbered'
BY DEF Settle, Numbered

(* A new client starts its numbers anew, with empty channels. *)
LEMMA FreshNumbers ==
  ASSUME NEW kind, NEW g, FreshClient(kind, g)
  PROVE  Numbered'
<1>1. /\ Len(toAdapter') = 1 /\ toAdapter'[1] = [seq |-> 1, kind |-> "initialize", frame |-> 0, marks |-> {}]
      /\ Len(fromAdapter') = 0
  BY DEF FreshClient
<1>2. /\ \A p \in pending' : p.seq = 1 /\ p.kind = "initialize"
      /\ nextSeq' = 2 /\ launch' = 0
  BY DEF FreshClient
<1> QED BY <1>1, <1>2 DEF Numbered

(* Without a client nothing is numbered. *)
LEMMA NoNumbers ==
  ASSUME NoClient
  PROVE  Numbered'
<1>1. Len(toAdapter') = 0 /\ Len(fromAdapter') = 0
  BY DEF NoClient
<1> QED BY <1>1 DEF NoClient, Numbered

(* Reading leaves the rest of the queue where it was, one place earlier. *)
LEMMA ReceiveTakes ==
  ASSUME TypeOK, Receive
  PROVE  /\ Len(fromAdapter') = Len(fromAdapter) - 1 /\ Len(fromAdapter) \in Nat \ {0}
         /\ \A i \in 1 .. Len(fromAdapter') : fromAdapter'[i] = fromAdapter[i + 1]
         /\ Incoming = fromAdapter[1]
BY DEF Receive, Incoming, TypeOK

(* The adapter takes the oldest request; the rest move one place up. *)
LEMMA ServingTakes ==
  ASSUME TypeOK, NEW kind, Serving(kind)
  PROVE  /\ Len(toAdapter') = Len(toAdapter) - 1 /\ Len(toAdapter) \in Nat \ {0}
         /\ \A i \in 1 .. Len(toAdapter') : toAdapter'[i] = toAdapter[i + 1]
         /\ Served = toAdapter[1] /\ Served.kind = kind
BY DEF Serving, Served, TypeOK

(* What a step of the program does with its requests. *)
Sends == \E reqs \in Seq(Command), table \in SUBSET pending : Issue(reqs, table, gen)
Keeps == \E table \in SUBSET pending : Settle(table)

(* An operation of the user starts a session, or sends at most some requests. *)
LEMMA UserSends ==
  ASSUME TypeOK, UserOperation
  PROVE  \/ StartProcess \/ StartJava \/ StartFails
         \/ fromAdapter' = fromAdapter /\ launch' = launch /\ (Sends \/ Keeps)
<1>0. /\ 0 \in 0 .. NFrames /\ {} \in SUBSET Lines /\ pending \in SUBSET pending
      /\ Frames \subseteq 0 .. NFrames /\ "disconnect" \in RequestKinds /\ "resume" \in RequestKinds
      /\ "evaluate" \in RequestKinds /\ "pause" \in RequestKinds
      /\ "scopes" \in RequestKinds /\ "setBreakpoints" \in RequestKinds
  BY ConstantsAssumption DEF Frames, RequestKinds, UiKinds
<1>1. CASE StartProcess \/ StartJava \/ StartFails
  BY <1>1 DEF StartProcess, StartJava, StartFails
<1>2. CASE Stop
  BY <1>0, <1>2, OneCommand DEF Stop, Sends, Keeps
<1>3. CASE Pause
  BY <1>0, <1>3, OneCommand DEF Pause, SendControl, Sends, adapterVars
<1>4. ASSUME NEW l \in Lines, ToggleBreakpoint(l) PROVE fromAdapter' = fromAdapter /\ launch' = launch /\ (Sends \/ Keeps)
  <2>1. bps' \in SUBSET Lines
    BY <1>4 DEF ToggleBreakpoint, TypeOK
  <2>2. <<Req("setBreakpoints", 0, bps')>> \in Seq(Command)
    BY <1>0, <2>1, OneCommand
  <2> QED BY <1>0, <1>4, <2>2 DEF ToggleBreakpoint, Sends, Keeps, adapterVars
<1>5. ASSUME NEW kind \in {"resume", "evaluate"}, Control(kind) PROVE fromAdapter' = fromAdapter /\ launch' = launch /\ (Sends \/ Keeps)
  BY <1>0, <1>5, OneCommand DEF Control, SendControl, Sends, adapterVars
<1>6. ASSUME NEW f \in Frames, SelectRow(f) PROVE fromAdapter' = fromAdapter /\ launch' = launch /\ (Sends \/ Keeps)
  BY <1>0, <1>6, OneCommand DEF SelectRow, Sends, adapterVars
<1> QED BY <1>1, <1>2, <1>3, <1>4, <1>5, <1>6 DEF UserOperation

(* A handler reads at most one message and sends at most some requests. *)
LEMMA ClientSends ==
  ASSUME TypeOK, ClientStep
  PROVE  /\ launch' = launch /\ (Sends \/ Keeps)
         /\ Receive \/ fromAdapter' = fromAdapter
<1>0. /\ 0 \in 0 .. NFrames /\ {} \in SUBSET Lines /\ Preferred \in 0 .. NFrames
      /\ RequestKinds = UiKinds \cup
            {"initialize", "launch", "setBreakpoints", "setExceptionBreakpoints",
             "configurationDone", "resume", "pause", "evaluate", "disconnect"}
      /\ UiKinds = {"stackTrace", "scopes", "variables"}
      /\ \A q : pending \ {q} \in SUBSET pending
      /\ pending \in SUBSET pending /\ {} \in SUBSET pending
  BY ConstantsAssumption, PreferredIsAFrame DEF Frames, RequestKinds, UiKinds
<1>1. CASE OnUnknownResponse \/ OnIgnoredResponse
  BY <1>0, <1>1 DEF OnUnknownResponse, OnIgnoredResponse, Quietly, HandlerFrame, Without, Keeps
<1>2. CASE OnInitialized
  BY <1>0, <1>2, OneCommand DEF OnInitialized, HandlerFrame, Without, Sends
<1>3. CASE OnStartRefused \/ OnConfigDone \/ OnConfigRefused \/ OnVariables
  BY <1>0, <1>3 DEF OnStartRefused, OnConfigDone, OnConfigRefused, OnVariables, HandlerFrame, Without, Keeps
<1>4. CASE OnStackTrace
  BY <1>0, <1>4, OneCommand DEF OnStackTrace, HandlerFrame, Without, Sends, Keeps
<1>5. CASE OnScopes
  <2> PICK q \in pending :
        /\ Receive /\ HandlerFrame
        /\ \/ Issue(<<Req("variables", Incoming.body.frame, {})>>, Without(q), gen)
           \/ Settle(Without(q))
    BY <1>5 DEF OnScopes
  <2>1. Incoming.body.frame \in 0 .. NFrames
    BY ReceiveType DEF Message, Shown
  <2> QED BY <1>0, <2>1, OneCommand DEF HandlerFrame, Without, Sends, Keeps
<1>6. CASE OnInitializedEvent
  <2> DEFINE reqs == <<Req("setBreakpoints", 0, bps), Req("setExceptionBreakpoints", 0, {}),
                       Req("configurationDone", 0, {})>>
  <2>1. Issue(reqs, pending, gen) /\ Receive /\ HandlerFrame
    BY <1>6 DEF OnInitializedEvent
  <2>2. reqs \in Seq(Command)
    BY <1>0, ReqType DEF TypeOK
  <2> HIDE DEF reqs
  <2> QED BY <1>0, <2>1, <2>2 DEF HandlerFrame, Sends
<1>7. CASE OnStopped
  BY <1>0, <1>7, OneCommand DEF OnStopped, HandlerFrame, Sends
<1>8. CASE OnContinued \/ OnTerminated
  BY <1>0, <1>8 DEF OnContinued, OnTerminated, HandlerFrame, Keeps
<1>9. CASE OnEof \/ OnProcessExit
  BY <1>0, <1>9 DEF OnEof, OnProcessExit, MarkExited, Keeps
<1> QED BY <1>1, <1>2, <1>3, <1>4, <1>5, <1>6, <1>7, <1>8, <1>9 DEF ClientStep

(* Reading a message leaves every answer on the way to a number already given. *)
LEMMA MessagesNumbered ==
  ASSUME TypeOK, Numbered, Receive \/ fromAdapter' = fromAdapter
  PROVE  \A i \in 1 .. Len(fromAdapter') :
            fromAdapter'[i].type = "response" => fromAdapter'[i].seq < nextSeq
<1>1. CASE Receive
  BY <1>1, ReceiveTakes DEF Numbered
<1>2. CASE fromAdapter' = fromAdapter
  BY <1>2 DEF Numbered
<1> QED BY <1>1, <1>2

(* Whoever sends numbers its requests anew, so no message on the way answers them. *)
LEMMA SendsNumbers ==
  ASSUME TypeOK, TypeOK', Numbered, Sends \/ Keeps, launch' = launch,
         Receive \/ fromAdapter' = fromAdapter
  PROVE  /\ Numbered'
         /\ \A p \in pending' : p \in pending \/ (p.gen = gen /\ nextSeq <= p.seq)
<1>1. CASE Sends
  <2> PICK reqs \in Seq(Command), table \in SUBSET pending : Issue(reqs, table, gen)
    BY <1>1 DEF Sends
  <2>1. Numbered'
    BY IssueNumbers, MessagesNumbered
  <2>2. table \in SUBSET Pending
    BY DEF TypeOK
  <2> QED BY <2>1, <2>2, IssueSends
<1>2. CASE Keeps
  BY <1>2, SettleNumbers, MessagesNumbered DEF Keeps, Settle
<1> QED BY <1>1, <1>2

-----------------------------------------------------------------------------
(* Where the debuggee is paused, as the view will see it: before the       *)
(* message at a place no resumption follows the last stop.                 *)
Resumes(i) == fromAdapter[i].type = "continued"
Stops(i) == fromAdapter[i].type = "stopped"
Still == state \in {"STOPPED"} \cup Rest

PausedAt(i) ==
  \/ \E j \in 1 .. i - 1 : Stops(j) /\ \A k \in j + 1 .. i - 1 : ~Resumes(k)
  \/ Still /\ \A k \in 1 .. i - 1 : ~Resumes(k)

(* An answer that fills the screen, to a request that is still valid, finds*)
(* the session paused when it is handled; and a paused debuggee has said so.*)
AnswersOnPause ==
  \A p \in pending : \A i \in 1 .. Len(fromAdapter) :
     p.kind \in UiKinds /\ p.gen = gen /\ Answered(p, i) /\ fromAdapter[i].ok => PausedAt(i)

StopAnnounced == debuggee = "stopped" => PausedAt(Len(fromAdapter) + 1)

PauseInv == Numbered /\ AnswersOnPause /\ StopAnnounced /\ ShownOnlyWhilePaused

(* A place after which the debuggee is paused stays one when messages follow. *)
LEMMA PausedGrows ==
  ASSUME Len(fromAdapter) \in Nat, Len(fromAdapter') \in Nat, Len(fromAdapter) <= Len(fromAdapter'),
         \A i \in 1 .. Len(fromAdapter) : fromAdapter'[i] = fromAdapter[i],
         Still => Still', NEW i \in 1 .. Len(fromAdapter) + 1, PausedAt(i)
  PROVE  PausedAt(i)'
<1>1. \A k \in 1 .. i - 1 : (Resumes(k)' <=> Resumes(k)) /\ (Stops(k)' <=> Stops(k))
  BY DEF Resumes, Stops
<1> QED BY <1>1 DEF PausedAt

(* So does the place after the next message, unless that announces a resumption. *)
LEMMA PausedPast ==
  ASSUME NEW n \in Nat, Len(fromAdapter) = n, Len(fromAdapter') = n + 1,
         \A i \in 1 .. n : fromAdapter'[i] = fromAdapter[i],
         fromAdapter'[n + 1].type # "continued",
         Still => Still', PausedAt(n + 1)
  PROVE  PausedAt(n + 2)'
<1>1. \A k \in 1 .. n : (Resumes(k)' <=> Resumes(k)) /\ (Stops(k)' <=> Stops(k))
  BY DEF Resumes, Stops
<1>2. ~Resumes(n + 1)'
  BY DEF Resumes
<1>3. CASE \E j \in 1 .. n : Stops(j) /\ \A k \in j + 1 .. n : ~Resumes(k)
  <2> PICK j \in 1 .. n : Stops(j) /\ \A k \in j + 1 .. n : ~Resumes(k)
    BY <1>3
  <2>1. j \in 1 .. n + 1 /\ Stops(j)'
    BY <1>1
  <2>2. \A k \in j + 1 .. n + 1 : ~Resumes(k)'
    BY <1>1, <1>2
  <2> QED BY <2>1, <2>2 DEF PausedAt
<1>4. CASE Still /\ \A k \in 1 .. n : ~Resumes(k)
  <2>1. \A k \in 1 .. n + 1 : ~Resumes(k)'
    BY <1>1, <1>2, <1>4
  <2> QED BY <1>4, <2>1 DEF PausedAt
<1> QED BY <1>3, <1>4 DEF PausedAt

(* When the view has handled the oldest message, what held after it at a place*)
(* holds one place earlier.                                                *)
LEMMA PausedNext ==
  ASSUME TypeOK, Receive,
         Incoming.type = "stopped" => state' = "STOPPED",
         Incoming.type # "continued" => (Still => Still'),
         NEW i \in Nat \ {0}, PausedAt(i + 1), i \in 1 .. Len(fromAdapter') + 1
  PROVE  PausedAt(i)'
<1>1. /\ \A k \in 1 .. i - 1 : (Resumes(k)' <=> Resumes(k + 1)) /\ (Stops(k)' <=> Stops(k + 1))
      /\ (Incoming.type = "continued" <=> Resumes(1)) /\ (Incoming.type = "stopped" <=> Stops(1))
  BY ReceiveTakes DEF Resumes, Stops
<1>2. CASE \E j \in 1 .. i : Stops(j) /\ \A k \in j + 1 .. i : ~Resumes(k)
  <2> PICK j \in 1 .. i : Stops(j) /\ \A k \in j + 1 .. i : ~Resumes(k)
    BY <1>2
  <2>1. CASE j = 1
    BY <1>1, <2>1 DEF PausedAt, Still
  <2>2. CASE j # 1
    <3>1. j - 1 \in 1 .. i - 1 /\ Stops(j - 1)' /\ \A k \in j .. i - 1 : ~Resumes(k)'
      BY <1>1, <2>2
    <3> QED BY <3>1 DEF PausedAt
  <2> QED BY <2>1, <2>2
<1>3. CASE Still /\ \A k \in 1 .. i : ~Resumes(k)
  BY <1>1, <1>3 DEF PausedAt
<1> QED BY <1>2, <1>3 DEF PausedAt

(* What the adapter does to the channels: it takes at most one request,    *)
(* and says at most one thing, but for a resumption it announces.          *)
Takes == UNCHANGED toAdapter \/ \E kind : Serving(kind)

(* An adapter that answers only what it was asked keeps the numbers. *)
LEMMA AdapterNumbers ==
  ASSUME TypeOK, Numbered, AdapterFrame, Takes,
         \/ launch' \in {0, launch}
         \/ Serving("launch") /\ launch' = Served.seq,
         Len(fromAdapter) <= Len(fromAdapter'),
         \A i \in 1 .. Len(fromAdapter) : fromAdapter'[i] = fromAdapter[i],
         \A i \in Len(fromAdapter) + 1 .. Len(fromAdapter') :
            fromAdapter'[i].type = "response" => fromAdapter'[i].seq < nextSeq
  PROVE  Numbered'
<1>0. pending' = pending /\ nextSeq' = nextSeq
  BY DEF AdapterFrame, clientVars
<1>1. \A i \in 1 .. Len(fromAdapter') :
            fromAdapter'[i].type = "response" => fromAdapter'[i].seq < nextSeq
  <2> SUFFICES ASSUME NEW i \in 1 .. Len(fromAdapter'), fromAdapter'[i].type = "response"
               PROVE  fromAdapter'[i].seq < nextSeq
    OBVIOUS
  <2>0. Len(fromAdapter) \in Nat
    BY DEF TypeOK
  <2>1. CASE i \in 1 .. Len(fromAdapter)
    BY <2>1 DEF Numbered
  <2>2. CASE i \in Len(fromAdapter) + 1 .. Len(fromAdapter')
    BY <2>2
  <2> QED BY <2>0, <2>1, <2>2
<1>2. \A i \in 1 .. Len(toAdapter') :
         /\ toAdapter'[i].seq < nextSeq
         /\ \A p \in pending : p.seq = toAdapter'[i].seq => p.kind = toAdapter'[i].kind
  <2>1. CASE UNCHANGED toAdapter
    BY <2>1 DEF Numbered
  <2>2. ASSUME NEW kind, Serving(kind)
        PROVE  \A i \in 1 .. Len(toAdapter') :
                  /\ toAdapter'[i].seq < nextSeq
                  /\ \A p \in pending : p.seq = toAdapter'[i].seq => p.kind = toAdapter'[i].kind
    <3>1. \A i \in 1 .. Len(toAdapter') : toAdapter'[i] = toAdapter[i + 1] /\ i + 1 \in 1 .. Len(toAdapter)
      BY <2>2, ServingTakes
    <3> QED BY <3>1 DEF Numbered
  <2> QED BY <2>1, <2>2 DEF Takes
<1>3. launch' # 0 => launch' < nextSeq /\ \A p \in pending : p.seq = launch' => p.kind = "launch"
  <2>1. CASE launch' \in {0, launch}
    BY <2>1 DEF Numbered
  <2>2. CASE Serving("launch") /\ launch' = Served.seq
    <3>1. launch' = toAdapter[1].seq /\ toAdapter[1].kind = "launch" /\ 1 \in 1 .. Len(toAdapter)
      BY <2>2, ServingTakes
    <3> QED BY <3>1 DEF Numbered
  <2> QED BY <2>1, <2>2
<1> QED BY <1>0, <1>1, <1>2, <1>3 DEF Numbered

(* Messages are only added, at the end. *)
Extends ==
  /\ Len(fromAdapter) \in Nat /\ Len(fromAdapter') \in Nat /\ Len(fromAdapter) <= Len(fromAdapter')
  /\ \A i \in 1 .. Len(fromAdapter) : fromAdapter'[i] = fromAdapter[i]

(* New messages keep the answers on pauses when the new answers are on pauses. *)
LEMMA AnswersGrow ==
  ASSUME AnswersOnPause, AdapterFrame, Extends,
         \A p \in pending : \A i \in Len(fromAdapter) + 1 .. Len(fromAdapter') :
            p.kind \in UiKinds /\ fromAdapter'[i].type = "response" /\ fromAdapter'[i].seq = p.seq
            /\ fromAdapter'[i].ok => PausedAt(i)'
  PROVE  AnswersOnPause'
<1>0. pending' = pending /\ gen' = gen /\ state' = state
  BY DEF AdapterFrame, clientVars, viewVars
<1> SUFFICES ASSUME NEW p \in pending, NEW i \in 1 .. Len(fromAdapter'),
                    p.kind \in UiKinds, p.gen = gen, Answered(p, i)', fromAdapter'[i].ok
             PROVE  PausedAt(i)'
  BY <1>0 DEF AnswersOnPause, Answered
<1>1. CASE i \in 1 .. Len(fromAdapter)
  <2>1. fromAdapter'[i] = fromAdapter[i] /\ i \in 1 .. Len(fromAdapter) + 1
    BY <1>1 DEF Extends
  <2>2. PausedAt(i)
    BY <1>1, <2>1 DEF AnswersOnPause, Answered
  <2>3. Still => Still'
    BY <1>0 DEF Still
  <2> QED BY <2>1, <2>2, <2>3, PausedGrows DEF Extends
<1>2. CASE i \in Len(fromAdapter) + 1 .. Len(fromAdapter')
  BY <1>2 DEF Answered
<1> QED BY <1>1, <1>2 DEF Extends

(* One more message that does not resume, an answer of a paused debuggee or of*)
(* another kind, keeps the invariant.                                      *)
LEMMA AdapterOnePause ==
  ASSUME PauseInv, AdapterFrame, NEW n \in Nat, Len(fromAdapter) = n, Len(fromAdapter') = n + 1,
         \A i \in 1 .. n : fromAdapter'[i] = fromAdapter[i],
         fromAdapter'[n + 1].type # "continued",
         fromAdapter'[n + 1].type = "response" /\ fromAdapter'[n + 1].ok =>
            debuggee = "stopped" \/ \A p \in pending : p.seq = fromAdapter'[n + 1].seq => p.kind \notin UiKinds,
         debuggee' = "stopped" => debuggee = "stopped" \/ fromAdapter'[n + 1].type = "stopped"
  PROVE  AnswersOnPause' /\ StopAnnounced' /\ ShownOnlyWhilePaused'
<1>0. pending' = pending /\ gen' = gen /\ UNCHANGED viewVars /\ (Still => Still') /\ Extends
  BY DEF AdapterFrame, clientVars, viewVars, Still, Extends
<1>1. ASSUME debuggee = "stopped" PROVE PausedAt(n + 1)' /\ PausedAt(n + 2)'
  <2>1. PausedAt(n + 1)
    BY <1>1 DEF PauseInv, StopAnnounced
  <2>2. PausedAt(n + 1)'
    BY <1>0, <2>1, PausedGrows
  <2> QED BY <1>0, <2>1, <2>2, PausedPast
<1>2. AnswersOnPause'
  <2>1. ASSUME NEW p \in pending, NEW i \in n + 1 .. n + 1, p.kind \in UiKinds,
               fromAdapter'[i].type = "response", fromAdapter'[i].seq = p.seq, fromAdapter'[i].ok
        PROVE  PausedAt(i)'
    BY <1>1, <2>1
  <2> QED BY <1>0, <2>1, AnswersGrow DEF PauseInv
<1>3. StopAnnounced'
  <2>1. CASE debuggee = "stopped"
    BY <1>1, <2>1 DEF StopAnnounced
  <2>2. CASE fromAdapter'[n + 1].type = "stopped"
    <3>1. Stops(n + 1)' /\ n + 1 \in 1 .. n + 1 /\ \A k \in n + 2 .. n + 1 : ~Resumes(k)'
      BY <2>2 DEF Stops
    <3>2. PausedAt(n + 2)'
      BY <3>1 DEF PausedAt
    <3> QED BY <3>2 DEF StopAnnounced
  <2> QED BY <2>1, <2>2 DEF StopAnnounced
<1>4. ShownOnlyWhilePaused'
  BY <1>0 DEF PauseInv, ShownOnlyWhilePaused, viewVars
<1> QED BY <1>2, <1>3, <1>4

(* So does saying nothing. *)
LEMMA AdapterSilentPause ==
  ASSUME PauseInv, AdapterFrame, fromAdapter' = fromAdapter, Len(fromAdapter) \in Nat,
         debuggee' = "stopped" => debuggee = "stopped"
  PROVE  AnswersOnPause' /\ StopAnnounced' /\ ShownOnlyWhilePaused'
<1>0. pending' = pending /\ gen' = gen /\ UNCHANGED viewVars /\ (Still => Still') /\ Extends
  BY DEF AdapterFrame, clientVars, viewVars, Still, Extends
<1>1. AnswersOnPause'
  BY <1>0, AnswersGrow DEF PauseInv
<1>2. StopAnnounced'
  <2> SUFFICES ASSUME debuggee = "stopped" PROVE PausedAt(Len(fromAdapter) + 1)'
    BY DEF StopAnnounced
  <2>1. PausedAt(Len(fromAdapter) + 1)
    BY DEF PauseInv, StopAnnounced
  <2> QED BY <1>0, <2>1 DEF PausedAt, Resumes, Stops
<1>3. ShownOnlyWhilePaused'
  BY <1>0 DEF PauseInv, ShownOnlyWhilePaused, viewVars
<1> QED BY <1>1, <1>2, <1>3

(* The request being served has a number the table knows by its kind. *)
LEMMA ServedNumber ==
  ASSUME TypeOK, Numbered, NEW kind, Serving(kind)
  PROVE  /\ Served.seq \in Nat /\ Served.seq < nextSeq
         /\ \A p \in pending : p.seq = Served.seq => p.kind = kind
<1>1. Served \in Request /\ Served = toAdapter[1] /\ Served.kind = kind /\ 1 \in 1 .. Len(toAdapter)
  BY ServingType, ServingTakes
<1> QED BY <1>1 DEF Numbered, Request

(* Every step of the adapter keeps the answers to questions on pauses. *)
LEMMA AdapterPause ==
  ASSUME TypeOK, PauseInv, AdapterStep
  PROVE  PauseInv'
<1> USE MessageTypes
<1>0. AdapterFrame /\ Len(fromAdapter) \in Nat /\ Numbered
  BY DEF AdapterStep, AdapterServes, ServeRefused, ServeInitialize, ServeLaunch,
         ServeBreakpoints, ServeConfigurationDone, ServePlain, ServeQuestion, ServeResume,
         ServeDisconnect, AnswerLaunch, RefuseLaunchLate, AnnounceInitialized,
         DebuggeeStops, DebuggeeEnds, AdapterDies, TypeOK, PauseInv
<1>a. ASSUME NEW ok \in BOOLEAN, NEW f \in Shown, NEW kind, Serving(kind),
             Say(<<Response(Served.seq, ok, f)>>),
             launch' = launch, debuggee' = "stopped" => debuggee = "stopped",
             ok => debuggee = "stopped" \/ kind \notin UiKinds
      PROVE  PauseInv'
  <2> DEFINE m == Response(Served.seq, ok, f)
  <2> PICK n \in Nat : n = Len(fromAdapter)
    BY <1>0
  <2>1. Served.seq < nextSeq /\ \A p \in pending : p.seq = Served.seq => p.kind = kind
    BY <1>0, <1>a, ServedNumber
  <2>2. m \in Message /\ m.type = "response" /\ m.seq = Served.seq /\ m.ok = ok
    BY <1>0, <1>a, ServedNumber DEF Response, Message
  <2> HIDE DEF m
  <2>3. /\ Len(fromAdapter') = n + 1 /\ fromAdapter'[n + 1] = m
        /\ \A i \in 1 .. n : fromAdapter'[i] = fromAdapter[i]
    BY <1>a, <2>2, SaysOne DEF m
  <2>4. \A i \in n + 1 .. n + 1 : fromAdapter'[i].type = "response" => fromAdapter'[i].seq < nextSeq
    <3> \A i \in n + 1 .. n + 1 : i = n + 1
      OBVIOUS
    <3> QED BY <2>1, <2>2, <2>3
  <2>5. Numbered'
    <3>1. Takes /\ launch' \in {0, launch}
      BY <1>a DEF Takes
    <3> QED BY <1>0, <2>3, <2>4, <3>1, AdapterNumbers
  <2>6. AnswersOnPause' /\ StopAnnounced' /\ ShownOnlyWhilePaused'
    <3>2. m.type = "response" /\ m.ok =>
             debuggee = "stopped" \/ \A p \in pending : p.seq = m.seq => p.kind \notin UiKinds
      BY <1>a, <2>1, <2>2
    <3>3. fromAdapter'[n + 1].type # "continued"
      BY <2>2, <2>3
    <3> QED BY <1>0, <1>a, <2>3, <3>2, <3>3, AdapterOnePause
  <2> QED BY <2>5, <2>6 DEF PauseInv
<1>b. Nothing \in Shown /\ \A f \in 0 .. NFrames : [epoch |-> epoch, frame |-> f] \in Shown
  BY ConstantsAssumption DEF Nothing, Shown, TypeOK
<1>2. ASSUME ServeRefused PROVE PauseInv'
  BY <1>2, <1>a, <1>b DEF ServeRefused, adapterVars
<1>3. ASSUME ServeInitialize PROVE PauseInv'
  BY <1>3, <1>a, <1>b DEF ServeInitialize, adapterVars, UiKinds
<1>4. ASSUME ServeLaunch PROVE PauseInv'
  <2>1. Serving("launch") /\ launch' = Served.seq /\ fromAdapter' = fromAdapter /\ debuggee' = debuggee
    BY <1>4 DEF ServeLaunch
  <2>2. Takes
    BY <2>1 DEF Takes
  <2>3. Numbered'
    BY <1>0, <2>1, <2>2, AdapterNumbers
  <2> QED BY <1>0, <2>1, <2>3, AdapterSilentPause DEF PauseInv
<1>5. ASSUME ServeBreakpoints PROVE PauseInv'
  BY <1>5, <1>a, <1>b DEF ServeBreakpoints, UiKinds
<1>6. ASSUME ServeConfigurationDone PROVE PauseInv'
  BY <1>6, <1>a, <1>b DEF ServeConfigurationDone, UiKinds
<1>7. ASSUME ServePlain PROVE PauseInv'
  BY <1>7, <1>a, <1>b DEF ServePlain, adapterVars, UiKinds
<1>8. ASSUME ServeQuestion PROVE PauseInv'
  <2> PICK kind \in UiKinds :
        /\ Serving(kind)
        /\ \/ /\ debuggee = "stopped"
              /\ \/ Say(<<Response(Served.seq, TRUE, [epoch |-> epoch, frame |-> Served.frame])>>)
                 \/ Say(<<Response(Served.seq, TRUE, Nothing)>>)
           \/ Say(<<Response(Served.seq, FALSE, Nothing)>>)
        /\ UNCHANGED adapterVars
    BY <1>8 DEF ServeQuestion
  <2>1. [epoch |-> epoch, frame |-> Served.frame] \in Shown
    BY <1>b, ServingType DEF Request
  <2> QED BY <1>a, <1>b, <2>1 DEF adapterVars
<1>9. ASSUME ServeResume PROVE PauseInv'
  <2>0. Serving("resume") /\ launch' = launch
    BY <1>9 DEF ServeResume
  <2>1. CASE /\ debuggee' = "running" /\ SaysContinued
             /\ Say(<<Response(Served.seq, TRUE, Nothing)>> \o <<Event("continued")>>)
    <3> DEFINE n == Len(fromAdapter)  m == Response(Served.seq, TRUE, Nothing)  e == Event("continued")
    <3>1. Served.seq \in Nat /\ Served.seq < nextSeq /\ \A p \in pending : p.seq = Served.seq => p.kind = "resume"
      BY <1>0, <2>0, ServedNumber
    <3>2. /\ m \in Message /\ m.type = "response" /\ m.seq = Served.seq
          /\ e \in Message /\ e.type = "continued"
      BY <3>1, <1>b DEF Response, Event, Message
    <3> HIDE DEF m, e
    <3>3. /\ Len(fromAdapter') = n + 2 /\ \A i \in 1 .. n : fromAdapter'[i] = fromAdapter[i]
          /\ fromAdapter'[n + 1] = m /\ fromAdapter'[n + 2] = e
      BY <2>1, <3>2, SaysTwo DEF m, e
    <3>4. \A i \in n + 1 .. n + 2 : fromAdapter'[i].type = "response" => fromAdapter'[i].seq = Served.seq
      BY <1>0, <3>2, <3>3
    <3>5. Numbered'
      <4>1. Takes /\ launch' \in {0, launch}
        BY <2>0 DEF Takes
      <4> QED BY <1>0, <3>1, <3>3, <3>4, <4>1, AdapterNumbers
    <3>6. AnswersOnPause'
      BY <1>0, <3>1, <3>3, <3>4, AnswersGrow DEF PauseInv, UiKinds, Extends
    <3>7. StopAnnounced' /\ ShownOnlyWhilePaused'
      BY <1>0, <2>1 DEF StopAnnounced, PauseInv, AdapterFrame, viewVars, ShownOnlyWhilePaused
    <3> QED BY <3>5, <3>6, <3>7 DEF PauseInv
  <2>2. CASE Say(<<Response(Served.seq, TRUE, Nothing)>> \o <<>>) /\ debuggee' = "running"
    <3>1. <<Response(Served.seq, TRUE, Nothing)>> \o <<>> = <<Response(Served.seq, TRUE, Nothing)>>
      OBVIOUS
    <3>2. Say(<<Response(Served.seq, TRUE, Nothing)>>)
      BY <2>2, <3>1
    <3> QED BY <1>a, <1>b, <2>0, <2>2, <3>2 DEF UiKinds
  <2>3. CASE Say(<<Response(Served.seq, FALSE, Nothing)>>) /\ debuggee' = debuggee
    BY <1>a, <1>b, <2>0, <2>3
  <2> QED BY <1>9, <2>1, <2>2, <2>3 DEF ServeResume
<1>10. ASSUME ServeDisconnect PROVE PauseInv'
  BY <1>10, <1>a, <1>b DEF ServeDisconnect, UiKinds
<1>c. ASSUME NEW m \in Message, Say(<<m>>), m.type # "continued", UNCHANGED toAdapter,
             launch' \in {0, launch},
             m.type = "response" => /\ m.seq < nextSeq
                                    /\ m.ok => \A p \in pending : p.seq = m.seq => p.kind = "launch",
             debuggee' = "stopped" => debuggee = "stopped" \/ m.type = "stopped"
      PROVE  PauseInv'
  <2> PICK n \in Nat : n = Len(fromAdapter)
    BY <1>0
  <2>3. /\ Len(fromAdapter') = n + 1 /\ fromAdapter'[n + 1] = m
        /\ \A i \in 1 .. n : fromAdapter'[i] = fromAdapter[i]
    BY <1>c, SaysOne
  <2>4. \A i \in n + 1 .. n + 1 : fromAdapter'[i].type = "response" => fromAdapter'[i].seq < nextSeq
    <3> \A i \in n + 1 .. n + 1 : i = n + 1
      OBVIOUS
    <3> QED BY <1>c, <2>3
  <2>5. Numbered'
    BY <1>0, <1>c, <2>3, <2>4, AdapterNumbers DEF Takes
  <2>6. AnswersOnPause' /\ StopAnnounced' /\ ShownOnlyWhilePaused'
    <3>1. m.type = "response" /\ m.ok =>
             debuggee = "stopped" \/ \A p \in pending : p.seq = m.seq => p.kind \notin UiKinds
      BY <1>c DEF UiKinds
    <3> QED BY <1>0, <1>c, <2>3, <3>1, AdapterOnePause
  <2> QED BY <2>5, <2>6 DEF PauseInv
<1>d. \A t \in {"initialized", "stopped", "terminated"} : Event(t).type = t
  BY DEF Event
<1>e. ASSUME launch # 0, NEW ok \in BOOLEAN
      PROVE  LET m == Response(launch, ok, Nothing)
             IN /\ m \in Message /\ m.type = "response" /\ m.seq < nextSeq
                /\ \A p \in pending : p.seq = m.seq => p.kind = "launch"
  BY <1>0, <1>b, <1>e DEF Numbered, Response, Message, TypeOK
<1>11. ASSUME AnswerLaunch PROVE PauseInv'
  <2>1. Say(<<Response(launch, TRUE, Nothing)>>) /\ launch # 0 /\ launch' = 0 /\ UNCHANGED toAdapter
        /\ debuggee' # "stopped"
    BY <1>11 DEF AnswerLaunch
  <2> QED BY <1>c, <1>e, <2>1
<1>12. ASSUME RefuseLaunchLate PROVE PauseInv'
  <2>1. Say(<<Response(launch, FALSE, Nothing)>>) /\ launch # 0 /\ launch' = 0 /\ UNCHANGED toAdapter
        /\ debuggee' = debuggee
    BY <1>12 DEF RefuseLaunchLate
  <2> QED BY <1>c, <1>e, <2>1
<1>13. ASSUME AnnounceInitialized PROVE PauseInv'
  BY <1>13, <1>c, <1>d DEF AnnounceInitialized
<1>14. ASSUME DebuggeeStops PROVE PauseInv'
  BY <1>14, <1>c, <1>d DEF DebuggeeStops
<1>15. ASSUME DebuggeeEnds PROVE PauseInv'
  BY <1>15, <1>c, <1>d DEF DebuggeeEnds
<1>16. ASSUME AdapterDies PROVE PauseInv'
  <2>1. fromAdapter' = fromAdapter /\ debuggee' = debuggee /\ UNCHANGED <<toAdapter, launch>>
    BY <1>16 DEF AdapterDies
  <2>2. Numbered'
    BY <1>0, <2>1, AdapterNumbers DEF Takes
  <2> QED BY <1>0, <2>1, <2>2, AdapterSilentPause DEF PauseInv
<1> QED BY <1>2, <1>3, <1>4, <1>5, <1>6, <1>7, <1>8, <1>9, <1>10, <1>11, <1>12, <1>13, <1>14,
           <1>15, <1>16 DEF AdapterStep, AdapterServes

(* A step of the view that leaves the queue alone or handles its first message*)
(* as on_dap_event does.                                                   *)
Steady ==
  \/ fromAdapter' = fromAdapter /\ (Still => Still')
  \/ /\ Receive
     /\ Incoming.type = "stopped" => state' = "STOPPED"
     /\ Incoming.type # "continued" => (Still => Still')

(* Under a steady step a pause at a place stays one, or moves up with its place. *)
LEMMA SteadyPaused ==
  ASSUME TypeOK, Steady, NEW i \in Nat \ {0}, i \in 1 .. Len(fromAdapter') + 1
  PROVE  \/ fromAdapter' = fromAdapter /\ (PausedAt(i) => PausedAt(i)')
         \/ /\ Len(fromAdapter) = Len(fromAdapter') + 1 /\ (PausedAt(i + 1) => PausedAt(i)')
            /\ i <= Len(fromAdapter') => fromAdapter'[i] = fromAdapter[i + 1]
<1>0. Len(fromAdapter) \in Nat
  BY DEF TypeOK
<1>1. CASE fromAdapter' = fromAdapter /\ (Still => Still')
  BY <1>0, <1>1, PausedGrows
<1>2. CASE /\ Receive
           /\ Incoming.type = "stopped" => state' = "STOPPED"
           /\ Incoming.type # "continued" => (Still => Still')
  <2>1. /\ Len(fromAdapter') = Len(fromAdapter) - 1
        /\ \A j \in 1 .. Len(fromAdapter') : fromAdapter'[j] = fromAdapter[j + 1]
    BY <1>2, ReceiveTakes
  <2>2. PausedAt(i + 1) => PausedAt(i)'
    BY <1>2, PausedNext
  <2> QED BY <1>0, <2>1, <2>2
<1> QED BY <1>1, <1>2 DEF Steady

(* A steady step of the program keeps the answers on pauses: what it asks now*)
(* has a number no answer on the way carries.                              *)
LEMMA ProgramPause ==
  ASSUME TypeOK, TypeOK', Tokens, Numbered, AnswersOnPause, StopAnnounced,
         Sends \/ Keeps, launch' = launch, debuggee' = debuggee,
         gen' \in {gen, gen + 1}, Steady
  PROVE  Numbered' /\ AnswersOnPause' /\ StopAnnounced'
<1>0. Len(fromAdapter) \in Nat /\ Len(fromAdapter') \in Nat
  BY DEF TypeOK
<1>1. Receive \/ fromAdapter' = fromAdapter
  BY DEF Steady
<1>2. Numbered' /\ \A p \in pending' : p \in pending \/ (p.gen = gen /\ nextSeq <= p.seq)
  BY <1>1, SendsNumbers
<1>3. AnswersOnPause'
  <2> SUFFICES ASSUME NEW p \in pending', NEW i \in 1 .. Len(fromAdapter'),
                      p.kind \in UiKinds, p.gen = gen', Answered(p, i)', fromAdapter'[i].ok
               PROVE  PausedAt(i)'
    BY DEF AnswersOnPause
  <2>1. fromAdapter'[i].type = "response" /\ fromAdapter'[i].seq = p.seq
    BY DEF Answered
  <2>2. p.seq < nextSeq
    BY <1>1, <2>1, MessagesNumbered
  <2>3. p.seq \in Nat /\ nextSeq \in Nat
    <3>1. pending' \in SUBSET Pending
      BY DEF TypeOK
    <3> QED BY <3>1 DEF Pending, TypeOK
  <2>4. p \in pending
    BY <1>2, <2>2, <2>3
  <2>5. p.gen = gen
    BY <2>4 DEF Tokens
  <2>6. CASE fromAdapter' = fromAdapter /\ (PausedAt(i) => PausedAt(i)')
    BY <2>1, <2>4, <2>5, <2>6 DEF AnswersOnPause, Answered
  <2>7. CASE /\ Len(fromAdapter) = Len(fromAdapter') + 1 /\ (PausedAt(i + 1) => PausedAt(i)')
             /\ fromAdapter'[i] = fromAdapter[i + 1]
    <3>1. i + 1 \in 1 .. Len(fromAdapter)
      BY <1>0, <2>7
    <3>2. Answered(p, i + 1) /\ fromAdapter[i + 1].ok
      BY <2>1, <2>7 DEF Answered
    <3> QED BY <2>4, <2>5, <2>7, <3>1, <3>2 DEF AnswersOnPause
  <2> QED BY <1>0, <2>6, <2>7, SteadyPaused
<1>4. StopAnnounced'
  <2> SUFFICES ASSUME debuggee = "stopped" PROVE PausedAt(Len(fromAdapter) + 1)'
    BY DEF StopAnnounced
  <2> PICK n \in Nat : n = Len(fromAdapter')
    BY <1>0
  <2>1. PausedAt(Len(fromAdapter) + 1)
    BY DEF StopAnnounced
  <2>2. n + 1 \in Nat \ {0} /\ n + 1 \in 1 .. Len(fromAdapter') + 1
    OBVIOUS
  <2>3. PausedAt(n + 1)'
    <3>1. CASE fromAdapter' = fromAdapter /\ (PausedAt(n + 1) => PausedAt(n + 1)')
      BY <2>1, <3>1
    <3>2. CASE Len(fromAdapter) = n + 1 /\ (PausedAt(n + 1 + 1) => PausedAt(n + 1)')
      BY <2>1, <3>2
    <3> QED BY <2>2, <3>1, <3>2, SteadyPaused
  <2> QED BY <2>3
<1> QED BY <1>2, <1>3, <1>4

(* An empty channel answers nothing. *)
LEMMA EmptyPause ==
  ASSUME fromAdapter' = <<>>, debuggee' = "none"
  PROVE  AnswersOnPause' /\ StopAnnounced'
<1>1. Len(fromAdapter') = 0
  BY DEF AnswersOnPause
<1> QED BY <1>1 DEF AnswersOnPause, StopAnnounced

(* The user's operations keep the pause invariant, *)
LEMMA UserPause ==
  ASSUME TypeOK, TypeOK', ScreenInv, PauseInv, UserOperation
  PROVE  PauseInv'
<1>1. CASE StartProcess
  <2>1. FreshClient("process", gen + 2) /\ fromAdapter' = <<>> /\ debuggee' = "none"
    BY <1>1 DEF StartProcess, FreshClient
  <2>2. ShownOnlyWhilePaused'
    BY <1>1 DEF StartProcess, CanStart, Active, ScreenInv, States, EndedShowsNothing, ShownOnlyWhilePaused
  <2> QED BY <2>1, <2>2, FreshNumbers, EmptyPause DEF PauseInv
<1>2. CASE StartJava \/ StartFails
  <2>1. NoClient /\ fromAdapter' = <<>> /\ debuggee' = "none"
    BY <1>2 DEF StartJava, StartFails, NoClient
  <2>2. ShownOnlyWhilePaused'
    BY <1>2 DEF StartJava, StartFails, CanStart, Active, ScreenInv, States, EndedShowsNothing,
                ShownOnlyWhilePaused
  <2> QED BY <2>1, <2>2, NoNumbers, EmptyPause DEF PauseInv
<1>3. CASE /\ ~(StartProcess \/ StartJava \/ StartFails)
           /\ fromAdapter' = fromAdapter /\ launch' = launch /\ (Sends \/ Keeps)
  <2>1. /\ debuggee' = debuggee
        /\ gen' \in {gen, gen + 1} /\ (Still => Still') /\ ShownOnlyWhilePaused'
    <3> USE DEF ShownOnlyWhilePaused, PauseInv, Still, Rest
    <3>1. CASE Stop
      BY <3>1 DEF Stop, EndActive, ClearStoppedUi
    <3>2. CASE Pause
      BY <3>2 DEF Pause, SendControl, viewVars, adapterVars
    <3>3. ASSUME NEW l \in Lines, ToggleBreakpoint(l) PROVE UNCHANGED <<viewVars, adapterVars>>
      BY <3>3 DEF ToggleBreakpoint
    <3>4. ASSUME NEW kind \in {"resume", "evaluate"}, Control(kind) PROVE UNCHANGED <<viewVars, adapterVars>>
      BY <3>4 DEF Control, SendControl
    <3>5. ASSUME NEW f \in Frames, SelectRow(f) PROVE state' = state /\ state = "STOPPED" /\ gen' = gen /\ UNCHANGED adapterVars
      BY <3>5 DEF SelectRow
    <3> QED BY <1>3, <3>1, <3>2, <3>3, <3>4, <3>5 DEF UserOperation, viewVars, adapterVars
  <2>2. Steady
    BY <1>3, <2>1 DEF Steady
  <2> QED BY <1>3, <2>1, <2>2, ProgramPause DEF PauseInv, ScreenInv
<1> QED BY <1>1, <1>2, <1>3, UserSends

(* so do the callbacks of a Java preparation *)
LEMMA JavaPause ==
  ASSUME TypeOK, TypeOK', ScreenInv, PauseInv, NEW g \in preps,
         JavaConnected(g) \/ JavaFailed(g) \/ JavaStale(g)
  PROVE  PauseInv'
<1>1. CASE JavaConnected(g)
  <2>1. FreshClient("socket", g) /\ fromAdapter' = <<>> /\ debuggee' = "none"
    BY <1>1 DEF JavaConnected, FreshClient
  <2>2. ShownOnlyWhilePaused'
    BY <1>1 DEF JavaConnected, viewVars, ShownOnlyWhilePaused, PauseInv
  <2> QED BY <2>1, <2>2, FreshNumbers, EmptyPause DEF PauseInv
<1>2. CASE JavaFailed(g) \/ JavaStale(g)
  <2>1. /\ fromAdapter' = fromAdapter /\ launch' = launch /\ debuggee' = debuggee
        /\ UNCHANGED <<pending, nextSeq, toAdapter>>
        /\ gen' \in {gen, gen + 1} /\ (Still => Still') /\ ShownOnlyWhilePaused'
    BY <1>2 DEF JavaFailed, JavaStale, EndActive, ClearStoppedUi, viewVars, adapterVars, clientVars,
                Still, Rest, ShownOnlyWhilePaused, PauseInv
  <2>2. Keeps
    BY <2>1 DEF Keeps, Settle
  <2>3. Steady
    BY <2>1 DEF Steady
  <2> QED BY <2>1, <2>2, <2>3, ProgramPause DEF PauseInv, ScreenInv
<1> QED BY <1>1, <1>2

(* and the handlers: the answer that fills the screen is accepted only while*)
(* the session is paused.                                                  *)
LEMMA ClientPause ==
  ASSUME TypeOK, TypeOK', ScreenInv, PauseInv, ClientStep
  PROVE  PauseInv'
<1> USE DEF viewVars
<1>0. launch' = launch /\ (Sends \/ Keeps)
  BY ClientSends
<1>a. ASSUME Steady, debuggee' = debuggee, gen' \in {gen, gen + 1}, ShownOnlyWhilePaused' PROVE PauseInv'
  BY <1>0, <1>a, ProgramPause DEF PauseInv, ScreenInv
<1>b. ShownOnlyWhilePaused
  BY DEF PauseInv
<1>c. ASSUME Receive, NEW q \in pending, Answers(q), q.kind \in UiKinds, TokenValid(q), Incoming.ok
      PROVE  state = "STOPPED"
  <2>1. Answered(q, 1) /\ fromAdapter[1].ok /\ 1 \in 1 .. Len(fromAdapter)
    BY <1>c, ReceiveTakes DEF Answers, Answered
  <2>2. PausedAt(1)
    BY <1>c, <2>1 DEF PauseInv, AnswersOnPause, TokenValid
  <2>3. Still
    BY <2>2 DEF PausedAt
  <2>4. state \notin Rest
    BY <1>c DEF ScreenInv, OldAnswers, Tokens, TokenValid
  <2> QED BY <2>3, <2>4 DEF Still
<1>d. ASSUME EndSession PROVE /\ gen' \in {gen, gen + 1} /\ (Still => Still') /\ ShownOnlyWhilePaused'
  BY <1>b, <1>d DEF EndSession, EndActive, ClearStoppedUi, Still, Rest, ShownOnlyWhilePaused
<1>1. CASE OnUnknownResponse \/ OnIgnoredResponse
  BY <1>1, <1>a, <1>b DEF OnUnknownResponse, OnIgnoredResponse, Quietly, HandlerFrame, Answers, Steady, Still,
        ShownOnlyWhilePaused
<1>2. CASE OnInitialized \/ OnScopes
  BY <1>2, <1>a, <1>b DEF OnInitialized, OnScopes, HandlerFrame, Answers, Steady, Still, ShownOnlyWhilePaused
<1>3. CASE OnStartRefused \/ OnTerminated
  BY <1>3, <1>a, <1>d DEF OnStartRefused, OnTerminated, HandlerFrame, Answers, Steady
<1>4. CASE OnConfigDone \/ OnConfigRefused
  BY <1>4, <1>a, <1>b DEF OnConfigDone, OnConfigRefused, HandlerFrame, Answers, Steady, Still, Rest, ShownOnlyWhilePaused
<1>5. CASE OnStackTrace
  <2>1. state = "STOPPED"
    BY <1>5, <1>c DEF OnStackTrace, UiKinds
  <2> QED BY <1>5, <1>a, <2>1 DEF OnStackTrace, HandlerFrame, Answers, Steady, Still, ShownOnlyWhilePaused
<1>6. CASE OnVariables
  <2>1. state = "STOPPED"
    BY <1>6, <1>c DEF OnVariables, UiKinds
  <2> QED BY <1>6, <1>a, <2>1 DEF OnVariables, HandlerFrame, Answers, Steady, Still, ShownOnlyWhilePaused
<1>7. CASE OnInitializedEvent
  BY <1>7, <1>a, <1>b DEF OnInitializedEvent, HandlerFrame, Steady, Still, ShownOnlyWhilePaused
<1>8. CASE OnStopped
  BY <1>8, <1>a DEF OnStopped, HandlerFrame, Steady, Still, ShownOnlyWhilePaused
<1>9. CASE OnContinued
  BY <1>9, <1>a DEF OnContinued, HandlerFrame, Steady, ClearStoppedUi, ShownOnlyWhilePaused
<1>10. CASE OnEof \/ OnProcessExit
  <2>1. /\ fromAdapter' = fromAdapter /\ debuggee' = debuggee /\ MarkExited
    BY <1>10 DEF OnEof, OnProcessExit
  <2>2. gen' \in {gen, gen + 1} /\ (Still => Still') /\ ShownOnlyWhilePaused'
    BY <1>b, <2>1 DEF MarkExited, EndActive, ClearStoppedUi, Still, Rest, ShownOnlyWhilePaused
  <2> QED BY <1>a, <2>1, <2>2 DEF Steady
<1> QED BY <1>1, <1>2, <1>3, <1>4, <1>5, <1>6, <1>7, <1>8, <1>9, <1>10 DEF ClientStep

-----------------------------------------------------------------------------
(* A live client belongs to an active session. *)
LiveIsActive == alive => state \in Active /\ ~exited /\ outOpen

(* The last set of breakpoints on the way, or the one known, is the editor's. *)
Sets(i) == toAdapter[i].kind = "setBreakpoints"
Arriving ==
  \/ abps = bps /\ \A i \in 1 .. Len(toAdapter) : ~Sets(i)
  \/ \E i \in 1 .. Len(toAdapter) :
       Sets(i) /\ toAdapter[i].marks = bps /\ \A j \in i + 1 .. Len(toAdapter) : ~Sets(j)

(* The adapter is configured, or will be by what is on the way. *)
Configures(i) == toAdapter[i].kind = "configurationDone"
Configured == "configured" \in ready \/ \E i \in 1 .. Len(toAdapter) : Configures(i)

(* A configured adapter of a live session has the editor's breakpoints, or *)
(* will have them when it has read what is on the way.                     *)
MarksArrive == alive /\ adapter = "up" /\ startToggles = 0 /\ Configured => Arriving

MarksInv == LiveIsActive /\ MarksArrive

(* A dead client owes nothing. *)
LEMMA DeadMarks ==
  ASSUME ~alive'
  PROVE  MarksInv'
BY DEF MarksInv, LiveIsActive, MarksArrive

(* A new client has configured nothing yet. *)
LEMMA FreshMarks ==
  ASSUME NEW kind, NEW g, FreshClient(kind, g), state' = "STARTING"
  PROVE  MarksInv'
<1>1. Len(toAdapter') = 1 /\ toAdapter'[1].kind = "initialize" /\ ready' = {}
  BY DEF FreshClient
<1>2. ~Configured'
  BY <1>1 DEF Configured, Configures
<1> QED BY <1>2 DEF FreshClient, MarksInv, LiveIsActive, MarksArrive, Active

(* A step that sends nothing and leaves the breakpoints alone. *)
LEMMA SameQueueMarks ==
  ASSUME MarksInv, toAdapter' = toAdapter,
         alive' => state' \in Active,
         UNCHANGED <<bps, alive, exited, outOpen, adapter, abps, startToggles>>,
         "configured" \in ready' => "configured" \in ready
  PROVE  MarksInv'
<1>1. Arriving => Arriving'
  BY DEF Arriving, Sets
<1>2. Configured' => Configured
  BY DEF Configured, Configures
<1> QED BY <1>1, <1>2 DEF MarksInv, LiveIsActive, MarksArrive

(* A request about something else keeps the last set the last. *)
LEMMA OneMoreMarks ==
  ASSUME TypeOK, MarksInv, NEW kind \in RequestKinds \ {"setBreakpoints", "configurationDone"},
         NEW f \in 0 .. NFrames, NEW table \in SUBSET pending,
         Issue(<<Req(kind, f, {})>>, table, gen),
         alive' => state' \in Active,
         UNCHANGED <<bps, alive, exited, outOpen, adapter, abps, ready, startToggles>>
  PROVE  MarksInv'
<1>0. Len(toAdapter) \in Nat /\ table \in SUBSET Pending
  BY DEF TypeOK
<1>1. /\ <<Req(kind, f, {})>> \in Seq(Command) /\ Len(<<Req(kind, f, {})>>) = 1
      /\ <<Req(kind, f, {})>>[1].kind = kind
  BY OneCommand
<1>2. /\ toAdapter' \in Seq(Request)
      /\ Len(toAdapter) <= Len(toAdapter')
      /\ \A i \in 1 .. Len(toAdapter) : toAdapter'[i] = toAdapter[i]
      /\ \A i \in Len(toAdapter) + 1 .. Len(toAdapter') :
           /\ i - Len(toAdapter) \in 1 .. 1
           /\ toAdapter'[i].kind = <<Req(kind, f, {})>>[i - Len(toAdapter)].kind
  BY <1>0, <1>1, IssueSends
<1>3. Len(toAdapter') \in Nat
  BY <1>2
<1>4. \A i \in Len(toAdapter) + 1 .. Len(toAdapter') : ~Sets(i)' /\ ~Configures(i)'
  BY <1>0, <1>1, <1>2, <1>3 DEF Sets, Configures
<1>5. \A i \in 1 .. Len(toAdapter) : (Sets(i)' <=> Sets(i)) /\ (Configures(i)' <=> Configures(i))
  BY <1>2 DEF Sets, Configures
<1>6. Arriving => Arriving'
  <2>1. CASE abps = bps /\ \A i \in 1 .. Len(toAdapter) : ~Sets(i)
    BY <1>0, <1>3, <1>4, <1>5, <2>1 DEF Arriving
  <2>2. ASSUME NEW i \in 1 .. Len(toAdapter), Sets(i), toAdapter[i].marks = bps,
               \A j \in i + 1 .. Len(toAdapter) : ~Sets(j)
        PROVE  Arriving'
    <3>1. i \in 1 .. Len(toAdapter') /\ Sets(i)' /\ toAdapter'[i].marks = bps'
      BY <1>0, <1>2, <1>3, <1>5, <2>2
    <3>2. \A j \in i + 1 .. Len(toAdapter') : ~Sets(j)'
      BY <1>0, <1>3, <1>4, <1>5, <2>2
    <3> QED BY <3>1, <3>2 DEF Arriving
  <2> QED BY <2>1, <2>2 DEF Arriving
<1>7. Configured' => Configured
  BY <1>0, <1>3, <1>4, <1>5 DEF Configured
<1> QED BY <1>6, <1>7 DEF MarksInv, LiveIsActive, MarksArrive

(* The whole set is sent: what follows it leaves it the last. *)
LEMMA SetSentMarks ==
  ASSUME TypeOK, TypeOK', LiveIsActive, alive' => state' \in Active,
         NEW reqs \in Seq(Command), Issue(reqs, pending, gen), Len(reqs) >= 1,
         reqs[1].kind = "setBreakpoints", reqs[1].marks = bps',
         \A i \in 2 .. Len(reqs) : reqs[i].kind # "setBreakpoints",
         UNCHANGED <<alive, exited, outOpen, adapter>>
  PROVE  MarksInv'
<1>1. LiveIsActive'
  BY DEF LiveIsActive
<1>2. ASSUME alive', adapter' = "up" PROVE Arriving'
  <2>0. /\ Len(toAdapter) \in Nat /\ Len(toAdapter') \in Nat /\ Len(reqs) \in Nat
        /\ pending \in SUBSET Pending
    <3>1. toAdapter \in Seq(Request) /\ toAdapter' \in Seq(Request) /\ pending \in SUBSET Pending
      BY DEF TypeOK
    <3> QED BY <3>1
  <2>1. ~exited /\ outOpen /\ adapter = "up"
    BY <1>2 DEF LiveIsActive
  <2>2. /\ \A i \in Len(toAdapter) + 1 .. Len(toAdapter') :
           /\ i - Len(toAdapter) \in 1 .. Len(reqs)
           /\ toAdapter'[i].kind = reqs[i - Len(toAdapter)].kind
           /\ toAdapter'[i].marks = reqs[i - Len(toAdapter)].marks
        /\ Len(toAdapter') = Len(toAdapter) + Len(reqs)
    BY <2>0, <2>1, IssueSends
  <2> PICK n \in Nat : n = Len(toAdapter) + 1
    BY <2>0
  <2>3. n \in 1 .. Len(toAdapter') /\ Sets(n)' /\ toAdapter'[n].marks = bps'
    BY <2>0, <2>2 DEF Sets
  <2>4. \A j \in n + 1 .. Len(toAdapter') : ~Sets(j)'
    <3> SUFFICES ASSUME NEW j \in n + 1 .. Len(toAdapter') PROVE ~Sets(j)'
      OBVIOUS
    <3>1. j - Len(toAdapter) \in 2 .. Len(reqs) /\ j \in Len(toAdapter) + 1 .. Len(toAdapter')
      BY <2>0, <2>2
    <3> QED BY <2>2, <3>1 DEF Sets
  <2> QED BY <2>3, <2>4 DEF Arriving
<1> QED BY <1>1, <1>2 DEF MarksInv, MarksArrive

(* The user's operations keep the breakpoints arriving: a toggle sends the whole set, *)
LEMMA UserMarks ==
  ASSUME TypeOK, TypeOK', MarksInv, UserOperation
  PROVE  MarksInv'
<1>0. /\ 0 \in 0 .. NFrames /\ {} \in SUBSET Lines /\ pending \in SUBSET pending
      /\ Frames \subseteq 0 .. NFrames /\ "resume" \in RequestKinds
      /\ "evaluate" \in RequestKinds /\ "pause" \in RequestKinds
      /\ "scopes" \in RequestKinds /\ "setBreakpoints" \in RequestKinds
  BY ConstantsAssumption DEF Frames, RequestKinds, UiKinds
<1>1. CASE StartProcess
  BY <1>1, FreshMarks DEF StartProcess
<1>2. CASE StartJava \/ StartFails \/ Stop
  BY <1>2, DeadMarks DEF StartJava, StartFails, NoClient, Stop, EndActive, StopClient
<1>3. CASE Pause
  <2>1. /\ Issue(<<Req("pause", 0, {})>>, pending, gen)
        /\ UNCHANGED <<bps, alive, exited, outOpen, adapter, abps, ready, startToggles, state>>
    BY <1>3 DEF Pause, SendControl, viewVars, adapterVars
  <2> QED BY <1>0, <2>1, OneMoreMarks DEF MarksInv, LiveIsActive
<1>4. ASSUME NEW l \in Lines, ToggleBreakpoint(l) PROVE MarksInv'
  <2>0. /\ UNCHANGED <<alive, exited, outOpen, adapter, abps, ready, state>>
        /\ bps' \in SUBSET Lines /\ startToggles \in Nat
    BY <1>4 DEF ToggleBreakpoint, viewVars, adapterVars, TypeOK
  <2>1. CASE Issue(<<Req("setBreakpoints", 0, bps')>>, pending, gen)
    <3>1. /\ <<Req("setBreakpoints", 0, bps')>> \in Seq(Command) /\ Len(<<Req("setBreakpoints", 0, bps')>>) = 1
          /\ <<Req("setBreakpoints", 0, bps')>>[1].kind = "setBreakpoints"
          /\ <<Req("setBreakpoints", 0, bps')>>[1].marks = bps'
      BY <1>0, <2>0, OneCommand
    <3> QED BY <2>0, <2>1, <3>1, SetSentMarks DEF MarksInv, LiveIsActive
  <2>2. CASE state = "STARTING" /\ Settle(pending)
    <3>1. startToggles' # 0
      BY <1>4, <2>0, <2>2 DEF ToggleBreakpoint
    <3> QED BY <2>0, <3>1 DEF MarksInv, LiveIsActive, MarksArrive
  <2>3. CASE state \notin {"RUNNING", "STOPPED", "STARTING"}
    BY <2>0, <2>3, DeadMarks DEF MarksInv, LiveIsActive, Active
  <2> QED BY <1>4, <2>1, <2>2, <2>3 DEF ToggleBreakpoint
<1>5. ASSUME NEW kind \in {"resume", "evaluate"}, Control(kind) PROVE MarksInv'
  <2>1. /\ Issue(<<Req(kind, 0, {})>>, pending, gen)
        /\ UNCHANGED <<bps, alive, exited, outOpen, adapter, abps, ready, startToggles, state>>
    BY <1>5 DEF Control, SendControl, viewVars, adapterVars
  <2>2. kind \in RequestKinds \ {"setBreakpoints", "configurationDone"}
    BY <1>0
  <2> QED BY <1>0, <2>1, <2>2, OneMoreMarks DEF MarksInv, LiveIsActive
<1>6. ASSUME NEW f \in Frames, SelectRow(f) PROVE MarksInv'
  <2>1. /\ Issue(<<Req("scopes", f, {})>>, pending, gen)
        /\ UNCHANGED <<bps, alive, exited, outOpen, adapter, abps, ready, startToggles, state>>
    BY <1>6 DEF SelectRow, adapterVars
  <2>2. "scopes" \in RequestKinds \ {"setBreakpoints", "configurationDone"} /\ f \in 0 .. NFrames
    BY <1>0
  <2> QED BY <1>0, <2>1, <2>2, OneMoreMarks DEF MarksInv, LiveIsActive
<1> QED BY <1>1, <1>2, <1>3, <1>4, <1>5, <1>6 DEF UserOperation

(* a Java preparation touches none, *)
LEMMA JavaMarks ==
  ASSUME TypeOK, MarksInv, NEW g \in preps, JavaConnected(g) \/ JavaFailed(g) \/ JavaStale(g)
  PROVE  MarksInv'
<1>1. CASE JavaConnected(g)
  BY <1>1, FreshMarks DEF JavaConnected, Current, viewVars
<1>2. CASE JavaFailed(g)
  BY <1>2, DeadMarks DEF JavaFailed, EndActive, StopClient
<1>3. CASE JavaStale(g)
  BY <1>3, SameQueueMarks DEF JavaStale, clientVars, adapterVars, boundVars, viewVars, MarksInv, LiveIsActive
<1> QED BY <1>1, <1>2, <1>3

(* a handler sends the whole set when the adapter is initialized, *)
LEMMA ClientMarks ==
  ASSUME TypeOK, TypeOK', MarksInv, ClientStep
  PROVE  MarksInv'
<1>0. /\ 0 \in 0 .. NFrames /\ {} \in SUBSET Lines /\ Preferred \in 0 .. NFrames
      /\ {"launch", "scopes", "variables", "stackTrace"} \subseteq
            RequestKinds \ {"setBreakpoints", "configurationDone"}
      /\ "setExceptionBreakpoints" \in RequestKinds /\ "configurationDone" \in RequestKinds
      /\ "setBreakpoints" \in RequestKinds
      /\ \A q : pending \ {q} \in SUBSET pending
      /\ pending \in SUBSET pending
  BY ConstantsAssumption, PreferredIsAFrame DEF Frames, RequestKinds, UiKinds
<1>a. ASSUME HandlerFrame, UNCHANGED <<alive, adapter, outOpen>>
      PROVE  UNCHANGED <<bps, alive, exited, outOpen, adapter, abps, ready, startToggles>>
  BY <1>a DEF HandlerFrame, boundVars
<1>b. ASSUME HandlerFrame, UNCHANGED <<alive, adapter, outOpen>>, NEW table, Settle(table),
             alive => state' \in Active
      PROVE  MarksInv'
  BY <1>a, <1>b, SameQueueMarks DEF Settle
<1>c. ASSUME HandlerFrame, UNCHANGED <<alive, adapter, outOpen>>, NEW table \in SUBSET pending,
             NEW kind \in {"launch", "scopes", "variables", "stackTrace"}, NEW f \in 0 .. NFrames,
             Issue(<<Req(kind, f, {})>>, table, gen), alive => state' \in Active
      PROVE  MarksInv'
  <2>1. kind \in RequestKinds \ {"setBreakpoints", "configurationDone"}
    BY <1>0
  <2> QED BY <1>a, <1>c, <2>1, OneMoreMarks
<1>d. alive => state \in Active
  BY DEF MarksInv, LiveIsActive
<1>e. ASSUME EndSession, UNCHANGED bps, HandlerFrame, NEW table, Settle(table) PROVE MarksInv'
  <2>1. CASE EndActive
    BY <2>1, DeadMarks DEF EndActive, StopClient
  <2>2. CASE UNCHANGED <<viewVars, alive, adapter, outOpen>>
    BY <1>b, <1>d, <1>e, <2>2 DEF viewVars
  <2> QED BY <1>e, <2>1, <2>2 DEF EndSession
<1>1. CASE OnUnknownResponse \/ OnIgnoredResponse
  BY <1>1, <1>b, <1>d DEF OnUnknownResponse, OnIgnoredResponse, Quietly, viewVars
<1>2. CASE OnInitialized
  BY <1>0, <1>2, <1>c, <1>d DEF OnInitialized, Without, viewVars
<1>3. CASE OnStartRefused \/ OnTerminated
  BY <1>3, <1>e DEF OnStartRefused, OnTerminated, HandlerFrame
<1>4. CASE OnConfigDone \/ OnConfigRefused \/ OnVariables \/ OnContinued
  BY <1>4, <1>b, <1>d DEF OnConfigDone, OnConfigRefused, OnVariables, OnContinued, Active
<1>5. CASE OnStackTrace
  BY <1>0, <1>5, <1>b, <1>c, <1>d DEF OnStackTrace, Without
<1>6. CASE OnScopes
  <2> PICK q \in pending :
        /\ Receive /\ HandlerFrame /\ UNCHANGED <<viewVars, alive, adapter, outOpen>>
        /\ \/ Issue(<<Req("variables", Incoming.body.frame, {})>>, Without(q), gen)
           \/ Settle(Without(q))
    BY <1>6 DEF OnScopes
  <2>1. Incoming.body.frame \in 0 .. NFrames
    BY ReceiveType DEF Message, Shown
  <2> QED BY <1>0, <1>b, <1>c, <1>d, <2>1 DEF Without, viewVars
<1>7. CASE OnInitializedEvent
  <2> DEFINE reqs == <<Req("setBreakpoints", 0, bps), Req("setExceptionBreakpoints", 0, {}),
                       Req("configurationDone", 0, {})>>
  <2>1. Issue(reqs, pending, gen) /\ HandlerFrame /\ UNCHANGED <<viewVars, alive, adapter, outOpen>>
    BY <1>7 DEF OnInitializedEvent
  <2>2. /\ reqs \in Seq(Command) /\ Len(reqs) = 3 /\ reqs[1].kind = "setBreakpoints" /\ reqs[1].marks = bps
        /\ reqs[2].kind = "setExceptionBreakpoints" /\ reqs[3].kind = "configurationDone"
    <3>1. \A k \in RequestKinds, m \in SUBSET Lines : Req(k, 0, m) \in Command
      BY <1>0, ReqType
    <3>2. reqs \in Seq(Command)
      BY <1>0, <3>1 DEF TypeOK
    <3> QED BY <3>2 DEF Req
  <2> HIDE DEF reqs
  <2>3. \A i \in 2 .. 3 : reqs[i].kind # "setBreakpoints"
    <3>1. \A i \in 2 .. 3 : i = 2 \/ i = 3
      OBVIOUS
    <3> QED BY <2>2, <3>1
  <2>4. LiveIsActive /\ bps' = bps
    BY <2>1 DEF MarksInv, HandlerFrame
  <2>5. UNCHANGED <<alive, exited, outOpen, adapter>> /\ (alive' => state' \in Active)
    BY <1>a, <1>d, <2>1 DEF viewVars
  <2>6. /\ Len(reqs) >= 1 /\ reqs[1].kind = "setBreakpoints" /\ reqs[1].marks = bps'
        /\ \A i \in 2 .. Len(reqs) : reqs[i].kind # "setBreakpoints"
    BY <2>2, <2>3, <2>4
  <2> HIDE DEF TypeOK
  <2> QED BY <2>1, <2>2, <2>4, <2>5, <2>6, SetSentMarks
<1>8. CASE OnStopped
  BY <1>0, <1>8, <1>c DEF OnStopped, Active
<1>9. CASE OnEof \/ OnProcessExit
  <2>1. MarkExited /\ UNCHANGED <<bps, abps, ready, startToggles>>
    BY <1>9 DEF OnEof, OnProcessExit, boundVars
  <2>2. CASE ~exited
    BY <2>1, <2>2, DeadMarks DEF MarkExited, EndActive, StopClient
  <2>3. CASE exited
    <3>1. ~alive /\ alive' = alive
      BY <2>1, <2>3 DEF MarkExited, MarksInv, LiveIsActive
    <3> QED BY <3>1, DeadMarks
  <2> QED BY <2>2, <2>3
<1> QED BY <1>1, <1>2, <1>3, <1>4, <1>5, <1>6, <1>7, <1>8, <1>9 DEF ClientStep

(* and the adapter takes the sets in order, when it refuses none. *)
LEMMA AdapterMarks ==
  ASSUME "setBreakpoints" \notin MayFail, TypeOK, MarksInv, AdapterStep
  PROVE  MarksInv'
<1>0. /\ AdapterFrame
      /\ UNCHANGED <<bps, alive, exited, outOpen, startToggles, state>>
  <2>1. AdapterFrame
    BY DEF AdapterStep, AdapterServes, ServeRefused, ServeInitialize, ServeLaunch,
         ServeBreakpoints, ServeConfigurationDone, ServePlain, ServeQuestion, ServeResume,
         ServeDisconnect, AnswerLaunch, RefuseLaunchLate, AnnounceInitialized,
         DebuggeeStops, DebuggeeEnds, AdapterDies
  <2> QED BY <2>1 DEF AdapterFrame, viewVars, clientVars, boundVars
<1>a. ASSUME adapter' = "up" => adapter = "up", UNCHANGED <<toAdapter, abps>>,
             "configured" \in ready' => "configured" \in ready
      PROVE  MarksInv'
  <2>1. Arriving => Arriving'
    BY <1>0, <1>a DEF Arriving, Sets
  <2>2. Configured' => Configured
    BY <1>a DEF Configured, Configures
  <2> QED BY <1>0, <1>a, <2>1, <2>2 DEF MarksInv, LiveIsActive, MarksArrive
<1>b. ASSUME NEW kind, Serving(kind), adapter' = "up" => adapter = "up",
             "configured" \in ready' => "configured" \in ready \/ kind = "configurationDone",
             IF kind = "setBreakpoints" THEN abps' = Served.marks ELSE abps' = abps
      PROVE  MarksInv'
  <2>1. /\ Len(toAdapter') = Len(toAdapter) - 1 /\ Len(toAdapter) \in Nat \ {0}
        /\ \A i \in 1 .. Len(toAdapter') : toAdapter'[i] = toAdapter[i + 1]
        /\ Served = toAdapter[1] /\ Served.kind = kind
    BY <1>b, ServingTakes
  <2>2. /\ \A i \in 1 .. Len(toAdapter') : (Sets(i)' <=> Sets(i + 1)) /\ (Configures(i)' <=> Configures(i + 1))
        /\ Sets(1) <=> kind = "setBreakpoints"
        /\ Configures(1) <=> kind = "configurationDone"
    BY <2>1 DEF Sets, Configures
  <2>3. Configured' => Configured
    <3>1. ASSUME NEW i \in 1 .. Len(toAdapter'), Configures(i)' PROVE Configured
      <4>1. i + 1 \in 1 .. Len(toAdapter) /\ Configures(i + 1)
        BY <2>1, <2>2, <3>1
      <4> QED BY <4>1 DEF Configured
    <3>2. "configured" \in ready' => Configured
      BY <1>b, <2>1, <2>2 DEF Configured
    <3> QED BY <3>1, <3>2 DEF Configured
  <2>4. Arriving => Arriving'
    <3>1. CASE abps = bps /\ \A i \in 1 .. Len(toAdapter) : ~Sets(i)
      BY <1>0, <1>b, <2>1, <2>2, <3>1 DEF Arriving
    <3>2. ASSUME NEW i \in 1 .. Len(toAdapter), Sets(i), toAdapter[i].marks = bps,
                 \A j \in i + 1 .. Len(toAdapter) : ~Sets(j)
          PROVE  Arriving'
      <4>1. CASE i = 1
        <5>1. abps' = bps'
          BY <1>0, <1>b, <2>1, <2>2, <3>2, <4>1
        <5>2. \A j \in 1 .. Len(toAdapter') : ~Sets(j)'
          BY <2>1, <2>2, <3>2, <4>1
        <5> QED BY <5>1, <5>2 DEF Arriving
      <4>2. CASE i # 1
        <5> PICK k \in 1 .. Len(toAdapter') : i = k + 1
          BY <2>1, <4>2
        <5>1. Sets(k)' /\ toAdapter'[k].marks = bps'
          BY <1>0, <2>1, <2>2, <3>2
        <5>2. \A j \in k + 1 .. Len(toAdapter') : ~Sets(j)'
          BY <2>1, <2>2, <3>2
        <5> QED BY <5>1, <5>2 DEF Arriving
      <4> QED BY <4>1, <4>2
    <3> QED BY <3>1, <3>2 DEF Arriving
  <2> QED BY <1>0, <1>b, <2>3, <2>4 DEF MarksInv, LiveIsActive, MarksArrive
<1>1. CASE ServeRefused
  <2> PICK kind \in MayFail : Serving(kind) /\ UNCHANGED adapterVars
    BY <1>1 DEF ServeRefused
  <2> QED BY <1>b DEF adapterVars
<1>2. CASE ServeInitialize \/ ServePlain \/ ServeQuestion
  <2> PICK kind \in UiKinds \cup {"initialize", "setExceptionBreakpoints", "evaluate", "pause"} :
          Serving(kind) /\ UNCHANGED adapterVars
    BY <1>2 DEF ServeInitialize, ServePlain, ServeQuestion
  <2> QED BY <1>b DEF adapterVars, UiKinds
<1>3. CASE ServeLaunch
  BY <1>3, <1>b DEF ServeLaunch
<1>4. CASE ServeBreakpoints
  BY <1>4, <1>b DEF ServeBreakpoints
<1>5. CASE ServeConfigurationDone
  BY <1>5, <1>b DEF ServeConfigurationDone
<1>6. CASE ServeResume
  BY <1>6, <1>b DEF ServeResume
<1>7. CASE ServeDisconnect
  BY <1>7, <1>b DEF ServeDisconnect
<1>8. CASE AnswerLaunch \/ RefuseLaunchLate \/ AnnounceInitialized
  BY <1>8, <1>a DEF AnswerLaunch, RefuseLaunchLate, AnnounceInitialized
<1>9. CASE DebuggeeStops \/ DebuggeeEnds \/ AdapterDies
  BY <1>9, <1>a DEF DebuggeeStops, DebuggeeEnds, AdapterDies
<1> QED BY <1>1, <1>2, <1>3, <1>4, <1>5, <1>6, <1>7, <1>8, <1>9 DEF AdapterStep, AdapterServes

-----------------------------------------------------------------------------
(* What the panel shows is of a paused debuggee, and the adapter that has  *)
(* read all it was sent knows the editor's breakpoints.                    *)
LEMMA InvImpliesPanelAgrees ==
  ASSUME TypeOK, PauseInv, MarksInv
  PROVE  PanelAgrees
<1>1. BreakpointsAgree
  <2> SUFFICES ASSUME state \in {"RUNNING", "STOPPED"}, alive, adapter = "up",
                      "configured" \in ready, toAdapter = <<>>, startToggles = 0
               PROVE  abps = bps
    BY DEF BreakpointsAgree
  <2>1. Arriving
    BY DEF MarksInv, MarksArrive, Configured
  <2>2. Len(toAdapter) = 0
    OBVIOUS
  <2> QED BY <2>1, <2>2 DEF Arriving
<1> QED BY <1>1 DEF PanelAgrees, PauseInv

(* No step shows anything of a debuggee that is not paused, nor leaves the *)
(* adapter with breakpoints that are not the editor's.                     *)
LEMMA PanelNext ==
  ASSUME "setBreakpoints" \notin MayFail, TypeOK, TypeOK', ScreenInv, PauseInv, MarksInv,
         [Next]_vars
  PROVE  PauseInv' /\ MarksInv'
<1>1. CASE UNCHANGED vars
  <2>1. /\ UNCHANGED <<fromAdapter, toAdapter, pending, nextSeq, launch, gen, state, debuggee,
                       stack, locals, marker>>
        /\ UNCHANGED <<bps, alive, exited, outOpen, adapter, abps, ready, startToggles>>
    BY <1>1 DEF vars, viewVars, clientVars, adapterVars, boundVars
  <2>2. MarksInv'
    BY <2>1, SameQueueMarks DEF MarksInv, LiveIsActive
  <2>3. Numbered' /\ AnswersOnPause' /\ StopAnnounced'
    <3>1. Keeps /\ Steady
      BY <2>1 DEF Keeps, Settle, Steady, Still
    <3> QED BY <2>1, <3>1, ProgramPause DEF PauseInv, ScreenInv
  <2>4. ShownOnlyWhilePaused'
    BY <2>1 DEF PauseInv, ShownOnlyWhilePaused
  <2> QED BY <2>2, <2>3, <2>4 DEF PauseInv
<1>2. CASE UserOperation
  BY <1>2, UserPause, UserMarks
<1>3. CASE JavaReady
  BY <1>3, JavaPause, JavaMarks DEF JavaReady
<1>4. CASE ClientStep
  BY <1>4, ClientPause, ClientMarks
<1>5. CASE AdapterStep
  BY <1>5, AdapterPause, AdapterMarks
<1> QED BY <1>1, <1>2, <1>3, <1>4, <1>5 DEF Next

(* What the panel shows holds, however the adapter's answers cross the     *)
(* events that resume or end the session, and however the toggles, the     *)
(* handshake and the stops interleave -- of an adapter that refuses no set *)
(* of breakpoints: after one that does, on_set_breakpoints (ide_dap.c)     *)
(* writes a line to the console and sends nothing again.                   *)
THEOREM PanelAgreesAlways ==
  ASSUME "setBreakpoints" \notin MayFail
  PROVE  Spec => []PanelAgrees
<1>1. Init => PauseInv /\ MarksInv
  <2> SUFFICES ASSUME Init PROVE PauseInv /\ MarksInv
    OBVIOUS
  <2>1. Len(fromAdapter) = 0 /\ Len(toAdapter) = 0
    BY DEF Init
  <2>2. MarksInv
    BY DEF Init, MarksInv, LiveIsActive, MarksArrive
  <2>3. Numbered
    BY <2>1 DEF Init, Numbered
  <2>4. AnswersOnPause /\ StopAnnounced /\ ShownOnlyWhilePaused
    BY <2>1 DEF Init, AnswersOnPause, StopAnnounced, ShownOnlyWhilePaused
  <2> QED BY <2>2, <2>3, <2>4 DEF PauseInv
<1>2. TypeOK /\ TypeOK' /\ ScreenInv /\ PauseInv /\ MarksInv /\ [Next]_vars
        => PauseInv' /\ MarksInv'
  BY PanelNext
<1>3. TypeOK /\ PauseInv /\ MarksInv => PanelAgrees
  BY InvImpliesPanelAgrees
<1> QED BY <1>1, <1>2, <1>3, TypeAlways, ScreenAlways, PTL DEF Spec

-----------------------------------------------------------------------------
(* Preparations are of this generation or an earlier one, and the one that is*)
(* still awaited has not installed a client.                               *)
PrepsInv ==
  /\ \A g \in preps : g <= gen
  /\ gen \in preps /\ state = "STARTING" => client = "none"

(* A step that replaces or drops a client. *)
Installs == client # "none" /\ (client' # client \/ nextSeq' < nextSeq) => state \notin Active

(* Sending numbers upwards. *)
LEMMA SendsGrow ==
  ASSUME TypeOK, Sends \/ Keeps
  PROVE  ~(nextSeq' < nextSeq)
<1>0. nextSeq \in Nat /\ pending \in SUBSET Pending
  BY DEF TypeOK
<1>1. CASE Sends
  <2> PICK reqs \in Seq(Command), table \in SUBSET pending : Issue(reqs, table, gen)
    BY <1>1 DEF Sends
  <2> QED BY <1>0, IssueSends
<1>2. CASE Keeps
  BY <1>0, <1>2 DEF Keeps, Settle
<1> QED BY <1>1, <1>2

(* The user's operations install a client only between sessions, *)
LEMMA UserInstalls ==
  ASSUME TypeOK, PrepsInv, UserOperation
  PROVE  PrepsInv' /\ Installs
<1>0. gen \in Nat /\ preps \in SUBSET Nat
  BY DEF TypeOK
<1>1. CASE StartProcess
  BY <1>0, <1>1 DEF StartProcess, CanStart, PrepsInv, Installs
<1>2. CASE StartJava
  BY <1>0, <1>2 DEF StartJava, NoClient, CanStart, PrepsInv, Installs
<1>3. CASE StartFails
  BY <1>0, <1>3 DEF StartFails, NoClient, CanStart, PrepsInv, Installs, Active
<1>4. CASE ~(StartProcess \/ StartJava \/ StartFails)
  <2>1. Sends \/ Keeps
    BY <1>4, UserSends
  <2>2. /\ client' = client /\ preps' = preps /\ gen' \in {gen, gen + 1}
        /\ state' = "STARTING" => state = "STARTING" /\ gen' = gen
    <3>1. CASE Stop
      BY <3>1 DEF Stop, EndActive
    <3>2. CASE Pause
      BY <3>2 DEF Pause, SendControl, viewVars
    <3>3. ASSUME NEW l \in Lines, ToggleBreakpoint(l) PROVE UNCHANGED <<client, preps, gen, state>>
      BY <3>3 DEF ToggleBreakpoint, viewVars
    <3>4. ASSUME NEW kind \in {"resume", "evaluate"}, Control(kind) PROVE UNCHANGED <<client, preps, gen, state>>
      BY <3>4 DEF Control, SendControl, viewVars
    <3>5. ASSUME NEW f \in Frames, SelectRow(f) PROVE UNCHANGED <<client, preps, gen, state>>
      BY <3>5 DEF SelectRow
    <3> QED BY <1>4, <3>1, <3>2, <3>3, <3>4, <3>5 DEF UserOperation
  <2>3. PrepsInv'
    BY <1>0, <2>2 DEF PrepsInv
  <2>4. Installs
    BY <2>1, <2>2, SendsGrow DEF Installs
  <2> QED BY <2>3, <2>4
<1> QED BY <1>1, <1>2, <1>3, <1>4

(* a preparation installs one only when none is there, *)
LEMMA JavaInstalls ==
  ASSUME TypeOK, PrepsInv, NEW g \in preps, JavaConnected(g) \/ JavaFailed(g) \/ JavaStale(g)
  PROVE  PrepsInv' /\ Installs
<1>0. gen \in Nat /\ preps \in SUBSET Nat /\ nextSeq \in Nat
  BY DEF TypeOK
<1>1. CASE JavaConnected(g)
  BY <1>0, <1>1 DEF JavaConnected, Current, viewVars, PrepsInv, Installs
<1>2. CASE JavaFailed(g)
  BY <1>0, <1>2 DEF JavaFailed, EndActive, PrepsInv, Installs
<1>3. CASE JavaStale(g)
  BY <1>0, <1>3 DEF JavaStale, viewVars, clientVars, PrepsInv, Installs
<1> QED BY <1>1, <1>2, <1>3

(* a handler none *)
LEMMA ClientInstalls ==
  ASSUME TypeOK, PrepsInv, ClientStep
  PROVE  PrepsInv' /\ Installs
<1>0. gen \in Nat /\ preps \in SUBSET Nat
  BY DEF TypeOK
<1>1. /\ client' = client /\ preps' = preps /\ gen' \in {gen, gen + 1}
      /\ state' = "STARTING" => state = "STARTING" /\ gen' = gen
  <2> USE DEF HandlerFrame, viewVars
  <2>a. ASSUME EndSession
        PROVE  gen' \in {gen, gen + 1} /\ (state' = "STARTING" => state = "STARTING" /\ gen' = gen)
    BY <2>a DEF EndSession, EndActive
  <2>1. CASE OnUnknownResponse \/ OnIgnoredResponse
    BY <2>1 DEF OnUnknownResponse, OnIgnoredResponse, Quietly
  <2>2. CASE OnInitialized \/ OnScopes \/ OnInitializedEvent
    BY <2>2 DEF OnInitialized, OnScopes, OnInitializedEvent
  <2>3. CASE OnStartRefused \/ OnTerminated
    BY <2>3, <2>a DEF OnStartRefused, OnTerminated
  <2>4. CASE OnConfigDone \/ OnConfigRefused \/ OnStackTrace \/ OnVariables
    BY <2>4 DEF OnConfigDone, OnConfigRefused, OnStackTrace, OnVariables
  <2>5. CASE OnStopped \/ OnContinued
    BY <2>5 DEF OnStopped, OnContinued
  <2>6. CASE OnEof \/ OnProcessExit
    BY <2>6 DEF OnEof, OnProcessExit, MarkExited, EndActive
  <2> QED BY <2>1, <2>2, <2>3, <2>4, <2>5, <2>6 DEF ClientStep
<1>2. PrepsInv'
  BY <1>0, <1>1 DEF PrepsInv
<1>3. Installs
  BY <1>1, ClientSends, SendsGrow DEF Installs
<1> QED BY <1>2, <1>3

(* and the adapter none. *)
LEMMA AdapterInstalls ==
  ASSUME TypeOK, PrepsInv, AdapterStep
  PROVE  PrepsInv' /\ Installs
<1>1. AdapterFrame
  BY DEF AdapterStep, AdapterServes, ServeRefused, ServeInitialize, ServeLaunch,
         ServeBreakpoints, ServeConfigurationDone, ServePlain, ServeQuestion, ServeResume,
         ServeDisconnect, AnswerLaunch, RefuseLaunchLate, AnnounceInitialized,
         DebuggeeStops, DebuggeeEnds, AdapterDies
<1> QED BY <1>1 DEF AdapterFrame, viewVars, clientVars, PrepsInv, Installs, TypeOK

(* A client in use is replaced or dropped only between two sessions, whatever*)
(* preparation calls back late (on_java_ready, ide_dap.c).                 *)
THEOREM ClientKeptAlways == Spec => ClientKeptDuringSession
<1>1. Init => PrepsInv
  BY DEF Init, PrepsInv
<1>2. TypeOK /\ PrepsInv /\ [Next]_vars => PrepsInv' /\ (Next => Installs)
  <2> SUFFICES ASSUME TypeOK, PrepsInv, [Next]_vars PROVE PrepsInv' /\ (Next => Installs)
    OBVIOUS
  <2>1. CASE UNCHANGED vars
    <3>1. UNCHANGED <<preps, gen, state, client, nextSeq>> /\ nextSeq \in Nat
      BY <2>1 DEF vars, viewVars, clientVars, TypeOK
    <3> QED BY <3>1 DEF PrepsInv, Installs
  <2>2. CASE Next
    BY <2>2, UserInstalls, JavaInstalls, ClientInstalls, AdapterInstalls DEF Next, JavaReady
  <2> QED BY <2>1, <2>2
<1>3. TypeOK /\ PrepsInv /\ [Next]_vars => [Installs]_vars
  BY <1>2
<1> QED BY <1>1, <1>2, <1>3, TypeAlways, PTL DEF Spec, ClientKeptDuringSession, Installs
=============================================================================
