--------------------------- MODULE DapClientProofs ---------------------------
(***************************************************************************)
(* What DapClient guarantees for any number of calls and whatever the      *)
(* adapter does: the end of the adapter is noticed once and settles every  *)
(* request, the life of every request is the one RequestLedger allows, and *)
(* the writer has no work it does not do.                                  *)
(***************************************************************************)
EXTENDS DapClient, FiniteSetTheorems, SequenceTheorems, TLAPS

(* A request has no fate exactly while it is open or has not been made, and*)
(* its callback has run exactly when it was answered or failed.            *)
RanCallback(c) == fate[c] \in {"answered", "failed", "refused"}

LedgerInv ==
  /\ made \in 0 .. MaxCalls
  /\ pending \subseteq 1 .. made
  /\ fate \in [Calls -> Fates] /\ calls \in [Calls -> 0 .. 1]
  /\ \A c \in Calls : fate[c] = "none" <=> (c \in pending \/ c > made)
  /\ \A c \in Calls : calls[c] = 1 <=> RanCallback(c)

StatusMap == [c \in Calls |-> Status(c)]
StatusOK == StatusMap \in [Calls -> Ledger!Statuses]

(* What a step has to do to be a step of the ledger.                       *)
LedgerStep ==
  \A c \in Calls :
    /\ Status(c)' = Status(c) \/ <<Status(c), Status(c)'>> \in Ledger!Moves
    /\ calls'[c] = calls[c] + (IF Ledger!RunsCallback(Status(c), Status(c)') THEN 1 ELSE 0)

(* LedgerInv gives every request a status of the ledger. *)
LEMMA StatusType == LedgerInv => StatusOK
<1> SUFFICES ASSUME LedgerInv, NEW c \in Calls
             PROVE  Status(c) \in Ledger!Statuses
  BY DEF StatusMap, StatusOK
<1>1. fate[c] \in Fates
  BY DEF LedgerInv
<1>2. c \notin pending /\ ~(c > made) => fate[c] # "none"
  BY DEF LedgerInv
<1> QED
  BY <1>1, <1>2 DEF Status, Ledger!Statuses, Fates

(* A step that makes no request and runs no callback. *)
LEMMA Quiet ==
  ASSUME LedgerInv, UNCHANGED <<pending, made, fate, calls>>
  PROVE  LedgerInv' /\ LedgerStep
<1>1. LedgerInv'
  BY DEF LedgerInv, RanCallback
<1>2. \A c \in Calls : Status(c)' = Status(c) /\ calls'[c] = calls[c] + 0
  BY DEF Status, LedgerInv
<1>3. \A c \in Calls : ~Ledger!RunsCallback(Status(c), Status(c)')
  BY <1>2 DEF Ledger!RunsCallback
<1> QED
  BY <1>1, <1>2, <1>3 DEF LedgerStep

(* A step that runs the callbacks of the open requests `ended`; of the     *)
(* requests that are made meanwhile some are refused and some are sent.    *)
LEMMA Settles ==
  ASSUME LedgerInv, MaxCalls \in Nat,
         NEW ended \in SUBSET pending, NEW how \in {"answered", "failed"},
         NEW refused, NEW opened, made' \in made .. MaxCalls,
         refused \cup opened = made + 1 .. made', refused \cap opened = {},
         RunCallbacks(ended, how, refused),
         pending' = (pending \ ended) \cup opened
  PROVE  LedgerInv' /\ LedgerStep
<1>1. made \in Nat /\ made' \in Nat /\ made <= made' /\ made' <= MaxCalls
  BY DEF LedgerInv
<1>2. \A c \in refused \cup opened : c \in Calls /\ c > made /\ c <= made' /\ c \notin pending
  BY <1>1 DEF LedgerInv, Calls
<1>3. \A c \in ended : c \in Calls /\ c \in pending /\ c <= made
  BY <1>1 DEF LedgerInv, Calls
<1>4. \A c \in Calls : c \in Nat
  BY DEF Calls
<1>5. /\ \A c \in ended : fate[c] = "none" /\ calls[c] = 0
      /\ \A c \in refused \cup opened : fate[c] = "none" /\ calls[c] = 0
  BY <1>2, <1>3 DEF LedgerInv, RanCallback
<1>6. /\ \A c \in ended : fate'[c] = how /\ calls'[c] = 1
      /\ \A c \in refused : fate'[c] = "refused" /\ calls'[c] = 1
      /\ \A c \in Calls \ (ended \cup refused) : fate'[c] = fate[c] /\ calls'[c] = calls[c]
  BY <1>2, <1>3, <1>5 DEF RunCallbacks
<1>7. fate' \in [Calls -> Fates] /\ calls' \in [Calls -> 0 .. 1]
  <2>1. \A c \in Calls : fate'[c] \in Fates /\ calls'[c] \in 0 .. 1
    <3> SUFFICES ASSUME NEW c \in Calls PROVE fate'[c] \in Fates /\ calls'[c] \in 0 .. 1
      OBVIOUS
    <3>1. CASE c \in ended \cup refused
      BY <3>1, <1>6 DEF Fates
    <3>2. CASE c \notin ended \cup refused
      BY <3>2, <1>6 DEF LedgerInv
    <3> QED
      BY <3>1, <3>2
  <2>2. fate' = [c \in Calls |-> fate'[c]] /\ calls' = [c \in Calls |-> calls'[c]]
    BY DEF RunCallbacks
  <2> QED
    BY <2>1, <2>2
<1>8. made' \in 0 .. MaxCalls /\ pending' \subseteq 1 .. made'
  <2>1. \A c \in pending : c \in 1 .. made'
    BY <1>1 DEF LedgerInv
  <2>2. \A c \in opened : c \in 1 .. made'
    BY <1>1
  <2> QED
    BY <1>1, <2>1, <2>2
<1>9. ASSUME NEW c \in Calls
      PROVE  /\ fate'[c] = "none" <=> (c \in pending' \/ c > made')
             /\ calls'[c] = 1 <=> fate'[c] \in {"answered", "failed", "refused"}
             /\ Status(c)' = Status(c) \/ <<Status(c), Status(c)'>> \in Ledger!Moves
             /\ calls'[c] = calls[c]
                  + (IF Ledger!RunsCallback(Status(c), Status(c)') THEN 1 ELSE 0)
  <2>1. CASE c \in ended
    <3>1. c \notin pending' /\ ~(c > made') /\ ~(c > made)
      BY <1>1, <1>2, <1>3, <1>4, <2>1
    <3>2. Status(c) = "open" /\ Status(c)' = how
      BY <2>1, <3>1, <1>3, <1>6 DEF Status
    <3> QED
      BY <2>1, <3>1, <3>2, <1>5, <1>6 DEF Ledger!Moves, Ledger!RunsCallback
  <2>2. CASE c \in refused
    <3>1. c \notin pending' /\ ~(c > made') /\ c > made /\ c \notin pending
      BY <1>1, <1>2, <1>4, <2>2
    <3>2. Status(c) = "unissued" /\ Status(c)' = "failed"
      BY <2>2, <3>1, <1>6 DEF Status
    <3> QED
      BY <2>2, <3>1, <3>2, <1>5, <1>6 DEF Ledger!Moves, Ledger!RunsCallback
  <2>3. CASE c \in opened
    <3>1. c \in pending' /\ c > made /\ c \notin pending /\ c \notin ended \cup refused
      BY <1>1, <1>2, <1>3, <1>4, <2>3
    <3>2. Status(c) = "unissued" /\ Status(c)' = "open"
      BY <3>1 DEF Status
    <3>3. fate'[c] = "none" /\ calls'[c] = 0 /\ calls[c] = 0
      BY <2>3, <3>1, <1>5, <1>6
    <3> QED
      BY <3>1, <3>2, <3>3 DEF Ledger!Moves, Ledger!RunsCallback
  <2>4. CASE c \notin ended \cup refused \cup opened
    <3>1. fate'[c] = fate[c] /\ calls'[c] = calls[c] /\ calls[c] \in 0 .. 1
      BY <2>4, <1>6 DEF LedgerInv
    <3>2. (c \in pending' <=> c \in pending) /\ (c > made' <=> c > made)
      <4>1. c \notin made + 1 .. made'
        BY <2>4
      <4> QED
        BY <2>4, <4>1, <1>1, <1>4
    <3>3. Status(c)' = Status(c)
      BY <3>1, <3>2 DEF Status
    <3> QED
      BY <3>1, <3>2, <3>3 DEF LedgerInv, RanCallback, Ledger!RunsCallback
  <2> QED
    BY <2>1, <2>2, <2>3, <2>4
<1>10. LedgerInv'
  BY <1>7, <1>8, <1>9 DEF LedgerInv, RanCallback
<1> QED
  BY <1>9, <1>10 DEF LedgerStep

(* The next request is sent, and nothing else happens to the others. *)
LEMMA Opens ==
  ASSUME LedgerInv, MaxCalls \in Nat, made < MaxCalls, made' = made + 1,
         pending' = pending \cup {made + 1}, UNCHANGED <<fate, calls>>
  PROVE  LedgerInv' /\ LedgerStep
<1>1. made' \in made .. MaxCalls /\ made + 1 .. made' = {made + 1}
  BY DEF LedgerInv
<1>2. RunCallbacks({}, "failed", {})
  BY DEF RunCallbacks, LedgerInv
<1> QED
  BY <1>1, <1>2, Settles

(* A step that drops the open requests without running their callbacks. *)
LEMMA Drops ==
  ASSUME LedgerInv, MaxCalls \in Nat, pending' = {},
         fate' = [c \in Calls |-> IF c \in pending THEN "dropped" ELSE fate[c]],
         UNCHANGED <<made, calls>>
  PROVE  LedgerInv' /\ LedgerStep
<1>1. \A c \in pending : c \in Calls /\ ~(c > made) /\ fate[c] = "none" /\ calls[c] # 1
  BY DEF LedgerInv, Calls, RanCallback
<1>2. fate' \in [Calls -> Fates]
  BY DEF LedgerInv, Fates
<1>3. \A c \in Calls : fate'[c] = "none" <=> (c \in pending' \/ c > made')
  BY <1>1 DEF LedgerInv
<1>4. \A c \in Calls : calls'[c] = 1 <=> RanCallback(c)'
  BY <1>1 DEF LedgerInv, RanCallback
<1>5. LedgerInv'
  BY <1>2, <1>3, <1>4 DEF LedgerInv
<1>6. \A c \in pending : Status(c) = "open" /\ Status(c)' = "dropped"
  BY <1>1 DEF Status
<1>7. \A c \in Calls \ pending : Status(c)' = Status(c)
  BY DEF Status
<1>8. \A c \in Calls : calls'[c] = calls[c] + 0
  BY DEF LedgerInv
<1>9. \A c \in Calls : ~Ledger!RunsCallback(Status(c), Status(c)')
  BY <1>6, <1>7 DEF Ledger!RunsCallback
<1> QED
  BY <1>5, <1>6, <1>7, <1>8, <1>9 DEF LedgerStep, Ledger!Moves

(* mark_exited: the callbacks run once, and exit_cb with them. *)
LEMMA Marks ==
  ASSUME LedgerInv, MaxCalls \in Nat, MarkExited
  PROVE  /\ LedgerInv' /\ LedgerStep
         /\ \/ exited /\ UNCHANGED <<exited, alive, pending, exitCalls>>
            \/ /\ ~exited /\ exited' = TRUE /\ alive' = FALSE /\ pending' = {}
               /\ exitCalls' = exitCalls + 1
<1>1. CASE exited
  <2>1. UNCHANGED <<exited, alive, pending, exitCalls, made, fate, calls>>
    BY <1>1 DEF MarkExited, NoCallback
  <2> QED
    BY <1>1, <2>1, Quiet
<1>2. CASE ~exited
  <2>1. IsFiniteSet(0 .. MaxCalls) /\ pending \subseteq 0 .. MaxCalls
    BY FS_Interval DEF LedgerInv
  <2>2. Cardinality(pending) \in Nat
    BY <2>1, FS_Subset, FS_CardinalityType
  <2>3. PICK n \in 0 .. Cardinality(pending) :
          /\ made + n <= MaxCalls
          /\ exited' = TRUE /\ alive' = FALSE /\ pending' = {}
          /\ made' = made + n
          /\ RunCallbacks(pending, "failed", NewCalls(n))
          /\ exitCalls' = exitCalls + 1
    BY <1>2 DEF MarkExited
  <2>4. n \in Nat
    BY <2>2, <2>3
  <2>5. made' \in made .. MaxCalls /\ NewCalls(n) \cup {} = made + 1 .. made'
    BY <2>3, <2>4 DEF NewCalls, LedgerInv
  <2>6. pending' = (pending \ pending) \cup {} /\ NewCalls(n) \cap {} = {}
    BY <2>3
  <2>7. LedgerInv' /\ LedgerStep
    BY <2>3, <2>5, <2>6, Settles
  <2> QED
    BY <1>2, <2>3, <2>7
<1> QED
  BY <1>1, <1>2

(* handle_message, as far as the ledger goes. *)
LEMMA ReadSettles ==
  ASSUME LedgerInv, MaxCalls \in Nat, ReadMessage
  PROVE  LedgerInv' /\ LedgerStep /\ (pending = {} => pending' = {})
<1> DEFINE m == Head(fromAdapter)
<1>1. CASE pending' = pending /\ NoCallback
  BY <1>1, Quiet DEF NoCallback
<1>2. ASSUME m.ref \in pending, NEW again \in BOOLEAN, AnswerRequest(m.ref, again)
      PROVE  LedgerInv' /\ LedgerStep
  <2>1. PICK a \in pending : a = m.ref
    BY <1>2
  <2>2. RunCallbacks({a}, "answered", {}) /\ {a} \in SUBSET pending /\ made \in Nat
    BY <1>2, <2>1 DEF AnswerRequest, LedgerInv
  <2>3. CASE again
    <3>1. /\ made < MaxCalls /\ made' = made + 1
          /\ pending' = (pending \ {a}) \cup {made + 1}
      BY <1>2, <2>1, <2>3 DEF AnswerRequest
    <3>2. made' \in made .. MaxCalls /\ {} \cup {made + 1} = made + 1 .. made'
      BY <2>2, <3>1
    <3> QED
      BY <2>2, <3>1, <3>2, Settles
  <2>4. CASE ~again
    <3>1. made' = made /\ pending' = (pending \ {a}) \cup {}
      BY <1>2, <2>1, <2>4 DEF AnswerRequest
    <3>2. made' \in made .. MaxCalls /\ {} \cup {} = made + 1 .. made'
      BY <2>2, <3>1 DEF LedgerInv
    <3> QED
      BY <2>2, <3>1, <3>2, Settles
  <2> QED
    BY <2>3, <2>4
<1>3. LedgerInv' /\ LedgerStep
  BY <1>1, <1>2 DEF ReadMessage
<1>4. ASSUME pending = {} PROVE pending' = {}
  BY <1>4 DEF ReadMessage
<1> QED
  BY <1>3, <1>4

(* Every step is a step of the ledger. *)
LEMMA LedgerNext ==
  ASSUME LedgerInv, MaxCalls \in Nat, [Next]_vars
  PROVE  LedgerInv' /\ LedgerStep
<1>1. ASSUME UNCHANGED <<pending, made, fate, calls>> PROVE LedgerInv' /\ LedgerStep
  BY <1>1, Quiet
<1>2. CASE Start
  BY <1>1, <1>2 DEF Start, historyVars
<1>3. CASE Request
  <2>1. CASE exited \/ ~started
    <3>1. /\ made < MaxCalls /\ made' = made + 1 /\ pending' = (pending \ {}) \cup {}
          /\ RunCallbacks({}, "failed", {made + 1})
      BY <1>3, <2>1 DEF Request
    <3>2. made' \in made .. MaxCalls /\ {made + 1} \cup {} = made + 1 .. made'
      BY <3>1 DEF LedgerInv
    <3> QED
      BY <3>1, <3>2, Settles
  <2>2. CASE ~(exited \/ ~started)
    BY <1>3, <2>2, Opens DEF Request
  <2> QED
    BY <2>1, <2>2
<1>4. CASE Stop
  BY <1>1, <1>4 DEF Stop, historyVars
<1>5. CASE Free
  BY <1>5, Drops DEF Free
<1>6. CASE ReadMessage
  BY <1>6, ReadSettles
<1>7. CASE ReadEof
  BY <1>7, Marks DEF ReadEof
<1>8. CASE ProcessExited
  BY <1>8, Marks DEF ProcessExited
<1>9. CASE WriteCompletes \/ CancelledWriteCompletes
  BY <1>1, <1>9 DEF WriteCompletes, CancelledWriteCompletes, clientVars, historyVars
<1>10. CASE AdapterNext
  BY <1>1, <1>10 DEF AdapterNext, AdapterReads, AdapterAnswers, AdapterSpeaks, AdapterExits,
                     clientVars, historyVars
<1>11. CASE UNCHANGED vars
  BY <1>1, <1>11 DEF vars, clientVars, historyVars
<1> QED
  BY <1>2, <1>3, <1>4, <1>5, <1>6, <1>7, <1>8, <1>9, <1>10, <1>11 DEF Next, OwnerNext, LoopNext

(* In the beginning no request was made. *)
LEMMA LedgerInit ==
  ASSUME Init, MaxCalls \in Nat
  PROVE  LedgerInv /\ Ledger!Init
<1>1. \A c \in Calls : c > 0
  BY DEF Calls
<1>2. LedgerInv
  BY <1>1 DEF Init, LedgerInv, RanCallback, Fates
<1>3. Ledger!Init
  BY <1>1 DEF Init, Ledger!Init, Status
<1> QED
  BY <1>2, <1>3

(* What the pending table of ide_dap_client.c, the callbacks that ran and  *)
(* the numbers given out say of one another, for any number of requests.   *)
THEOREM LedgerInvariant ==
  ASSUME MaxCalls \in Nat
  PROVE  Spec => []LedgerInv
<1>1. Init => LedgerInv
  BY LedgerInit
<1>2. LedgerInv /\ [Next]_vars => LedgerInv'
  BY LedgerNext
<1> QED
  BY <1>1, <1>2, PTL DEF Spec

(* The promise of IdeDapResponseCb for any number of requests: the         *)
(* callback of each runs once, with the answer or an error, or never       *)
(* because the client was freed.                                           *)
THEOREM KeepsLedgerAlways ==
  ASSUME MaxCalls \in Nat
  PROVE  Spec => KeepsLedger
<1>1. Init => Ledger!Init
  BY LedgerInit
<1>2. LedgerInv' => StatusOK'
  BY StatusType, PTL
<1>3. LedgerInv /\ LedgerInv' /\ [Next]_vars
        => [Ledger!Next]_<<[c \in Calls |-> Status(c)], calls>>
  <2> SUFFICES ASSUME LedgerInv, LedgerInv', [Next]_vars
               PROVE  Ledger!Next
    OBVIOUS
  <2>1. LedgerStep
    BY LedgerNext
  <2>2. StatusMap' \in [Calls -> Ledger!Statuses]
    BY <1>2 DEF StatusOK
  <2>3. calls' \in [Calls -> 0 .. 1]
    BY DEF LedgerInv
  <2> QED
    BY <2>1, <2>2, <2>3 DEF LedgerStep, StatusMap, Ledger!Next, Ledger!Evolves
<1> QED
  BY <1>1, <1>3, LedgerInvariant, PTL DEF Spec, KeepsLedger, Ledger!Spec

-----------------------------------------------------------------------------
(* How the exit is noticed: once, after it nobody waits and nothing but the*)
(* read that was already outstanding is still to come.                     *)
ExitInv ==
  /\ {started, alive, exited, freed, reading, outOpen} \subseteq BOOLEAN
  /\ ExitSettles
  /\ exited \/ reading => started
  /\ freed => ~reading
  /\ lateEvents = 0 \/ (lateEvents = 1 /\ exited /\ ~reading)

(* The values of the writer's and the adapter's variables.  A client that  *)
(* was not started has nothing to write, and one that was is not idle with *)
(* something to write.                                                     *)
WriterInv ==
  /\ out \in Seq(Message) /\ writing \in Seq(Message) /\ writeQueue \in Seq(Message)
  /\ Len(writing) <= 1
  /\ ~started => writing = <<>> /\ writeQueue = <<>>
  /\ WriterNeverIdle
  /\ transport \in {"process", "socket"} /\ proc \in {"none", "running", "exited"}
  /\ readUpTo \in 0 .. Len(out) /\ asks \in 0 .. MaxAsks
  /\ fromAdapter \in Seq(Message) /\ owed \subseteq 0 .. MaxCalls

(* A step that notices the exit (mark_exited) and at most ends the read. *)
LEMMA Noticed ==
  ASSUME LedgerInv, MaxCalls \in Nat, ExitInv, MarkExited, started, reading' \in {reading, FALSE},
         UNCHANGED <<started, freed, outOpen, lateEvents>>
  PROVE  ExitInv'
<1>1. \/ exited /\ UNCHANGED <<exited, alive, pending, exitCalls>>
      \/ /\ ~exited /\ exited' = TRUE /\ alive' = FALSE /\ pending' = {}
         /\ exitCalls' = exitCalls + 1
  BY Marks
<1>2. ExitSettles'
  BY <1>1 DEF ExitInv, ExitSettles
<1>3. {started', alive', exited', freed', reading', outOpen'} \subseteq BOOLEAN
  BY <1>1 DEF ExitInv
<1>4. freed' => ~reading'
  BY DEF ExitInv
<1>5. exited' /\ (lateEvents = 0 \/ (lateEvents = 1 /\ ~reading'))
  <2>1. exited'
    BY <1>1
  <2>2. ~reading => ~reading'
    OBVIOUS
  <2>3. lateEvents = 0 \/ (lateEvents = 1 /\ ~reading)
    BY DEF ExitInv
  <2> QED
    BY <2>1, <2>2, <2>3
<1> QED
  BY <1>2, <1>3, <1>4, <1>5 DEF ExitInv

(* Every step keeps what is said of the exit. *)
LEMMA ExitNext ==
  ASSUME LedgerInv, MaxCalls \in Nat, ExitInv, [Next]_vars
  PROVE  ExitInv'
<1>1. ASSUME UNCHANGED <<started, alive, exited, freed, pending, reading, outOpen, exitCalls,
                         lateEvents>>
      PROVE  ExitInv'
  BY <1>1 DEF ExitInv, ExitSettles
<1>2. CASE Start
  BY <1>2 DEF Start, historyVars, ExitInv, ExitSettles
<1>3. CASE Request
  BY <1>3 DEF Request, ExitInv, ExitSettles
<1>4. CASE Stop
  BY <1>4 DEF Stop, historyVars, ExitInv, ExitSettles
<1>5. CASE Free
  BY <1>5 DEF Free, ExitInv, ExitSettles
<1>6. CASE ReadMessage
  <2>1. pending = {} => pending' = {}
    BY <1>6, ReadSettles
  <2>2. /\ reading /\ reading' = ~exited /\ lateEvents' \in {lateEvents, lateEvents + 1}
        /\ (lateEvents' # lateEvents => exited)
        /\ UNCHANGED <<started, alive, exited, freed, outOpen, exitCalls>>
    BY <1>6 DEF ReadMessage
  <2>3. lateEvents = 0 /\ started /\ ~freed
    BY <2>2 DEF ExitInv
  <2>4. ExitSettles'
    BY <2>1, <2>2 DEF ExitInv, ExitSettles
  <2>5. lateEvents' = 0 \/ (lateEvents' = 1 /\ exited' /\ ~reading')
    <3>1. CASE lateEvents' = lateEvents
      BY <2>3, <3>1
    <3>2. CASE lateEvents' = lateEvents + 1
      <4>1. exited /\ exited' /\ lateEvents' = 1
        BY <2>2, <2>3, <3>2
      <4>2. ~reading'
        BY <2>2, <4>1
      <4> QED
        BY <4>1, <4>2
    <3> QED
      BY <2>2, <3>1, <3>2
  <2> QED
    BY <2>2, <2>3, <2>4, <2>5 DEF ExitInv
<1>7. CASE ReadEof
  BY <1>7, Noticed DEF ReadEof, ExitInv
<1>8. CASE ProcessExited
  BY <1>8, Noticed DEF ProcessExited
<1>9. CASE WriteCompletes \/ CancelledWriteCompletes
  BY <1>1, <1>9 DEF WriteCompletes, CancelledWriteCompletes, clientVars, historyVars
<1>10. CASE AdapterNext
  BY <1>1, <1>10 DEF AdapterNext, AdapterReads, AdapterAnswers, AdapterSpeaks, AdapterExits,
                     clientVars, historyVars
<1>11. CASE UNCHANGED vars
  BY <1>1, <1>11 DEF vars, clientVars, historyVars
<1> QED
  BY <1>2, <1>3, <1>4, <1>5, <1>6, <1>7, <1>8, <1>9, <1>10, <1>11 DEF Next, OwnerNext, LoopNext

-----------------------------------------------------------------------------
(* What pump_writer leaves: it is not idle with something to write.        *)
LEMMA Pumps ==
  ASSUME NEW queue \in Seq(Message), NEW busy \in Seq(Message), Len(busy) <= 1,
         Pump(queue, busy)
  PROVE  /\ writing' \in Seq(Message) /\ writeQueue' \in Seq(Message) /\ Len(writing') <= 1
         /\ writeQueue' # <<>> => writing' # <<>>
<1>1. CASE busy = <<>> /\ queue # <<>>
  <2>1. writing' = <<Head(queue)>> /\ writeQueue' = Tail(queue)
    BY <1>1 DEF Pump
  <2>2. Head(queue) \in Message /\ Tail(queue) \in Seq(Message)
    BY <1>1, HeadTailProperties
  <2> QED
    BY <2>1, <2>2
<1>2. CASE ~(busy = <<>> /\ queue # <<>>)
  BY <1>2 DEF Pump
<1> QED
  BY <1>1, <1>2

(* Send puts one message behind the others. *)
LEMMA Sends ==
  ASSUME WriterInv, NEW m \in Message, Send(<<m>>)
  PROVE  /\ writing' \in Seq(Message) /\ writeQueue' \in Seq(Message) /\ Len(writing') <= 1
         /\ writeQueue' # <<>> => writing' # <<>>
         /\ out' = out
<1>1. <<m>> \in Seq(Message)
  OBVIOUS
<1>2. writeQueue \o <<m>> \in Seq(Message)
  BY <1>1, ConcatProperties DEF WriterInv
<1> QED
  BY <1>2, Pumps DEF Send, WriterInv

(* The messages of the client and of the adapter are messages. *)
LEMMA Msgs ==
  ASSUME MaxCalls \in Nat
  PROVE  /\ \A kind \in Kinds, c \in 0 .. MaxCalls :
              Msg(kind, c) \in Message /\ Msg(kind, c).kind = kind /\ Msg(kind, c).ref = c
         /\ 0 \in 0 .. MaxCalls
BY DEF Msg, Message

(* A step that leaves the queue alone and lets the adapter go on. *)
LEMMA WriterStays ==
  ASSUME WriterInv, UNCHANGED <<writing, writeQueue, out>>,
         started => started', started' => started, freed => freed', outOpen' => outOpen,
         transport' = transport, proc' \in {proc, "exited"},
         readUpTo' \in 0 .. Len(out), asks' \in 0 .. MaxAsks,
         fromAdapter' \in Seq(Message), owed' \subseteq 0 .. MaxCalls
  PROVE  WriterInv'
BY DEF WriterInv, WriterNeverIdle

(* A step that sends one message and changes nothing else of the stream. *)
LEMMA WriterSends ==
  ASSUME WriterInv, MaxCalls \in Nat, NEW m \in Message, Send(<<m>>), started,
         UNCHANGED <<started, freed, outOpen, transport, proc, readUpTo, asks, owed>>,
         fromAdapter' \in Seq(Message)
  PROVE  WriterInv'
<1>1. /\ writing' \in Seq(Message) /\ writeQueue' \in Seq(Message) /\ Len(writing') <= 1
      /\ writeQueue' # <<>> => writing' # <<>>
      /\ out' = out
  BY Sends
<1> QED
  BY <1>1 DEF WriterInv, WriterNeverIdle

(* The completion of a write goes on with the next message. *)
LEMMA WriteKeeps ==
  ASSUME WriterInv, MaxCalls \in Nat, WriteCompletes \/ CancelledWriteCompletes
  PROVE  WriterInv'
<1>1. UNCHANGED <<started, freed, outOpen, transport, proc, readUpTo, asks, owed, fromAdapter>>
  BY DEF WriteCompletes, CancelledWriteCompletes, clientVars, adapterVars
<1>2. writing # <<>> /\ started
  BY DEF WriteCompletes, CancelledWriteCompletes, WriteDone, WriteFails, WriteShort, WriterInv
<1>3. <<>> \in Seq(Message) /\ Len(<<>>) <= 1 /\ Len(out) \in Nat
  BY EmptySeq, LenProperties DEF WriterInv
<1>4. CASE WriteDone \/ WriteShort(Msg("torn", 0))
  <2>1. Pump(writeQueue, <<>>)
    BY <1>4 DEF WriteDone, WriteShort
  <2>2. /\ writing' \in Seq(Message) /\ writeQueue' \in Seq(Message) /\ Len(writing') <= 1
        /\ writeQueue' # <<>> => writing' # <<>>
    BY <1>3, <2>1, Pumps DEF WriterInv
  <2>3. out' \in Seq(Message) /\ Len(out') >= Len(out) /\ Len(out') \in Nat
    <3>1. CASE WriteDone
      BY <3>1, ConcatProperties, LenProperties DEF WriteDone, WriterInv
    <3>2. CASE WriteShort(Msg("torn", 0))
      <4>1. Msg("torn", 0) \in Message
        BY Msgs DEF Kinds
      <4> QED
        BY <1>3, <3>2, <4>1, AppendProperties DEF WriteShort, WriterInv
    <3> QED
      BY <1>4, <3>1, <3>2
  <2>4. readUpTo' \in 0 .. Len(out')
    BY <1>1, <1>3, <2>3 DEF WriterInv
  <2> QED
    BY <1>1, <1>2, <2>2, <2>3, <2>4 DEF WriterInv, WriterNeverIdle
<1>5. CASE WriteFails /\ (~outOpen \/ proc = "exited" \/ freed)
  <2>1. writing' = <<>> /\ UNCHANGED <<writeQueue, out>>
    BY <1>5 DEF WriteFails
  <2> QED
    BY <1>1, <1>2, <1>3, <1>5, <2>1 DEF WriterInv, WriterNeverIdle
<1> QED
  BY <1>4, <1>5 DEF WriteCompletes, CancelledWriteCompletes

(* What the adapter does leaves the writer of the client alone. *)
LEMMA AdapterKeeps ==
  ASSUME WriterInv, MaxCalls \in Nat, MaxAsks \in Nat, AdapterNext
  PROVE  WriterInv'
<1>1. UNCHANGED <<started, freed, outOpen, transport, writing, writeQueue, out>>
  BY DEF AdapterNext, AdapterReads, AdapterAnswers, AdapterSpeaks, AdapterExits, clientVars,
         writerVars
<1>2. /\ readUpTo \in 0 .. Len(out) /\ asks \in 0 .. MaxAsks /\ Len(out) \in Nat
      /\ fromAdapter \in Seq(Message) /\ owed \subseteq 0 .. MaxCalls
  BY LenProperties DEF WriterInv
<1>3. CASE AdapterReads
  <2>1. /\ readUpTo < Len(out) /\ readUpTo' = readUpTo + 1
        /\ UNCHANGED <<proc, fromAdapter, asks>>
    BY <1>3 DEF AdapterReads
  <2>2. PICK n \in 1 .. Len(out) : n = readUpTo + 1
    BY <1>2, <2>1
  <2>3. out[n] \in Message
    BY <2>2, ElementOfSeq DEF WriterInv
  <2>4. owed' \subseteq owed \cup {out[n].ref} /\ out[n].ref \in 0 .. MaxCalls
    BY <1>3, <2>2, <2>3 DEF AdapterReads, Message
  <2>5. readUpTo' \in 0 .. Len(out) /\ owed' \subseteq 0 .. MaxCalls
    BY <1>2, <2>1, <2>4
  <2> QED
    BY <1>1, <1>2, <2>1, <2>5, WriterStays
<1>4. CASE AdapterAnswers
  <2>1. PICK r \in owed : owed' = owed \ {r} /\ fromAdapter' = Append(fromAdapter, Msg("answer", r))
    BY <1>4 DEF AdapterAnswers
  <2>2. UNCHANGED <<proc, readUpTo, asks>>
    BY <1>4 DEF AdapterAnswers
  <2>3. Msg("answer", r) \in Message
    BY <1>2, <2>1, Msgs DEF Kinds
  <2>4. fromAdapter' \in Seq(Message) /\ owed' \subseteq 0 .. MaxCalls
    BY <1>2, <2>1, <2>3, AppendProperties
  <2> QED
    BY <1>1, <1>2, <2>2, <2>4, WriterStays
<1>5. CASE AdapterSpeaks
  <2>1. PICK kind \in {"event", "ask"} : fromAdapter' = Append(fromAdapter, Msg(kind, 0))
    BY <1>5 DEF AdapterSpeaks
  <2>2. asks' \in 0 .. MaxAsks /\ UNCHANGED <<proc, readUpTo, owed>>
    BY <1>2, <1>5 DEF AdapterSpeaks
  <2>3. Msg(kind, 0) \in Message
    BY <2>1, Msgs DEF Kinds
  <2>4. fromAdapter' \in Seq(Message)
    BY <1>2, <2>1, <2>3, AppendProperties
  <2> QED
    BY <1>1, <1>2, <2>2, <2>4, WriterStays
<1>6. CASE AdapterExits
  <2>1. proc' = "exited" /\ UNCHANGED <<fromAdapter, readUpTo, owed, asks>>
    BY <1>6 DEF AdapterExits
  <2> QED
    BY <1>1, <1>2, <2>1, WriterStays
<1> QED
  BY <1>3, <1>4, <1>5, <1>6 DEF AdapterNext

(* A message of the adapter that is read may be replied to, or its         *)
(* callback may send the next request.                                     *)
LEMMA ReadKeeps ==
  ASSUME WriterInv, LedgerInv, ExitInv, MaxCalls \in Nat, ReadMessage
  PROVE  WriterInv'
<1> DEFINE m == Head(fromAdapter)
<1>1. /\ reading /\ fromAdapter # <<>> /\ fromAdapter' = Tail(fromAdapter)
      /\ UNCHANGED <<started, freed, outOpen, transport, proc, readUpTo, asks, owed>>
  BY DEF ReadMessage
<1>2. started /\ fromAdapter' \in Seq(Message)
  BY <1>1, HeadTailProperties DEF ExitInv, WriterInv
<1>3. readUpTo \in 0 .. Len(out) /\ asks \in 0 .. MaxAsks /\ owed \subseteq 0 .. MaxCalls
  BY DEF WriterInv
<1>4. CASE SendsNothing
  <2>1. UNCHANGED <<writing, writeQueue, out>>
    BY <1>4 DEF SendsNothing, writerVars
  <2> QED
    BY <1>1, <1>2, <1>3, <2>1, WriterStays
<1>5. CASE Send(<<Msg("reply", 0)>>)
  <2>1. Msg("reply", 0) \in Message
    BY Msgs DEF Kinds
  <2> QED
    BY <1>1, <1>2, <1>5, <2>1, WriterSends
<1>6. CASE made < MaxCalls /\ Send(<<Msg("request", made + 1)>>)
  <2>1. made + 1 \in 0 .. MaxCalls
    BY <1>6 DEF LedgerInv
  <2>2. Msg("request", made + 1) \in Message
    BY <2>1, Msgs DEF Kinds
  <2> QED
    BY <1>1, <1>2, <1>6, <2>2, WriterSends
<1> QED
  BY <1>4, <1>5, <1>6 DEF ReadMessage, AnswerRequest

(* Every step keeps what is said of the writer. *)
LEMMA WriterNext ==
  ASSUME LedgerInv, ExitInv, WriterInv, MaxCalls \in Nat, MaxAsks \in Nat, [Next]_vars
  PROVE  WriterInv'
<1>1. /\ readUpTo \in 0 .. Len(out) /\ asks \in 0 .. MaxAsks /\ <<>> \in Seq(Message)
      /\ fromAdapter \in Seq(Message) /\ owed \subseteq 0 .. MaxCalls
  BY EmptySeq DEF WriterInv
<1>2. CASE Start
  BY <1>2 DEF Start, writerVars, WriterInv, WriterNeverIdle
<1>3. CASE Request
  <2>1. UNCHANGED <<started, freed, outOpen, transport, proc, readUpTo, asks, owed, fromAdapter>>
    BY <1>3 DEF Request, adapterVars
  <2>2. CASE SendsNothing
    <3>1. UNCHANGED <<writing, writeQueue, out>>
      BY <2>2 DEF SendsNothing, writerVars
    <3> QED
      BY <1>1, <2>1, <3>1, WriterStays
  <2>3. CASE started /\ made < MaxCalls /\ Send(<<Msg("request", made + 1)>>)
    <3>1. made + 1 \in 0 .. MaxCalls
      BY <2>3 DEF LedgerInv
    <3>2. Msg("request", made + 1) \in Message
      BY <3>1, Msgs DEF Kinds
    <3> QED
      BY <1>1, <2>1, <2>3, <3>2, WriterSends
  <2> QED
    BY <1>3, <2>2, <2>3 DEF Request, ExitInv
<1>4. CASE Stop
  <2>1. /\ UNCHANGED <<started, freed, transport, readUpTo, asks, owed, fromAdapter>>
        /\ UNCHANGED <<writing, writeQueue, out>> /\ (outOpen' => outOpen)
        /\ proc' \in {proc, "exited"}
    BY <1>4 DEF Stop, writerVars
  <2> QED
    BY <1>1, <2>1, WriterStays
<1>5. CASE Free
  BY <1>1, <1>5 DEF Free, WriterInv, WriterNeverIdle
<1>6. CASE ReadMessage
  BY <1>6, ReadKeeps
<1>7. CASE ReadEof \/ ProcessExited \/ UNCHANGED vars
  <2>1. /\ UNCHANGED <<started, freed, outOpen, transport, proc, readUpTo, asks, owed, fromAdapter>>
        /\ UNCHANGED <<writing, writeQueue, out>>
    BY <1>7 DEF ReadEof, ProcessExited, vars, clientVars, adapterVars, writerVars
  <2> QED
    BY <1>1, <2>1, WriterStays
<1>8. CASE WriteCompletes \/ CancelledWriteCompletes
  BY <1>8, WriteKeeps
<1>9. CASE AdapterNext
  BY <1>9, AdapterKeeps
<1> QED
  BY <1>2, <1>3, <1>4, <1>5, <1>6, <1>7, <1>8, <1>9 DEF Next, OwnerNext, LoopNext

(* The exit, for any number of calls: it is noticed once, every request is *)
(* settled then, at most one event follows, the values have their types and*)
(* the writer is never idle with something to write.                       *)
THEOREM ExitIsCleanAlways ==
  ASSUME MaxCalls \in Nat, MaxAsks \in Nat, Transports \subseteq {"process", "socket"}
  PROVE  Spec => [](TypeOK /\ ExitSettles /\ OneLateEvent /\ WriterNeverIdle)
<1> DEFINE Inv == LedgerInv /\ ExitInv /\ WriterInv
<1>1. Init => Inv
  <2> SUFFICES ASSUME Init PROVE Inv
    OBVIOUS
  <2>1. <<>> \in Seq(Message) /\ Len(<<>>) = 0
    BY EmptySeq
  <2>2. ExitInv
    BY DEF Init, ExitInv, ExitSettles
  <2>3. transport \in {"process", "socket"} /\ proc \in {"none", "running", "exited"}
    BY DEF Init
  <2>4. readUpTo \in 0 .. Len(out) /\ asks \in 0 .. MaxAsks /\ owed \subseteq 0 .. MaxCalls
    BY <2>1 DEF Init, WriterInit
  <2>5. WriterInv
    BY <2>1, <2>3, <2>4 DEF Init, WriterInit, WriterInv, WriterNeverIdle
  <2> QED
    BY <2>2, <2>5, LedgerInit
<1>2. Inv /\ [Next]_vars => Inv'
  BY LedgerNext, ExitNext, WriterNext
<1>3. Inv => TypeOK /\ ExitSettles /\ OneLateEvent /\ WriterNeverIdle
  <2> SUFFICES ASSUME Inv PROVE TypeOK /\ ExitSettles /\ OneLateEvent /\ WriterNeverIdle
    OBVIOUS
  <2>1. Outgoing \in Seq(Message)
    BY ConcatProperties DEF WriterInv, Outgoing
  <2>2. exitCalls \in Nat /\ lateEvents \in Nat /\ OneLateEvent
    BY DEF ExitInv, ExitSettles, OneLateEvent
  <2>3. calls \in [Calls -> Nat]
    BY DEF LedgerInv
  <2>4. TypeOK
    BY <2>1, <2>2, <2>3 DEF LedgerInv, ExitInv, WriterInv, TypeOK
  <2> QED
    BY <2>2, <2>4 DEF ExitInv, WriterInv
<1> QED
  BY <1>1, <1>2, <1>3, PTL DEF Spec
=============================================================================
