--------------------------- MODULE LspClientProofs ---------------------------
(***************************************************************************)
(* What LspClient guarantees for any number of calls and whatever the      *)
(* server does: no request waits on a stopped client, the life of every    *)
(* request is the one RequestLedger allows, and the server receives the    *)
(* messages in the order of the calls.  The theorems of DapClientProofs    *)
(* come last, for the client of a debug adapter that runs beside it.       *)
(***************************************************************************)
EXTENDS LspClient, AdapterClient, FiniteSetTheorems, SequenceTheorems, TLAPS

(* A request has no fate exactly while it is open or has not been made, and*)
(* its callback has run exactly when it was answered or failed.            *)
RanCallback(c) == fate[c] \in {"answered", "failed", "refused"}

LedgerInv ==
  /\ accepted \in 0 .. MaxCalls
  /\ asked \subseteq 1 .. accepted
  /\ pending \subseteq asked \cup {0}
  /\ fate \in [Calls -> Fates] /\ calls \in [Calls -> 0 .. 1]
  /\ \A c \in Calls : fate[c] = "none" <=> (c \in pending \/ c \notin asked)
  /\ \A c \in Calls : calls[c] = 1 <=> RanCallback(c)
  /\ StoppedSettles

ledgerVars == <<pending, accepted, asked, fate, calls>>

StatusMap == [c \in Calls |-> Status(c)]
StatusOK == StatusMap \in [Calls -> Ledger!Statuses]

(* What a step has to do to be a step of the ledger.                       *)
LedgerStep ==
  \A c \in Calls :
    /\ Status(c)' = Status(c) \/ <<Status(c), Status(c)'>> \in Ledger!Moves
    /\ calls'[c] = calls[c] + (IF Ledger!RunsCallback(Status(c), Status(c)') THEN 1 ELSE 0)

(* LedgerInv gives every request a status of the ledger. *)
LEMMA StatusType == LedgerInv => StatusOK
<1> SUFFICES ASSUME LedgerInv, NEW c \in Calls
             PROVE  Status(c) \in Ledger!Statuses
  BY DEF StatusMap, StatusOK
<1>1. fate[c] \in Fates
  BY DEF LedgerInv
<1>2. c \notin pending /\ c \in asked => fate[c] # "none"
  BY DEF LedgerInv
<1> QED
  BY <1>1, <1>2 DEF Status, Ledger!Statuses, Fates

(* A step that leaves the owner's requests and the history alone, and stops*)
(* nobody who is still waited for.                                         *)
LEMMA Quiet ==
  ASSUME LedgerInv, MaxCalls \in Nat,
         pending' \cup {0} = pending \cup {0},
         accepted' \in accepted .. MaxCalls,
         UNCHANGED <<asked, fate, calls>>,
         cstate' \in {"STOPPED", "FREED"} => pending' = {}
  PROVE  LedgerInv' /\ LedgerStep
<1>1. \A c \in Calls : c # 0 /\ (c \in pending' <=> c \in pending)
  BY DEF Calls
<1>2. \A c \in Calls : fate'[c] = "none" <=> (c \in pending' \/ c \notin asked')
  BY <1>1 DEF LedgerInv
<1>3. accepted' \in 0 .. MaxCalls /\ asked' \subseteq 1 .. accepted'
  BY DEF LedgerInv
<1>4. LedgerInv'
  BY <1>2, <1>3 DEF LedgerInv, StoppedSettles, RanCallback
<1>5. \A c \in Calls : Status(c)' = Status(c) /\ calls'[c] = calls[c] /\ calls[c] \in 0 .. 1
  BY <1>1 DEF LedgerInv, Status
<1>6. \A c \in Calls : ~Ledger!RunsCallback(Status(c), Status(c)')
  BY <1>5 DEF Ledger!RunsCallback
<1> QED
  BY <1>4, <1>5, <1>6 DEF LedgerStep

(* A step that opens the next request. *)
LEMMA Opens ==
  ASSUME LedgerInv, accepted < MaxCalls, MaxCalls \in Nat,
         accepted' = accepted + 1,
         asked' = asked \cup {accepted + 1},
         pending' = pending \cup {accepted + 1},
         UNCHANGED <<fate, calls>>,
         cstate' \notin {"STOPPED", "FREED"}
  PROVE  LedgerInv' /\ LedgerStep
<1>0. PICK r \in Calls : r = accepted + 1
  BY DEF LedgerInv, Calls
<1>1. r \in Calls /\ r \notin asked /\ r \notin pending /\ r # 0
  BY <1>0 DEF LedgerInv, Calls
<1>2. fate[r] = "none" /\ calls[r] \in 0 .. 1
  BY <1>1 DEF LedgerInv
<1>3. LedgerInv'
  BY <1>0, <1>1, <1>2 DEF LedgerInv, StoppedSettles, RanCallback, Calls
<1>4. \A c \in Calls \ {r} : Status(c)' = Status(c)
  BY <1>0 DEF Status
<1>5. Status(r) = "unissued" /\ Status(r)' = "open"
  BY <1>0, <1>1 DEF Status
<1>6. \A c \in Calls : ~Ledger!RunsCallback(Status(c), Status(c)')
  BY <1>4, <1>5 DEF Ledger!RunsCallback
<1>7. \A c \in Calls : calls'[c] = calls[c] + 0
  BY DEF LedgerInv
<1> QED
  BY <1>3, <1>4, <1>5, <1>6, <1>7 DEF LedgerStep, Ledger!Moves

(* A step that runs the callbacks of the open requests `ended` and those of*)
(* the n requests that are refused meanwhile.                              *)
LEMMA Settles ==
  ASSUME LedgerInv, MaxCalls \in Nat,
         NEW ended \in SUBSET (pending \ {0}), NEW how \in {"answered", "failed"},
         NEW n \in Nat, accepted + n <= MaxCalls,
         RunCallbacks(ended, how, NewCalls(n)),
         accepted' = accepted + n,
         asked' = asked \cup NewCalls(n),
         pending' \in {pending \ ended, {}},
         pending' = {} => pending \subseteq ended \cup {0},
         cstate' \in {"STOPPED", "FREED"} => pending' = {}
  PROVE  LedgerInv' /\ LedgerStep
<1> DEFINE new == NewCalls(n)
<1>1. \A c : c \in new <=> c \in Int /\ accepted < c /\ c <= accepted + n
  BY DEF NewCalls, LedgerInv
<1>2. new \subseteq Calls /\ new \cap asked = {} /\ new \cap pending = {}
  BY <1>1 DEF LedgerInv, Calls
<1>3. ended \subseteq Calls /\ ended \subseteq asked /\ 0 \notin ended
  BY DEF LedgerInv, Calls
<1>4. \A c \in ended \cup new : fate[c] = "none" /\ calls[c] = 0
  BY <1>2, <1>3 DEF LedgerInv, RanCallback
<1>5. \A c \in Calls \ {0} : c \in pending' <=> c \in pending /\ c \notin ended
  OBVIOUS
<1>6. /\ \A c \in ended : fate'[c] = how /\ calls'[c] = 1
      /\ \A c \in new : fate'[c] = "refused" /\ calls'[c] = 1
      /\ \A c \in Calls \ (ended \cup new) : fate'[c] = fate[c] /\ calls'[c] = calls[c]
  BY <1>2, <1>3, <1>4 DEF RunCallbacks
<1>7. fate' \in [Calls -> Fates] /\ calls' \in [Calls -> 0 .. 1]
  BY <1>2, <1>3, <1>4 DEF RunCallbacks, LedgerInv, Fates
<1>8. accepted' \in 0 .. MaxCalls /\ asked' \subseteq 1 .. accepted'
      /\ pending' \subseteq asked' \cup {0}
  <2>1. accepted' \in 0 .. MaxCalls
    BY DEF LedgerInv
  <2>2. asked \subseteq 1 .. accepted' /\ new \subseteq 1 .. accepted'
    BY <1>1 DEF LedgerInv
  <2>3. pending' \subseteq asked' \cup {0}
    BY DEF LedgerInv
  <2> QED
    BY <2>1, <2>2, <2>3
<1>9. \A c \in Calls : c \in Int /\ c # 0
  BY DEF Calls
<1>10. ASSUME NEW c \in Calls
       PROVE  /\ fate'[c] = "none" <=> (c \in pending' \/ c \notin asked')
              /\ calls'[c] = 1 <=> fate'[c] \in {"answered", "failed", "refused"}
  <2>1. CASE c \in ended
    BY <2>1, <1>3, <1>5, <1>6, <1>9
  <2>2. CASE c \in new
    BY <2>2, <1>2, <1>5, <1>6, <1>9
  <2>3. CASE c \notin ended \cup new
    <3>1. fate'[c] = fate[c] /\ calls'[c] = calls[c]
      BY <2>3, <1>6
    <3>2. (c \in pending' <=> c \in pending) /\ (c \in asked' <=> c \in asked)
      BY <2>3, <1>5, <1>9
    <3> QED
      BY <3>1, <3>2 DEF LedgerInv, RanCallback
  <2> QED
    BY <2>1, <2>2, <2>3
<1>11. LedgerInv'
  BY <1>7, <1>8, <1>10 DEF LedgerInv, StoppedSettles, RanCallback
<1>12. ASSUME NEW c \in Calls
       PROVE  /\ Status(c)' = Status(c) \/ <<Status(c), Status(c)'>> \in Ledger!Moves
              /\ calls'[c] = calls[c]
                   + (IF Ledger!RunsCallback(Status(c), Status(c)') THEN 1 ELSE 0)
  <2>1. CASE c \in ended
    <3>1. Status(c) = "open" /\ Status(c)' = how
      BY <2>1, <1>3, <1>5, <1>6, <1>9 DEF Status
    <3> QED
      BY <2>1, <3>1, <1>4, <1>6 DEF Ledger!Moves, Ledger!RunsCallback
  <2>2. CASE c \in new
    <3>1. Status(c) = "unissued" /\ Status(c)' = "failed"
      BY <2>2, <1>2, <1>5, <1>6, <1>9 DEF Status
    <3> QED
      BY <2>2, <3>1, <1>4, <1>6 DEF Ledger!Moves, Ledger!RunsCallback
  <2>3. CASE c \notin ended \cup new
    <3>1. Status(c)' = Status(c)
      BY <2>3, <1>5, <1>6, <1>9 DEF Status
    <3>2. calls'[c] = calls[c] /\ calls[c] \in 0 .. 1
      BY <2>3, <1>6 DEF LedgerInv
    <3> QED
      BY <3>1, <3>2 DEF Ledger!RunsCallback
  <2> QED
    BY <2>1, <2>2, <2>3
<1> QED
  BY <1>11, <1>12 DEF LedgerStep

(* A step that drops open requests without running their callbacks. *)
LEMMA Drops ==
  ASSUME LedgerInv, NEW gone \in SUBSET (pending \ {0}),
         pending' \in {pending \ gone, {}},
         pending' = {} => pending \subseteq gone \cup {0},
         fate' = [c \in Calls |-> IF c \in gone THEN "dropped" ELSE fate[c]],
         UNCHANGED <<accepted, asked, calls>>,
         cstate' \in {"STOPPED", "FREED"} => pending' = {}
  PROVE  LedgerInv' /\ LedgerStep
<1>1. gone \subseteq asked /\ gone \subseteq Calls
  BY LspClientAssumption DEF LedgerInv, Calls, LspClientAssumption
<1>2. \A c \in Calls : c # 0 /\ (c \in pending' <=> c \in pending /\ c \notin gone)
  BY DEF Calls
<1>3. \A c \in gone : fate[c] = "none" /\ calls[c] # 1
  BY <1>1 DEF LedgerInv, RanCallback
<1>4. fate' \in [Calls -> Fates] /\ calls' \in [Calls -> 0 .. 1]
  BY DEF LedgerInv, Fates
<1>5. \A c \in Calls : calls'[c] = 1 <=> RanCallback(c)'
  BY <1>3 DEF LedgerInv, RanCallback
<1>6. \A c \in Calls : fate'[c] = "none" <=> (c \in pending' \/ c \notin asked')
  BY <1>1, <1>2 DEF LedgerInv
<1>7. LedgerInv'
  BY <1>4, <1>5, <1>6 DEF LedgerInv, StoppedSettles
<1>8. \A c \in gone : Status(c) = "open" /\ Status(c)' = "dropped"
  BY <1>1, <1>2 DEF Status
<1>9. \A c \in Calls \ gone : Status(c)' = Status(c)
  BY <1>2 DEF Status
<1>10. \A c \in Calls : calls'[c] = calls[c] + 0
  BY DEF LedgerInv
<1>11. \A c \in Calls : ~Ledger!RunsCallback(Status(c), Status(c)')
  BY <1>8, <1>9 DEF Ledger!RunsCallback
<1> QED
  BY <1>7, <1>8, <1>9, <1>10, <1>11 DEF LedgerStep, Ledger!Moves

(* A step in which one request is answered and its callback makes another. *)
LEMMA AnswersAndAsks ==
  ASSUME LedgerInv, MaxCalls \in Nat, accepted < MaxCalls,
         NEW a \in pending \ {0},
         RunCallbacks({a}, "answered", {}),
         accepted' = accepted + 1,
         asked' = asked \cup {accepted + 1},
         pending' = (pending \ {a}) \cup {accepted + 1},
         cstate' = cstate
  PROVE  LedgerInv' /\ LedgerStep
<1>1. PICK r \in Calls : r = accepted + 1
  BY DEF LedgerInv, Calls
<1>2. r \notin asked /\ r \notin pending /\ r # 0
  BY <1>1 DEF LedgerInv, Calls
<1>3. a \in Calls /\ a \in asked /\ a # r
  BY <1>2 DEF LedgerInv, Calls
<1>4. fate[a] = "none" /\ fate[r] = "none" /\ calls[a] = 0 /\ calls[r] = 0
  BY <1>2, <1>3 DEF LedgerInv, RanCallback
<1>5. /\ fate'[a] = "answered" /\ calls'[a] = 1
      /\ \A c \in Calls \ {a} : fate'[c] = fate[c] /\ calls'[c] = calls[c]
  BY <1>3, <1>4 DEF RunCallbacks
<1>6. fate' \in [Calls -> Fates] /\ calls' \in [Calls -> 0 .. 1]
  BY <1>3, <1>4 DEF RunCallbacks, LedgerInv, Fates
<1>7. cstate' \notin {"STOPPED", "FREED"}
  BY DEF LedgerInv, StoppedSettles
<1>8. \A c \in Calls : fate'[c] = "none" <=> (c \in pending' \/ c \notin asked')
  BY <1>1, <1>2, <1>3, <1>4, <1>5 DEF LedgerInv
<1>9. \A c \in Calls : calls'[c] = 1 <=> RanCallback(c)'
  BY <1>3, <1>4, <1>5 DEF LedgerInv, RanCallback
<1>10. accepted' \in 0 .. MaxCalls /\ asked' \subseteq 1 .. accepted'
       /\ pending' \subseteq asked' \cup {0}
  BY <1>1 DEF LedgerInv
<1>11. LedgerInv'
  BY <1>6, <1>7, <1>8, <1>9, <1>10 DEF LedgerInv, StoppedSettles
<1>12. Status(a) = "open" /\ Status(a)' = "answered"
  BY <1>1, <1>3, <1>5 DEF Status
<1>13. Status(r) = "unissued" /\ Status(r)' = "open"
  BY <1>1, <1>2 DEF Status
<1>14. \A c \in Calls \ {a, r} : Status(c)' = Status(c)
  BY <1>1, <1>5 DEF Status
<1>15. ASSUME NEW c \in Calls
       PROVE  /\ Status(c)' = Status(c) \/ <<Status(c), Status(c)'>> \in Ledger!Moves
              /\ calls'[c] = calls[c]
                   + (IF Ledger!RunsCallback(Status(c), Status(c)') THEN 1 ELSE 0)
  <2>1. CASE c = a
    BY <2>1, <1>4, <1>5, <1>12 DEF Ledger!Moves, Ledger!RunsCallback
  <2>2. CASE c = r
    BY <2>2, <1>3, <1>4, <1>5, <1>13 DEF Ledger!Moves, Ledger!RunsCallback
  <2>3. CASE c \notin {a, r}
    <3>1. Status(c)' = Status(c)
      BY <2>3, <1>14
    <3>2. calls'[c] = calls[c] /\ calls[c] \in 0 .. 1
      BY <2>3, <1>5 DEF LedgerInv
    <3> QED
      BY <3>1, <3>2 DEF Ledger!RunsCallback
  <2> QED
    BY <2>1, <2>2, <2>3
<1> QED
  BY <1>11, <1>15 DEF LedgerStep

(* set_state(STOPPED), whoever calls it. *)
LEMMA Stops ==
  ASSUME LedgerInv, BecomeStopped
  PROVE  LedgerInv' /\ LedgerStep
<1> USE LspClientAssumption DEF LspClientAssumption
<1>1. CASE cstate = "STOPPED"
  <2>1. pending = {} /\ pending' = {} /\ UNCHANGED historyVars
    BY <1>1 DEF LedgerInv, StoppedSettles, BecomeStopped, NoCallback
  <2>2. accepted' \in accepted .. MaxCalls /\ UNCHANGED <<asked, fate, calls>>
    BY <2>1 DEF LedgerInv, historyVars
  <2> QED
    BY <2>1, <2>2, Quiet
<1>2. CASE cstate # "STOPPED"
  <2>1. FailAllPending
    BY <1>2 DEF BecomeStopped
  <2> DEFINE ended == pending \ {0}
  <2>2. IsFiniteSet(0 .. MaxCalls) /\ ended \subseteq 0 .. MaxCalls
    BY FS_Interval DEF LedgerInv
  <2>3. Cardinality(ended) \in Nat
    BY <2>2, FS_Subset, FS_CardinalityType
  <2>4. PICK n \in 0 .. Cardinality(ended) :
          /\ accepted + n <= MaxCalls
          /\ pending' = {}
          /\ accepted' = accepted + n
          /\ asked' = asked \cup NewCalls(n)
          /\ RunCallbacks(ended, "failed", NewCalls(n))
    BY <2>1 DEF FailAllPending
  <2>5. n \in Nat
    BY <2>3, <2>4
  <2> QED
    BY <2>4, <2>5, Settles
<1> QED
  BY <1>1, <1>2

-----------------------------------------------------------------------------
(* The calls of the owner. *)
LEMMA OwnerSteps ==
  ASSUME LedgerInv, OwnerNext
  PROVE  LedgerInv' /\ LedgerStep
<1> USE LspClientAssumption DEF LspClientAssumption
<1>0. accepted \in accepted .. MaxCalls
  BY DEF LedgerInv
<1>1. CASE Start
  <2>1. pending' \cup {0} = pending \cup {0} /\ cstate' = "STARTING"
        /\ UNCHANGED <<accepted, asked, fate, calls>>
    BY <1>1 DEF Start, NoCallback, historyVars
  <2> QED
    BY <1>0, <2>1, Quiet
<1>2. CASE SpawnFails
  BY <1>2, Stops DEF SpawnFails
<1>3. CASE Request
  <2>1. CASE cstate = "STOPPED"
    <3>1. accepted + 1 <= MaxCalls
      BY <1>3 DEF Request, LedgerInv
    <3>2. NewCalls(1) = {accepted + 1}
      BY DEF NewCalls, LedgerInv
    <3>3. pending = {}
      BY <2>1 DEF LedgerInv, StoppedSettles
    <3>4. /\ RunCallbacks({}, "failed", NewCalls(1))
          /\ accepted' = accepted + 1
          /\ asked' = asked \cup NewCalls(1)
          /\ pending' = {}
      BY <1>3, <2>1, <3>2, <3>3 DEF Request
    <3> QED
      BY <3>1, <3>3, <3>4, Settles
  <2>2. CASE cstate # "STOPPED"
    BY <1>3, <2>2, Opens DEF Request
  <2> QED
    BY <2>1, <2>2
<1>4. CASE Notify
  <2>1. accepted' \in accepted .. MaxCalls
    BY <1>4 DEF Notify, LedgerInv
  <2>2. pending' = pending /\ UNCHANGED <<asked, fate, calls>>
        /\ cstate' \notin {"STOPPED", "FREED"}
    BY <1>4 DEF Notify
  <2> QED
    BY <2>1, <2>2, Quiet
<1>5. ASSUME NEW c \in Calls, Cancel(c) PROVE LedgerInv' /\ LedgerStep
  <2>1. {c} \in SUBSET (pending \ {0}) /\ pending' = pending \ {c}
        /\ UNCHANGED <<accepted, asked, calls, cstate>>
    BY <1>5 DEF Cancel
  <2>2. fate' = [d \in Calls |-> IF d \in {c} THEN "dropped" ELSE fate[d]]
    BY <1>5 DEF Cancel, LedgerInv
  <2>3. cstate' \notin {"STOPPED", "FREED"}
    BY <2>1 DEF LedgerInv, StoppedSettles
  <2>4. pending' = {} => pending \subseteq {c} \cup {0}
    BY <2>1
  <2> QED
    BY <2>1, <2>2, <2>3, <2>4, Drops
<1>6. CASE Stop
  BY <1>6, Stops DEF Stop
<1>7. CASE Free
  <2>1. pending' = {} /\ UNCHANGED <<accepted, asked, calls>>
    BY <1>7 DEF Free
  <2>2. fate' = [c \in Calls |-> IF c \in pending \ {0} THEN "dropped" ELSE fate[c]]
    BY <1>7 DEF Free, Calls
  <2> QED
    BY <2>1, <2>2, Drops
<1> QED
  BY <1>1, <1>2, <1>3, <1>4, <1>5, <1>6, <1>7 DEF OwnerNext

(* The callbacks of the main loop. *)
LEMMA LoopSteps ==
  ASSUME LedgerInv, LoopNext
  PROVE  LedgerInv' /\ LedgerStep
<1> USE LspClientAssumption DEF LspClientAssumption
<1>0. accepted \in accepted .. MaxCalls
  BY DEF LedgerInv
<1>1. ASSUME UNCHANGED <<cstate, pending, historyVars>>
      PROVE  LedgerInv' /\ LedgerStep
  <2>1. UNCHANGED <<accepted, asked, fate, calls>>
    BY <1>1 DEF historyVars
  <2>2. cstate' \in {"STOPPED", "FREED"} => pending' = {}
    BY <1>1 DEF LedgerInv, StoppedSettles
  <2> QED
    BY <1>0, <1>1, <2>1, <2>2, Quiet
<1>2. CASE ReadMessage
  <2> DEFINE m == Head(fromServer)
  <2>1. CASE UNCHANGED <<cstate, pending, historyVars>>
    BY <1>1, <2>1
  <2>2. CASE InitializeAnswered
    <3>1. pending' \cup {0} = pending \cup {0} /\ cstate' = "READY"
          /\ UNCHANGED <<accepted, asked, fate, calls>>
      BY <2>2 DEF InitializeAnswered, historyVars
    <3> QED
      BY <1>0, <3>1, Quiet
  <2>3. CASE InitializeRefused
    BY <2>3, Stops DEF InitializeRefused
  <2>4. ASSUME NEW a \in pending \ {0}, NEW again \in BOOLEAN, AnswerRequest(a, again)
        PROVE  LedgerInv' /\ LedgerStep
    <3>1. CASE again
      BY <2>4, <3>1, AnswersAndAsks DEF AnswerRequest
    <3>2. CASE ~again
      <4>1. NewCalls(0) = {}
        BY DEF NewCalls, LedgerInv
      <4>2. /\ RunCallbacks({a}, "answered", NewCalls(0))
            /\ asked' = asked \cup NewCalls(0)
            /\ accepted' = accepted /\ pending' = pending \ {a} /\ cstate' = cstate
        BY <2>4, <3>2, <4>1, Zenon DEF AnswerRequest
      <4>3. accepted' = accepted + 0 /\ accepted + 0 <= MaxCalls
        BY <4>2 DEF LedgerInv
      <4>4. cstate' \notin {"STOPPED", "FREED"}
        BY <4>2 DEF LedgerInv, StoppedSettles
      <4> QED
        BY <4>2, <4>3, <4>4, Settles
    <3> QED
      BY <3>1, <3>2
  <2> QED
    BY <1>2, <2>1, <2>2, <2>3, <2>4 DEF ReadMessage
<1>3. CASE ReadEof
  BY <1>3, Stops DEF ReadEof
<1>4. CASE ProcessExited
  BY <1>4, Stops DEF ProcessExited
<1>5. CASE WriteCompletes
  BY <1>1, <1>5 DEF WriteCompletes, clientVars
<1>6. CASE CancelledWriteCompletes
  BY <1>1, <1>6 DEF CancelledWriteCompletes, clientVars
<1>7. CASE KillGraceElapsed
  BY <1>1, <1>7 DEF KillGraceElapsed
<1> QED
  BY <1>2, <1>3, <1>4, <1>5, <1>6, <1>7 DEF LoopNext

(* Whatever the server does, it does not touch the client. *)
LEMMA OtherSteps ==
  ASSUME LedgerInv, ServerNext \/ UNCHANGED vars
  PROVE  LedgerInv' /\ LedgerStep
<1>1. UNCHANGED <<cstate, pending, accepted, asked, fate, calls>>
  BY DEF ServerNext, ServerReads, ServerAnswers, ServerAsks, ServerExits, ServerClosesOutput,
         clientVars, historyVars, vars
<1>2. accepted' \in accepted .. MaxCalls /\ MaxCalls \in Nat
  BY <1>1, LspClientAssumption DEF LedgerInv, LspClientAssumption
<1>3. cstate' \in {"STOPPED", "FREED"} => pending' = {}
  BY <1>1 DEF LedgerInv, StoppedSettles
<1> QED
  BY <1>1, <1>2, <1>3, Quiet

LEMMA LedgerInit ==
  ASSUME Init
  PROVE  LedgerInv /\ Ledger!Init
<1>1. LedgerInv
  BY LspClientAssumption
  DEF Init, LedgerInv, StoppedSettles, RanCallback, Fates, LspClientAssumption
<1>2. Ledger!Init
  BY DEF Init, Ledger!Init, Status
<1> QED
  BY <1>1, <1>2

LEMMA LedgerNext == LedgerInv /\ [Next]_vars => LedgerInv' /\ LedgerStep
BY OwnerSteps, LoopSteps, OtherSteps DEF Next

(* LedgerInv is an invariant: the table of pending requests, the calls made*)
(* and the callbacks run always agree.                                     *)
THEOREM LedgerInvariant == Spec => []LedgerInv
<1>1. Init => LedgerInv
  BY LedgerInit
<1>2. LedgerInv /\ [Next]_vars => LedgerInv'
  BY LedgerNext
<1> QED
  BY <1>1, <1>2, PTL DEF Spec

(* StoppedSettles, for any number of calls: a stopped or freed client owes *)
(* nobody an answer.                                                       *)
THEOREM StoppedSettlesAlways == Spec => []StoppedSettles
<1>1. LedgerInv => StoppedSettles
  BY DEF LedgerInv
<1> QED
  BY <1>1, LedgerInvariant, PTL

(* KeepsLedger, for any number of calls: the client implements             *)
(* RequestLedger, so that every callback runs at most once.                *)
THEOREM KeepsLedgerAlways == Spec => KeepsLedger
<1>1. Init => Ledger!Init
  BY LedgerInit
<1>2. LedgerInv' => StatusOK'
  BY StatusType, PTL
<1>3. LedgerInv /\ LedgerInv' /\ [Next]_vars
        => [Ledger!Next]_<<[c \in Calls |-> Status(c)], calls>>
  <2> SUFFICES ASSUME LedgerInv, LedgerInv', [Next]_vars
               PROVE  Ledger!Next
    OBVIOUS
  <2>1. LedgerStep
    BY LedgerNext
  <2>2. StatusMap' \in [Calls -> Ledger!Statuses]
    BY <1>2 DEF StatusOK
  <2>3. calls' \in [Calls -> 0 .. 1]
    BY DEF LedgerInv
  <2> QED
    BY <2>1, <2>2, <2>3 DEF LedgerStep, StatusMap, Ledger!Next, Ledger!Evolves
<1> QED
  BY <1>1, <1>3, LedgerInvariant, PTL DEF Spec, KeepsLedger, Ledger!Spec

-----------------------------------------------------------------------------
(* The parts of InOrder and SessionGrammar, for a sequence q of messages,  *)
(* n calls, their fates f and the requests among them.                     *)
Has(q, kind) == \E i \in DOMAIN q : q[i].kind = kind
Grammar(q) == \A i \in DOMAIN q : Grammatical(q, i)
CallOf(c, requests) == Msg(IF c \in requests THEN "request" ELSE "notify", c)
Told(q, n, f, requests) ==
  \A c \in 1 .. n : f[c] # "refused" => \E i \in DOMAIN q : q[i] = CallOf(c, requests)
Rising(q, n, f) ==
  \A i \in DOMAIN q :
    IsUserMessage(q[i]) =>
      /\ q[i].ref \in 1 .. n /\ f[q[i].ref] # "refused"
      /\ \A j \in 1 .. i - 1 : IsUserMessage(q[j]) => q[j].ref < q[i].ref
CancelsFollow(q) ==
  \A i \in DOMAIN q :
    q[i].kind = "cancel" => \E j \in 1 .. i - 1 : q[j] = Msg("request", q[i].ref)

(* What Append does, with the domains spelled out. *)
LEMMA Appended ==
  ASSUME NEW S, NEW q \in Seq(S), NEW m \in S, NEW t, t = Append(q, m)
  PROVE  /\ t \in Seq(S)
         /\ Len(q) \in Nat /\ Len(t) = Len(q) + 1
         /\ DOMAIN q = 1 .. Len(q) /\ DOMAIN t = 1 .. Len(t)
         /\ \A i \in 1 .. Len(q) : t[i] = q[i]
         /\ t[Len(q) + 1] = m
<1>1. t \in Seq(S) /\ Len(t) = Len(q) + 1 /\ t[Len(q) + 1] = m
      /\ \A i \in 1 .. Len(q) : t[i] = q[i]
  BY AppendProperties
<1>2. Len(q) \in Nat /\ DOMAIN q = 1 .. Len(q)
  BY LenProperties
<1>3. DOMAIN t = 1 .. Len(t)
  BY <1>1, LenProperties
<1> QED
  BY <1>1, <1>2, <1>3

(* What \o does, with the second part counted from the end of the first. *)
LEMMA Concatenated ==
  ASSUME NEW S, NEW q \in Seq(S), NEW w \in Seq(S), NEW t, t = q \o w
  PROVE  /\ t \in Seq(S)
         /\ Len(q) \in Nat /\ Len(w) \in Nat /\ Len(t) = Len(q) + Len(w)
         /\ DOMAIN q = 1 .. Len(q) /\ DOMAIN w = 1 .. Len(w) /\ DOMAIN t = 1 .. Len(t)
         /\ \A i \in 1 .. Len(q) : t[i] = q[i]
         /\ \A i \in 1 .. Len(w) : t[Len(q) + i] = w[i]
<1>1. /\ t \in Seq(S) /\ Len(t) = Len(q) + Len(w)
      /\ \A i \in 1 .. Len(q) + Len(w) : t[i] = IF i <= Len(q) THEN q[i] ELSE w[i - Len(q)]
  BY ConcatProperties
<1>2. Len(q) \in Nat /\ Len(w) \in Nat /\ DOMAIN q = 1 .. Len(q) /\ DOMAIN w = 1 .. Len(w)
  BY LenProperties
<1>3. DOMAIN t = 1 .. Len(t)
  BY <1>1, LenProperties
<1>4. \A i \in 1 .. Len(q) : t[i] = q[i]
  BY <1>1, <1>2
<1>5. ASSUME NEW i \in 1 .. Len(w) PROVE t[Len(q) + i] = w[i]
  <2>1. Len(q) + i \in 1 .. Len(q) + Len(w) /\ ~(Len(q) + i <= Len(q)) /\ Len(q) + i - Len(q) = i
    BY <1>2
  <2> QED
    BY <2>1, <1>1
<1> QED
  BY <1>1, <1>2, <1>3, <1>4, <1>5

(* A message put in the middle. *)
LEMMA Inserted ==
  ASSUME NEW S, NEW q \in Seq(S), NEW w \in Seq(S), NEW m \in S,
         NEW s, s = q \o w, NEW t, t = Append(q, m) \o w
  PROVE  /\ s \in Seq(S) /\ t \in Seq(S)
         /\ Len(q) \in 0 .. Len(s) /\ Len(s) \in Nat /\ Len(t) = Len(s) + 1
         /\ DOMAIN s = 1 .. Len(s) /\ DOMAIN t = 1 .. Len(s) + 1
         /\ \A i \in 1 .. Len(q) : t[i] = s[i]
         /\ t[Len(q) + 1] = m
         /\ \A i \in Len(q) + 1 .. Len(s) : t[i + 1] = s[i]
<1> DEFINE r == Append(q, m)
<1>1. r \in Seq(S) /\ Len(r) = Len(q) + 1 /\ r[Len(q) + 1] = m
      /\ \A i \in 1 .. Len(q) : r[i] = q[i]
  BY Appended
<1>2. /\ s \in Seq(S) /\ Len(q) \in Nat /\ Len(w) \in Nat /\ Len(s) = Len(q) + Len(w)
      /\ DOMAIN s = 1 .. Len(s)
      /\ \A i \in 1 .. Len(q) : s[i] = q[i]
      /\ \A i \in 1 .. Len(w) : s[Len(q) + i] = w[i]
  BY Concatenated
<1>3. /\ t \in Seq(S) /\ Len(t) = Len(r) + Len(w) /\ DOMAIN t = 1 .. Len(t)
      /\ \A i \in 1 .. Len(r) : t[i] = r[i]
      /\ \A i \in 1 .. Len(w) : t[Len(r) + i] = w[i]
  BY <1>1, Concatenated
<1> HIDE DEF r
<1>4. \A i \in 1 .. Len(q) : t[i] = s[i]
  BY <1>1, <1>2, <1>3
<1>5. t[Len(q) + 1] = m
  BY <1>1, <1>2, <1>3
<1>6. ASSUME NEW i \in Len(q) + 1 .. Len(s) PROVE t[i + 1] = s[i]
  <2>1. i - Len(q) \in 1 .. Len(w) /\ Len(q) + (i - Len(q)) = i /\ Len(r) + (i - Len(q)) = i + 1
    BY <1>1, <1>2
  <2> QED
    BY <2>1, <1>2, <1>3
<1> QED
  BY <1>1, <1>2, <1>3, <1>4, <1>5, <1>6

(* A message may follow when the grammar allows it after what was said     *)
(* before.                                                                 *)
LEMMA GrammarAppend ==
  ASSUME NEW q \in Seq(Message), NEW m \in Message, NEW t, t = Append(q, m),
         Grammar(q),
         m.kind \in {"initialize", "initialized", "shutdown", "exit"} => ~Has(q, m.kind),
         m.kind \notin {"reply", "initialize"} => Has(q, "initialize"),
         m.kind \notin {"reply", "initialize", "initialized"} => Has(q, "initialized"),
         m.kind = "exit" => Has(q, "shutdown"),
         Has(q, "shutdown") => m.kind \in {"exit", "reply"}
  PROVE  Grammar(t)
<1>1. /\ Len(q) \in Nat /\ Len(t) = Len(q) + 1
      /\ DOMAIN q = 1 .. Len(q) /\ DOMAIN t = 1 .. Len(t)
      /\ \A i \in 1 .. Len(q) : t[i] = q[i]
      /\ t[Len(q) + 1] = m
  BY Appended
<1>2. \A i \in 1 .. Len(q) : \A kind : Before(t, i, kind) <=> Before(q, i, kind)
  BY <1>1 DEF Before
<1>3. \A kind : Before(t, Len(q) + 1, kind) <=> Has(q, kind)
  BY <1>1 DEF Before, Has
<1>4. ASSUME NEW i \in 1 .. Len(q) PROVE Grammatical(t, i)
  <2>1. Grammatical(q, i) /\ t[i] = q[i]
    BY <1>1 DEF Grammar
  <2> QED
    BY <2>1, <1>2 DEF Grammatical
<1>5. Grammatical(t, Len(q) + 1)
  BY <1>1, <1>3 DEF Grammatical
<1> QED
  BY <1>1, <1>4, <1>5 DEF Grammar

(* The owner's messages may follow once the session is open. *)
LEMMA GrammarFlush ==
  ASSUME NEW q \in Seq(Message), NEW w \in Seq(Message), NEW t, t = q \o w,
         Grammar(q), Has(q, "initialize"), Has(q, "initialized"), ~Has(q, "shutdown"),
         \A i \in DOMAIN w : IsUserMessage(w[i])
  PROVE  Grammar(t)
<1>1. /\ Len(q) \in Nat /\ Len(w) \in Nat /\ Len(t) = Len(q) + Len(w)
      /\ DOMAIN q = 1 .. Len(q) /\ DOMAIN w = 1 .. Len(w) /\ DOMAIN t = 1 .. Len(t)
      /\ \A i \in 1 .. Len(q) : t[i] = q[i]
      /\ \A i \in 1 .. Len(w) : t[Len(q) + i] = w[i]
  BY Concatenated
<1>2. \A i \in 1 .. Len(q) : \A kind : Before(t, i, kind) <=> Before(q, i, kind)
  BY <1>1 DEF Before
<1>3. ASSUME NEW i \in 1 .. Len(q) PROVE Grammatical(t, i)
  <2>1. Grammatical(q, i) /\ t[i] = q[i]
    BY <1>1 DEF Grammar
  <2> QED
    BY <2>1, <1>2 DEF Grammatical
<1>4. \A i \in Len(q) + 1 .. Len(t) : t[i].kind \in {"request", "notify"}
  <2> SUFFICES ASSUME NEW i \in Len(q) + 1 .. Len(t) PROVE t[i].kind \in {"request", "notify"}
    OBVIOUS
  <2>1. PICK j \in 1 .. Len(w) : i = Len(q) + j
    <3>1. i - Len(q) \in 1 .. Len(w) /\ i = Len(q) + (i - Len(q))
      BY <1>1
    <3> QED
      BY <3>1
  <2> QED
    BY <2>1, <1>1 DEF IsUserMessage
<1>5. ASSUME NEW i \in Len(q) + 1 .. Len(t) PROVE Grammatical(t, i)
  <2>1. Before(t, i, "initialize") /\ Before(t, i, "initialized")
    BY <1>1 DEF Before, Has
  <2>2. ~Before(t, i, "shutdown")
    <3> SUFFICES ASSUME NEW j \in 1 .. i - 1 PROVE t[j].kind # "shutdown"
      BY DEF Before
    <3>1. j \in 1 .. Len(q) \/ j \in Len(q) + 1 .. Len(t)
      BY <1>1
    <3> QED
      BY <3>1, <1>1, <1>4 DEF Has
  <2> QED
    BY <1>4, <2>1, <2>2 DEF Grammatical
<1>6. \A i \in DOMAIN t : i \in 1 .. Len(q) \/ i \in Len(q) + 1 .. Len(t)
  BY <1>1
<1> QED
  BY <1>3, <1>5, <1>6 DEF Grammar

(* A cancellation may follow the request it cancels. *)
LEMMA CancelsAppend ==
  ASSUME NEW q \in Seq(Message), NEW m \in Message, NEW t, t = Append(q, m),
         CancelsFollow(q),
         m.kind = "cancel" => \E i \in DOMAIN q : q[i] = Msg("request", m.ref)
  PROVE  CancelsFollow(t)
<1>1. /\ Len(q) \in Nat /\ Len(t) = Len(q) + 1
      /\ DOMAIN q = 1 .. Len(q) /\ DOMAIN t = 1 .. Len(t)
      /\ \A i \in 1 .. Len(q) : t[i] = q[i]
      /\ t[Len(q) + 1] = m
  BY Appended
<1> SUFFICES ASSUME NEW i \in 1 .. Len(t), t[i].kind = "cancel"
             PROVE  \E j \in 1 .. i - 1 : t[j] = Msg("request", t[i].ref)
  BY <1>1 DEF CancelsFollow
<1>2. CASE i \in 1 .. Len(q)
  <2>1. PICK j \in 1 .. i - 1 : q[j] = Msg("request", q[i].ref)
    BY <1>1, <1>2 DEF CancelsFollow
  <2> QED
    BY <1>1, <1>2, <2>1
<1>3. CASE i = Len(q) + 1
  BY <1>1, <1>3
<1> QED
  BY <1>1, <1>2, <1>3

(* The owner's messages cancel nothing. *)
LEMMA CancelsFlush ==
  ASSUME NEW q \in Seq(Message), NEW w \in Seq(Message), NEW t, t = q \o w,
         CancelsFollow(q), \A i \in DOMAIN w : IsUserMessage(w[i])
  PROVE  CancelsFollow(t)
<1>1. /\ Len(q) \in Nat /\ Len(w) \in Nat /\ Len(t) = Len(q) + Len(w)
      /\ DOMAIN q = 1 .. Len(q) /\ DOMAIN w = 1 .. Len(w) /\ DOMAIN t = 1 .. Len(t)
      /\ \A i \in 1 .. Len(q) : t[i] = q[i]
      /\ \A i \in 1 .. Len(w) : t[Len(q) + i] = w[i]
  BY Concatenated
<1> SUFFICES ASSUME NEW i \in 1 .. Len(t), t[i].kind = "cancel"
             PROVE  \E j \in 1 .. i - 1 : t[j] = Msg("request", t[i].ref)
  BY <1>1 DEF CancelsFollow
<1>2. i \in 1 .. Len(q)
  <2> SUFFICES ASSUME i > Len(q) PROVE FALSE
    BY <1>1
  <2>1. i - Len(q) \in 1 .. Len(w) /\ i = Len(q) + (i - Len(q))
    BY <1>1
  <2>2. IsUserMessage(t[i])
    BY <2>1, <1>1
  <2> QED
    BY <2>2 DEF IsUserMessage
<1>3. PICK j \in 1 .. i - 1 : q[j] = Msg("request", q[i].ref)
  BY <1>1, <1>2 DEF CancelsFollow
<1> QED
  BY <1>1, <1>2, <1>3

(* A message of the client itself does not disturb the order of the calls. *)
LEMMA RisingInsert ==
  ASSUME NEW q \in Seq(Message), NEW w \in Seq(Message), NEW m \in Message, ~IsUserMessage(m),
         NEW n \in Nat, NEW f, Rising(q \o w, n, f)
  PROVE  Rising(Append(q, m) \o w, n, f)
<1> DEFINE s == q \o w
           t == Append(q, m) \o w
<1>1. /\ Len(q) \in 0 .. Len(s) /\ Len(s) \in Nat
      /\ DOMAIN s = 1 .. Len(s) /\ DOMAIN t = 1 .. Len(s) + 1
      /\ \A i \in 1 .. Len(q) : t[i] = s[i]
      /\ t[Len(q) + 1] = m
      /\ \A i \in Len(q) + 1 .. Len(s) : t[i + 1] = s[i]
  BY Inserted
<1>2. Rising(s, n, f)
  OBVIOUS
<1> DEFINE old(i) == IF i <= Len(q) THEN i ELSE i - 1
<1>3. \A i \in 1 .. Len(s) + 1 : i # Len(q) + 1 => old(i) \in 1 .. Len(s) /\ t[i] = s[old(i)]
  <2> SUFFICES ASSUME NEW i \in 1 .. Len(s) + 1, i # Len(q) + 1
               PROVE  old(i) \in 1 .. Len(s) /\ t[i] = s[old(i)]
    OBVIOUS
  <2>1. CASE i <= Len(q)
    BY <2>1, <1>1
  <2>2. CASE i > Len(q)
    <3>1. i - 1 \in Len(q) + 1 .. Len(s) /\ (i - 1) + 1 = i /\ ~(i <= Len(q))
      BY <2>2, <1>1
    <3> QED
      BY <3>1, <1>1
  <2> QED
    BY <2>1, <2>2, <1>1
<1> HIDE DEF s, t
<1>4. \A i, j \in 1 .. Len(s) + 1 : i # Len(q) + 1 /\ j # Len(q) + 1 /\ j < i => old(j) < old(i)
  <2>1. Len(q) \in Int /\ Len(s) \in Int
    BY <1>1
  <2> QED
    BY <2>1
<1> HIDE DEF old
<1> SUFFICES ASSUME NEW i \in 1 .. Len(s) + 1, IsUserMessage(t[i])
             PROVE  /\ t[i].ref \in 1 .. n /\ f[t[i].ref] # "refused"
                    /\ \A j \in 1 .. i - 1 : IsUserMessage(t[j]) => t[j].ref < t[i].ref
  <2>1. Rising(t, n, f)
    BY <1>1 DEF Rising
  <2> QED
    BY <2>1 DEF t
<1>5. i # Len(q) + 1
  BY <1>1
<1>6. t[i] = s[old(i)] /\ old(i) \in 1 .. Len(s)
  BY <1>3, <1>5
<1>7. t[i].ref \in 1 .. n /\ f[t[i].ref] # "refused"
  BY <1>1, <1>2, <1>6 DEF Rising
<1>8. ASSUME NEW j \in 1 .. i - 1, IsUserMessage(t[j]) PROVE t[j].ref < t[i].ref
  <2>1. j \in 1 .. Len(s) + 1 /\ j < i /\ j # Len(q) + 1
    BY <1>1, <1>8
  <2>2. t[j] = s[old(j)] /\ old(j) \in 1 .. Len(s) /\ old(j) < old(i)
    BY <2>1, <1>3, <1>4, <1>5
  <2>3. old(j) \in 1 .. old(i) - 1
    BY <2>2, <1>1, <1>6
  <2> QED
    BY <2>2, <2>3, <1>1, <1>2, <1>6, <1>8 DEF Rising
<1> QED
  BY <1>7, <1>8

(* Nor does it take the place of one. *)
LEMMA ToldInsert ==
  ASSUME NEW q \in Seq(Message), NEW w \in Seq(Message), NEW m \in Message,
         NEW n, NEW f, NEW requests, Told(q \o w, n, f, requests)
  PROVE  Told(Append(q, m) \o w, n, f, requests)
<1> DEFINE s == q \o w
           t == Append(q, m) \o w
<1>1. /\ Len(q) \in 0 .. Len(s) /\ Len(s) \in Nat
      /\ DOMAIN s = 1 .. Len(s) /\ DOMAIN t = 1 .. Len(s) + 1
      /\ \A i \in 1 .. Len(q) : t[i] = s[i]
      /\ \A i \in Len(q) + 1 .. Len(s) : t[i + 1] = s[i]
  BY Inserted
<1>2. Told(s, n, f, requests)
  OBVIOUS
<1> HIDE DEF s, t
<1>3. ASSUME NEW i \in DOMAIN s PROVE \E j \in DOMAIN t : t[j] = s[i]
  <2>1. CASE i <= Len(q)
    BY <2>1, <1>1
  <2>2. CASE i > Len(q)
    <3>1. i \in Len(q) + 1 .. Len(s) /\ i + 1 \in 1 .. Len(s) + 1
      BY <2>2, <1>1
    <3> QED
      BY <3>1, <1>1
  <2> QED
    BY <2>1, <2>2, <1>1
<1>4. Told(t, n, f, requests)
  BY <1>2, <1>3 DEF Told
<1> QED
  BY <1>4 DEF t

(* One more call, said after everything else. *)
LEMMA RisingCall ==
  ASSUME NEW q \in Seq(Message), NEW n \in Nat, NEW f, NEW g, NEW m \in Message,
         Rising(q, n, f), m.ref = n + 1, g[n + 1] # "refused",
         \A c \in 1 .. n : g[c] = "refused" <=> f[c] = "refused"
  PROVE  Rising(Append(q, m), n + 1, g)
<1> DEFINE t == Append(q, m)
<1>1. /\ Len(q) \in Nat /\ Len(t) = Len(q) + 1
      /\ DOMAIN q = 1 .. Len(q) /\ DOMAIN t = 1 .. Len(t)
      /\ \A i \in 1 .. Len(q) : t[i] = q[i]
      /\ t[Len(q) + 1] = m
  BY Appended
<1> HIDE DEF t
<1>2. \A i \in 1 .. Len(q) : IsUserMessage(q[i]) => q[i].ref \in 1 .. n
  BY <1>1 DEF Rising
<1> SUFFICES ASSUME NEW i \in 1 .. Len(t), IsUserMessage(t[i])
             PROVE  /\ t[i].ref \in 1 .. n + 1 /\ g[t[i].ref] # "refused"
                    /\ \A j \in 1 .. i - 1 : IsUserMessage(t[j]) => t[j].ref < t[i].ref
  <2>1. Rising(t, n + 1, g)
    BY <1>1 DEF Rising
  <2> QED
    BY <2>1 DEF t
<1>3. CASE i \in 1 .. Len(q)
  <2>1. t[i] = q[i] /\ \A j \in 1 .. i - 1 : t[j] = q[j]
    BY <1>1, <1>3
  <2> QED
    BY <2>1, <1>1, <1>2, <1>3 DEF Rising
<1>4. CASE i = Len(q) + 1
  <2>1. \A j \in 1 .. i - 1 : j \in 1 .. Len(q) /\ t[j] = q[j]
    BY <1>1, <1>4
  <2>2. \A j \in 1 .. i - 1 : IsUserMessage(t[j]) => t[j].ref \in 1 .. n
    BY <2>1, <1>2
  <2>3. t[i].ref = n + 1
    BY <1>1, <1>4
  <2> QED
    BY <2>2, <2>3
<1> QED
  BY <1>1, <1>3, <1>4

(* One more call, and every call is still told. *)
LEMMA ToldCall ==
  ASSUME NEW q \in Seq(Message), NEW n \in Nat, NEW f, NEW g, NEW a, NEW b, NEW m \in Message,
         Told(q, n, f, a), m = CallOf(n + 1, b),
         \A c \in 1 .. n : (g[c] = "refused" <=> f[c] = "refused") /\ (c \in b <=> c \in a)
  PROVE  Told(Append(q, m), n + 1, g, b)
<1> DEFINE t == Append(q, m)
<1>1. /\ Len(q) \in Nat /\ Len(t) = Len(q) + 1
      /\ DOMAIN q = 1 .. Len(q) /\ DOMAIN t = 1 .. Len(t)
      /\ \A i \in 1 .. Len(q) : t[i] = q[i]
      /\ t[Len(q) + 1] = m
  BY Appended
<1> HIDE DEF t
<1> SUFFICES ASSUME NEW c \in 1 .. n + 1, g[c] # "refused"
             PROVE  \E i \in DOMAIN t : t[i] = CallOf(c, b)
  <2>1. Told(t, n + 1, g, b)
    BY DEF Told
  <2> QED
    BY <2>1 DEF t
<1>2. CASE c \in 1 .. n
  <2>1. CallOf(c, b) = CallOf(c, a)
    BY <1>2 DEF CallOf
  <2>2. PICK i \in DOMAIN q : q[i] = CallOf(c, a)
    BY <1>2 DEF Told
  <2> QED
    BY <2>1, <2>2, <1>1
<1>3. CASE c = n + 1
  BY <1>1, <1>3
<1> QED
  BY <1>2, <1>3

(* Calls that were refused leave no message. *)
LEMMA RefusedSayNothing ==
  ASSUME NEW q, NEW n \in Nat, NEW k \in Nat, n <= k, NEW f, NEW g, NEW a, NEW b,
         \A c \in 1 .. n : (g[c] = "refused" <=> f[c] = "refused") /\ (c \in b <=> c \in a),
         \A c \in n + 1 .. k : g[c] = "refused"
  PROVE  /\ Rising(q, n, f) => Rising(q, k, g)
         /\ Told(q, n, f, a) => Told(q, k, g, b)
<1>1. ASSUME Rising(q, n, f) PROVE Rising(q, k, g)
  BY <1>1 DEF Rising
<1>2. ASSUME Told(q, n, f, a), NEW c \in 1 .. k, g[c] # "refused"
      PROVE  \E i \in DOMAIN q : q[i] = CallOf(c, b)
  <2>1. c \in 1 .. n
    BY <1>2
  <2>2. CallOf(c, b) = CallOf(c, a) /\ f[c] # "refused"
    BY <1>2, <2>1 DEF CallOf
  <2> QED
    BY <1>2, <2>1, <2>2 DEF Told
<1> QED
  BY <1>1, <1>2 DEF Told

-----------------------------------------------------------------------------
(* The values of the writer's variables. *)
WriterOK ==
  /\ out \in Seq(Message) /\ writing \in Seq(Message) /\ writeQueue \in Seq(Message)
  /\ Len(writing) <= 1

(* What goes out is a sequence of messages. *)
LEMMA OutgoingType == WriterOK => Outgoing \in Seq(Message)
BY ConcatProperties DEF WriterOK, Outgoing

(* What pump_writer hands over is not lost, and it is not idle afterwards. *)
LEMMA Pumps ==
  ASSUME NEW queue \in Seq(Message), NEW busy \in Seq(Message), Len(busy) <= 1,
         Pump(queue, busy)
  PROVE  /\ writing' \in Seq(Message) /\ writeQueue' \in Seq(Message) /\ Len(writing') <= 1
         /\ writing' \o writeQueue' = busy \o queue
         /\ writeQueue' # <<>> => writing' # <<>>
<1>1. CASE busy = <<>> /\ queue # <<>>
  <2>1. writing' = <<Head(queue)>> /\ writeQueue' = Tail(queue)
    BY <1>1 DEF Pump
  <2>2. Head(queue) \in Message /\ Tail(queue) \in Seq(Message)
        /\ Len(Tail(queue)) = Len(queue) - 1
        /\ \A i \in 1 .. Len(Tail(queue)) : Tail(queue)[i] = queue[i + 1]
    BY <1>1, HeadTailProperties
  <2>3. writing' \in Seq(Message) /\ Len(writing') = 1 /\ writing'[1] = Head(queue)
        /\ writing' # <<>>
    BY <2>1, <2>2
  <2>4. /\ writing' \o writeQueue' \in Seq(Message)
        /\ Len(writing' \o writeQueue') = 1 + Len(Tail(queue))
        /\ \A i \in 1 .. 1 : (writing' \o writeQueue')[i] = writing'[i]
        /\ \A i \in 1 .. Len(Tail(queue)) : (writing' \o writeQueue')[1 + i] = Tail(queue)[i]
    BY <2>1, <2>2, <2>3, Concatenated
  <2>5. Len(queue) \in Nat \ {0} /\ queue[1] = Head(queue)
    BY <1>1, EmptySeq
  <2>6. ASSUME NEW i \in 1 .. Len(queue) PROVE (writing' \o writeQueue')[i] = queue[i]
    <3>1. CASE i = 1
      BY <3>1, <2>3, <2>4, <2>5
    <3>2. CASE i # 1
      <4>1. i - 1 \in 1 .. Len(Tail(queue)) /\ 1 + (i - 1) = i /\ (i - 1) + 1 = i
        BY <3>2, <2>2, <2>5
      <4> QED
        BY <4>1, <2>2, <2>4
    <3> QED
      BY <3>1, <3>2
  <2>7. writing' \o writeQueue' = queue
    <3> DEFINE t == writing' \o writeQueue'
    <3>1. t \in Seq(Message) /\ Len(t) = Len(queue) /\ \A i \in 1 .. Len(t) : t[i] = queue[i]
      BY <2>2, <2>4, <2>5, <2>6
    <3> HIDE DEF t
    <3>2. t = queue
      BY <3>1, SeqEqual
    <3> QED
      BY <3>2 DEF t
  <2>8. busy \o queue = queue
    BY <1>1, ConcatEmptySeq
  <2> QED
    BY <2>1, <2>2, <2>3, <2>7, <2>8
<1>2. CASE ~(busy = <<>> /\ queue # <<>>)
  BY <1>2 DEF Pump
<1> QED
  BY <1>1, <1>2

(* Send puts the messages behind everything that is on its way. *)
LEMMA Sends ==
  ASSUME WriterOK, NEW ms \in Seq(Message), Send(ms)
  PROVE  /\ WriterOK' /\ out' = out /\ Outgoing' = Outgoing \o ms
         /\ writeQueue' # <<>> => writing' # <<>>
<1>1. writeQueue \o ms \in Seq(Message)
  BY ConcatProperties DEF WriterOK
<1>2. /\ writing' \in Seq(Message) /\ writeQueue' \in Seq(Message) /\ Len(writing') <= 1
      /\ writing' \o writeQueue' = writing \o (writeQueue \o ms)
      /\ writeQueue' # <<>> => writing' # <<>>
  BY <1>1, Pumps DEF Send, WriterOK
<1>3. Outgoing' = out \o (writing' \o writeQueue')
  <2>0. out \in Seq(Message) /\ writing' \in Seq(Message) /\ writeQueue' \in Seq(Message)
    BY <1>2 DEF WriterOK
  <2>1. (out \o writing') \o writeQueue' = out \o (writing' \o writeQueue')
    BY ONLY <2>0, ConcatAssociative
  <2> QED
    BY <2>1 DEF Send, Outgoing
<1>4. Outgoing \o ms = (out \o (writing \o writeQueue)) \o ms
  BY ConcatAssociative DEF WriterOK, Outgoing
<1>5. writing \o writeQueue \in Seq(Message)
  BY ConcatProperties DEF WriterOK
<1>6. (out \o (writing \o writeQueue)) \o ms = out \o ((writing \o writeQueue) \o ms)
  BY <1>5, ConcatAssociative DEF WriterOK
<1>7. (writing \o writeQueue) \o ms = writing \o (writeQueue \o ms)
  BY ConcatAssociative DEF WriterOK
<1> QED
  BY <1>2, <1>3, <1>4, <1>6, <1>7 DEF WriterOK, Send

(* The same for a single message. *)
LEMMA SendsOne ==
  ASSUME WriterOK, NEW m \in Message, Send(<<m>>)
  PROVE  /\ WriterOK' /\ out' = out /\ Outgoing' = Append(Outgoing, m)
         /\ writeQueue' # <<>> => writing' # <<>>
<1>1. <<m>> \in Seq(Message)
  OBVIOUS
<1>2. Append(Outgoing, m) = Outgoing \o <<m>>
  BY OutgoingType, AppendIsConcat
<1> QED
  BY <1>1, <1>2, Sends

(* The completion of a write moves a message on, and the next one after it. *)
LEMMA Writes ==
  ASSUME WriterOK, WriteDone
  PROVE  /\ WriterOK' /\ Outgoing' = Outgoing /\ Len(out') >= Len(out)
         /\ writeQueue' # <<>> => writing' # <<>>
<1>1. /\ writing' \in Seq(Message) /\ writeQueue' \in Seq(Message) /\ Len(writing') <= 1
      /\ writing' \o writeQueue' = <<>> \o writeQueue
      /\ writeQueue' # <<>> => writing' # <<>>
  <2>1. <<>> \in Seq(Message) /\ Len(<<>>) <= 1
    BY EmptySeq
  <2> QED
    BY <2>1, Pumps DEF WriteDone, WriterOK
<1>2. <<>> \o writeQueue = writeQueue
  BY ConcatEmptySeq DEF WriterOK
<1>3. out' = out \o writing /\ out' \in Seq(Message) /\ Len(out') >= Len(out)
  BY Concatenated DEF WriteDone, WriterOK
<1>4. Outgoing' = out' \o (writing' \o writeQueue')
  <2>0. out' \in Seq(Message) /\ writing' \in Seq(Message) /\ writeQueue' \in Seq(Message)
    BY <1>1, <1>3
  <2>1. (out' \o writing') \o writeQueue' = out' \o (writing' \o writeQueue')
    BY ONLY <2>0, ConcatAssociative
  <2> QED
    BY <2>1 DEF Outgoing
<1>5. out' \o writeQueue = (out \o writing) \o writeQueue
  BY <1>3
<1> QED
  BY <1>1, <1>2, <1>3, <1>4, <1>5 DEF WriterOK, Outgoing

(* A write that fails loses its message and nothing else. *)
LEMMA Loses ==
  ASSUME WriterOK, WriteFails
  PROVE  /\ WriterOK' /\ out' = out
         /\ \A i \in DOMAIN Outgoing' : \E j \in DOMAIN Outgoing : Outgoing[j] = Outgoing'[i]
<1>1. out' = out /\ writing' = <<>> /\ writeQueue' = writeQueue
  BY DEF WriteFails
<1>2. out \in Seq(Message) /\ writing \in Seq(Message) /\ writeQueue \in Seq(Message)
  BY DEF WriterOK
<1>3. out \o <<>> = out
  BY <1>2, ConcatEmptySeq
<1> DEFINE t == out \o writeQueue
           q == out \o writing
           s == q \o writeQueue
<1>4. Outgoing' = t /\ Outgoing = s
  BY <1>1, <1>3 DEF Outgoing
<1>5. /\ Len(out) \in Nat /\ Len(writeQueue) \in Nat
      /\ DOMAIN t = 1 .. Len(out) + Len(writeQueue)
      /\ \A i \in 1 .. Len(out) : t[i] = out[i]
      /\ \A i \in 1 .. Len(writeQueue) : t[Len(out) + i] = writeQueue[i]
  BY <1>2, Concatenated
<1>6. /\ q \in Seq(Message) /\ Len(q) \in Nat /\ Len(q) >= Len(out)
      /\ \A i \in 1 .. Len(out) : q[i] = out[i]
  BY <1>2, Concatenated
<1>7. /\ DOMAIN s = 1 .. Len(q) + Len(writeQueue)
      /\ \A i \in 1 .. Len(q) : s[i] = q[i]
      /\ \A i \in 1 .. Len(writeQueue) : s[Len(q) + i] = writeQueue[i]
  BY <1>2, <1>6, Concatenated
<1> HIDE DEF q, s, t
<1>8. ASSUME NEW i \in DOMAIN t PROVE \E j \in DOMAIN s : s[j] = t[i]
  <2>1. CASE i <= Len(out)
    BY <2>1, <1>5, <1>6, <1>7
  <2>2. CASE i > Len(out)
    <3>1. i - Len(out) \in 1 .. Len(writeQueue) /\ Len(out) + (i - Len(out)) = i
      BY <2>2, <1>5
    <3>2. Len(q) + (i - Len(out)) \in DOMAIN s
      BY <3>1, <1>6, <1>7
    <3> QED
      BY <3>1, <3>2, <1>5, <1>7
  <2> QED
    BY <2>1, <2>2, <1>5
<1>9. WriterOK'
  BY <1>1, <1>2, EmptySeq DEF WriterOK
<1> QED
  BY <1>1, <1>4, <1>8, <1>9

(* All a client says before the server is ready. *)
Opening == {Msg("initialize", 0), Msg("reply", 0)}

Said == Outgoing \o preinit

(* What was said so far.  Once the server is gone a failed write may lose  *)
(* a message, and only what holds of any part of the conversation is kept. *)
Conversation ==
  /\ cstate \in {"IDLE", "STARTING"} => \A i \in DOMAIN Outgoing : Outgoing[i] \in Opening
  /\ proc # "exited" =>
       /\ Grammar(Outgoing) /\ CancelsFollow(Outgoing)
       /\ cstate \in {"STARTING", "READY"} => Has(Outgoing, "initialize")
       /\ cstate = "READY" =>
            Has(Outgoing, "initialized") /\ ~Has(Outgoing, "shutdown") /\ ~Has(Outgoing, "exit")
       /\ cstate # "FREED" => Told(Said, accepted, fate, asked) /\ Rising(Said, accepted, fate)

(* preinit_queue holds messages of the owner only. *)
QueueOK ==
  /\ preinit \in Seq(Message)
  /\ \A i \in DOMAIN preinit : IsUserMessage(preinit[i]) /\ preinit[i].ref <= accepted

(* The invariant of the conversation gives the two properties about it. *)
LEMMA ConversationIsRight == Conversation => InOrder /\ SessionGrammar
BY Zenon DEF Conversation, InOrder, SessionGrammar, Told, Rising, CancelsFollow, Grammar, CallOf,
             CallMessage, Said

(* The calls taken before the step are what they were, refused or not. *)
Grown ==
  /\ accepted \in Nat /\ accepted' \in Nat /\ accepted <= accepted'
  /\ \A c \in 1 .. accepted :
       (fate'[c] = "refused" <=> fate[c] = "refused") /\ (c \in asked' <=> c \in asked)
Refusing == \A c \in accepted + 1 .. accepted' : fate'[c] = "refused"

(* A step that says nothing, and may stop the client. *)
LEMMA SaysNothing ==
  ASSUME Conversation, Grown, Refusing,
         Outgoing' = Outgoing, preinit' = preinit,
         proc' # "exited" => proc # "exited",
         cstate' \in {cstate, "STOPPED"}, cstate' # "FREED" => cstate # "FREED"
  PROVE  Conversation'
<1>1. Said' = Said
  BY DEF Said
<1>2. /\ Rising(Said, accepted, fate) => Rising(Said, accepted', fate')
      /\ Told(Said, accepted, fate, asked) => Told(Said, accepted', fate', asked')
  BY RefusedSayNothing DEF Grown, Refusing
<1>3. cstate' \in {"IDLE", "STARTING"} => \A i \in DOMAIN Outgoing' : Outgoing'[i] \in Opening
  BY DEF Conversation
<1>4. ASSUME proc' # "exited"
      PROVE  /\ Grammar(Outgoing') /\ CancelsFollow(Outgoing')
             /\ cstate' \in {"STARTING", "READY"} => Has(Outgoing', "initialize")
             /\ cstate' = "READY" =>
                  /\ Has(Outgoing', "initialized")
                  /\ ~Has(Outgoing', "shutdown") /\ ~Has(Outgoing', "exit")
  BY <1>4 DEF Conversation
<1>5. ASSUME proc' # "exited", cstate' # "FREED"
      PROVE  Told(Said', accepted', fate', asked') /\ Rising(Said', accepted', fate')
  BY <1>1, <1>2, <1>5 DEF Conversation
<1> QED
  BY <1>3, <1>4, <1>5 DEF Conversation

(* A message of the client itself is said before what waits. *)
LEMMA SaysItself ==
  ASSUME WriterOK, QueueOK, Grown, Refusing, NEW m \in Message, ~IsUserMessage(m),
         Told(Said, accepted, fate, asked), Rising(Said, accepted, fate),
         NEW said, said = Append(Outgoing, m) \o preinit
  PROVE  Told(said, accepted', fate', asked') /\ Rising(said, accepted', fate')
<1>1. Outgoing \in Seq(Message) /\ preinit \in Seq(Message) /\ accepted \in Nat
  BY OutgoingType DEF QueueOK, Grown
<1>2. /\ Rising(Outgoing \o preinit, accepted, fate)
      /\ Told(Outgoing \o preinit, accepted, fate, asked)
  BY DEF Said
<1>3. Rising(said, accepted, fate) /\ Told(said, accepted, fate, asked)
  BY <1>1, <1>2, RisingInsert, ToldInsert
<1> QED
  BY <1>3, RefusedSayNothing DEF Grown, Refusing

(* Which kinds of message were said after one more. *)
LEMMA HasAppend ==
  ASSUME NEW q \in Seq(Message), NEW m \in Message, NEW t, t = Append(q, m), NEW kind
  PROVE  Has(t, kind) <=> Has(q, kind) \/ m.kind = kind
<1>1. /\ Len(q) \in Nat /\ Len(t) = Len(q) + 1
      /\ DOMAIN q = 1 .. Len(q) /\ DOMAIN t = 1 .. Len(t)
      /\ \A i \in 1 .. Len(q) : t[i] = q[i]
      /\ t[Len(q) + 1] = m
  BY Appended
<1>2. DOMAIN t = DOMAIN q \cup {Len(q) + 1}
  BY <1>1
<1> QED
  BY <1>1, <1>2 DEF Has

(* The messages of the client are messages, and its own are not the        *)
(* owner's.                                                                *)
LEMMA Msgs ==
  /\ \A kind \in Kinds, c \in 0 .. MaxCalls :
       Msg(kind, c) \in Message /\ Msg(kind, c).kind = kind /\ Msg(kind, c).ref = c
  /\ 0 \in 0 .. MaxCalls
  /\ \A kind \in Kinds \ {"request", "notify"} : \A c : ~IsUserMessage(Msg(kind, c))
BY LspClientAssumption DEF Msg, Message, IsUserMessage, LspClientAssumption

(* `initialize` opens the conversation. *)
LEMMA Starts ==
  ASSUME Conversation, WriterOK, QueueOK, Outgoing = <<>>,
         cstate = "IDLE", cstate' = "STARTING", proc # "exited",
         Outgoing' = Append(Outgoing, Msg("initialize", 0)), preinit' = preinit,
         UNCHANGED historyVars, accepted \in Nat
  PROVE  Conversation'
<1> DEFINE m == Msg("initialize", 0)
<1>1. m \in Message /\ m.kind = "initialize" /\ ~IsUserMessage(m)
  BY Msgs DEF Kinds
<1>2. Outgoing \in Seq(Message)
  BY OutgoingType
<1>3. \A kind : ~Has(Outgoing, kind)
  BY DEF Has
<1> HIDE DEF m
<1>4. Grammar(Append(Outgoing, m))
  BY <1>1, <1>2, <1>3, GrammarAppend DEF Conversation
<1>5. CancelsFollow(Append(Outgoing, m))
  BY <1>1, <1>2, CancelsAppend DEF Conversation
<1>6. Has(Append(Outgoing, m), "initialize")
  BY <1>1, <1>2, HasAppend
<1>7. Grown /\ Refusing
  BY DEF Grown, Refusing, historyVars
<1>8. Told(Append(Outgoing, m) \o preinit, accepted', fate', asked')
      /\ Rising(Append(Outgoing, m) \o preinit, accepted', fate')
  BY <1>1, <1>7, SaysItself DEF Conversation
<1>9. \A i \in DOMAIN Append(Outgoing, m) : Append(Outgoing, m)[i] = m
  BY <1>1, <1>2, EmptySeq, Appended
<1>10. Outgoing' = Append(Outgoing, m)
  BY DEF m
<1>11. \A i \in DOMAIN Outgoing' : Outgoing'[i] \in Opening
  BY <1>9, <1>10 DEF Opening, m
<1>12. Said' = Append(Outgoing, m) \o preinit
  BY <1>10 DEF Said
<1> QED
  BY <1>4, <1>5, <1>6, <1>8, <1>10, <1>11, <1>12 DEF Conversation

(* A reply to the server may come at any point. *)
LEMMA Replies ==
  ASSUME Conversation, WriterOK, QueueOK,
         Outgoing' = Append(Outgoing, Msg("reply", 0)),
         UNCHANGED <<preinit, cstate, proc, historyVars>>, accepted \in Nat
  PROVE  Conversation'
<1> DEFINE m == Msg("reply", 0)
<1>1. m \in Message /\ m.kind = "reply" /\ ~IsUserMessage(m)
  BY Msgs DEF Kinds
<1>2. Outgoing \in Seq(Message)
  BY OutgoingType
<1>3. m \in Opening
  BY DEF Opening
<1>4. Outgoing' = Append(Outgoing, m)
  OBVIOUS
<1> HIDE DEF m
<1>5. Said' = Append(Outgoing, m) \o preinit
  BY <1>4 DEF Said
<1>6. Grown /\ Refusing
  BY DEF Grown, Refusing, historyVars
<1>7. cstate \in {"IDLE", "STARTING"} => \A i \in DOMAIN Outgoing' : Outgoing'[i] \in Opening
  <2> SUFFICES ASSUME cstate \in {"IDLE", "STARTING"}, NEW i \in DOMAIN Outgoing'
               PROVE  Outgoing'[i] \in Opening
    OBVIOUS
  <2>1. /\ Len(Outgoing) \in Nat /\ DOMAIN Outgoing = 1 .. Len(Outgoing)
        /\ DOMAIN Outgoing' = 1 .. Len(Outgoing) + 1
        /\ \A j \in 1 .. Len(Outgoing) : Outgoing'[j] = Outgoing[j]
        /\ Outgoing'[Len(Outgoing) + 1] = m
    BY <1>1, <1>2, <1>4, Appended
  <2>2. \A j \in DOMAIN Outgoing : Outgoing[j] \in Opening
    BY DEF Conversation
  <2> QED
    BY <2>1, <2>2, <1>3
<1>8. CASE proc = "exited"
  BY <1>7, <1>8 DEF Conversation
<1>9. CASE proc # "exited"
  <2>1. Grammar(Outgoing')
    BY <1>1, <1>2, <1>4, <1>9, GrammarAppend DEF Conversation
  <2>2. CancelsFollow(Outgoing')
    BY <1>1, <1>2, <1>4, <1>9, CancelsAppend DEF Conversation
  <2>3. \A kind : kind # "reply" => (Has(Outgoing', kind) <=> Has(Outgoing, kind))
    BY <1>1, <1>2, <1>4, HasAppend
  <2>4. cstate # "FREED" => Told(Said', accepted', fate', asked') /\ Rising(Said', accepted', fate')
    BY <1>1, <1>5, <1>6, <1>9, SaysItself DEF Conversation
  <2> QED
    BY <1>7, <1>9, <2>1, <2>2, <2>3, <2>4 DEF Conversation
<1> QED
  BY <1>8, <1>9

(* A cancellation follows its request: while the client is ready nothing   *)
(* waits.                                                                  *)
LEMMA Cancels ==
  ASSUME Conversation, WriterOK, QueueOK, Grown, Refusing, cstate = "READY", preinit = <<>>,
         NEW c \in 1 .. MaxCalls, c <= accepted, c \in asked, fate[c] # "refused",
         Outgoing' = Append(Outgoing, Msg("cancel", c)),
         UNCHANGED <<preinit, cstate, proc>>
  PROVE  Conversation'
<1> SUFFICES ASSUME proc # "exited" PROVE Conversation'
  BY DEF Conversation
<1> DEFINE m == Msg("cancel", c)
<1>1. m \in Message /\ m.kind = "cancel" /\ m.ref = c /\ ~IsUserMessage(m)
  BY Msgs DEF Kinds
<1>2. Outgoing \in Seq(Message)
  BY OutgoingType
<1>3. Outgoing' = Append(Outgoing, m)
  OBVIOUS
<1> HIDE DEF m
<1>4. Said' = Append(Outgoing, m) \o preinit
  BY <1>3 DEF Said
<1>5. Said = Outgoing
  BY <1>2, ConcatEmptySeq DEF Said
<1>6. \E i \in DOMAIN Outgoing : Outgoing[i] = Msg("request", c)
  <2>1. Told(Said, accepted, fate, asked)
    BY DEF Conversation
  <2>2. \E i \in DOMAIN Said : Said[i] = CallOf(c, asked)
    BY <2>1 DEF Told, Grown
  <2> QED
    BY <1>5, <2>2 DEF CallOf
<1>7. Grammar(Outgoing')
  BY <1>1, <1>2, <1>3, GrammarAppend DEF Conversation
<1>8. CancelsFollow(Outgoing')
  BY <1>1, <1>2, <1>3, <1>6, CancelsAppend DEF Conversation
<1>9. \A kind : kind # "cancel" => (Has(Outgoing', kind) <=> Has(Outgoing, kind))
  BY <1>1, <1>2, <1>3, HasAppend
<1>10. Told(Said', accepted', fate', asked') /\ Rising(Said', accepted', fate')
  BY <1>1, <1>4, SaysItself DEF Conversation
<1> QED
  BY <1>7, <1>8, <1>9, <1>10 DEF Conversation

(* `shutdown` and `exit` close the conversation. *)
LEMMA Stopping ==
  ASSUME Conversation, WriterOK, QueueOK, Grown, Refusing, cstate = "READY", preinit = <<>>,
         Outgoing' = Append(Append(Outgoing, Msg("shutdown", 0)), Msg("exit", 0)),
         UNCHANGED <<preinit, proc>>, cstate' = "STOPPED"
  PROVE  Conversation'
<1> SUFFICES ASSUME proc # "exited" PROVE Conversation'
  BY DEF Conversation
<1> DEFINE m == Msg("shutdown", 0)
           e == Msg("exit", 0)
           q == Append(Outgoing, m)
<1>1. /\ m \in Message /\ m.kind = "shutdown" /\ ~IsUserMessage(m)
      /\ e \in Message /\ e.kind = "exit" /\ ~IsUserMessage(e)
  BY Msgs DEF Kinds
<1>2. Outgoing \in Seq(Message)
  BY OutgoingType
<1>3. Outgoing' = Append(q, e)
  OBVIOUS
<1> HIDE DEF m, e
<1>4. q \in Seq(Message) /\ Grammar(q) /\ CancelsFollow(q)
  BY <1>1, <1>2, Appended, GrammarAppend, CancelsAppend DEF Conversation
<1>5. Has(q, "shutdown") /\ Has(q, "initialize") /\ Has(q, "initialized") /\ ~Has(q, "exit")
  BY <1>1, <1>2, HasAppend DEF Conversation
<1>6. Told(q \o preinit, accepted, fate, asked) /\ Rising(q \o preinit, accepted, fate)
  BY <1>1, <1>2, RisingInsert, ToldInsert DEF Conversation, QueueOK, Grown, Said
<1> HIDE DEF q
<1>7. Grammar(Outgoing')
  BY <1>1, <1>3, <1>4, <1>5, GrammarAppend
<1>8. CancelsFollow(Outgoing')
  BY <1>1, <1>3, <1>4, CancelsAppend
<1>9. Rising(Outgoing' \o preinit, accepted, fate)
  BY <1>1, <1>3, <1>4, <1>6, RisingInsert DEF QueueOK, Grown
<1>10. Told(Outgoing' \o preinit, accepted, fate, asked)
  BY <1>1, <1>3, <1>4, <1>6, ToldInsert DEF QueueOK
<1>11. Told(Said', accepted', fate', asked') /\ Rising(Said', accepted', fate')
  BY <1>9, <1>10, RefusedSayNothing DEF Said, Grown, Refusing
<1> QED
  BY <1>7, <1>8, <1>11 DEF Conversation

(* `initialized`, and then all that was waiting. *)
LEMMA Flushes ==
  ASSUME Conversation, WriterOK, QueueOK, cstate = "STARTING", cstate' = "READY",
         Outgoing' = Append(Outgoing, Msg("initialized", 0)) \o preinit, preinit' = <<>>,
         UNCHANGED <<proc, historyVars>>, accepted \in Nat
  PROVE  Conversation'
<1> SUFFICES ASSUME proc # "exited" PROVE Conversation'
  BY DEF Conversation
<1> DEFINE m == Msg("initialized", 0)
           q == Append(Outgoing, m)
<1>1. m \in Message /\ m.kind = "initialized" /\ ~IsUserMessage(m)
  BY Msgs DEF Kinds
<1>2. Outgoing \in Seq(Message) /\ preinit \in Seq(Message)
  BY OutgoingType DEF QueueOK
<1>3. Outgoing' = q \o preinit
  OBVIOUS
<1> HIDE DEF m
<1>4. \A i \in DOMAIN Outgoing : Outgoing[i].kind \in {"initialize", "reply"}
  BY Msgs DEF Conversation, Opening, Kinds
<1>5. ~Has(Outgoing, "initialized") /\ ~Has(Outgoing, "shutdown") /\ ~Has(Outgoing, "exit")
      /\ Has(Outgoing, "initialize")
  BY <1>4 DEF Has, Conversation
<1>6. q \in Seq(Message) /\ Grammar(q) /\ CancelsFollow(q)
  BY <1>1, <1>2, <1>5, Appended, GrammarAppend, CancelsAppend DEF Conversation
<1>7. /\ Has(q, "initialize") /\ Has(q, "initialized")
      /\ ~Has(q, "shutdown") /\ ~Has(q, "exit")
  BY <1>1, <1>2, <1>5, HasAppend
<1>8. Grown /\ Refusing
  BY DEF Grown, Refusing, historyVars
<1>9. Told(q \o preinit, accepted', fate', asked') /\ Rising(q \o preinit, accepted', fate')
  BY <1>1, <1>8, SaysItself DEF Conversation
<1> HIDE DEF q
<1>10. \A i \in DOMAIN preinit : IsUserMessage(preinit[i])
  BY DEF QueueOK
<1>11. Grammar(Outgoing') /\ CancelsFollow(Outgoing')
  BY <1>2, <1>3, <1>6, <1>7, <1>10, GrammarFlush, CancelsFlush
<1>12. /\ Len(q) \in Nat /\ Len(preinit) \in Nat
       /\ DOMAIN q = 1 .. Len(q) /\ DOMAIN preinit = 1 .. Len(preinit)
       /\ Outgoing' \in Seq(Message) /\ DOMAIN Outgoing' = 1 .. Len(q) + Len(preinit)
       /\ \A i \in 1 .. Len(q) : Outgoing'[i] = q[i]
       /\ \A i \in 1 .. Len(preinit) : Outgoing'[Len(q) + i] = preinit[i]
  <2> DEFINE t == q \o preinit
  <2>1. /\ Len(q) \in Nat /\ Len(preinit) \in Nat /\ Len(t) = Len(q) + Len(preinit)
        /\ DOMAIN q = 1 .. Len(q) /\ DOMAIN preinit = 1 .. Len(preinit)
        /\ t \in Seq(Message) /\ DOMAIN t = 1 .. Len(t)
        /\ \A i \in 1 .. Len(q) : t[i] = q[i]
        /\ \A i \in 1 .. Len(preinit) : t[Len(q) + i] = preinit[i]
    BY <1>2, <1>6, Concatenated
  <2>2. Outgoing' = t
    BY <1>3
  <2> HIDE DEF t
  <2> QED
    BY <2>1, <2>2
<1>13. Has(Outgoing', "initialize") /\ Has(Outgoing', "initialized")
  BY <1>7, <1>12 DEF Has
<1>14. ASSUME NEW i \in DOMAIN Outgoing' PROVE Outgoing'[i].kind \notin {"shutdown", "exit"}
  <2>1. CASE i <= Len(q)
    BY <2>1, <1>7, <1>12 DEF Has
  <2>2. CASE i > Len(q)
    <3>1. i - Len(q) \in 1 .. Len(preinit) /\ Len(q) + (i - Len(q)) = i
      BY <2>2, <1>12
    <3>2. IsUserMessage(Outgoing'[i])
      BY <3>1, <1>10, <1>12
    <3> QED
      BY <3>2 DEF IsUserMessage
  <2> QED
    BY <2>1, <2>2, <1>12
<1>15. ~Has(Outgoing', "shutdown") /\ ~Has(Outgoing', "exit")
  BY <1>14 DEF Has
<1>16. Outgoing' \o <<>> = Outgoing'
  BY <1>12, ConcatEmptySeq
<1>17. Said' = q \o preinit
  BY <1>3, <1>16 DEF Said
<1> QED
  BY <1>9, <1>11, <1>13, <1>15, <1>17 DEF Conversation

(* The next call, said or left waiting. *)
LEMMA Calling ==
  ASSUME WriterOK, QueueOK, Grown, accepted' = accepted + 1, fate'[accepted + 1] # "refused",
         Told(Said, accepted, fate, asked), Rising(Said, accepted, fate),
         NEW m \in Message, m = CallOf(accepted + 1, asked'), m.ref = accepted + 1,
         NEW said, said = Append(Said, m)
  PROVE  Told(said, accepted', fate', asked') /\ Rising(said, accepted', fate')
<1>1. Said \in Seq(Message)
  BY OutgoingType, ConcatProperties DEF Said, QueueOK
<1> QED
  BY <1>1, RisingCall, ToldCall DEF Grown

(* A ready client sends the next call at once. *)
LEMMA SaysCall ==
  ASSUME Conversation, WriterOK, QueueOK, Grown, accepted' = accepted + 1,
         fate'[accepted + 1] # "refused",
         NEW m \in Message, m = CallOf(accepted + 1, asked'), m.ref = accepted + 1,
         IsUserMessage(m), cstate = "READY", preinit = <<>>, Outgoing' = Append(Outgoing, m),
         UNCHANGED <<preinit, cstate, proc>>
  PROVE  Conversation'
<1> SUFFICES ASSUME proc # "exited" PROVE Conversation'
  BY DEF Conversation
<1>1. Outgoing \in Seq(Message) /\ Outgoing' \in Seq(Message)
  BY OutgoingType, Appended
<1>2. Said = Outgoing /\ Said' = Outgoing'
  BY <1>1, ConcatEmptySeq DEF Said
<1>3. Told(Said', accepted', fate', asked') /\ Rising(Said', accepted', fate')
  BY <1>2, Calling DEF Conversation
<1>4. m.kind \in {"request", "notify"}
  BY DEF IsUserMessage
<1>5. Grammar(Outgoing') /\ CancelsFollow(Outgoing')
  BY <1>1, <1>4, GrammarAppend, CancelsAppend DEF Conversation
<1>6. \A kind : kind \notin {"request", "notify"} => (Has(Outgoing', kind) <=> Has(Outgoing, kind))
  BY <1>1, <1>4, HasAppend
<1> QED
  BY <1>3, <1>5, <1>6 DEF Conversation

(* A client that is not ready leaves it waiting, behind the others. *)
LEMMA QueuesCall ==
  ASSUME Conversation, WriterOK, QueueOK, Grown, accepted' = accepted + 1,
         fate'[accepted + 1] # "refused",
         NEW m \in Message, m = CallOf(accepted + 1, asked'), m.ref = accepted + 1,
         Outgoing' = Outgoing, preinit' = Append(preinit, m),
         UNCHANGED <<cstate, proc>>
  PROVE  Conversation'
<1>1. Outgoing \in Seq(Message) /\ preinit \in Seq(Message) /\ <<m>> \in Seq(Message)
  BY OutgoingType DEF QueueOK
<1>2. Said \in Seq(Message)
  BY <1>1, ConcatProperties DEF Said
<1>3. Said' = Append(Said, m)
  <2>1. Append(preinit, m) = preinit \o <<m>> /\ Append(Said, m) = Said \o <<m>>
    BY <1>1, <1>2, AppendIsConcat
  <2>2. (Outgoing \o preinit) \o <<m>> = Outgoing \o (preinit \o <<m>>)
    BY ONLY <1>1, ConcatAssociative
  <2> QED
    BY <2>1, <2>2 DEF Said
<1>4. Told(Said, accepted, fate, asked) /\ Rising(Said, accepted, fate)
        => Told(Said', accepted', fate', asked') /\ Rising(Said', accepted', fate')
  BY <1>3, Calling
<1> QED
  BY <1>4 DEF Conversation

(* What a failed write loses is missed by nobody once the server is gone. *)
LEMMA LosesOne ==
  ASSUME Conversation, proc' = "exited", cstate' = cstate,
         \A i \in DOMAIN Outgoing' : \E j \in DOMAIN Outgoing : Outgoing[j] = Outgoing'[i]
  PROVE  Conversation'
BY DEF Conversation

(* What the server sends; what the variables hold. *)
ServerMessage == [kind : {"answer", "error", "ask"}, ref : 0 .. MaxCalls]

Typing ==
  /\ WriterOK /\ QueueOK
  /\ cstate \in {"IDLE", "STARTING", "READY", "STOPPED", "FREED"}
  /\ {exited, killTimer, reading, outputOpen} \subseteq BOOLEAN
  /\ proc \in {"none", "running", "exited"}
  /\ readUpTo \in 0 .. Len(out) /\ asks \in 0 .. MaxAsks
  /\ owed \subseteq 0 .. MaxCalls /\ fromServer \in Seq(ServerMessage)

(* How the state of the client and the life of its process go together:    *)
(* `initialize` is pending only while the client starts, and nothing has   *)
(* been said to a process that was never started.                          *)
Lifetime ==
  /\ cstate = "IDLE" => proc = "none"
  /\ proc = "none" =>
       Outgoing = <<>> /\ ~reading /\ ~killTimer /\ cstate \notin {"STARTING", "READY"}
  /\ cstate = "FREED" => proc # "running" /\ ~reading
  /\ 0 \in pending => cstate = "STARTING"
  /\ NothingHeldBack

(* A server that is not ready has been asked nothing but `initialize`, so  *)
(* its answers concern nothing else.                                       *)
NothingAsked ==
  cstate \in {"IDLE", "STARTING"} =>
    owed \subseteq {0} /\ \A i \in DOMAIN fromServer : fromServer[i].ref = 0

(* The inductive invariant of MessagesFollow. *)
MessageInv == Typing /\ Lifetime /\ NothingAsked /\ Conversation

(* Callbacks that run change no call into a refused one, and make new ones *)
(* refused.                                                                *)
LEMMA CallbacksGrow ==
  ASSUME LedgerInv, MaxCalls \in Nat, NEW ended \in SUBSET (pending \ {0}),
         NEW how \in {"answered", "failed"}, NEW n \in Nat, accepted + n <= MaxCalls,
         RunCallbacks(ended, how, NewCalls(n)),
         accepted' = accepted + n, asked' = asked \cup NewCalls(n)
  PROVE  Grown /\ Refusing
<1>1. \A c : c \in NewCalls(n) <=> c \in Int /\ accepted < c /\ c <= accepted + n
  BY DEF NewCalls, LedgerInv
<1>2. accepted \in Nat /\ accepted' \in Nat /\ accepted <= accepted' /\ accepted' <= MaxCalls
  BY DEF LedgerInv
<1>3. \A c \in ended : c \in asked /\ fate[c] # "refused"
  BY DEF LedgerInv, Calls
<1>4. \A c \in 1 .. accepted : c \in Calls /\ c \notin NewCalls(n)
  BY <1>1, <1>2 DEF Calls
<1>5. \A c \in 1 .. accepted : fate'[c] = IF c \in ended THEN how ELSE fate[c]
  BY <1>4 DEF RunCallbacks
<1>6. Grown
  BY <1>2, <1>3, <1>4, <1>5 DEF Grown
<1>7. \A c \in accepted + 1 .. accepted' : c \in NewCalls(n) /\ c \in Calls /\ c \notin ended
  BY <1>1, <1>2 DEF Calls, LedgerInv
<1>8. Refusing
  BY <1>7 DEF Refusing, RunCallbacks
<1> QED
  BY <1>6, <1>8

(* A step that makes no call and runs no callback. *)
LEMMA StandsStill ==
  ASSUME LedgerInv, UNCHANGED historyVars
  PROVE  Grown /\ Refusing
BY DEF LedgerInv, Grown, Refusing, historyVars

(* Nor does set_state(STOPPED). *)
LEMMA StopsGrow ==
  ASSUME LedgerInv, BecomeStopped
  PROVE  Grown /\ Refusing /\ (0 \notin pending') /\ cstate' = "STOPPED"
<1> USE LspClientAssumption DEF LspClientAssumption
<1>1. CASE cstate = "STOPPED"
  BY <1>1, StandsStill DEF BecomeStopped, NoCallback, LedgerInv, StoppedSettles
<1>2. CASE cstate # "STOPPED"
  <2>1. FailAllPending
    BY <1>2 DEF BecomeStopped
  <2> DEFINE ended == pending \ {0}
  <2>2. IsFiniteSet(0 .. MaxCalls) /\ ended \subseteq 0 .. MaxCalls
    BY FS_Interval DEF LedgerInv
  <2>3. Cardinality(ended) \in Nat
    BY <2>2, FS_Subset, FS_CardinalityType
  <2>4. PICK n \in 0 .. Cardinality(ended) :
          /\ accepted + n <= MaxCalls
          /\ pending' = {}
          /\ accepted' = accepted + n
          /\ asked' = asked \cup NewCalls(n)
          /\ RunCallbacks(ended, "failed", NewCalls(n))
    BY <2>1 DEF FailAllPending
  <2>5. n \in Nat
    BY <2>3, <2>4
  <2>6. Grown /\ Refusing
    BY <2>4, <2>5, CallbacksGrow
  <2> QED
    BY <2>4, <2>6 DEF BecomeStopped
<1> QED
  BY <1>1, <1>2

(* The calls that messages name are numbers. *)
LEMMA RefsAreNumbers ==
  ASSUME NEW q \in Seq(Message), NEW i \in DOMAIN q
  PROVE  q[i].ref \in Nat
<1>1. q[i] \in Message
  BY ElementOfSeq, LenProperties
<1> QED
  BY <1>1 DEF Message

(* A queue that is left alone. *)
LEMMA QueueStays ==
  ASSUME QueueOK, Grown, preinit' \in {preinit, <<>>}
  PROVE  QueueOK'
<1>1. <<>> \in Seq(Message)
  BY EmptySeq
<1>2. \A i \in DOMAIN preinit : preinit[i].ref \in Nat
  BY RefsAreNumbers DEF QueueOK
<1>3. CASE preinit' = preinit
  BY <1>2, <1>3 DEF QueueOK, Grown
<1>4. CASE preinit' = <<>>
  BY <1>1, <1>4 DEF QueueOK
<1> QED
  BY <1>3, <1>4

(* A queue that takes one more message of the owner. *)
LEMMA QueueGrows ==
  ASSUME QueueOK, Grown, NEW m \in Message, IsUserMessage(m), m.ref <= accepted',
         preinit' = Append(preinit, m)
  PROVE  QueueOK'
<1>1. /\ preinit' \in Seq(Message) /\ Len(preinit) \in Nat
      /\ DOMAIN preinit = 1 .. Len(preinit) /\ DOMAIN preinit' = 1 .. Len(preinit) + 1
      /\ \A i \in 1 .. Len(preinit) : preinit'[i] = preinit[i]
      /\ preinit'[Len(preinit) + 1] = m
  BY Appended DEF QueueOK
<1>2. \A i \in DOMAIN preinit : preinit[i].ref \in Nat
  BY RefsAreNumbers DEF QueueOK
<1>3. ASSUME NEW i \in DOMAIN preinit'
      PROVE  IsUserMessage(preinit'[i]) /\ preinit'[i].ref <= accepted'
  <2>1. CASE i \in 1 .. Len(preinit)
    BY <1>1, <1>2, <2>1 DEF QueueOK, Grown
  <2>2. CASE i = Len(preinit) + 1
    BY <1>1, <2>2
  <2> QED
    BY <1>1, <2>1, <2>2
<1> QED
  BY <1>1, <1>3 DEF QueueOK

(* A step that sends nothing leaves the writer as it is. *)
LEMMA WriterStays ==
  ASSUME WriterOK, SendsNothing
  PROVE  WriterOK' /\ Outgoing' = Outgoing /\ UNCHANGED <<writeQueue, writing, out>>
BY DEF SendsNothing, writerVars, WriterOK, Outgoing

-----------------------------------------------------------------------------
(* A stop that sends nothing. *)
LEMMA StopsSilently ==
  ASSUME LedgerInv, MessageInv, BecomeStopped, SendsNothing, cstate # "FREED",
         preinit' = preinit, {exited', killTimer', reading', outputOpen'} \subseteq BOOLEAN,
         killTimer' => killTimer, reading' => reading,
         proc' \in {proc, "exited"}, proc' = "exited" => proc # "none",
         UNCHANGED <<readUpTo, owed, asks>>, fromServer' \in Seq(ServerMessage)
  PROVE  MessageInv'
<1>1. Grown /\ Refusing /\ 0 \notin pending' /\ cstate' = "STOPPED"
  BY StopsGrow
<1>2. WriterOK' /\ Outgoing' = Outgoing /\ UNCHANGED <<writeQueue, writing, out>>
  BY WriterStays DEF MessageInv, Typing
<1>3. Typing'
  BY <1>1, <1>2, QueueStays DEF MessageInv, Typing
<1>4. Lifetime'
  BY <1>1, <1>2 DEF MessageInv, Lifetime, NothingHeldBack, Typing
<1>5. NothingAsked'
  BY <1>1 DEF NothingAsked
<1>6. Conversation'
  BY <1>1, <1>2, SaysNothing DEF MessageInv
<1> QED
  BY <1>3, <1>4, <1>5, <1>6 DEF MessageInv

(* The calls of the owner, one by one: each keeps the invariant. *)
LEMMA StartKeeps ==
  ASSUME LedgerInv, MessageInv, Start
  PROVE  MessageInv'
<1>1. /\ cstate = "IDLE" /\ cstate' = "STARTING" /\ proc = "none" /\ Outgoing = <<>>
      /\ proc' = "running" /\ outputOpen' = TRUE /\ reading' = TRUE
      /\ Send(<<Msg("initialize", 0)>>)
      /\ UNCHANGED <<preinit, exited, killTimer, fromServer, readUpTo, owed, asks>>
      /\ UNCHANGED historyVars
  BY DEF Start, MessageInv, Lifetime, NoCallback
<1>2. Msg("initialize", 0) \in Message
  BY Msgs DEF Kinds
<1>3. /\ WriterOK' /\ out' = out /\ Outgoing' = Append(Outgoing, Msg("initialize", 0))
      /\ writeQueue' # <<>> => writing' # <<>>
  BY <1>1, <1>2, SendsOne DEF MessageInv, Typing
<1>4. Grown /\ Refusing
  BY <1>1, StandsStill
<1>5. Typing'
  BY <1>1, <1>3, <1>4, QueueStays DEF MessageInv, Typing
<1>6. Lifetime'
  BY <1>1, <1>3 DEF MessageInv, Lifetime, NothingHeldBack
<1>7. NothingAsked'
  BY <1>1 DEF MessageInv, NothingAsked
<1>8. Conversation'
  BY <1>1, <1>3, Starts DEF MessageInv, Typing, LedgerInv
<1> QED
  BY <1>5, <1>6, <1>7, <1>8 DEF MessageInv

(* The next request or notification of the owner. *)
LEMMA CallKeeps ==
  ASSUME LedgerInv, MessageInv, accepted < MaxCalls, accepted' = accepted + 1,
         UNCHANGED <<cstate, exited, killTimer, reading, serverVars, fate>>,
         NEW m \in Message, m = CallOf(accepted + 1, asked'), m.ref = accepted + 1,
         IsUserMessage(m), SendOrQueue(m),
         asked' \in {asked, asked \cup {accepted + 1}},
         pending' \in {pending, pending \cup {accepted + 1}}
  PROVE  MessageInv'
<1>1. accepted \in Nat /\ accepted + 1 \in Calls /\ accepted + 1 \notin asked
      /\ accepted + 1 # 0
  BY LspClientAssumption DEF LedgerInv, Calls, LspClientAssumption
<1>2. fate[accepted + 1] # "refused"
  BY <1>1 DEF LedgerInv
<1>3. Grown
  BY <1>1 DEF Grown
<1>4. UNCHANGED <<proc, outputOpen, fromServer, readUpTo, owed, asks>>
  BY DEF serverVars
<1>5. 0 \in pending' <=> 0 \in pending
  BY <1>1
<1>6. NothingAsked'
  BY <1>4 DEF MessageInv, NothingAsked
<1>7. CASE cstate = "READY"
  <2>1. preinit = <<>> /\ preinit' = preinit /\ Send(<<m>>)
    BY <1>7 DEF SendOrQueue, MessageInv, Lifetime, NothingHeldBack
  <2>2. /\ WriterOK' /\ out' = out /\ Outgoing' = Append(Outgoing, m)
        /\ writeQueue' # <<>> => writing' # <<>>
    BY <2>1, SendsOne DEF MessageInv, Typing
  <2>3. Typing'
    BY <1>3, <1>4, <2>1, <2>2, QueueStays DEF MessageInv, Typing
  <2>4. Lifetime'
    BY <1>4, <1>5, <1>7, <2>1, <2>2 DEF MessageInv, Lifetime, NothingHeldBack
  <2>5. Conversation'
    BY <1>2, <1>3, <1>4, <1>7, <2>1, <2>2, SaysCall DEF MessageInv, Typing
  <2> QED
    BY <1>6, <2>3, <2>4, <2>5 DEF MessageInv
<1>8. CASE cstate # "READY"
  <2>1. preinit' = Append(preinit, m) /\ SendsNothing
    BY <1>8 DEF SendOrQueue
  <2>2. WriterOK' /\ Outgoing' = Outgoing /\ UNCHANGED <<writeQueue, writing, out>>
    BY <2>1, WriterStays DEF MessageInv, Typing
  <2>3. QueueOK'
    BY <1>1, <1>3, <2>1, QueueGrows DEF MessageInv, Typing
  <2>4. Typing'
    BY <1>4, <2>2, <2>3 DEF MessageInv, Typing
  <2>5. Lifetime'
    BY <1>4, <1>5, <1>8, <2>1, <2>2 DEF MessageInv, Lifetime, NothingHeldBack
  <2>6. Conversation'
    BY <1>2, <1>3, <1>4, <2>1, <2>2, QueuesCall DEF MessageInv, Typing
  <2> QED
    BY <1>6, <2>4, <2>5, <2>6 DEF MessageInv
<1> QED
  BY <1>7, <1>8

(* The message of the next call. *)
LEMMA CallMessages ==
  ASSUME LedgerInv, accepted < MaxCalls
  PROVE  /\ Msg("request", accepted + 1) \in Message /\ Msg("notify", accepted + 1) \in Message
         /\ Msg("request", accepted + 1).ref = accepted + 1
         /\ Msg("notify", accepted + 1).ref = accepted + 1
         /\ IsUserMessage(Msg("request", accepted + 1))
         /\ IsUserMessage(Msg("notify", accepted + 1))
         /\ Msg("request", accepted + 1) = CallOf(accepted + 1, asked \cup {accepted + 1})
         /\ Msg("notify", accepted + 1) = CallOf(accepted + 1, asked)
<1>1. accepted + 1 \in 0 .. MaxCalls /\ accepted + 1 \notin asked
  BY LspClientAssumption DEF LedgerInv, LspClientAssumption
<1> QED
  BY <1>1 DEF Msg, Message, Kinds, CallOf, IsUserMessage

(* A request of a stopped client is refused; any other is sent or left     *)
(* waiting.                                                                *)
LEMMA RequestKeeps ==
  ASSUME LedgerInv, MessageInv, Request
  PROVE  MessageInv'
<1>1. CASE cstate = "STOPPED"
  <2>1. /\ accepted' = accepted + 1 /\ asked' = asked \cup {accepted + 1}
        /\ RunCallbacks({}, "failed", {accepted + 1}) /\ SendsNothing
        /\ UNCHANGED <<pending, preinit, cstate, exited, killTimer, reading, serverVars>>
        /\ accepted < MaxCalls
    BY <1>1 DEF Request
  <2>2. NewCalls(1) = {accepted + 1} /\ accepted + 1 <= MaxCalls /\ MaxCalls \in Nat
    BY <2>1, LspClientAssumption DEF NewCalls, LedgerInv, LspClientAssumption
  <2>3. Grown /\ Refusing
    BY <2>1, <2>2, CallbacksGrow
  <2>4. WriterOK' /\ Outgoing' = Outgoing /\ UNCHANGED <<writeQueue, writing, out>>
    BY <2>1, WriterStays DEF MessageInv, Typing
  <2>5. Typing'
    BY <2>1, <2>3, <2>4, QueueStays DEF MessageInv, Typing, serverVars
  <2>6. Lifetime'
    BY <2>1, <2>4 DEF MessageInv, Lifetime, NothingHeldBack, serverVars
  <2>7. NothingAsked'
    BY <1>1, <2>1 DEF NothingAsked
  <2>8. Conversation'
    BY <2>1, <2>3, <2>4, SaysNothing DEF MessageInv, serverVars
  <2> QED
    BY <2>5, <2>6, <2>7, <2>8 DEF MessageInv
<1>2. CASE cstate # "STOPPED"
  BY <1>2, CallMessages, CallKeeps DEF Request
<1> QED
  BY <1>1, <1>2

(* A notification is sent or left waiting. *)
LEMMA NotifyKeeps ==
  ASSUME LedgerInv, MessageInv, Notify
  PROVE  MessageInv'
BY CallMessages, CallKeeps DEF Notify

(* A ready client tells the server, any other only forgets the callback. *)
LEMMA CancelKeeps ==
  ASSUME LedgerInv, MessageInv, NEW c \in Calls, Cancel(c)
  PROVE  MessageInv'
<1>1. /\ c \in pending /\ c # 0 /\ pending' = pending \ {c}
      /\ fate' = [fate EXCEPT ![c] = "dropped"]
      /\ UNCHANGED <<cstate, preinit, exited, killTimer, reading, accepted, asked, serverVars>>
  BY DEF Cancel
<1>2. c \in asked /\ c <= accepted /\ fate[c] = "none" /\ accepted \in Nat
  BY <1>1 DEF LedgerInv, Calls
<1>3. Grown /\ Refusing
  BY <1>1, <1>2 DEF Grown, Refusing, LedgerInv
<1>4. UNCHANGED <<proc, outputOpen, fromServer, readUpTo, owed, asks>>
  BY <1>1 DEF serverVars
<1>5. NothingAsked'
  BY <1>1, <1>4 DEF MessageInv, NothingAsked
<1>6. CASE cstate = "READY"
  <2>1. c \in 1 .. MaxCalls /\ Msg("cancel", c) \in Message
    BY Msgs DEF Calls, Kinds
  <2>2. /\ WriterOK' /\ out' = out /\ Outgoing' = Append(Outgoing, Msg("cancel", c))
        /\ writeQueue' # <<>> => writing' # <<>>
    BY <1>6, <2>1, SendsOne DEF Cancel, MessageInv, Typing
  <2>3. Typing'
    BY <1>1, <1>3, <1>4, <2>2, QueueStays DEF MessageInv, Typing
  <2>4. Lifetime'
    BY <1>1, <1>4, <1>6, <2>2 DEF MessageInv, Lifetime, NothingHeldBack
  <2>5. Conversation'
    BY <1>1, <1>2, <1>3, <1>4, <1>6, <2>1, <2>2, Cancels
    DEF MessageInv, Typing, Lifetime, NothingHeldBack
  <2> QED
    BY <1>5, <2>3, <2>4, <2>5 DEF MessageInv
<1>7. CASE cstate # "READY"
  <2>1. WriterOK' /\ Outgoing' = Outgoing /\ UNCHANGED <<writeQueue, writing, out>>
    BY <1>7, WriterStays DEF Cancel, MessageInv, Typing
  <2>2. Typing'
    BY <1>1, <1>3, <1>4, <2>1, QueueStays DEF MessageInv, Typing
  <2>3. Lifetime'
    BY <1>1, <1>4, <2>1 DEF MessageInv, Lifetime, NothingHeldBack
  <2>4. Conversation'
    BY <1>1, <1>3, <1>4, <2>1, SaysNothing DEF MessageInv
  <2> QED
    BY <1>5, <2>2, <2>3, <2>4 DEF MessageInv
<1> QED
  BY <1>6, <1>7

(* A ready client says `shutdown` and `exit`; any other says nothing. *)
LEMMA StopKeeps ==
  ASSUME LedgerInv, MessageInv, Stop
  PROVE  MessageInv'
<1>1. /\ cstate \in {"IDLE", "STARTING", "READY"} /\ BecomeStopped
      /\ UNCHANGED <<preinit, exited, reading, fromServer, readUpTo, owed, asks>>
      /\ outputOpen' \in BOOLEAN
  BY DEF Stop
<1>2. CASE cstate = "READY"
  <2>1. Send(<<Msg("shutdown", 0), Msg("exit", 0)>>) /\ killTimer' = TRUE /\ proc' = proc
    BY <1>2 DEF Stop
  <2>2. Grown /\ Refusing /\ 0 \notin pending' /\ cstate' = "STOPPED"
    BY <1>1, StopsGrow
  <2>3. Msg("shutdown", 0) \in Message /\ Msg("exit", 0) \in Message
    BY Msgs DEF Kinds
  <2>4. <<Msg("shutdown", 0), Msg("exit", 0)>> \in Seq(Message)
    BY <2>3
  <2>5. /\ WriterOK' /\ out' = out
        /\ Outgoing' = Outgoing \o <<Msg("shutdown", 0), Msg("exit", 0)>>
        /\ writeQueue' # <<>> => writing' # <<>>
    BY <2>1, <2>4, Sends DEF MessageInv, Typing
  <2>6. Outgoing' = Append(Append(Outgoing, Msg("shutdown", 0)), Msg("exit", 0))
    <3> DEFINE a == Msg("shutdown", 0)
               b == Msg("exit", 0)
    <3>1. a \in Message /\ b \in Message
      BY <2>3
    <3> HIDE DEF a, b
    <3>2. Outgoing \in Seq(Message)
      BY OutgoingType DEF MessageInv, Typing
    <3>3. Outgoing \o <<a, b>> = Append(Append(Outgoing, a), b)
      BY <3>1, <3>2
    <3> QED
      BY <2>5, <3>3 DEF a, b
  <2>7. Typing'
    BY <1>1, <2>1, <2>2, <2>5, QueueStays DEF MessageInv, Typing
  <2>8. Lifetime'
    BY <1>1, <1>2, <2>1, <2>2, <2>5 DEF MessageInv, Lifetime, NothingHeldBack
  <2>9. NothingAsked'
    BY <2>2 DEF NothingAsked
  <2>10. Conversation'
    BY <1>1, <1>2, <2>1, <2>2, <2>6, Stopping
    DEF MessageInv, Typing, Lifetime, NothingHeldBack
  <2> QED
    BY <2>7, <2>8, <2>9, <2>10 DEF MessageInv
<1>3. CASE cstate # "READY"
  <2>1. /\ SendsNothing /\ killTimer' = killTimer
        /\ proc' = IF proc = "running" THEN "exited" ELSE proc
    BY <1>3 DEF Stop
  <2>2. proc' \in {proc, "exited"} /\ (proc' = "exited" => proc # "none")
    BY <2>1
  <2>3. cstate # "FREED" /\ killTimer' \in BOOLEAN /\ exited' \in BOOLEAN /\ reading' \in BOOLEAN
        /\ fromServer' \in Seq(ServerMessage)
    BY <1>1, <2>1 DEF MessageInv, Typing
  <2> QED
    BY <1>1, <2>1, <2>2, <2>3, StopsSilently
<1> QED
  BY <1>2, <1>3

(* A process that cannot be started stops a client that has said nothing. *)
LEMMA SpawnFailsKeeps ==
  ASSUME LedgerInv, MessageInv, SpawnFails
  PROVE  MessageInv'
<1>1. /\ BecomeStopped /\ SendsNothing /\ cstate = "IDLE"
      /\ UNCHANGED <<preinit, exited, killTimer, reading, serverVars>>
  BY DEF SpawnFails
<1>2. proc' = "exited" => proc # "none"
  BY <1>1 DEF MessageInv, Lifetime, serverVars
<1> QED
  BY <1>1, <1>2, StopsSilently DEF MessageInv, Typing, serverVars

(* A freed client sends no more, and its server is gone. *)
LEMMA FreeKeeps ==
  ASSUME LedgerInv, MessageInv, Free
  PROVE  MessageInv'
<1>1. /\ cstate' = "FREED" /\ pending' = {} /\ preinit' = <<>> /\ writeQueue' = <<>>
      /\ killTimer' = FALSE /\ reading' = FALSE /\ outputOpen' = FALSE
      /\ proc' = (IF proc = "none" THEN "none" ELSE "exited")
      /\ UNCHANGED <<exited, accepted, asked, calls, writing, out, fromServer, readUpTo,
                     owed, asks>>
  BY DEF Free
<1>2. fate' = [c \in Calls |-> IF c \in pending THEN "dropped" ELSE fate[c]]
  BY DEF Free
<1>3. <<>> \in Seq(Message) /\ DOMAIN <<>> = {}
  BY EmptySeq
<1>4. Typing'
  BY <1>1, <1>3 DEF MessageInv, Typing, WriterOK, QueueOK
<1>5. proc = "none" => Outgoing' = <<>>
  <2> SUFFICES ASSUME proc = "none" PROVE Outgoing' = <<>>
    OBVIOUS
  <2>1. out \in Seq(Message) /\ writing \in Seq(Message) /\ writeQueue \in Seq(Message)
    BY DEF MessageInv, Typing, WriterOK
  <2>2. (out \o writing) \o writeQueue = <<>> /\ out \o writing \in Seq(Message)
    BY <2>1, ConcatProperties DEF MessageInv, Lifetime, Outgoing
  <2>3. out \o writing = <<>>
    BY <2>1, <2>2, ConcatEqualIffEmpty
  <2>4. (out \o writing) \o <<>> = out \o writing
    BY <2>2, ConcatEmptySeq
  <2> QED
    BY <1>1, <2>3, <2>4 DEF Outgoing
<1>6. Lifetime'
  BY <1>1, <1>5 DEF MessageInv, Lifetime, NothingHeldBack, Typing
<1>7. NothingAsked'
  BY <1>1 DEF NothingAsked
<1>8. /\ cstate' = "FREED" /\ (proc # "none" => proc' = "exited")
      /\ cstate' \notin {"IDLE", "STARTING"} /\ cstate' \notin {"STARTING", "READY"}
      /\ cstate' # "READY"
  BY <1>1
<1>9. Conversation'
  <2>1. CASE proc = "none"
    <3>1. Outgoing' = <<>>
      BY <1>5, <2>1
    <3>2. Grammar(Outgoing') /\ CancelsFollow(Outgoing')
      BY <1>3, <3>1 DEF Grammar, CancelsFollow
    <3> QED
      BY <1>8, <3>2 DEF Conversation
  <2>2. CASE proc # "none"
    BY <1>8, <2>2 DEF Conversation
  <2> QED
    BY <2>1, <2>2
<1> QED
  BY <1>4, <1>6, <1>7, <1>9 DEF MessageInv

-----------------------------------------------------------------------------
(* What is left after reading a message of the server. *)
LEMMA Tails ==
  ASSUME NEW q \in Seq(ServerMessage), q # <<>>
  PROVE  /\ Head(q) \in ServerMessage /\ Tail(q) \in Seq(ServerMessage)
         /\ Head(q).ref \in 0 .. MaxCalls
         /\ (\A i \in DOMAIN q : q[i].ref = 0)
              => Head(q).ref = 0 /\ \A i \in DOMAIN Tail(q) : Tail(q)[i].ref = 0
<1>1. /\ Head(q) \in ServerMessage /\ Tail(q) \in Seq(ServerMessage)
      /\ Len(Tail(q)) = Len(q) - 1
      /\ \A i \in 1 .. Len(Tail(q)) : Tail(q)[i] = q[i + 1]
  BY HeadTailProperties
<1>2. Len(q) \in Nat \ {0} /\ DOMAIN q = 1 .. Len(q) /\ Head(q) = q[1]
  BY EmptySeq, LenProperties
<1>3. DOMAIN Tail(q) = 1 .. Len(q) - 1
  BY <1>1, LenProperties
<1> QED
  BY <1>1, <1>2, <1>3 DEF ServerMessage

(* The branches of ReadMessage: a request of the server is replied to. *)
LEMMA ReplyKeeps ==
  ASSUME LedgerInv, MessageInv, reading, fromServer # <<>>, fromServer' = Tail(fromServer),
         Send(<<Msg("reply", 0)>>),
         UNCHANGED <<cstate, pending, preinit, historyVars, proc, outputOpen, exited, killTimer,
                     reading, readUpTo, owed, asks>>
  PROVE  MessageInv'
<1>1. Msg("reply", 0) \in Message
  BY Msgs DEF Kinds
<1>2. /\ WriterOK' /\ out' = out /\ Outgoing' = Append(Outgoing, Msg("reply", 0))
      /\ writeQueue' # <<>> => writing' # <<>>
  BY <1>1, SendsOne DEF MessageInv, Typing
<1>3. Grown /\ Refusing
  BY StandsStill
<1>4. fromServer' \in Seq(ServerMessage)
  BY Tails DEF MessageInv, Typing
<1>5. Typing'
  BY <1>2, <1>3, <1>4, QueueStays DEF MessageInv, Typing
<1>6. Lifetime'
  BY <1>2 DEF MessageInv, Lifetime, NothingHeldBack
<1>7. NothingAsked'
  BY Tails DEF MessageInv, NothingAsked, Typing
<1>8. Conversation'
  BY <1>2, Replies DEF MessageInv, Typing, LedgerInv
<1> QED
  BY <1>5, <1>6, <1>7, <1>8 DEF MessageInv

(* An answer nobody waits for. *)
LEMMA IgnoreKeeps ==
  ASSUME LedgerInv, MessageInv, reading, fromServer # <<>>, fromServer' = Tail(fromServer),
         SendsNothing,
         UNCHANGED <<cstate, pending, preinit, historyVars, proc, outputOpen, exited, killTimer,
                     reading, readUpTo, owed, asks>>
  PROVE  MessageInv'
<1>1. WriterOK' /\ Outgoing' = Outgoing /\ UNCHANGED <<writeQueue, writing, out>>
  BY WriterStays DEF MessageInv, Typing
<1>2. Grown /\ Refusing
  BY StandsStill
<1>3. fromServer' \in Seq(ServerMessage)
  BY Tails DEF MessageInv, Typing
<1>4. Typing'
  BY <1>1, <1>2, <1>3, QueueStays DEF MessageInv, Typing
<1>5. Lifetime'
  BY <1>1 DEF MessageInv, Lifetime, NothingHeldBack
<1>6. NothingAsked'
  BY Tails DEF MessageInv, NothingAsked, Typing
<1>7. Conversation'
  BY <1>1, <1>2, SaysNothing DEF MessageInv
<1> QED
  BY <1>4, <1>5, <1>6, <1>7 DEF MessageInv

(* The answer to `initialize` flushes the queue. *)
LEMMA InitializedKeeps ==
  ASSUME LedgerInv, MessageInv, reading, fromServer # <<>>, fromServer' = Tail(fromServer),
         0 \in pending, InitializeAnswered,
         UNCHANGED <<exited, killTimer, reading, readUpTo, owed, asks>>
  PROVE  MessageInv'
<1>1. /\ cstate' = "READY" /\ preinit' = <<>> /\ pending' = pending \ {0}
      /\ Send(<<Msg("initialized", 0)>> \o preinit)
      /\ UNCHANGED <<historyVars, proc, outputOpen>>
  BY DEF InitializeAnswered
<1>2. cstate = "STARTING" /\ proc # "none"
  BY DEF MessageInv, Lifetime
<1> DEFINE m == Msg("initialized", 0)
<1>3. m \in Message /\ <<m>> \in Seq(Message)
  BY Msgs DEF Kinds
<1>4. preinit \in Seq(Message) /\ Outgoing \in Seq(Message)
  BY OutgoingType DEF MessageInv, Typing, QueueOK
<1> HIDE DEF m
<1>5. <<m>> \o preinit \in Seq(Message)
  BY <1>3, <1>4, ConcatProperties
<1>6. /\ WriterOK' /\ out' = out /\ Outgoing' = Outgoing \o (<<m>> \o preinit)
      /\ writeQueue' # <<>> => writing' # <<>>
  BY <1>1, <1>5, Sends DEF MessageInv, Typing, m
<1>7. Outgoing \o (<<m>> \o preinit) = Append(Outgoing, m) \o preinit
  <2>1. (Outgoing \o <<m>>) \o preinit = Outgoing \o (<<m>> \o preinit)
    BY ONLY <1>3, <1>4, ConcatAssociative
  <2>2. Append(Outgoing, m) = Outgoing \o <<m>>
    BY <1>3, <1>4, AppendIsConcat
  <2> QED
    BY <2>1, <2>2
<1>8. Grown /\ Refusing
  BY <1>1, StandsStill
<1>9. fromServer' \in Seq(ServerMessage)
  BY Tails DEF MessageInv, Typing
<1>10. Typing'
  BY <1>1, <1>6, <1>8, <1>9, QueueStays DEF MessageInv, Typing
<1>11. Lifetime'
  BY <1>1, <1>2, <1>6 DEF MessageInv, Lifetime, NothingHeldBack
<1>12. NothingAsked'
  BY <1>1 DEF NothingAsked
<1>13. Conversation'
  BY <1>1, <1>2, <1>6, <1>7, Flushes DEF MessageInv, Typing, LedgerInv, m
<1> QED
  BY <1>10, <1>11, <1>12, <1>13 DEF MessageInv

(* An answer to the owner comes to a ready client, and may lead to the     *)
(* next request.                                                           *)
LEMMA AnswerKeeps ==
  ASSUME LedgerInv, MessageInv, reading, fromServer # <<>>, fromServer' = Tail(fromServer),
         Head(fromServer).ref \in pending \ {0}, NEW again \in BOOLEAN,
         AnswerRequest(Head(fromServer).ref, again),
         UNCHANGED <<exited, killTimer, reading, readUpTo, owed, asks>>
  PROVE  MessageInv'
<1>1. cstate = "READY"
  <2>1. cstate \notin {"IDLE", "STARTING"}
    BY Tails DEF MessageInv, Typing, NothingAsked
  <2>2. cstate \notin {"STOPPED", "FREED"}
    BY DEF LedgerInv, StoppedSettles
  <2> QED
    BY <2>1, <2>2 DEF MessageInv, Typing
<1>2. PICK a \in pending \ {0} : a = Head(fromServer).ref
  OBVIOUS
<1>3. /\ RunCallbacks({a}, "answered", {})
      /\ UNCHANGED <<cstate, preinit, proc, outputOpen>>
  BY <1>2 DEF AnswerRequest
<1>4. fromServer' \in Seq(ServerMessage)
  BY Tails DEF MessageInv, Typing
<1>5. NothingAsked'
  BY <1>1, <1>3 DEF NothingAsked
<1>6. preinit = <<>> /\ 0 \notin pending /\ accepted \in Nat /\ accepted <= MaxCalls /\ a \in Calls
      /\ a \in asked /\ fate[a] = "none" /\ MaxCalls \in Nat
  BY <1>1, LspClientAssumption
  DEF MessageInv, Lifetime, NothingHeldBack, LedgerInv, Calls, LspClientAssumption
<1>7. CASE again
  <2>1. /\ accepted < MaxCalls /\ accepted' = accepted + 1
        /\ asked' = asked \cup {accepted + 1}
        /\ pending' = (pending \ {a}) \cup {accepted + 1}
        /\ Send(<<Msg("request", accepted + 1)>>)
    BY <1>2, <1>7 DEF AnswerRequest
  <2> DEFINE m == Msg("request", accepted + 1)
  <2>2. m \in Message /\ m.ref = accepted + 1 /\ IsUserMessage(m)
        /\ m = CallOf(accepted + 1, asked')
    BY <2>1, CallMessages
  <2>3. Send(<<m>>)
    BY <2>1
  <2> HIDE DEF m
  <2>4. /\ WriterOK' /\ out' = out /\ Outgoing' = Append(Outgoing, m)
        /\ writeQueue' # <<>> => writing' # <<>>
    BY <2>2, <2>3, SendsOne DEF MessageInv, Typing
  <2>5. accepted + 1 \in Calls /\ accepted + 1 \notin asked /\ a # accepted + 1
    BY <1>6, <2>1 DEF LedgerInv, Calls
  <2>6. fate'[accepted + 1] # "refused"
    BY <1>3, <2>5 DEF RunCallbacks, LedgerInv
  <2>7. \A c \in 1 .. accepted : c \in Calls /\ fate'[c] = IF c = a THEN "answered" ELSE fate[c]
    <3>1. \A c \in 1 .. accepted : c \in Calls
      BY <1>6 DEF Calls
    <3>2. \A c \in Calls : fate'[c] = IF c = a THEN "answered" ELSE fate[c]
      BY <1>3 DEF RunCallbacks
    <3> QED
      BY <3>1, <3>2
  <2>8. Grown
    BY <1>6, <2>1, <2>7 DEF Grown
  <2>9. Typing'
    BY <1>3, <1>4, <2>4, <2>8, QueueStays DEF MessageInv, Typing
  <2>10. Lifetime'
    BY <1>1, <1>3, <1>6, <2>1, <2>4 DEF MessageInv, Lifetime, NothingHeldBack
  <2>11. Conversation'
    BY <1>1, <1>3, <1>6, <2>1, <2>2, <2>4, <2>6, <2>8, SaysCall DEF MessageInv, Typing
  <2> QED
    BY <1>5, <2>9, <2>10, <2>11 DEF MessageInv
<1>8. CASE ~again
  <2>1. pending' = pending \ {a} /\ SendsNothing /\ UNCHANGED <<accepted, asked>>
    BY <1>2, <1>8 DEF AnswerRequest
  <2>2. \A c \in 1 .. accepted : c \in Calls /\ fate'[c] = IF c = a THEN "answered" ELSE fate[c]
    <3>1. \A c \in 1 .. accepted : c \in Calls
      BY <1>6 DEF Calls
    <3>2. \A c \in Calls : fate'[c] = IF c = a THEN "answered" ELSE fate[c]
      BY <1>3 DEF RunCallbacks
    <3> QED
      BY <3>1, <3>2
  <2>3. Grown /\ Refusing
    BY <1>6, <2>1, <2>2 DEF Grown, Refusing
  <2>4. WriterOK' /\ Outgoing' = Outgoing /\ UNCHANGED <<writeQueue, writing, out>>
    BY <2>1, WriterStays DEF MessageInv, Typing
  <2>5. Typing'
    BY <1>3, <1>4, <2>3, <2>4, QueueStays DEF MessageInv, Typing
  <2>6. Lifetime'
    BY <1>1, <1>3, <1>6, <2>1, <2>4 DEF MessageInv, Lifetime, NothingHeldBack
  <2>7. Conversation'
    BY <1>3, <2>3, <2>4, SaysNothing DEF MessageInv
  <2> QED
    BY <1>5, <2>5, <2>6, <2>7 DEF MessageInv
<1> QED
  BY <1>7, <1>8

(* handle_message keeps the invariant, whatever the message. *)
LEMMA ReadKeeps ==
  ASSUME LedgerInv, MessageInv, ReadMessage
  PROVE  MessageInv'
<1>1. reading /\ fromServer # <<>> /\ fromServer' = Tail(fromServer)
      /\ UNCHANGED <<exited, killTimer, reading, readUpTo, owed, asks>>
  BY DEF ReadMessage
<1> DEFINE m == Head(fromServer)
<1>2. CASE /\ m.kind = "ask" /\ Send(<<Msg("reply", 0)>>)
           /\ UNCHANGED <<cstate, pending, preinit, historyVars, proc, outputOpen>>
  BY <1>1, <1>2, ReplyKeeps
<1>3. CASE /\ SendsNothing
           /\ UNCHANGED <<cstate, pending, preinit, historyVars, proc, outputOpen>>
  BY <1>1, <1>3, IgnoreKeeps
<1>4. CASE 0 \in pending /\ InitializeAnswered
  BY <1>1, <1>4, InitializedKeeps
<1>5. CASE 0 \in pending /\ InitializeRefused
  <2>1. /\ BecomeStopped /\ proc' = "exited" /\ outputOpen' = FALSE /\ preinit' = preinit
        /\ SendsNothing
    BY <1>5 DEF InitializeRefused
  <2>2. fromServer' \in Seq(ServerMessage)
    BY <1>1, Tails DEF MessageInv, Typing
  <2>3. cstate # "FREED" /\ proc # "none"
    BY <1>5 DEF MessageInv, Lifetime
  <2>4. {exited', killTimer', reading', outputOpen'} \subseteq BOOLEAN
    BY <1>1, <2>1 DEF MessageInv, Typing
  <2> QED
    BY <1>1, <2>1, <2>2, <2>3, <2>4, StopsSilently
<1>6. ASSUME m.ref \in pending \ {0}, NEW again \in BOOLEAN, AnswerRequest(m.ref, again)
      PROVE  MessageInv'
  BY <1>1, <1>6, AnswerKeeps
<1> QED
  BY <1>2, <1>3, <1>4, <1>5, <1>6 DEF ReadMessage

-----------------------------------------------------------------------------
(* So does the end of the output, *)
LEMMA ReadEofKeeps ==
  ASSUME LedgerInv, MessageInv, ReadEof
  PROVE  MessageInv'
<1>1. /\ BecomeStopped /\ SendsNothing /\ reading /\ reading' = FALSE
      /\ UNCHANGED <<preinit, exited, killTimer, proc, outputOpen, fromServer, readUpTo, owed,
                     asks>>
  BY DEF ReadEof, serverVars
<1>2. cstate # "FREED" /\ proc # "none"
  BY <1>1 DEF MessageInv, Lifetime
<1>3. {exited', killTimer', reading', outputOpen'} \subseteq BOOLEAN
      /\ fromServer' \in Seq(ServerMessage)
  BY <1>1 DEF MessageInv, Typing
<1> QED
  BY <1>1, <1>2, <1>3, StopsSilently

(* and the end of the process. *)
LEMMA ProcessExitedKeeps ==
  ASSUME LedgerInv, MessageInv, ProcessExited
  PROVE  MessageInv'
<1>1. /\ BecomeStopped /\ SendsNothing /\ cstate # "FREED" /\ proc = "exited" /\ exited' = TRUE
      /\ UNCHANGED <<preinit, killTimer, reading, proc, outputOpen, fromServer, readUpTo, owed,
                     asks>>
  BY DEF ProcessExited, serverVars
<1>2. {exited', killTimer', reading', outputOpen'} \subseteq BOOLEAN
      /\ fromServer' \in Seq(ServerMessage)
  BY <1>1 DEF MessageInv, Typing
<1> QED
  BY <1>1, <1>2, StopsSilently

(* A write that completes loses no message while the server runs. *)
LEMMA WriteKeeps ==
  ASSUME LedgerInv, MessageInv, WriteCompletes \/ CancelledWriteCompletes
  PROVE  MessageInv'
<1>1. UNCHANGED <<cstate, pending, preinit, exited, killTimer, reading, historyVars, proc,
                  outputOpen, fromServer, readUpTo, owed, asks>>
  BY DEF WriteCompletes, CancelledWriteCompletes, clientVars, serverVars
<1>2. Grown /\ Refusing
  BY <1>1, StandsStill
<1>3. NothingAsked'
  BY <1>1 DEF MessageInv, NothingAsked
<1>4. CASE WriteDone
  <2>1. /\ WriterOK' /\ Outgoing' = Outgoing /\ Len(out') >= Len(out)
        /\ writeQueue' # <<>> => writing' # <<>>
    BY <1>4, Writes DEF MessageInv, Typing
  <2>2. readUpTo' \in 0 .. Len(out')
    <3>1. Len(out) \in Nat /\ Len(out') \in Nat
      BY <2>1, LenProperties DEF WriterOK, MessageInv, Typing
    <3> QED
      BY <1>1, <2>1, <3>1 DEF MessageInv, Typing
  <2>3. Typing'
    BY <1>1, <1>2, <2>1, <2>2, QueueStays DEF MessageInv, Typing
  <2>4. Lifetime'
    BY <1>1, <2>1 DEF MessageInv, Lifetime, NothingHeldBack
  <2>5. Conversation'
    BY <1>1, <1>2, <2>1, SaysNothing DEF MessageInv
  <2> QED
    BY <1>3, <2>3, <2>4, <2>5 DEF MessageInv
<1>5. CASE WriteFails /\ (proc = "exited" \/ cstate = "FREED")
  <2>1. /\ WriterOK' /\ out' = out
        /\ \A i \in DOMAIN Outgoing' : \E j \in DOMAIN Outgoing : Outgoing[j] = Outgoing'[i]
    BY <1>5, Loses DEF MessageInv, Typing
  <2>2. proc = "exited"
    <3> SUFFICES ASSUME proc # "exited" PROVE FALSE
      OBVIOUS
    <3>1. proc = "none"
      BY <1>5 DEF MessageInv, Lifetime, Typing
    <3>2. out \in Seq(Message) /\ writing \in Seq(Message) /\ writeQueue \in Seq(Message)
      BY DEF MessageInv, Typing, WriterOK
    <3>3. (out \o writing) \o writeQueue = <<>> /\ out \o writing \in Seq(Message)
      BY <3>1, <3>2, ConcatProperties DEF MessageInv, Lifetime, Outgoing
    <3>4. out \o writing = <<>>
      BY <3>2, <3>3, ConcatEqualIffEmpty
    <3>5. writing = <<>>
      BY <3>2, <3>4, ConcatEqualIffEmpty
    <3> QED
      BY <1>5, <3>5 DEF WriteFails
  <2>3. Typing'
    BY <1>1, <1>2, <2>1, QueueStays DEF MessageInv, Typing
  <2>4. Lifetime'
    BY <1>1, <2>2 DEF MessageInv, Lifetime, NothingHeldBack
  <2>5. Conversation'
    BY <1>1, <2>1, <2>2, LosesOne DEF MessageInv
  <2> QED
    BY <1>3, <2>3, <2>4, <2>5 DEF MessageInv
<1> QED
  BY <1>4, <1>5 DEF WriteCompletes, CancelledWriteCompletes

(* The server reads, answers, asks and goes, and the client stays as it is.*)
LEMMA UntouchedKeeps ==
  ASSUME LedgerInv, MessageInv, UNCHANGED <<clientVars, historyVars, writerVars>>,
         proc' \in {proc, "exited"}, proc' = "exited" => proc # "none", outputOpen' \in BOOLEAN,
         readUpTo' \in 0 .. Len(out), asks' \in 0 .. MaxAsks,
         owed' \subseteq 0 .. MaxCalls, fromServer' \in Seq(ServerMessage),
         NothingAsked'
  PROVE  MessageInv'
<1>1. UNCHANGED <<cstate, pending, preinit, exited, killTimer, reading, writeQueue, writing, out>>
  BY DEF clientVars, writerVars
<1>2. Grown /\ Refusing
  BY StandsStill
<1>3. WriterOK' /\ Outgoing' = Outgoing
  BY WriterStays DEF SendsNothing, MessageInv, Typing
<1>4. Typing'
  BY <1>1, <1>2, <1>3, QueueStays DEF MessageInv, Typing
<1>5. Lifetime'
  BY <1>1, <1>3 DEF MessageInv, Lifetime, NothingHeldBack
<1>6. Conversation'
  BY <1>1, <1>2, <1>3, SaysNothing DEF MessageInv
<1> QED
  BY <1>4, <1>5, <1>6 DEF MessageInv

(* One more message of the server. *)
LEMMA FromServerGrows ==
  ASSUME NEW q \in Seq(ServerMessage), NEW m \in ServerMessage, NEW t, t = Append(q, m)
  PROVE  /\ t \in Seq(ServerMessage)
         /\ m.ref = 0 /\ (\A i \in DOMAIN q : q[i].ref = 0) => \A i \in DOMAIN t : t[i].ref = 0
<1>1. /\ t \in Seq(ServerMessage) /\ Len(q) \in Nat /\ Len(t) = Len(q) + 1
      /\ DOMAIN q = 1 .. Len(q) /\ DOMAIN t = 1 .. Len(t)
      /\ \A i \in 1 .. Len(q) : t[i] = q[i]
      /\ t[Len(q) + 1] = m
  BY Appended
<1>2. DOMAIN t = DOMAIN q \cup {Len(q) + 1}
  BY <1>1
<1> QED
  BY <1>1, <1>2

(* The server owes only what it has read. *)
LEMMA ServerKeeps ==
  ASSUME LedgerInv, MessageInv, ServerNext
  PROVE  MessageInv'
<1>1. UNCHANGED <<clientVars, historyVars, writerVars>>
  BY DEF ServerNext, ServerReads, ServerAnswers, ServerAsks, ServerExits, ServerClosesOutput
<1>2. cstate' = cstate
  BY <1>1 DEF clientVars
<1>3. /\ readUpTo \in 0 .. Len(out) /\ asks \in 0 .. MaxAsks /\ outputOpen \in BOOLEAN
      /\ owed \subseteq 0 .. MaxCalls /\ fromServer \in Seq(ServerMessage)
      /\ Len(out) \in Nat /\ 0 \in 0 .. MaxCalls
  BY LenProperties, Msgs DEF MessageInv, Typing, WriterOK
<1>4. CASE ServerReads
  <2>1. /\ readUpTo < Len(out) /\ readUpTo' = readUpTo + 1
        /\ UNCHANGED <<proc, outputOpen, fromServer, asks>>
    BY <1>4 DEF ServerReads
  <2>2. PICK n \in 1 .. Len(out) : n = readUpTo + 1
    BY <1>3, <2>1
  <2>3. out[n] \in Message
    BY <2>2, ElementOfSeq DEF MessageInv, Typing, WriterOK
  <2>4. out[n].ref \in 0 .. MaxCalls
    BY <2>3 DEF Message
  <2>5. owed' \subseteq owed \cup {out[n].ref}
    BY <1>4, <2>2 DEF ServerReads
  <2>6. cstate \in {"IDLE", "STARTING"} => out[n].ref = 0
    <3> SUFFICES ASSUME cstate \in {"IDLE", "STARTING"} PROVE out[n].ref = 0
      OBVIOUS
    <3>1. out \in Seq(Message) /\ writing \in Seq(Message) /\ writeQueue \in Seq(Message)
      BY DEF MessageInv, Typing, WriterOK
    <3> DEFINE p == out \o writing
               q == p \o writeQueue
    <3>2. p \in Seq(Message) /\ Len(p) >= Len(out) /\ Len(p) \in Nat
          /\ \A i \in 1 .. Len(out) : p[i] = out[i]
      BY <3>1, Concatenated
    <3> HIDE DEF p
    <3>3. DOMAIN q = 1 .. Len(q) /\ Len(q) >= Len(p) /\ Len(q) \in Nat
          /\ \A i \in 1 .. Len(p) : q[i] = p[i]
      BY <3>1, <3>2, Concatenated
    <3>4. Outgoing = q
      BY DEF Outgoing, p
    <3> HIDE DEF q
    <3>5. n \in DOMAIN Outgoing /\ Outgoing[n] = out[n]
      BY <2>2, <3>2, <3>3, <3>4
    <3>6. out[n] \in Opening
      BY <3>5 DEF MessageInv, Conversation
    <3> QED
      BY <3>6, Msgs DEF Opening, Kinds
  <2>7. NothingAsked'
    BY <1>2, <2>1, <2>5, <2>6 DEF MessageInv, NothingAsked
  <2>8. readUpTo' \in 0 .. Len(out) /\ owed' \subseteq 0 .. MaxCalls /\ proc' \in {proc, "exited"}
        /\ (proc' = "exited" => proc # "none")
    BY <1>3, <2>1, <2>4, <2>5
  <2> QED
    BY <1>1, <1>3, <2>1, <2>7, <2>8, UntouchedKeeps
<1>5. CASE ServerAnswers
  <2>1. PICK r \in owed, kind \in {"answer", "error"} :
          owed' = owed \ {r} /\ fromServer' = Append(fromServer, Msg(kind, r))
    BY <1>5 DEF ServerAnswers
  <2>2. UNCHANGED <<proc, outputOpen, readUpTo, asks>>
    BY <1>5 DEF ServerAnswers
  <2>3. Msg(kind, r) \in ServerMessage /\ Msg(kind, r).ref = r
    BY <1>3, <2>1 DEF Msg, ServerMessage
  <2>4. fromServer' \in Seq(ServerMessage)
    BY <1>3, <2>1, <2>3, FromServerGrows
  <2>5. NothingAsked'
    BY <1>2, <1>3, <2>1, <2>3, FromServerGrows DEF MessageInv, NothingAsked
  <2>6. owed' \subseteq 0 .. MaxCalls /\ proc' \in {proc, "exited"}
        /\ (proc' = "exited" => proc # "none")
    BY <1>3, <1>5, <2>1, <2>2 DEF ServerAnswers
  <2> QED
    BY <1>1, <1>3, <2>2, <2>4, <2>5, <2>6, UntouchedKeeps
<1>6. CASE ServerAsks
  <2>1. /\ proc = "running" /\ asks < MaxAsks /\ asks' = asks + 1
        /\ fromServer' = Append(fromServer, Msg("ask", 0))
        /\ UNCHANGED <<proc, outputOpen, readUpTo, owed>>
    BY <1>6 DEF ServerAsks
  <2>2. Msg("ask", 0) \in ServerMessage /\ Msg("ask", 0).ref = 0
    BY <1>3 DEF Msg, ServerMessage
  <2>3. fromServer' \in Seq(ServerMessage)
    BY <1>3, <2>1, <2>2, FromServerGrows
  <2>4. NothingAsked'
    BY <1>2, <1>3, <2>1, <2>2, FromServerGrows DEF MessageInv, NothingAsked
  <2>5. asks' \in 0 .. MaxAsks
    BY <1>3, <2>1, LspClientAssumption DEF LspClientAssumption
  <2> QED
    BY <1>1, <1>3, <2>1, <2>3, <2>4, <2>5, UntouchedKeeps
<1>7. CASE ServerExits
  <2>1. /\ proc = "running" /\ proc' = "exited" /\ outputOpen' = FALSE
        /\ UNCHANGED <<fromServer, readUpTo, owed, asks>>
    BY <1>7 DEF ServerExits
  <2>2. NothingAsked'
    BY <1>2, <2>1 DEF MessageInv, NothingAsked
  <2> QED
    BY <1>1, <1>3, <2>1, <2>2, UntouchedKeeps
<1>8. CASE ServerClosesOutput
  <2>1. /\ proc = "running" /\ outputOpen' = FALSE
        /\ UNCHANGED <<proc, fromServer, readUpTo, owed, asks>>
    BY <1>8 DEF ServerClosesOutput
  <2>2. NothingAsked'
    BY <1>2, <2>1 DEF MessageInv, NothingAsked
  <2> QED
    BY <1>1, <1>3, <2>1, <2>2, UntouchedKeeps
<1> QED
  BY <1>4, <1>5, <1>6, <1>7, <1>8 DEF ServerNext

(* The end of the grace period says nothing. *)
LEMMA KillKeeps ==
  ASSUME LedgerInv, MessageInv, KillGraceElapsed
  PROVE  MessageInv'
<1>1. /\ killTimer /\ killTimer' = FALSE /\ proc' = "exited" /\ outputOpen' = FALSE
      /\ UNCHANGED <<cstate, pending, preinit, exited, reading, historyVars, writerVars,
                     fromServer, readUpTo, owed, asks>>
      /\ cstate # "FREED"
  BY DEF KillGraceElapsed
<1>2. cstate # "IDLE" /\ proc # "none"
  BY <1>1 DEF MessageInv, Lifetime
<1>3. Grown /\ Refusing
  BY <1>1, StandsStill
<1>4. WriterOK' /\ Outgoing' = Outgoing /\ UNCHANGED <<writeQueue, writing, out>>
  BY <1>1, WriterStays DEF SendsNothing, MessageInv, Typing
<1>5. Typing'
  BY <1>1, <1>3, <1>4, QueueStays DEF MessageInv, Typing
<1>6. Lifetime'
  BY <1>1, <1>2, <1>4 DEF MessageInv, Lifetime, NothingHeldBack
<1>7. NothingAsked'
  BY <1>1 DEF MessageInv, NothingAsked
<1>8. Conversation'
  BY <1>1, <1>3, <1>4, SaysNothing DEF MessageInv
<1> QED
  BY <1>5, <1>6, <1>7, <1>8 DEF MessageInv

-----------------------------------------------------------------------------
(* The invariant holds at first, *)
LEMMA MessageInit == Init => MessageInv
<1> SUFFICES ASSUME Init PROVE MessageInv
  OBVIOUS
<1>1. <<>> \in Seq(Message) /\ <<>> \in Seq(ServerMessage) /\ Len(<<>>) = 0 /\ DOMAIN <<>> = {}
  BY EmptySeq
<1>2. WriterOK /\ QueueOK
  BY <1>1 DEF Init, WriterInit, WriterOK, QueueOK
<1>3. Outgoing = <<>>
  BY <1>1, ConcatEmptySeq DEF Init, WriterInit, Outgoing
<1>4. Said = <<>>
  BY <1>1, <1>3, ConcatEmptySeq DEF Said, Init
<1>5. Typing
  <2>1. readUpTo \in 0 .. Len(out) /\ asks \in 0 .. MaxAsks
    BY <1>1, LspClientAssumption DEF Init, WriterInit, LspClientAssumption
  <2>2. owed \subseteq 0 .. MaxCalls /\ fromServer \in Seq(ServerMessage)
    BY <1>1 DEF Init
  <2> QED
    BY <1>2, <2>1, <2>2 DEF Init, Typing
<1>6. Lifetime /\ NothingAsked
  BY <1>1, <1>3 DEF Init, WriterInit, Lifetime, NothingAsked, NothingHeldBack
<1>7. Conversation
  BY <1>1, <1>3, <1>4 DEF Init, Conversation, Grammar, CancelsFollow, Told, Rising
<1> QED
  BY <1>5, <1>6, <1>7 DEF MessageInv

(* and every step keeps it. *)
LEMMA MessageNext ==
  ASSUME LedgerInv, MessageInv, [Next]_vars
  PROVE  MessageInv'
<1>1. CASE OwnerNext
  BY <1>1, StartKeeps, SpawnFailsKeeps, RequestKeeps, NotifyKeeps, CancelKeeps, StopKeeps,
     FreeKeeps DEF OwnerNext
<1>2. CASE LoopNext
  BY <1>2, ReadKeeps, ReadEofKeeps, ProcessExitedKeeps, WriteKeeps, KillKeeps DEF LoopNext
<1>3. CASE ServerNext
  BY <1>3, ServerKeeps
<1>4. CASE UNCHANGED vars
  <2>1. UNCHANGED <<clientVars, historyVars, writerVars, proc, outputOpen, fromServer, readUpTo,
                    owed, asks, cstate>>
    BY <1>4 DEF vars, serverVars, clientVars
  <2>2. NothingAsked'
    BY <2>1 DEF MessageInv, NothingAsked
  <2> QED
    BY <2>1, <2>2, UntouchedKeeps DEF MessageInv, Typing
<1> QED
  BY <1>1, <1>2, <1>3, <1>4 DEF Next

(* MessageInv is an invariant: what was said, what waits and what the      *)
(* calls were always agree.                                                *)
THEOREM MessageInvariant == Spec => []MessageInv
<1>1. Init => MessageInv
  BY MessageInit
<1>2. LedgerInv /\ MessageInv /\ [Next]_vars => MessageInv'
  BY MessageNext
<1> QED
  BY <1>1, <1>2, LedgerInvariant, PTL DEF Spec

(* MessagesFollow, for any number of calls and whatever the server does:   *)
(* the messages keep the order of the calls, follow the protocol, and none *)
(* is held back.                                                           *)
THEOREM MessagesFollowAlways == Spec => []MessagesFollow
<1>1. LedgerInv /\ MessageInv => MessagesFollow
  <2> SUFFICES ASSUME LedgerInv, MessageInv PROVE MessagesFollow
    OBVIOUS
  <2>1. TypeOK
    <3>1. Outgoing \in Seq(Message)
      BY OutgoingType DEF MessageInv, Typing
    <3>2. calls \in [Calls -> Nat]
      BY DEF LedgerInv
    <3> QED
      BY <3>1, <3>2 DEF LedgerInv, MessageInv, Typing, QueueOK, WriterOK, TypeOK
  <2>2. InOrder /\ SessionGrammar
    BY ConversationIsRight DEF MessageInv
  <2> QED
    BY <2>1, <2>2 DEF MessagesFollow, MessageInv, Lifetime
<1> QED
  BY <1>1, LedgerInvariant, MessageInvariant, PTL

-----------------------------------------------------------------------------
(* The client of a debug adapter, proved in DapClientProofs, under the     *)
(* names it has beside this one.                                           *)

(* For any number of requests, events and reverse requests, and whatever   *)
(* the adapter does: its exit is noticed once and settles every request,   *)
(* at most one event is dispatched after it, and while the adapter listens *)
(* the writer is not idle with something to write.                         *)
THEOREM ExitIsCleanAlways == Adapter!Spec => []ExitIsClean
<1>1. Adapter!Spec
        => [](/\ Adapter!TypeOK /\ Adapter!ExitSettles
              /\ Adapter!OneLateEvent /\ Adapter!WriterNeverIdle)
  BY AdapterAssumption, Adapter!ExitIsCleanAlways, PTL DEF AdapterAssumption
<1> QED
  BY <1>1, PTL DEF ExitIsClean

(* For any number of requests, the life of each request to the adapter is  *)
(* the one RequestLedger allows.                                           *)
THEOREM AdapterKeepsLedgerAlways == Adapter!Spec => AdapterKeepsLedger
BY AdapterAssumption, Adapter!KeepsLedgerAlways, PTL
  DEF AdapterAssumption, AdapterKeepsLedger
=============================================================================
