--------------------------- MODULE LspDocSyncProofs ---------------------------
(***************************************************************************)
(* The server knows what the editor's buffers hold, for every number of    *)
(* documents, edits and replacements of the server.                        *)
(*                                                                         *)
(* What the server will know is what it knows now, changed by the messages *)
(* still on their way.  So the invariant numbers the places a document's   *)
(* state can be read from: 0 is the server itself, i > 0 the i-th message  *)
(* on the wire.  Agrees says, with two kinds of place:                     *)
(*   - Tells: the server's text of the document is known there;            *)
(*   - Turns: whether the server has the document is known there;          *)
(* that every message on the wire fits the last place before it            *)
(* (Sensible), and that the last place of all tells what the manager       *)
(* believes (Knows): which documents are open there, their versions, and   *)
(* the texts of those with no change waiting.  Stated by places and not as *)
(* a fold over the wire, it is preserved by Append and by Tail without an  *)
(* induction.                                                              *)
(***************************************************************************)
EXTENDS LspDocSync, SequenceTheorems, TLAPS

(* Place i of the wire w tells the text of document d, or its lifetime. *)
Tells(w, d, i) == i = 0 \/ (w[i].doc = d /\ w[i].kind \in {"open", "change"})
Turns(w, d, i) == i = 0 \/ (w[i].doc = d /\ w[i].kind \in {"open", "close"})

(* It is the last one to do so before place j. *)
LastTold(w, d, i, j) == Tells(w, d, i) /\ \A k \in i + 1 .. j - 1 : ~Tells(w, d, k)
LastTurn(w, d, i, j) == Turns(w, d, i) /\ \A k \in i + 1 .. j - 1 : ~Turns(w, d, k)

(* What the server has after place i; s is the server itself. *)
HasAt(w, s, d, i) == IF i = 0 THEN d \in s.open ELSE w[i].kind = "open"
VersionAt(w, s, d, i) == IF i = 0 THEN s.version[d] ELSE w[i].version
TextAt(w, s, d, i) == IF i = 0 THEN s.text[d] ELSE w[i].text

(* The message m at place j makes sense to a server that stopped at i. *)
Fits(m, w, s, i, j) ==
  /\ LastTurn(w, m.doc, i, j) =>
       /\ m.kind = "open" => ~HasAt(w, s, m.doc, i)
       /\ m.kind \in {"change", "save", "close", "hover"} => HasAt(w, s, m.doc, i)
  /\ LastTold(w, m.doc, i, j) =>
       /\ m.kind = "change" => m.version > VersionAt(w, s, m.doc, i)
       /\ m.kind \in {"save", "hover"} => m.text = TextAt(w, s, m.doc, i)

(* A request to format: h and i are where the text and the lifetime of its *)
(* document were last told.  Only a server in another's place is asked to  *)
(* format a document it does not have.                                     *)
Formats(m, w, s, h, i, j) ==
  m.kind = "format" /\ LastTold(w, m.doc, h, j) /\ LastTurn(w, m.doc, i, j) =>
    IF HasAt(w, s, m.doc, i) THEN m.text = TextAt(w, s, m.doc, h) ELSE s.replaced

(* Every message makes sense when the server comes to it. *)
Sensible(w, s) ==
  \A j \in 1 .. Len(w) : \A i \in 0 .. j - 1 :
    /\ Fits(w[j], w, s, i, j)
    /\ \A h \in 0 .. j - 1 : Formats(w[j], w, s, h, i, j)

(* The manager believes `open`, `ver` and, of the documents in `fresh`,    *)
(* `tx`: that is what the last place says.                                 *)
Knows(w, s, d, i, open, fresh, ver, tx) ==
  /\ LastTurn(w, d, i, Len(w) + 1) => (HasAt(w, s, d, i) <=> d \in open)
  /\ d \in open /\ LastTold(w, d, i, Len(w) + 1) =>
       /\ VersionAt(w, s, d, i) = ver[d]
       /\ d \in fresh => TextAt(w, s, d, i) = tx[d]

Agrees(w, s, open, fresh, ver, tx) ==
  /\ Sensible(w, s)
  /\ \A d \in Docs : \A i \in 0 .. Len(w) : Knows(w, s, d, i, open, fresh, ver, tx)

(* A message sent changes nothing at the places before it. *)
LEMMA AppendKeeps ==
  ASSUME NEW w \in Seq(Message), NEW m \in Message, NEW s, NEW d
  PROVE  LET W == Append(w, m) IN
         /\ \A i \in 0 .. Len(w) :
              /\ Tells(W, d, i) <=> Tells(w, d, i)
              /\ Turns(W, d, i) <=> Turns(w, d, i)
              /\ HasAt(W, s, d, i) <=> HasAt(w, s, d, i)
              /\ VersionAt(W, s, d, i) = VersionAt(w, s, d, i)
              /\ TextAt(W, s, d, i) = TextAt(w, s, d, i)
         /\ \A j \in 1 .. Len(w) + 1 : \A i \in 0 .. j - 1 :
              /\ LastTold(W, d, i, j) <=> LastTold(w, d, i, j)
              /\ LastTurn(W, d, i, j) <=> LastTurn(w, d, i, j)
<1> DEFINE W == Append(w, m)
<1>1. Len(w) \in Nat /\ \A i \in 1 .. Len(w) : W[i] = w[i]
  BY AppendProperties, LenProperties
<1> HIDE DEF W
<1>2. ASSUME NEW i \in 0 .. Len(w)
      PROVE  /\ Tells(W, d, i) <=> Tells(w, d, i)
             /\ Turns(W, d, i) <=> Turns(w, d, i)
             /\ HasAt(W, s, d, i) <=> HasAt(w, s, d, i)
             /\ VersionAt(W, s, d, i) = VersionAt(w, s, d, i)
             /\ TextAt(W, s, d, i) = TextAt(w, s, d, i)
  <2>1. CASE i = 0
    BY <2>1 DEF Tells, Turns, HasAt, VersionAt, TextAt
  <2>2. CASE i # 0
    <3>1. W[i] = w[i]
      BY <1>1, <2>2
    <3> QED
      BY <3>1 DEF Tells, Turns, HasAt, VersionAt, TextAt
  <2> QED
    BY <2>1, <2>2
<1>3. ASSUME NEW j \in 1 .. Len(w) + 1, NEW i \in 0 .. j - 1
      PROVE  /\ LastTold(W, d, i, j) <=> LastTold(w, d, i, j)
             /\ LastTurn(W, d, i, j) <=> LastTurn(w, d, i, j)
  <2>1. i \in 0 .. Len(w) /\ \A k \in i + 1 .. j - 1 : k \in 0 .. Len(w)
    BY <1>1
  <2> QED
    BY <1>2, <2>1 DEF LastTold, LastTurn
<1> QED
  BY <1>2, <1>3 DEF W

(* A message that fits the end of the wire may be sent. *)
LEMMA AppendSensible ==
  ASSUME NEW w \in Seq(Message), NEW m \in Message, NEW s, Sensible(w, s),
         \A i \in 0 .. Len(w) :
           /\ Fits(m, w, s, i, Len(w) + 1)
           /\ \A h \in 0 .. Len(w) : Formats(m, w, s, h, i, Len(w) + 1)
  PROVE  Sensible(Append(w, m), s)
<1> DEFINE W == Append(w, m)
<1>1. /\ Len(w) \in Nat /\ Len(W) = Len(w) + 1 /\ W[Len(w) + 1] = m
      /\ \A i \in 1 .. Len(w) : W[i] = w[i]
  BY AppendProperties, LenProperties
<1>2. ASSUME NEW j \in 1 .. Len(w) + 1, NEW i \in 0 .. j - 1, NEW e
      PROVE  /\ Fits(e, w, s, i, j) => Fits(e, W, s, i, j)
             /\ \A h \in 0 .. j - 1 : Formats(e, w, s, h, i, j) => Formats(e, W, s, h, i, j)
  <2>1. i \in 0 .. Len(w)
    BY <1>1
  <2>2. /\ HasAt(W, s, e.doc, i) <=> HasAt(w, s, e.doc, i)
        /\ VersionAt(W, s, e.doc, i) = VersionAt(w, s, e.doc, i)
        /\ TextAt(W, s, e.doc, i) = TextAt(w, s, e.doc, i)
        /\ LastTold(W, e.doc, i, j) <=> LastTold(w, e.doc, i, j)
        /\ LastTurn(W, e.doc, i, j) <=> LastTurn(w, e.doc, i, j)
    BY <2>1, AppendKeeps
  <2>3. \A h \in 0 .. j - 1 : /\ TextAt(W, s, e.doc, h) = TextAt(w, s, e.doc, h)
                              /\ LastTold(W, e.doc, h, j) <=> LastTold(w, e.doc, h, j)
    <3>1. \A h \in 0 .. j - 1 : h \in 0 .. Len(w)
      BY <1>1
    <3> QED
      BY <3>1, AppendKeeps
  <2> HIDE DEF W
  <2>4. Fits(e, w, s, i, j) => Fits(e, W, s, i, j)
    BY <2>2 DEF Fits
  <2>5. \A h \in 0 .. j - 1 : Formats(e, w, s, h, i, j) => Formats(e, W, s, h, i, j)
    BY <2>2, <2>3 DEF Formats
  <2> QED
    BY <2>4, <2>5
<1> HIDE DEF W
<1>3. ASSUME NEW j \in 1 .. Len(w) + 1, NEW i \in 0 .. j - 1
      PROVE  /\ Fits(W[j], W, s, i, j)
             /\ \A h \in 0 .. j - 1 : Formats(W[j], W, s, h, i, j)
  <2>1. CASE j = Len(w) + 1
    <3>1. /\ Fits(m, w, s, i, j) /\ W[j] = m
          /\ \A h \in 0 .. j - 1 : Formats(m, w, s, h, i, j)
      BY <1>1, <2>1
    <3> QED
      BY <1>2, <3>1
  <2>2. CASE j # Len(w) + 1
    <3>1. j \in 1 .. Len(w) /\ W[j] = w[j]
      BY <1>1, <2>2
    <3>2. /\ Fits(w[j], w, s, i, j)
          /\ \A h \in 0 .. j - 1 : Formats(w[j], w, s, h, i, j)
      BY <3>1 DEF Sensible
    <3> QED
      BY <1>2, <3>1, <3>2
  <2> QED
    BY <2>1, <2>2
<1>4. Sensible(W, s)
  BY <1>1, <1>3 DEF Sensible
<1> QED
  BY <1>4 DEF W

(* The last place once one more message was sent. *)
LEMMA AppendLast ==
  ASSUME NEW w \in Seq(Message), NEW m \in Message, NEW s, NEW d, NEW i \in 0 .. Len(w) + 1
  PROVE  LET W == Append(w, m)
             n == Len(w) + 1
         IN
         /\ LastTold(W, d, i, n + 1) =>
              IF m.doc = d /\ m.kind \in {"open", "change"}
              THEN i = n /\ VersionAt(W, s, d, i) = m.version /\ TextAt(W, s, d, i) = m.text
              ELSE /\ i \in 0 .. Len(w) /\ LastTold(w, d, i, n)
                   /\ VersionAt(W, s, d, i) = VersionAt(w, s, d, i)
                   /\ TextAt(W, s, d, i) = TextAt(w, s, d, i)
         /\ LastTurn(W, d, i, n + 1) =>
              IF m.doc = d /\ m.kind \in {"open", "close"}
              THEN i = n /\ (HasAt(W, s, d, i) <=> m.kind = "open")
              ELSE /\ i \in 0 .. Len(w) /\ LastTurn(w, d, i, n)
                   /\ (HasAt(W, s, d, i) <=> HasAt(w, s, d, i))
<1> DEFINE W == Append(w, m)
           n == Len(w) + 1
<1>1. Len(w) \in Nat /\ W[n] = m
  BY AppendProperties, LenProperties
<1>2. i \in 0 .. Len(w) =>
        /\ HasAt(W, s, d, i) <=> HasAt(w, s, d, i)
        /\ VersionAt(W, s, d, i) = VersionAt(w, s, d, i)
        /\ TextAt(W, s, d, i) = TextAt(w, s, d, i)
        /\ i \in 0 .. n - 1 => (LastTold(W, d, i, n) <=> LastTold(w, d, i, n))
        /\ i \in 0 .. n - 1 => (LastTurn(W, d, i, n) <=> LastTurn(w, d, i, n))
  <2>1. n \in 1 .. Len(w) + 1
    BY <1>1
  <2> QED
    BY <2>1, AppendKeeps
<1> HIDE DEF W
<1>3. i \in 0 .. Len(w) => /\ i \in 0 .. n - 1 /\ n \in i + 1 .. (n + 1) - 1
                          /\ \A k \in i + 1 .. n - 1 : k \in i + 1 .. (n + 1) - 1
  BY <1>1
<1>4. i \in 0 .. Len(w) \/ (i = n /\ i # 0)
  BY <1>1
<1>5. Tells(W, d, n) <=> m.doc = d /\ m.kind \in {"open", "change"}
  BY <1>1 DEF Tells
<1>6. Turns(W, d, n) <=> m.doc = d /\ m.kind \in {"open", "close"}
  BY <1>1 DEF Turns
<1>7. i = n => /\ VersionAt(W, s, d, i) = m.version /\ TextAt(W, s, d, i) = m.text
               /\ (HasAt(W, s, d, i) <=> m.kind = "open")
  BY <1>1 DEF VersionAt, TextAt, HasAt
<1> HIDE DEF n
<1>8. ASSUME LastTold(W, d, i, n + 1)
      PROVE  IF m.doc = d /\ m.kind \in {"open", "change"}
             THEN i = n /\ VersionAt(W, s, d, i) = m.version /\ TextAt(W, s, d, i) = m.text
             ELSE /\ i \in 0 .. Len(w) /\ LastTold(w, d, i, n)
                  /\ VersionAt(W, s, d, i) = VersionAt(w, s, d, i)
                  /\ TextAt(W, s, d, i) = TextAt(w, s, d, i)
  <2>1. Tells(W, d, i) /\ \A k \in i + 1 .. (n + 1) - 1 : ~Tells(W, d, k)
    BY <1>8 DEF LastTold
  <2>2. i \in 0 .. Len(w) => ~Tells(W, d, n) /\ LastTold(W, d, i, n)
    BY <1>3, <2>1 DEF LastTold
  <2> QED
    BY <1>2, <1>3, <1>4, <1>5, <1>7, <2>1, <2>2
<1>9. ASSUME LastTurn(W, d, i, n + 1)
      PROVE  IF m.doc = d /\ m.kind \in {"open", "close"}
             THEN i = n /\ (HasAt(W, s, d, i) <=> m.kind = "open")
             ELSE /\ i \in 0 .. Len(w) /\ LastTurn(w, d, i, n)
                  /\ (HasAt(W, s, d, i) <=> HasAt(w, s, d, i))
  <2>1. Turns(W, d, i) /\ \A k \in i + 1 .. (n + 1) - 1 : ~Turns(W, d, k)
    BY <1>9 DEF LastTurn
  <2>2. i \in 0 .. Len(w) => ~Turns(W, d, n) /\ LastTurn(W, d, i, n)
    BY <1>3, <2>1 DEF LastTurn
  <2> QED
    BY <1>2, <1>3, <1>4, <1>6, <1>7, <2>1, <2>2
<1> QED
  BY <1>8, <1>9 DEF W, n

(* Of the documents E nothing new is known, and nothing else than before.  *)
Keeps(E, open, fresh, ver, tx, open2, fresh2, ver2, tx2) ==
  \A d \in E :
    /\ d \in open2 <=> d \in open
    /\ d \in open => ver2[d] = ver[d] /\ (d \in fresh2 => d \in fresh /\ tx2[d] = tx[d])

(* A manager that knows less still agrees with the server. *)
LEMMA Weakens ==
  ASSUME NEW w, NEW s, NEW open, NEW fresh, NEW ver, NEW tx,
         NEW open2, NEW fresh2, NEW ver2, NEW tx2,
         Agrees(w, s, open, fresh, ver, tx),
         Keeps(Docs, open, fresh, ver, tx, open2, fresh2, ver2, tx2)
  PROVE  Agrees(w, s, open2, fresh2, ver2, tx2)
BY DEF Agrees, Knows, Keeps

(* A document the message says nothing of, or nothing new. *)
LEMMA KnownStill ==
  ASSUME NEW w \in Seq(Message), NEW m \in Message, NEW s, NEW d \in Docs,
         NEW open, NEW fresh, NEW ver, NEW tx, NEW open2, NEW fresh2, NEW ver2, NEW tx2,
         \A i \in 0 .. Len(w) : Knows(w, s, d, i, open, fresh, ver, tx),
         m.doc # d \/ m.kind \notin {"open", "change", "close"},
         Keeps({d}, open, fresh, ver, tx, open2, fresh2, ver2, tx2)
  PROVE  \A i \in 0 .. Len(Append(w, m)) :
           Knows(Append(w, m), s, d, i, open2, fresh2, ver2, tx2)
<1> DEFINE W == Append(w, m)
           n == Len(w) + 1
<1>1. Len(W) = n /\ Len(w) \in Nat
  BY AppendProperties, LenProperties
<1> SUFFICES ASSUME NEW i \in 0 .. n PROVE Knows(W, s, d, i, open2, fresh2, ver2, tx2)
  BY <1>1
<1>2. LastTold(W, d, i, n + 1) =>
        /\ i \in 0 .. Len(w) /\ LastTold(w, d, i, n)
        /\ VersionAt(W, s, d, i) = VersionAt(w, s, d, i) /\ TextAt(W, s, d, i) = TextAt(w, s, d, i)
  BY AppendLast
<1>3. LastTurn(W, d, i, n + 1) =>
        i \in 0 .. Len(w) /\ LastTurn(w, d, i, n) /\ (HasAt(W, s, d, i) <=> HasAt(w, s, d, i))
  BY AppendLast
<1> HIDE DEF W
<1> QED
  BY <1>1, <1>2, <1>3 DEF Knows, Keeps

(* A document the message is about is known from it. *)
LEMMA KnownNow ==
  ASSUME NEW w \in Seq(Message), NEW m \in Message, NEW s,
         NEW open, NEW fresh, NEW ver, NEW tx, NEW open2, NEW fresh2, NEW ver2, NEW tx2,
         \A i \in 0 .. Len(w) : Knows(w, s, m.doc, i, open, fresh, ver, tx),
         \/ /\ m.kind \in {"open", "change"} /\ m.doc \in open2
            /\ m.kind = "change" => m.doc \in open
            /\ ver2[m.doc] = m.version /\ tx2[m.doc] = m.text
         \/ m.kind = "close" /\ m.doc \notin open2
  PROVE  \A i \in 0 .. Len(Append(w, m)) :
           Knows(Append(w, m), s, m.doc, i, open2, fresh2, ver2, tx2)
<1> DEFINE W == Append(w, m)
           n == Len(w) + 1
           d == m.doc
<1>1. Len(W) = n /\ Len(w) \in Nat
  BY AppendProperties, LenProperties
<1> SUFFICES ASSUME NEW i \in 0 .. n PROVE Knows(W, s, d, i, open2, fresh2, ver2, tx2)
  BY <1>1
<1>2. m.kind \in {"open", "change"} /\ LastTold(W, d, i, n + 1) =>
        VersionAt(W, s, d, i) = m.version /\ TextAt(W, s, d, i) = m.text
  BY AppendLast
<1>3. m.kind \in {"open", "close"} /\ LastTurn(W, d, i, n + 1) =>
        (HasAt(W, s, d, i) <=> m.kind = "open")
  BY AppendLast
<1>4. m.kind = "change" /\ LastTurn(W, d, i, n + 1) =>
        i \in 0 .. Len(w) /\ LastTurn(w, d, i, n) /\ (HasAt(W, s, d, i) <=> HasAt(w, s, d, i))
  BY AppendLast
<1> HIDE DEF W
<1>5. CASE m.kind = "open"
  BY <1>1, <1>2, <1>3, <1>5 DEF Knows
<1>6. CASE m.kind = "change"
  BY <1>1, <1>2, <1>4, <1>6 DEF Knows
<1>7. CASE m.kind = "close"
  BY <1>1, <1>3, <1>7 DEF Knows
<1> QED
  BY <1>5, <1>6, <1>7

(* A message goes out: an open, a change, a close, or a request. *)
LEMMA Sends ==
  ASSUME NEW w \in Seq(Message), NEW m \in Message, NEW s, m.doc \in Docs,
         NEW open, NEW fresh, NEW ver, NEW tx, NEW open2, NEW fresh2, NEW ver2, NEW tx2,
         Agrees(w, s, open, fresh, ver, tx),
         Keeps(Docs \ {m.doc}, open, fresh, ver, tx, open2, fresh2, ver2, tx2),
         \/ /\ m.kind = "open" /\ m.doc \notin open /\ m.doc \in open2
            /\ ver2[m.doc] = m.version /\ tx2[m.doc] = m.text
         \/ /\ m.kind = "change" /\ m.doc \in open /\ m.doc \in open2 /\ m.version > ver[m.doc]
            /\ ver2[m.doc] = m.version /\ tx2[m.doc] = m.text
         \/ m.kind = "close" /\ m.doc \in open /\ m.doc \notin open2
         \/ /\ m.kind \in {"save", "hover"} /\ m.doc \in open \cap fresh /\ m.text = tx[m.doc]
            /\ Keeps({m.doc}, open, fresh, ver, tx, open2, fresh2, ver2, tx2)
         \/ /\ m.kind = "format"
            /\ IF m.doc \in open THEN m.doc \in fresh /\ m.text = tx[m.doc] ELSE s.replaced
            /\ Keeps({m.doc}, open, fresh, ver, tx, open2, fresh2, ver2, tx2)
  PROVE  Agrees(Append(w, m), s, open2, fresh2, ver2, tx2)
<1>1. \A d \in Docs : \A i \in 0 .. Len(w) : Knows(w, s, d, i, open, fresh, ver, tx)
  BY DEF Agrees
<1>2. Sensible(Append(w, m), s)
  <2>1. ASSUME NEW i \in 0 .. Len(w) PROVE Fits(m, w, s, i, Len(w) + 1)
    <3>1. Knows(w, s, m.doc, i, open, fresh, ver, tx)
      BY <1>1
    <3> QED
      BY <3>1 DEF Knows, Fits
  <2>2. ASSUME NEW i \in 0 .. Len(w), NEW h \in 0 .. Len(w)
        PROVE  Formats(m, w, s, h, i, Len(w) + 1)
    <3>1. /\ Knows(w, s, m.doc, i, open, fresh, ver, tx)
          /\ Knows(w, s, m.doc, h, open, fresh, ver, tx)
      BY <1>1
    <3> QED
      BY <3>1 DEF Knows, Formats
  <2> QED
    BY <2>1, <2>2, AppendSensible DEF Agrees
<1>3. ASSUME NEW d \in Docs \ {m.doc}
      PROVE  \A i \in 0 .. Len(Append(w, m)) :
               Knows(Append(w, m), s, d, i, open2, fresh2, ver2, tx2)
  <2>1. Keeps({d}, open, fresh, ver, tx, open2, fresh2, ver2, tx2)
    BY DEF Keeps
  <2> QED
    BY <1>1, <2>1, KnownStill
<1>4. \A i \in 0 .. Len(Append(w, m)) : Knows(Append(w, m), s, m.doc, i, open2, fresh2, ver2, tx2)
  <2>1. CASE m.kind \in {"open", "change", "close"}
    BY <1>1, <2>1, KnownNow
  <2>2. CASE m.kind \notin {"open", "change", "close"}
    <3>1. Keeps({m.doc}, open, fresh, ver, tx, open2, fresh2, ver2, tx2)
      BY <2>2
    <3> QED
      BY <1>1, <2>2, <3>1, KnownStill
  <2> QED
    BY <2>1, <2>2
<1> QED
  BY <1>2, <1>3, <1>4 DEF Agrees

(* s2 is the server s after it read m. *)
Having(s, s2, m) ==
  /\ s2.replaced <=> s.replaced
  /\ \A d \in Docs :
       /\ d \in s2.open <=> IF m.doc = d /\ m.kind \in {"open", "close"}
                            THEN m.kind = "open" ELSE d \in s.open
       /\ s2.version[d] = IF m.doc = d /\ m.kind \in {"open", "change"}
                          THEN m.version ELSE s.version[d]
       /\ s2.text[d] = IF m.doc = d /\ m.kind \in {"open", "change"}
                       THEN m.text ELSE s.text[d]

(* The server reads the first message. *)
LEMMA Reads ==
  ASSUME NEW w \in Seq(Message), w # <<>>, NEW s, NEW s2,
         NEW open, NEW fresh, NEW ver, NEW tx,
         Agrees(w, s, open, fresh, ver, tx), Having(s, s2, Head(w))
  PROVE  Agrees(Tail(w), s2, open, fresh, ver, tx)
<1> DEFINE W == Tail(w)
           m == Head(w)
<1>1. /\ Len(w) \in Nat /\ Len(W) \in Nat /\ Len(w) = Len(W) + 1 /\ m = w[1]
      /\ \A i \in 1 .. Len(W) : W[i] = w[i + 1]
  BY HeadTailProperties, LenProperties
<1>2. \A i \in 1 .. Len(w) : w[i] \in Message
  BY ElementOfSeq
<1>0. \A d \in Docs :
        /\ d \in s2.open <=> IF m.doc = d /\ m.kind \in {"open", "close"}
                             THEN m.kind = "open" ELSE d \in s.open
        /\ s2.version[d] = IF m.doc = d /\ m.kind \in {"open", "change"}
                           THEN m.version ELSE s.version[d]
        /\ s2.text[d] = IF m.doc = d /\ m.kind \in {"open", "change"}
                        THEN m.text ELSE s.text[d]
  BY DEF Having
<1> HIDE DEF W, m
<1>3. ASSUME NEW d \in Docs, NEW j \in 1 .. Len(W) + 1, NEW i \in 0 .. j - 1, LastTold(W, d, i, j)
      PROVE  \E h \in 0 .. j : /\ LastTold(w, d, h, j + 1)
                               /\ VersionAt(W, s2, d, i) = VersionAt(w, s, d, h)
                               /\ TextAt(W, s2, d, i) = TextAt(w, s, d, h)
  <2>1. \A k \in 1 .. j - 1 : k \in 1 .. Len(W) /\ (Tells(W, d, k) <=> Tells(w, d, k + 1))
    BY <1>1 DEF Tells
  <2>2. \A k \in i + 1 .. j - 1 : ~Tells(W, d, k)
    BY <1>3 DEF LastTold
  <2>4. \A k \in i + 2 .. j : ~Tells(w, d, k)
    <3> SUFFICES ASSUME NEW k \in i + 2 .. j PROVE ~Tells(w, d, k)
      OBVIOUS
    <3>1. PICK h \in i + 1 .. j - 1 : h \in 1 .. j - 1 /\ h + 1 = k
      OBVIOUS
    <3>2. Tells(w, d, h + 1) <=> Tells(W, d, h)
      BY <2>1, <3>1
    <3> QED
      BY <2>2, <3>1, <3>2
  <2>5. CASE i # 0
    <3>1. i \in 1 .. j - 1 /\ W[i] = w[i + 1] /\ Tells(W, d, i)
      BY <1>1, <1>3, <2>5 DEF LastTold
    <3>2. Tells(w, d, i + 1) /\ i + 1 \in 0 .. j /\ i + 1 # 0
      BY <2>1, <3>1
    <3>3. LastTold(w, d, i + 1, j + 1)
      <4>1. \A k \in (i + 1) + 1 .. (j + 1) - 1 : k \in i + 2 .. j
        OBVIOUS
      <4> QED
        BY <2>4, <3>2, <4>1 DEF LastTold
    <3>4. /\ VersionAt(W, s2, d, i) = VersionAt(w, s, d, i + 1)
          /\ TextAt(W, s2, d, i) = TextAt(w, s, d, i + 1)
      BY <2>5, <3>1, <3>2 DEF VersionAt, TextAt
    <3> QED
      BY <3>2, <3>3, <3>4
  <2>6. CASE i = 0 /\ Tells(w, d, 1)
    <3>1. LastTold(w, d, 1, j + 1)
      <4>1. \A k \in 1 + 1 .. (j + 1) - 1 : k \in i + 2 .. j
        BY <2>6
      <4> QED
        BY <2>4, <2>6, <4>1 DEF LastTold
    <3>2. VersionAt(W, s2, d, i) = VersionAt(w, s, d, 1) /\ TextAt(W, s2, d, i) = TextAt(w, s, d, 1)
      BY <1>0, <1>1, <2>6 DEF VersionAt, TextAt, Tells
    <3>3. 1 \in 0 .. j
      OBVIOUS
    <3> QED
      BY <3>1, <3>2, <3>3
  <2>7. CASE i = 0 /\ ~Tells(w, d, 1)
    <3>1. LastTold(w, d, 0, j + 1)
      <4>1. \A k \in 0 + 1 .. (j + 1) - 1 : k = 1 \/ k \in i + 2 .. j
        BY <2>7
      <4>2. Tells(w, d, 0)
        BY DEF Tells
      <4> QED
        BY <2>4, <2>7, <4>1, <4>2 DEF LastTold
    <3>2. VersionAt(W, s2, d, i) = VersionAt(w, s, d, 0) /\ TextAt(W, s2, d, i) = TextAt(w, s, d, 0)
      BY <1>0, <1>1, <2>7 DEF VersionAt, TextAt, Tells
    <3>3. 0 \in 0 .. j
      OBVIOUS
    <3> QED
      BY <3>1, <3>2, <3>3
  <2> QED
    BY <2>5, <2>6, <2>7
<1>4. ASSUME NEW d \in Docs, NEW j \in 1 .. Len(W) + 1, NEW i \in 0 .. j - 1, LastTurn(W, d, i, j)
      PROVE  \E h \in 0 .. j : /\ LastTurn(w, d, h, j + 1)
                               /\ HasAt(W, s2, d, i) <=> HasAt(w, s, d, h)
  <2>1. \A k \in 1 .. j - 1 : k \in 1 .. Len(W) /\ (Turns(W, d, k) <=> Turns(w, d, k + 1))
    BY <1>1 DEF Turns
  <2>2. \A k \in i + 1 .. j - 1 : ~Turns(W, d, k)
    BY <1>4 DEF LastTurn
  <2>4. \A k \in i + 2 .. j : ~Turns(w, d, k)
    <3> SUFFICES ASSUME NEW k \in i + 2 .. j PROVE ~Turns(w, d, k)
      OBVIOUS
    <3>1. PICK h \in i + 1 .. j - 1 : h \in 1 .. j - 1 /\ h + 1 = k
      OBVIOUS
    <3>2. Turns(w, d, h + 1) <=> Turns(W, d, h)
      BY <2>1, <3>1
    <3> QED
      BY <2>2, <3>1, <3>2
  <2>5. CASE i # 0
    <3>1. i \in 1 .. j - 1 /\ W[i] = w[i + 1] /\ Turns(W, d, i)
      BY <1>1, <1>4, <2>5 DEF LastTurn
    <3>2. Turns(w, d, i + 1) /\ i + 1 \in 0 .. j /\ i + 1 # 0
      BY <2>1, <3>1
    <3>3. LastTurn(w, d, i + 1, j + 1)
      <4>1. \A k \in (i + 1) + 1 .. (j + 1) - 1 : k \in i + 2 .. j
        OBVIOUS
      <4> QED
        BY <2>4, <3>2, <4>1 DEF LastTurn
    <3>4. HasAt(W, s2, d, i) <=> HasAt(w, s, d, i + 1)
      BY <2>5, <3>1, <3>2 DEF HasAt
    <3> QED
      BY <3>2, <3>3, <3>4
  <2>6. CASE i = 0 /\ Turns(w, d, 1)
    <3>1. LastTurn(w, d, 1, j + 1)
      <4>1. \A k \in 1 + 1 .. (j + 1) - 1 : k \in i + 2 .. j
        BY <2>6
      <4> QED
        BY <2>4, <2>6, <4>1 DEF LastTurn
    <3>2. HasAt(W, s2, d, i) <=> HasAt(w, s, d, 1)
      BY <1>0, <1>1, <2>6 DEF HasAt, Turns
    <3>3. 1 \in 0 .. j
      OBVIOUS
    <3> QED
      BY <3>1, <3>2, <3>3
  <2>7. CASE i = 0 /\ ~Turns(w, d, 1)
    <3>1. LastTurn(w, d, 0, j + 1)
      <4>1. \A k \in 0 + 1 .. (j + 1) - 1 : k = 1 \/ k \in i + 2 .. j
        BY <2>7
      <4>2. Turns(w, d, 0)
        BY DEF Turns
      <4> QED
        BY <2>4, <2>7, <4>1, <4>2 DEF LastTurn
    <3>2. HasAt(W, s2, d, i) <=> HasAt(w, s, d, 0)
      BY <1>0, <1>1, <2>7 DEF HasAt, Turns
    <3>3. 0 \in 0 .. j
      OBVIOUS
    <3> QED
      BY <3>1, <3>2, <3>3
  <2> QED
    BY <2>5, <2>6, <2>7
<1>5. Sensible(W, s2)
  <2> SUFFICES ASSUME NEW j \in 1 .. Len(W), NEW i \in 0 .. j - 1
               PROVE  /\ Fits(W[j], W, s2, i, j)
                      /\ \A h \in 0 .. j - 1 : Formats(W[j], W, s2, h, i, j)
    BY DEF Sensible
  <2> DEFINE e == W[j]
  <2>1. /\ j \in 1 .. Len(W) + 1 /\ j + 1 \in 1 .. Len(w) /\ e = w[j + 1]
        /\ \A h \in 0 .. j : h \in 0 .. (j + 1) - 1
    BY <1>1
  <2>2. e \in Message /\ e.doc \in Docs
    BY <1>2, <2>1 DEF Message
  <2>3. \A h \in 0 .. j : /\ Fits(e, w, s, h, j + 1)
                          /\ \A k \in 0 .. j : Formats(e, w, s, k, h, j + 1)
    BY <2>1 DEF Agrees, Sensible
  <2> HIDE DEF e
  <2>4. LastTurn(W, e.doc, i, j) =>
          /\ e.kind = "open" => ~HasAt(W, s2, e.doc, i)
          /\ e.kind \in {"change", "save", "close", "hover"} => HasAt(W, s2, e.doc, i)
    BY <1>4, <2>1, <2>2, <2>3 DEF Fits
  <2>5. LastTold(W, e.doc, i, j) =>
          /\ e.kind = "change" => e.version > VersionAt(W, s2, e.doc, i)
          /\ e.kind \in {"save", "hover"} => e.text = TextAt(W, s2, e.doc, i)
    BY <1>3, <2>1, <2>2, <2>3 DEF Fits
  <2>6. ASSUME NEW h \in 0 .. j - 1 PROVE Formats(e, W, s2, h, i, j)
    <3> SUFFICES ASSUME e.kind = "format", LastTold(W, e.doc, h, j), LastTurn(W, e.doc, i, j)
                 PROVE  IF HasAt(W, s2, e.doc, i) THEN e.text = TextAt(W, s2, e.doc, h)
                        ELSE s2.replaced
      BY DEF Formats
    <3>1. PICK k \in 0 .. j : LastTold(w, e.doc, k, j + 1) /\ TextAt(W, s2, e.doc, h) = TextAt(w, s, e.doc, k)
      BY <1>3, <2>1, <2>2
    <3>2. PICK l \in 0 .. j : LastTurn(w, e.doc, l, j + 1) /\ (HasAt(W, s2, e.doc, i) <=> HasAt(w, s, e.doc, l))
      BY <1>4, <2>1, <2>2
    <3>3. Formats(e, w, s, k, l, j + 1) /\ (s2.replaced <=> s.replaced)
      BY <2>3 DEF Having
    <3> QED
      BY <3>1, <3>2, <3>3 DEF Formats
  <2>7. Fits(e, W, s2, i, j)
    BY <2>4, <2>5 DEF Fits
  <2> QED
    BY <2>6, <2>7 DEF e
<1>6. ASSUME NEW d \in Docs, NEW i \in 0 .. Len(W)
      PROVE  Knows(W, s2, d, i, open, fresh, ver, tx)
  <2>1. \A h \in 0 .. Len(w) : Knows(w, s, d, h, open, fresh, ver, tx)
    BY DEF Agrees
  <2>2. /\ Len(W) + 1 \in 1 .. Len(W) + 1 /\ i \in 0 .. (Len(W) + 1) - 1 /\ Len(w) = Len(W) + 1
    BY <1>1
  <2> QED
    BY <1>3, <1>4, <2>1, <2>2 DEF Knows
<1> QED
  BY <1>5, <1>6 DEF Agrees, W

-----------------------------------------------------------------------------
(* The bounds are numbers: all that is assumed of the constants. *)
Bounded == RestartLimit \in Nat /\ MaxEdits \in Nat /\ MaxOps \in Nat

(* The server, the documents it is believed to have, and those with no     *)
(* change waiting.                                                         *)
ServerSide ==
  [open |-> srvOpen, version |-> srvVersion, text |-> srvText, replaced |-> gen > 1]
Served == {d \in Docs : sentOpen[d]}
Fresh == {d \in Docs : ~timer[d] /\ d \notin stale}

(* A server that is up agrees with the manager. *)
Conversation == Alive => Agrees(wire, ServerSide, Served, Fresh, version, text)

(* Who may point at the client, and when something may be on its way.  The *)
(* first server is told of every document that points at it.               *)
Lifetime ==
  /\ NoDanglingClient
  /\ Alive /\ ~(gen > 1) => \A d \in Docs : docClient[d] # 0 => sentOpen[d]
  /\ Alive => gen # 0
  /\ ~Alive => wire = <<>>

Inv == TypeOK /\ Lifetime /\ Conversation /\ ServerFollows

(* A document the server has is open, and its server is up. *)
LEMMA ServedIs ==
  ASSUME Inv, NEW d \in Docs, d \in Served
  PROVE  sentOpen[d] /\ isOpen[d] /\ docClient[d] = gen /\ docClient[d] # 0 /\ Alive
BY DEF Inv, Lifetime, NoDanglingClient, Served

(* A step that sends nothing and has the server read nothing. *)
LEMMA SaysNothing ==
  ASSUME Conversation, UNCHANGED <<gen, wire, srvVars>>, Alive' => Alive,
         Keeps(Docs, Served, Fresh, version, text, Served', Fresh', version', text')
  PROVE  Conversation'
<1>1. ServerSide' = ServerSide
  BY DEF ServerSide, srvVars
<1>2. Alive => Agrees(wire, ServerSide, Served', Fresh', version', text')
  BY Weakens DEF Conversation
<1> QED
  BY <1>1, <1>2 DEF Conversation

(* What is sent is a message. *)
LEMMA MsgType ==
  ASSUME TypeOK, NEW d \in Docs, NEW v \in Nat,
         NEW kind \in {"open", "change", "save", "close", "hover", "format"}
  PROVE  /\ Msg(kind, d, v) \in Message /\ Msg(kind, d, v).kind = kind
         /\ Msg(kind, d, v).doc = d /\ Msg(kind, d, v).version = v
         /\ Msg(kind, d, v).text = text[d]
BY DEF Msg, Message, TypeOK

(* doc_send_change_now and what the caller sends after it. *)
LEMMA Bumps ==
  ASSUME Inv, NEW d \in Docs, NEW extra, Bump(d, extra),
         UNCHANGED <<docClient, sentOpen, text, gen, cstate, srvVars>>,
         timer' = [timer EXCEPT ![d] = FALSE],
         \/ extra = <<>>
         \/ /\ Alive
            /\ \E m \in Message :
                 /\ extra = <<m>> /\ m.doc = d /\ m.text = text[d]
                 /\ \/ m.kind = "format" /\ docClient[d] # 0
                    \/ m.kind \in {"save", "hover"} /\ d \in Served
  PROVE  /\ wire' \in Seq(Message) /\ version' \in [Docs -> Nat] /\ stale' \subseteq Docs
         /\ Conversation' /\ (~Alive' => wire' = <<>>)
<1>1. /\ wire \in Seq(Message) /\ version \in [Docs -> Nat]
      /\ stale \subseteq Docs /\ timer \in [Docs -> BOOLEAN]
  BY DEF Inv, TypeOK
<1>2. (docClient[d] # 0 /\ sentOpen[d]) <=> d \in Served
  BY ServedIs DEF Served
<1>3. ServerSide' = ServerSide /\ Served' = Served /\ (Alive' <=> Alive)
  BY DEF ServerSide, srvVars, Served, Alive
<1>5. \A e \in Docs \ {d} :
        e \in Fresh' /\ stale' \subseteq stale /\ (e \in stale => e \in stale') => e \in Fresh
  BY <1>1 DEF Fresh
<1>6. CASE d \in Served
  <2> DEFINE c == Msg("change", d, version[d] + 1)
             W == Append(wire, c)
  <2>1. /\ version' = [version EXCEPT ![d] = @ + 1] /\ stale' = stale \ {d}
        /\ wire' = wire \o <<c>> \o extra
    BY <1>2, <1>6 DEF Bump
  <2>2. version[d] + 1 \in Nat /\ version[d] + 1 > version[d]
    BY <1>1
  <2>3. /\ c \in Message /\ c.kind = "change" /\ c.doc = d
        /\ c.version = version[d] + 1 /\ c.text = text[d]
    BY <2>2, MsgType DEF Inv
  <2> HIDE DEF c
  <2>4. W \in Seq(Message) /\ wire' = W \o extra
    BY <1>1, <2>1, <2>3, AppendProperties, AppendIsConcat
  <2>5. /\ d \in Served' /\ version'[d] = c.version /\ text'[d] = c.text
        /\ Keeps(Docs \ {d}, Served, Fresh, version, text, Served', Fresh', version', text')
    BY <1>1, <1>3, <1>5, <1>6, <2>1, <2>3 DEF Keeps
  <2>6. Alive
    BY <1>6, ServedIs
  <2>7. Agrees(W, ServerSide, Served', Fresh', version', text')
    <3>1. Agrees(wire, ServerSide, Served, Fresh, version, text)
      BY <2>6 DEF Inv, Conversation
    <3> QED
      BY <1>1, <1>6, <2>2, <2>3, <2>5, <3>1, Sends
  <2>8. Agrees(wire', ServerSide, Served', Fresh', version', text') /\ wire' \in Seq(Message)
    <3>1. CASE extra = <<>>
      BY <2>4, <2>7, <3>1, ConcatEmptySeq
    <3>2. ASSUME NEW m \in Message, extra = <<m>>, m.doc = d, m.text = text[d],
                 m.kind \in {"format", "save", "hover"}
          PROVE  /\ Agrees(wire', ServerSide, Served', Fresh', version', text')
                 /\ wire' \in Seq(Message)
      <4>1. wire' = Append(W, m) /\ Append(W, m) \in Seq(Message)
        BY <2>4, <3>2, AppendProperties, AppendIsConcat
      <4>2. d \in Fresh'
        BY <1>1, <2>1 DEF Fresh
      <4>3. \A E : Keeps(E, Served', Fresh', version', text', Served', Fresh', version', text')
        BY DEF Keeps
      <4>4. m.text = text'[d] /\ d \in Served' \cap Fresh'
        BY <2>5, <3>2, <4>2
      <4>5. Agrees(Append(W, m), ServerSide, Served', Fresh', version', text')
        BY <2>4, <2>7, <3>2, <4>3, <4>4, Sends
      <4> QED
        BY <4>1, <4>5
    <3> QED
      BY <3>1, <3>2
  <2>9. version' \in [Docs -> Nat]
    BY <1>1, <2>1, <2>2
  <2> QED
    BY <1>1, <1>3, <2>1, <2>6, <2>8, <2>9 DEF Conversation
<1>7. CASE d \notin Served
  <2>1. version' = version /\ wire' = wire \o extra /\ stale' = stale
    BY <1>2, <1>7 DEF Bump
  <2>2. Keeps(Docs, Served, Fresh, version, text, Served', Fresh', version', text')
    BY <1>1, <1>3, <1>5, <1>7, <2>1 DEF Keeps
  <2>3. CASE extra = <<>>
    <3>1. wire' = wire
      BY <1>1, <2>1, <2>3, ConcatEmptySeq
    <3>2. Conversation'
      BY <1>3, <2>2, <3>1, SaysNothing DEF Inv
    <3>3. ~Alive' => wire' = <<>>
      BY <1>3, <3>1 DEF Inv, Lifetime
    <3> QED
      BY <1>1, <2>1, <3>1, <3>2, <3>3
  <2>4. ASSUME Alive, NEW m \in Message, extra = <<m>>, m.doc = d, m.kind = "format",
               docClient[d] # 0
        PROVE  wire' \in Seq(Message) /\ Conversation' /\ Alive'
    <3>1. wire' = Append(wire, m) /\ Append(wire, m) \in Seq(Message)
      BY <1>1, <2>1, <2>4, AppendProperties, AppendIsConcat
    <3>2. Keeps({d}, Served, Fresh, version, text, Served', Fresh', version', text')
          /\ Keeps(Docs \ {d}, Served, Fresh, version, text, Served', Fresh', version', text')
      BY <2>2 DEF Keeps
    <3>3. Agrees(wire, ServerSide, Served, Fresh, version, text)
      BY <2>4 DEF Inv, Conversation
    <3>5. ServerSide.replaced
      <4>1. gen > 1
        BY <1>7, <2>4 DEF Inv, Lifetime, Served
      <4> QED
        BY <4>1 DEF ServerSide
    <3>4. Agrees(Append(wire, m), ServerSide, Served', Fresh', version', text')
      BY <1>1, <1>7, <2>4, <3>2, <3>3, <3>5, Sends
    <3> QED
      BY <1>3, <2>4, <3>1, <3>4 DEF Conversation
  <2> QED
    BY <1>1, <1>7, <2>1, <2>3, <2>4
<1> QED
  BY <1>6, <1>7

(* The new server knows no document but the one it is sent. *)
LEMMA FirstOpen ==
  ASSUME NEW m \in Message, m.kind = "open", NEW s, s.open = {},
         NEW open, NEW fresh, NEW ver, NEW tx, open = {m.doc},
         ver[m.doc] = m.version, tx[m.doc] = m.text
  PROVE  Agrees(<<m>>, s, open, fresh, ver, tx)
<1> DEFINE w == <<m>>
<1>1. Len(w) = 1 /\ w[1] = m
  OBVIOUS
<1> HIDE DEF w
<1>2. Sensible(w, s)
  BY <1>1 DEF Sensible, Fits, Formats, HasAt
<1>3. ASSUME NEW d \in Docs, NEW i \in 0 .. Len(w) PROVE Knows(w, s, d, i, open, fresh, ver, tx)
  <2>1. i = 0 \/ i = 1
    BY <1>1
  <2>2. CASE d = m.doc
    <3>1. Tells(w, d, 1) /\ Turns(w, d, 1)
      BY <1>1, <2>2 DEF Tells, Turns
    <3>2. i = 0 => 1 \in i + 1 .. (Len(w) + 1) - 1
      BY <1>1
    <3>3. i = 0 => ~LastTold(w, d, i, Len(w) + 1) /\ ~LastTurn(w, d, i, Len(w) + 1)
      BY <3>1, <3>2 DEF LastTold, LastTurn
    <3>4. i = 1 => HasAt(w, s, d, i) /\ VersionAt(w, s, d, i) = ver[d] /\ TextAt(w, s, d, i) = tx[d]
      BY <1>1, <2>2 DEF HasAt, VersionAt, TextAt
    <3> QED
      BY <2>1, <2>2, <3>3, <3>4 DEF Knows
  <2>3. CASE d # m.doc
    <3>1. i = 1 => ~LastTurn(w, d, i, Len(w) + 1)
      BY <1>1, <2>3 DEF LastTurn, Turns
    <3>2. i = 0 => ~HasAt(w, s, d, i)
      BY DEF HasAt
    <3> QED
      BY <2>1, <2>3, <3>1, <3>2 DEF Knows
  <2> QED
    BY <2>2, <2>3
<1>4. Agrees(w, s, open, fresh, ver, tx)
  BY <1>2, <1>3 DEF Agrees
<1> QED
  BY <1>4 DEF w

(* get_client and what notify_open does with the client it gets. *)
LEMMA ClientGot ==
  ASSUME Inv, Bounded, NEW d \in Docs, NEW v \in Nat, d \notin Served, GetClient(d, v),
         version' \in [Docs -> Nat], version'[d] = v,
         \A e \in Docs \ {d} : version'[e] = version[e],
         isOpen' = [isOpen EXCEPT ![d] = TRUE],
         UNCHANGED <<timer, inflight, text, edits, answers, confused>>
  PROVE  /\ docClient' \in [Docs -> 0 .. gen'] /\ sentOpen' \in [Docs -> BOOLEAN]
         /\ gen' \in 0 .. RestartLimit + 1 /\ gen <= gen'
         /\ cstate' \in {"NONE", "STARTING", "READY", "STOPPED"} /\ missing' \in BOOLEAN
         /\ wire' \in Seq(Message) /\ stale' \subseteq Docs
         /\ srvOpen' \subseteq Docs /\ srvVersion' \in [Docs -> Nat]
         /\ srvText' \in [Docs -> Texts]
         /\ Lifetime' /\ Conversation'
<1> DEFINE m == Msg("open", d, v)
<1>1. /\ gen \in 0 .. RestartLimit + 1 /\ docClient \in [Docs -> 0 .. gen]
      /\ sentOpen \in [Docs -> BOOLEAN] /\ wire \in Seq(Message) /\ stale \subseteq Docs
      /\ isOpen \in [Docs -> BOOLEAN] /\ timer \in [Docs -> BOOLEAN]
      /\ text \in [Docs -> Texts] /\ version \in [Docs -> Nat]
      /\ srvOpen \subseteq Docs /\ srvVersion \in [Docs -> Nat] /\ srvText \in [Docs -> Texts]
      /\ cstate \in {"NONE", "STARTING", "READY", "STOPPED"} /\ missing \in BOOLEAN
  BY DEF Inv, TypeOK
<1>2. /\ \A e \in Docs : docClient[e] \in {0, gen} /\ (timer[e] => isOpen[e])
      /\ inflight # NoPopover => inflight.client = gen /\ Alive
      /\ \A e \in Docs : sentOpen[e] => isOpen[e] /\ docClient[e] = gen /\ Alive
      /\ Alive /\ ~(gen > 1) => \A e \in Docs : docClient[e] # 0 => sentOpen[e]
      /\ Alive => gen # 0
      /\ ~Alive => wire = <<>>
  BY DEF Inv, Lifetime, NoDanglingClient
<1>3. m \in Message /\ m.kind = "open" /\ m.doc = d /\ m.version = v /\ m.text = text[d]
  BY MsgType DEF Inv
<1>4. \A e \in Docs : isOpen[e] => isOpen'[e]
  BY <1>1
<1>5. isOpen'[d]
  BY <1>1
<1> HIDE DEF m
<1>6. PICK c \in 0 .. gen + 1 :
        /\ ClientRuns(c) \/ ClientRefused(c) \/ NotInstalled(c) \/ ClientReplaced(c)
        /\ OpenWith(d, c, v)
        /\ NewServer
  BY DEF GetClient
<1>7. /\ \A e \in Docs : sentOpen'[e] <=> IF e = d THEN c # 0
                                        ELSE sentOpen[e] /\ ~(gen' # gen /\ docClient[e] = gen)
      /\ sentOpen' \in [Docs -> BOOLEAN]
      /\ wire' = IF c # 0 THEN Append(wire, m) ELSE wire
      /\ stale' = IF c # 0 THEN stale \ {d} ELSE stale
  BY <1>1, <1>6 DEF OpenWith, m
<1>8. /\ \A e \in Docs \ {d} : docClient'[e] = IF gen' # gen THEN Repoint(e) ELSE docClient[e]
      /\ docClient'[d] = IF c # 0 THEN c
                         ELSE IF isOpen[d]
                              THEN (IF gen' # gen THEN Repoint(d) ELSE docClient[d]) ELSE 0
      /\ docClient' = [e \in Docs |-> docClient'[e]]
  BY <1>6 DEF OpenWith
<1>9. CASE ClientRuns(c)
  <2>1. Alive /\ c = gen /\ gen' = gen /\ cstate' = cstate /\ missing' = missing /\ gen # 0
    BY <1>2, <1>9 DEF ClientRuns, clientVars
  <2>2. UNCHANGED <<srvOpen, srvVersion, srvText>>
    BY <1>6, <2>1 DEF NewServer
  <2>3. \A e \in Docs : docClient'[e] = IF e = d THEN gen ELSE docClient[e]
    BY <1>8, <2>1
  <2>4. docClient' \in [Docs -> 0 .. gen']
    BY <1>1, <1>8, <2>1, <2>3
  <2>5. wire' = Append(wire, m) /\ wire' \in Seq(Message) /\ stale' = stale \ {d}
    BY <1>1, <1>3, <1>7, <2>1, AppendProperties
  <2>6. \A e \in Docs : sentOpen'[e] <=> e = d \/ sentOpen[e]
    BY <1>7, <2>1
  <2>7. Alive'
    BY <2>1 DEF Alive
  <2>8. Lifetime'
    BY <1>1, <1>2, <1>4, <1>5, <2>1, <2>3, <2>6, <2>7 DEF Lifetime, NoDanglingClient
  <2>9. Conversation'
    <3>1. ServerSide' = ServerSide /\ text' = text
      BY <2>1, <2>2 DEF ServerSide
    <3>2. Agrees(wire, ServerSide, Served, Fresh, version, text)
      BY <2>1 DEF Inv, Conversation
    <3>3. d \in Served' /\ \A e \in Docs \ {d} : e \in Served' <=> e \in Served
      BY <2>6 DEF Served
    <3>4. \A e \in Docs \ {d} : e \in Fresh' => e \in Fresh
      BY <1>1, <2>5 DEF Fresh
    <3>5. Keeps(Docs \ {d}, Served, Fresh, version, text, Served', Fresh', version', text')
      BY <3>1, <3>3, <3>4 DEF Keeps
    <3>6. Agrees(Append(wire, m), ServerSide, Served', Fresh', version', text')
      BY <1>1, <1>3, <3>1, <3>2, <3>3, <3>5, Sends
    <3> QED
      BY <2>5, <3>1, <3>6 DEF Conversation
  <2> QED
    BY <1>1, <1>7, <2>1, <2>2, <2>4, <2>5, <2>8, <2>9
<1>10. CASE ClientRefused(c) \/ NotInstalled(c)
  <2>1. ~Alive /\ c = 0 /\ gen' = gen /\ cstate' = cstate /\ missing' \in BOOLEAN
    BY <1>1, <1>10 DEF ClientRefused, NotInstalled, clientVars
  <2>2. UNCHANGED <<srvOpen, srvVersion, srvText>>
    BY <1>6, <2>1 DEF NewServer
  <2>3. \A e \in Docs : docClient'[e] \in {docClient[e], 0}
    BY <1>8, <2>1
  <2>4. docClient' \in [Docs -> 0 .. gen']
    <3>1. 0 \in 0 .. gen /\ gen' = gen /\ \A e \in Docs : docClient[e] \in 0 .. gen
      BY <1>1, <2>1 DEF Bounded
    <3>2. \A e \in Docs : docClient'[e] \in 0 .. gen'
      BY <2>3, <3>1
    <3> QED
      BY <1>8, <3>2
  <2>5. wire' = wire /\ stale' = stale /\ ~Alive'
    BY <1>7, <2>1 DEF Alive
  <2>6. \A e \in Docs : ~sentOpen'[e]
    BY <1>2, <1>7, <2>1
  <2>7. Lifetime'
    BY <1>1, <1>2, <1>4, <2>1, <2>3, <2>5, <2>6 DEF Lifetime, NoDanglingClient
  <2> QED
    BY <1>1, <1>7, <2>1, <2>2, <2>4, <2>5, <2>7 DEF Conversation
<1>11. CASE ClientReplaced(c)
  <2>1. /\ ~Alive /\ ~(gen > RestartLimit) /\ gen' = gen + 1 /\ missing' \in BOOLEAN
        /\ \/ cstate' = "STARTING" /\ c = gen + 1
           \/ cstate' = "STOPPED" /\ c = 0
    BY <1>1, <1>11 DEF ClientReplaced, Refused
  <2>2. gen' # gen /\ gen' # 0 /\ gen' \in 0 .. RestartLimit + 1 /\ gen <= gen'
    BY <1>1, <2>1 DEF Bounded
  <2>3. /\ srvOpen' = {} /\ srvVersion' \in [Docs -> Nat] /\ srvText' \in [Docs -> Texts]
    BY <1>6, <2>2 DEF NewServer, Texts, Bounded
  <2>4. \A e \in Docs : docClient'[e] \in {0, gen'}
    <3>1. \A e \in Docs : Repoint(e) \in {0, gen'}
      BY <1>2, <2>1 DEF Repoint
    <3> QED
      BY <1>8, <2>1, <2>2, <3>1
  <2>5. docClient' \in [Docs -> 0 .. gen']
    BY <1>8, <2>2, <2>4
  <2>6. wire = <<>> /\ inflight = NoPopover /\ \A e \in Docs : ~sentOpen[e]
    BY <1>2, <2>1
  <2>7. \A e \in Docs : sentOpen'[e] <=> e = d /\ c # 0
    BY <1>7, <2>6
  <2>8. c # 0 => docClient'[d] = gen'
    BY <1>8, <2>1
  <2>9. CASE c # 0
    <3>1. Alive' /\ wire' = <<m>> /\ wire' \in Seq(Message) /\ stale' = stale \ {d}
      BY <1>1, <1>3, <1>7, <2>1, <2>6, <2>9, AppendProperties DEF Alive
    <3>4. ~(gen' > 1) => \A e \in Docs : docClient'[e] # 0 => sentOpen'[e]
      <4> SUFFICES ASSUME ~(gen' > 1), NEW e \in Docs \ {d} PROVE docClient'[e] = 0
        BY <2>7, <2>9
      <4>1. gen = 0
        BY <1>1, <2>1 DEF Bounded
      <4> QED
        BY <1>2, <1>8, <4>1 DEF Repoint
    <3>2. Lifetime'
      BY <1>2, <1>4, <1>5, <2>2, <2>4, <2>6, <2>7, <2>8, <3>1, <3>4 DEF Lifetime, NoDanglingClient
    <3>3. Conversation'
      <4>1. Served' = {d}
        BY <2>7, <2>9 DEF Served
      <4>2. (ServerSide').open = {}
        BY <2>3 DEF ServerSide
      <4>3. version'[m.doc] = m.version /\ text'[m.doc] = m.text /\ Served' = {m.doc}
        BY <1>3, <4>1
      <4>4. Agrees(<<m>>, ServerSide', Served', Fresh', version', text')
        BY <1>3, <4>2, <4>3, FirstOpen
      <4> QED
        BY <3>1, <4>4 DEF Conversation
    <3> QED
      BY <1>1, <1>7, <2>1, <2>2, <2>3, <2>5, <3>1, <3>2, <3>3
  <2>10. CASE c = 0
    <3>1. ~Alive' /\ wire' = <<>> /\ wire' \in Seq(Message) /\ stale' = stale
      BY <1>1, <1>7, <2>1, <2>2, <2>6, <2>10 DEF Alive
    <3>2. \A e \in Docs : ~sentOpen'[e]
      BY <2>7, <2>10
    <3>3. Lifetime'
      BY <1>2, <1>4, <2>4, <2>6, <3>1, <3>2 DEF Lifetime, NoDanglingClient
    <3>4. cstate' = "STOPPED"
      BY <2>1, <2>2, <2>10
    <3> QED
      BY <1>1, <1>7, <2>1, <2>2, <2>3, <2>5, <3>1, <3>3, <3>4 DEF Conversation
  <2> QED
    BY <2>9, <2>10
<1> QED
  BY <1>6, <1>9, <1>10, <1>11

-----------------------------------------------------------------------------
(* Initially no server is there to agree with. *)
LEMMA InvInit == Init /\ Bounded => Inv
<1> SUFFICES ASSUME Init, Bounded PROVE Inv
  OBVIOUS
<1>1. ~Alive /\ wire = <<>> /\ wire \in Seq(Message) /\ answers \in Seq(Message)
  BY DEF Init, Alive
<1>2. TypeOK
  <2>1. /\ 0 \in Nat /\ 0 \in 0 .. 0 /\ 0 \in Texts /\ 0 \in 0 .. MaxEdits /\ 0 \in 0 .. MaxOps
        /\ 0 \in 0 .. RestartLimit + 1
    BY DEF Texts, Bounded
  <2>2. /\ isOpen \in [Docs -> BOOLEAN] /\ sentOpen \in [Docs -> BOOLEAN]
        /\ timer \in [Docs -> BOOLEAN] /\ version \in [Docs -> Nat]
        /\ docClient \in [Docs -> 0 .. gen] /\ text \in [Docs -> Texts]
        /\ srvVersion \in [Docs -> Nat] /\ srvText \in [Docs -> Texts]
    BY <2>1 DEF Init
  <2>3. inflight \in [client : 0 .. gen, id : 0 .. MaxOps]
    BY <2>1 DEF Init, NoPopover
  <2>4. /\ gen \in 0 .. RestartLimit + 1 /\ edits \in 0 .. MaxEdits /\ ops \in 0 .. MaxOps
        /\ active \in Docs \cup {0} /\ srvOpen \subseteq Docs /\ stale \subseteq Docs
        /\ confused \in BOOLEAN /\ missing \in BOOLEAN
    BY <2>1 DEF Init
  <2>5. cstate \in {"NONE", "STARTING", "READY", "STOPPED"}
    BY DEF Init
  <2> QED
    BY <1>1, <2>2, <2>3, <2>4, <2>5 DEF TypeOK
<1>3. Lifetime
  BY <1>1 DEF Init, Lifetime, NoDanglingClient
<1> QED
  BY <1>1, <1>2, <1>3 DEF Inv, Conversation, Init, ServerFollows

(* notify_open of a buffer that was not open. *)
LEMMA OpenKeeps ==
  ASSUME Inv, Bounded, NEW d \in Docs, Open(d)
  PROVE  Inv'
<1>1. d \notin Served
  BY ServedIs DEF Open
<1>2. /\ version' \in [Docs -> Nat] /\ version'[d] = 1 /\ isOpen' \in [Docs -> BOOLEAN]
      /\ \A e \in Docs \ {d} : version'[e] = version[e]
      /\ ops' \in 0 .. MaxOps
  BY DEF Open, Inv, TypeOK, Bounded
<1>3. UNCHANGED <<timer, inflight, text, edits, answers, confused>> /\ active' = d
      /\ GetClient(d, 1) /\ isOpen' = [isOpen EXCEPT ![d] = TRUE]
  BY DEF Open
<1>4. /\ docClient' \in [Docs -> 0 .. gen'] /\ sentOpen' \in [Docs -> BOOLEAN]
      /\ gen' \in 0 .. RestartLimit + 1 /\ gen <= gen'
      /\ cstate' \in {"NONE", "STARTING", "READY", "STOPPED"} /\ missing' \in BOOLEAN
      /\ wire' \in Seq(Message) /\ stale' \subseteq Docs
      /\ srvOpen' \subseteq Docs /\ srvVersion' \in [Docs -> Nat]
      /\ srvText' \in [Docs -> Texts]
      /\ Lifetime' /\ Conversation'
  BY <1>1, <1>2, <1>3, ClientGot
<1>5. inflight' \in [client : 0 .. gen', id : 0 .. MaxOps]
  BY <1>3, <1>4 DEF Inv, TypeOK, Bounded
<1> QED
  BY <1>2, <1>3, <1>4, <1>5 DEF Inv, TypeOK, ServerFollows

(* notify_open of a document that is open. *)
LEMMA VisitKeeps ==
  ASSUME Inv, Bounded, NEW d \in Docs, Visit(d)
  PROVE  Inv'
<1>1. /\ UNCHANGED <<timer, inflight, text, edits, answers, confused, isOpen, version>>
      /\ active' = d /\ isOpen[d]
  BY DEF Visit
<1>2. version \in [Docs -> Nat] /\ isOpen \in [Docs -> BOOLEAN] /\ ops' \in 0 .. MaxOps
  BY DEF Visit, Inv, TypeOK, Bounded
<1>3. CASE docClient[d] # 0 /\ cstate = "STOPPED"
  <2>1. d \notin Served
    BY <1>3, ServedIs DEF Alive
  <2>2. GetClient(d, version[d])
    BY <1>3 DEF Visit
  <2>3. isOpen' = [isOpen EXCEPT ![d] = TRUE]
    BY <1>1, <1>2
  <2>4. /\ version' \in [Docs -> Nat] /\ version'[d] = version[d] /\ version[d] \in Nat
        /\ \A e \in Docs \ {d} : version'[e] = version[e]
    BY <1>1, <1>2
  <2>5. /\ docClient' \in [Docs -> 0 .. gen'] /\ sentOpen' \in [Docs -> BOOLEAN]
        /\ gen' \in 0 .. RestartLimit + 1 /\ gen <= gen'
        /\ cstate' \in {"NONE", "STARTING", "READY", "STOPPED"} /\ missing' \in BOOLEAN
        /\ wire' \in Seq(Message) /\ stale' \subseteq Docs
        /\ srvOpen' \subseteq Docs /\ srvVersion' \in [Docs -> Nat]
        /\ srvText' \in [Docs -> Texts]
        /\ Lifetime' /\ Conversation'
    BY <1>1, <2>1, <2>2, <2>3, <2>4, ClientGot
  <2>6. inflight' \in [client : 0 .. gen', id : 0 .. MaxOps]
    BY <1>1, <2>5 DEF Inv, TypeOK, Bounded
  <2> QED
    BY <1>1, <1>2, <2>5, <2>6 DEF Inv, TypeOK, ServerFollows
<1>4. CASE ~(docClient[d] # 0 /\ cstate = "STOPPED")
  <2>1. UNCHANGED <<docClient, sentOpen, wire, stale, gen, cstate, missing, srvOpen, srvVersion,
                    srvText>>
    BY <1>4 DEF Visit, clientVars
  <2>2. ServerSide' = ServerSide /\ Served' = Served /\ Fresh' = Fresh /\ (Alive' <=> Alive)
    BY <1>1, <2>1 DEF ServerSide, Served, Fresh, Alive
  <2>3. Conversation'
    BY <1>1, <2>1, <2>2 DEF Inv, Conversation
  <2>4. Lifetime'
    BY <1>1, <2>1, <2>2 DEF Inv, Lifetime, NoDanglingClient
  <2> QED
    BY <1>1, <1>2, <2>1, <2>3, <2>4 DEF Inv, TypeOK, ServerFollows
<1> QED
  BY <1>3, <1>4

(* An edit somebody reports, or not. *)
LEMMA EditKeeps ==
  ASSUME Inv, Bounded, NEW d \in Docs,
         edits < MaxEdits, edits' = edits + 1, text' = [text EXCEPT ![d] = edits + 1],
         isOpen[d],
         \/ RestartTimer(d) /\ stale' = stale
         \/ timer' = timer /\ stale' = stale \cup {d},
         UNCHANGED <<isOpen, docClient, version, sentOpen, active, gen, cstate, missing, inflight,
                     ops, wire, srvOpen, srvVersion, srvText, confused>>,
         answers' \in Seq(Message)
  PROVE  Inv'
<1>1. /\ stale \subseteq Docs /\ timer \in [Docs -> BOOLEAN] /\ text \in [Docs -> Texts]
      /\ edits \in 0 .. MaxEdits
  BY DEF Inv, TypeOK
<1>2. /\ edits' \in 0 .. MaxEdits /\ text' \in [Docs -> Texts] /\ stale' \subseteq Docs
      /\ \A e \in Docs \ {d} : text'[e] = text[e]
  BY <1>1 DEF Texts, Bounded
<1>3. docClient[d] # 0 /\ sentOpen[d] <=> d \in Served
  BY ServedIs DEF Served
<1>4. /\ timer' \in [Docs -> BOOLEAN] /\ \A e \in Docs \ {d} : timer'[e] = timer[e]
      /\ d \in Served => d \notin Fresh'
  BY <1>1, <1>3 DEF RestartTimer, Fresh
<1>5. ServerSide' = ServerSide /\ Served' = Served /\ (Alive' <=> Alive)
  BY DEF ServerSide, Served, Alive
<1>6. \A e \in Docs \ {d} : e \in Fresh' => e \in Fresh
  BY <1>4 DEF Fresh
<1>7. Keeps(Docs, Served, Fresh, version, text, Served', Fresh', version', text')
  BY <1>2, <1>4, <1>5, <1>6 DEF Keeps
<1>8. Conversation'
  BY <1>5, <1>7, SaysNothing DEF Inv, srvVars
<1>9. Lifetime'
  BY <1>4, <1>5 DEF Inv, Lifetime, NoDanglingClient
<1> QED
  BY <1>1, <1>2, <1>4, <1>8, <1>9 DEF Inv, TypeOK, ServerFollows

(* The callers of doc_send_change_now. *)
LEMMA BumpKeeps ==
  ASSUME Inv, Bounded, NEW d \in Docs, NEW extra, Bump(d, extra),
         timer' = [timer EXCEPT ![d] = FALSE],
         \/ extra = <<>>
         \/ /\ Alive
            /\ \E m \in Message :
                 /\ extra = <<m>> /\ m.doc = d /\ m.text = text[d]
                 /\ \/ m.kind = "format" /\ docClient[d] # 0
                    \/ m.kind \in {"save", "hover"} /\ d \in Served,
         UNCHANGED <<isOpen, docClient, sentOpen, active, gen, cstate, missing, text, edits,
                     answers, srvOpen, srvVersion, srvText, confused>>,
         ops' \in 0 .. MaxOps, inflight' \in [client : 0 .. gen, id : 0 .. MaxOps],
         inflight' # NoPopover => inflight'.client = gen /\ Alive
  PROVE  Inv'
<1>1. /\ wire' \in Seq(Message) /\ version' \in [Docs -> Nat] /\ stale' \subseteq Docs
      /\ Conversation' /\ (~Alive' => wire' = <<>>)
  BY Bumps DEF srvVars
<1>2. timer' \in [Docs -> BOOLEAN] /\ \A e \in Docs : timer'[e] => timer[e]
  BY DEF Inv, TypeOK
<1>3. Lifetime'
  <2>1. Alive' <=> Alive
    BY DEF Alive
  <2> QED
    BY <1>1, <1>2, <2>1 DEF Inv, Lifetime, NoDanglingClient
<1> QED
  BY <1>1, <1>2, <1>3 DEF Inv, TypeOK, ServerFollows

(* What sends the pending change first: save, hover, format, the timer. *)
LEMMA SendKeeps ==
  ASSUME Inv, Bounded, NEW d \in Docs, Save(d) \/ Hover(d) \/ Format(d) \/ ChangeTimer(d)
  PROVE  Inv'
<1>1. /\ inflight \in [client : 0 .. gen, id : 0 .. MaxOps] /\ ops \in 0 .. MaxOps
      /\ inflight # NoPopover => inflight.client = gen /\ Alive
      /\ docClient \in [Docs -> 0 .. gen] /\ gen \in Nat
  BY DEF Inv, TypeOK, Lifetime, NoDanglingClient, Bounded
<1>2. /\ \A kind \in {"save", "hover", "format"}, v \in Nat :
           /\ Msg(kind, d, v) \in Message /\ Msg(kind, d, v).kind = kind
           /\ Msg(kind, d, v).doc = d /\ Msg(kind, d, v).text = text[d]
      /\ 0 \in Nat
  BY MsgType DEF Inv
<1>3. sentOpen[d] => d \in Served /\ Alive /\ docClient[d] = gen
  BY ServedIs DEF Served
<1>4. CASE ChangeTimer(d)
  <2>1. /\ timer' = [timer EXCEPT ![d] = FALSE] /\ Bump(d, <<>>)
        /\ UNCHANGED <<isOpen, docClient, sentOpen, active, gen, cstate, missing, text, edits,
                       answers, srvOpen, srvVersion, srvText, confused, ops, inflight>>
    BY <1>4 DEF ChangeTimer, clientVars, srvVars
  <2> QED
    BY <1>1, <2>1, BumpKeeps
<1>5. CASE Save(d)
  <2>1. /\ timer' = [timer EXCEPT ![d] = FALSE] /\ Bump(d, <<Msg("save", d, 0)>>)
        /\ UNCHANGED <<isOpen, docClient, sentOpen, active, gen, cstate, missing, text, edits,
                       answers, srvOpen, srvVersion, srvText, confused, inflight>>
        /\ ops < MaxOps /\ ops' = ops + 1 /\ sentOpen[d]
    BY <1>5 DEF Save, clientVars, srvVars
  <2>2. ops' \in 0 .. MaxOps
    BY <1>1, <2>1 DEF Bounded
  <2> QED
    BY <1>1, <1>2, <1>3, <2>1, <2>2, BumpKeeps
<1>6. CASE Format(d)
  <2>1. /\ timer' = [timer EXCEPT ![d] = FALSE] /\ Bump(d, <<Msg("format", d, 0)>>)
        /\ UNCHANGED <<isOpen, docClient, sentOpen, active, gen, cstate, missing, text, edits,
                       answers, srvOpen, srvVersion, srvText, confused, inflight>>
        /\ ops < MaxOps /\ ops' = ops + 1 /\ Alive /\ docClient[d] # 0
    BY <1>6 DEF Format, clientVars, srvVars, Alive
  <2>2. ops' \in 0 .. MaxOps
    BY <1>1, <2>1 DEF Bounded
  <2> QED
    BY <1>1, <1>2, <2>1, <2>2, BumpKeeps
<1>7. CASE Hover(d)
  <2>1. /\ UNCHANGED <<isOpen, docClient, sentOpen, active, gen, cstate, missing, text, edits,
                       answers, srvOpen, srvVersion, srvText, confused>>
        /\ ops < MaxOps /\ ops' = ops + 1
    BY <1>7 DEF Hover, clientVars, srvVars
  <2>2. ops' \in 0 .. MaxOps /\ ops' \in Nat
    BY <1>1, <2>1 DEF Bounded
  <2>3. CASE docClient[d] # 0 /\ sentOpen[d] /\ Alive
    <3>1. /\ timer' = [timer EXCEPT ![d] = FALSE] /\ Bump(d, <<Msg("hover", d, ops')>>)
          /\ inflight' = [client |-> docClient[d], id |-> ops']
      BY <1>7, <2>3 DEF Hover
    <3>2. /\ inflight' \in [client : 0 .. gen, id : 0 .. MaxOps]
          /\ inflight'.client = gen
      BY <1>1, <1>3, <2>2, <2>3, <3>1
    <3> QED
      BY <1>2, <1>3, <2>1, <2>2, <2>3, <3>1, <3>2, BumpKeeps
  <2>4. CASE ~(docClient[d] # 0 /\ sentOpen[d] /\ Alive)
    <3>1. inflight' = NoPopover /\ UNCHANGED <<timer, version, wire, stale>>
      BY <1>7, <2>4 DEF Hover
    <3>2. ServerSide' = ServerSide /\ Served' = Served /\ Fresh' = Fresh /\ (Alive' <=> Alive)
      BY <2>1, <3>1 DEF ServerSide, Served, Fresh, Alive
    <3>3. Conversation' /\ Lifetime'
      BY <2>1, <3>1, <3>2 DEF Inv, Conversation, Lifetime, NoDanglingClient
    <3>4. inflight' \in [client : 0 .. gen', id : 0 .. MaxOps]
      BY <1>1, <2>1, <3>1 DEF NoPopover, Bounded
    <3> QED
      BY <2>1, <2>2, <3>1, <3>3, <3>4 DEF Inv, TypeOK, ServerFollows
  <2> QED
    BY <2>3, <2>4
<1> QED
  BY <1>4, <1>5, <1>6, <1>7

(* notify_close. *)
LEMMA CloseKeeps ==
  ASSUME Inv, Bounded, NEW d \in Docs, Close(d)
  PROVE  Inv'
<1> DEFINE m == Msg("close", d, 0)
<1>1. /\ isOpen' = [isOpen EXCEPT ![d] = FALSE] /\ docClient' = [docClient EXCEPT ![d] = 0]
      /\ version' = [version EXCEPT ![d] = 0] /\ sentOpen' = [sentOpen EXCEPT ![d] = FALSE]
      /\ timer' = [timer EXCEPT ![d] = FALSE] /\ stale' = stale \ {d}
      /\ active' \in {0, active} /\ inflight' = NoPopover
      /\ ops < MaxOps /\ ops' = ops + 1
      /\ UNCHANGED <<gen, cstate, missing, text, edits, answers, srvOpen, srvVersion, srvText,
                     confused>>
  BY DEF Close, clientVars, srvVars
<1>2. wire \in Seq(Message) /\ timer \in [Docs -> BOOLEAN] /\ sentOpen \in [Docs -> BOOLEAN]
      /\ isOpen \in [Docs -> BOOLEAN] /\ version \in [Docs -> Nat]
      /\ docClient \in [Docs -> 0 .. gen]
      /\ gen \in Nat /\ ops \in 0 .. MaxOps /\ active \in Docs \cup {0}
  BY DEF Inv, TypeOK, Bounded
<1>3. m \in Message /\ m.kind = "close" /\ m.doc = d
  BY MsgType DEF Inv
<1> HIDE DEF m
<1>4. wire' = IF docClient[d] # 0 /\ sentOpen[d] /\ Alive THEN Append(wire, m) ELSE wire
  BY DEF Close, m
<1>5. docClient[d] # 0 /\ sentOpen[d] /\ Alive <=> d \in Served
  BY ServedIs DEF Served
<1>6. /\ ServerSide' = ServerSide /\ (Alive' <=> Alive)
      /\ d \notin Served' /\ \A e \in Docs \ {d} : e \in Served' <=> e \in Served
      /\ \A e \in Docs \ {d} : version'[e] = version[e] /\ (e \in Fresh' => e \in Fresh)
  BY <1>1, <1>2 DEF ServerSide, Alive, Served, Fresh
<1>7. Keeps(Docs \ {d}, Served, Fresh, version, text, Served', Fresh', version', text')
  BY <1>1, <1>6 DEF Keeps
<1>8. wire' \in Seq(Message) /\ Conversation' /\ (~Alive' => wire' = <<>>)
  <2>1. CASE d \in Served
    <3>1. wire' = Append(wire, m) /\ wire' \in Seq(Message) /\ Alive
      BY <1>2, <1>3, <1>4, <1>5, <2>1, AppendProperties
    <3>2. Agrees(wire, ServerSide, Served, Fresh, version, text)
      BY <3>1 DEF Inv, Conversation
    <3>3. Agrees(Append(wire, m), ServerSide, Served', Fresh', version', text')
      BY <1>2, <1>3, <1>6, <1>7, <2>1, <3>2, Sends
    <3> QED
      BY <1>6, <3>1, <3>3 DEF Conversation
  <2>2. CASE d \notin Served
    <3>1. wire' = wire
      BY <1>4, <1>5, <2>2
    <3>2. Keeps(Docs, Served, Fresh, version, text, Served', Fresh', version', text')
      BY <1>6, <1>7, <2>2 DEF Keeps
    <3>3. Conversation'
      BY <1>1, <1>6, <3>1, <3>2, SaysNothing DEF Inv, srvVars
    <3> QED
      BY <1>2, <1>6, <3>1, <3>3 DEF Inv, Lifetime
  <2> QED
    BY <2>1, <2>2
<1>9. /\ isOpen' \in [Docs -> BOOLEAN] /\ docClient' \in [Docs -> 0 .. gen]
      /\ version' \in [Docs -> Nat] /\ sentOpen' \in [Docs -> BOOLEAN]
      /\ timer' \in [Docs -> BOOLEAN] /\ ops' \in 0 .. MaxOps /\ active' \in Docs \cup {0}
      /\ inflight' \in [client : 0 .. gen, id : 0 .. MaxOps]
  BY <1>1, <1>2 DEF NoPopover, Bounded
<1>10. Lifetime'
  BY <1>1, <1>2, <1>6, <1>8 DEF Inv, Lifetime, NoDanglingClient
<1> QED
  BY <1>1, <1>8, <1>9, <1>10 DEF Inv, TypeOK, ServerFollows

(* The server dies: everything it was told is gone with it. *)
LEMMA DiesKeeps == Inv /\ Bounded /\ ServerDies => Inv'
<1> SUFFICES ASSUME Inv, Bounded, ServerDies PROVE Inv'
  OBVIOUS
<1>1. /\ sentOpen' = [e \in Docs |-> sentOpen[e] /\ docClient[e] # gen]
      /\ inflight' = NoPopover /\ wire' = <<>> /\ answers' = <<>> /\ ~Alive'
      /\ cstate' = "STOPPED" /\ Alive
      /\ UNCHANGED <<isOpen, docClient, version, timer, active, gen, missing, text, edits, ops,
                     srvOpen, srvVersion, srvText, confused, stale>>
  BY DEF ServerDies, Alive, srvVars
<1>2. \A e \in Docs : ~sentOpen'[e]
  BY <1>1 DEF Inv, Lifetime, NoDanglingClient
<1>3. /\ wire' \in Seq(Message) /\ answers' \in Seq(Message) /\ sentOpen' \in [Docs -> BOOLEAN]
      /\ cstate' \in {"NONE", "STARTING", "READY", "STOPPED"}
  BY <1>1
<1>4. inflight' \in [client : 0 .. gen', id : 0 .. MaxOps]
  <2>1. 0 \in 0 .. gen' /\ 0 \in 0 .. MaxOps
    BY <1>1 DEF Inv, TypeOK, Bounded
  <2> QED
    BY <1>1, <2>1 DEF NoPopover
<1>5. Lifetime'
  BY <1>1, <1>2 DEF Inv, Lifetime, NoDanglingClient
<1>6. Conversation' /\ ServerFollows'
  BY <1>1 DEF Inv, Conversation, ServerFollows
<1> QED
  BY <1>1, <1>3, <1>4, <1>5, <1>6 DEF Inv, TypeOK

(* The server is ready: what is on the wire stays. *)
LEMMA ReadyKeeps == Inv /\ ServerReady => Inv'
<1> SUFFICES ASSUME Inv, ServerReady PROVE Inv'
  OBVIOUS
<1>1. /\ cstate' \in {"NONE", "STARTING", "READY", "STOPPED"} /\ Alive /\ Alive'
      /\ UNCHANGED <<isOpen, docClient, version, sentOpen, timer, active, gen, missing, inflight,
                     text, edits, ops, wire, answers, srvOpen, srvVersion, srvText, confused,
                     stale>>
  BY DEF ServerReady, docVars, srvVars, Alive
<1>2. Conversation' /\ Lifetime' /\ ServerFollows'
  <2>1. ServerSide' = ServerSide /\ Served' = Served /\ Fresh' = Fresh
    BY <1>1 DEF ServerSide, Served, Fresh
  <2> QED
    BY <1>1, <2>1 DEF Inv, Conversation, Lifetime, NoDanglingClient, ServerFollows
<1> QED
  BY <1>1, <1>2 DEF Inv, TypeOK

(* What the manager knows of the server holds of the first message: it     *)
(* makes sense to the server, and speaks of the text the server has.       *)
LEMMA FirstFits ==
  ASSUME Inv, wire # <<>>
  PROVE  /\ Head(wire) \in Message /\ Tail(wire) \in Seq(Message)
         /\ MakesSense(Head(wire)) /\ AsksAboutCurrentText
<1> DEFINE m == Head(wire)
           s == ServerSide
<1>1. /\ wire \in Seq(Message) /\ Len(wire) \in Nat /\ 1 \in 1 .. Len(wire) /\ m = wire[1]
      /\ m \in Message /\ Tail(wire) \in Seq(Message) /\ 0 \in 0 .. 1 - 1
  BY HeadTailProperties, LenProperties DEF Inv, TypeOK
<1>2. /\ m.doc \in Docs
      /\ m.kind \in {"open", "change", "save", "close", "hover", "format"}
  BY <1>1 DEF Message
<1>3. Agrees(wire, s, Served, Fresh, version, text)
  BY DEF Inv, Conversation, Lifetime
<1>4. Fits(m, wire, s, 0, 1) /\ Formats(m, wire, s, 0, 0, 1)
  BY <1>1, <1>3 DEF Agrees, Sensible
<1> HIDE DEF m
<1>5. LastTold(wire, m.doc, 0, 1) /\ LastTurn(wire, m.doc, 0, 1)
  BY DEF LastTold, LastTurn, Tells, Turns
<1>6. /\ HasAt(wire, s, m.doc, 0) <=> m.doc \in srvOpen
      /\ VersionAt(wire, s, m.doc, 0) = srvVersion[m.doc]
      /\ TextAt(wire, s, m.doc, 0) = srvText[m.doc]
      /\ s.replaced <=> gen > 1
  BY DEF HasAt, VersionAt, TextAt, ServerSide
<1> HIDE DEF s
<1>7. /\ m.kind = "open" => m.doc \notin srvOpen
      /\ m.kind \in {"change", "save", "close", "hover"} => m.doc \in srvOpen
      /\ m.kind = "change" => m.version > srvVersion[m.doc]
      /\ m.kind \in {"save", "hover"} => m.text = srvText[m.doc]
      /\ m.kind = "format" => IF m.doc \in srvOpen THEN m.text = srvText[m.doc] ELSE gen > 1
  BY <1>4, <1>5, <1>6 DEF Fits, Formats
<1>8. MakesSense(m)
  BY <1>2, <1>7 DEF MakesSense
<1>9. AsksAboutCurrentText
  BY <1>7 DEF AsksAboutCurrentText, m
<1> QED
  BY <1>1, <1>8, <1>9 DEF m

(* The server reads the first message. *)
LEMMA ReadsKeeps == Inv /\ ServerReads => Inv'
<1> SUFFICES ASSUME Inv, ServerReads PROVE Inv'
  OBVIOUS
<1> DEFINE m == Head(wire)
<1>1. /\ wire # <<>> /\ wire' = Tail(wire)
      /\ confused' = (confused \/ ~MakesSense(m))
      /\ srvOpen' = IF m.kind = "open" THEN srvOpen \cup {m.doc}
                    ELSE IF m.kind = "close" THEN srvOpen \ {m.doc} ELSE srvOpen
      /\ srvVersion' = IF m.kind \in {"open", "change"}
                       THEN [srvVersion EXCEPT ![m.doc] = m.version] ELSE srvVersion
      /\ srvText' = IF m.kind \in {"open", "change"}
                    THEN [srvText EXCEPT ![m.doc] = m.text] ELSE srvText
      /\ answers' = IF m.kind \in {"hover", "format"} /\ m.doc \in srvOpen
                    THEN Append(answers, [m EXCEPT !.text = srvText[m.doc]]) ELSE answers
      /\ UNCHANGED <<isOpen, docClient, version, sentOpen, timer, active, gen, cstate, missing,
                     inflight, text, edits, ops, stale>>
  BY DEF ServerReads, docVars, clientVars
<1>2. /\ m \in Message /\ Tail(wire) \in Seq(Message) /\ MakesSense(m)
  BY <1>1, FirstFits
<1> HIDE DEF m
<1>3. /\ m.doc \in Docs /\ m.version \in Nat /\ m.text \in Texts
  BY <1>2 DEF Message
<1>4. /\ srvOpen \subseteq Docs /\ srvVersion \in [Docs -> Nat] /\ srvText \in [Docs -> Texts]
      /\ answers \in Seq(Message) /\ wire \in Seq(Message)
  BY DEF Inv, TypeOK
<1>5. /\ srvOpen' \subseteq Docs /\ srvVersion' \in [Docs -> Nat] /\ srvText' \in [Docs -> Texts]
  BY <1>1, <1>3, <1>4
<1>6. answers' \in Seq(Message)
  <2>1. [m EXCEPT !.text = srvText[m.doc]] \in Message
    BY <1>2, <1>3, <1>4 DEF Message
  <2> QED
    BY <1>1, <1>4, <2>1, AppendProperties
<1>7. /\ \A d \in Docs : d \in srvOpen' <=> IF m.doc = d /\ m.kind \in {"open", "close"}
                                            THEN m.kind = "open" ELSE d \in srvOpen
      /\ \A d \in Docs : srvVersion'[d] = IF m.doc = d /\ m.kind \in {"open", "change"}
                                          THEN m.version ELSE srvVersion[d]
      /\ \A d \in Docs : srvText'[d] = IF m.doc = d /\ m.kind \in {"open", "change"}
                                       THEN m.text ELSE srvText[d]
  <2>1. \A d \in Docs : d \in srvOpen' <=> IF m.doc = d /\ m.kind \in {"open", "close"}
                                           THEN m.kind = "open" ELSE d \in srvOpen
    BY <1>1
  <2>2. \A d \in Docs : srvVersion'[d] = IF m.doc = d /\ m.kind \in {"open", "change"}
                                         THEN m.version ELSE srvVersion[d]
    BY <1>1, <1>4
  <2>3. \A d \in Docs : srvText'[d] = IF m.doc = d /\ m.kind \in {"open", "change"}
                                      THEN m.text ELSE srvText[d]
    BY <1>1, <1>4
  <2> QED
    BY <2>1, <2>2, <2>3
<1>8. Agrees(wire, ServerSide, Served, Fresh, version, text) /\ Alive
  BY <1>1 DEF Inv, Conversation, Lifetime
<1>9. /\ (ServerSide').open = srvOpen' /\ (ServerSide').version = srvVersion'
      /\ (ServerSide').text = srvText'
      /\ ServerSide.open = srvOpen /\ ServerSide.version = srvVersion
      /\ ServerSide.text = srvText /\ ((ServerSide').replaced <=> ServerSide.replaced)
  BY <1>1 DEF ServerSide
<1>10. Agrees(Tail(wire), ServerSide', Served, Fresh, version, text)
  <2>1. m = Head(wire)
    BY DEF m
  <2>2. Having(ServerSide, ServerSide', m)
    BY <1>7, <1>9 DEF Having
  <2> QED
    BY <1>1, <1>4, <1>8, <2>1, <2>2, Reads
<1>11. Served' = Served /\ Fresh' = Fresh /\ Alive'
  BY <1>1, <1>8 DEF Served, Fresh, Alive
<1>12. Conversation'
  BY <1>1, <1>10, <1>11 DEF Conversation
<1>13. Lifetime'
  BY <1>1, <1>8, <1>11 DEF Inv, Lifetime, NoDanglingClient
<1>14. ServerFollows' /\ confused' \in BOOLEAN
  BY <1>1, <1>2 DEF Inv, ServerFollows
<1> QED
  BY <1>1, <1>2, <1>5, <1>6, <1>12, <1>13, <1>14 DEF Inv, TypeOK

(* The answers that change no text. *)
LEMMA QuietKeeps ==
  ASSUME Inv, answers' \in Seq(Message), inflight' \in {inflight, NoPopover},
         UNCHANGED <<isOpen, docClient, version, sentOpen, timer, active, gen, cstate, missing,
                     text, edits, ops, wire, srvOpen, srvVersion, srvText, confused, stale>>,
         Bounded
  PROVE  Inv'
<1>1. inflight' \in [client : 0 .. gen', id : 0 .. MaxOps]
  <2>1. NoPopover \in [client : 0 .. gen, id : 0 .. MaxOps]
    BY DEF NoPopover, Inv, TypeOK, Bounded
  <2> QED
    BY <2>1 DEF Inv, TypeOK
<1>2. Conversation' /\ Lifetime' /\ ServerFollows'
  <2>1. ServerSide' = ServerSide /\ Served' = Served /\ Fresh' = Fresh /\ (Alive' <=> Alive)
    BY DEF ServerSide, Served, Fresh, Alive
  <2> QED
    BY <2>1 DEF Inv, Conversation, Lifetime, NoDanglingClient, ServerFollows
<1> QED
  BY <1>1, <1>2 DEF Inv, TypeOK

(* Every step keeps the invariant. *)
LEMMA InvNext == Inv /\ Bounded /\ [Next]_vars => Inv'
<1> SUFFICES ASSUME Inv, Bounded, [Next]_vars PROVE Inv'
  OBVIOUS
<1>1. answers \in Seq(Message) /\ (answers # <<>> => Tail(answers) \in Seq(Message))
  BY HeadTailProperties DEF Inv, TypeOK
<1>2. ASSUME NEW d \in Docs, Edit(d) PROVE Inv'
  BY <1>1, <1>2, EditKeeps DEF Edit, clientVars, srvVars
<1>3. ASSUME NEW d \in Docs, SilentEdit(d) PROVE Inv'
  BY <1>1, <1>3, EditKeeps DEF SilentEdit, docVars, clientVars, srvVars
<1>4. CASE HoverAnswered
  BY <1>1, <1>4, QuietKeeps DEF HoverAnswered, EndPopover, docVars, clientVars, srvVars
<1>5. CASE FormatAnswered
  <2> DEFINE d == Head(answers).doc
  <2>1. /\ answers # <<>> /\ answers' = Tail(answers)
        /\ UNCHANGED <<isOpen, docClient, version, sentOpen, active, gen, cstate, missing, inflight,
                       ops, wire, srvOpen, srvVersion, srvText, confused, stale>>
        /\ \/ UNCHANGED <<text, edits, timer>>
           \/ /\ isOpen[d] /\ edits < MaxEdits
              /\ edits' = edits + 1
              /\ text' = [text EXCEPT ![d] = edits + 1]
              /\ RestartTimer(d)
    BY <1>5 DEF FormatAnswered, clientVars, srvVars
  <2>2. d \in Docs
    <3>1. Head(answers) \in Message
      BY <1>1, <2>1, HeadTailProperties
    <3> QED
      BY <3>1 DEF Message
  <2> HIDE DEF d
  <2>3. CASE UNCHANGED <<text, edits, timer>>
    BY <1>1, <2>1, <2>3, QuietKeeps
  <2>4. CASE ~UNCHANGED <<text, edits, timer>>
    BY <1>1, <2>1, <2>2, <2>4, EditKeeps
  <2> QED
    BY <2>3, <2>4
<1>6. CASE UNCHANGED vars
  BY <1>1, <1>6, QuietKeeps DEF vars, docVars, clientVars, srvVars
<1> QED
  BY <1>2, <1>3, <1>4, <1>5, <1>6, OpenKeeps, VisitKeeps, SendKeeps, CloseKeeps, DiesKeeps,
     ReadyKeeps, ReadsKeeps DEF Next, UserNext, LoopNext, ServerNext

(* With nothing on its way the server has what the manager last sent. *)
LEMMA InvInStep == Inv => InStep
<1> SUFFICES ASSUME Inv, NEW d \in Docs, sentOpen[d], ~timer[d], ~Behind(d), d \notin stale
             PROVE  d \in srvOpen /\ srvText[d] = text[d] /\ srvVersion[d] = version[d]
  BY DEF InStep
<1>1. d \in Served /\ d \in Fresh
  BY DEF Served, Fresh
<1>2. Agrees(wire, ServerSide, Served, Fresh, version, text)
  BY <1>1, ServedIs DEF Inv, Conversation
<1>3. wire \in Seq(Message) /\ Len(wire) \in Nat /\ DOMAIN wire = 1 .. Len(wire)
  BY LenProperties DEF Inv, TypeOK
<1>4. Knows(wire, ServerSide, d, 0, Served, Fresh, version, text)
  BY <1>2, <1>3 DEF Agrees
<1>5. \A k \in 0 + 1 .. (Len(wire) + 1) - 1 : k \in DOMAIN wire /\ k # 0
  BY <1>3
<1>6. \A k \in 0 + 1 .. (Len(wire) + 1) - 1 : ~Tells(wire, d, k) /\ ~Turns(wire, d, k)
  BY <1>5 DEF Behind, Tells, Turns
<1>7. LastTold(wire, d, 0, Len(wire) + 1) /\ LastTurn(wire, d, 0, Len(wire) + 1)
  BY <1>6 DEF LastTold, LastTurn, Tells, Turns
<1> QED
  BY <1>1, <1>4, <1>7 DEF Knows, HasAt, VersionAt, TextAt, ServerSide

(* A save, a hover or a format request reaches the server with the text it *)
(* has.                                                                    *)
LEMMA InvAsks == Inv => AsksAboutCurrentText
BY FirstFits DEF AsksAboutCurrentText

(* Whatever dies, is replaced, edited, saved, closed or asked in whatever  *)
(* order (ide_lsp.c: notify_open, notify_change, notify_save, notify_close,*)
(* doc_send_change_now, get_client, on_client_state): no document points at*)
(* a client that was freed, the server never meets a message that makes no *)
(* sense to it, has the buffer's text once nothing is on its way, and sees *)
(* a save, a hover or a format request with the text the user had -- but   *)
(* that a server in another's place may be asked to format a document it   *)
(* was not told of (request_format_with_options does not look at sent_open)*)
THEOREM ServerKeepsUp ==
  ASSUME RestartLimit \in Nat, MaxEdits \in Nat, MaxOps \in Nat
  PROVE  Spec => [](TypeOK /\ NoDanglingClient /\ ServerFollows /\ InStep /\ AsksAboutCurrentText)
<1>1. Bounded
  BY DEF Bounded
<1>2. Init => Inv
  BY <1>1, InvInit
<1>3. Inv /\ [Next]_vars => Inv'
  BY <1>1, InvNext
<1>4. Inv => TypeOK /\ NoDanglingClient /\ ServerFollows /\ InStep /\ AsksAboutCurrentText
  BY InvInStep, InvAsks DEF Inv, Lifetime
<1> QED
  BY <1>2, <1>3, <1>4, PTL DEF Spec
=============================================================================
