----------------------------- MODULE ShellProofs -----------------------------
(***************************************************************************)
(* The panel is held exactly by the popovers that are open, stays while it *)
(* is used and is on its way out when it is not.  Notifications are on the *)
(* screen, reported closed or silenced, and the widgets of every layout    *)
(* follow the daemon.  The shell and the style sheet follow the file that  *)
(* several programs write.  The shell has what niri has when it has read  *)
(* all that niri wrote.                                                    *)
(***************************************************************************)
EXTENDS PanelAutohide, ShellParts, SequenceTheorems, FiniteSetTheorems, NaturalsInduction,
        WellFoundedInduction, TLAPS

-----------------------------------------------------------------------------
(* The panel that hides itself.                                            *)

BarType == [state : States, pointer : BOOLEAN, timer : BOOLEAN, ticking : BOOLEAN,
            count : Nat, margin : Hidden \cup {0}, target : Hidden \cup {0}]

(* What StaysWhileUsed and WillHide say of a panel b.                      *)
Stays(b, on) ==
  /\ on /\ (b.pointer \/ b.count > 0) => Shown(b)
  /\ ~on => b.state = "VISIBLE" /\ ~b.timer
Moves(b) ==
  /\ b.ticking <=> b.state \in {"REVEALING", "HIDING"}
  /\ b.ticking => (b.target = 0 <=> b.state = "REVEALING")
  /\ ~b.ticking => (b.margin = 0 <=> b.state = "VISIBLE")
Hides(b, on) == on /\ ~b.pointer /\ b.count = 0 /\ Shown(b) => b.timer

Good(b, on) == b \in BarType /\ Stays(b, on) /\ Moves(b) /\ Hides(b, on)

Inv == TypeOK /\ LocksCounted /\ StaysWhileUsed /\ WillHide

LEMMA GoodIsInv ==
  TypeOK /\ StaysWhileUsed /\ WillHide <=> TypeOK /\ Good(bar, config.on)
BY DEF TypeOK, BarType, StaysWhileUsed, WillHide, Good, Stays, Moves, Hides

(* The operations on the panel keep it good.                               *)
LEMMA RevealGood ==
  ASSUME NEW b \in BarType, Moves(b)
  PROVE  /\ Reveal(b) \in BarType /\ Moves(Reveal(b)) /\ Shown(Reveal(b))
         /\ Reveal(b).pointer = b.pointer /\ Reveal(b).timer = b.timer
         /\ Reveal(b).count = b.count
BY DEF BarType, Moves, Reveal, Animate, Gone, Shown, States

LEMMA LockGood ==
  ASSUME NEW b \in BarType, Good(b, config.on), config.on \in BOOLEAN
  PROVE  Good(Lock(b), config.on) /\ Lock(b).count = b.count + 1
<1> DEFINE c == [b EXCEPT !.count = @ + 1]
           d == [c EXCEPT !.timer = FALSE]
<1>1. /\ c \in BarType /\ Moves(c) /\ c.count = b.count + 1
      /\ c.state = b.state /\ c.timer = b.timer /\ c.pointer = b.pointer
  BY DEF BarType, Good, Moves
<1>2. d \in BarType /\ Moves(d) /\ d.count = b.count + 1
  BY <1>1 DEF BarType, Moves
<1>3. CASE config.on
  <2>1. Lock(b) = Reveal(d)  BY <1>3 DEF Lock
  <2> HIDE DEF d, c
  <2> QED  BY <1>2, <1>3, <2>1, RevealGood DEF Good, Stays, Hides, BarType
<1>4. CASE ~config.on
  BY <1>1, <1>4 DEF Lock, Good, Stays, Hides, Shown, BarType
<1> QED  BY <1>3, <1>4

LEMMA UnlockGood ==
  ASSUME NEW b \in BarType, NEW on \in BOOLEAN, NEW n \in Nat, n <= b.count,
         Stays(b, on), Moves(b), n = 0 => Hides(b, on)
  PROVE  Good(Unlock(b, n, on), on) /\ Unlock(b, n, on).count = b.count - n
<1>1. CASE n = 0  BY <1>1 DEF Unlock, Good, BarType
<1>2. CASE n # 0 /\ b.count > n
  <2>1. Unlock(b, n, on) = [b EXCEPT !.count = @ - n]  BY <1>2 DEF Unlock
  <2> QED  BY <1>2, <2>1 DEF Good, Stays, Moves, Hides, Shown, BarType
<1> DEFINE t == b.timer \/ Shown(b)
           c == [b EXCEPT !.count = 0, !.pointer = FALSE, !.timer = t]
<1>3. CASE n # 0 /\ b.count = n /\ on
  <2>1. Unlock(b, n, on) = c  BY <1>3 DEF Unlock, BarType
  <2>2. t \in BOOLEAN /\ (Shown(b) => t)  BY DEF BarType
  <2> HIDE DEF t
  <2>3. /\ c \in BarType /\ c.count = 0 /\ c.state = b.state /\ c.pointer = FALSE
        /\ c.timer = t /\ c.ticking = b.ticking
        /\ c.target = b.target /\ c.margin = b.margin
    BY <2>2 DEF BarType
  <2> HIDE DEF c
  <2>4. Stays(c, on) /\ Hides(c, on)
    BY <1>3, <2>2, <2>3 DEF Stays, Hides, Shown
  <2>5. Moves(c)  BY <2>3 DEF Moves
  <2>6. b.count - n = 0  BY <1>3 DEF BarType
  <2> QED  BY <2>1, <2>3, <2>4, <2>5, <2>6 DEF Good
<1>4. CASE n # 0 /\ b.count = n /\ ~on
  <2>1. Unlock(b, n, on) = [b EXCEPT !.count = 0]  BY <1>4 DEF Unlock, BarType
  <2> QED  BY <1>4, <2>1 DEF Good, Stays, Moves, Hides, Shown, BarType
<1> QED  BY <1>1, <1>2, <1>3, <1>4 DEF BarType

LEMMA TouchRevealGood ==
  ASSUME NEW b \in BarType, Good(b, config.on), config.on \in BOOLEAN
  PROVE  Good(TouchReveal(b), config.on) /\ TouchReveal(b).count = b.count
<1> DEFINE c == [b EXCEPT !.pointer = FALSE, !.timer = (b.count = 0)]
<1>1. /\ c \in BarType /\ Moves(c) /\ c.count = b.count
      /\ c.pointer = FALSE /\ c.timer = (b.count = 0)
  BY DEF BarType, Good, Moves
<1>2. CASE config.on
  <2>1. TouchReveal(b) = Reveal(c)  BY <1>2 DEF TouchReveal
  <2> HIDE DEF c
  <2> QED  BY <1>1, <1>2, <2>1, RevealGood DEF Good, Stays, Hides, BarType
<1>3. CASE ~config.on  BY <1>3 DEF TouchReveal
<1> QED  BY <1>2, <1>3

LEMMA ForceHideGood ==
  ASSUME NEW b \in BarType, Good(b, config.on), config \in Config, PanelAssumption
  PROVE  Good(ForceHide(b), config.on) /\ ForceHide(b).count = b.count
<1> DEFINE q == [b EXCEPT !.pointer = FALSE, !.timer = FALSE]
<1>1. CASE ~config.on  BY <1>1 DEF ForceHide
<1>2. /\ q \in BarType /\ q.count = b.count /\ q.state = b.state /\ q.ticking = b.ticking
      /\ q.target = b.target /\ q.margin = b.margin /\ ~q.pointer /\ ~q.timer
  BY DEF BarType
<1>3. Moves(q)  BY <1>2 DEF Good, Moves
<1> HIDE DEF q
<1>4. CASE config.on /\ (b.count > 0 \/ ~Shown(b))
  <2>1. ForceHide(b) = q  BY <1>4 DEF ForceHide, q
  <2>2. Stays(q, config.on) /\ Hides(q, config.on)
    BY <1>2, <1>4 DEF Good, Stays, Hides, Shown, BarType
  <2> QED  BY <1>2, <1>3, <2>1, <2>2 DEF Good
<1>5. CASE config.on /\ ~(b.count > 0 \/ ~Shown(b))
  <2> DEFINE h == Animate(q, "HIDING", config.hidden)
  <2>1. ForceHide(b) = h  BY <1>5 DEF ForceHide, q
  <2>2. config.hidden \in Hidden /\ config.hidden # 0
    BY DEF PanelAssumption, Config
  <2>3. /\ h \in BarType /\ h.state = "HIDING" /\ h.ticking /\ h.target = config.hidden
        /\ h.count = b.count /\ ~h.pointer
    BY <1>2, <2>2 DEF Animate, BarType, States
  <2> HIDE DEF h
  <2>4. Stays(h, config.on) /\ Moves(h) /\ Hides(h, config.on)
    BY <1>5, <2>2, <2>3 DEF Stays, Moves, Hides, Shown, BarType
  <2> QED  BY <2>1, <2>3, <2>4 DEF Good
<1> QED  BY <1>1, <1>4, <1>5

LEMMA ReloadedGood ==
  ASSUME NEW b \in BarType, Good(b, config.on), config.on \in BOOLEAN,
         NEW c \in Config, PanelAssumption
  PROVE  /\ Reloaded(b, c) \in BarType /\ Stays(Reloaded(b, c), c.on)
         /\ Moves(Reloaded(b, c)) /\ Reloaded(b, c).count = b.count
         /\ b.count = 0 => Hides(Reloaded(b, c), c.on)
<1>1. CASE ~c.on
  BY <1>1 DEF PanelAssumption, Reloaded, Good, Stays, Moves, Hides, Shown, BarType,
              Config, States
<1>2. CASE c.on /\ b.state = "HIDDEN"
  BY <1>2 DEF PanelAssumption, Reloaded, Good, Stays, Moves, Hides, Shown, BarType,
              Config, States
<1>3. CASE c.on /\ b.state # "HIDDEN"
  BY <1>3 DEF PanelAssumption, Reloaded, Good, Stays, Moves, Hides, Shown, BarType,
              Config, States
<1> QED  BY <1>1, <1>2, <1>3 DEF Config
-----------------------------------------------------------------------------
(* The popovers that hold the panel are finitely many.                     *)
LEMMA HeldFinite ==
  ASSUME PanelAssumption, TypeOK
  PROVE  IsFiniteSet(held) /\ Cardinality(held) \in Nat
BY FS_Subset, FS_CardinalityType DEF PanelAssumption, TypeOK, Config

LEMMA OpensInv ==
  ASSUME PanelAssumption, Inv, NEW w \in config.layout \ open,
         open' = open \cup {w}, held' = held \cup {w}, bar' = Lock(bar),
         UNCHANGED config, swipe' \in BOOLEAN, ops' \in 0..MaxOps
  PROVE  Inv'
<1>1. w \notin held /\ config.on \in BOOLEAN  BY DEF Inv, TypeOK, Config
<1>2. Good(bar, config.on) /\ bar \in BarType  BY GoodIsInv DEF Inv, Good
<1>3. Good(bar', config.on) /\ bar'.count = bar.count + 1
  BY <1>1, <1>2, LockGood
<1>4. Cardinality(held') = Cardinality(held) + 1
  BY <1>1, HeldFinite, FS_AddElement DEF Inv
<1>5. TypeOK'
  BY <1>3 DEF Inv, TypeOK, Good, BarType, Config
<1>6. LocksCounted'  BY <1>3, <1>4 DEF Inv, LocksCounted
<1> QED  BY <1>3, <1>5, <1>6 DEF Inv, Good, Stays, Moves, Hides, StaysWhileUsed, WillHide

LEMMA ClosesInv ==
  ASSUME PanelAssumption, Inv, NEW w \in Widgets, PopoverCloses(w)
  PROVE  Inv'
<1> DEFINE n == Cardinality(held \cap {w})
<1>1. n \in {0, 1} /\ Cardinality(held \ {w}) = Cardinality(held) - n
      /\ n <= Cardinality(held)
  <2>1. CASE w \in held
    <3>1. held \cap {w} = {w}  BY <2>1
    <3>2. n = 1  BY <3>1, FS_Singleton
    <3>3. Cardinality(held) # 0
      BY <2>1, HeldFinite, FS_EmptySet DEF Inv
    <3>4. Cardinality(held \ {w}) = Cardinality(held) - 1
      BY <2>1, HeldFinite, FS_RemoveElement DEF Inv
    <3> QED  BY <3>2, <3>3, <3>4, HeldFinite DEF Inv
  <2>2. CASE w \notin held
    <3>1. held \cap {w} = {} /\ held \ {w} = held  BY <2>2
    <3>2. n = 0  BY <3>1, FS_EmptySet
    <3> QED  BY <3>1, <3>2, HeldFinite DEF Inv
  <2> QED  BY <2>1, <2>2
<1>2. Good(bar, config.on) /\ bar \in BarType /\ config.on \in BOOLEAN
  BY GoodIsInv DEF Inv, Good, TypeOK, Config
<1>3. n \in Nat /\ n <= bar.count  BY <1>1 DEF Inv, LocksCounted
<1> HIDE DEF n
<1>4. Good(Unlock(bar, n, config.on), config.on)
      /\ Unlock(bar, n, config.on).count = bar.count - n
  BY <1>2, <1>3, UnlockGood DEF Good
<1>5. bar' = Unlock(bar, n, config.on) /\ config' = config /\ held' = held \ {w}
  BY DEF PopoverCloses, n
<1>6. TypeOK'
  BY <1>4, <1>5 DEF Inv, TypeOK, Good, BarType, PopoverCloses, Op
<1>7. LocksCounted'  BY <1>1, <1>4, <1>5 DEF Inv, LocksCounted, n
<1> QED  BY <1>4, <1>5, <1>6, <1>7
         DEF Inv, Good, Stays, Moves, Hides, StaysWhileUsed, WillHide

(* What only touches the panel, and not the number of its holders.         *)
LEMMA BarInv ==
  ASSUME Inv, Good(bar', config.on), bar'.count = bar.count,
         UNCHANGED <<config, open, held>>, swipe' \in BOOLEAN, ops' \in 0..MaxOps
  PROVE  Inv'
<1>1. TypeOK'  BY DEF Inv, TypeOK, Good, BarType
<1>2. LocksCounted'  BY DEF Inv, LocksCounted
<1> QED  BY <1>1, <1>2 DEF Inv, Good, Stays, Moves, Hides, StaysWhileUsed, WillHide

(* A panel every popover has let go of.                                    *)
LEMMA ReleasedInv ==
  ASSUME config' \in Config, Good(bar', config'.on), bar'.count = 0,
         held' = {}, open' \subseteq config'.layout,
         swipe' \in BOOLEAN, ops' \in 0..MaxOps
  PROVE  Inv'
<1>1. TypeOK'  BY DEF TypeOK, Good, BarType
<1>2. LocksCounted'  BY FS_EmptySet DEF LocksCounted
<1> QED  BY <1>1, <1>2 DEF Inv, Good, Stays, Moves, Hides, StaysWhileUsed, WillHide

LEMMA OutwardInv == ASSUME PanelAssumption, Inv, SwipeOutward PROVE Inv'
<1> DEFINE n == Cardinality(held)
           b == Unlock(bar, n, config.on)
<1>1. Good(bar, config.on) /\ bar \in BarType /\ config \in Config /\ config.on \in BOOLEAN
  BY GoodIsInv DEF Inv, Good, TypeOK, Config
<1>2. n \in Nat /\ bar.count = n  BY HeldFinite DEF Inv, LocksCounted
<1> HIDE DEF n
<1>3. Good(b, config.on) /\ b.count = 0
  BY <1>1, <1>2, UnlockGood DEF Good
<1>4. b \in BarType  BY <1>3 DEF Good
<1> HIDE DEF b
<1>5. Good(ForceHide(b), config.on) /\ ForceHide(b).count = 0
  BY <1>1, <1>3, <1>4, ForceHideGood
<1>6. bar' = ForceHide(b)  BY DEF SwipeOutward, b, n
<1> QED  BY <1>1, <1>5, <1>6, ReleasedInv DEF SwipeOutward, Inv, TypeOK

LEMMA ReloadInv == ASSUME PanelAssumption, Inv, NEW c \in Config, Reload(c) PROVE Inv'
<1> DEFINE n == Cardinality(held)
           b == Reloaded(bar, c)
<1>1. Good(bar, config.on) /\ bar \in BarType /\ config.on \in BOOLEAN /\ c.on \in BOOLEAN
  BY GoodIsInv DEF Inv, Good, TypeOK, Config
<1>2. n \in Nat /\ bar.count = n  BY HeldFinite DEF Inv, LocksCounted
<1> HIDE DEF n
<1>3. /\ b \in BarType /\ Stays(b, c.on) /\ Moves(b) /\ b.count = n
      /\ n = 0 => Hides(b, c.on)
  BY <1>1, <1>2, ReloadedGood
<1> HIDE DEF b
<1>4. Good(Unlock(b, n, c.on), c.on) /\ Unlock(b, n, c.on).count = 0
  BY <1>1, <1>2, <1>3, UnlockGood
<1>5. bar' = Unlock(b, n, c.on) /\ config' = c  BY DEF Reload, b, n
<1>6. open' \subseteq c.layout /\ held' = {} /\ swipe' \in BOOLEAN /\ ops' \in 0..MaxOps
  BY DEF Reload, Op, Inv, TypeOK
<1> QED  BY <1>4, <1>5, <1>6, ReleasedInv

(* The pointer, and the end of what was under way.                         *)
LEMMA EnterInv == ASSUME PanelAssumption, Inv, Enter PROVE Inv'
<1> DEFINE c == [bar EXCEPT !.pointer = TRUE]
           d == [c EXCEPT !.timer = FALSE]
<1>1. Good(bar, config.on) /\ bar \in BarType /\ config.on \in BOOLEAN
  BY GoodIsInv DEF Inv, Good, TypeOK, Config
<1>2. /\ c \in BarType /\ c.pointer /\ c.count = bar.count /\ c.state = bar.state
      /\ c.timer = bar.timer /\ Moves(c)
  BY <1>1 DEF BarType, Good, Moves
<1>3. d \in BarType /\ d.pointer /\ d.count = bar.count /\ Moves(d)
  BY <1>2 DEF BarType, Moves
<1> HIDE DEF c, d
<1>4. UNCHANGED <<config, open, held>> /\ swipe' \in BOOLEAN /\ ops' \in 0..MaxOps
  BY DEF PanelAssumption, Enter, Op, Inv, TypeOK
<1>5. CASE config.on
  <2>1. bar' = Reveal(d)  BY <1>5 DEF Enter, c, d
  <2>2. /\ Reveal(d) \in BarType /\ Moves(Reveal(d)) /\ Shown(Reveal(d))
        /\ Reveal(d).pointer /\ Reveal(d).count = bar.count
    BY <1>3, RevealGood
  <2>3. Good(Reveal(d), config.on)  BY <1>5, <2>2 DEF Good, Stays, Hides
  <2> QED  BY <1>4, <2>1, <2>2, <2>3, BarInv
<1>6. CASE ~config.on
  <2>1. bar' = c  BY <1>6 DEF Enter, c
  <2>2. Good(c, config.on)  BY <1>1, <1>2, <1>6 DEF Good, Stays, Hides
  <2> QED  BY <1>2, <1>4, <2>1, <2>2, BarInv
<1> QED  BY <1>5, <1>6

LEMMA LeaveInv == ASSUME PanelAssumption, Inv, Leave PROVE Inv'
<1> DEFINE t == (config.on /\ bar.count = 0 /\ Shown(bar)) \/ bar.timer
           c == [bar EXCEPT !.pointer = FALSE, !.timer = t]
<1>1. Good(bar, config.on) /\ bar \in BarType /\ config.on \in BOOLEAN
  BY GoodIsInv DEF Inv, Good, TypeOK, Config
<1>2. /\ t \in BOOLEAN
      /\ config.on /\ bar.count = 0 /\ Shown(bar) => t
      /\ ~config.on => ~t
  BY <1>1 DEF BarType, Good, Stays
<1>3. bar' = c  BY DEF Leave
<1> HIDE DEF t
<1>4. /\ c \in BarType /\ ~c.pointer /\ c.timer = t /\ c.count = bar.count
      /\ c.state = bar.state /\ Moves(c)
  BY <1>1, <1>2 DEF BarType, Good, Moves
<1> HIDE DEF c
<1>5. Good(c, config.on)
  BY <1>1, <1>2, <1>4 DEF Good, Stays, Hides, Shown
<1>6. UNCHANGED <<config, open, held>> /\ swipe' \in BOOLEAN /\ ops' \in 0..MaxOps
  BY DEF PanelAssumption, Leave, Op, Inv, TypeOK
<1> QED  BY <1>3, <1>4, <1>5, <1>6, BarInv

LEMMA TimeoutInv == ASSUME PanelAssumption, Inv, HideTimeout PROVE Inv'
<1> DEFINE c == [bar EXCEPT !.timer = FALSE]
           h == Animate(c, "HIDING", config.hidden)
<1>1. /\ Good(bar, config.on) /\ bar \in BarType /\ config.on \in BOOLEAN
      /\ config.hidden \in Hidden /\ config.hidden # 0
  BY GoodIsInv DEF Inv, Good, TypeOK, Config, PanelAssumption
<1>2. /\ c \in BarType /\ c.pointer = bar.pointer /\ ~c.timer /\ c.count = bar.count
      /\ c.state = bar.state /\ Moves(c)
  BY <1>1 DEF BarType, Good, Moves
<1>3. /\ h \in BarType /\ h.state = "HIDING" /\ h.ticking /\ h.target = config.hidden
      /\ h.pointer = bar.pointer /\ h.count = bar.count
  BY <1>1 DEF Animate, BarType, States
<1>4. CASE config.on /\ bar.count = 0 /\ ~bar.pointer /\ Shown(bar)
  <2>1. bar' = h  BY <1>4 DEF HideTimeout
  <2> HIDE DEF h
  <2>2. Good(h, config.on)  BY <1>1, <1>3, <1>4 DEF Good, Stays, Moves, Hides, Shown
  <2> QED  BY <1>3, <2>1, <2>2, BarInv DEF HideTimeout, Inv, TypeOK
<1>5. CASE ~(config.on /\ bar.count = 0 /\ ~bar.pointer /\ Shown(bar))
  <2>1. bar' = c  BY <1>5 DEF HideTimeout
  <2> HIDE DEF c
  <2>2. Good(c, config.on)  BY <1>1, <1>2, <1>5 DEF Good, Stays, Hides, Shown
  <2> QED  BY <1>2, <2>1, <2>2, BarInv DEF HideTimeout, Inv, TypeOK
<1> QED  BY <1>4, <1>5

LEMMA AnimationInv == ASSUME Inv, AnimationEnds PROVE Inv'
<1>1. Good(bar, config.on) /\ bar \in BarType  BY GoodIsInv DEF Inv, Good
<1>2. bar.state \in {"REVEALING", "HIDING"} /\ bar.ticking
      /\ (bar.target = 0 <=> bar.state = "REVEALING")
  BY <1>1 DEF AnimationEnds, Good, Moves
<1>3. /\ bar' \in BarType /\ ~bar'.ticking /\ bar'.margin = bar.target
      /\ bar'.state = IF bar.state = "REVEALING" THEN "VISIBLE" ELSE "HIDDEN"
      /\ bar'.pointer = bar.pointer /\ bar'.timer = bar.timer /\ bar'.count = bar.count
  BY <1>1, <1>2 DEF AnimationEnds, BarType, States
<1>4. Good(bar', config.on)
  BY <1>1, <1>2, <1>3 DEF Good, Stays, Moves, Hides, Shown, BarType
<1> QED  BY <1>3, <1>4, BarInv DEF AnimationEnds, Inv, TypeOK

(* The touches that reveal.                                                *)
LEMMA TouchInv ==
  ASSUME Inv, bar' = TouchReveal(bar), UNCHANGED <<config, open, held>>,
         swipe' \in BOOLEAN, ops' \in 0..MaxOps
  PROVE  Inv'
<1>1. Good(bar, config.on) /\ bar \in BarType /\ config.on \in BOOLEAN
  BY GoodIsInv DEF Inv, Good, TypeOK, Config
<1> QED  BY <1>1, TouchRevealGood, BarInv

LEMMA InwardInv == ASSUME PanelAssumption, Inv, SwipeInward PROVE Inv'
<1>1. CASE UNCHANGED <<bar, open, held>>
  <2>1. Good(bar', config.on) /\ bar'.count = bar.count
    BY <1>1, GoodIsInv DEF Inv, Good
  <2> QED  BY <1>1, <2>1, BarInv DEF SwipeInward, Inv, TypeOK
<1>2. ASSUME NEW w \in config.layout \ open,
             open' = open \cup {w}, held' = held \cup {w}, bar' = Lock(bar)
      PROVE  Inv'
  BY <1>2, OpensInv DEF SwipeInward, Inv, TypeOK
<1> QED  BY <1>1, <1>2 DEF SwipeInward

LEMMA NextInv == ASSUME PanelAssumption, Inv, [Next]_vars PROVE Inv'
<1>1. ASSUME NEW w \in Widgets, PopoverOpens(w) PROVE Inv'
  BY <1>1, OpensInv DEF PopoverOpens, Op, Inv, TypeOK
<1>2. CASE BezelSwipe
  BY <1>2, TouchInv DEF BezelSwipe, Op, Inv, TypeOK
<1>3. CASE SwipeBegins
  BY <1>3, TouchInv DEF SwipeBegins, Op, Inv, TypeOK
<1>4. CASE SwipeAlong
  BY <1>4, TouchInv DEF SwipeAlong, Inv, TypeOK
<1>5. CASE UNCHANGED vars
  BY <1>5 DEF vars, Inv, TypeOK, LocksCounted, StaysWhileUsed, WillHide, Shown
<1> QED
  BY <1>1, <1>2, <1>3, <1>4, <1>5, EnterInv, LeaveInv, TimeoutInv, AnimationInv,
     ClosesInv, OutwardInv, InwardInv, ReloadInv DEF Next

LEMMA InitInv == ASSUME PanelAssumption, Init PROVE Inv
<1>1. config.on \in BOOLEAN /\ config.hidden \in Hidden /\ config.hidden # 0
  BY DEF PanelAssumption, Init, Config
<1>2. bar \in BarType
  <2>1. CASE config.on
    <3>1. bar = [state |-> "HIDDEN", pointer |-> FALSE, timer |-> FALSE, ticking |-> FALSE,
                 count |-> 0, margin |-> config.hidden, target |-> config.hidden]
      BY <2>1 DEF Init
    <3> QED  BY <1>1, <3>1 DEF BarType, States
  <2>2. CASE ~config.on
    <3>1. bar = [state |-> "VISIBLE", pointer |-> FALSE, timer |-> FALSE, ticking |-> FALSE,
                 count |-> 0, margin |-> 0, target |-> 0]
      BY <2>2 DEF Init
    <3> QED  BY <1>1, <3>1 DEF BarType, States
  <2> QED  BY <2>1, <2>2
<1>3. TypeOK
  <2>1. ops \in 0..MaxOps  BY DEF PanelAssumption, Init
  <2>2. open \subseteq config.layout /\ held \subseteq open /\ swipe \in BOOLEAN /\ config \in Config
    BY DEF Init
  <2> QED  BY <1>2, <2>1, <2>2 DEF TypeOK, BarType
<1>4. LocksCounted  BY FS_EmptySet DEF Init, LocksCounted
<1> QED  BY <1>1, <1>3, <1>4 DEF Init, Inv, StaysWhileUsed, WillHide, Shown
-----------------------------------------------------------------------------
(* Type correctness of the panel, its popovers and its configuration.      *)
THEOREM TypeCorrect == Spec => []TypeOK
<1>1. Init => Inv  BY PanelAssumption, InitInv
<1>2. Inv /\ [Next]_vars => Inv'  BY PanelAssumption, NextInv
<1>3. Inv => TypeOK  BY DEF Inv
<1> QED  BY <1>1, <1>2, <1>3, PTL DEF Spec

(* The panel is held once by each open popover and by nothing else.        *)
THEOREM EveryHolderCounted == Spec => []LocksCounted
<1>1. Init => Inv  BY PanelAssumption, InitInv
<1>2. Inv /\ [Next]_vars => Inv'  BY PanelAssumption, NextInv
<1>3. Inv => LocksCounted  BY DEF Inv
<1> QED  BY <1>1, <1>2, <1>3, PTL DEF Spec

(* A panel in use stays, and one that is not to hide itself is shown.      *)
THEOREM PanelStays == Spec => []StaysWhileUsed
<1>1. Init => Inv  BY PanelAssumption, InitInv
<1>2. Inv /\ [Next]_vars => Inv'  BY PanelAssumption, NextInv
<1>3. Inv => StaysWhileUsed  BY DEF Inv
<1> QED  BY <1>1, <1>2, <1>3, PTL DEF Spec

(* A panel nobody uses is on its way out, and its state is what is shown.  *)
THEOREM PanelWillHide == Spec => []WillHide
<1>1. Init => Inv  BY PanelAssumption, InitInv
<1>2. Inv /\ [Next]_vars => Inv'  BY PanelAssumption, NextInv
<1>3. Inv => WillHide  BY DEF Inv
<1> QED  BY <1>1, <1>2, <1>3, PTL DEF Spec

-----------------------------------------------------------------------------
(* The notification daemon and the widgets that it calls back.             *)

Kinds == UNION {Daemon!Range(c.left) \cup Daemon!Range(c.center) \cup Daemon!Range(c.right) :
                  c \in Panels}
Places == {"left", "center", "right"}
Want == [kind : Kinds, at : Places]
Widget == [kind : Kinds, at : Places, serial : Nat, shown : Nat]
Toast == [n : Nat, id : Nat]

\* A widget is known by its number.
Numbered(ws) == \A i, j \in DOMAIN ws : ws[i].serial = ws[j].serial => i = j

Listening(ws) == {w.serial : w \in {v \in Daemon!Range(ws) : Daemon!Listens(v.kind)}}

\* Each widget is one there is and shows what the daemon has.
Right(ws, hist, quiet) ==
  \A i \in DOMAIN ws :
    /\ ws[i].kind \in KnownWidgets
    /\ ws[i].shown = Daemon!View(ws[i].kind, hist, quiet)

Layout(ws) == [i \in DOMAIN ws |-> [kind |-> ws[i].kind, at |-> ws[i].at]]

\* The widgets of a configured layout, each with its number, that show the daemon.
Mirror(ws, cbs, hist, quiet, max, c) ==
  /\ ws \in Seq(Widget) /\ hist \in Seq(Nat) /\ quiet \in BOOLEAN /\ max \in Nat /\ c \in Panels
  /\ Numbered(ws)
  /\ cbs = Listening(ws)
  /\ Right(ws, hist, quiet)
  /\ Layout(ws) = Daemon!Known(Daemon!Sections(c))
  /\ Len(hist) <= max

\* An identifier has one toast; those given out by the counter are not above it; and
\* what is not on the screen was told of or silenced.
Single(ts) == \A i, j \in DOMAIN ts : ts[i].id = ts[j].id => i = j \/ ts[i].id \in Foreign
Covered(ts, given, told, quieted) ==
  \A x \in given : (\E i \in DOMAIN ts : ts[i].id = x) \/ x \in told \/ x \in quieted

Screen(ts, next, quiet, given, told, quieted) ==
  /\ ts \in Seq(Toast) /\ next \in Nat /\ quiet \in BOOLEAN
  /\ given \in SUBSET Nat /\ told \in SUBSET Nat /\ quieted \in SUBSET Nat
  /\ quiet => ts = <<>>
  /\ Single(ts)
  /\ Covered(ts, given, told, quieted)
  /\ 0 \notin given /\ \A x \in given : x <= next \/ x \in Foreign
  /\ \A i \in DOMAIN ts : ts[i].id \in given

DaemonInv ==
  /\ Screen(toasts, nextId, dnd, issued, notifications_told, silenced)
  /\ Mirror(widgets, callbacks, history, dnd, maxHistory, notifications_config)
  /\ notifications_ops \in Nat

-----------------------------------------------------------------------------
(* Sequences.                                                              *)

\* A set of naturals that has a member has a least one.
LEMMA LeastNatural ==
  ASSUME NEW B, B \subseteq Nat, B # {}
  PROVE  \E m \in B : \A k \in B : m <= k
<1>1. PICK m \in B : \A k \in B : ~(<<k, m>> \in OpToRel(<, Nat))
  BY NatLessThanWellFounded, WFMin, Zenon
<1>2. \A k \in B : ~(k < m)
  BY <1>1 DEF OpToRel
<1> QED
  BY <1>2

\* What is left when one is removed: the others, each once, in their order.
Removed(s, i, r) ==
  /\ DOMAIN r = 1..(Len(s) - 1) /\ Len(r) = Len(s) - 1
  /\ \A j \in DOMAIN r : r[j] = s[IF j < i THEN j ELSE j + 1]

\* What is left of a sequence without its i-th element.
LEMMA RemovalIs ==
  ASSUME NEW S, NEW s \in Seq(S), NEW i \in DOMAIN s
  PROVE  LET r == SubSeq(s, 1, i - 1) \o SubSeq(s, i + 1, Len(s))
         IN  r \in Seq(S) /\ Removed(s, i, r)
<1> DEFINE a == SubSeq(s, 1, i - 1)
           b == SubSeq(s, i + 1, Len(s))
           r == a \o b
<1>1. i \in Nat /\ 1 <= i /\ i <= Len(s) /\ Len(s) \in Nat
  OBVIOUS
<1>2. a \in Seq(S) /\ Len(a) = i - 1 /\ \A j \in 1..(i - 1) : a[j] = s[j]
  BY <1>1
<1>3. b \in Seq(S) /\ Len(b) = Len(s) - i /\ \A j \in 1..(Len(s) - i) : b[j] = s[i + j]
  BY <1>1
<1>4. r = a \o b
  OBVIOUS
<1> HIDE DEF a, b, r
<1>5. /\ r \in Seq(S) /\ Len(r) = Len(a) + Len(b)
      /\ \A j \in 1..(Len(a) + Len(b)) : r[j] = IF j <= Len(a) THEN a[j] ELSE b[j - Len(a)]
  BY <1>2, <1>3, <1>4, ConcatProperties
<1>6. Len(r) = Len(s) - 1 /\ DOMAIN r = 1..(Len(s) - 1)
  BY <1>1, <1>2, <1>3, <1>5
<1>7. ASSUME NEW j \in 1..(Len(s) - 1) PROVE r[j] = s[IF j < i THEN j ELSE j + 1]
  <2>1. CASE j < i
    BY <1>1, <1>2, <1>3, <1>5, <2>1
  <2>2. CASE ~(j < i)
    <3>1. PICK k \in 1..(Len(s) - i) : k = j - Len(a)
      BY <1>1, <1>2, <2>2
    <3>2. r[j] = b[k]
      <4>1. j \in 1..(Len(a) + Len(b)) /\ ~(j <= Len(a)) /\ k = j - Len(a)
        BY <1>1, <1>2, <1>3, <2>2, <3>1
      <4> QED
        BY <1>5, <4>1
    <3>3. i + k = j + 1
      BY <1>1, <1>2, <3>1
    <3> QED
      BY <1>3, <2>2, <3>1, <3>2, <3>3
  <2> QED
    BY <2>1, <2>2
<1> QED
  BY <1>5, <1>6, <1>7 DEF Removed, r, a, b

\* The same of the library's operator.
LEMMA RemoveAtIs ==
  ASSUME NEW S, NEW s \in Seq(S), NEW i \in DOMAIN s
  PROVE  Daemon!RemoveAt(s, i) \in Seq(S) /\ Removed(s, i, Daemon!RemoveAt(s, i))
BY RemovalIs DEF Daemon!RemoveAt

\* Exactly the other elements are left.
LEMMA RemovedElements ==
  ASSUME NEW S, NEW s \in Seq(S), NEW i \in DOMAIN s, NEW r, Removed(s, i, r)
  PROVE  /\ \A j \in DOMAIN r : \E k \in DOMAIN s : k # i /\ r[j] = s[k]
         /\ \A k \in DOMAIN s : k # i => \E j \in DOMAIN r : r[j] = s[k]
         /\ \A j, m \in DOMAIN r : j # m => \E k, l \in DOMAIN s : k # l /\ r[j] = s[k] /\ r[m] = s[l]
<1>1. i \in 1..Len(s) /\ Len(s) \in Nat /\ DOMAIN s = 1..Len(s)
  OBVIOUS
<1>2. DOMAIN r = 1..(Len(s) - 1) /\ \A j \in DOMAIN r : r[j] = s[IF j < i THEN j ELSE j + 1]
  BY DEF Removed
<1>3. \A j \in DOMAIN r : \E k \in DOMAIN s : k # i /\ r[j] = s[k]
  <2> TAKE j \in DOMAIN r
  <2>1. PICK k \in DOMAIN s : k = (IF j < i THEN j ELSE j + 1)
    BY <1>1, <1>2
  <2> QED
    BY <1>1, <1>2, <2>1
<1>4. \A k \in DOMAIN s : k # i => \E j \in DOMAIN r : r[j] = s[k]
  <2> SUFFICES ASSUME NEW k \in DOMAIN s, k # i PROVE \E j \in DOMAIN r : r[j] = s[k]
    OBVIOUS
  <2>1. PICK j \in DOMAIN r : j = (IF k < i THEN k ELSE k - 1)
    BY <1>1, <1>2
  <2>2. (IF j < i THEN j ELSE j + 1) = k
    BY <1>1, <2>1
  <2> QED
    BY <1>2, <2>2
<1>5. ASSUME NEW j \in DOMAIN r, NEW m \in DOMAIN r, j # m
      PROVE  \E k, l \in DOMAIN s : k # l /\ r[j] = s[k] /\ r[m] = s[l]
  <2>1. PICK k \in DOMAIN s : k = (IF j < i THEN j ELSE j + 1)
    BY <1>1, <1>2
  <2>2. PICK l \in DOMAIN s : l = (IF m < i THEN m ELSE m + 1)
    BY <1>1, <1>2
  <2>3. k # l
    BY <1>1, <1>2, <1>5, <2>1, <2>2
  <2> QED
    BY <1>2, <2>1, <2>2, <2>3
<1> QED
  BY <1>3, <1>4, <1>5

\* g_ptr_array_remove_fast
LEMMA RemoveFastIs ==
  ASSUME NEW S, NEW s \in Seq(S), NEW i \in DOMAIN s
  PROVE  LET r == Daemon!RemoveFast(s, i) IN
         /\ r \in Seq(S)
         /\ \A j \in DOMAIN r : \E k \in DOMAIN s : k # i /\ r[j] = s[k]
         /\ \A k \in DOMAIN s : k # i => \E j \in DOMAIN r : r[j] = s[k]
         /\ \A j, m \in DOMAIN r : j # m => \E k, l \in DOMAIN s : k # l /\ r[j] = s[k] /\ r[m] = s[l]
<1> DEFINE n == Len(s)
           f == SubSeq(s, 1, n - 1)
           r == Daemon!RemoveFast(s, i)
<1>1. n \in Nat /\ i \in 1..n /\ DOMAIN s = 1..n
  OBVIOUS
<1>2. f \in Seq(S) /\ Len(f) = n - 1 /\ DOMAIN f = 1..(n - 1) /\ \A j \in 1..(n - 1) : f[j] = s[j]
  BY <1>1
<1> HIDE DEF f
<1>3. r = IF i = n THEN f ELSE [f EXCEPT ![i] = s[n]]
  BY DEF Daemon!RemoveFast, Daemon!Front, f
<1>4. /\ r \in Seq(S) /\ DOMAIN r = 1..(n - 1)
      /\ \A j \in 1..(n - 1) : r[j] = IF j = i THEN s[n] ELSE s[j]
  <2>1. CASE i = n
    BY <1>1, <1>2, <1>3, <2>1
  <2>2. CASE i # n
    <3>1. i \in 1..(n - 1) /\ s[n] \in S
      BY <1>1, <2>2
    <3>2. r = [f EXCEPT ![i] = s[n]]
      BY <1>3, <2>2
    <3> QED
      BY <1>2, <3>1, <3>2
  <2> QED
    BY <2>1, <2>2
<1> HIDE DEF r
<1>5. \A j \in DOMAIN r : \E k \in DOMAIN s : k # i /\ r[j] = s[k]
  <2> TAKE j \in DOMAIN r
  <2>1. PICK k \in DOMAIN s : k = (IF j = i THEN n ELSE j)
    BY <1>1, <1>4
  <2>2. k # i
    BY <1>1, <1>4, <2>1
  <2> QED
    BY <1>4, <2>1, <2>2
<1>6. ASSUME NEW k \in DOMAIN s, k # i PROVE \E j \in DOMAIN r : r[j] = s[k]
  <2>1. PICK j \in DOMAIN r : j = (IF k = n THEN i ELSE k)
    BY <1>1, <1>4, <1>6
  <2>2. r[j] = s[k]
    BY <1>4, <1>6, <2>1
  <2> QED
    BY <2>2
<1>7. ASSUME NEW j \in DOMAIN r, NEW m \in DOMAIN r, j # m
      PROVE  \E k, l \in DOMAIN s : k # l /\ r[j] = s[k] /\ r[m] = s[l]
  <2>1. PICK k \in DOMAIN s : k = (IF j = i THEN n ELSE j)
    BY <1>1, <1>4
  <2>2. PICK l \in DOMAIN s : l = (IF m = i THEN n ELSE m)
    BY <1>1, <1>4
  <2>3. k # l
    BY <1>1, <1>4, <1>7, <2>1, <2>2
  <2> QED
    BY <1>4, <2>1, <2>2, <2>3
<1> QED
  BY <1>4, <1>5, <1>6, <1>7 DEF r

\* The least of a set of numbers.
LEMMA MinIs ==
  ASSUME NEW B, B \subseteq Nat, B # {}
  PROVE  Daemon!Min(B) \in B
<1>1. \E m \in B : \A k \in B : m <= k
  BY LeastNatural
<1> QED
  BY <1>1 DEF Daemon!Min

\* The history without an identifier.
LEMMA HistoryWithout ==
  ASSUME NEW s \in Seq(Nat), NEW x
  PROVE  Daemon!RemoveFirst(s, x) \in Seq(Nat) /\ Len(Daemon!RemoveFirst(s, x)) <= Len(s)
<1> DEFINE I == {i \in 1..Len(s) : s[i] = x}
<1>1. I \subseteq Nat /\ DOMAIN s = 1..Len(s) /\ Len(s) \in Nat
  OBVIOUS
<1>2. CASE I # {}
  <2>1. PICK i \in I : i = Daemon!Min(I)
    BY <1>1, <1>2, MinIs
  <2>2. Daemon!RemoveFirst(s, x) = Daemon!RemoveAt(s, i)
    BY <1>2, <2>1 DEF Daemon!RemoveFirst, Daemon!SelectInSeq
  <2> QED
    BY <1>1, <2>1, <2>2, RemoveAtIs DEF Removed
<1>3. CASE I = {}
  BY <1>1, <1>3 DEF Daemon!RemoveFirst
<1> QED
  BY <1>2, <1>3

\* A toast is taken from the screen.
LEMMA ToastsWithout ==
  ASSUME NEW s \in Seq(Toast), NEW x
  PROVE  LET r == Daemon!Without(s, x) IN
         \/ r = s /\ \A i \in DOMAIN s : s[i].id # x
         \/ \E i \in DOMAIN s : s[i].id = x /\ r \in Seq(Toast) /\ Removed(s, i, r)
<1> DEFINE I == {i \in 1..Len(s) : s[i].id = x}
<1>1. I \subseteq Nat /\ DOMAIN s = 1..Len(s)
  OBVIOUS
<1>2. CASE I # {}
  <2>1. PICK i \in I : i = Daemon!Min(I)
    BY <1>1, <1>2, MinIs
  <2>2. Daemon!Without(s, x) = Daemon!RemoveAt(s, i)
    BY <1>2, <2>1 DEF Daemon!Without, Daemon!RemoveFirstMatch, Daemon!SelectInSeq
  <2> QED
    BY <1>1, <2>1, <2>2, RemoveAtIs
<1>3. CASE I = {}
  BY <1>1, <1>3 DEF Daemon!Without, Daemon!RemoveFirstMatch
<1> QED
  BY <1>2, <1>3

\* The newest max of the history.
LEMMA TrimIs ==
  ASSUME NEW s \in Seq(Nat), NEW max \in Nat
  PROVE  /\ Daemon!Trim(s, max) \in Seq(Nat)
         /\ Len(Daemon!Trim(s, max)) <= max
         /\ Len(s) <= max => Daemon!Trim(s, max) = s
<1> DEFINE n == IF Len(s) < max THEN Len(s) ELSE max
<1>1. Len(s) \in Nat /\ n \in Nat /\ n <= Len(s) /\ n <= max
  OBVIOUS
<1>2. Daemon!Trim(s, max) = SubSeq(s, 1, n)
  BY DEF Daemon!Trim
<1>3. Len(s) <= max => n = Len(s)
  BY <1>1
<1> HIDE DEF n
<1>4. SubSeq(s, 1, n) \in Seq(Nat) /\ Len(SubSeq(s, 1, n)) = n
  BY <1>1
<1>5. SubSeq(s, 1, Len(s)) = s
  BY SubSeqFull
<1> QED
  BY <1>1, <1>2, <1>3, <1>4, <1>5

-----------------------------------------------------------------------------
(* The widgets.                                                            *)

\* What a widget shows is a number.
LEMMA ViewIs ==
  ASSUME NEW kind, NEW hist \in Seq(Nat), NEW quiet \in BOOLEAN
  PROVE  /\ Daemon!View(kind, hist, quiet) \in Nat
         /\ ~Daemon!Listens(kind) => Daemon!View(kind, hist, quiet) = 0
BY DEF Daemon!View, Daemon!ListShows, Daemon!SwitchShows, Daemon!Listens

\* The same widgets, whatever they show.
SameWidgets(ws, e) ==
  /\ DOMAIN e = DOMAIN ws
  /\ \A i \in DOMAIN ws :
       e[i].kind = ws[i].kind /\ e[i].at = ws[i].at /\ e[i].serial = ws[i].serial

\* Who listens among the widgets, place by place.
LEMMA ListeningIs ==
  ASSUME NEW ws, NEW x
  PROVE  x \in Listening(ws)
           <=> \E i \in DOMAIN ws : Daemon!Listens(ws[i].kind) /\ x = ws[i].serial
BY DEF Listening, Daemon!Range

\* Who listens does not depend on what the widgets show.
LEMMA SameAreSame ==
  ASSUME NEW ws, NEW e, SameWidgets(ws, e)
  PROVE  /\ Numbered(ws) => Numbered(e)
         /\ Listening(e) = Listening(ws)
         /\ Layout(e) = Layout(ws)
<1>1. Numbered(ws) => Numbered(e)
  BY DEF Numbered, SameWidgets
<1>2. ASSUME NEW x PROVE x \in Listening(e) <=> x \in Listening(ws)
  BY ListeningIs DEF SameWidgets
<1>3. Layout(e) = Layout(ws)
  BY DEF Layout, SameWidgets
<1> QED
  BY <1>1, <1>2, <1>3

\* emit_history_changed makes every widget right.
LEMMA EmitIs ==
  ASSUME NEW ws \in Seq(Widget), NEW hist \in Seq(Nat), NEW quiet \in BOOLEAN,
         NEW hist0 \in Seq(Nat), NEW quiet0 \in BOOLEAN,
         callbacks = Listening(ws), Right(ws, hist0, quiet0)
  PROVE  /\ Daemon!Emit(ws, hist, quiet) \in Seq(Widget)
         /\ SameWidgets(ws, Daemon!Emit(ws, hist, quiet))
         /\ Right(Daemon!Emit(ws, hist, quiet), hist, quiet)
<1> DEFINE View(i) == Daemon!View(ws[i].kind, hist, quiet)
           e == Daemon!Emit(ws, hist, quiet)
<1>a. DOMAIN ws = 1..Len(ws) /\ Len(ws) \in Nat /\ \A i \in DOMAIN ws : ws[i] \in Widget
  OBVIOUS
<1>b. \A i \in DOMAIN ws : View(i) \in Nat
  BY ViewIs
<1>1. /\ DOMAIN ws = 1..Len(ws) /\ Len(ws) \in Nat /\ \A i \in DOMAIN ws : ws[i] \in Widget
      /\ \A i \in DOMAIN ws : View(i) \in Nat
  BY <1>a, <1>b
<1> HIDE DEF View
<1>2. /\ DOMAIN e = DOMAIN ws
      /\ \A i \in DOMAIN ws :
           e[i] = IF ws[i].serial \in callbacks THEN [ws[i] EXCEPT !.shown = View(i)] ELSE ws[i]
  BY DEF Daemon!Emit, View
<1>3. e = [i \in 1..Len(ws) |-> e[i]]
  BY <1>1 DEF Daemon!Emit
<1> HIDE DEF e
<1>4. ASSUME NEW i \in DOMAIN ws
      PROVE  /\ e[i] \in Widget /\ e[i].kind = ws[i].kind /\ e[i].at = ws[i].at
             /\ e[i].serial = ws[i].serial
             /\ e[i].shown = IF ws[i].serial \in callbacks THEN View(i) ELSE ws[i].shown
  <2>1. ws[i] \in Widget /\ View(i) \in Nat
    BY <1>1
  <2>2. CASE ws[i].serial \in callbacks
    <3>1. e[i] = [ws[i] EXCEPT !.shown = View(i)]
      BY <1>2, <2>2
    <3>2. e[i] \in Widget
      BY <2>1, <3>1 DEF Widget
    <3>3. /\ e[i].kind = ws[i].kind /\ e[i].at = ws[i].at /\ e[i].serial = ws[i].serial
          /\ e[i].shown = View(i)
      BY <2>1, <3>1 DEF Widget
    <3> QED
      BY <2>2, <3>2, <3>3
  <2>3. CASE ws[i].serial \notin callbacks
    BY <1>2, <2>1, <2>3
  <2> QED
    BY <2>2, <2>3
<1>5. e \in Seq(Widget)
  BY <1>1, <1>3, <1>4
<1>6. SameWidgets(ws, e)
  BY <1>2, <1>4 DEF SameWidgets
<1>7. ASSUME NEW i \in DOMAIN ws
      PROVE  e[i].kind \in KnownWidgets /\ e[i].shown = Daemon!View(e[i].kind, hist, quiet)
  <2>1. ws[i].kind \in KnownWidgets /\ ws[i].shown = Daemon!View(ws[i].kind, hist0, quiet0)
    BY DEF Right
  <2>2. CASE Daemon!Listens(ws[i].kind)
    <3>1. ws[i].serial \in callbacks
      BY <2>2, ListeningIs
    <3> QED
      BY <1>4, <2>1, <3>1 DEF View
  <2>3. CASE ~Daemon!Listens(ws[i].kind)
    <3>1. Daemon!View(ws[i].kind, hist0, quiet0) = 0 /\ Daemon!View(ws[i].kind, hist, quiet) = 0
      BY <2>3, ViewIs
    <3> QED
      BY <1>4, <2>1, <3>1 DEF View
  <2> QED
    BY <2>2, <2>3
<1>8. Right(e, hist, quiet)
  BY <1>2, <1>7 DEF Right
<1> QED
  BY <1>5, <1>6, <1>8 DEF e

\* The numbers of widgets to come are above those there are.
LEMMA BornIs ==
  ASSUME NEW ws \in Seq(Widget)
  PROVE  Daemon!Born(ws) \in Nat /\ \A i \in DOMAIN ws : ws[i].serial < Daemon!Born(ws)
<1> DEFINE ser(i) == ws[i].serial
           All == {0} \cup Daemon!Serials(ws)
           Bounds == {m \in Nat : \A k \in All : k <= m}
           B == {n \in 0..Len(ws) : ~ \E m \in Nat : \A i \in 1..n : ser(i) <= m}
<1>a. Len(ws) \in Nat /\ DOMAIN ws = 1..Len(ws) /\ \A i \in DOMAIN ws : ws[i] \in Widget
  OBVIOUS
<1>b. \A i \in DOMAIN ws : ser(i) \in Nat
  BY <1>a DEF Widget
<1>1. Len(ws) \in Nat /\ DOMAIN ws = 1..Len(ws) /\ \A i \in DOMAIN ws : ser(i) \in Nat
  BY <1>a, <1>b
<1>2. Daemon!Serials(ws) = {ser(i) : i \in DOMAIN ws}
  BY DEF Daemon!Serials, Daemon!Range
<1> HIDE DEF ser
<1>3. B = {}
  <2> SUFFICES ASSUME B # {} PROVE FALSE
    OBVIOUS
  <2>1. B \subseteq Nat
    OBVIOUS
  <2>2. PICK n \in B : \A k \in B : n <= k
    BY <2>1, LeastNatural
  <2>3. n # 0
    <3>1. \A i \in 1..0 : ser(i) <= 0
      OBVIOUS
    <3> QED
      BY <3>1
  <2>4. PICK p \in 0..Len(ws) : p = n - 1
    BY <1>1, <2>3
  <2>5. p \notin B
    <3>1. p \in Nat /\ n \in Nat /\ ~(n <= p)
      BY <1>1, <2>4
    <3> HIDE DEF B
    <3> QED
      BY <2>2, <3>1
  <2>6. PICK m \in Nat : \A i \in 1..p : ser(i) <= m
    BY <2>5
  <2>7. n \in 1..Len(ws)
    BY <1>1, <2>3
  <2>8. PICK t \in Nat : t >= m /\ t >= ser(n)
    <3>1. ser(n) \in Nat
      BY <1>1, <2>7
    <3>2. PICK u \in Nat : u = ser(n)
      BY <3>1
    <3>3. u <= m \/ m <= u
      OBVIOUS
    <3>4. CASE u <= m
      <4>1. m >= m /\ m >= ser(n)
        BY <3>2, <3>4
      <4> QED
        BY <4>1
    <3>5. CASE m <= u
      <4>1. u >= m /\ u >= ser(n)
        BY <3>2, <3>5
      <4> QED
        BY <4>1
    <3> QED
      BY <3>3, <3>4, <3>5
  <2>9. \A i \in 1..n : ser(i) <= t
    <3> TAKE i \in 1..n
    <3>1. i = n \/ i \in 1..p
      BY <1>1, <2>4, <2>7
    <3>2. i \in 1..Len(ws)
      BY <1>1, <2>7
    <3>3. ser(i) \in Nat
      BY <1>1, <3>2
    <3>4. CASE i = n
      BY <2>8, <3>4
    <3>5. CASE i \in 1..p
      <4>1. ser(i) <= m
        BY <2>6, <3>5
      <4> QED
        BY <2>8, <3>3, <4>1
    <3> QED
      BY <3>1, <3>4, <3>5
  <2> QED
    BY <2>9
<1>4. Len(ws) \in 0..Len(ws)
  BY <1>1
<1>5. PICK m \in Nat : \A i \in 1..Len(ws) : ser(i) <= m
  BY <1>3, <1>4
<1> HIDE DEF B
<1>6. All \subseteq Nat
  BY <1>1, <1>2
<1>7. m \in Bounds
  BY <1>1, <1>2, <1>5
<1>8. PICK n \in Bounds : \A k \in Bounds : n <= k
  <2>1. Bounds \subseteq Nat /\ Bounds # {}
    BY <1>7
  <2> HIDE DEF Bounds
  <2> QED
    BY <2>1, LeastNatural
<1>9. n \in All
  <2> SUFFICES ASSUME n \notin All PROVE FALSE
    OBVIOUS
  <2>1. n \in Nat /\ n # 0 /\ \A k \in All : k <= n
    BY <1>8
  <2>2. PICK p \in Nat : p = n - 1
    BY <2>1
  <2>3. \A k \in All : k <= p
    <3> TAKE k \in All
    <3> HIDE DEF All
    <3>1. k \in Nat /\ k <= n /\ k # n
      BY <1>6, <2>1
    <3> QED
      BY <2>1, <2>2, <3>1
  <2>4. p \in Bounds
    BY <2>3
  <2> HIDE DEF Bounds, All
  <2> QED
    BY <1>8, <2>1, <2>2, <2>4
<1>10. n \in All /\ \A k \in All : n >= k
  BY <1>6, <1>8, <1>9
<1>11. PICK top \in All : top = Daemon!Max(All) /\ \A k \in All : top >= k
  <2> HIDE DEF All
  <2> QED
    BY <1>10 DEF Daemon!Max
<1>12. Daemon!Born(ws) = 1 + top
  BY <1>11 DEF Daemon!Born
<1>13. \A i \in DOMAIN ws : ser(i) \in All
  BY <1>2
<1>14. ASSUME NEW i \in DOMAIN ws PROVE ser(i) < 1 + top
  <2>1. ser(i) \in Nat /\ top \in Nat /\ top >= ser(i)
    <3> HIDE DEF All
    <3> QED
      BY <1>6, <1>11, <1>13
  <2> QED
    BY <2>1
<1>15. 1 + top \in Nat
  <2> HIDE DEF All
  <2>1. top \in Nat
    BY <1>6
  <2> QED
    BY <2>1
<1> QED
  BY <1>12, <1>14, <1>15 DEF ser

-----------------------------------------------------------------------------
(* The layout is placed widget by widget.                                  *)

\* The widgets not placed yet and those placed: each by its own number, below the
\* next one; the daemon calls back those of both that listen, and all are right.
Below(ws, serial) == \A i \in DOMAIN ws : ws[i].serial < serial
Apart(old, new) == \A i \in DOMAIN old, j \in DOMAIN new : old[i].serial # new[j].serial

Between(old, new, cbs, serial, hist, quiet) ==
  /\ old \in Seq(Widget) /\ new \in Seq(Widget) /\ serial \in Nat
  /\ Below(old, serial) /\ Below(new, serial)
  /\ Numbered(old) /\ Numbered(new) /\ Apart(old, new)
  /\ cbs = Listening(old) \cup Listening(new)
  /\ Right(old, hist, quiet) /\ Right(new, hist, quiet)

\* An appended sequence, place by place.
LEMMA AppendIs ==
  ASSUME NEW S, NEW s \in Seq(S), NEW e \in S
  PROVE  /\ Append(s, e) \in Seq(S)
         /\ DOMAIN Append(s, e) = 1..(Len(s) + 1)
         /\ DOMAIN s = 1..Len(s) /\ Len(s) \in Nat
         /\ \A i \in DOMAIN s : i \in DOMAIN Append(s, e) /\ Append(s, e)[i] = s[i] /\ i # Len(s) + 1
         /\ \A i \in DOMAIN Append(s, e) : i \in DOMAIN s \/ i = Len(s) + 1
         /\ Len(s) + 1 \in DOMAIN Append(s, e) /\ Append(s, e)[Len(s) + 1] = e
<1> DEFINE a == Append(s, e)
<1>1. a \in Seq(S) /\ Len(a) = Len(s) + 1 /\ Len(s) \in Nat /\ DOMAIN s = 1..Len(s)
  BY AppendProperties
<1>2. (\A i \in 1..Len(s) : a[i] = s[i]) /\ a[Len(s) + 1] = e
  BY AppendProperties
<1> HIDE DEF a
<1>3. DOMAIN a = 1..(Len(s) + 1)
  BY <1>1
<1> QED
  BY <1>1, <1>2, <1>3 DEF a

\* The layout of the widgets with one more.
LEMMA LayoutAppend ==
  ASSUME NEW s \in Seq(Widget), NEW e \in Widget, Layout(s) \in Seq(Want)
  PROVE  Layout(Append(s, e)) = Append(Layout(s), [kind |-> e.kind, at |-> e.at])
<1> DEFINE a == Append(s, e)
           w == [kind |-> e.kind, at |-> e.at]
           l == Append(Layout(s), w)
<1>1. w \in Want
  BY DEF Want, Widget
<1>2. DOMAIN Layout(s) = DOMAIN s /\ \A i \in DOMAIN s : Layout(s)[i] = [kind |-> s[i].kind, at |-> s[i].at]
  BY DEF Layout
<1>3. DOMAIN s = 1..Len(s) /\ Len(s) \in Nat
  OBVIOUS
<1>4. Len(Layout(s)) = Len(s)
  <2>1. DOMAIN Layout(s) = 1..Len(Layout(s)) /\ Len(Layout(s)) \in Nat
    OBVIOUS
  <2> QED
    BY <1>2, <1>3, <2>1
<1>5. DOMAIN a = 1..(Len(s) + 1) /\ DOMAIN l = 1..(Len(s) + 1)
  <2> HIDE DEF w
  <2> QED
    BY <1>1, <1>4, AppendIs
<1>6. ASSUME NEW i \in 1..(Len(s) + 1) PROVE [kind |-> a[i].kind, at |-> a[i].at] = l[i]
  <2>1. CASE i = Len(s) + 1
    <3>1. a[i] = e
      BY <2>1, AppendIs
    <3>2. l[i] = w
      <4> HIDE DEF w
      <4> QED
        BY <1>1, <1>4, <2>1, AppendIs
    <3> QED
      BY <3>1, <3>2
  <2>2. CASE i # Len(s) + 1
    <3>1. i \in DOMAIN s
      BY <1>3, <2>2
    <3>2. a[i] = s[i]
      BY <3>1, AppendIs
    <3>3. l[i] = Layout(s)[i]
      <4> HIDE DEF w
      <4>1. i \in DOMAIN Layout(s)
        BY <1>2, <3>1
      <4> QED
        BY <1>1, <4>1, AppendIs
    <3> QED
      BY <1>2, <3>1, <3>2, <3>3
  <2> QED
    BY <2>1, <2>2
<1>7. Layout(a) = [i \in 1..(Len(s) + 1) |-> l[i]]
  BY <1>5, <1>6 DEF Layout
<1>8. l = [i \in 1..(Len(s) + 1) |-> l[i]]
  <2>1. l \in Seq(Want)
    BY <1>1, AppendProperties
  <2> HIDE DEF l
  <2> QED
    BY <1>5, <2>1
<1> QED
  BY <1>7, <1>8

\* A widget that was there is placed.
LEMMA Moved ==
  ASSUME NEW old, NEW new, NEW cbs, NEW serial, NEW hist, NEW quiet,
         Between(old, new, cbs, serial, hist, quiet),
         NEW k \in DOMAIN old, NEW r \in Seq(Widget), Removed(old, k, r),
         NEW w \in Widget, w.kind = old[k].kind, w.serial = old[k].serial, w.shown = old[k].shown
  PROVE  Between(r, Append(new, w), cbs, serial, hist, quiet)
<1> DEFINE a == Append(new, w)
           n == Len(new) + 1
<1>1. /\ old \in Seq(Widget) /\ new \in Seq(Widget) /\ serial \in Nat
      /\ Below(old, serial) /\ Below(new, serial) /\ Numbered(old) /\ Numbered(new)
      /\ Apart(old, new) /\ cbs = Listening(old) \cup Listening(new)
      /\ Right(old, hist, quiet) /\ Right(new, hist, quiet)
  BY DEF Between
<1>2. /\ a \in Seq(Widget)
      /\ \A i \in DOMAIN new : i \in DOMAIN a /\ a[i] = new[i] /\ i # n
      /\ \A i \in DOMAIN a : i \in DOMAIN new \/ i = n
      /\ n \in DOMAIN a /\ a[n] = w
  BY <1>1, AppendIs
<1>3. /\ \A j \in DOMAIN r : \E l \in DOMAIN old : l # k /\ r[j] = old[l]
      /\ \A l \in DOMAIN old : l # k => \E j \in DOMAIN r : r[j] = old[l]
      /\ \A j, m \in DOMAIN r : j # m =>
           \E l, o \in DOMAIN old : l # o /\ r[j] = old[l] /\ r[m] = old[o]
  BY <1>1, RemovedElements
<1> HIDE DEF a, n
<1>4. Below(r, serial) /\ Below(a, serial)
  <2>1. Below(r, serial)
    BY <1>1, <1>3 DEF Below
  <2>2. \A i \in DOMAIN new : a[i].serial < serial
    BY <1>1, <1>2 DEF Below
  <2>3. a[n].serial < serial
    BY <1>1, <1>2 DEF Below
  <2> QED
    BY <1>2, <2>1, <2>2, <2>3 DEF Below
<1>5. Numbered(r)
  <2> SUFFICES ASSUME NEW i \in DOMAIN r, NEW j \in DOMAIN r, r[i].serial = r[j].serial, i # j
               PROVE FALSE
    BY DEF Numbered
  <2>1. PICK l \in DOMAIN old, o \in DOMAIN old : l # o /\ r[i] = old[l] /\ r[j] = old[o]
    BY <1>3
  <2> QED
    BY <1>1, <2>1 DEF Numbered
<1>6. Numbered(a)
  <2> SUFFICES ASSUME NEW i \in DOMAIN a, NEW j \in DOMAIN a, a[i].serial = a[j].serial
               PROVE i = j
    BY DEF Numbered
  <2>1. \A l \in DOMAIN new : a[l].serial # w.serial
    BY <1>1, <1>2 DEF Apart
  <2>2. CASE i = n
    BY <1>2, <2>1, <2>2
  <2>3. CASE j = n
    BY <1>2, <2>1, <2>3
  <2>4. CASE i \in DOMAIN new /\ j \in DOMAIN new
    BY <1>1, <1>2, <2>4 DEF Numbered
  <2> QED
    BY <1>2, <2>2, <2>3, <2>4
<1>7. Apart(r, a)
  <2> SUFFICES ASSUME NEW i \in DOMAIN r, NEW j \in DOMAIN a PROVE r[i].serial # a[j].serial
    BY DEF Apart
  <2>1. PICK l \in DOMAIN old : l # k /\ r[i] = old[l]
    BY <1>3
  <2>2. CASE j = n
    BY <1>1, <1>2, <2>1, <2>2 DEF Numbered
  <2>3. CASE j \in DOMAIN new
    BY <1>1, <1>2, <2>1, <2>3 DEF Apart
  <2> QED
    BY <1>2, <2>2, <2>3
<1>8. ASSUME NEW x PROVE x \in cbs <=> x \in Listening(r) \cup Listening(a)
  <2> DEFINE In(ws, i) == Daemon!Listens(ws[i].kind) /\ x = ws[i].serial
  <2>1. /\ x \in Listening(old) <=> \E i \in DOMAIN old : In(old, i)
        /\ x \in Listening(new) <=> \E i \in DOMAIN new : In(new, i)
        /\ x \in Listening(r) <=> \E i \in DOMAIN r : In(r, i)
        /\ x \in Listening(a) <=> \E i \in DOMAIN a : In(a, i)
    BY ListeningIs
  <2>2. \A i \in DOMAIN new : In(new, i) <=> In(a, i)
    BY <1>2
  <2>3. In(old, k) <=> In(a, n)
    BY <1>2
  <2>4. (\E i \in DOMAIN old : i # k /\ In(old, i)) <=> \E i \in DOMAIN r : In(r, i)
    BY <1>3
  <2>5. (\E i \in DOMAIN a : In(a, i)) <=> In(a, n) \/ \E i \in DOMAIN new : In(a, i)
    BY <1>2
  <2>6. (\E i \in DOMAIN old : In(old, i)) <=> In(old, k) \/ \E i \in DOMAIN old : i # k /\ In(old, i)
    OBVIOUS
  <2> HIDE DEF In
  <2> QED
    BY <1>1, <2>1, <2>2, <2>3, <2>4, <2>5, <2>6
<1>9. Right(r, hist, quiet)
  BY <1>1, <1>3 DEF Right
<1>10. Right(a, hist, quiet)
  <2>1. \A i \in DOMAIN new :
          a[i].kind \in KnownWidgets /\ a[i].shown = Daemon!View(a[i].kind, hist, quiet)
    BY <1>1, <1>2 DEF Right
  <2>2. a[n].kind \in KnownWidgets /\ a[n].shown = Daemon!View(a[n].kind, hist, quiet)
    BY <1>1, <1>2 DEF Right
  <2> QED
    BY <1>2, <2>1, <2>2 DEF Right
<1>11. cbs = Listening(r) \cup Listening(a)
  BY <1>8
<1> QED
  BY <1>1, <1>2, <1>4, <1>5, <1>6, <1>7, <1>9, <1>10, <1>11 DEF Between, a

\* A widget is made and placed, and the daemon calls it back if it listens.
LEMMA Made ==
  ASSUME NEW old, NEW new, NEW cbs, NEW serial, NEW hist, NEW quiet,
         Between(old, new, cbs, serial, hist, quiet),
         NEW w \in Widget, w.kind \in KnownWidgets, w.serial = serial,
         w.shown = Daemon!View(w.kind, hist, quiet)
  PROVE  Between(old, Append(new, w), Daemon!Enabled(cbs, w.kind, serial), serial + 1, hist, quiet)
<1> DEFINE a == Append(new, w)
           n == Len(new) + 1
           e == Daemon!Enabled(cbs, w.kind, serial)
<1>1. /\ old \in Seq(Widget) /\ new \in Seq(Widget) /\ serial \in Nat
      /\ Below(old, serial) /\ Below(new, serial) /\ Numbered(old) /\ Numbered(new)
      /\ Apart(old, new) /\ cbs = Listening(old) \cup Listening(new)
      /\ Right(old, hist, quiet) /\ Right(new, hist, quiet)
  BY DEF Between
<1>2. /\ a \in Seq(Widget)
      /\ \A i \in DOMAIN new : i \in DOMAIN a /\ a[i] = new[i] /\ i # n
      /\ \A i \in DOMAIN a : i \in DOMAIN new \/ i = n
      /\ n \in DOMAIN a /\ a[n] = w
  BY <1>1, AppendIs
<1> HIDE DEF a, n
<1>a. /\ \A i \in DOMAIN old : old[i] \in Widget
      /\ \A i \in DOMAIN new : new[i] \in Widget
  BY <1>1
<1>b. /\ \A i \in DOMAIN old : old[i].serial \in Nat
      /\ \A i \in DOMAIN new : new[i].serial \in Nat
  BY <1>a DEF Widget
<1>3. /\ \A i \in DOMAIN old : old[i].serial # serial /\ old[i].serial < serial + 1
      /\ \A i \in DOMAIN new : new[i].serial # serial /\ new[i].serial < serial + 1
      /\ serial < serial + 1
  BY <1>1, <1>b DEF Below
<1>4. Below(old, serial + 1) /\ Below(a, serial + 1)
  <2>1. \A i \in DOMAIN new : a[i].serial < serial + 1
    BY <1>2, <1>3
  <2>2. a[n].serial < serial + 1
    BY <1>2, <1>3
  <2>3. \A i \in DOMAIN a : a[i].serial < serial + 1
    BY <1>2, <2>1, <2>2
  <2> QED
    BY <1>3, <2>3 DEF Below
<1>5. Numbered(a)
  <2> SUFFICES ASSUME NEW i \in DOMAIN a, NEW j \in DOMAIN a, a[i].serial = a[j].serial
               PROVE i = j
    BY DEF Numbered
  <2>1. \A l \in DOMAIN new : a[l].serial # w.serial
    BY <1>2, <1>3
  <2>2. CASE i = n
    BY <1>2, <2>1, <2>2
  <2>3. CASE j = n
    BY <1>2, <2>1, <2>3
  <2>4. CASE i \in DOMAIN new /\ j \in DOMAIN new
    BY <1>1, <1>2, <2>4 DEF Numbered
  <2> QED
    BY <1>2, <2>2, <2>3, <2>4
<1>6. Apart(old, a)
  <2> SUFFICES ASSUME NEW i \in DOMAIN old, NEW j \in DOMAIN a PROVE old[i].serial # a[j].serial
    BY DEF Apart
  <2>1. CASE j = n
    BY <1>2, <1>3, <2>1
  <2>2. CASE j \in DOMAIN new
    BY <1>1, <1>2, <2>2 DEF Apart
  <2> QED
    BY <1>2, <2>1, <2>2
<1>7. ASSUME NEW x PROVE x \in e <=> x \in Listening(old) \cup Listening(a)
  <2> DEFINE In(ws, i) == Daemon!Listens(ws[i].kind) /\ x = ws[i].serial
  <2>1. /\ x \in Listening(new) <=> \E i \in DOMAIN new : In(new, i)
        /\ x \in Listening(a) <=> \E i \in DOMAIN a : In(a, i)
    BY ListeningIs
  <2>2. \A i \in DOMAIN new : In(new, i) <=> In(a, i)
    BY <1>2
  <2>3. x \in e <=> x \in cbs \/ In(a, n)
    BY <1>2 DEF Daemon!Enabled
  <2>4. (\E i \in DOMAIN a : In(a, i)) <=> In(a, n) \/ \E i \in DOMAIN new : In(a, i)
    BY <1>2
  <2> HIDE DEF In, e
  <2> QED
    BY <1>1, <2>1, <2>2, <2>3, <2>4
<1>8. Right(a, hist, quiet)
  <2>1. \A i \in DOMAIN new :
          a[i].kind \in KnownWidgets /\ a[i].shown = Daemon!View(a[i].kind, hist, quiet)
    BY <1>1, <1>2 DEF Right
  <2> QED
    BY <1>2, <2>1 DEF Right
<1>9. e = Listening(old) \cup Listening(a)
  BY <1>7
<1> HIDE DEF e
<1>10. serial + 1 \in Nat
  BY <1>1
<1> QED
  BY <1>1, <1>2, <1>4, <1>5, <1>6, <1>8, <1>9, <1>10 DEF Between, a, e

Acc == [old : Seq(Widget), new : Seq(Widget), cbs : SUBSET Nat, serial : Nat,
        hist : Seq(Nat), quiet : BOOLEAN]

Fits(acc, hist, quiet) ==
  /\ acc \in Acc /\ acc.hist = hist /\ acc.quiet = quiet
  /\ Between(acc.old, acc.new, acc.cbs, acc.serial, hist, quiet)

\* The old widget of the wanted kind that Place takes, the new one it makes, or neither.
LEMMA PlaceIs ==
  ASSUME NEW acc \in Acc, NEW want \in Want
  PROVE  LET p == Daemon!Place(acc, want) IN
         \/ \E k \in DOMAIN acc.old :
              /\ acc.old[k].kind = want.kind
              /\ p = [acc EXCEPT !.old = Daemon!RemoveAt(@, k),
                                 !.new = Append(@, [acc.old[k] EXCEPT !.at = want.at])]
         \/ /\ want.kind \in KnownWidgets
            /\ p = [acc EXCEPT !.serial = @ + 1,
                               !.cbs = Daemon!Enabled(@, want.kind, acc.serial),
                               !.new = Append(@,
                                 [Daemon!Create(want.kind, want.at, acc.serial)
                                  EXCEPT !.shown = Daemon!View(want.kind, acc.hist, acc.quiet)])]
         \/ /\ want.kind \notin KnownWidgets /\ p = acc
            /\ \A k \in DOMAIN acc.old : acc.old[k].kind # want.kind
<1> DEFINE I == {i \in 1..Len(acc.old) : acc.old[i].kind = want.kind}
           k == Daemon!SelectInSeq(acc.old, LAMBDA w : w.kind = want.kind)
<1>1. acc.old \in Seq(Widget)
  BY DEF Acc
<1>2. DOMAIN acc.old = 1..Len(acc.old) /\ I \subseteq Nat /\ 0 \notin I
  BY <1>1
<1>3. k = IF I # {} THEN Daemon!Min(I) ELSE 0
  BY DEF Daemon!SelectInSeq
<1>4. I # {} => Daemon!Min(I) \in I
  BY <1>2, MinIs
<1>5. k = 0 <=> I = {}
  <2> HIDE DEF I, k
  <2> QED
    BY <1>2, <1>3, <1>4
<1>6. k # 0 => k \in DOMAIN acc.old /\ acc.old[k].kind = want.kind
  <2>1. k # 0 => k \in I
    <3> HIDE DEF I, k
    <3> QED
      BY <1>2, <1>3, <1>4
  <2> HIDE DEF k
  <2> QED
    BY <1>2, <2>1
<1>7. k = 0 => \A i \in DOMAIN acc.old : acc.old[i].kind # want.kind
  <2> HIDE DEF k
  <2> QED
    BY <1>2, <1>5
<1> DEFINE Takes(i) == [acc EXCEPT !.old = Daemon!RemoveAt(@, i),
                                 !.new = Append(@, [acc.old[i] EXCEPT !.at = want.at])]
           Makes == [acc EXCEPT !.serial = @ + 1,
                               !.cbs = Daemon!Enabled(@, want.kind, acc.serial),
                               !.new = Append(@,
                                 [Daemon!Create(want.kind, want.at, acc.serial)
                                  EXCEPT !.shown = Daemon!View(want.kind, acc.hist, acc.quiet)])]
<1>8. Daemon!Place(acc, want) =
        CASE k # 0 -> Takes(k) [] k = 0 /\ want.kind \in KnownWidgets -> Makes [] OTHER -> acc
  BY DEF Daemon!Place
<1> HIDE DEF I, k, Takes, Makes
<1>9. \/ k # 0 /\ Daemon!Place(acc, want) = Takes(k)
      \/ k = 0 /\ want.kind \in KnownWidgets /\ Daemon!Place(acc, want) = Makes
      \/ k = 0 /\ want.kind \notin KnownWidgets /\ Daemon!Place(acc, want) = acc
  BY <1>8
<1> QED
  BY <1>6, <1>7, <1>9, Zenon DEF Takes, Makes

\* A section that has been placed stays as it was configured.
LEMMA PlaceKeeps ==
  ASSUME NEW acc, NEW want \in Want, NEW hist, NEW quiet, Fits(acc, hist, quiet),
         Layout(acc.new) \in Seq(Want)
  PROVE  LET p == Daemon!Place(acc, want) IN
         /\ Fits(p, hist, quiet)
         /\ Layout(p.new) = IF want.kind \in KnownWidgets
                            THEN Append(Layout(acc.new), want) ELSE Layout(acc.new)
         /\ acc.old = <<>> => p.old = <<>>
<1> DEFINE p == Daemon!Place(acc, want)
           Goal == /\ Fits(p, hist, quiet)
                   /\ Layout(p.new) = IF want.kind \in KnownWidgets
                                      THEN Append(Layout(acc.new), want) ELSE Layout(acc.new)
                   /\ acc.old = <<>> => p.old = <<>>
<1>1. acc \in Acc /\ acc.hist = hist /\ acc.quiet = quiet
  BY DEF Fits
<1>2. /\ acc.old \in Seq(Widget) /\ acc.new \in Seq(Widget) /\ acc.serial \in Nat
      /\ acc.cbs \in SUBSET Nat /\ hist \in Seq(Nat) /\ quiet \in BOOLEAN
  BY <1>1 DEF Acc
<1>3. Between(acc.old, acc.new, acc.cbs, acc.serial, hist, quiet)
  BY DEF Fits
<1>4. want = [kind |-> want.kind, at |-> want.at] /\ want.kind \in Kinds /\ want.at \in Places
  BY DEF Want
<1>5. ASSUME NEW k \in DOMAIN acc.old, acc.old[k].kind = want.kind,
             p = [acc EXCEPT !.old = Daemon!RemoveAt(@, k),
                             !.new = Append(@, [acc.old[k] EXCEPT !.at = want.at])]
      PROVE  Goal
  <2> DEFINE r == Daemon!RemoveAt(acc.old, k)
             w == [acc.old[k] EXCEPT !.at = want.at]
             a == Append(acc.new, w)
  <2>1. r \in Seq(Widget) /\ Removed(acc.old, k, r)
    BY <1>2, RemoveAtIs
  <2>2. acc.old[k] \in Widget
    BY <1>2
  <2>3. w \in Widget
    BY <1>4, <2>2 DEF Widget
  <2>4. /\ w.kind = acc.old[k].kind /\ w.at = want.at /\ w.serial = acc.old[k].serial
        /\ w.shown = acc.old[k].shown
    BY <2>2 DEF Widget
  <2>5. acc.old[k].kind \in KnownWidgets
    BY <1>3 DEF Between, Right
  <2>6. p = [acc EXCEPT !.old = r, !.new = a]
    BY <1>5
  <2> HIDE DEF p, r, w, a
  <2>7. Between(r, a, acc.cbs, acc.serial, hist, quiet)
    BY <1>3, <2>1, <2>3, <2>4, Moved DEF a
  <2>8. a \in Seq(Widget)
    BY <2>7 DEF Between
  <2>9. p \in Acc
    BY <1>1, <2>1, <2>6, <2>8 DEF Acc
  <2>10. /\ p.old = r /\ p.new = a /\ p.cbs = acc.cbs /\ p.serial = acc.serial
         /\ p.hist = hist /\ p.quiet = quiet
    BY <1>1, <2>6 DEF Acc
  <2>11. Layout(a) = Append(Layout(acc.new), want)
    <3>1. Layout(a) = Append(Layout(acc.new), [kind |-> w.kind, at |-> w.at])
      BY <1>2, <2>3, LayoutAppend DEF a
    <3> QED
      BY <1>4, <1>5, <2>4, <3>1
  <2>12. Fits(p, hist, quiet)
    BY <2>7, <2>9, <2>10 DEF Fits
  <2>13. acc.old # <<>>
    OBVIOUS
  <2> QED
    BY <1>5, <2>5, <2>10, <2>11, <2>12, <2>13 DEF p
<1>6. ASSUME want.kind \in KnownWidgets,
             p = [acc EXCEPT !.serial = @ + 1,
                             !.cbs = Daemon!Enabled(@, want.kind, acc.serial),
                             !.new = Append(@,
                               [Daemon!Create(want.kind, want.at, acc.serial)
                                EXCEPT !.shown = Daemon!View(want.kind, acc.hist, acc.quiet)])]
      PROVE  Goal
  <2> DEFINE view == Daemon!View(want.kind, hist, quiet)
             w == [Daemon!Create(want.kind, want.at, acc.serial) EXCEPT !.shown = view]
             a == Append(acc.new, w)
             c == Daemon!Enabled(acc.cbs, want.kind, acc.serial)
             n == acc.serial + 1
  <2>1. view \in Nat
    BY <1>2, ViewIs
  <2>2. n \in Nat
    BY <1>2
  <2>3. Daemon!Create(want.kind, want.at, acc.serial)
          = [kind |-> want.kind, at |-> want.at, serial |-> acc.serial, shown |-> 0]
    BY DEF Daemon!Create, Daemon!NewList, Daemon!NewSwitch
  <2>4. p = [acc EXCEPT !.serial = n, !.cbs = c, !.new = a]
    BY <1>1, <1>6
  <2> HIDE DEF p, view
  <2>5. w = [kind |-> want.kind, at |-> want.at, serial |-> acc.serial, shown |-> view]
    BY <2>3
  <2> HIDE DEF w
  <2>6. w \in Widget
    BY <1>2, <1>4, <2>1, <2>5 DEF Widget
  <2>7. w.kind = want.kind /\ w.at = want.at /\ w.serial = acc.serial /\ w.shown = view
    BY <2>5
  <2>8. Between(acc.old, a, c, n, hist, quiet)
    <3>1. w.kind \in KnownWidgets /\ w.serial = acc.serial /\ w.shown = Daemon!View(w.kind, hist, quiet)
      BY <1>6, <2>7 DEF view
    <3>2. Between(acc.old, Append(acc.new, w), Daemon!Enabled(acc.cbs, w.kind, acc.serial),
                  acc.serial + 1, hist, quiet)
      BY <1>3, <2>6, <3>1, Made
    <3> QED
      BY <2>7, <3>2
  <2>9. c \in SUBSET Nat
    BY <1>2 DEF Daemon!Enabled
  <2> HIDE DEF a, c, n
  <2>10. a \in Seq(Widget)
    BY <2>8 DEF Between
  <2>11. p \in Acc
    BY <1>1, <2>2, <2>4, <2>9, <2>10 DEF Acc
  <2>12. /\ p.old = acc.old /\ p.new = a /\ p.cbs = c /\ p.serial = n
         /\ p.hist = hist /\ p.quiet = quiet
    BY <1>1, <2>4 DEF Acc
  <2>13. Layout(a) = Append(Layout(acc.new), want)
    <3>1. Layout(a) = Append(Layout(acc.new), [kind |-> w.kind, at |-> w.at])
      BY <1>2, <2>6, LayoutAppend DEF a
    <3> QED
      BY <1>4, <2>7, <3>1
  <2>14. Fits(p, hist, quiet)
    BY <2>8, <2>11, <2>12 DEF Fits
  <2> QED
    BY <1>6, <2>12, <2>13, <2>14 DEF p
<1>7. ASSUME want.kind \notin KnownWidgets, p = acc PROVE Goal
  BY <1>7
<1>8. Goal
  <2> HIDE DEF p, Goal
  <2> QED
    BY <1>1, <1>5, <1>6, <1>7, PlaceIs DEF p
<1> QED
  BY <1>8

\* What Placed computes step by step, and Known.
PlaceStep(start, wants, i, f) == IF i = 0 THEN start ELSE Daemon!Place(f[i - 1], wants[i])
KnownStep(wants, i, f) ==
  IF i = 0 THEN <<>>
  ELSE IF wants[i].kind \in KnownWidgets THEN Append(f[i - 1], wants[i]) ELSE f[i - 1]

\* Both recursions have a solution, by the least length for which there would be none.
LEMMA PlacedIs ==
  ASSUME NEW start, NEW wants, Len(wants) \in Nat
  PROVE  \E f : /\ \A i \in 0..Len(wants) : f[i] = PlaceStep(start, wants, i, f)
                /\ Daemon!Placed(start, wants) = f[Len(wants)]
<1> DEFINE Solves(n, f) == f = [i \in 0..n |-> PlaceStep(start, wants, i, f)]
           B == {n \in Nat : ~ \E f : Solves(n, f)}
<1>1. B = {}
  <2> SUFFICES ASSUME B # {} PROVE FALSE
    OBVIOUS
  <2>1. PICK m \in B : \A k \in B : m <= k
    BY LeastNatural
  <2>2. m \in Nat /\ ~ \E f : Solves(m, f)
    OBVIOUS
  <2>3. CASE m = 0
    <3> DEFINE f == [i \in 0..0 |-> start]
    <3>1. f = [i \in 0..0 |-> PlaceStep(start, wants, i, f)]
      BY DEF PlaceStep
    <3> QED
      BY <2>2, <2>3, <3>1
  <2>4. CASE m # 0
    <3>1. PICK p \in Nat : p = m - 1
      BY <2>2, <2>4
    <3>2. p \notin B
      <4>1. ~(m <= p)
        BY <2>2, <3>1
      <4> HIDE DEF B
      <4> QED
        BY <2>1, <4>1
    <3>3. PICK f : Solves(p, f)
      BY <3>2
    <3> DEFINE g == [i \in 0..m |-> PlaceStep(start, wants, i, f)]
    <3>4. ASSUME NEW i \in 0..m PROVE PlaceStep(start, wants, i, f) = PlaceStep(start, wants, i, g)
      <4>1. CASE i = 0
        BY <4>1 DEF PlaceStep
      <4>2. CASE i # 0
        <5>1. i - 1 \in 0..p /\ i - 1 \in 0..m
          BY <2>2, <3>1, <4>2
        <5>2. f[i - 1] = PlaceStep(start, wants, i - 1, f)
          BY <3>3, <5>1
        <5>3. g[i - 1] = PlaceStep(start, wants, i - 1, f)
          BY <5>1
        <5> QED
          BY <4>2, <5>2, <5>3 DEF PlaceStep
      <4> QED
        BY <4>1, <4>2
    <3>5. g = [i \in 0..m |-> PlaceStep(start, wants, i, g)]
      BY <3>4
    <3> QED
      BY <2>2, <3>5
  <2> QED
    BY <2>3, <2>4
<1>2. \E f : Solves(Len(wants), f)
  BY <1>1
<1> DEFINE done == CHOOSE f : Solves(Len(wants), f)
<1>3. Solves(Len(wants), done)
  BY <1>2
<1>4. Daemon!Placed(start, wants) = done[Len(wants)]
  BY DEF Daemon!Placed, PlaceStep
<1> HIDE DEF done
<1>5. \A i \in 0..Len(wants) : done[i] = PlaceStep(start, wants, i, done)
  BY <1>3
<1> QED
  BY <1>4, <1>5

\* The widgets of a layout that are registered, as a recursion with a solution.
LEMMA KnownIs ==
  ASSUME NEW wants, Len(wants) \in Nat
  PROVE  \E f : /\ \A i \in 0..Len(wants) : f[i] = KnownStep(wants, i, f)
                /\ Daemon!Known(wants) = f[Len(wants)]
<1> DEFINE Solves(n, f) == f = [i \in 0..n |-> KnownStep(wants, i, f)]
           B == {n \in Nat : ~ \E f : Solves(n, f)}
<1>1. B = {}
  <2> SUFFICES ASSUME B # {} PROVE FALSE
    OBVIOUS
  <2>1. PICK m \in B : \A k \in B : m <= k
    BY LeastNatural
  <2>2. m \in Nat /\ ~ \E f : Solves(m, f)
    OBVIOUS
  <2>3. CASE m = 0
    <3> DEFINE f == [i \in 0..0 |-> <<>>]
    <3>1. f = [i \in 0..0 |-> KnownStep(wants, i, f)]
      BY DEF KnownStep
    <3> QED
      BY <2>2, <2>3, <3>1
  <2>4. CASE m # 0
    <3>1. PICK p \in Nat : p = m - 1
      BY <2>2, <2>4
    <3>2. p \notin B
      <4>1. ~(m <= p)
        BY <2>2, <3>1
      <4> HIDE DEF B
      <4> QED
        BY <2>1, <4>1
    <3>3. PICK f : Solves(p, f)
      BY <3>2
    <3> DEFINE g == [i \in 0..m |-> KnownStep(wants, i, f)]
    <3>4. ASSUME NEW i \in 0..m PROVE KnownStep(wants, i, f) = KnownStep(wants, i, g)
      <4>1. CASE i = 0
        BY <4>1 DEF KnownStep
      <4>2. CASE i # 0
        <5>1. i - 1 \in 0..p /\ i - 1 \in 0..m
          BY <2>2, <3>1, <4>2
        <5>2. f[i - 1] = KnownStep(wants, i - 1, f)
          BY <3>3, <5>1
        <5>3. g[i - 1] = KnownStep(wants, i - 1, f)
          BY <5>1
        <5> QED
          BY <4>2, <5>2, <5>3 DEF KnownStep
      <4> QED
        BY <4>1, <4>2
    <3>5. g = [i \in 0..m |-> KnownStep(wants, i, g)]
      BY <3>4
    <3> QED
      BY <2>2, <3>5
  <2> QED
    BY <2>3, <2>4
<1>2. \E f : Solves(Len(wants), f)
  BY <1>1
<1> DEFINE known == CHOOSE f : Solves(Len(wants), f)
<1>3. Solves(Len(wants), known)
  BY <1>2
<1>4. Daemon!Known(wants) = known[Len(wants)]
  BY DEF Daemon!Known, KnownStep
<1> HIDE DEF known
<1>5. \A i \in 0..Len(wants) : known[i] = KnownStep(wants, i, known)
  BY <1>3
<1> QED
  BY <1>4, <1>5

\* However long the layout, it is placed as configured.
LEMMA PlacedFits ==
  ASSUME NEW start, NEW wants \in Seq(Want), NEW hist, NEW quiet,
         Fits(start, hist, quiet), start.new = <<>>
  PROVE  /\ Fits(Daemon!Placed(start, wants), hist, quiet)
         /\ Layout(Daemon!Placed(start, wants).new) = Daemon!Known(wants)
         /\ start.old = <<>> => Daemon!Placed(start, wants).old = <<>>
<1>1. Len(wants) \in Nat /\ DOMAIN wants = 1..Len(wants) /\ \A i \in 1..Len(wants) : wants[i] \in Want
  OBVIOUS
<1>2. PICK f : /\ \A i \in 0..Len(wants) : f[i] = PlaceStep(start, wants, i, f)
               /\ Daemon!Placed(start, wants) = f[Len(wants)]
  BY <1>1, PlacedIs
<1>3. PICK g : /\ \A i \in 0..Len(wants) : g[i] = KnownStep(wants, i, g)
               /\ Daemon!Known(wants) = g[Len(wants)]
  BY <1>1, KnownIs
<1> DEFINE Fine(n) == /\ Fits(f[n], hist, quiet)
                      /\ Layout(f[n].new) = g[n] /\ g[n] \in Seq(Want)
                      /\ start.old = <<>> => f[n].old = <<>>
           B == {n \in 0..Len(wants) : ~Fine(n)}
<1>4. B = {}
  <2> SUFFICES ASSUME B # {} PROVE FALSE
    OBVIOUS
  <2>1. B \subseteq Nat
    OBVIOUS
  <2>2. PICK n \in B : \A k \in B : n <= k
    BY <2>1, LeastNatural
  <2>3. n \in 0..Len(wants) /\ ~Fine(n)
    OBVIOUS
  <2>4. CASE n = 0
    <3>1. f[0] = start /\ g[0] = <<>>
      BY <1>1, <1>2, <1>3 DEF PlaceStep, KnownStep
    <3>2. Layout(<<>>) = <<>>
      BY DEF Layout
    <3>3. <<>> \in Seq(Want)
      OBVIOUS
    <3> QED
      BY <2>3, <2>4, <3>1, <3>2, <3>3
  <2>5. CASE n # 0
    <3>1. PICK p \in 0..Len(wants) : p = n - 1
      BY <1>1, <2>3, <2>5
    <3>2. Fine(p)
      <4>1. ~(n <= p)
        BY <1>1, <2>3, <3>1
      <4>2. p \notin B
        <5> HIDE DEF B
        <5> QED
          BY <2>2, <4>1
      <4> HIDE DEF Fine
      <4> QED
        BY <4>2
    <3>3. wants[n] \in Want
      BY <1>1, <2>3, <2>5
    <3>4. f[n] = Daemon!Place(f[p], wants[n])
      BY <1>2, <2>3, <2>5, <3>1 DEF PlaceStep
    <3>5. g[n] = IF wants[n].kind \in KnownWidgets THEN Append(g[p], wants[n]) ELSE g[p]
      BY <1>3, <2>3, <2>5, <3>1 DEF KnownStep
    <3>6. /\ Fits(f[n], hist, quiet)
          /\ Layout(f[n].new) = IF wants[n].kind \in KnownWidgets
                                THEN Append(Layout(f[p].new), wants[n]) ELSE Layout(f[p].new)
          /\ f[p].old = <<>> => f[n].old = <<>>
      BY <3>2, <3>3, <3>4, PlaceKeeps
    <3>7. g[n] \in Seq(Want)
      BY <3>2, <3>3, <3>5
    <3> QED
      BY <2>3, <3>2, <3>5, <3>6, <3>7
  <2> QED
    BY <2>4, <2>5
<1>5. Fine(Len(wants))
  <2>1. Len(wants) \in 0..Len(wants)
    BY <1>1
  <2> HIDE DEF Fine
  <2> QED
    BY <1>4, <2>1
<1> QED
  BY <1>2, <1>3, <1>5

-----------------------------------------------------------------------------
(* The panel after a reload.                                               *)

\* The sections of a configured panel are sequences of wants.
LEMMA SectionsAreWants ==
  ASSUME PanelsAssumption, NEW c \in Panels
  PROVE  Daemon!Sections(c) \in Seq(Want)
<1> DEFINE Of(ids, at) == [i \in DOMAIN ids |-> [kind |-> ids[i], at |-> at]]
<1>1. ASSUME NEW ids, ids \in Seq(Daemon!Range(ids)), Daemon!Range(ids) \subseteq Kinds, NEW at \in Places
      PROVE  Of(ids, at) \in Seq(Want)
  <2>1. DOMAIN ids = 1..Len(ids) /\ Len(ids) \in Nat
    BY <1>1
  <2>2. \A i \in 1..Len(ids) : ids[i] \in Kinds
    BY <1>1, <2>1 DEF Daemon!Range
  <2>3. \A i \in 1..Len(ids) : [kind |-> ids[i], at |-> at] \in Want
    BY <2>2 DEF Want
  <2> QED
    BY <2>1, <2>3
<1>2. \A ids \in {c.left, c.center, c.right} :
        ids \in Seq(Daemon!Range(ids)) /\ Daemon!Range(ids) \subseteq Kinds
  BY DEF PanelsAssumption, Kinds
<1>3. "left" \in Places /\ "center" \in Places /\ "right" \in Places
  BY DEF Places
<1>4. Of(c.left, "left") \in Seq(Want) /\ Of(c.center, "center") \in Seq(Want) /\ Of(c.right, "right") \in Seq(Want)
  <2> HIDE DEF Of
  <2> QED
    BY <1>1, <1>2, <1>3
<1>5. Daemon!Sections(c) = Of(c.left, "left") \o Of(c.center, "center") \o Of(c.right, "right")
  BY DEF Daemon!Sections
<1> HIDE DEF Of
<1> QED
  BY <1>4, <1>5, ConcatProperties

\* Before anything is placed there is nothing to be right about.
LEMMA StartFits ==
  ASSUME NEW ws \in Seq(Widget), NEW cbs, NEW serial \in Nat,
         NEW hist \in Seq(Nat), NEW quiet \in BOOLEAN,
         Numbered(ws), cbs = Listening(ws), Right(ws, hist, quiet), Below(ws, serial)
  PROVE  Fits([old |-> ws, new |-> <<>>, cbs |-> cbs, serial |-> serial,
               hist |-> hist, quiet |-> quiet], hist, quiet)
<1> DEFINE start == [old |-> ws, new |-> <<>>, cbs |-> cbs, serial |-> serial,
                     hist |-> hist, quiet |-> quiet]
<1>1. <<>> \in Seq(Widget) /\ DOMAIN <<>> = {}
  OBVIOUS
<1>2. Listening(<<>>) = {} /\ Right(<<>>, hist, quiet) /\ Numbered(<<>>) /\ Apart(ws, <<>>) /\ Below(<<>>, serial)
  BY <1>1 DEF Listening, Daemon!Range, Right, Numbered, Apart, Below
<1>3. cbs \in SUBSET Nat
  <2>1. \A i \in DOMAIN ws : ws[i] \in Widget
    OBVIOUS
  <2>2. \A i \in DOMAIN ws : ws[i].serial \in Nat
    BY <2>1 DEF Widget
  <2> QED
    BY <2>2, ListeningIs
<1>4. start \in Acc
  BY <1>1, <1>3 DEF Acc
<1>5. Between(ws, <<>>, cbs, serial, hist, quiet)
  BY <1>1, <1>2 DEF Between
<1> QED
  BY <1>4, <1>5 DEF Fits

\* What the layout leaves is what the daemon calls back.
LEMMA LeftOver ==
  ASSUME NEW acc, NEW hist, NEW quiet, Fits(acc, hist, quiet)
  PROVE  /\ acc.new \in Seq(Widget) /\ Numbered(acc.new) /\ Right(acc.new, hist, quiet)
         /\ Daemon!Disabled(acc.cbs, acc.old) = Listening(acc.new)
<1>1. Between(acc.old, acc.new, acc.cbs, acc.serial, hist, quiet)
  BY DEF Fits
<1>2. ASSUME NEW x PROVE x \in Daemon!Disabled(acc.cbs, acc.old) <=> x \in Listening(acc.new)
  <2>1. x \in Daemon!Serials(acc.old) <=> \E i \in DOMAIN acc.old : x = acc.old[i].serial
    BY DEF Daemon!Serials, Daemon!Range
  <2>2. /\ x \in Listening(acc.old) => x \in Daemon!Serials(acc.old)
        /\ x \in Listening(acc.new) => x \notin Daemon!Serials(acc.old)
    BY <1>1, <2>1, ListeningIs DEF Between, Apart
  <2>3. x \in acc.cbs <=> x \in Listening(acc.old) \/ x \in Listening(acc.new)
    BY <1>1 DEF Between
  <2> QED
    BY <2>2, <2>3 DEF Daemon!Disabled, Daemon!Forget
<1> QED
  BY <1>1, <1>2 DEF Between

\* The reconciled panel shows what is configured, and everything left over has forgotten the daemon.
LEMMA ReconcileIs ==
  ASSUME PanelsAssumption, NEW ws \in Seq(Widget), NEW c \in Panels,
         NEW hist \in Seq(Nat), NEW quiet \in BOOLEAN,
         Numbered(ws), callbacks = Listening(ws), Right(ws, hist, quiet)
  PROVE  LET d == Daemon!Reconcile(ws, c, hist, quiet) IN
         /\ d.widgets \in Seq(Widget) /\ Numbered(d.widgets)
         /\ d.callbacks = Listening(d.widgets) /\ Right(d.widgets, hist, quiet)
         /\ Layout(d.widgets) = Daemon!Known(Daemon!Sections(c))
<1> DEFINE born == Daemon!Born(ws)
           start == [old |-> ws, new |-> <<>>, cbs |-> callbacks, serial |-> born,
                     hist |-> hist, quiet |-> quiet]
           done == Daemon!Placed(start, Daemon!Sections(c))
<1>1. born \in Nat /\ Below(ws, born)
  BY BornIs DEF Below
<1>2. Daemon!Reconcile(ws, c, hist, quiet)
        = [widgets |-> done.new, callbacks |-> Daemon!Disabled(done.cbs, done.old)]
  BY DEF Daemon!Reconcile
<1> HIDE DEF born
<1>3. Fits(start, hist, quiet) /\ start.new = <<>>
  BY <1>1, StartFits
<1> HIDE DEF start
<1>4. Fits(done, hist, quiet) /\ Layout(done.new) = Daemon!Known(Daemon!Sections(c))
  BY <1>3, SectionsAreWants, PlacedFits
<1> HIDE DEF done
<1> QED
  BY <1>2, <1>4, LeftOver

-----------------------------------------------------------------------------
(* What the calls do to the screen.                                        *)

\* Some toasts go, and the identifier of those is reported closed.
LEMMA FewerToasts ==
  ASSUME NEW ts, NEW next, NEW quiet, NEW given, NEW told, NEW quieted,
         Screen(ts, next, quiet, given, told, quieted), NEW x \in Nat, NEW r \in Seq(Toast),
         \A j \in DOMAIN r : \E k \in DOMAIN ts : r[j] = ts[k],
         \A j, m \in DOMAIN r : j # m => \E k, l \in DOMAIN ts : k # l /\ r[j] = ts[k] /\ r[m] = ts[l],
         \A k \in DOMAIN ts : ts[k].id # x => \E j \in DOMAIN r : r[j] = ts[k]
  PROVE  Screen(r, next, quiet, given, told \cup {x}, quieted)
<1>1. /\ ts \in Seq(Toast) /\ next \in Nat /\ quiet \in BOOLEAN
      /\ given \in SUBSET Nat /\ told \in SUBSET Nat /\ quieted \in SUBSET Nat
      /\ quiet => ts = <<>>
      /\ Single(ts) /\ Covered(ts, given, told, quieted)
      /\ 0 \notin given /\ \A y \in given : y <= next \/ y \in Foreign
      /\ \A i \in DOMAIN ts : ts[i].id \in given
  BY DEF Screen
<1>2. quiet => r = <<>>
  <2> SUFFICES ASSUME quiet PROVE r = <<>>
    OBVIOUS
  <2>1. DOMAIN ts = {}
    BY <1>1
  <2>2. DOMAIN r = {}
    BY <2>1
  <2> QED
    BY <2>2
<1>3. Single(r)
  <2> SUFFICES ASSUME NEW j \in DOMAIN r, NEW m \in DOMAIN r, r[j].id = r[m].id, j # m
               PROVE r[j].id \in Foreign
    BY DEF Single
  <2>1. PICK k \in DOMAIN ts, l \in DOMAIN ts : k # l /\ r[j] = ts[k] /\ r[m] = ts[l]
    OBVIOUS
  <2> QED
    BY <1>1, <2>1 DEF Single
<1>4. Covered(r, given, told \cup {x}, quieted)
  <2> SUFFICES ASSUME NEW y \in given, y \notin told \cup {x}, y \notin quieted
               PROVE \E j \in DOMAIN r : r[j].id = y
    BY DEF Covered
  <2>1. PICK k \in DOMAIN ts : ts[k].id = y
    BY <1>1 DEF Covered
  <2>2. PICK j \in DOMAIN r : r[j] = ts[k]
    BY <2>1
  <2> QED
    BY <2>1, <2>2
<1>5. \A j \in DOMAIN r : r[j].id \in given
  BY <1>1
<1>6. told \cup {x} \in SUBSET Nat
  BY <1>1
<1> QED
  BY <1>1, <1>2, <1>3, <1>4, <1>5, <1>6 DEF Screen

\* What is left of the toasts without an identifier.
LEMMA WithoutIs ==
  ASSUME NEW ts \in Seq(Toast), NEW x
  PROVE  LET r == Daemon!Without(ts, x) IN
         /\ r \in Seq(Toast)
         /\ \A j \in DOMAIN r : \E k \in DOMAIN ts : r[j] = ts[k]
         /\ \A j, m \in DOMAIN r : j # m => \E k, l \in DOMAIN ts : k # l /\ r[j] = ts[k] /\ r[m] = ts[l]
         /\ \A k \in DOMAIN ts : ts[k].id # x => \E j \in DOMAIN r : r[j] = ts[k]
         /\ Single(ts) /\ x \notin Foreign => \A j \in DOMAIN r : r[j].id # x
<1> DEFINE r == Daemon!Without(ts, x)
<1>1. CASE r = ts /\ \A i \in DOMAIN ts : ts[i].id # x
  BY <1>1
<1>2. ASSUME NEW i \in DOMAIN ts, ts[i].id = x, r \in Seq(Toast), Removed(ts, i, r)
      PROVE  /\ r \in Seq(Toast)
             /\ \A j \in DOMAIN r : \E k \in DOMAIN ts : r[j] = ts[k]
             /\ \A j, m \in DOMAIN r : j # m => \E k, l \in DOMAIN ts : k # l /\ r[j] = ts[k] /\ r[m] = ts[l]
             /\ \A k \in DOMAIN ts : ts[k].id # x => \E j \in DOMAIN r : r[j] = ts[k]
             /\ Single(ts) /\ x \notin Foreign => \A j \in DOMAIN r : r[j].id # x
  <2> HIDE DEF r
  <2>1. /\ \A j \in DOMAIN r : \E k \in DOMAIN ts : k # i /\ r[j] = ts[k]
        /\ \A k \in DOMAIN ts : k # i => \E j \in DOMAIN r : r[j] = ts[k]
        /\ \A j, m \in DOMAIN r : j # m => \E k, l \in DOMAIN ts : k # l /\ r[j] = ts[k] /\ r[m] = ts[l]
    BY <1>2, RemovedElements
  <2>2. Single(ts) /\ x \notin Foreign => \A j \in DOMAIN r : r[j].id # x
    <3> SUFFICES ASSUME Single(ts), x \notin Foreign, NEW j \in DOMAIN r PROVE r[j].id # x
      OBVIOUS
    <3>1. PICK k \in DOMAIN ts : k # i /\ r[j] = ts[k]
      BY <2>1
    <3> QED
      BY <1>2, <3>1 DEF Single
  <2>3. \A k \in DOMAIN ts : ts[k].id # x => \E j \in DOMAIN r : r[j] = ts[k]
    BY <1>2, <2>1
  <2> QED
    BY <1>2, <2>1, <2>2, <2>3
<1>3. \/ r = ts /\ \A i \in DOMAIN ts : ts[i].id # x
      \/ \E i \in DOMAIN ts : ts[i].id = x /\ r \in Seq(Toast) /\ Removed(ts, i, r)
  BY ToastsWithout
<1> QED
  BY <1>1, <1>2, <1>3

\* A notification comes.
LEMMA NotifyScreen ==
  ASSUME NEW ts, NEW next, NEW quiet, NEW given, NEW told, NEW quieted,
         Screen(ts, next, quiet, given, told, quieted),
         NEW replaces \in {0} \cup given \cup Foreign, Foreign \subseteq Nat, NEW n \in Nat,
         NEW id, id = (IF replaces # 0 THEN replaces ELSE next + 1),
         NEW next2, next2 = (IF replaces # 0 THEN next ELSE id),
         NEW ts2, ts2 = (IF quiet THEN Daemon!Without(ts, replaces)
                         ELSE Append(Daemon!Without(ts, replaces), [n |-> n, id |-> id]))
  PROVE  Screen(ts2, next2, quiet, given \cup {id}, told \ {id},
                IF quiet THEN quieted \cup {id} ELSE quieted \ {id})
<1> DEFINE r == Daemon!Without(ts, replaces)
           t == [n |-> n, id |-> id]
           quieted2 == IF quiet THEN quieted \cup {id} ELSE quieted \ {id}
<1>1. /\ ts \in Seq(Toast) /\ next \in Nat /\ quiet \in BOOLEAN
      /\ given \in SUBSET Nat /\ told \in SUBSET Nat /\ quieted \in SUBSET Nat
      /\ quiet => ts = <<>>
      /\ Single(ts) /\ Covered(ts, given, told, quieted)
      /\ 0 \notin given /\ \A y \in given : y <= next \/ y \in Foreign
      /\ \A i \in DOMAIN ts : ts[i].id \in given
  BY DEF Screen
<1>2. /\ r \in Seq(Toast)
      /\ \A j \in DOMAIN r : \E k \in DOMAIN ts : r[j] = ts[k]
      /\ \A j, m \in DOMAIN r : j # m => \E k, l \in DOMAIN ts : k # l /\ r[j] = ts[k] /\ r[m] = ts[l]
      /\ \A k \in DOMAIN ts : ts[k].id # replaces => \E j \in DOMAIN r : r[j] = ts[k]
      /\ replaces \notin Foreign => \A j \in DOMAIN r : r[j].id # replaces
  BY <1>1, WithoutIs
<1>3. replaces \in Nat /\ id \in Nat /\ id # 0 /\ next2 \in Nat /\ next <= next2
  BY <1>1
<1> HIDE DEF r
<1>4. id \notin Foreign => \A j \in DOMAIN r : r[j].id # id
  <2>1. CASE replaces # 0
    BY <1>2, <2>1
  <2>2. CASE replaces = 0
    <3> SUFFICES ASSUME id \notin Foreign, NEW j \in DOMAIN r, r[j].id = id PROVE FALSE
      OBVIOUS
    <3>1. id \in given
      BY <1>1, <1>2
    <3> QED
      BY <1>1, <2>2, <3>1
  <2> QED
    BY <2>1, <2>2
<1>5. \A j \in DOMAIN r : r[j].id \in given
  BY <1>1, <1>2
<1>6. \A y \in given \cup {id} : y <= next2 \/ y \in Foreign
  <2> SUFFICES ASSUME NEW y \in given \cup {id}, y \notin Foreign PROVE y <= next2
    OBVIOUS
  <2>1. CASE y \in given
    BY <1>1, <1>3, <2>1
  <2>2. CASE y = id
    <3>1. CASE replaces = 0
      BY <1>3, <2>2, <3>1
    <3>2. CASE replaces # 0
      BY <1>1, <1>3, <2>2, <3>2
    <3> QED
      BY <3>1, <3>2
  <2> QED
    BY <2>1, <2>2
<1>7. \A y \in given : y # id => (\E j \in DOMAIN r : r[j].id = y) \/ y \in told \/ y \in quieted
  <2> SUFFICES ASSUME NEW y \in given, y # id, y \notin told, y \notin quieted
               PROVE \E j \in DOMAIN r : r[j].id = y
    OBVIOUS
  <2>1. PICK k \in DOMAIN ts : ts[k].id = y
    BY <1>1 DEF Covered
  <2>2. y # replaces
    BY <1>1
  <2> QED
    BY <1>2, <2>1, <2>2
<1>8. /\ given \cup {id} \in SUBSET Nat /\ told \ {id} \in SUBSET Nat /\ quieted2 \in SUBSET Nat
      /\ 0 \notin given \cup {id}
  BY <1>1, <1>3
<1>9. Single(r)
  <2> SUFFICES ASSUME NEW j \in DOMAIN r, NEW m \in DOMAIN r, r[j].id = r[m].id, j # m
               PROVE r[j].id \in Foreign
    BY DEF Single
  <2>1. PICK k \in DOMAIN ts, l \in DOMAIN ts : k # l /\ r[j] = ts[k] /\ r[m] = ts[l]
    BY <1>2
  <2> QED
    BY <1>1, <2>1 DEF Single
<1>10. CASE quiet
  <2>1. ts2 = r
    BY <1>10 DEF r
  <2>a. DOMAIN ts = {}
    BY <1>1, <1>10
  <2>2. DOMAIN r = {}
    BY <1>2, <2>a
  <2>3. r = <<>>
    BY <1>2, <2>2
  <2>4. Covered(r, given \cup {id}, told \ {id}, quieted2)
    BY <1>7, <1>10 DEF Covered
  <2> QED
    BY <1>1, <1>2, <1>3, <1>5, <1>6, <1>8, <1>9, <2>1, <2>3, <2>4 DEF Screen
<1>11. CASE ~quiet
  <2> DEFINE a == Append(r, t)
             m == Len(r) + 1
  <2>1. ts2 = a
    BY <1>11 DEF r
  <2>2. t \in Toast /\ t.id = id
    BY <1>3 DEF Toast
  <2> HIDE DEF t
  <2>3. /\ a \in Seq(Toast)
        /\ \A i \in DOMAIN r : i \in DOMAIN a /\ a[i] = r[i] /\ i # m
        /\ \A i \in DOMAIN a : i \in DOMAIN r \/ i = m
        /\ m \in DOMAIN a /\ a[m] = t
    BY <1>2, <2>2, AppendIs
  <2> HIDE DEF a, m
  <2>4. Single(a)
    <3> SUFFICES ASSUME NEW i \in DOMAIN a, NEW j \in DOMAIN a, a[i].id = a[j].id, a[i].id \notin Foreign
                 PROVE i = j
      BY DEF Single
    <3>1. CASE i = m
      BY <1>4, <2>2, <2>3, <3>1
    <3>2. CASE j = m
      BY <1>4, <2>2, <2>3, <3>2
    <3>3. CASE i \in DOMAIN r /\ j \in DOMAIN r
      BY <1>9, <2>3, <3>3 DEF Single
    <3> QED
      BY <2>3, <3>1, <3>2, <3>3
  <2>5. Covered(a, given \cup {id}, told \ {id}, quieted2)
    <3> SUFFICES ASSUME NEW y \in given \cup {id}
                 PROVE (\E i \in DOMAIN a : a[i].id = y) \/ y \in told \ {id} \/ y \in quieted2
      BY DEF Covered
    <3>1. CASE y = id
      BY <2>2, <2>3, <3>1
    <3>2. CASE y # id
      <4>1. (\E j \in DOMAIN r : r[j].id = y) => \E j \in DOMAIN a : a[j].id = y
        BY <2>3
      <4> QED
        BY <1>7, <1>11, <3>2, <4>1
    <3> QED
      BY <3>1, <3>2
  <2>6. \A i \in DOMAIN a : a[i].id \in given \cup {id}
    BY <1>5, <2>2, <2>3
  <2> QED
    BY <1>1, <1>3, <1>6, <1>8, <1>11, <2>1, <2>3, <2>4, <2>5, <2>6 DEF Screen
<1> QED
  BY <1>1, <1>10, <1>11

-----------------------------------------------------------------------------
(* The daemon.                                                             *)

\* The widgets look again.
LEMMA ShowsAgain ==
  ASSUME Mirror(widgets, callbacks, history, dnd, maxHistory, notifications_config),
         NEW hist \in Seq(Nat), Len(hist) <= maxHistory, NEW quiet \in BOOLEAN
  PROVE  Mirror(Daemon!Emit(widgets, hist, quiet), callbacks, hist, quiet, maxHistory,
                notifications_config)
<1> DEFINE e == Daemon!Emit(widgets, hist, quiet)
<1>1. /\ widgets \in Seq(Widget) /\ history \in Seq(Nat) /\ dnd \in BOOLEAN /\ maxHistory \in Nat
      /\ notifications_config \in Panels /\ Numbered(widgets) /\ callbacks = Listening(widgets)
      /\ Right(widgets, history, dnd)
      /\ Layout(widgets) = Daemon!Known(Daemon!Sections(notifications_config))
  BY DEF Mirror
<1>2. e \in Seq(Widget) /\ SameWidgets(widgets, e) /\ Right(e, hist, quiet)
  BY <1>1, EmitIs
<1> HIDE DEF e
<1>3. Numbered(e) /\ Listening(e) = Listening(widgets) /\ Layout(e) = Layout(widgets)
  BY <1>1, <1>2, SameAreSame
<1> QED
  BY <1>1, <1>2, <1>3 DEF Mirror, e

\* The first state satisfies the invariant.
LEMMA DaemonInit ==
  ASSUME PanelsAssumption, Daemon!Init
  PROVE  DaemonInv
<1> DEFINE start == [old |-> <<>>, new |-> <<>>, cbs |-> {}, serial |-> 1,
                     hist |-> <<>>, quiet |-> FALSE]
           made == Daemon!Placed(start, Daemon!Sections(notifications_config))
<1>1. /\ toasts = <<>> /\ history = <<>> /\ nextId = 1 /\ dnd = FALSE
      /\ notifications_config \in Panels /\ maxHistory = notifications_config.max
      /\ widgets = made.new /\ callbacks = made.cbs
      /\ issued = {} /\ notifications_told = {} /\ silenced = {} /\ notifications_ops = 0
  BY DEF Daemon!Init
<1>2. maxHistory \in Nat
  BY <1>1 DEF PanelsAssumption
<1>3. <<>> \in Seq(Widget) /\ <<>> \in Seq(Nat) /\ <<>> \in Seq(Toast) /\ DOMAIN <<>> = {} /\ Len(<<>>) = 0
  OBVIOUS
<1>4. Listening(<<>>) = {} /\ Right(<<>>, <<>>, FALSE) /\ Numbered(<<>>) /\ Below(<<>>, 1)
  BY <1>3 DEF Listening, Daemon!Range, Right, Numbered, Below
<1>5. Fits(start, <<>>, FALSE) /\ start.new = <<>> /\ start.old = <<>>
  BY <1>3, <1>4, StartFits
<1> HIDE DEF start
<1>6. /\ Fits(made, <<>>, FALSE) /\ made.old = <<>>
      /\ Layout(made.new) = Daemon!Known(Daemon!Sections(notifications_config))
  BY <1>1, <1>5, SectionsAreWants, PlacedFits
<1> HIDE DEF made
<1>7. /\ made.new \in Seq(Widget) /\ Numbered(made.new) /\ Right(made.new, <<>>, FALSE)
      /\ made.cbs = Listening(<<>>) \cup Listening(made.new)
  BY <1>6 DEF Fits, Between
<1>8. Mirror(made.new, made.cbs, <<>>, FALSE, maxHistory, notifications_config)
  <2>1. made.cbs = Listening(made.new)
    BY <1>4, <1>7
  <2>2. Len(<<>>) <= maxHistory
    BY <1>2
  <2> QED
    BY <1>1, <1>2, <1>3, <1>6, <1>7, <2>1, <2>2 DEF Mirror
<1>9. Screen(toasts, nextId, dnd, issued, notifications_told, silenced)
  BY <1>1, <1>3 DEF Screen, Single, Covered
<1> QED
  BY <1>1, <1>8, <1>9 DEF DaemonInv

\* A notification, new or replacing one.
LEMMA NotifyKeeps ==
  ASSUME PanelsAssumption, DaemonInv, NEW replaces \in {0} \cup issued \cup Foreign,
         Daemon!Notify(replaces)
  PROVE  DaemonInv'
<1> DEFINE id == IF replaces # 0 THEN replaces ELSE nextId + 1
           older == Daemon!RemoveFirst(history, replaces)
           hist == Daemon!Trim(<<id>> \o older, maxHistory)
<1>1. /\ Screen(toasts, nextId, dnd, issued, notifications_told, silenced)
      /\ Mirror(widgets, callbacks, history, dnd, maxHistory, notifications_config)
      /\ notifications_ops \in Nat
  BY DEF DaemonInv
<1>2. Foreign \subseteq Nat
  BY DEF PanelsAssumption
<1>3. /\ nextId' = (IF replaces # 0 THEN nextId ELSE id)
      /\ toasts' = (IF dnd THEN Daemon!Without(toasts, replaces)
                    ELSE Append(Daemon!Without(toasts, replaces),
                                [n |-> notifications_ops, id |-> id]))
      /\ history' = hist
      /\ widgets' = Daemon!Emit(widgets, hist, dnd)
      /\ issued' = issued \cup {id}
      /\ notifications_told' = notifications_told \ {id}
      /\ silenced' = (IF dnd THEN silenced \cup {id} ELSE silenced \ {id})
      /\ UNCHANGED <<maxHistory, dnd, callbacks, notifications_config>>
      /\ notifications_ops' = notifications_ops + 1
  BY DEF Daemon!Notify, Daemon!Op
<1>4. /\ nextId \in Nat /\ dnd \in BOOLEAN /\ issued \in SUBSET Nat
      /\ history \in Seq(Nat) /\ maxHistory \in Nat
  BY <1>1 DEF Screen, Mirror
<1>5. id \in Nat
  <2>1. replaces \in Nat /\ nextId + 1 \in Nat
    BY <1>2, <1>4
  <2> QED
    BY <2>1
<1>6. hist \in Seq(Nat) /\ Len(hist) <= maxHistory
  <2>1. older \in Seq(Nat)
    BY <1>4, HistoryWithout
  <2> HIDE DEF older, id
  <2>2. <<id>> \o older \in Seq(Nat)
    BY <1>5, <2>1
  <2> QED
    BY <1>4, <2>2, TrimIs
<1> HIDE DEF id, hist
<1>7. Screen(toasts', nextId', dnd, issued', notifications_told', silenced')
  BY <1>1, <1>2, <1>3, NotifyScreen DEF id
<1>8. Mirror(widgets', callbacks, history', dnd, maxHistory, notifications_config)
  BY <1>1, <1>3, <1>4, <1>6, ShowsAgain
<1>9. notifications_ops' \in Nat
  BY <1>1, <1>3
<1> QED
  BY <1>3, <1>7, <1>8, <1>9 DEF DaemonInv

\* A toast goes by a call, by its timer or by hand.
LEMMA ToastsGo ==
  ASSUME DaemonInv,
         \/ \E id \in Nat : Daemon!CloseNotification(id)
         \/ \E i \in DOMAIN toasts : Daemon!Expire(i) \/ Daemon!Dismiss(i)
  PROVE  DaemonInv'
<1>1. /\ Screen(toasts, nextId, dnd, issued, notifications_told, silenced)
      /\ Mirror(widgets, callbacks, history, dnd, maxHistory, notifications_config)
      /\ notifications_ops \in Nat
  BY DEF DaemonInv
<1>2. toasts \in Seq(Toast)
  BY <1>1 DEF Screen
<1> DEFINE Frame == /\ UNCHANGED <<history, nextId, maxHistory, dnd, callbacks, widgets,
                                   notifications_config, issued, silenced>>
                    /\ notifications_ops' \in Nat
<1>3. ASSUME NEW x \in Nat, NEW r \in Seq(Toast), toasts' = r,
             notifications_told' = notifications_told \cup {x}, Frame,
             \A j \in DOMAIN r : \E k \in DOMAIN toasts : r[j] = toasts[k],
             \A j, m \in DOMAIN r : j # m =>
               \E k, l \in DOMAIN toasts : k # l /\ r[j] = toasts[k] /\ r[m] = toasts[l],
             \A k \in DOMAIN toasts : toasts[k].id # x => \E j \in DOMAIN r : r[j] = toasts[k]
      PROVE  DaemonInv'
  <2>1. Screen(r, nextId, dnd, issued, notifications_told \cup {x}, silenced)
    BY <1>1, <1>3, FewerToasts
  <2> QED
    BY <1>1, <1>3, <2>1 DEF DaemonInv
<1>4. ASSUME NEW id \in Nat, Daemon!CloseNotification(id) PROVE DaemonInv'
  <2> DEFINE r == Daemon!Without(toasts, id)
  <2>1. toasts' = r /\ notifications_told' = notifications_told \cup {id} /\ Frame
    BY <1>1, <1>4 DEF Daemon!CloseNotification, Daemon!Op
  <2>2. /\ r \in Seq(Toast)
        /\ \A j \in DOMAIN r : \E k \in DOMAIN toasts : r[j] = toasts[k]
        /\ \A j, m \in DOMAIN r : j # m =>
             \E k, l \in DOMAIN toasts : k # l /\ r[j] = toasts[k] /\ r[m] = toasts[l]
        /\ \A k \in DOMAIN toasts : toasts[k].id # id => \E j \in DOMAIN r : r[j] = toasts[k]
    BY <1>2, WithoutIs
  <2> HIDE DEF r, Frame
  <2> QED
    BY <1>3, <2>1, <2>2
<1>5. ASSUME NEW i \in DOMAIN toasts, Daemon!Expire(i) \/ Daemon!Dismiss(i) PROVE DaemonInv'
  <2> DEFINE x == toasts[i].id
  <2>0. x \in Nat
    <3>1. toasts[i] \in Toast
      BY <1>2
    <3> QED
      BY <3>1 DEF Toast
  <2>1. CASE Daemon!Expire(i)
    <3> DEFINE r == Daemon!RemoveAt(toasts, i)
    <3>1. toasts' = r /\ notifications_told' = notifications_told \cup {x} /\ Frame
      BY <1>1, <2>1 DEF Daemon!Expire
    <3>2. r \in Seq(Toast) /\ Removed(toasts, i, r)
      BY <1>2, RemoveAtIs
    <3> HIDE DEF r, Frame
    <3>3. /\ \A j \in DOMAIN r : \E k \in DOMAIN toasts : k # i /\ r[j] = toasts[k]
          /\ \A k \in DOMAIN toasts : k # i => \E j \in DOMAIN r : r[j] = toasts[k]
          /\ \A j, m \in DOMAIN r : j # m =>
               \E k, l \in DOMAIN toasts : k # l /\ r[j] = toasts[k] /\ r[m] = toasts[l]
      BY <1>2, <3>2, RemovedElements
    <3>4. \A k \in DOMAIN toasts : toasts[k].id # x => \E j \in DOMAIN r : r[j] = toasts[k]
      BY <3>3
    <3>5. \A j \in DOMAIN r : \E k \in DOMAIN toasts : r[j] = toasts[k]
      BY <3>3
    <3> HIDE DEF x
    <3> QED
      BY <1>3, <2>0, <3>1, <3>2, <3>3, <3>4, <3>5
  <2>2. CASE Daemon!Dismiss(i)
    <3> DEFINE r == Daemon!RemoveFast(toasts, i)
    <3>1. toasts' = r /\ notifications_told' = notifications_told \cup {x} /\ Frame
      BY <1>1, <2>2 DEF Daemon!Dismiss, Daemon!Op
    <3>2. /\ r \in Seq(Toast)
          /\ \A j \in DOMAIN r : \E k \in DOMAIN toasts : k # i /\ r[j] = toasts[k]
          /\ \A k \in DOMAIN toasts : k # i => \E j \in DOMAIN r : r[j] = toasts[k]
          /\ \A j, m \in DOMAIN r : j # m =>
               \E k, l \in DOMAIN toasts : k # l /\ r[j] = toasts[k] /\ r[m] = toasts[l]
      BY <1>2, RemoveFastIs
    <3> HIDE DEF r, Frame
    <3>4. \A k \in DOMAIN toasts : toasts[k].id # x => \E j \in DOMAIN r : r[j] = toasts[k]
      BY <3>2
    <3>5. \A j \in DOMAIN r : \E k \in DOMAIN toasts : r[j] = toasts[k]
      BY <3>2
    <3> HIDE DEF x
    <3> QED
      BY <1>3, <2>0, <3>1, <3>2, <3>4, <3>5
  <2> QED
    BY <1>5, <2>1, <2>2
<1> QED
  BY <1>4, <1>5

\* The history loses entries; the daemon may report an identifier closed.
LEMMA HistoryGoes ==
  ASSUME DaemonInv,
         \/ Daemon!ClearAll
         \/ \E id \in Nat : Daemon!CardPressed(id) \/ Daemon!RemoveItem(id)
  PROVE  DaemonInv'
<1>1. /\ Screen(toasts, nextId, dnd, issued, notifications_told, silenced)
      /\ Mirror(widgets, callbacks, history, dnd, maxHistory, notifications_config)
      /\ notifications_ops \in Nat
  BY DEF DaemonInv
<1>2. /\ history \in Seq(Nat) /\ dnd \in BOOLEAN /\ maxHistory \in Nat /\ Len(history) <= maxHistory
      /\ Len(history) \in Nat
  BY <1>1 DEF Mirror
<1>3. ASSUME NEW hist \in Seq(Nat), Len(hist) <= maxHistory, Daemon!NewHistory(hist),
             notifications_ops' \in Nat,
             \/ notifications_told' = notifications_told
             \/ \E x \in Nat : notifications_told' = notifications_told \cup {x}
      PROVE  DaemonInv'
  <2>1. /\ history' = hist /\ widgets' = Daemon!Emit(widgets, hist, dnd)
        /\ UNCHANGED <<toasts, nextId, maxHistory, dnd, callbacks, notifications_config,
                       issued, silenced>>
    BY <1>3 DEF Daemon!NewHistory
  <2>2. Mirror(widgets', callbacks, history', dnd, maxHistory, notifications_config)
    BY <1>1, <1>2, <1>3, <2>1, ShowsAgain
  <2>3. Screen(toasts, nextId, dnd, issued, notifications_told', silenced)
    <3>1. notifications_told \in SUBSET Nat
      BY <1>1 DEF Screen
    <3>2. notifications_told' \in SUBSET Nat /\ notifications_told \subseteq notifications_told'
      BY <1>3, <3>1
    <3> QED
      BY <1>1, <3>2 DEF Screen, Covered
  <2> QED
    BY <1>3, <2>1, <2>2, <2>3 DEF DaemonInv
<1>4. CASE Daemon!ClearAll
  <2>1. Daemon!NewHistory(<<>>) /\ notifications_told' = notifications_told /\ notifications_ops' \in Nat
    BY <1>1, <1>4 DEF Daemon!ClearAll, Daemon!Op
  <2>2. <<>> \in Seq(Nat) /\ Len(<<>>) <= maxHistory
    BY <1>2
  <2> QED
    BY <1>3, <2>1, <2>2
<1>5. ASSUME NEW id \in Nat, Daemon!CardPressed(id) \/ Daemon!RemoveItem(id) PROVE DaemonInv'
  <2> DEFINE hist == Daemon!RemoveFirst(history, id)
  <2>1. hist \in Seq(Nat) /\ Len(hist) <= Len(history) /\ Len(hist) \in Nat
    BY <1>2, HistoryWithout
  <2>2. /\ Daemon!NewHistory(hist) /\ notifications_ops' \in Nat
        /\ \/ notifications_told' = notifications_told
           \/ notifications_told' = notifications_told \cup {id}
    BY <1>1, <1>5 DEF Daemon!CardPressed, Daemon!RemoveItem, Daemon!Op
  <2> HIDE DEF hist
  <2>3. Len(hist) <= maxHistory
    BY <1>2, <2>1
  <2> QED
    BY <1>3, <2>1, <2>2, <2>3
<1> QED
  BY <1>4, <1>5

\* Notifications are silenced, or not any more.
LEMMA SetDndKeeps ==
  ASSUME DaemonInv, NEW on \in BOOLEAN, Daemon!SetDnd(on)
  PROVE  DaemonInv'
<1>1. /\ Screen(toasts, nextId, dnd, issued, notifications_told, silenced)
      /\ Mirror(widgets, callbacks, history, dnd, maxHistory, notifications_config)
      /\ notifications_ops \in Nat
  BY DEF DaemonInv
<1>2. /\ dnd' = on /\ toasts' = (IF on THEN <<>> ELSE toasts)
      /\ silenced' = (IF on THEN silenced \cup Daemon!Shown ELSE silenced)
      /\ widgets' = (IF on # dnd THEN Daemon!Emit(widgets, history, on) ELSE widgets)
      /\ UNCHANGED <<history, nextId, maxHistory, callbacks, notifications_config, issued,
                     notifications_told>>
      /\ notifications_ops' \in Nat
  BY <1>1 DEF Daemon!SetDnd, Daemon!Op
<1>3. history \in Seq(Nat) /\ Len(history) <= maxHistory /\ dnd \in BOOLEAN
  BY <1>1 DEF Mirror
<1>4. Mirror(widgets', callbacks, history, on, maxHistory, notifications_config)
  <2>1. CASE on = dnd
    BY <1>1, <1>2, <2>1
  <2>2. CASE on # dnd
    BY <1>1, <1>2, <1>3, <2>2, ShowsAgain
  <2> QED
    BY <2>1, <2>2
<1>5. Screen(toasts', nextId, on, issued, notifications_told, silenced')
  <2>1. CASE on
    <3>1. <<>> \in Seq(Toast) /\ DOMAIN <<>> = {}
      OBVIOUS
    <3>2. \A x : x \in Daemon!Shown <=> \E i \in DOMAIN toasts : toasts[i].id = x
      BY DEF Daemon!Shown, Daemon!Range
    <3>3. Daemon!Shown \subseteq issued
      BY <1>1, <3>2 DEF Screen
    <3>4. issued \in SUBSET Nat /\ silenced \in SUBSET Nat
      BY <1>1 DEF Screen
    <3>5. silenced' \in SUBSET Nat
      BY <1>2, <2>1, <3>3, <3>4
    <3>6. Covered(<<>>, issued, notifications_told, silenced')
      BY <1>1, <1>2, <2>1, <3>2 DEF Screen, Covered
    <3>7. Single(<<>>)
      BY <3>1 DEF Single
    <3> QED
      BY <1>1, <1>2, <2>1, <3>1, <3>5, <3>6, <3>7 DEF Screen
  <2>2. CASE ~on
    BY <1>1, <1>2, <2>2 DEF Screen
  <2> QED
    BY <2>1, <2>2
<1> QED
  BY <1>2, <1>4, <1>5 DEF DaemonInv

\* The configuration is read again.
LEMMA ReloadKeeps ==
  ASSUME PanelsAssumption, DaemonInv, NEW c \in Panels, Daemon!Reload(c)
  PROVE  DaemonInv'
<1> DEFINE hist == Daemon!Trim(history, c.max)
           ws == IF Len(history) > c.max THEN Daemon!Emit(widgets, hist, dnd) ELSE widgets
           done == Daemon!Reconcile(ws, c, hist, dnd)
<1>1. /\ Screen(toasts, nextId, dnd, issued, notifications_told, silenced)
      /\ Mirror(widgets, callbacks, history, dnd, maxHistory, notifications_config)
      /\ notifications_ops \in Nat
  BY DEF DaemonInv
<1>2. /\ widgets \in Seq(Widget) /\ history \in Seq(Nat) /\ dnd \in BOOLEAN /\ maxHistory \in Nat
      /\ Numbered(widgets) /\ callbacks = Listening(widgets) /\ Right(widgets, history, dnd)
      /\ Len(history) \in Nat
  BY <1>1 DEF Mirror
<1>3. /\ notifications_config' = c /\ maxHistory' = c.max /\ history' = hist
      /\ widgets' = done.widgets /\ callbacks' = done.callbacks
      /\ UNCHANGED <<toasts, nextId, dnd, issued, notifications_told, silenced>>
      /\ notifications_ops' \in Nat
  BY <1>1 DEF Daemon!Reload, Daemon!Op
<1>4. c.max \in Nat
  BY DEF PanelsAssumption
<1>5. hist \in Seq(Nat) /\ Len(hist) <= c.max /\ (Len(history) <= c.max => hist = history)
  BY <1>2, <1>4, TrimIs
<1> HIDE DEF hist
<1>6. ws \in Seq(Widget) /\ Numbered(ws) /\ callbacks = Listening(ws) /\ Right(ws, hist, dnd)
  <2>1. CASE Len(history) > c.max
    <3>1. ws = Daemon!Emit(widgets, hist, dnd)
      BY <2>1
    <3>2. ws \in Seq(Widget) /\ SameWidgets(widgets, ws) /\ Right(ws, hist, dnd)
      BY <1>2, <1>5, <3>1, EmitIs
    <3>3. Numbered(ws) /\ Listening(ws) = Listening(widgets)
      BY <1>2, <3>2, SameAreSame
    <3> QED
      BY <1>2, <3>2, <3>3
  <2>2. CASE ~(Len(history) > c.max)
    <3>1. ws = widgets /\ hist = history
      BY <1>2, <1>4, <1>5, <2>2
    <3> QED
      BY <1>2, <3>1
  <2> QED
    BY <2>1, <2>2
<1> HIDE DEF ws
<1>7. /\ done.widgets \in Seq(Widget) /\ Numbered(done.widgets)
      /\ done.callbacks = Listening(done.widgets) /\ Right(done.widgets, hist, dnd)
      /\ Layout(done.widgets) = Daemon!Known(Daemon!Sections(c))
  BY <1>2, <1>5, <1>6, ReconcileIs
<1> HIDE DEF done
<1>8. Mirror(done.widgets, done.callbacks, hist, dnd, c.max, c)
  BY <1>2, <1>4, <1>5, <1>7 DEF Mirror
<1> QED
  BY <1>1, <1>3, <1>8 DEF DaemonInv

\* Every step keeps the invariant.
LEMMA DaemonNext ==
  ASSUME PanelsAssumption, DaemonInv, [Daemon!Next]_(Daemon!vars)
  PROVE  DaemonInv'
<1>1. issued \in SUBSET Nat /\ Foreign \subseteq Nat /\ history \in Seq(Nat)
  BY DEF DaemonInv, Screen, Mirror, PanelsAssumption
<1>2. \A id \in issued \cup Foreign : id \in Nat
  BY <1>1
<1>3. \A id \in Daemon!Range(history) : id \in Nat
  BY <1>1 DEF Daemon!Range
<1>4. CASE UNCHANGED Daemon!vars
  BY <1>4 DEF DaemonInv, Daemon!vars
<1>5. ASSUME NEW replaces \in {0} \cup issued \cup Foreign, Daemon!Notify(replaces)
      PROVE DaemonInv'
  BY <1>5, NotifyKeeps
<1>6. ASSUME NEW id \in issued \cup Foreign, Daemon!CloseNotification(id) PROVE DaemonInv'
  BY <1>2, <1>6, ToastsGo
<1>7. ASSUME NEW i \in DOMAIN toasts, Daemon!Expire(i) \/ Daemon!Dismiss(i) PROVE DaemonInv'
  BY <1>7, ToastsGo
<1>8. CASE Daemon!ClearAll
  BY <1>8, HistoryGoes
<1>9. ASSUME NEW id \in Daemon!Range(history), Daemon!CardPressed(id) \/ Daemon!RemoveItem(id)
      PROVE DaemonInv'
  BY <1>3, <1>9, HistoryGoes
<1>10. ASSUME NEW on \in BOOLEAN, Daemon!SetDnd(on) PROVE DaemonInv'
  BY <1>10, SetDndKeeps
<1>11. ASSUME NEW c \in Panels, Daemon!Reload(c) PROVE DaemonInv'
  BY <1>11, ReloadKeeps
<1> QED
  BY <1>4, <1>5, <1>6, <1>7, <1>8, <1>9, <1>10, <1>11 DEF Daemon!Next

\* The invariant implies what is promised.
LEMMA DaemonHolds ==
  ASSUME DaemonInv
  PROVE  NotificationsFollow
<1>1. Daemon!ToastsAreRight
  <2>1. \A x : x \in Daemon!Shown <=> \E i \in DOMAIN toasts : toasts[i].id = x
    BY DEF Daemon!Shown, Daemon!Range
  <2> QED
    BY <2>1 DEF DaemonInv, Screen, Single, Covered, Daemon!ToastsAreRight
<1>2. Daemon!WidgetsFollow
  <2>1. \A w \in Daemon!Range(widgets) : w.shown = Daemon!View(w.kind, history, dnd)
    BY DEF DaemonInv, Mirror, Right, Daemon!Range
  <2> QED
    BY <2>1 DEF DaemonInv, Mirror, Layout, Listening, Daemon!WidgetsFollow
<1> QED
  BY <1>1, <1>2 DEF NotificationsFollow

\* For any layouts, programs and number of calls: what is on the screen and who was
\* told of what is not, and that the widgets show the daemon as it is.
THEOREM NotificationsAlwaysFollow == Daemon!Spec => []NotificationsFollow
<1>1. Daemon!Init => DaemonInv
  BY PanelsAssumption, DaemonInit
<1>2. DaemonInv /\ [Daemon!Next]_(Daemon!vars) => DaemonInv'
  BY PanelsAssumption, DaemonNext
<1>3. DaemonInv => NotificationsFollow
  BY DaemonHolds
<1> QED
  BY <1>1, <1>2, <1>3, PTL DEF Daemon!Spec

-----------------------------------------------------------------------------
(* The widgets of a file.                                                  *)

IsSeq(x) == x \in Seq({x[i] : i \in DOMAIN x})

\* A sequence is a sequence of its elements.
LEMMA SeqIs ==
  ASSUME NEW S, NEW x \in Seq(S)
  PROVE  IsSeq(x) /\ Len(x) \in Nat /\ DOMAIN x = 1..Len(x) /\ x = [i \in 1..Len(x) |-> x[i]]
<1> DEFINE T == {x[i] : i \in DOMAIN x}
<1>1. Len(x) \in Nat /\ DOMAIN x = 1..Len(x) /\ x = [i \in 1..Len(x) |-> x[i]]
  BY LenProperties
<1>2. \A i \in 1..Len(x) : x[i] \in T
  BY <1>1
<1> HIDE DEF T
<1>3. [i \in 1..Len(x) |-> x[i]] \in Seq(T)
  BY <1>1, <1>2
<1> QED
  BY <1>1, <1>3 DEF IsSeq, T

\* An appended sequence, element by element.
LEMMA AppendIsSeq ==
  ASSUME NEW x, IsSeq(x), NEW e
  PROVE  /\ IsSeq(Append(x, e)) /\ Len(x) \in Nat /\ DOMAIN x = 1..Len(x)
         /\ DOMAIN Append(x, e) = 1..(Len(x) + 1)
         /\ Append(x, e) = [i \in 1..(Len(x) + 1) |-> IF i \in DOMAIN x THEN x[i] ELSE e]
<1> DEFINE S == {x[i] : i \in DOMAIN x}
           T == S \cup {e}
           a == Append(x, e)
<1>1. x \in Seq(S)
  BY DEF IsSeq
<1>2. x \in Seq(T)
  <2>1. S \subseteq T
    OBVIOUS
  <2> HIDE DEF S, T
  <2> QED
    BY <1>1, <2>1, SeqMonotonic
<1>3. e \in T
  OBVIOUS
<1> HIDE DEF S, T
<1>4. a \in Seq(T) /\ DOMAIN a = 1..(Len(x) + 1) /\ DOMAIN x = 1..Len(x) /\ Len(x) \in Nat
  BY <1>2, <1>3, AppendIs
<1>5. \A i \in DOMAIN a : a[i] = IF i \in DOMAIN x THEN x[i] ELSE e
  BY <1>2, <1>3, AppendIs
<1> HIDE DEF a
<1>6. IsSeq(a) /\ a = [i \in 1..(Len(x) + 1) |-> a[i]]
  <2>1. Len(a) = Len(x) + 1
    BY <1>4
  <2> QED
    BY <1>4, <2>1, SeqIs
<1> QED
  BY <1>4, <1>5, <1>6 DEF a

\* A widget as a load leaves it.
Clean(x) == IsSeq(x) /\ \A i \in DOMAIN x : x[i].id # Conf!None /\ x[i] = Conf!Entry(x[i])

KeepStep(x, n, f) ==
  IF n = 0 THEN <<>>
  ELSE IF x[n].id = Conf!None THEN f[n - 1] ELSE Append(f[n - 1], Conf!Entry(x[n]))

\* The recursion that keeps the entries with an id has a solution.
LEMMA WidgetsOfIs ==
  ASSUME NEW x, Len(x) \in Nat
  PROVE  \E f : /\ \A n \in 0..Len(x) : f[n] = KeepStep(x, n, f)
                /\ Conf!WidgetsOf(x) = f[Len(x)]
<1> DEFINE Solves(n, f) == f = [i \in 0..n |-> KeepStep(x, i, f)]
           B == {n \in Nat : ~ \E f : Solves(n, f)}
<1>1. B = {}
  <2> SUFFICES ASSUME B # {} PROVE FALSE
    OBVIOUS
  <2>1. PICK m \in B : \A k \in B : m <= k
    BY LeastNatural
  <2>2. m \in Nat /\ ~ \E f : Solves(m, f)
    OBVIOUS
  <2>3. CASE m = 0
    <3> DEFINE f == [i \in 0..0 |-> <<>>]
    <3>1. f = [i \in 0..0 |-> KeepStep(x, i, f)]
      BY DEF KeepStep
    <3> QED
      BY <2>2, <2>3, <3>1
  <2>4. CASE m # 0
    <3>1. PICK p \in Nat : p = m - 1
      BY <2>2, <2>4
    <3>2. p \notin B
      <4>1. ~(m <= p)
        BY <2>2, <3>1
      <4> HIDE DEF B
      <4> QED
        BY <2>1, <4>1
    <3>3. PICK f : Solves(p, f)
      BY <3>2
    <3> DEFINE g == [i \in 0..m |-> KeepStep(x, i, f)]
    <3>4. ASSUME NEW i \in 0..m PROVE KeepStep(x, i, f) = KeepStep(x, i, g)
      <4>1. CASE i = 0
        BY <4>1 DEF KeepStep
      <4>2. CASE i # 0
        <5>1. i - 1 \in 0..p /\ i - 1 \in 0..m
          BY <2>2, <3>1, <4>2
        <5>2. f[i - 1] = KeepStep(x, i - 1, f)
          BY <3>3, <5>1
        <5>3. g[i - 1] = KeepStep(x, i - 1, f)
          BY <5>1
        <5> QED
          BY <4>2, <5>2, <5>3 DEF KeepStep
      <4> QED
        BY <4>1, <4>2
    <3>5. g = [i \in 0..m |-> KeepStep(x, i, g)]
      BY <3>4
    <3> QED
      BY <2>2, <3>5
  <2> QED
    BY <2>3, <2>4
<1>2. \E f : Solves(Len(x), f)
  BY <1>1
<1> DEFINE kept == CHOOSE f : Solves(Len(x), f)
<1>3. Solves(Len(x), kept)
  BY <1>2
<1>4. Conf!WidgetsOf(x) = kept[Len(x)]
  BY DEF Conf!WidgetsOf, KeepStep
<1> HIDE DEF kept
<1>5. \A n \in 0..Len(x) : kept[n] = KeepStep(x, n, kept)
  BY <1>3
<1> QED
  BY <1>4, <1>5

\* What a load returns is clean.
LEMMA LoadCleans ==
  ASSUME NEW x, Len(x) \in Nat
  PROVE  Clean(Conf!WidgetsOf(x))
<1>1. PICK f : /\ \A n \in 0..Len(x) : f[n] = KeepStep(x, n, f)
               /\ Conf!WidgetsOf(x) = f[Len(x)]
  BY WidgetsOfIs
<1> DEFINE B == {n \in 0..Len(x) : ~Clean(f[n])}
<1>2. B = {}
  <2> SUFFICES ASSUME B # {} PROVE FALSE
    OBVIOUS
  <2>1. B \subseteq Nat
    OBVIOUS
  <2>2. PICK n \in B : \A k \in B : n <= k
    BY <2>1, LeastNatural
  <2>3. n \in 0..Len(x) /\ ~Clean(f[n]) /\ n \in Nat
    OBVIOUS
  <2>4. n # 0
    <3>1. Clean(<<>>)
      <4>1. <<>> \in Seq({}) /\ DOMAIN <<>> = {}
        OBVIOUS
      <4> QED
        BY <4>1, SeqIs DEF Clean
    <3>2. 0 \in 0..Len(x)
      OBVIOUS
    <3> HIDE DEF B
    <3>3. n = 0 => f[n] = <<>>
      BY <1>1, <3>2 DEF KeepStep
    <3> QED
      BY <2>3, <3>1, <3>3
  <2>5. PICK p \in 0..Len(x) : p = n - 1
    BY <2>3, <2>4
  <2>6. Clean(f[p])
    <3>1. ~(n <= p)
      BY <2>3, <2>5
    <3>2. p \notin B
      <4> HIDE DEF B
      <4> QED
        BY <2>2, <3>1
    <3> QED
      BY <3>2
  <2> HIDE DEF B
  <2>7. CASE x[n].id = Conf!None
    BY <1>1, <2>3, <2>4, <2>5, <2>6, <2>7 DEF KeepStep
  <2>8. CASE x[n].id # Conf!None
    <3> DEFINE e == Conf!Entry(x[n])
               a == Append(f[p], e)
    <3>1. f[n] = a
      BY <1>1, <2>3, <2>4, <2>5, <2>8 DEF KeepStep
    <3>2. e.id # Conf!None /\ e = Conf!Entry(e)
      <4>1. e.id = x[n].id /\ e.cmd = x[n].cmd /\ e.mode = IF x[n].mode = Conf!None THEN "icon" ELSE x[n].mode
        BY DEF Conf!Entry
      <4>2. e.mode # Conf!None
        BY <4>1 DEF Conf!None
      <4>3. e = [id |-> e.id, mode |-> e.mode, cmd |-> e.cmd]
        BY DEF Conf!Entry
      <4> QED
        BY <2>8, <4>1, <4>2, <4>3 DEF Conf!Entry
    <3> HIDE DEF e
    <3>3. IsSeq(a) /\ \A i \in DOMAIN a : a[i] = e \/ (i \in DOMAIN f[p] /\ a[i] = f[p][i])
      BY <2>6, AppendIsSeq DEF Clean
    <3> HIDE DEF a
    <3>4. Clean(a)
      BY <2>6, <3>2, <3>3 DEF Clean
    <3> QED
      BY <2>3, <3>1, <3>4
  <2> QED
    BY <2>7, <2>8
<1>3. Len(x) \in 0..Len(x)
  OBVIOUS
<1> QED
  BY <1>1, <1>2, <1>3

\* ... and is loaded as it is.
LEMMA CleanStays ==
  ASSUME NEW x, Clean(x)
  PROVE  Conf!WidgetsOf(x) = x
<1>1. Len(x) \in Nat /\ DOMAIN x = 1..Len(x) /\ x = [i \in 1..Len(x) |-> x[i]]
  BY SeqIs DEF Clean, IsSeq
<1>2. PICK f : /\ \A n \in 0..Len(x) : f[n] = KeepStep(x, n, f)
               /\ Conf!WidgetsOf(x) = f[Len(x)]
  BY <1>1, WidgetsOfIs
<1> DEFINE Upto(n) == [i \in 1..n |-> x[i]]
           B == {n \in 0..Len(x) : f[n] # Upto(n)}
<1>3. B = {}
  <2> SUFFICES ASSUME B # {} PROVE FALSE
    OBVIOUS
  <2>1. B \subseteq Nat
    OBVIOUS
  <2>2. PICK n \in B : \A k \in B : n <= k
    BY <2>1, LeastNatural
  <2>3. n \in 0..Len(x) /\ f[n] # Upto(n) /\ n \in Nat
    OBVIOUS
  <2>4. n # 0
    <3>1. Upto(0) = <<>>
      OBVIOUS
    <3>2. 0 \in 0..Len(x)
      BY <1>1
    <3> HIDE DEF B
    <3>3. n = 0 => f[n] = <<>>
      BY <1>2, <3>2 DEF KeepStep
    <3> QED
      BY <2>3, <3>1, <3>3
  <2>5. PICK p \in 0..Len(x) : p = n - 1
    BY <1>1, <2>3, <2>4
  <2>6. f[p] = Upto(p)
    <3>1. ~(n <= p)
      BY <2>3, <2>5
    <3>2. p \notin B
      <4> HIDE DEF B
      <4> QED
        BY <2>2, <3>1
    <3> QED
      BY <3>2
  <2> HIDE DEF B
  <2>7. n \in 1..Len(x) /\ n \in DOMAIN x /\ p \in Nat /\ p + 1 = n
    BY <1>1, <2>3, <2>4, <2>5
  <2>8. f[n] = Append(Upto(p), x[n])
    <3>1. x[n].id # Conf!None /\ x[n] = Conf!Entry(x[n])
      BY <2>7 DEF Clean
    <3>2. f[n] = Append(f[p], Conf!Entry(x[n]))
      BY <1>2, <2>3, <2>4, <2>5, <3>1 DEF KeepStep
    <3> QED
      BY <2>6, <3>1, <3>2
  <2>9. Append(Upto(p), x[n]) = Upto(n)
    <3> DEFINE S == {x[i] : i \in DOMAIN x}
    <3>1. \A i \in 1..n : x[i] \in S
      BY <1>1, <2>7
    <3> HIDE DEF S
    <3>2. Upto(p) \in Seq(S) /\ Len(Upto(p)) = p
      BY <2>7, <3>1
    <3>3. IsSeq(Upto(p)) /\ DOMAIN Upto(p) = 1..p
      BY <3>2, SeqIs
    <3>4. Append(Upto(p), x[n])
            = [i \in 1..n |-> IF i \in DOMAIN Upto(p) THEN Upto(p)[i] ELSE x[n]]
      <4> HIDE DEF Upto
      <4> QED
        BY <2>7, <3>2, <3>3, AppendIsSeq
    <3>5. \A i \in 1..n : i \in 1..p \/ i = n
      BY <2>7
    <3> QED
      BY <3>3, <3>4, <3>5
  <2> QED
    BY <2>3, <2>8, <2>9
<1>4. Len(x) \in 0..Len(x)
  BY <1>1
<1>5. f[Len(x)] = Upto(Len(x))
  <2> HIDE DEF Upto
  <2> QED
    BY <1>3, <1>4
<1> QED
  BY <1>1, <1>2, <1>5

-----------------------------------------------------------------------------
(* Loads and saves.                                                        *)

Wells(f) == \A i \in Conf!Sections : Len(f.layout[i]) \in Nat
Normal(l) == l = [i \in Conf!Sections |-> l[i]] /\ \A i \in Conf!Sections : Clean(l[i])
Configuration(c) == /\ c = [set |-> c.set, layout |-> c.layout]
             /\ c.set = [s \in Conf!Settings |-> c.set[s]]
             /\ Normal(c.layout)

\* A panel without widgets is a layout.
LEMMA BareIsNormal == Normal(Conf!Bare)
<1>1. Conf!Bare = [i \in Conf!Sections |-> <<>>]
  BY DEF Conf!Bare, Conf!Sections
<1>2. Clean(<<>>)
  <2>1. <<>> \in Seq({}) /\ DOMAIN <<>> = {}
    OBVIOUS
  <2> QED
    BY <2>1, SeqIs DEF Clean
<1> QED
  BY <1>1, <1>2 DEF Normal

\* The layout that a load makes of any sections.
LEMMA CleansLayout ==
  ASSUME NEW l, \A i \in Conf!Sections : Len(l[i]) \in Nat
  PROVE  Normal([i \in Conf!Sections |-> Conf!WidgetsOf(l[i])])
BY LoadCleans DEF Normal

\* Whatever the file says, a load makes a configuration of it.
LEMMA LoadIs ==
  ASSUME NEW f, Wells(f)
  PROVE  Configuration(Conf!Load(f))
<1>1. Wells(ShippedFile)
  BY FilesAssumption DEF Wells, Conf!Sections
<1> DEFINE found == IF f.kind = "absent" THEN ShippedFile ELSE f
<1>2. Wells(found)
  BY <1>1
<1>3. Conf!Load(f) = IF found.kind = "broken" THEN [set |-> Conf!Default, layout |-> Conf!Bare]
                     ELSE [set |-> Conf!SettingsOf(found), layout |-> Conf!LayoutOf(found)]
  BY DEF Conf!Load
<1> HIDE DEF found
<1>4. Normal(Conf!LayoutOf(found))
  <2> DEFINE l == [i \in Conf!Sections |-> Conf!WidgetsOf(found.layout[i])]
             d == [i \in Conf!Sections |-> Conf!WidgetsOf(ShippedFile.layout[i])]
  <2>1. Normal(l) /\ Normal(d)
    BY <1>1, <1>2, CleansLayout DEF Wells
  <2>2. Conf!LayoutOf(found) = IF \A i \in Conf!Sections : l[i] = <<>> THEN d ELSE l
    BY DEF Conf!LayoutOf
  <2> HIDE DEF l, d
  <2> QED
    BY <2>1, <2>2
<1>5. Conf!SettingsOf(found) = [s \in Conf!Settings |-> Conf!SettingsOf(found)[s]]
  BY DEF Conf!SettingsOf
<1>6. Conf!Default = [s \in Conf!Settings |-> Conf!Default[s]]
  BY DEF Conf!Default
<1>7. CASE found.kind = "broken"
  <2>1. Conf!Load(f) = [set |-> Conf!Default, layout |-> Conf!Bare]
    BY <1>3, <1>7
  <2> QED
    BY <1>6, <2>1, BareIsNormal DEF Configuration
<1>8. CASE found.kind # "broken"
  <2>1. Conf!Load(f) = [set |-> Conf!SettingsOf(found), layout |-> Conf!LayoutOf(found)]
    BY <1>3, <1>8
  <2> QED
    BY <1>4, <1>5, <2>1 DEF Configuration
<1> QED
  BY <1>7, <1>8

\* A value that was saved is saved as it is.
LEMMA SavedIs ==
  ASSUME NEW c, NEW s \in Conf!Settings
  PROVE  /\ Conf!Load(Conf!Save(c)).set[s] = Conf!SavedValue(c, s)
         /\ Conf!SavedValue(Conf!Load(Conf!Save(c)), s) = Conf!SavedValue(c, s)
<1> DEFINE f == Conf!Save(c)
<1>1. f.kind = "file" /\ f.set = Conf!SavedSettings(c)
  BY DEF Conf!Save
<1> HIDE DEF f
<1>2. Conf!Load(f).set = Conf!SettingsOf(f)
  BY <1>1 DEF Conf!Load
<1>3. Conf!SettingsOf(f)[s] = Conf!SavedValue(c, s)
  BY <1>1 DEF Conf!SettingsOf, Conf!SavedSettings
<1>4. Conf!SavedValue(c, s) # 0
  BY DEF Conf!SavedValue, Conf!Default
<1> DEFINE g == Conf!Load(f)
<1>5. g.set[s] = Conf!SavedValue(c, s)
  BY <1>2, <1>3
<1> HIDE DEF g
<1>6. Conf!SavedValue(g, s) = g.set[s]
  BY <1>4, <1>5 DEF Conf!SavedValue
<1> QED
  BY <1>5, <1>6 DEF f, g

\* What was saved is loaded, but for a layout without widgets.
LEMMA ReloadedIs ==
  ASSUME NEW c, Normal(c.layout)
  PROVE  /\ Conf!Load(Conf!Save(c)).layout = c.layout \/ c.layout = Conf!Bare
         /\ Wells(Conf!Save(c))
<1> DEFINE f == Conf!Save(c)
           l == [i \in Conf!Sections |-> Conf!WidgetsOf(f.layout[i])]
<1>1. f.kind = "file" /\ f.layout = c.layout
  BY DEF Conf!Save
<1>a. Wells(f)
  <2>1. \A i \in Conf!Sections : Len(c.layout[i]) \in Nat
    BY SeqIs DEF Normal, Clean, IsSeq
  <2> HIDE DEF f
  <2> QED
    BY <1>1, <2>1 DEF Wells
<1> HIDE DEF f
<1>2. l = c.layout
  <2>1. \A i \in Conf!Sections : Conf!WidgetsOf(c.layout[i]) = c.layout[i]
    BY CleanStays DEF Normal
  <2>2. c.layout = [i \in Conf!Sections |-> c.layout[i]]
    BY DEF Normal
  <2> QED
    BY <1>1, <2>1, <2>2
<1>3. Conf!Load(f).layout = Conf!LayoutOf(f)
  BY <1>1 DEF Conf!Load
<1> DEFINE none == \A i \in Conf!Sections : l[i] = <<>>
<1>4. Conf!LayoutOf(f) = IF none THEN [i \in Conf!Sections |-> Conf!WidgetsOf(ShippedFile.layout[i])] ELSE l
  BY DEF Conf!LayoutOf
<1>5. none => c.layout = Conf!Bare
  <2> SUFFICES ASSUME none PROVE c.layout = Conf!Bare
    OBVIOUS
  <2>1. Conf!Bare = [i \in Conf!Sections |-> <<>>]
    BY DEF Conf!Bare, Conf!Sections
  <2>2. c.layout = [i \in Conf!Sections |-> c.layout[i]]
    BY DEF Normal
  <2>3. \A i \in Conf!Sections : c.layout[i] = <<>>
    BY <1>2
  <2> QED
    BY <2>1, <2>2, <2>3
<1> HIDE DEF l, none
<1> QED
  BY <1>a, <1>2, <1>3, <1>4, <1>5 DEF f

\* The shell works with what the file says, but for the accent and the editor's settings.
Follows(c, f) ==
  /\ \A s \in {"panel", "rotate"} : Conf!SavedValue(c, s) = Conf!SavedValue(Conf!Load(f), s)
  /\ c.layout \in {Conf!Load(f).layout, Conf!Bare}

\* Whoever writes what it read, but for settings of its own, changes nothing of that.
LEMMA FollowsOn ==
  ASSUME NEW c, NEW f, Wells(f), Follows(c, f), NEW d,
         \A s \in {"panel", "rotate"} : Conf!SavedValue(d, s) = Conf!SavedValue(Conf!Load(f), s),
         d.layout = Conf!Load(f).layout
  PROVE  Follows(c, Conf!Save(d))
<1>1. Normal(d.layout)
  BY LoadIs DEF Configuration
<1>2. {"panel", "rotate"} \subseteq Conf!Settings
  BY DEF Conf!Settings
<1>3. \A s \in {"panel", "rotate"} : Conf!SavedValue(Conf!Load(Conf!Save(d)), s) = Conf!SavedValue(d, s)
  BY <1>2, SavedIs
<1>4. Conf!Load(Conf!Save(d)).layout = d.layout \/ d.layout = Conf!Bare
  BY <1>1, ReloadedIs
<1> QED
  BY <1>3, <1>4 DEF Follows

\* The shell follows what it saves itself.
LEMMA FollowsOwn ==
  ASSUME NEW c, Normal(c.layout)
  PROVE  Follows(c, Conf!Save(c))
<1>1. {"panel", "rotate"} \subseteq Conf!Settings
  BY DEF Conf!Settings
<1>2. \A s \in {"panel", "rotate"} : Conf!SavedValue(Conf!Load(Conf!Save(c)), s) = Conf!SavedValue(c, s)
  BY <1>1, SavedIs
<1>3. Conf!Load(Conf!Save(c)).layout = c.layout \/ c.layout = Conf!Bare
  BY ReloadedIs
<1> QED
  BY <1>2, <1>3 DEF Follows

-----------------------------------------------------------------------------
(* The processes that share the file.                                      *)

Commands == {"reload-config", "reload-theme"}
Kept == {"panel", "rotate"}

\* A reload was sent that the shell has not carried out.
Pending(cs, ids) ==
  (\E i \in DOMAIN cs : cs[i].cmd = "reload-config") \/ \E j \in DOMAIN ids : ids[j] = "reload-config"

\* A page between reading and writing; two of them change no more than a setting.
DraftFits ==
  /\ draft.page # Conf!None => Wells(draft.config)
  /\ draft.page \in {"accent", "ide"} =>
       /\ \A s \in Kept : Conf!SavedValue(draft.config, s) = Conf!SavedValue(Conf!Load(draft.read), s)
       /\ draft.config.layout = Conf!Load(draft.read).layout

RowsFit ==
  rows # <<>> => rows = [i \in Conf!Sections |-> rows[i]] /\ \A i \in Conf!Sections : IsSeq(rows[i])

Conn == [cmd : Commands, late : BOOLEAN]
Queues == conns \in Seq(Conn) /\ idle \in Seq(Commands)
ShellAgrees == shell \in {"starting", "on"} /\ ~missed /\ ~Pending(conns, idle) => Follows(config_config, file)
SheetAgrees ==
  ide # 0 /\ ~noticed =>
    /\ ide = Conf!SavedValue(Conf!Load(file), "ide")
    /\ draft.page = Conf!None => css = Conf!SheetOf(Conf!Load(file))

FilesAgree ==
  /\ Wells(file) /\ Configuration(config_config) /\ RowsFit /\ DraftFits
  /\ Queues /\ ShellAgrees /\ SheetAgrees

\* What is appended, taken and passed on.
LEMMA PendingIs ==
  ASSUME NEW cs \in Seq(Conn), NEW ids \in Seq(Commands)
  PROVE  /\ \A c \in Conn : /\ Append(cs, c) \in Seq(Conn)
                            /\ Pending(cs, ids) => Pending(Append(cs, c), ids)
                            /\ c.cmd = "reload-config" => Pending(Append(cs, c), ids)
         /\ \A d \in Commands : /\ Append(ids, d) \in Seq(Commands)
                                /\ Pending(cs, ids) => Pending(cs, Append(ids, d))
                                /\ d = "reload-config" => Pending(cs, Append(ids, d))
         /\ \A i \in DOMAIN cs :
              /\ Conf!RemoveAt(cs, i) \in Seq(Conn)
              /\ Pending(cs, ids) => Pending(Conf!RemoveAt(cs, i), ids) \/ cs[i].cmd = "reload-config"
         /\ ids # <<>> => /\ Tail(ids) \in Seq(Commands)
                          /\ Pending(cs, ids) => Pending(cs, Tail(ids)) \/ Head(ids) = "reload-config"
<1>1. ASSUME NEW c \in Conn
      PROVE  /\ Append(cs, c) \in Seq(Conn)
             /\ Pending(cs, ids) => Pending(Append(cs, c), ids)
             /\ c.cmd = "reload-config" => Pending(Append(cs, c), ids)
  <2> DEFINE a == Append(cs, c)
             n == Len(cs) + 1
  <2>1. /\ a \in Seq(Conn) /\ \A i \in DOMAIN cs : i \in DOMAIN a /\ a[i] = cs[i]
        /\ n \in DOMAIN a /\ a[n] = c
    BY AppendIs
  <2> HIDE DEF a, n
  <2>2. Pending(cs, ids) => Pending(a, ids)
    BY <2>1 DEF Pending
  <2>3. c.cmd = "reload-config" => Pending(a, ids)
    BY <2>1 DEF Pending
  <2> QED
    BY <2>1, <2>2, <2>3 DEF a
<1>2. ASSUME NEW d \in Commands
      PROVE  /\ Append(ids, d) \in Seq(Commands)
             /\ Pending(cs, ids) => Pending(cs, Append(ids, d))
             /\ d = "reload-config" => Pending(cs, Append(ids, d))
  <2> DEFINE a == Append(ids, d)
             n == Len(ids) + 1
  <2>1. /\ a \in Seq(Commands) /\ \A i \in DOMAIN ids : i \in DOMAIN a /\ a[i] = ids[i]
        /\ n \in DOMAIN a /\ a[n] = d
    BY AppendIs
  <2> HIDE DEF a, n
  <2>2. Pending(cs, ids) => Pending(cs, a)
    BY <2>1 DEF Pending
  <2>3. d = "reload-config" => Pending(cs, a)
    BY <2>1 DEF Pending
  <2> QED
    BY <2>1, <2>2, <2>3 DEF a
<1>3. ASSUME NEW i \in DOMAIN cs
      PROVE  /\ Conf!RemoveAt(cs, i) \in Seq(Conn)
             /\ Pending(cs, ids) => Pending(Conf!RemoveAt(cs, i), ids) \/ cs[i].cmd = "reload-config"
  <2> DEFINE r == Conf!RemoveAt(cs, i)
  <2>1. r \in Seq(Conn) /\ Removed(cs, i, r)
    BY RemovalIs DEF Conf!RemoveAt
  <2> HIDE DEF r
  <2>2. \A k \in DOMAIN cs : k # i => \E j \in DOMAIN r : r[j] = cs[k]
    BY <2>1, RemovedElements
  <2>3. Pending(cs, ids) => Pending(r, ids) \/ cs[i].cmd = "reload-config"
    BY <2>2 DEF Pending
  <2> QED
    BY <2>1, <2>3 DEF r
<1>4. ASSUME ids # <<>>
      PROVE  /\ Tail(ids) \in Seq(Commands)
             /\ Pending(cs, ids) => Pending(cs, Tail(ids)) \/ Head(ids) = "reload-config"
  <2> DEFINE t == Tail(ids)
  <2>1. /\ t \in Seq(Commands) /\ Len(ids) \in Nat /\ DOMAIN ids = 1..Len(ids)
        /\ DOMAIN t = 1..(Len(ids) - 1) /\ \A j \in 1..(Len(ids) - 1) : t[j] = ids[j + 1]
        /\ Head(ids) = ids[1]
    BY <1>4, HeadTailProperties
  <2> HIDE DEF t
  <2>2. ASSUME NEW k \in DOMAIN ids, k # 1 PROVE \E j \in DOMAIN t : t[j] = ids[k]
    <3>1. PICK j \in 1..(Len(ids) - 1) : j = k - 1
      BY <2>1, <2>2
    <3>2. t[j] = ids[k]
      BY <2>1, <2>2, <3>1
    <3> QED
      BY <2>1, <3>2
  <2>3. Pending(cs, ids) => Pending(cs, t) \/ ids[1] = "reload-config"
    BY <2>2 DEF Pending
  <2> QED
    BY <2>1, <2>3 DEF t
<1> QED
  BY <1>1, <1>2, <1>3, <1>4

\* What the shell and its socket do.
LEMMA ShellSteps ==
  ASSUME FilesAgree,
         \/ Conf!Start \/ Conf!Activate \/ Conf!Quit \/ Conf!ReloadConfig \/ Conf!ReloadTheme
         \/ Conf!SheetChanged
         \/ \E cmd \in Commands : Conf!Cli(cmd)
         \/ \E i \in DOMAIN conns : Conf!Late(i) \/ Conf!LineRead(i)
  PROVE  FilesAgree'
<1>1. /\ Wells(file) /\ Configuration(config_config) /\ RowsFit /\ DraftFits
      /\ conns \in Seq(Conn) /\ idle \in Seq(Commands) /\ ShellAgrees /\ SheetAgrees
  BY DEF FilesAgree, Queues
<1> DEFINE Aside == UNCHANGED <<file, css, rows, draft, ide, noticed>>
           Rest == Wells(file) /\ RowsFit /\ DraftFits /\ SheetAgrees
<1>2. Aside => Rest'
  BY <1>1 DEF Wells, RowsFit, DraftFits, SheetAgrees, Wells
<1> DEFINE Whole == Configuration(config_config) /\ Queues /\ ShellAgrees
<1>3. Aside /\ Whole' => FilesAgree'
  <2> HIDE DEF Aside
  <2> QED
    BY <1>2 DEF FilesAgree
<1>4. Configuration(Conf!Load(file)) /\ Follows(Conf!Load(file), file)
  BY <1>1, LoadIs DEF Follows
<1>5. CASE Conf!Start
  <2>1. /\ config_config' = Conf!Load(file) /\ UNCHANGED <<conns, idle, file>>
        /\ Aside
    BY <1>5 DEF Conf!Start, Conf!pages
  <2>2. Whole'
    BY <1>1, <1>4, <2>1 DEF Queues, ShellAgrees
  <2> QED
    BY <1>3, <2>1, <2>2
<1>6. CASE Conf!Activate
  <2>1. shell = "starting" /\ UNCHANGED <<file, config_config, conns, idle, missed>> /\ Aside
    BY <1>6 DEF Conf!Activate, Conf!pages
  <2>2. Whole'
    BY <1>1, <2>1 DEF Queues, ShellAgrees
  <2> QED
    BY <1>3, <2>1, <2>2
<1>7. CASE Conf!Quit
  <2>1. shell' = "off" /\ conns' = <<>> /\ idle' = <<>> /\ config_config' = config_config /\ Aside
    BY <1>7 DEF Conf!Quit, Conf!pages
  <2>2. Whole'
    BY <1>1, <2>1 DEF Queues, ShellAgrees
  <2> QED
    BY <1>3, <2>1, <2>2
<1>8. CASE Conf!ReloadConfig
  <2>1. /\ idle # <<>> /\ idle' = Tail(idle) /\ config_config' = Conf!Load(file)
        /\ UNCHANGED <<conns, file>> /\ Aside
    BY <1>8 DEF Conf!ReloadConfig, Conf!Take, Conf!pages
  <2>2. idle' \in Seq(Commands)
    BY <1>1, <2>1, PendingIs
  <2>3. Whole'
    BY <1>1, <1>4, <2>1, <2>2 DEF Queues, ShellAgrees
  <2> QED
    BY <1>3, <2>1, <2>3
<1>9. CASE Conf!ReloadTheme
  <2>1. /\ idle # <<>> /\ idle' = Tail(idle) /\ Head(idle) = "reload-theme"
        /\ UNCHANGED <<conns, file, shell, config_config, missed>> /\ Aside
    BY <1>9 DEF Conf!ReloadTheme, Conf!Take, Conf!pages
  <2>2. idle' \in Seq(Commands) /\ (Pending(conns, idle) => Pending(conns, idle'))
    BY <1>1, <2>1, PendingIs
  <2>3. Whole'
    BY <1>1, <2>1, <2>2 DEF Queues, ShellAgrees
  <2> QED
    BY <1>3, <2>1, <2>3
<1>10. CASE Conf!SheetChanged
  <2>1. UNCHANGED <<conns, idle, file, shell, config_config, missed>> /\ Aside
    BY <1>10 DEF Conf!SheetChanged, Conf!pages
  <2>2. Whole'
    BY <1>1, <2>1 DEF Queues, ShellAgrees
  <2> QED
    BY <1>3, <2>1, <2>2
<1>11. ASSUME NEW cmd \in Commands, Conf!Cli(cmd) PROVE FilesAgree'
  <2> DEFINE c == [cmd |-> cmd, late |-> FALSE]
  <2>1. /\ conns' = (IF shell = "on" THEN Append(conns, c) ELSE conns)
        /\ missed' = (missed \/ (cmd = "reload-config" /\ shell = "starting"))
        /\ UNCHANGED <<idle, file, shell, config_config>> /\ Aside
    BY <1>11 DEF Conf!Cli, Conf!Sent, Conf!Told, Conf!pages
  <2>2. c \in Conn
    BY DEF Conn
  <2> HIDE DEF c
  <2>3. conns' \in Seq(Conn) /\ (Pending(conns, idle) => Pending(conns', idle))
    BY <1>1, <2>1, <2>2, PendingIs
  <2>4. Whole'
    BY <1>1, <2>1, <2>3 DEF Queues, ShellAgrees
  <2> QED
    BY <1>3, <2>1, <2>4
<1>12. ASSUME NEW i \in DOMAIN conns, Conf!Late(i) PROVE FilesAgree'
  <2>1. /\ conns' = [conns EXCEPT ![i].late = TRUE]
        /\ UNCHANGED <<idle, file, shell, config_config, missed>> /\ Aside
    BY <1>12 DEF Conf!Late, Conf!pages
  <2>2. \A j \in DOMAIN conns : conns[j] \in Conn
    BY <1>1
  <2>3. DOMAIN conns' = DOMAIN conns /\ \A j \in DOMAIN conns : conns'[j].cmd = conns[j].cmd /\ conns'[j] \in Conn
    BY <2>1, <2>2 DEF Conn
  <2>4. conns' = [j \in DOMAIN conns |-> conns'[j]]
    BY <2>1
  <2>5. conns' \in Seq(Conn)
    <3>1. Len(conns) \in Nat /\ DOMAIN conns = 1..Len(conns)
      BY <1>1
    <3> DEFINE g == [j \in 1..Len(conns) |-> conns'[j]]
    <3>2. \A j \in 1..Len(conns) : conns'[j] \in Conn
      BY <2>3, <3>1
    <3>3. g \in Seq(Conn)
      BY <3>1, <3>2
    <3> QED
      BY <2>4, <3>1, <3>3
  <2>6. Pending(conns, idle) <=> Pending(conns', idle)
    BY <2>3 DEF Pending
  <2>7. Whole'
    BY <1>1, <2>1, <2>5, <2>6 DEF Queues, ShellAgrees
  <2> QED
    BY <1>3, <2>1, <2>7
<1>13. ASSUME NEW i \in DOMAIN conns, Conf!LineRead(i) PROVE FilesAgree'
  <2> DEFINE r == Conf!RemoveAt(conns, i)
             d == conns[i].cmd
  <2>1. /\ idle' = (IF conns[i].late THEN idle ELSE Append(idle, d))
        /\ missed' = (missed \/ (conns[i].late /\ d = "reload-config"))
        /\ conns' = r
        /\ UNCHANGED <<file, shell, config_config>> /\ Aside
    BY <1>13 DEF Conf!LineRead, Conf!pages
  <2>2. conns[i] \in Conn
    BY <1>1
  <2>3. d \in Commands
    BY <2>2 DEF Conn
  <2>4. r \in Seq(Conn) /\ (Pending(conns, idle) => Pending(r, idle) \/ d = "reload-config")
    BY <1>1, PendingIs
  <2> HIDE DEF r, d
  <2>5. /\ Append(idle, d) \in Seq(Commands)
        /\ Pending(r, idle) => Pending(r, Append(idle, d))
        /\ d = "reload-config" => Pending(r, Append(idle, d))
    BY <1>1, <2>3, <2>4, PendingIs
  <2>6. Whole'
    <3>1. Queues'
      BY <1>1, <2>1, <2>4, <2>5 DEF Queues
    <3>2. ShellAgrees'
      BY <1>1, <2>1, <2>4, <2>5 DEF ShellAgrees
    <3> QED
      BY <1>1, <2>1, <3>1, <3>2
  <2> QED
    BY <1>3, <2>1, <2>6
<1> QED
  BY <1>5, <1>6, <1>7, <1>8, <1>9, <1>10, <1>11, <1>12, <1>13

\* A function on 1..n is a sequence.
LEMMA SeqOver ==
  ASSUME NEW n \in Nat, NEW g, g = [k \in 1..n |-> g[k]]
  PROVE  IsSeq(g) /\ Len(g) = n /\ DOMAIN g = 1..n
<1> DEFINE T == {g[i] : i \in DOMAIN g}
           h == [k \in 1..n |-> g[k]]
<1>1. DOMAIN g = 1..n
  OBVIOUS
<1>2. \A k \in 1..n : g[k] \in T
  BY <1>1
<1> HIDE DEF T
<1>3. h \in Seq(T) /\ Len(h) = n
  BY <1>2
<1> HIDE DEF h
<1>4. g = h
  BY DEF h
<1> QED
  BY <1>1, <1>3, <1>4 DEF IsSeq, T

\* A configuration with one setting changed.
LEMMA TurnedIs ==
  ASSUME NEW c, Configuration(c), NEW s \in Conf!Settings, NEW v
  PROVE  LET d == [c EXCEPT !.set[s] = v]
         IN  /\ Configuration(d) /\ d.layout = c.layout
             /\ \A t \in Conf!Settings : t # s => Conf!SavedValue(d, t) = Conf!SavedValue(c, t)
<1>1. PICK S, L : /\ c = [set |-> S, layout |-> L] /\ S = [t \in Conf!Settings |-> S[t]]
                  /\ Normal(L)
  BY DEF Configuration
<1> DEFINE d == [c EXCEPT !.set[s] = v]
           T == [t \in Conf!Settings |-> IF t = s THEN v ELSE S[t]]
<1>2. [S EXCEPT ![s] = v] = T
  BY <1>1
<1>3. d = [set |-> T, layout |-> L]
  <2>1. d = [set |-> [S EXCEPT ![s] = v], layout |-> L]
    BY <1>1
  <2> QED
    BY <1>2, <2>1
<1> HIDE DEF d
<1>4. d.set = T /\ d.layout = L /\ c.set = S /\ c.layout = L
  BY <1>1, <1>3
<1>5. T = [t \in Conf!Settings |-> T[t]]
  OBVIOUS
<1>6. Configuration(d)
  <2> HIDE DEF T
  <2> QED
    BY <1>1, <1>3, <1>4, <1>5 DEF Configuration
<1>7. \A t \in Conf!Settings : t # s => Conf!SavedValue(d, t) = Conf!SavedValue(c, t)
  BY <1>4 DEF Conf!SavedValue
<1> QED
  BY <1>4, <1>6, <1>7 DEF d

\* The shell and the widget that save.
LEMMA WidgetSteps ==
  ASSUME FilesAgree,
         \E v \in 1..2 : Conf!BacklightSaves(v) \/ Conf!AccentPicked(v)
  PROVE  FilesAgree'
<1>1. /\ Wells(file) /\ Configuration(config_config) /\ RowsFit /\ DraftFits
      /\ Queues /\ ShellAgrees /\ SheetAgrees
  BY DEF FilesAgree
<1> DEFINE Aside == UNCHANGED <<rows, draft, ide, conns, idle, shell, missed>> /\ noticed' = (ide # 0)
<1>2. Aside => RowsFit' /\ DraftFits' /\ SheetAgrees' /\ Queues'
  BY <1>1 DEF Wells, RowsFit, DraftFits, SheetAgrees, Queues
<1>3. {"rotate", "accent"} \subseteq Conf!Settings /\ Kept \subseteq Conf!Settings /\ "accent" \notin Kept
  BY DEF Conf!Settings, Kept
<1>4. ASSUME NEW v, Conf!BacklightSaves(v) PROVE FilesAgree'
  <2> DEFINE d == [config_config EXCEPT !.set["rotate"] = v]
  <2>1. config_config' = d /\ file' = Conf!Save(config_config') /\ Aside
    BY <1>4 DEF Conf!BacklightSaves, Conf!Write, Conf!pages
  <2>2. Configuration(d)
    BY <1>1, <1>3, TurnedIs
  <2> HIDE DEF d
  <2>3. Follows(d, Conf!Save(d)) /\ Wells(Conf!Save(d))
    BY <2>2, FollowsOwn, ReloadedIs DEF Configuration
  <2>4. Configuration(config_config') /\ Wells(file') /\ Follows(config_config', file')
    BY <2>1, <2>2, <2>3
  <2> QED
    BY <1>2, <2>1, <2>4 DEF FilesAgree, ShellAgrees, Wells
<1>5. ASSUME NEW v, Conf!AccentPicked(v) PROVE FilesAgree'
  <2> DEFINE c == Conf!Load(file)
             d == [c EXCEPT !.set["accent"] = v]
  <2>1. config_config' = config_config /\ file' = Conf!Save(d) /\ Aside
    BY <1>5 DEF Conf!AccentPicked, Conf!Write, Conf!pages
  <2>2. Configuration(c)
    BY <1>1, LoadIs
  <2>3. /\ Configuration(d) /\ d.layout = c.layout
        /\ \A s \in Kept : Conf!SavedValue(d, s) = Conf!SavedValue(c, s)
    <3> HIDE DEF c
    <3> QED
      BY <1>3, <2>2, TurnedIs
  <2> HIDE DEF d
  <2>4. Wells(Conf!Save(d))
    BY <2>3, ReloadedIs DEF Configuration
  <2>5. Follows(config_config, file) => Follows(config_config, Conf!Save(d))
    BY <1>1, <2>3, FollowsOn DEF Kept
  <2>6. Configuration(config_config') /\ Wells(file')
    BY <1>1, <2>1, <2>4
  <2>7. ShellAgrees'
    BY <1>1, <2>1, <2>5 DEF ShellAgrees
  <2> QED
    BY <1>2, <2>1, <2>6, <2>7 DEF FilesAgree, Wells
<1> QED
  BY <1>4, <1>5

\* The rows of one section are replaced by a sequence.
LEMMA RowsChanged ==
  ASSUME NEW r, r = [j \in Conf!Sections |-> r[j]], \A j \in Conf!Sections : IsSeq(r[j]),
         NEW i \in Conf!Sections, NEW y, IsSeq(y), NEW q, q = [r EXCEPT ![i] = y]
  PROVE  q = [j \in Conf!Sections |-> q[j]] /\ \A j \in Conf!Sections : IsSeq(q[j])
<1>1. DOMAIN r = Conf!Sections
  OBVIOUS
<1>2. DOMAIN q = Conf!Sections /\ \A j \in Conf!Sections : q[j] = IF j = i THEN y ELSE r[j]
  BY <1>1
<1>3. q = [j \in Conf!Sections |-> q[j]]
  BY <1>1
<1> QED
  BY <1>2, <1>3

\* What the pages do before they save.
LEMMA PageSteps ==
  ASSUME FilesAgree,
         \/ \E p \in Conf!Pages : Conf!OpenPage(p)
         \/ \E p \in Conf!Settings, v \in 1..2 : Conf!Turn(p, v)
         \/ Conf!Revert
         \/ Conf!EditRows
  PROVE  FilesAgree'
<1>1. /\ Wells(file) /\ Configuration(config_config) /\ RowsFit /\ DraftFits
      /\ Queues /\ ShellAgrees /\ SheetAgrees
  BY DEF FilesAgree
<1> DEFINE Aside == /\ UNCHANGED <<file, config_config, draft, ide, noticed, css>>
                    /\ UNCHANGED <<conns, idle, shell, missed>>
<1>2. Aside /\ RowsFit' => FilesAgree'
  BY <1>1 DEF FilesAgree, Wells, DraftFits, SheetAgrees, Queues, ShellAgrees
<1>3. rows' = rows => RowsFit'
  BY <1>1 DEF RowsFit
<1>4. ASSUME NEW p, Conf!OpenPage(p) PROVE FilesAgree'
  <2> DEFINE c == Conf!Load(file)
  <2>1. Aside /\ (rows' = rows \/ rows' = Conf!WidgetsPage(c))
    BY <1>4 DEF Conf!OpenPage
  <2>2. Configuration(c)
    BY <1>1, LoadIs
  <2> HIDE DEF c
  <2>3. CASE rows' = Conf!WidgetsPage(c)
    <3>1. /\ rows' = [i \in Conf!Sections |-> rows'[i]]
          /\ \A i \in Conf!Sections :
                rows'[i] = [k \in DOMAIN c.layout[i] |-> Conf!Row(c.layout[i][k])]
      BY <2>3 DEF Conf!WidgetsPage
    <3>2. ASSUME NEW i \in Conf!Sections PROVE IsSeq(rows'[i])
      <4>1. IsSeq(c.layout[i])
        BY <2>2 DEF Configuration, Normal, Clean
      <4>2. Len(c.layout[i]) \in Nat /\ DOMAIN c.layout[i] = 1..Len(c.layout[i])
        BY <4>1, SeqIs DEF IsSeq
      <4>3. rows'[i] = [k \in 1..Len(c.layout[i]) |-> rows'[i][k]]
        BY <3>1, <4>2
      <4> QED
        BY <4>2, <4>3, SeqOver
    <3> QED
      BY <1>2, <2>1, <3>1, <3>2 DEF RowsFit
  <2> QED
    BY <1>2, <1>3, <2>1, <2>3
<1>5. ASSUME NEW p, NEW v, Conf!Turn(p, v) PROVE FilesAgree'
  <2>1. Aside /\ rows' = rows
    BY <1>5 DEF Conf!Turn
  <2> QED
    BY <1>2, <1>3, <2>1
<1>6. CASE Conf!Revert
  <2>1. Aside /\ rows' = rows
    BY <1>6 DEF Conf!Revert
  <2> QED
    BY <1>2, <1>3, <2>1
<1>7. CASE Conf!EditRows
  <2>1. Aside /\ rows # <<>>
    BY <1>7 DEF Conf!EditRows
  <2>2. rows = [j \in Conf!Sections |-> rows[j]] /\ \A j \in Conf!Sections : IsSeq(rows[j])
    BY <1>1, <2>1 DEF RowsFit
  <2>3. PICK i \in Conf!Sections :
          \/ \E k \in DOMAIN rows[i] : Conf!RowUp(i, k) \/ Conf!RowMoves(i, k) \/ Conf!RowRemoved(i, k)
          \/ \E id \in Addable : Conf!RowAdded(i, id)
    BY <1>7 DEF Conf!EditRows
  <2> DEFINE x == rows[i]
  <2>4. IsSeq(x)
    BY <2>2
  <2>5. Len(x) \in Nat /\ DOMAIN x = 1..Len(x)
    BY <2>4, SeqIs DEF IsSeq
  <2>6. RowsFit'
    <3>1. ASSUME NEW k \in DOMAIN x, Conf!RowUp(i, k) PROVE RowsFit'
      <4> DEFINE y == [x EXCEPT ![k] = rows[i][k - 1], ![k - 1] = rows[i][k]]
      <4>1. rows' = [rows EXCEPT ![i] = y]
        BY <3>1, <2>2 DEF Conf!RowUp
      <4>2. y = [j \in DOMAIN x |-> y[j]]
        OBVIOUS
      <4> HIDE DEF y, x
      <4>3. y = [j \in 1..Len(x) |-> y[j]]
        BY <2>5, <4>2
      <4>4. IsSeq(y)
        BY <2>5, <4>3, SeqOver
      <4> QED
        BY <2>2, <4>1, <4>4, RowsChanged DEF RowsFit
    <3>2. ASSUME NEW k \in DOMAIN x PROVE IsSeq(Conf!RemoveAt(x, k))
      <4>1. Conf!RemoveAt(x, k) \in Seq({x[j] : j \in DOMAIN x})
        BY <2>4, RemovalIs DEF Conf!RemoveAt, IsSeq
      <4> QED
        BY <4>1, SeqIs
    <3>3. ASSUME NEW k \in DOMAIN x, Conf!RowRemoved(i, k) PROVE RowsFit'
      <4> DEFINE y == Conf!RemoveAt(x, k)
      <4>1. rows' = [rows EXCEPT ![i] = y]
        BY <3>3, <2>2 DEF Conf!RowRemoved
      <4>2. IsSeq(y)
        BY <3>2
      <4> HIDE DEF y
      <4> QED
        BY <2>2, <4>1, <4>2, RowsChanged DEF RowsFit
    <3>4. ASSUME NEW k \in DOMAIN x, Conf!RowMoves(i, k) PROVE RowsFit'
      <4> DEFINE y == Conf!RemoveAt(x, k)
                 m == (i % 3) + 1
                 e == rows[i][k]
                 q == [rows EXCEPT ![i] = y]
                 z == Append(q[m], e)
      <4>1. rows' = [rows EXCEPT ![i] = y, ![m] = Append(@, e)]
        BY <3>4 DEF Conf!RowMoves
      <4>2. IsSeq(y)
        BY <3>2
      <4>3. m \in Conf!Sections /\ m # i
        BY DEF Conf!Sections
      <4> HIDE DEF y, m, e
      <4>a. q[m] = rows[m]
        BY <2>2, <4>3
      <4>4. rows' = [q EXCEPT ![m] = z]
        <5>1. rows' = [rows EXCEPT ![i] = y, ![m] = z]
          BY <4>1, <4>a
        <5> HIDE DEF z
        <5> QED
          BY <5>1
      <4>5. q = [j \in Conf!Sections |-> q[j]] /\ \A j \in Conf!Sections : IsSeq(q[j])
        BY <2>2, <4>2, RowsChanged
      <4> HIDE DEF q
      <4>6. IsSeq(z)
        BY <4>3, <4>5, AppendIsSeq
      <4> HIDE DEF z
      <4> QED
        BY <4>3, <4>4, <4>5, <4>6, RowsChanged DEF RowsFit
    <3>5. ASSUME NEW id, Conf!RowAdded(i, id) PROVE RowsFit'
      <4> DEFINE e == Conf!Row([id |-> id, mode |-> "full"])
                 y == Append(x, e)
      <4>1. rows' = [rows EXCEPT ![i] = y]
        BY <3>5, <2>2 DEF Conf!RowAdded
      <4>2. IsSeq(y)
        BY <2>4, AppendIsSeq
      <4> HIDE DEF y
      <4> QED
        BY <2>2, <4>1, <4>2, RowsChanged DEF RowsFit
    <3> QED
      BY <2>3, <3>1, <3>3, <3>4, <3>5
  <2> QED
    BY <1>2, <2>1, <2>6
<1> QED
  BY <1>4, <1>5, <1>6, <1>7

\* Apply: a page reads the file and makes a configuration of it ...
LEMMA LoadsKeep ==
  ASSUME FilesAgree, NEW p \in Conf!Pages, Conf!ApplyLoads(p)
  PROVE  FilesAgree'
<1>1. /\ Wells(file) /\ Configuration(config_config) /\ RowsFit
      /\ Queues /\ ShellAgrees /\ SheetAgrees
  BY DEF FilesAgree
<1> DEFINE c == Conf!Load(file)
           X == CASE p = "widgets" -> Conf!WidgetsApplied(c)
                  [] p = "panel"   -> Conf!PanelApplied(c)
                  [] p = "rotate"  -> Conf!DisplaysApplied(c)
                  [] p = "accent"  -> Conf!ThemeApplied(c)
                  [] p = "ide"     -> Conf!IdeApplied(c)
<1>2. /\ UNCHANGED <<file, config_config, rows, ide, noticed>>
      /\ UNCHANGED <<conns, idle, shell, missed>>
      /\ draft' = [page |-> p, read |-> file, config |-> X]
      /\ p = "widgets" => rows # <<>>
  BY DEF Conf!ApplyLoads, Conf!Opened
<1>3. draft'.page = p /\ draft'.read = file /\ draft'.config = X /\ p # Conf!None
  BY <1>2 DEF Conf!Pages, Conf!Settings, Conf!None
<1>4. Configuration(c)
  BY <1>1, LoadIs
<1> DEFINE Turns(d, s) ==
             Configuration(d) /\ d.layout = c.layout
             /\ \A t \in Conf!Settings : t # s => Conf!SavedValue(d, t) = Conf!SavedValue(c, t)
<1>5. ASSUME NEW s \in Conf!Settings, NEW v PROVE Turns([c EXCEPT !.set[s] = v], s)
  <2> HIDE DEF c
  <2> QED
    BY <1>4, TurnedIs
<1>6. p # "widgets" => p \in Conf!Settings
  BY DEF Conf!Pages
<1>7. p # "widgets" => Turns(X, p)
  <2>1. p = "panel" => X = [c EXCEPT !.set["panel"] = controls["panel"]]
    BY DEF Conf!PanelApplied
  <2>2. p = "rotate" => X = [c EXCEPT !.set["rotate"] = controls["rotate"]]
    BY DEF Conf!DisplaysApplied
  <2>3. p = "accent" => X = [c EXCEPT !.set["accent"] = controls["accent"]]
    BY DEF Conf!ThemeApplied
  <2>4. p = "ide" => X = [c EXCEPT !.set["ide"] = controls["ide"]]
    BY DEF Conf!IdeApplied
  <2>5. p # "widgets" => p \in {"panel", "rotate", "accent", "ide"}
    BY DEF Conf!Pages, Conf!Settings
  <2>6. {"panel", "rotate", "accent", "ide"} \subseteq Conf!Settings
    BY DEF Conf!Settings
  <2> HIDE DEF X, c, Turns
  <2> QED
    BY <1>5, <2>1, <2>2, <2>3, <2>4, <2>5, <2>6
<1>8. p = "widgets" => Wells(X)
  <2> SUFFICES ASSUME p = "widgets" PROVE Wells(X)
    OBVIOUS
  <2>1. X = Conf!WidgetsApplied(c)
    OBVIOUS
  <2> DEFINE l == [i \in Conf!Sections |-> Conf!Collected(i, c)]
  <2>2. X = [c EXCEPT !.layout = l]
    BY <2>1 DEF Conf!WidgetsApplied
  <2>3. \A i \in Conf!Sections : IsSeq(rows[i])
    BY <1>1, <1>2 DEF RowsFit
  <2> HIDE DEF X, c
  <2>4. ASSUME NEW i \in Conf!Sections PROVE Len(l[i]) \in Nat
    <3> DEFINE g == Conf!Collected(i, c)
    <3>1. Len(rows[i]) \in Nat /\ DOMAIN rows[i] = 1..Len(rows[i])
      BY <2>3, SeqIs DEF IsSeq
    <3>2. g = [k \in DOMAIN rows[i] |-> g[k]]
      BY DEF Conf!Collected
    <3>3. l[i] = g
      OBVIOUS
    <3> HIDE DEF g, l
    <3>4. g = [k \in 1..Len(rows[i]) |-> g[k]]
      BY <3>1, <3>2
    <3> QED
      BY <3>1, <3>3, <3>4, SeqOver
  <2> HIDE DEF l
  <2>5. X.layout = l
    <3>1. PICK S, L : c = [set |-> S, layout |-> L]
      BY <1>4 DEF Configuration
    <3>2. X = [set |-> S, layout |-> l]
      BY <2>2, <3>1
    <3> QED
      BY <3>2
  <2> QED
    BY <2>4, <2>5 DEF Wells
<1> HIDE DEF X
<1>9. DraftFits'
  <2>1. Wells(X)
    <3>1. ASSUME p # "widgets" PROVE Wells(X)
      <4>1. Normal(X.layout)
        BY <1>7, <3>1 DEF Configuration
      <4>2. \A i \in Conf!Sections : Len(X.layout[i]) \in Nat
        BY <4>1, SeqIs DEF Normal, Clean, IsSeq
      <4> QED
        BY <4>2 DEF Wells
    <3> QED
      BY <1>8, <3>1
  <2>2. p \in {"accent", "ide"} =>
          /\ \A s \in Kept : Conf!SavedValue(X, s) = Conf!SavedValue(c, s)
          /\ X.layout = c.layout
    <3>1. Kept \subseteq Conf!Settings /\ "accent" \notin Kept /\ "ide" \notin Kept
      BY DEF Conf!Settings, Kept
    <3> HIDE DEF c
    <3> QED
      BY <1>7, <3>1
  <2>3. Wells(draft'.config)
    BY <1>3, <2>1
  <2> QED
    BY <1>3, <2>2, <2>3 DEF DraftFits, Wells
<1>10. Wells(file)' /\ Configuration(config_config)' /\ RowsFit' /\ Queues' /\ ShellAgrees'
  BY <1>1, <1>2 DEF Wells, RowsFit, Queues, ShellAgrees
<1>11. SheetAgrees'
  BY <1>1, <1>2, <1>3 DEF SheetAgrees
<1> QED
  BY <1>9, <1>10, <1>11 DEF FilesAgree

\* ... and writes it.
LEMMA SavesKeep ==
  ASSUME FilesAgree, Conf!ApplySaves
  PROVE  FilesAgree'
<1>1. /\ Wells(file) /\ Configuration(config_config) /\ RowsFit /\ DraftFits
      /\ conns \in Seq(Conn) /\ idle \in Seq(Commands) /\ ShellAgrees
  BY DEF FilesAgree, Queues
<1> DEFINE d == draft.config
           send(cmd) == Append(conns, [cmd |-> cmd, late |-> FALSE])
<1>2. /\ draft.page # Conf!None /\ file' = Conf!Save(d) /\ noticed' = (ide # 0)
      /\ draft' = Conf!NoDraft
      /\ UNCHANGED <<rows, shell, config_config, idle, ide>>
  BY DEF Conf!ApplySaves, Conf!Write
<1>3. ASSUME draft.page \in {"ide", "accent"}, missed' = (missed \/ file # draft.read),
             conns' = conns \/ conns' = send("reload-theme")
      PROVE  Queues' /\ ShellAgrees'
  <2>1. conns' \in Seq(Conn) /\ (Pending(conns, idle) => Pending(conns', idle))
    <3> DEFINE c == [cmd |-> "reload-theme", late |-> FALSE]
    <3>1. c \in Conn
      BY DEF Conn, Commands
    <3>2. conns' = conns \/ conns' = Append(conns, c)
      BY <1>3
    <3> HIDE DEF c
    <3>3. Append(conns, c) \in Seq(Conn) /\ (Pending(conns, idle) => Pending(Append(conns, c), idle))
      BY <1>1, <3>1, PendingIs
    <3> QED
      BY <1>1, <3>2, <3>3
  <2>2. ~missed' => file = draft.read
    BY <1>3
  <2>3. ~missed' => (Follows(config_config, file) => Follows(config_config, Conf!Save(d)))
    <3>1. /\ \A s \in Kept : Conf!SavedValue(d, s) = Conf!SavedValue(Conf!Load(draft.read), s)
          /\ d.layout = Conf!Load(draft.read).layout
      BY <1>1, <1>3 DEF DraftFits
    <3> SUFFICES ASSUME ~missed', Follows(config_config, file)
                 PROVE  Follows(config_config, Conf!Save(d))
      OBVIOUS
    <3>2. /\ \A s \in Kept : Conf!SavedValue(d, s) = Conf!SavedValue(Conf!Load(file), s)
          /\ d.layout = Conf!Load(file).layout
      BY <2>2, <3>1
    <3> HIDE DEF d
    <3> QED
      BY <1>1, <3>2, FollowsOn DEF Kept
  <2>4. ShellAgrees'
    <3>1. ~missed' => ~missed
      BY <1>3
    <3> HIDE DEF d
    <3> QED
      BY <1>1, <1>2, <2>1, <2>3, <3>1 DEF ShellAgrees
  <2>5. Queues'
    BY <1>1, <1>2, <2>1 DEF Queues
  <2> QED
    BY <2>4, <2>5
<1>4. ASSUME conns' = (IF shell = "on" THEN send("reload-config") ELSE conns),
             missed' = (missed \/ shell = "starting")
      PROVE  Queues' /\ ShellAgrees'
  <2> DEFINE c == [cmd |-> "reload-config", late |-> FALSE]
  <2>1. c \in Conn /\ c.cmd = "reload-config"
    BY DEF Conn, Commands
  <2>2. conns' \in Seq(Conn) /\ (shell = "on" => Pending(conns', idle))
    <3>1. conns' = IF shell = "on" THEN Append(conns, c) ELSE conns
      BY <1>4
    <3> HIDE DEF c
    <3>2. Append(conns, c) \in Seq(Conn) /\ Pending(Append(conns, c), idle)
      BY <1>1, <2>1, PendingIs
    <3> QED
      BY <1>1, <3>1, <3>2
  <2>3. ShellAgrees'
    <3>1. shell = "starting" => missed'
      BY <1>4
    <3> QED
      BY <1>2, <2>2, <3>1 DEF ShellAgrees
  <2>4. Queues'
    BY <1>1, <1>2, <2>2 DEF Queues
  <2> QED
    BY <2>3, <2>4
<1>5. Queues' /\ ShellAgrees'
  <2>1. \/ /\ draft.page = "ide"
           /\ conns' = conns /\ missed' = (missed \/ file # draft.read)
        \/ /\ draft.page = "accent"
           /\ Conf!Told("reload-theme") /\ missed' = (missed \/ file # draft.read)
        \/ draft.page \notin {"ide", "accent"} /\ Conf!Sent("reload-config")
    BY DEF Conf!ApplySaves
  <2>2. Conf!Told("reload-theme") => conns' = conns \/ conns' = send("reload-theme")
    BY DEF Conf!Told
  <2>3. Conf!Sent("reload-config") =>
          /\ conns' = (IF shell = "on" THEN send("reload-config") ELSE conns)
          /\ missed' = (missed \/ shell = "starting")
    BY DEF Conf!Sent, Conf!Told
  <2> HIDE DEF send
  <2> QED
    BY <1>3, <1>4, <2>1, <2>2, <2>3
<1>6. DraftFits'
  <2>1. draft'.page = Conf!None
    BY <1>2 DEF Conf!NoDraft
  <2>2. Conf!None \notin {"accent", "ide"}
    BY DEF Conf!None
  <2> QED
    BY <2>1, <2>2 DEF DraftFits
<1>7. Wells(file')
  <2>1. Wells(d)
    BY <1>1, <1>2 DEF DraftFits
  <2>2. file'.layout = d.layout
    BY <1>2 DEF Conf!Save
  <2> QED
    BY <2>1, <2>2 DEF Wells
<1>8. SheetAgrees'
  BY <1>2 DEF SheetAgrees
<1>9. Configuration(config_config)' /\ RowsFit'
  BY <1>1, <1>2 DEF RowsFit
<1> QED
  BY <1>5, <1>6, <1>7, <1>8, <1>9 DEF FilesAgree, Wells

\* What the editor and its user do.
LEMMA EditorSteps ==
  ASSUME FilesAgree,
         \/ \E v \in 1..2 : Conf!Zoom(v)
         \/ Conf!IdeStarts \/ Conf!FileNoticed
         \/ \E f \in ByHand : Conf!EditedByHand(f)
  PROVE  FilesAgree'
<1>1. /\ Wells(file) /\ Configuration(config_config) /\ RowsFit /\ DraftFits
      /\ Queues /\ ShellAgrees /\ SheetAgrees
  BY DEF FilesAgree
<1> DEFINE Aside == UNCHANGED <<config_config, draft, rows, conns, idle, shell>>
<1>2. Aside => Configuration(config_config)' /\ DraftFits' /\ RowsFit' /\ Queues'
  BY <1>1 DEF DraftFits, RowsFit, Queues, Wells
<1>3. CASE Conf!Applies
  <2>1. /\ Aside /\ UNCHANGED <<file, missed>>
        /\ ide' = Conf!SavedValue(Conf!Load(file), "ide") /\ css' = Conf!SheetOf(Conf!Load(file))
    BY <1>3 DEF Conf!Applies, Conf!pages
  <2>2. SheetAgrees' /\ ShellAgrees' /\ Wells(file)'
    BY <1>1, <2>1 DEF SheetAgrees, ShellAgrees, Wells
  <2> QED
    BY <1>2, <2>1, <2>2 DEF FilesAgree
<1>4. ASSUME NEW f \in ByHand, Conf!EditedByHand(f) PROVE FilesAgree'
  <2>1. Aside /\ file' = f /\ noticed' = (ide # 0) /\ missed' /\ ide' = ide
    BY <1>4 DEF Conf!EditedByHand, Conf!pages
  <2>2. Wells(f)
    BY FilesAssumption DEF Wells, Conf!Sections
  <2>3. SheetAgrees' /\ ShellAgrees' /\ Wells(file)'
    BY <2>1, <2>2 DEF SheetAgrees, ShellAgrees, Wells
  <2> QED
    BY <1>2, <2>1, <2>3 DEF FilesAgree
<1> QED
  BY <1>3, <1>4 DEF Conf!Zoom, Conf!IdeStarts, Conf!FileNoticed

\* The first state satisfies the invariant.
LEMMA FilesInit ==
  ASSUME Conf!Init
  PROVE  FilesAgree
<1>1. Wells(ShippedFile) /\ ShippedFile = [kind |-> ShippedFile.kind, set |-> ShippedFile.set,
                                           layout |-> ShippedFile.layout]
  BY FilesAssumption DEF Wells, Conf!Sections
<1>2. Wells(file)
  <2> DEFINE absent == [ShippedFile EXCEPT !.kind = "absent"]
  <2>1. absent.layout = ShippedFile.layout
    <3>1. PICK a, b, c : ShippedFile = [kind |-> a, set |-> b, layout |-> c]
      BY <1>1
    <3>2. absent = [kind |-> "absent", set |-> b, layout |-> c]
      BY <3>1
    <3> HIDE DEF absent
    <3> QED
      BY <3>1, <3>2
  <2>2. file = ShippedFile \/ file = absent
    BY DEF Conf!Init
  <2> HIDE DEF absent
  <2> QED
    BY <1>1, <2>1, <2>2 DEF Wells
<1>3. Configuration(config_config)
  <2> DEFINE d == Conf!Default
  <2>1. config_config = [set |-> d, layout |-> Conf!Bare]
    BY DEF Conf!Init
  <2>2. d = [s \in Conf!Settings |-> d[s]]
    BY DEF Conf!Default
  <2> HIDE DEF d
  <2> QED
    BY <2>1, <2>2, BareIsNormal DEF Configuration
<1>4. rows = <<>> /\ draft = Conf!NoDraft /\ conns = <<>> /\ idle = <<>> /\ ide = 0 /\ shell = "off"
  BY DEF Conf!Init
<1>5. RowsFit /\ Queues /\ ShellAgrees /\ SheetAgrees
  BY <1>4 DEF RowsFit, Queues, ShellAgrees, SheetAgrees
<1>6. DraftFits
  <2>1. draft.page = Conf!None
    BY <1>4 DEF Conf!NoDraft
  <2>2. Conf!None \notin {"accent", "ide"}
    BY DEF Conf!None
  <2> QED
    BY <2>1, <2>2 DEF DraftFits
<1> QED
  BY <1>2, <1>3, <1>5, <1>6 DEF FilesAgree

\* Every step keeps the invariant.
LEMMA FilesNext ==
  ASSUME FilesAgree, [Conf!Next]_(Conf!vars)
  PROVE  FilesAgree'
<1>1. CASE Conf!Next
  <2>1. \/ Conf!Start \/ Conf!Activate \/ Conf!Quit \/ Conf!ReloadConfig \/ Conf!ReloadTheme
        \/ Conf!SheetChanged
        \/ \E cmd \in Commands : Conf!Cli(cmd)
        \/ \E i \in DOMAIN conns : Conf!Late(i) \/ Conf!LineRead(i)
        \/ \E v \in 1..2 : Conf!BacklightSaves(v) \/ Conf!AccentPicked(v)
        \/ \E v \in 1..2 : Conf!Zoom(v)
        \/ \E p \in Conf!Pages : Conf!OpenPage(p)
        \/ \E p \in Conf!Pages : Conf!ApplyLoads(p)
        \/ \E p \in Conf!Settings, v \in 1..2 : Conf!Turn(p, v)
        \/ Conf!Revert \/ Conf!EditRows \/ Conf!ApplySaves
        \/ Conf!IdeStarts \/ Conf!FileNoticed
        \/ \E f \in ByHand : Conf!EditedByHand(f)
    BY <1>1 DEF Conf!Next, Commands
  <2> QED
    BY <2>1, ShellSteps, WidgetSteps, PageSteps, LoadsKeep, SavesKeep, EditorSteps
<1>2. CASE UNCHANGED Conf!vars
  <2>1. /\ UNCHANGED <<file, config_config, rows, ide, noticed, css>>
        /\ UNCHANGED <<conns, idle, shell, missed, draft>>
    BY <1>2 DEF Conf!vars, Conf!pages
  <2> QED
    BY <2>1 DEF FilesAgree, Wells, RowsFit, DraftFits, Queues, ShellAgrees, SheetAgrees
<1> QED
  BY <1>1, <1>2

\* The invariant implies what is promised.
LEMMA FilesHold ==
  ASSUME FilesAgree
  PROVE  ConfigurationsAgree
<1>1. Queues /\ ShellAgrees /\ SheetAgrees
  BY DEF FilesAgree
<1>2. ASSUME Conf!Quiet, shell = "on", ~missed PROVE Follows(config_config, file)
  <2>1. conns = <<>> /\ idle = <<>>
    BY <1>2 DEF Conf!Quiet
  <2>2. DOMAIN conns = {} /\ DOMAIN idle = {}
    BY <2>1
  <2> QED
    BY <1>1, <1>2, <2>2 DEF ShellAgrees, Pending
<1>3. Conf!ShellFollows
  BY <1>2 DEF Conf!ShellFollows, Follows
<1>4. Conf!SheetFollows
  BY <1>1 DEF Conf!SheetFollows, Conf!Quiet, SheetAgrees, Conf!SheetOf
<1> QED
  BY <1>3, <1>4 DEF ConfigurationsAgree, Conf!ConfigurationsAgree

\* Whoever saves tells the shell, or is the shell: when no reload is under way and
\* none was missed, the shell works with what the file says, and the sheet says
\* what the file says while the editor watches it.
THEOREM ConfigurationsAlwaysAgree == Conf!Spec => []ConfigurationsAgree
<1>1. Conf!Init => FilesAgree
  BY FilesInit
<1>2. FilesAgree /\ [Conf!Next]_(Conf!vars) => FilesAgree'
  BY FilesNext
<1>3. FilesAgree => ConfigurationsAgree
  BY FilesHold
<1> QED
  BY <1>1, <1>2, <1>3, PTL DEF Conf!Spec

-----------------------------------------------------------------------------
(* The shell's view of niri.                                               *)

\* What the shell keeps: its workspaces, windows, focused window and whether a line
\* told of it, and the layouts.
View(sp, ws, fc, td, ly) == [sp |-> Niri!Range(sp), ws |-> ws, fc |-> fc, td |-> td, ly |-> ly]

Updated(ws, w) ==
  LET at == {i \in DOMAIN ws : ws[i].id = w.id}
  IN  IF at = {} THEN Append(ws, w)
      ELSE [i \in DOMAIN ws |-> IF i \in at THEN w ELSE ws[i]]

Activated(sp, e) ==
  {IF s.id = e.id THEN [s EXCEPT !.active = TRUE, !.focused = e.focused]
   ELSE [s EXCEPT !.active = @ /\ ~(\A t \in sp : t.id = e.id => s.output = t.output),
                  !.focused = @ /\ ~e.focused] : s \in sp}

\* What a line makes of each of these, and of all.
SpacesBy(sp, e) ==
  IF e.event = "WorkspacesChanged" THEN Niri!Range(e.spaces)
  ELSE IF e.event = "WorkspaceActivated" THEN Activated(sp, e) ELSE sp
WindowsBy(ws, e) ==
  IF e.event = "WindowOpenedOrChanged" THEN Updated(ws, e.window)
  ELSE IF e.event = "WindowClosed" THEN Niri!Without(ws, e.id)
  ELSE IF e.event = "WindowsChanged" THEN e.windows ELSE ws
FocusBy(fc, ws, e) ==
  IF e.event = "WindowFocusChanged" THEN IF e.id = 0 THEN Niri!NoWindow ELSE Niri!Find(ws, e.id)
  ELSE IF e.event = "WindowOpenedOrChanged"
    THEN IF e.focus \/ fc.id = e.window.id THEN e.window ELSE fc
  ELSE IF e.event = "WindowClosed" THEN IF fc.id = e.id THEN Niri!NoWindow ELSE fc ELSE fc
ToldBy(td, e) ==
  IF e.event = "WindowFocusChanged" THEN TRUE
  ELSE IF e.event = "WindowOpenedOrChanged" THEN td \/ e.focus ELSE td
LayoutsBy(ly, e) ==
  IF e.event = "KeyboardLayoutsChanged" THEN [names |-> e.names, current |-> e.current]
  ELSE IF e.event = "KeyboardLayoutSwitched" THEN [names |-> ly.names, current |-> e.current]
  ELSE ly
Apply(v, e) ==
  [sp |-> SpacesBy(v.sp, e), ws |-> WindowsBy(v.ws, e), fc |-> FocusBy(v.fc, v.ws, e),
   td |-> ToldBy(v.td, e), ly |-> LayoutsBy(v.ly, e)]

LayoutLine(e) == e.event \in {"KeyboardLayoutsChanged", "KeyboardLayoutSwitched"}

\* The lines that wait lead from one view to another.
Leads(v, lines, w) ==
  \E V : /\ V[0] = v /\ V[Len(lines)] = w
         /\ \A i \in 1..Len(lines) : V[i] = Apply(V[i - 1], lines[i])

Now(n) ==
  {[id |-> s.id, idx |-> s.idx, output |-> s.output,
    active |-> s.id \in n.active, focused |-> s.id = n.focus] : s \in Niri!Range(n.spaces)}
FocusOf(n) == IF n.focused = 0 THEN Niri!NoWindow ELSE Niri!Find(n.windows, n.focused)

\* A view that has what niri has.
Agree(v, n) ==
  /\ v.sp = Now(n) /\ v.ws = n.windows /\ v.ly = [names |-> n.names, current |-> n.current]
  /\ v.td => v.fc = FocusOf(n)

Events == {"WorkspacesChanged", "WorkspaceActivated", "WindowFocusChanged",
           "WindowOpenedOrChanged", "WindowClosed", "WindowsChanged",
           "KeyboardLayoutsChanged", "KeyboardLayoutSwitched"}
LineFits(e) ==
  /\ e.event \in Events \cup {"eof"}
  /\ e.event = "WorkspacesChanged" =>
       IsSeq(e.spaces) /\ \A i \in DOMAIN e.spaces : e.spaces[i].idx \in Nat
  /\ e.event = "KeyboardLayoutsChanged" => IsSeq(e.names) /\ e.names # <<>>
Lines(s) == IsSeq(s) /\ \A i \in DOMAIN s : LineFits(s[i])
Alive(s) == \A i \in DOMAIN s : s[i].event # "eof"

Win == [id : NiriWindows, title : Titles, space : 1..3]
Alone(ws) == \A i, j \in DOMAIN ws : ws[i].id = ws[j].id => i = j
NiriFits(n) ==
  /\ n = [up |-> n.up, spaces |-> n.spaces, windows |-> n.windows, focused |-> n.focused,
          active |-> n.active, focus |-> n.focus, names |-> n.names, current |-> n.current]
  /\ n.spaces \in Spaces /\ n.windows \in Seq(Win) /\ Alone(n.windows)
  /\ n.focused \in Niri!Ids(n.windows) \cup {0}
  /\ n.names \in Keyboards /\ n.current \in DOMAIN n.names

PanelOf(l) == IF l.current \in DOMAIN l.names THEN l.names[l.current] ELSE Niri!NoLayout
Shows(sh, sp, ws, fc, ly) ==
  /\ sh = [tasks |-> sh.tasks, window |-> sh.window, radios |-> sh.radios,
           checked |-> sh.checked, panel |-> sh.panel]
  /\ sh.tasks = Niri!Tasks(sp, ws) /\ sh.window = fc
  /\ IsSeq(sh.radios) /\ IsSeq(ly.names) /\ Len(sh.radios) = Len(ly.names)
  /\ sh.panel = PanelOf(ly)
  /\ ly = [names |-> ly.names, current |-> ly.current]
Ascending(sp) ==
  /\ IsSeq(sp) /\ \A i \in DOMAIN sp : sp[i].idx \in Nat
  /\ \A i \in DOMAIN sp : i > 1 => sp[i - 1].idx <= sp[i].idx

\* What was written while the stream is alive.
Heard(v, s, checked, n) ==
  /\ n.up
  /\ \E w : Leads(v, s, w) /\ Agree(w, n)
  /\ (\A i \in DOMAIN s : ~LayoutLine(s[i])) => checked = n.current

\* The lines that wait, when the shell reads: they end at most once, and until then they
\* lead the shell to what niri has.
KeepsUp(conn, v, s, checked, n) ==
  /\ Lines(s)
  /\ conn => \A i \in DOMAIN s : s[i].event = "eof" => i = Len(s)
  /\ conn /\ Alive(s) => Heard(v, s, checked, n)

\* The inductive invariant.
StreamInv ==
  /\ NiriFits(niri) /\ connected \in BOOLEAN
  /\ Shows(shown, spaces, windows, focused, layouts) /\ Ascending(spaces)
  /\ KeepsUp(connected, View(spaces, windows, focused, niri_told, layouts), stream,
             shown.checked, niri)

-----------------------------------------------------------------------------
(* Lines that wait.                                                        *)

\* One more line leads one step further.
LEMMA LeadsOn ==
  ASSUME NEW v, NEW s, NEW w, NEW e, IsSeq(s), Leads(v, s, w)
  PROVE  Leads(v, Append(s, e), Apply(w, e))
<1> DEFINE a == Append(s, e)
           n == Len(s)
<1>1. PICK V : /\ V[0] = v /\ V[n] = w
               /\ \A i \in 1..n : V[i] = Apply(V[i - 1], s[i])
  BY DEF Leads
<1>2. /\ n \in Nat /\ DOMAIN s = 1..n /\ DOMAIN a = 1..(n + 1) /\ IsSeq(a)
      /\ a = [i \in 1..(n + 1) |-> IF i \in DOMAIN s THEN s[i] ELSE e]
  BY AppendIsSeq
<1>3. Len(a) = n + 1
  <2>1. Len(a) \in Nat /\ DOMAIN a = 1..Len(a)
    BY <1>2, SeqIs DEF IsSeq
  <2> HIDE DEF a
  <2> QED
    BY <1>2, <2>1
<1>4. (\A i \in 1..n : a[i] = s[i]) /\ a[n + 1] = e
  BY <1>2
<1> HIDE DEF a, n
<1> DEFINE W == [i \in 0..(n + 1) |-> IF i \in 0..n THEN V[i] ELSE Apply(w, e)]
<1>5. W[0] = v /\ W[n + 1] = Apply(w, e) /\ \A i \in 0..n : W[i] = V[i]
  BY <1>1, <1>2
<1>6. ASSUME NEW i \in 1..(n + 1) PROVE W[i] = Apply(W[i - 1], a[i])
  <2>1. CASE i \in 1..n
    <3>1. i - 1 \in 0..n /\ i \in 0..n
      BY <1>2, <2>1
    <3> HIDE DEF W
    <3> QED
      BY <1>1, <1>4, <1>5, <2>1, <3>1
  <2>2. CASE i = n + 1
    <3>1. i - 1 = n /\ n \in 0..n
      BY <1>2, <2>2
    <3> HIDE DEF W
    <3>2. W[i - 1] = w
      BY <1>1, <1>5, <3>1
    <3> QED
      BY <1>4, <1>5, <2>2, <3>2
  <2> QED
    BY <1>2, <2>1, <2>2
<1> HIDE DEF W
<1> QED
  BY <1>3, <1>5, <1>6 DEF Leads, a

\* A line that was read is one that the others come after.
LEMMA LeadsTail ==
  ASSUME NEW v, NEW s, NEW w, IsSeq(s), s # <<>>, Leads(v, s, w)
  PROVE  Leads(Apply(v, Head(s)), Tail(s), w)
<1> DEFINE t == Tail(s)
           n == Len(s)
<1>1. PICK V : /\ V[0] = v /\ V[n] = w
               /\ \A i \in 1..n : V[i] = Apply(V[i - 1], s[i])
  BY DEF Leads
<1>2. n \in Nat /\ n # 0 /\ Head(s) = s[1] /\ Len(t) = n - 1 /\ \A j \in 1..(n - 1) : t[j] = s[j + 1]
  BY HeadTailProperties DEF IsSeq
<1> HIDE DEF t, n
<1>3. PICK m \in Nat : m + 1 = n /\ m = n - 1
  BY <1>2
<1> DEFINE W == [i \in 0..m |-> V[i + 1]]
<1>4. W[0] = V[1] /\ W[m] = V[n] /\ \A i \in 0..m : W[i] = V[i + 1]
  BY <1>3
<1>5. V[1] = Apply(v, Head(s))
  <2>1. 1 \in 1..n /\ 1 - 1 = 0
    BY <1>2
  <2> QED
    BY <1>1, <1>2, <2>1
<1>6. ASSUME NEW i \in 1..m PROVE W[i] = Apply(W[i - 1], t[i])
  <2>1. PICK j : j = i + 1
    OBVIOUS
  <2>2. j \in 1..n /\ j - 1 = i /\ i - 1 \in 0..m /\ i \in 0..m /\ (i - 1) + 1 = i
    BY <1>3, <2>1
  <2>3. V[j] = Apply(V[i], s[j])
    BY <1>1, <2>2
  <2>4. t[i] = s[j]
    BY <1>2, <1>3, <2>1
  <2>5. W[i] = V[j] /\ W[i - 1] = V[i]
    <3> HIDE DEF W
    <3> QED
      BY <1>4, <2>1, <2>2
  <2> QED
    BY <2>3, <2>4, <2>5
<1> HIDE DEF W
<1>7. W[0] = Apply(v, Head(s)) /\ W[Len(t)] = w
  BY <1>1, <1>2, <1>3, <1>4, <1>5
<1>8. \A i \in 1..Len(t) : W[i] = Apply(W[i - 1], t[i])
  BY <1>2, <1>3, <1>6
<1> QED
  BY <1>7, <1>8 DEF Leads, t

\* Without lines there is nothing to wait for.
LEMMA LeadsNow ==
  ASSUME NEW v
  PROVE  Leads(v, <<>>, v) /\ \A w : Leads(v, <<>>, w) => w = v
<1>1. Leads(v, <<>>, v)
  <2> DEFINE W == [i \in 0..0 |-> v]
  <2>1. W[0] = v /\ W[Len(<<>>)] = v /\ \A i \in 1..Len(<<>>) : W[i] = Apply(W[i - 1], <<>>[i])
    OBVIOUS
  <2> HIDE DEF W
  <2> QED
    BY <2>1 DEF Leads
<1>2. ASSUME NEW w, Leads(v, <<>>, w) PROVE w = v
  BY <1>2 DEF Leads
<1> QED
  BY <1>1, <1>2

\* Lines that tell nothing of the layouts leave them.
LEMMA Quiet ==
  ASSUME NEW v, NEW s, NEW w, IsSeq(s), Leads(v, s, w), \A i \in DOMAIN s : ~LayoutLine(s[i])
  PROVE  w.ly = v.ly
<1> DEFINE n == Len(s)
<1>1. PICK V : /\ V[0] = v /\ V[n] = w
               /\ \A i \in 1..n : V[i] = Apply(V[i - 1], s[i])
  BY DEF Leads
<1>2. n \in Nat /\ DOMAIN s = 1..n
  BY SeqIs DEF IsSeq
<1> HIDE DEF n
<1> DEFINE B == {i \in 0..n : V[i].ly # v.ly}
<1>3. B = {}
  <2> SUFFICES ASSUME B # {} PROVE FALSE
    OBVIOUS
  <2>1. B \subseteq Nat
    OBVIOUS
  <2>2. PICK i \in B : \A k \in B : i <= k
    BY <2>1, LeastNatural
  <2>3. i \in 0..n /\ V[i].ly # v.ly /\ i # 0
    BY <1>1
  <2>4. PICK p \in 0..n : p = i - 1
    BY <2>3, <1>2
  <2>5. V[p].ly = v.ly
    <3>1. ~(i <= p)
      BY <2>3, <2>4
    <3> QED
      BY <2>2, <2>4, <3>1
  <2>6. i \in 1..n /\ i \in DOMAIN s
    BY <1>2, <2>3
  <2>7. V[i] = Apply(V[p], s[i]) /\ ~LayoutLine(s[i])
    BY <1>1, <2>4, <2>6
  <2>8. LayoutsBy(V[p].ly, s[i]) = V[p].ly
    BY <2>7 DEF LayoutsBy, LayoutLine
  <2>9. V[i].ly = V[p].ly
    BY <2>7, <2>8 DEF Apply
  <2> QED
    BY <2>3, <2>5, <2>9
<1>4. n \in 0..n
  BY <1>2
<1> QED
  BY <1>1, <1>3, <1>4

-----------------------------------------------------------------------------
(* The workspaces in their order.                                          *)

\* Each workspace has a place of its own, and there are as many places.
LEMMA SortedIs ==
  ASSUME NEW ws, IsSeq(ws), \A i \in DOMAIN ws : ws[i].idx \in Nat
  PROVE  /\ Niri!Range(Niri!SortedByIdx(ws)) = Niri!Range(ws)
         /\ Ascending(Niri!SortedByIdx(ws))
<1> DEFINE D == DOMAIN ws
           n == Len(ws)
           First(i) == {j \in D : Niri!Before(ws, j, i)}
           rank == [i \in D |-> Cardinality(First(i))]
           s == Niri!SortedByIdx(ws)
<1>1. n \in Nat /\ D = 1..n
  BY SeqIs DEF IsSeq
<1> HIDE DEF n, D
<1>2. /\ \A i \in D : ~Niri!Before(ws, i, i)
      /\ \A i, j \in D : i # j => Niri!Before(ws, i, j) \/ Niri!Before(ws, j, i)
      /\ \A i, j, k \in D : Niri!Before(ws, i, j) /\ Niri!Before(ws, j, k) => Niri!Before(ws, i, k)
  <2>1. \A i \in D : ws[i].idx \in Nat /\ i \in Nat
    BY <1>1 DEF D
  <2>2. \A i \in D : ~Niri!Before(ws, i, i)
    BY <2>1 DEF Niri!Before
  <2>3. \A i, j \in D : i # j => Niri!Before(ws, i, j) \/ Niri!Before(ws, j, i)
    BY <2>1 DEF Niri!Before
  <2>4. \A i, j, k \in D : Niri!Before(ws, i, j) /\ Niri!Before(ws, j, k) => Niri!Before(ws, i, k)
    BY <2>1 DEF Niri!Before
  <2> QED
    BY <2>2, <2>3, <2>4
<1>3. IsFiniteSet(D) /\ Cardinality(D) = n /\ IsFiniteSet(0..(n - 1)) /\ Cardinality(0..(n - 1)) = n
  <2>1. IsFiniteSet(1..n) /\ Cardinality(1..n) = n /\ IsFiniteSet(0..(n - 1)) /\ Cardinality(0..(n - 1)) = n
    <3>1. n \in Nat
      BY <1>1
    <3> HIDE DEF rank, s
    <3>2. IsFiniteSet(1..n) /\ Cardinality(1..n) = n
      BY <3>1, FS_Interval
    <3>3. IsFiniteSet(0..(n - 1)) /\ Cardinality(0..(n - 1)) = n
      BY <3>1, FS_Interval
    <3> QED
      BY <3>2, <3>3
  <2> QED
    BY <1>1, <2>1
<1>4. \A i \in D : IsFiniteSet(First(i)) /\ rank[i] \in 0..(n - 1)
  <2> SUFFICES ASSUME NEW i \in D PROVE IsFiniteSet(First(i)) /\ rank[i] \in 0..(n - 1)
    OBVIOUS
  <2>1. First(i) \subseteq D \ {i}
    BY <1>2
  <2>2. IsFiniteSet(D \ {i}) /\ Cardinality(D \ {i}) = n - 1
    BY <1>3, FS_RemoveElement
  <2>3. IsFiniteSet(First(i)) /\ Cardinality(First(i)) <= n - 1
    BY <2>1, <2>2, FS_Subset
  <2>4. Cardinality(First(i)) \in Nat
    BY <2>3, FS_CardinalityType
  <2> QED
    BY <2>3, <2>4, <1>1
<1>5. \A i, j \in D : Niri!Before(ws, i, j) => rank[i] < rank[j]
  <2> SUFFICES ASSUME NEW i \in D, NEW j \in D, Niri!Before(ws, i, j) PROVE rank[i] < rank[j]
    OBVIOUS
  <2>1. First(i) \subseteq First(j) \ {i} /\ i \in First(j)
    BY <1>2
  <2>2. IsFiniteSet(First(j)) /\ Cardinality(First(j)) \in Nat
    BY <1>4, FS_CardinalityType
  <2>3. IsFiniteSet(First(j) \ {i}) /\ Cardinality(First(j) \ {i}) = Cardinality(First(j)) - 1
    BY <2>1, <2>2, FS_RemoveElement
  <2>4. Cardinality(First(i)) <= Cardinality(First(j)) - 1 /\ Cardinality(First(i)) \in Nat
    <3>1. IsFiniteSet(First(i)) /\ Cardinality(First(i)) <= Cardinality(First(j) \ {i})
      BY <2>1, <2>3, FS_Subset
    <3>2. Cardinality(First(i)) \in Nat
      BY <3>1, FS_CardinalityType
    <3> QED
      BY <2>3, <3>1, <3>2
  <2> QED
    BY <2>2, <2>4
<1>6. \A i, j \in D : rank[i] = rank[j] => i = j
  <2>1. \A i \in D : rank[i] \in Nat
    BY <1>4
  <2> HIDE DEF rank
  <2> QED
    BY <1>2, <1>5, <2>1
<1>7. rank \in Surjection(D, 0..(n - 1))
  <2>1. rank \in [D -> 0..(n - 1)]
    BY <1>4
  <2>2. IsInjective(rank)
    BY <1>6 DEF IsInjective
  <2> HIDE DEF rank
  <2>3. rank \in Injection(D, 0..(n - 1))
    BY <2>1, <2>2 DEF Injection
  <2> QED
    BY <1>3, <2>3, FS_Injection
<1>8. \A k \in 0..(n - 1) : \E i \in D : rank[i] = k
  <2> HIDE DEF rank
  <2> QED
    BY <1>7 DEF Surjection
<1> DEFINE at == [k \in D |-> CHOOSE i \in D : rank[i] = k - 1]
<1>9. s = [k \in D |-> ws[at[k]]]
  <2>1. s = [k \in D |-> ws[CHOOSE i \in D : Cardinality(First(i)) = k - 1]]
    BY DEF Niri!SortedByIdx, Cardinality, Niri!Cardinality, D
  <2>2. \A k : (CHOOSE i \in D : Cardinality(First(i)) = k - 1) = (CHOOSE i \in D : rank[i] = k - 1)
    <3> TAKE k
    <3>1. \A i : (i \in D /\ Cardinality(First(i)) = k - 1) <=> (i \in D /\ rank[i] = k - 1)
      OBVIOUS
    <3> QED
      BY <3>1, Zenon
  <2> QED
    BY <2>1, <2>2
<1> HIDE DEF rank, s
<1>10. \A k \in D : at[k] \in D /\ rank[at[k]] = k - 1
  <2> TAKE k \in D
  <2>1. k - 1 \in 0..(n - 1)
    BY <1>1
  <2>2. PICK i \in D : rank[i] = k - 1
    BY <2>1, <1>8
  <2>3. at[k] = CHOOSE x \in D : rank[x] = k - 1
    OBVIOUS
  <2> HIDE DEF at
  <2> QED
    BY <2>2, <2>3
<1>11. \A i \in D : \E k \in D : at[k] = i
  <2> TAKE i \in D
  <2>1. rank[i] \in 0..(n - 1)
    BY <1>4
  <2>2. PICK k \in D : k = rank[i] + 1
    BY <2>1, <1>1
  <2>3. at[k] \in D /\ rank[at[k]] = k - 1
    BY <1>10
  <2>4. rank[at[k]] = rank[i]
    BY <2>1, <2>2, <2>3
  <2> HIDE DEF at
  <2> QED
    BY <2>3, <2>4, <1>6
<1> HIDE DEF at
<1>12. DOMAIN s = D /\ \A k \in D : s[k] = ws[at[k]]
  BY <1>9
<1>13. Niri!Range(s) = Niri!Range(ws)
  <2>1. Niri!Range(s) = {s[k] : k \in D} /\ Niri!Range(ws) = {ws[k] : k \in D}
    BY <1>12 DEF Niri!Range, D
  <2> QED
    BY <1>10, <1>11, <1>12, <2>1
<1>14. IsSeq(s)
  <2>1. s = [k \in 1..n |-> s[k]]
    BY <1>1, <1>9
  <2> QED
    BY <1>1, <2>1, SeqOver
<1>15. \A k \in D : s[k].idx \in Nat
  BY <1>10, <1>12 DEF D
<1>16. \A k \in D : k > 1 => s[k - 1].idx <= s[k].idx
  <2> SUFFICES ASSUME NEW k \in D, k > 1 PROVE s[k - 1].idx <= s[k].idx
    OBVIOUS
  <2>1. PICK p \in D : p = k - 1
    BY <1>1
  <2>2. rank[at[p]] = p - 1 /\ rank[at[k]] = k - 1 /\ at[p] \in D /\ at[k] \in D
    BY <1>10
  <2>3. ~(rank[at[k]] < rank[at[p]])
    BY <1>1, <2>1, <2>2
  <2>4. ~Niri!Before(ws, at[k], at[p])
    BY <1>5, <2>2, <2>3
  <2>5. ws[at[p]].idx <= ws[at[k]].idx
    <3>1. ws[at[p]].idx \in Nat /\ ws[at[k]].idx \in Nat
      BY <2>2 DEF D
    <3> QED
      BY <2>4, <3>1 DEF Niri!Before
  <2> QED
    BY <1>12, <2>1, <2>5
<1> QED
  BY <1>12, <1>13, <1>14, <1>15, <1>16 DEF Ascending, s, D

-----------------------------------------------------------------------------
(* A line is read.                                                         *)

\* The buttons and the panel after a line of the layouts.
LEMMA ShownIs ==
  ASSUME NEW sh, NEW sp, NEW ws, NEW fc, NEW ly, NEW l, Shows(sh, sp, ws, fc, ly),
         l = [names |-> l.names, current |-> l.current], IsSeq(l.names),
         l.names # <<>> \/ l.names = ly.names
  PROVE  /\ Shows(Niri!LayoutShown(sh, l), sp, ws, fc, l)
         /\ l.current \in DOMAIN l.names => Niri!LayoutShown(sh, l).checked = l.current
<1>1. PICK a, b, c, d, e : sh = [tasks |-> a, window |-> b, radios |-> c, checked |-> d, panel |-> e]
  BY DEF Shows
<1>2. a = Niri!Tasks(sp, ws) /\ b = fc /\ IsSeq(c) /\ Len(c) = Len(ly.names)
  BY <1>1 DEF Shows
<1>3. DOMAIN l.names = 1..Len(l.names) /\ Len(l.names) \in Nat
  BY SeqIs DEF IsSeq
<1> DEFINE q == IF l.names # <<>> /\ Len(l.names) # Len(sh.radios) THEN Niri!Radios(sh, l) ELSE sh
<1>4. \E r, k : /\ q = [tasks |-> a, window |-> b, radios |-> r, checked |-> k, panel |-> e]
                /\ IsSeq(r) /\ Len(r) = Len(l.names)
  <2>1. CASE l.names # <<>> /\ Len(l.names) # Len(sh.radios)
    <3> DEFINE k == IF l.current \in DOMAIN l.names THEN l.current ELSE Niri!None
    <3>1. q = [sh EXCEPT !.radios = l.names, !.checked = k]
      BY <2>1 DEF Niri!Radios
    <3> HIDE DEF q, k
    <3>2. q = [tasks |-> a, window |-> b, radios |-> l.names, checked |-> k, panel |-> e]
      BY <1>1, <3>1
    <3> QED
      BY <3>2
  <2>2. CASE ~(l.names # <<>> /\ Len(l.names) # Len(sh.radios))
    <3>1. q = sh
      BY <2>2
    <3>2. Len(c) = Len(l.names)
      BY <1>1, <1>2, <2>2
    <3> HIDE DEF q
    <3> QED
      BY <1>1, <1>2, <3>1, <3>2
  <2> QED
    BY <2>1, <2>2
<1>5. Niri!LayoutShown(sh, l) = Niri!Panel(q, l)
  BY DEF Niri!LayoutShown
<1> HIDE DEF q
<1>6. PICK r, k : /\ q = [tasks |-> a, window |-> b, radios |-> r, checked |-> k, panel |-> e]
                  /\ IsSeq(r) /\ Len(r) = Len(l.names)
  BY <1>4
<1> DEFINE t == Niri!Panel(q, l)
<1>7. \E m : /\ t = [tasks |-> a, window |-> b, radios |-> r, checked |-> m, panel |-> PanelOf(l)]
             /\ l.current \in DOMAIN l.names => m = l.current
  <2>1. CASE l.current \in DOMAIN l.names
    <3>1. l.current <= Len(r)
      BY <1>3, <1>6, <2>1
    <3> DEFINE p == l.names[l.current]
    <3>2. t = [q EXCEPT !.panel = p, !.checked = IF l.current <= Len(q.radios) THEN l.current ELSE @]
      BY <2>1 DEF Niri!Panel
    <3>3. PanelOf(l) = p
      BY <2>1 DEF PanelOf
    <3> HIDE DEF p, t
    <3>4. q.radios = r
      BY <1>6
    <3>5. t = [tasks |-> a, window |-> b, radios |-> r, checked |-> l.current, panel |-> p]
      BY <1>6, <3>1, <3>2, <3>4
    <3> QED
      BY <3>3, <3>5
  <2>2. CASE l.current \notin DOMAIN l.names
    <3>1. t = [q EXCEPT !.panel = Niri!NoLayout]
      BY <2>2 DEF Niri!Panel
    <3>2. PanelOf(l) = Niri!NoLayout
      BY <2>2 DEF PanelOf
    <3> HIDE DEF t
    <3>3. t = [tasks |-> a, window |-> b, radios |-> r, checked |-> k, panel |-> Niri!NoLayout]
      BY <1>6, <3>1
    <3> QED
      BY <2>2, <3>2, <3>3
  <2> QED
    BY <2>1, <2>2
<1> HIDE DEF t
<1>8. Shows(t, sp, ws, fc, l) /\ (l.current \in DOMAIN l.names => t.checked = l.current)
  <2>1. PICK m : /\ t = [tasks |-> a, window |-> b, radios |-> r, checked |-> m, panel |-> PanelOf(l)]
                 /\ l.current \in DOMAIN l.names => m = l.current
    BY <1>7
  <2> QED
    BY <1>2, <1>6, <2>1 DEF Shows
<1> QED
  BY <1>5, <1>8 DEF t

\* What reading a line comes to.
Keeps(e) ==
  /\ Shows(shown, spaces, windows, focused, layouts)'
  /\ Ascending(spaces)'
  /\ View(spaces, windows, focused, niri_told, layouts)'
       = Apply(View(spaces, windows, focused, niri_told, layouts), e)
  /\ IF LayoutLine(e)
     THEN layouts'.current \in DOMAIN layouts'.names => shown'.checked = layouts'.current
     ELSE shown'.checked = shown.checked

\* Widgets that are told of other workspaces, windows or another focused window.
LEMMA RetaskIs ==
  ASSUME NEW sh, NEW sp, NEW ws, NEW fc, NEW ly, Shows(sh, sp, ws, fc, ly), NEW sp2, NEW ws2,
         NEW t, t = [sh EXCEPT !.tasks = Niri!Tasks(sp2, ws2)]
  PROVE  Shows(t, sp2, ws2, fc, ly) /\ t.checked = sh.checked
<1>1. PICK a, b, c, d, e : sh = [tasks |-> a, window |-> b, radios |-> c, checked |-> d, panel |-> e]
  BY DEF Shows
<1>2. /\ a = Niri!Tasks(sp, ws) /\ b = fc /\ IsSeq(c) /\ Len(c) = Len(ly.names)
      /\ e = PanelOf(ly) /\ ly = [names |-> ly.names, current |-> ly.current] /\ IsSeq(ly.names)
  BY <1>1 DEF Shows
<1>3. t = [tasks |-> Niri!Tasks(sp2, ws2), window |-> b, radios |-> c, checked |-> d, panel |-> e]
  BY <1>1
<1> QED
  BY <1>1, <1>2, <1>3 DEF Shows

\* Another focused window is shown.
LEMMA RewindowIs ==
  ASSUME NEW sh, NEW sp, NEW ws, NEW fc, NEW ly, Shows(sh, sp, ws, fc, ly), NEW fc2,
         NEW t, t = [sh EXCEPT !.window = fc2]
  PROVE  Shows(t, sp, ws, fc2, ly) /\ t.checked = sh.checked
<1>1. PICK a, b, c, d, e : sh = [tasks |-> a, window |-> b, radios |-> c, checked |-> d, panel |-> e]
  BY DEF Shows
<1>2. /\ a = Niri!Tasks(sp, ws) /\ b = fc /\ IsSeq(c) /\ Len(c) = Len(ly.names)
      /\ e = PanelOf(ly) /\ ly = [names |-> ly.names, current |-> ly.current] /\ IsSeq(ly.names)
  BY <1>1 DEF Shows
<1>3. t = [tasks |-> a, window |-> fc2, radios |-> c, checked |-> d, panel |-> e]
  BY <1>1
<1> QED
  BY <1>1, <1>2, <1>3 DEF Shows

Redrawn(sh, tasks, window) == [sh EXCEPT !.tasks = tasks, !.window = window]

\* Other windows and another focused window are shown.
LEMMA RedrawIs ==
  ASSUME NEW sh, NEW sp, NEW ws, NEW fc, NEW ly, Shows(sh, sp, ws, fc, ly), NEW ws2, NEW fc2
  PROVE  /\ Shows(Redrawn(sh, Niri!Tasks(sp, ws2), fc2), sp, ws2, fc2, ly)
         /\ Redrawn(sh, Niri!Tasks(sp, ws2), fc2).checked = sh.checked
<1>1. PICK a, b, c, d, e : sh = [tasks |-> a, window |-> b, radios |-> c, checked |-> d, panel |-> e]
  BY DEF Shows
<1>2. /\ a = Niri!Tasks(sp, ws) /\ b = fc /\ IsSeq(c) /\ Len(c) = Len(ly.names)
      /\ e = PanelOf(ly) /\ ly = [names |-> ly.names, current |-> ly.current] /\ IsSeq(ly.names)
  BY <1>1 DEF Shows
<1> DEFINE x == Niri!Tasks(sp, ws2)
<1> HIDE DEF x
<1>0. PICK t : t = Redrawn(sh, x, fc2)
  OBVIOUS
<1>3. t = [tasks |-> x, window |-> fc2, radios |-> c, checked |-> d, panel |-> e]
  <2>1. t = [sh EXCEPT !.tasks = x, !.window = fc2]
    BY <1>0 DEF Redrawn
  <2> QED
    BY <1>1, <2>1
<1> QED
  BY <1>0, <1>1, <1>2, <1>3 DEF Shows, x

\* What a line does not touch.
LEMMA ApplyIs ==
  ASSUME NEW sp, NEW ws, NEW fc, NEW td, NEW ly, NEW e
  PROVE  Apply(View(sp, ws, fc, td, ly), e) =
           [sp |-> SpacesBy(Niri!Range(sp), e), ws |-> WindowsBy(ws, e), fc |-> FocusBy(fc, ws, e),
            td |-> ToldBy(td, e), ly |-> LayoutsBy(ly, e)]
BY DEF Apply, View

\* A list of workspaces in which one was activated.
LEMMA ActivatedIs ==
  ASSUME NEW e, e.event = "WorkspaceActivated", Niri!Handle(e), Ascending(spaces)
  PROVE  Ascending(spaces') /\ Niri!Range(spaces') = Activated(Niri!Range(spaces), e)
<1> DEFINE known == {i \in DOMAIN spaces : spaces[i].id = e.id}
           same(s) == \A i \in known : s.output = spaces[i].output
           New(s) == IF s.id = e.id THEN [s EXCEPT !.active = TRUE, !.focused = e.focused]
                     ELSE [s EXCEPT !.active = @ /\ ~same(s), !.focused = @ /\ ~e.focused]
           alike(s) == \A t \in Niri!Range(spaces) : t.id = e.id => s.output = t.output
<1>1. spaces' = [i \in DOMAIN spaces |-> New(spaces[i])]
  BY DEF Niri!Handle, Niri!WorkspaceActivated
<1>2. \A s : same(s) <=> alike(s)
  BY DEF Niri!Range
<1>3. Activated(Niri!Range(spaces), e) = {New(s) : s \in Niri!Range(spaces)}
  <2> DEFINE Old(s) == IF s.id = e.id THEN [s EXCEPT !.active = TRUE, !.focused = e.focused]
                       ELSE [s EXCEPT !.active = @ /\ ~alike(s), !.focused = @ /\ ~e.focused]
  <2>1. \A s : New(s) = Old(s)
    <3> HIDE DEF same, alike
    <3> QED
      BY <1>2, Zenon
  <2>2. Activated(Niri!Range(spaces), e) = {Old(s) : s \in Niri!Range(spaces)}
    BY DEF Activated
  <2> HIDE DEF New, Old
  <2> QED
    BY <2>1, <2>2
<1>4. \A i \in DOMAIN spaces : New(spaces[i]).idx = spaces[i].idx
  <2> SUFFICES ASSUME NEW i \in DOMAIN spaces PROVE New(spaces[i]).idx = spaces[i].idx
    OBVIOUS
  <2> DEFINE s == spaces[i]
  <2> HIDE DEF s, same
  <2>1. CASE s.id = e.id
    BY <2>1 DEF s
  <2>2. CASE s.id # e.id
    BY <2>2 DEF s
  <2> QED
    BY <2>1, <2>2
<1> HIDE DEF New
<1>5. DOMAIN spaces = 1..Len(spaces) /\ Len(spaces) \in Nat
  BY SeqIs DEF Ascending, IsSeq
<1>6. IsSeq(spaces') /\ DOMAIN spaces' = DOMAIN spaces
  <2>1. spaces' = [i \in 1..Len(spaces) |-> spaces'[i]]
    BY <1>1, <1>5
  <2> QED
    BY <1>5, <2>1, SeqOver
<1>7. Ascending(spaces')
  <2>1. \A i \in DOMAIN spaces : spaces'[i].idx = spaces[i].idx
    BY <1>1, <1>4
  <2>2. \A i \in DOMAIN spaces : i > 1 => i - 1 \in DOMAIN spaces
    BY <1>5
  <2> QED
    BY <1>6, <2>1, <2>2 DEF Ascending
<1>8. Niri!Range(spaces') = {New(s) : s \in Niri!Range(spaces)}
  BY <1>1 DEF Niri!Range
<1> QED
  BY <1>3, <1>7, <1>8

\* Each line is shown, and leads to the next view.
LEMMA Reads ==
  ASSUME NEW e, LineFits(e), e.event # "eof", Shows(shown, spaces, windows, focused, layouts),
         Ascending(spaces), Niri!Handle(e)
  PROVE  Keeps(e)
<1>1. e.event \in Events
  BY DEF LineFits
<1> DEFINE v == View(spaces, windows, focused, niri_told, layouts)
<1>a. Apply(v, e) = [sp |-> SpacesBy(Niri!Range(spaces), e), ws |-> WindowsBy(windows, e),
                     fc |-> FocusBy(focused, windows, e), td |-> ToldBy(niri_told, e),
                     ly |-> LayoutsBy(layouts, e)]
  BY ApplyIs
<1> DEFINE Same(sp, ws, fc, td, ly) ==
             /\ sp = SpacesBy(Niri!Range(spaces), e) /\ ws = WindowsBy(windows, e)
             /\ fc = FocusBy(focused, windows, e) /\ td = ToldBy(niri_told, e)
             /\ ly = LayoutsBy(layouts, e)
<1>b. Same(Niri!Range(spaces'), windows', focused', niri_told', layouts')
        => View(spaces, windows, focused, niri_told, layouts)' = Apply(v, e)
  BY <1>a DEF View, Niri!Range
<1> HIDE DEF v
<1> DEFINE Held == Same(Niri!Range(spaces'), windows', focused', niri_told', layouts')
<1>c. ASSUME Held, Shows(shown', spaces', windows', focused', layouts'), Ascending(spaces'),
             IF LayoutLine(e)
             THEN layouts'.current \in DOMAIN layouts'.names => shown'.checked = layouts'.current
             ELSE shown'.checked = shown.checked
      PROVE  Keeps(e)
  BY <1>b, <1>c DEF Keeps, v, Shows, Ascending
<1> HIDE DEF Held
<1>2. CASE e.event = "WorkspacesChanged"
  <2>1. /\ spaces' = Niri!SortedByIdx(e.spaces)
        /\ shown' = [shown EXCEPT !.tasks = Niri!Tasks(spaces', windows)]
        /\ windows' = windows /\ focused' = focused /\ layouts' = layouts /\ niri_told' = niri_told
    BY <1>2 DEF Niri!Handle, Niri!WorkspacesChanged
  <2>2. Niri!Range(spaces') = Niri!Range(e.spaces) /\ Ascending(spaces')
    BY <1>2, <2>1, SortedIs DEF LineFits
  <2>3. Held
    BY <1>2, <2>1, <2>2 DEF Held, SpacesBy, WindowsBy, FocusBy, ToldBy, LayoutsBy
  <2>4. Shows(shown', spaces', windows', focused', layouts') /\ shown'.checked = shown.checked
    <3>1. Shows(shown', spaces', windows, focused, layouts) /\ shown'.checked = shown.checked
      BY <2>1, RetaskIs
    <3> QED
      BY <2>1, <3>1
  <2> QED
    BY <1>2, <1>c, <2>2, <2>3, <2>4 DEF LayoutLine
<1>3. CASE e.event = "WorkspaceActivated"
  <2>1. /\ shown' = [shown EXCEPT !.tasks = Niri!Tasks(spaces', windows)]
        /\ windows' = windows /\ focused' = focused /\ layouts' = layouts /\ niri_told' = niri_told
    BY <1>3 DEF Niri!Handle, Niri!WorkspaceActivated
  <2>2. Niri!Range(spaces') = Activated(Niri!Range(spaces), e) /\ Ascending(spaces')
    BY <1>3, ActivatedIs
  <2>3. Held
    BY <1>3, <2>1, <2>2 DEF Held, SpacesBy, WindowsBy, FocusBy, ToldBy, LayoutsBy
  <2>4. Shows(shown', spaces', windows', focused', layouts') /\ shown'.checked = shown.checked
    <3>1. Shows(shown', spaces', windows, focused, layouts) /\ shown'.checked = shown.checked
      BY <2>1, RetaskIs
    <3> QED
      BY <2>1, <3>1
  <2> QED
    BY <1>3, <1>c, <2>2, <2>3, <2>4 DEF LayoutLine
<1>4. CASE e.event = "WindowFocusChanged"
  <2>1. /\ focused' = IF e.id = 0 THEN Niri!NoWindow ELSE Niri!Find(windows, e.id)
        /\ shown' = [shown EXCEPT !.window = focused']
        /\ windows' = windows /\ spaces' = spaces /\ layouts' = layouts /\ niri_told' = TRUE
    BY <1>4 DEF Niri!Handle, Niri!WindowFocusChanged, Niri!None
  <2>3. Held
    BY <1>4, <2>1 DEF Held, SpacesBy, WindowsBy, FocusBy, ToldBy, LayoutsBy
  <2>4. Shows(shown', spaces', windows', focused', layouts') /\ shown'.checked = shown.checked
    <3>1. Shows(shown', spaces, windows, focused', layouts) /\ shown'.checked = shown.checked
      BY <2>1, RewindowIs
    <3> QED
      BY <2>1, <3>1
  <2>5. Ascending(spaces')
    BY <2>1
  <2> QED
    BY <1>4, <1>c, <2>3, <2>4, <2>5 DEF LayoutLine
<1>5. CASE e.event = "WindowOpenedOrChanged"
  <2>1. /\ windows' = Updated(windows, e.window)
        /\ focused' = IF e.focus \/ focused.id = e.window.id THEN e.window ELSE focused
        /\ shown' = [shown EXCEPT !.tasks = Niri!Tasks(spaces, windows'), !.window = focused']
        /\ spaces' = spaces /\ layouts' = layouts /\ niri_told' = (niri_told \/ e.focus)
    BY <1>5 DEF Niri!Handle, Niri!WindowOpenedOrChanged, Updated
  <2>3. Held
    <3>1. niri_told' = ToldBy(niri_told, e)
      BY <1>5, <2>1, Zenon DEF ToldBy
    <3>2. focused' = FocusBy(focused, windows, e)
      BY <1>5, <2>1 DEF FocusBy
    <3> QED
      BY <1>5, <2>1, <3>1, <3>2 DEF Held, SpacesBy, WindowsBy, LayoutsBy
  <2>4. Shows(shown', spaces', windows', focused', layouts') /\ shown'.checked = shown.checked
    <3>0. shown' = Redrawn(shown, Niri!Tasks(spaces, windows'), focused')
      BY <2>1 DEF Redrawn
    <3> DEFINE ws == windows'
               fc == focused'
    <3> HIDE DEF ws, fc
    <3>a. /\ Shows(Redrawn(shown, Niri!Tasks(spaces, ws), fc), spaces, ws, fc, layouts)
          /\ Redrawn(shown, Niri!Tasks(spaces, ws), fc).checked = shown.checked
      BY RedrawIs
    <3>1. Shows(shown', spaces, windows', focused', layouts) /\ shown'.checked = shown.checked
      BY <3>0, <3>a DEF ws, fc
    <3> QED
      BY <2>1, <3>1
  <2>5. Ascending(spaces')
    BY <2>1
  <2> QED
    BY <1>5, <1>c, <2>3, <2>4, <2>5 DEF LayoutLine
<1>6. CASE e.event = "WindowClosed"
  <2>1. /\ windows' = Niri!Without(windows, e.id)
        /\ focused' = IF focused.id = e.id THEN Niri!NoWindow ELSE focused
        /\ shown' = [shown EXCEPT !.tasks = Niri!Tasks(spaces, windows'), !.window = focused']
        /\ spaces' = spaces /\ layouts' = layouts /\ niri_told' = niri_told
    BY <1>6 DEF Niri!Handle, Niri!WindowClosed
  <2>3. Held
    BY <1>6, <2>1 DEF Held, SpacesBy, WindowsBy, FocusBy, ToldBy, LayoutsBy
  <2>4. Shows(shown', spaces', windows', focused', layouts') /\ shown'.checked = shown.checked
    <3>0. shown' = Redrawn(shown, Niri!Tasks(spaces, windows'), focused')
      BY <2>1 DEF Redrawn
    <3> DEFINE ws == windows'
               fc == focused'
    <3> HIDE DEF ws, fc
    <3>a. /\ Shows(Redrawn(shown, Niri!Tasks(spaces, ws), fc), spaces, ws, fc, layouts)
          /\ Redrawn(shown, Niri!Tasks(spaces, ws), fc).checked = shown.checked
      BY RedrawIs
    <3>1. Shows(shown', spaces, windows', focused', layouts) /\ shown'.checked = shown.checked
      BY <3>0, <3>a DEF ws, fc
    <3> QED
      BY <2>1, <3>1
  <2>5. Ascending(spaces')
    BY <2>1
  <2> QED
    BY <1>6, <1>c, <2>3, <2>4, <2>5 DEF LayoutLine
<1>7. CASE e.event = "WindowsChanged"
  <2>1. /\ windows' = e.windows /\ focused' = focused
        /\ shown' = [shown EXCEPT !.tasks = Niri!Tasks(spaces, windows'), !.window = focused]
        /\ spaces' = spaces /\ layouts' = layouts /\ niri_told' = niri_told
    BY <1>7 DEF Niri!Handle, Niri!WindowsChanged
  <2>3. Held
    BY <1>7, <2>1 DEF Held, SpacesBy, WindowsBy, FocusBy, ToldBy, LayoutsBy
  <2>4. Shows(shown', spaces', windows', focused', layouts') /\ shown'.checked = shown.checked
    <3>0. shown' = Redrawn(shown, Niri!Tasks(spaces, windows'), focused')
      BY <2>1 DEF Redrawn
    <3> DEFINE ws == windows'
               fc == focused'
    <3> HIDE DEF ws, fc
    <3>a. /\ Shows(Redrawn(shown, Niri!Tasks(spaces, ws), fc), spaces, ws, fc, layouts)
          /\ Redrawn(shown, Niri!Tasks(spaces, ws), fc).checked = shown.checked
      BY RedrawIs
    <3>1. Shows(shown', spaces, windows', focused', layouts) /\ shown'.checked = shown.checked
      BY <3>0, <3>a DEF ws, fc
    <3> QED
      BY <2>1, <3>1
  <2>5. Ascending(spaces')
    BY <2>1
  <2> QED
    BY <1>7, <1>c, <2>3, <2>4, <2>5 DEF LayoutLine
<1>8. CASE LayoutLine(e)
  <2>1. /\ layouts' = LayoutsBy(layouts, e)
        /\ shown' = Niri!LayoutShown(shown, layouts')
        /\ spaces' = spaces /\ windows' = windows /\ focused' = focused /\ niri_told' = niri_told
    <3>1. CASE e.event = "KeyboardLayoutsChanged"
      BY <3>1 DEF Niri!Handle, Niri!KeyboardLayoutsChanged, LayoutsBy
    <3>2. CASE e.event = "KeyboardLayoutSwitched"
      <4>1. /\ layouts' = [layouts EXCEPT !.current = e.current]
            /\ shown' = Niri!LayoutShown(shown, layouts')
            /\ spaces' = spaces /\ windows' = windows /\ focused' = focused /\ niri_told' = niri_told
        BY <3>2 DEF Niri!Handle, Niri!KeyboardLayoutSwitched
      <4>2. layouts = [names |-> layouts.names, current |-> layouts.current]
        BY DEF Shows
      <4>3. [layouts EXCEPT !.current = e.current] = [names |-> layouts.names, current |-> e.current]
        BY <4>2
      <4> QED
        BY <3>2, <4>1, <4>3 DEF LayoutsBy
    <3> QED
      BY <1>8, <3>1, <3>2 DEF LayoutLine
  <2>2. /\ layouts' = [names |-> layouts'.names, current |-> layouts'.current] /\ IsSeq(layouts'.names)
        /\ layouts'.names # <<>> \/ layouts'.names = layouts.names
    <3>1. CASE e.event = "KeyboardLayoutsChanged"
      <4>1. layouts' = [names |-> e.names, current |-> e.current]
        BY <2>1, <3>1 DEF LayoutsBy
      <4> QED
        BY <3>1, <4>1 DEF LineFits
    <3>2. CASE e.event = "KeyboardLayoutSwitched"
      <4>1. layouts' = [names |-> layouts.names, current |-> e.current]
        BY <2>1, <3>2 DEF LayoutsBy
      <4> QED
        BY <4>1 DEF Shows
    <3> QED
      BY <1>8, <3>1, <3>2 DEF LayoutLine
  <2>3. Held
    <3>1. e.event \notin Events \ {"KeyboardLayoutsChanged", "KeyboardLayoutSwitched"}
      BY <1>8 DEF LayoutLine
    <3> QED
      BY <2>1, <3>1 DEF Held, SpacesBy, WindowsBy, FocusBy, ToldBy, Events
  <2>4. /\ Shows(shown', spaces', windows', focused', layouts')
        /\ layouts'.current \in DOMAIN layouts'.names => shown'.checked = layouts'.current
    <3>1. /\ Shows(Niri!LayoutShown(shown, layouts'), spaces, windows, focused, layouts')
          /\ layouts'.current \in DOMAIN layouts'.names =>
               Niri!LayoutShown(shown, layouts').checked = layouts'.current
      BY <2>2, ShownIs
    <3> QED
      BY <2>1, <3>1
  <2>5. Ascending(spaces')
    BY <2>1
  <2> QED
    BY <1>8, <1>c, <2>3, <2>4, <2>5
<1> QED
  BY <1>1, <1>2, <1>3, <1>4, <1>5, <1>6, <1>7, <1>8 DEF Events, LayoutLine

-----------------------------------------------------------------------------
(* What niri writes.                                                       *)

\* The stream after a line was written, or not.
Told(conn, s, e) ==
  IF conn /\ (s = <<>> \/ Niri!Last(s).event # "eof") THEN Append(s, e) ELSE s

\* A line that tells of a change, and the shell keeps up.
LEMMA ToldFollows ==
  ASSUME NEW conn \in BOOLEAN, NEW v, NEW s, NEW k, NEW n, NEW e, NEW k2, NEW n2,
         KeepsUp(conn, v, s, k, n), LineFits(e),
         e.event # "eof" => n2.up /\ \A w : Agree(w, n) => Agree(Apply(w, e), n2),
         LayoutLine(e) \/ e.event = "eof" \/ (k2 = k /\ n2.current = n.current)
  PROVE  KeepsUp(conn, v, Told(conn, s, e), k2, n2)
<1>1. IsSeq(s) /\ Len(s) \in Nat /\ DOMAIN s = 1..Len(s) /\ \A i \in DOMAIN s : LineFits(s[i])
  BY SeqIs DEF KeepsUp, Lines, IsSeq
<1>2. s # <<>> => Len(s) # 0 /\ Niri!Last(s) = s[Len(s)]
  BY <1>1, EmptySeq DEF Niri!Last, IsSeq
<1>3. CASE conn /\ (s = <<>> \/ Niri!Last(s).event # "eof")
  <2>1. Told(conn, s, e) = Append(s, e)
    BY <1>3 DEF Told
  <2> DEFINE t == Append(s, e)
             m == Len(s)
  <2>2. /\ IsSeq(t) /\ DOMAIN t = 1..(m + 1)
        /\ t = [i \in 1..(m + 1) |-> IF i \in DOMAIN s THEN s[i] ELSE e]
    BY <1>1, AppendIsSeq
  <2>3. Len(t) \in Nat /\ DOMAIN t = 1..Len(t)
    BY <2>2, SeqIs DEF IsSeq
  <2>4. Len(t) = m + 1
    <3> HIDE DEF t
    <3> QED
      BY <1>1, <2>2, <2>3
  <2>5. (\A i \in DOMAIN s : t[i] = s[i]) /\ t[m + 1] = e
    <3> HIDE DEF t, m
    <3>1. m + 1 \notin DOMAIN s /\ m + 1 \in 1..(m + 1) /\ \A i \in DOMAIN s : i \in 1..(m + 1)
      BY <1>1 DEF m
    <3> QED
      BY <2>2, <3>1
  <2>6. Alive(s)
    <3>1. CASE s = <<>>
      BY <3>1 DEF Alive
    <3>2. CASE s # <<>>
      <4>1. s[Len(s)].event # "eof"
        BY <1>2, <1>3, <3>2
      <4> QED
        BY <1>3, <4>1 DEF Alive, KeepsUp
    <3> QED
      BY <3>1, <3>2
  <2> HIDE DEF t
  <2>7. \A i \in DOMAIN t : i \in DOMAIN s \/ i = m + 1
    BY <1>1, <2>2
  <2>8. Lines(t) /\ (\A i \in DOMAIN t : t[i].event = "eof" => i = Len(t))
    <3>1. \A i \in DOMAIN t : LineFits(t[i])
      BY <1>1, <2>5, <2>7
    <3>2. \A i \in DOMAIN s : s[i].event # "eof"
      BY <2>6 DEF Alive
    <3> QED
      BY <2>2, <2>4, <2>5, <2>7, <3>1, <3>2 DEF Lines
  <2>9. ASSUME Alive(t) PROVE Heard(v, t, k2, n2)
    <3>0. m + 1 \in DOMAIN t /\ \A i \in DOMAIN s : i \in DOMAIN t
      BY <1>1, <2>2
    <3>1. e.event # "eof"
      BY <2>5, <2>9, <3>0 DEF Alive
    <3>2. Heard(v, s, k, n)
      BY <1>3, <2>6 DEF KeepsUp
    <3>3. PICK w : Leads(v, s, w) /\ Agree(w, n)
      BY <3>2 DEF Heard
    <3>4. Leads(v, t, Apply(w, e)) /\ Agree(Apply(w, e), n2) /\ n2.up
      BY <1>1, <3>1, <3>3, LeadsOn DEF t
    <3>5. ASSUME \A i \in DOMAIN t : ~LayoutLine(t[i]) PROVE k2 = n2.current
      <4>1. ~LayoutLine(e) /\ \A i \in DOMAIN s : ~LayoutLine(s[i])
        BY <2>5, <3>0, <3>5
      <4>2. k = n.current
        BY <3>2, <4>1 DEF Heard
      <4> QED
        BY <3>1, <4>1, <4>2
    <3> QED
      BY <3>4, <3>5 DEF Heard
  <2> QED
    BY <2>1, <2>8, <2>9 DEF KeepsUp, t
<1>4. CASE ~(conn /\ (s = <<>> \/ Niri!Last(s).event # "eof"))
  <2>1. Told(conn, s, e) = s
    BY <1>4 DEF Told
  <2>2. conn => ~Alive(s)
    <3> SUFFICES ASSUME conn PROVE ~Alive(s)
      OBVIOUS
    <3>1. s # <<>> /\ Niri!Last(s).event = "eof"
      BY <1>4
    <3>2. Len(s) \in DOMAIN s /\ s[Len(s)].event = "eof"
      BY <1>1, <1>2, <3>1
    <3> QED
      BY <3>2 DEF Alive
  <2> QED
    BY <2>1, <2>2 DEF KeepsUp
<1> QED
  BY <1>3, <1>4

\* What is written is added line by line.
LEMMA SaysIs ==
  ASSUME NEW e, Lines(stream), Niri!Says(<<e>>)
  PROVE  stream' = Told(connected, stream, e)
<1>1. stream \o <<e>> = Append(stream, e)
  <2>1. PICK S : stream \in Seq(S \cup {e})
    <3> DEFINE T == {stream[i] : i \in DOMAIN stream}
    <3>1. stream \in Seq(T)
      BY DEF Lines, IsSeq
    <3> HIDE DEF T
    <3>2. T \subseteq T \cup {e}
      OBVIOUS
    <3>3. stream \in Seq(T \cup {e})
      BY <3>1, <3>2
    <3> QED
      BY <3>3
  <2> QED
    BY <2>1, AppendIsConcat
<1> QED
  BY <1>1 DEF Niri!Says, Told

-----------------------------------------------------------------------------
(* What niri has.                                                          *)

\* niri as a record, and with other values in it.
NiriWith(n, up, sp, ws, fo, ac, fs, na, cu) ==
  n = [up |-> up, spaces |-> sp, windows |-> ws, focused |-> fo, active |-> ac, focus |-> fs,
       names |-> na, current |-> cu]

\* Each assignment to a part of niri leaves the others.
LEMMA NiriIs ==
  ASSUME NEW n, NiriFits(n)
  PROVE  /\ \A t, ws, f : t = [n EXCEPT !.windows = ws, !.focused = f] =>
                NiriWith(t, n.up, n.spaces, ws, f, n.active, n.focus, n.names, n.current)
         /\ \A t, i, w : t = [n EXCEPT !.windows[i] = w] =>
                NiriWith(t, n.up, n.spaces, [n.windows EXCEPT ![i] = w], n.focused, n.active,
                         n.focus, n.names, n.current)
         /\ \A t, f : t = [n EXCEPT !.focused = f] =>
                NiriWith(t, n.up, n.spaces, n.windows, f, n.active, n.focus, n.names, n.current)
         /\ \A t, a, f : t = [n EXCEPT !.active = a, !.focus = f] =>
                NiriWith(t, n.up, n.spaces, n.windows, n.focused, a, f, n.names, n.current)
         /\ \A t, sp : t = [n EXCEPT !.spaces = sp] =>
                NiriWith(t, n.up, sp, n.windows, n.focused, n.active, n.focus, n.names, n.current)
         /\ \A t, na, c : t = [n EXCEPT !.names = na, !.current = c] =>
                NiriWith(t, n.up, n.spaces, n.windows, n.focused, n.active, n.focus, na, c)
         /\ \A t, c : t = [n EXCEPT !.current = c] =>
                NiriWith(t, n.up, n.spaces, n.windows, n.focused, n.active, n.focus, n.names, c)
         /\ \A t, u : t = [n EXCEPT !.up = u] =>
                NiriWith(t, u, n.spaces, n.windows, n.focused, n.active, n.focus, n.names, n.current)
<1>1. PICK a, b, c, d, e, f, g, h :
        n = [up |-> a, spaces |-> b, windows |-> c, focused |-> d, active |-> e, focus |-> f,
             names |-> g, current |-> h]
  BY DEF NiriFits
<1>2. /\ n.up = a /\ n.spaces = b /\ n.windows = c /\ n.focused = d /\ n.active = e
      /\ n.focus = f /\ n.names = g /\ n.current = h
  BY <1>1
<1>3. ASSUME NEW t, NEW ws, NEW x, t = [n EXCEPT !.windows = ws, !.focused = x]
      PROVE  NiriWith(t, n.up, n.spaces, ws, x, n.active, n.focus, n.names, n.current)
  <2>1. t = [up |-> a, spaces |-> b, windows |-> ws, focused |-> x, active |-> e, focus |-> f,
             names |-> g, current |-> h]
    BY <1>1, <1>3
  <2> QED
    BY <1>2, <2>1 DEF NiriWith
<1>4. ASSUME NEW t, NEW i, NEW w, t = [n EXCEPT !.windows[i] = w]
      PROVE  NiriWith(t, n.up, n.spaces, [n.windows EXCEPT ![i] = w], n.focused, n.active, n.focus, n.names, n.current)
  <2> DEFINE x == [c EXCEPT ![i] = w]
  <2>1. t = [n EXCEPT !.windows = x]
    BY <1>1, <1>4
  <2> HIDE DEF x
  <2>2. t = [up |-> a, spaces |-> b, windows |-> x, focused |-> d, active |-> e, focus |-> f,
             names |-> g, current |-> h]
    BY <1>1, <2>1
  <2>3. NiriWith(t, n.up, n.spaces, x, n.focused, n.active, n.focus, n.names, n.current)
    BY <1>2, <2>2 DEF NiriWith
  <2>4. x = [n.windows EXCEPT ![i] = w]
    BY <1>2 DEF x
  <2> QED
    BY <2>3, <2>4
<1>5. ASSUME NEW t, NEW x, t = [n EXCEPT !.focused = x]
      PROVE  NiriWith(t, n.up, n.spaces, n.windows, x, n.active, n.focus, n.names, n.current)
  <2>1. t = [up |-> a, spaces |-> b, windows |-> c, focused |-> x, active |-> e, focus |-> f,
             names |-> g, current |-> h]
    BY <1>1, <1>5
  <2> QED
    BY <1>2, <2>1 DEF NiriWith
<1>6. ASSUME NEW t, NEW x, NEW y, t = [n EXCEPT !.active = x, !.focus = y]
      PROVE  NiriWith(t, n.up, n.spaces, n.windows, n.focused, x, y, n.names, n.current)
  <2>1. t = [up |-> a, spaces |-> b, windows |-> c, focused |-> d, active |-> x, focus |-> y,
             names |-> g, current |-> h]
    BY <1>1, <1>6
  <2> QED
    BY <1>2, <2>1 DEF NiriWith
<1>7. ASSUME NEW t, NEW x, t = [n EXCEPT !.spaces = x]
      PROVE  NiriWith(t, n.up, x, n.windows, n.focused, n.active, n.focus, n.names, n.current)
  <2>1. t = [up |-> a, spaces |-> x, windows |-> c, focused |-> d, active |-> e, focus |-> f,
             names |-> g, current |-> h]
    BY <1>1, <1>7
  <2> QED
    BY <1>2, <2>1 DEF NiriWith
<1>8. ASSUME NEW t, NEW x, NEW y, t = [n EXCEPT !.names = x, !.current = y]
      PROVE  NiriWith(t, n.up, n.spaces, n.windows, n.focused, n.active, n.focus, x, y)
  <2>1. t = [up |-> a, spaces |-> b, windows |-> c, focused |-> d, active |-> e, focus |-> f,
             names |-> x, current |-> y]
    BY <1>1, <1>8
  <2> QED
    BY <1>2, <2>1 DEF NiriWith
<1>9. ASSUME NEW t, NEW x, t = [n EXCEPT !.current = x]
      PROVE  NiriWith(t, n.up, n.spaces, n.windows, n.focused, n.active, n.focus, n.names, x)
  <2>1. t = [up |-> a, spaces |-> b, windows |-> c, focused |-> d, active |-> e, focus |-> f,
             names |-> g, current |-> x]
    BY <1>1, <1>9
  <2> QED
    BY <1>2, <2>1 DEF NiriWith
<1>10. ASSUME NEW t, NEW x, t = [n EXCEPT !.up = x]
      PROVE  NiriWith(t, x, n.spaces, n.windows, n.focused, n.active, n.focus, n.names, n.current)
  <2>1. t = [up |-> x, spaces |-> b, windows |-> c, focused |-> d, active |-> e, focus |-> f,
             names |-> g, current |-> h]
    BY <1>1, <1>10
  <2> QED
    BY <1>2, <2>1 DEF NiriWith
<1> QED
  BY <1>3, <1>4, <1>5, <1>6, <1>7, <1>8, <1>9, <1>10, Zenon

\* A window is found by its identifier.
LEMMA FindIs ==
  /\ \A ws, id : Niri!Find(ws, id).id = id
  /\ \A ws, i : Alone(ws) /\ i \in DOMAIN ws => Niri!Find(ws, ws[i].id) = ws[i]
  /\ \A ws, us, id :
       (\A w : (\E i \in DOMAIN ws : ws[i] = w /\ w.id = id)
                <=> (\E i \in DOMAIN us : us[i] = w /\ w.id = id)) /\ Alone(ws) /\ Alone(us)
       => Niri!Find(ws, id) = Niri!Find(us, id)
<1>1. ASSUME NEW ws, NEW id PROVE Niri!Find(ws, id).id = id
  <2>1. CASE \E i \in DOMAIN ws : ws[i].id = id
    <3>1. PICK j \in DOMAIN ws : ws[j].id = id /\ j = CHOOSE i \in DOMAIN ws : ws[i].id = id
      BY <2>1
    <3>2. Niri!Find(ws, id) = ws[j]
      BY <2>1, <3>1 DEF Niri!Find
    <3> QED
      BY <3>1, <3>2
  <2>2. CASE ~\E i \in DOMAIN ws : ws[i].id = id
    <3>1. Niri!Find(ws, id) = [Niri!NoWindow EXCEPT !.id = id]
      BY <2>2 DEF Niri!Find
    <3> QED
      BY <3>1 DEF Niri!NoWindow
  <2> QED
    BY <2>1, <2>2
<1>2. ASSUME NEW ws, NEW i, Alone(ws), i \in DOMAIN ws PROVE Niri!Find(ws, ws[i].id) = ws[i]
  <2> DEFINE j == CHOOSE k \in DOMAIN ws : ws[k].id = ws[i].id
  <2>1. j \in DOMAIN ws /\ ws[j].id = ws[i].id
    BY <1>2
  <2>2. Niri!Find(ws, ws[i].id) = ws[j]
    BY <1>2 DEF Niri!Find
  <2> HIDE DEF j
  <2> QED
    BY <1>2, <2>1, <2>2 DEF Alone
<1>3. ASSUME NEW ws, NEW us, NEW id, Alone(ws), Alone(us),
             \A w : (\E i \in DOMAIN ws : ws[i] = w /\ w.id = id)
                    <=> (\E i \in DOMAIN us : us[i] = w /\ w.id = id)
      PROVE  Niri!Find(ws, id) = Niri!Find(us, id)
  <2>1. CASE \E i \in DOMAIN ws : ws[i].id = id
    <3>1. PICK i \in DOMAIN ws : ws[i].id = id
      BY <2>1
    <3>2. PICK j \in DOMAIN us : us[j] = ws[i]
      BY <1>3, <3>1
    <3> QED
      BY <1>2, <1>3, <3>1, <3>2
  <2>2. CASE ~\E i \in DOMAIN ws : ws[i].id = id
    <3>1. ~\E i \in DOMAIN us : us[i].id = id
      BY <1>3, <2>2
    <3> QED
      BY <2>2, <3>1 DEF Niri!Find
  <2> QED
    BY <2>1, <2>2
<1> QED
  BY <1>1, <1>2, <1>3

\* A line makes these of the windows and the focused window.
Tells(e, n, ws, m) ==
  \A v : Agree(v, n) => /\ WindowsBy(v.ws, e) = ws
                        /\ ToldBy(v.td, e) => FocusBy(v.fc, v.ws, e) = FocusOf(m)

\* A change of the windows leaves workspaces and layouts, and what is told of it
\* is what niri has.
LEMMA WindowsAgree ==
  ASSUME NEW n, NEW m, NEW ws, NEW fo, NEW e,
         NiriWith(m, n.up, n.spaces, ws, fo, n.active, n.focus, n.names, n.current),
         e.event \in {"WindowOpenedOrChanged", "WindowFocusChanged", "WindowClosed"}, Tells(e, n, ws, m)
  PROVE  m.up = n.up /\ m.current = n.current /\ \A v : Agree(v, n) => Agree(Apply(v, e), m)
<1>1. /\ m.up = n.up /\ m.spaces = n.spaces /\ m.windows = ws /\ m.active = n.active
      /\ m.focus = n.focus /\ m.names = n.names /\ m.current = n.current
  BY DEF NiriWith
<1>2. Now(m) = Now(n)
  BY <1>1 DEF Now
<1>3. ASSUME NEW v, Agree(v, n) PROVE Agree(Apply(v, e), m)
  <2>1. v.sp = Now(n) /\ v.ly = [names |-> n.names, current |-> n.current]
    BY <1>3 DEF Agree
  <2>2. /\ Apply(v, e).sp = v.sp /\ Apply(v, e).ws = WindowsBy(v.ws, e)
        /\ Apply(v, e).fc = FocusBy(v.fc, v.ws, e) /\ Apply(v, e).ly = v.ly
        /\ Apply(v, e).td = ToldBy(v.td, e)
    <3>1. SpacesBy(v.sp, e) = v.sp /\ LayoutsBy(v.ly, e) = v.ly
      BY DEF SpacesBy, LayoutsBy
    <3> QED
      BY <3>1 DEF Apply
  <2> QED
    BY <1>1, <1>2, <1>3, <2>1, <2>2 DEF Agree, Tells
<1> QED
  BY <1>1, <1>3

\* A window is opened, and has the focus.
LEMMA OpenIs ==
  ASSUME NEW n, NiriFits(n), NEW w \in Win, w.id \notin Niri!Ids(n.windows), NEW m, NEW e,
         NiriWith(m, n.up, n.spaces, Append(n.windows, w), w.id, n.active, n.focus, n.names, n.current),
         e.event = "WindowOpenedOrChanged", e.window = w, e.focus = TRUE
  PROVE  NiriFits(m) /\ m.up = n.up /\ m.current = n.current /\ \A v : Agree(v, n) => Agree(Apply(v, e), m)
<1> DEFINE ws == n.windows
           us == Append(ws, w)
<1>1. /\ us \in Seq(Win) /\ Len(ws) \in Nat /\ DOMAIN ws = 1..Len(ws) /\ DOMAIN us = 1..(Len(ws) + 1)
      /\ us[Len(ws) + 1] = w /\ \A i \in DOMAIN ws : us[i] = ws[i]
  <2>1. ws \in Seq(Win)
    BY DEF NiriFits
  <2> QED
    BY <2>1, AppendProperties, LenProperties
<1>2. Alone(ws) /\ \A i \in DOMAIN ws : ws[i].id # w.id
  BY DEF NiriFits, Niri!Ids
<1>3. /\ m.up = n.up /\ m.spaces = n.spaces /\ m.windows = us /\ m.focused = w.id
      /\ m.names = n.names /\ m.current = n.current
      /\ m = [up |-> m.up, spaces |-> m.spaces, windows |-> m.windows, focused |-> m.focused,
              active |-> m.active, focus |-> m.focus, names |-> m.names, current |-> m.current]
  BY DEF NiriWith
<1> HIDE DEF us
<1>4. Alone(us) /\ Len(ws) + 1 \in DOMAIN us /\ \A i \in DOMAIN us : i \in DOMAIN ws \/ i = Len(ws) + 1
  <2>1. Len(ws) + 1 \in DOMAIN us /\ \A i \in DOMAIN us : i \in DOMAIN ws \/ i = Len(ws) + 1
    BY <1>1
  <2> QED
    BY <1>1, <1>2, <2>1 DEF Alone
<1>5. w.id \in Niri!Ids(us)
  BY <1>1, <1>4 DEF Niri!Ids
<1>6. NiriFits(m)
  BY <1>1, <1>3, <1>4, <1>5 DEF NiriFits
<1>7. WindowsBy(ws, e) = us
  <2>1. {i \in DOMAIN ws : ws[i].id = w.id} = {}
    BY <1>2
  <2>2. Updated(ws, w) = us
    BY <2>1 DEF Updated, us
  <2> QED
    BY <2>2 DEF WindowsBy
<1>8. \A fc : FocusBy(fc, ws, e) = FocusOf(m)
  <2>1. w.id # 0
    BY NiriAssumption DEF Win
  <2>2. Niri!Find(us, w.id) = w
    BY <1>1, <1>4, FindIs
  <2>3. FocusOf(m) = w
    BY <1>3, <2>1, <2>2 DEF FocusOf
  <2> QED
    BY <2>3 DEF FocusBy
<1>9. \A v : Agree(v, n) => v.ws = ws
  BY DEF Agree
<1> QED
  BY <1>6, <1>7, <1>8, <1>9, WindowsAgree DEF us, Tells

\* The windows with another one in a place, and the line that tells of it.
Put(ws, j, w) == [i \in DOMAIN ws |-> IF i = j THEN w ELSE ws[i]]
Changed(e, n, w) ==
  e.event = "WindowOpenedOrChanged" /\ e.window = w /\ (e.focus <=> n.focused = w.id)

\* A window has another title or is on another workspace.
LEMMA RenameIs ==
  ASSUME NEW n, NiriFits(n), NEW w \in Win, NEW j \in DOMAIN n.windows, n.windows[j].id = w.id, NEW m, NEW e,
         NEW us, us = Put(n.windows, j, w),
         NiriWith(m, n.up, n.spaces, us, n.focused, n.active, n.focus, n.names, n.current), Changed(e, n, w)
  PROVE  NiriFits(m) /\ m.up = n.up /\ m.current = n.current /\ \A v : Agree(v, n) => Agree(Apply(v, e), m)
<1>0. /\ e.event = "WindowOpenedOrChanged" /\ e.window = w /\ (e.focus <=> n.focused = w.id)
      /\ us = [i \in DOMAIN n.windows |-> IF i = j THEN w ELSE n.windows[i]]
  BY DEF Changed, Put
<1> DEFINE ws == n.windows
<1>1. ws \in Seq(Win) /\ Len(ws) \in Nat /\ DOMAIN ws = 1..Len(ws) /\ ws = [i \in 1..Len(ws) |-> ws[i]]
  <2>1. ws \in Seq(Win)
    BY DEF NiriFits
  <2> QED
    BY <2>1, LenProperties
<1>2. Alone(ws) /\ n.focused \in Niri!Ids(ws) \cup {0}
  BY DEF NiriFits
<1>3. us \in Seq(Win) /\ DOMAIN us = DOMAIN ws /\ us[j] = w /\ \A i \in DOMAIN ws : i # j => us[i] = ws[i]
  <2>1. DOMAIN us = DOMAIN ws /\ us[j] = w /\ \A i \in DOMAIN ws : i # j => us[i] = ws[i]
    BY <1>0
  <2>2. us = [i \in 1..Len(ws) |-> us[i]] /\ \A i \in 1..Len(ws) : us[i] \in Win
    BY <1>0, <1>1, <2>1
  <2>3. us \in Seq(Win)
    BY <1>0, <1>1, <2>2
  <2> QED
    BY <2>1, <2>3
<1>4. /\ m.up = n.up /\ m.spaces = n.spaces /\ m.windows = us /\ m.focused = n.focused
      /\ m.names = n.names /\ m.current = n.current
      /\ m = [up |-> m.up, spaces |-> m.spaces, windows |-> m.windows, focused |-> m.focused,
              active |-> m.active, focus |-> m.focus, names |-> m.names, current |-> m.current]
  BY DEF NiriWith
<1>5. us = [i \in DOMAIN ws |-> IF i \in {k \in DOMAIN ws : ws[k].id = w.id} THEN w ELSE ws[i]]
  <2>1. {k \in DOMAIN ws : ws[k].id = w.id} = {j}
    BY <1>2 DEF Alone
  <2> QED
    BY <1>0, <2>1
<1>6. \A i \in DOMAIN ws : us[i].id = ws[i].id
  BY <1>3
<1>7. Alone(us) /\ Niri!Ids(us) = Niri!Ids(ws)
  BY <1>2, <1>3, <1>6 DEF Alone, Niri!Ids
<1>8. NiriFits(m)
  BY <1>2, <1>3, <1>4, <1>7 DEF NiriFits
<1>9. WindowsBy(ws, e) = us
  <2>1. {i \in DOMAIN ws : ws[i].id = w.id} # {}
    OBVIOUS
  <2>2. Updated(ws, w) = us
    BY <1>5, <2>1 DEF Updated
  <2> QED
    BY <1>0, <2>2 DEF WindowsBy
<1>10. ASSUME NEW v, Agree(v, n), ToldBy(v.td, e) PROVE FocusBy(v.fc, v.ws, e) = FocusOf(m)
  <2>1. CASE n.focused = w.id
    <3>1. w.id # 0
      BY NiriAssumption DEF Win
    <3>2. Niri!Find(us, w.id) = w
      BY <1>3, <1>7, FindIs
    <3>3. FocusOf(m) = w
      BY <1>4, <2>1, <3>1, <3>2 DEF FocusOf
    <3> QED
      BY <1>0, <2>1, <3>3 DEF FocusBy
  <2>2. CASE n.focused # w.id
    <3>1. v.td
      <4>1. ToldBy(v.td, e) = (v.td \/ e.focus)
        BY <1>0, Zenon DEF ToldBy
      <4> QED
        BY <1>0, <1>10, <2>2, <4>1
    <3>2. v.fc = FocusOf(n)
      BY <1>10, <3>1 DEF Agree
    <3>3. FocusOf(n).id = n.focused
      BY FindIs DEF FocusOf, Niri!NoWindow, Niri!None
    <3>4. FocusBy(v.fc, v.ws, e) = v.fc
      BY <1>0, <2>2, <3>2, <3>3 DEF FocusBy
    <3>5. FocusOf(m) = FocusOf(n)
      <4>1. \A x : (\E i \in DOMAIN ws : ws[i] = x /\ x.id = n.focused)
                    <=> (\E i \in DOMAIN us : us[i] = x /\ x.id = n.focused)
        BY <1>3, <2>2
      <4>2. Niri!Find(ws, n.focused) = Niri!Find(us, n.focused)
        BY <1>2, <1>7, <4>1, FindIs
      <4> QED
        BY <1>4, <4>2 DEF FocusOf
    <3> QED
      BY <3>2, <3>4, <3>5
  <2> QED
    BY <2>1, <2>2
<1>11. \A v : Agree(v, n) => v.ws = ws
  BY DEF Agree
<1>12. Tells(e, n, us, m)
  BY <1>9, <1>10, <1>11 DEF Tells
<1> QED
  BY <1>0, <1>8, <1>12, WindowsAgree

\* Another window has the focus, or none.
LEMMA FocusIs ==
  ASSUME NEW n, NiriFits(n), NEW id \in Niri!Ids(n.windows) \cup {0}, NEW m, NEW e,
         NiriWith(m, n.up, n.spaces, n.windows, id, n.active, n.focus, n.names, n.current),
         e.event = "WindowFocusChanged", e.id = id
  PROVE  NiriFits(m) /\ m.up = n.up /\ m.current = n.current /\ \A v : Agree(v, n) => Agree(Apply(v, e), m)
<1>1. /\ m.up = n.up /\ m.spaces = n.spaces /\ m.windows = n.windows /\ m.focused = id
      /\ m.names = n.names /\ m.current = n.current
      /\ m = [up |-> m.up, spaces |-> m.spaces, windows |-> m.windows, focused |-> m.focused,
              active |-> m.active, focus |-> m.focus, names |-> m.names, current |-> m.current]
  BY DEF NiriWith
<1>2. NiriFits(m)
  BY <1>1 DEF NiriFits
<1>3. \A fc : FocusBy(fc, n.windows, e) = FocusOf(m)
  BY <1>1 DEF FocusBy, FocusOf
<1>4. WindowsBy(n.windows, e) = n.windows
  BY DEF WindowsBy
<1>5. \A v : Agree(v, n) => v.ws = n.windows
  BY DEF Agree
<1> QED
  BY <1>2, <1>3, <1>4, <1>5, WindowsAgree DEF Tells

\* What is left of the windows without one.
Others(ws, id, us) ==
  /\ us \in Seq(Win) /\ Alone(us)
  /\ \A w : (\E i \in DOMAIN us : us[i] = w) <=> (\E i \in DOMAIN ws : ws[i] = w /\ w.id # id)

\* The other windows stay.
LEMMA WithoutWindow ==
  ASSUME NEW ws \in Seq(Win), Alone(ws), NEW id
  PROVE  Others(ws, id, Niri!Without(ws, id))
<1> DEFINE at == {i \in DOMAIN ws : ws[i].id = id}
<1>1. CASE at = {}
  <2>1. Niri!Without(ws, id) = ws
    BY <1>1 DEF Niri!Without
  <2>2. Others(ws, id, ws)
    BY <1>1 DEF Others
  <2> QED
    BY <2>1, <2>2
<1>2. CASE at # {}
  <2> DEFINE r == Niri!Without(ws, id)
             k == Niri!Min(at)
  <2>1. r = Niri!RemoveAt(ws, k)
    BY <1>2 DEF Niri!Without
  <2>2. k \in at
    <3>1. DOMAIN ws = 1..Len(ws) /\ Len(ws) \in Nat
      BY LenProperties
    <3>2. at \subseteq Nat
      BY <3>1
    <3> HIDE DEF at
    <3>3. \E m \in at : \A j \in at : m <= j
      BY <1>2, <3>2, LeastNatural
    <3> QED
      BY <3>3 DEF Niri!Min
  <2> HIDE DEF r, k
  <2>3. k \in DOMAIN ws /\ ws[k].id = id
    BY <2>2
  <2>4. r \in Seq(Win) /\ Removed(ws, k, r)
    BY <2>1, <2>3, RemovalIs DEF Niri!RemoveAt
  <2> HIDE DEF at
  <2>5. /\ \A j \in DOMAIN r : \E i \in DOMAIN ws : i # k /\ r[j] = ws[i]
        /\ \A i \in DOMAIN ws : i # k => \E j \in DOMAIN r : r[j] = ws[i]
        /\ \A j, m \in DOMAIN r : j # m => \E i, l \in DOMAIN ws : i # l /\ r[j] = ws[i] /\ r[m] = ws[l]
    BY <2>3, <2>4, RemovedElements
  <2>6. \A i \in DOMAIN ws : i # k <=> ws[i].id # id
    BY <2>3 DEF Alone
  <2>7. Alone(r)
    BY <2>5 DEF Alone
  <2>8. ASSUME NEW w
        PROVE  (\E i \in DOMAIN r : r[i] = w) <=> (\E i \in DOMAIN ws : ws[i] = w /\ w.id # id)
    BY <2>5, <2>6
  <2> QED
    BY <2>4, <2>7, <2>8 DEF r, Others
<1> QED
  BY <1>1, <1>2

\* A window is closed; if it had the focus, none has until niri says which.
LEMMA CloseIs ==
  ASSUME NEW n, NiriFits(n), NEW id \in Niri!Ids(n.windows), NEW m, NEW e, NEW fo,
         NiriWith(m, n.up, n.spaces, Niri!Without(n.windows, id), fo, n.active, n.focus, n.names, n.current),
         fo = IF n.focused = id THEN 0 ELSE n.focused, e.event = "WindowClosed", e.id = id
  PROVE  NiriFits(m) /\ m.up = n.up /\ m.current = n.current /\ \A v : Agree(v, n) => Agree(Apply(v, e), m)
<1> DEFINE ws == n.windows
           us == Niri!Without(ws, id)
<1>1. ws \in Seq(Win) /\ Alone(ws) /\ n.focused \in Niri!Ids(ws) \cup {0}
  BY DEF NiriFits
<1>2. /\ us \in Seq(Win) /\ Alone(us)
      /\ \A w : (\E i \in DOMAIN us : us[i] = w) <=> (\E i \in DOMAIN ws : ws[i] = w /\ w.id # id)
  <2>1. Others(ws, id, us)
    BY <1>1, WithoutWindow
  <2> HIDE DEF us
  <2> QED
    BY <2>1 DEF Others
<1>3. NiriWith(m, n.up, n.spaces, us, fo, n.active, n.focus, n.names, n.current)
  OBVIOUS
<1>a. WindowsBy(ws, e) = us
  BY DEF WindowsBy
<1> HIDE DEF us
<1>4. /\ m.up = n.up /\ m.spaces = n.spaces /\ m.windows = us /\ m.focused = fo
      /\ m.names = n.names /\ m.current = n.current
      /\ m = [up |-> m.up, spaces |-> m.spaces, windows |-> m.windows, focused |-> m.focused,
              active |-> m.active, focus |-> m.focus, names |-> m.names, current |-> m.current]
  BY <1>3 DEF NiriWith
<1>5. fo \in Niri!Ids(us) \cup {0}
  <2>1. CASE n.focused = id \/ n.focused = 0
    BY <2>1
  <2>2. CASE n.focused # id /\ n.focused # 0
    <3>1. PICK i \in DOMAIN ws : ws[i].id = n.focused
      BY <1>1, <2>2 DEF Niri!Ids
    <3>2. PICK j \in DOMAIN us : us[j] = ws[i]
      BY <1>2, <2>2, <3>1
    <3> QED
      BY <2>2, <3>1, <3>2 DEF Niri!Ids
  <2> QED
    BY <2>1, <2>2
<1>6. NiriFits(m)
  BY <1>2, <1>4, <1>5 DEF NiriFits
<1>7. ASSUME NEW v, Agree(v, n), v.td PROVE FocusBy(v.fc, v.ws, e) = FocusOf(m)
  <2>1. v.fc = FocusOf(n)
    BY <1>7 DEF Agree
  <2>2. v.fc.id = n.focused
    BY <2>1, FindIs DEF FocusOf, Niri!NoWindow, Niri!None
  <2>3. CASE n.focused = id
    <3>1. FocusBy(v.fc, v.ws, e) = Niri!NoWindow
      BY <2>2, <2>3 DEF FocusBy
    <3> QED
      BY <1>4, <2>3, <3>1 DEF FocusOf
  <2>4. CASE n.focused # id
    <3>1. FocusBy(v.fc, v.ws, e) = v.fc
      BY <2>2, <2>4 DEF FocusBy
    <3>2. \A w : (\E i \in DOMAIN ws : ws[i] = w /\ w.id = n.focused)
                 <=> (\E i \in DOMAIN us : us[i] = w /\ w.id = n.focused)
      BY <1>2, <2>4
    <3>3. Niri!Find(ws, n.focused) = Niri!Find(us, n.focused)
      BY <1>1, <1>2, <3>2, FindIs
    <3>4. FocusOf(m) = FocusOf(n)
      BY <1>4, <2>4, <3>3 DEF FocusOf
    <3> QED
      BY <2>1, <3>1, <3>4
  <2> QED
    BY <2>3, <2>4
<1>8. Tells(e, n, us, m)
  <2>1. \A v : Agree(v, n) => v.ws = ws
    BY DEF Agree
  <2>2. \A td : ToldBy(td, e) = td
    BY Zenon DEF ToldBy
  <2> QED
    BY <1>a, <1>7, <2>1, <2>2 DEF Tells
<1> QED
  BY <1>3, <1>6, <1>8, WindowsAgree

\* The workspaces that are active after one became it.
Actives(n, id, s) ==
  {id} \cup {t.id : t \in {u \in Niri!Range(n.spaces) : u.id \in n.active /\ u.output # s.output}}

\* A workspace is active, alone on its output.
LEMMA ActivateIs ==
  ASSUME NEW n, NiriFits(n), NEW id, NEW focus \in BOOLEAN, NEW s \in Niri!Range(n.spaces), s.id = id,
         NEW f \in Niri!Range(n.spaces), f.id = n.focus, focus \/ s.output # f.output, NEW m, NEW e,
         NEW ac, ac = Actives(n, id, s),
         NEW fs, fs = IF focus THEN id ELSE n.focus,
         NiriWith(m, n.up, n.spaces, n.windows, n.focused, ac, fs, n.names, n.current),
         e.event = "WorkspaceActivated", e.id = id, e.focused = focus
  PROVE  NiriFits(m) /\ m.up = n.up /\ m.current = n.current /\ \A v : Agree(v, n) => Agree(Apply(v, e), m)
<1> DEFINE R == Niri!Range(n.spaces)
<1>1. \A t, u \in R : t.id = u.id => t = u
  <2>1. \A i, j \in DOMAIN n.spaces : n.spaces[i].id = n.spaces[j].id => i = j
    BY NiriAssumption DEF NiriFits
  <2> QED
    BY <2>1 DEF Niri!Range
<1>2. /\ m.up = n.up /\ m.spaces = n.spaces /\ m.windows = n.windows /\ m.focused = n.focused
      /\ m.active = ac /\ m.focus = fs /\ m.names = n.names /\ m.current = n.current
      /\ m = [up |-> m.up, spaces |-> m.spaces, windows |-> m.windows, focused |-> m.focused,
              active |-> m.active, focus |-> m.focus, names |-> m.names, current |-> m.current]
  BY DEF NiriWith
<1>3. NiriFits(m)
  BY <1>2 DEF NiriFits
<1>4. \A t \in R : t.id \in ac <=> t.id = id \/ (t.id \in n.active /\ t.output # s.output)
  BY <1>1 DEF Actives
<1>5. \A t \in R : t.id = fs <=> IF t.id = id THEN focus ELSE t.id = n.focus /\ ~focus
  BY <1>1
<1> DEFINE Of(t, k) == [id |-> t.id, idx |-> t.idx, output |-> t.output,
                        active |-> t.id \in k.active, focused |-> t.id = k.focus]
           alike(t) == \A u \in Now(n) : u.id = e.id => t.output = u.output
           New(t) == IF t.id = e.id THEN [t EXCEPT !.active = TRUE, !.focused = e.focused]
                     ELSE [t EXCEPT !.active = @ /\ ~alike(t), !.focused = @ /\ ~e.focused]
<1>6. Now(n) = {Of(t, n) : t \in R} /\ Now(m) = {Of(t, m) : t \in R}
  BY <1>2 DEF Now
<1>7. Activated(Now(n), e) = {New(u) : u \in Now(n)}
  BY DEF Activated
<1>8. ASSUME NEW t \in R PROVE New(Of(t, n)) = Of(t, m)
  <2> DEFINE a == t.id \in n.active
             g == t.id = n.focus
             o == Of(t, n)
  <2>1. /\ o = [id |-> t.id, idx |-> t.idx, output |-> t.output, active |-> a, focused |-> g]
        /\ o.id = t.id /\ o.output = t.output
    OBVIOUS
  <2>2. alike(o) <=> t.output = s.output
    <3>1. \A u \in R : Of(u, n) \in Now(n) /\ Of(u, n).id = u.id /\ Of(u, n).output = u.output
      BY <1>6
    <3>2. \A w \in Now(n) : \E u \in R : w = Of(u, n)
      BY <1>6
    <3> HIDE DEF Of
    <3> QED
      BY <1>1, <2>1, <3>1, <3>2
  <2> DEFINE al == alike(o)
  <2>3. CASE t.id = id
    <3>1. New(o) = [o EXCEPT !.active = TRUE, !.focused = e.focused]
      BY <2>1, <2>3
    <3>2. (t.id \in ac) = TRUE /\ (t.id = fs) = focus
      BY <1>4, <1>5, <2>3
    <3>3. Of(t, m) = [id |-> t.id, idx |-> t.idx, output |-> t.output, active |-> t.id \in ac,
                      focused |-> t.id = fs]
      BY <1>2
    <3> HIDE DEF o, a, g, New, Of
    <3>4. New(o) = [id |-> t.id, idx |-> t.idx, output |-> t.output, active |-> TRUE, focused |-> focus]
      BY <2>1, <3>1
    <3> QED
      BY <3>2, <3>3, <3>4 DEF o
  <2>4. CASE t.id # id
    <3>1. New(o) = [o EXCEPT !.active = @ /\ ~al, !.focused = @ /\ ~e.focused]
      BY <2>1, <2>4
    <3>2. (t.id \in ac) = (a /\ ~al) /\ (t.id = fs) = (g /\ ~focus)
      <4> HIDE DEF al
      <4>1. al <=> t.output = s.output
        BY <2>2 DEF al
      <4> QED
        BY <1>4, <1>5, <2>4, <4>1
    <3>3. Of(t, m) = [id |-> t.id, idx |-> t.idx, output |-> t.output, active |-> t.id \in ac,
                      focused |-> t.id = fs]
      BY <1>2
    <3> HIDE DEF o, a, g, New, Of, al
    <3>4. New(o) = [id |-> t.id, idx |-> t.idx, output |-> t.output, active |-> a /\ ~al,
                    focused |-> g /\ ~focus]
      BY <2>1, <3>1
    <3> QED
      BY <3>2, <3>3, <3>4 DEF o
  <2> QED
    BY <2>3, <2>4
<1> HIDE DEF New, Of
<1>9. Activated(Now(n), e) = Now(m)
  BY <1>6, <1>7, <1>8
<1>10. ASSUME NEW v, Agree(v, n) PROVE Agree(Apply(v, e), m)
  <2>1. /\ v.sp = Now(n) /\ v.ws = n.windows /\ v.ly = [names |-> n.names, current |-> n.current]
        /\ v.td => v.fc = FocusOf(n)
    BY <1>10 DEF Agree
  <2>2. /\ Apply(v, e).sp = Activated(v.sp, e) /\ Apply(v, e).ws = v.ws /\ Apply(v, e).fc = v.fc
        /\ Apply(v, e).td = v.td /\ Apply(v, e).ly = v.ly
    BY DEF Apply, SpacesBy, WindowsBy, FocusBy, ToldBy, LayoutsBy
  <2>3. FocusOf(m) = FocusOf(n)
    BY <1>2 DEF FocusOf
  <2> QED
    BY <1>2, <1>9, <2>1, <2>2, <2>3 DEF Agree
<1> QED
  BY <1>2, <1>3, <1>10

\* What a stream begins with.
LEMMA EverythingIs ==
  ASSUME NEW n, NiriFits(n), NEW a, NEW b, NEW c,
         a = Niri!Everything(n)[1], b = Niri!Everything(n)[2], c = Niri!Everything(n)[3]
  PROVE  /\ Niri!Everything(n) = <<a, b, c>>
         /\ a.event = "WorkspacesChanged" /\ Niri!Range(a.spaces) = Now(n) /\ LineFits(a)
         /\ b.event = "WindowsChanged" /\ b.windows = n.windows /\ LineFits(b)
         /\ c.event = "KeyboardLayoutsChanged" /\ c.names = n.names /\ c.current = n.current /\ LineFits(c)
<1> DEFINE sp == n.spaces
           told == [i \in DOMAIN sp |->
                      [id |-> sp[i].id, idx |-> sp[i].idx, output |-> sp[i].output,
                       active |-> sp[i].id \in n.active, focused |-> sp[i].id = n.focus]]
<1>1. /\ a = [event |-> "WorkspacesChanged", spaces |-> told]
      /\ b = [event |-> "WindowsChanged", windows |-> n.windows]
      /\ c = [event |-> "KeyboardLayoutsChanged", names |-> n.names, current |-> n.current]
      /\ Niri!Everything(n) = <<a, b, c>>
  BY DEF Niri!Everything
<1>2. Niri!Range(told) = Now(n)
  BY DEF Now, Niri!Range
<1>3. DOMAIN sp = 1..Len(sp) /\ Len(sp) \in Nat /\ \A i \in DOMAIN sp : sp[i].idx \in Nat
  <2>1. sp \in Seq(Niri!Range(sp)) /\ \A i \in DOMAIN sp : sp[i].idx \in Nat
    BY NiriAssumption DEF NiriFits
  <2> QED
    BY <2>1, LenProperties
<1>4. DOMAIN told = DOMAIN sp /\ \A i \in DOMAIN sp : told[i].idx = sp[i].idx
  OBVIOUS
<1>5. IsSeq(told)
  <2>1. told = [i \in 1..Len(sp) |-> told[i]]
    BY <1>3
  <2> HIDE DEF told
  <2> QED
    BY <1>3, <2>1, SeqOver
<1> HIDE DEF told
<1>6. IsSeq(n.names) /\ n.names # <<>>
  BY NiriAssumption, SeqIs DEF NiriFits
<1> QED
  BY <1>1, <1>2, <1>3, <1>4, <1>5, <1>6 DEF LineFits, Events

\* Workspaces come and go.
LEMMA RearrangeIs ==
  ASSUME NEW n, NiriFits(n), NEW sp \in Spaces, NEW m, NEW e,
         NiriWith(m, n.up, sp, n.windows, n.focused, n.active, n.focus, n.names, n.current),
         e = Niri!Everything(m)[1]
  PROVE  /\ NiriFits(m) /\ m.up = n.up /\ m.current = n.current /\ e.event # "eof" /\ LineFits(e)
         /\ \A v : Agree(v, n) => Agree(Apply(v, e), m)
<1>1. /\ m.up = n.up /\ m.spaces = sp /\ m.windows = n.windows /\ m.focused = n.focused
      /\ m.active = n.active /\ m.focus = n.focus /\ m.names = n.names /\ m.current = n.current
      /\ m = [up |-> m.up, spaces |-> m.spaces, windows |-> m.windows, focused |-> m.focused,
              active |-> m.active, focus |-> m.focus, names |-> m.names, current |-> m.current]
  BY DEF NiriWith
<1>2. NiriFits(m)
  BY <1>1 DEF NiriFits
<1>3. e.event = "WorkspacesChanged" /\ Niri!Range(e.spaces) = Now(m) /\ LineFits(e)
  BY <1>2, EverythingIs
<1>4. ASSUME NEW v, Agree(v, n) PROVE Agree(Apply(v, e), m)
  <2>1. /\ v.ws = n.windows /\ v.ly = [names |-> n.names, current |-> n.current]
        /\ v.td => v.fc = FocusOf(n)
    BY <1>4 DEF Agree
  <2>2. /\ Apply(v, e).sp = Niri!Range(e.spaces) /\ Apply(v, e).ws = v.ws /\ Apply(v, e).fc = v.fc
        /\ Apply(v, e).td = v.td /\ Apply(v, e).ly = v.ly
    BY <1>3 DEF Apply, SpacesBy, WindowsBy, FocusBy, ToldBy, LayoutsBy
  <2>3. FocusOf(m) = FocusOf(n)
    BY <1>1 DEF FocusOf
  <2> QED
    BY <1>1, <1>3, <2>1, <2>2, <2>3 DEF Agree
<1> QED
  BY <1>1, <1>2, <1>3, <1>4

\* Other layouts, or another one of them.
LEMMA LayoutIs ==
  ASSUME NEW n, NiriFits(n), NEW na \in Keyboards, NEW c \in DOMAIN na, NEW m, NEW e,
         NiriWith(m, n.up, n.spaces, n.windows, n.focused, n.active, n.focus, na, c),
         \/ e = Niri!Everything(m)[3]
         \/ na = n.names /\ e.event = "KeyboardLayoutSwitched" /\ e.current = c
  PROVE  /\ NiriFits(m) /\ m.up = n.up /\ LayoutLine(e) /\ e.event # "eof" /\ LineFits(e)
         /\ \A v : Agree(v, n) => Agree(Apply(v, e), m)
<1>1. /\ m.up = n.up /\ m.spaces = n.spaces /\ m.windows = n.windows /\ m.focused = n.focused
      /\ m.active = n.active /\ m.focus = n.focus /\ m.names = na /\ m.current = c
      /\ m = [up |-> m.up, spaces |-> m.spaces, windows |-> m.windows, focused |-> m.focused,
              active |-> m.active, focus |-> m.focus, names |-> m.names, current |-> m.current]
  BY DEF NiriWith
<1>2. NiriFits(m)
  BY <1>1 DEF NiriFits
<1>3. \/ e.event = "KeyboardLayoutsChanged" /\ e.names = na /\ e.current = c /\ LineFits(e)
      \/ na = n.names /\ e.event = "KeyboardLayoutSwitched" /\ e.current = c
  <2>1. CASE e = Niri!Everything(m)[3]
    BY <1>1, <1>2, <2>1, EverythingIs
  <2> QED
    BY <2>1
<1>4. LayoutLine(e) /\ e.event # "eof" /\ LineFits(e)
  BY <1>3 DEF LayoutLine, LineFits, Events
<1>5. ASSUME NEW v, Agree(v, n) PROVE Agree(Apply(v, e), m)
  <2>1. /\ v.sp = Now(n) /\ v.ws = n.windows /\ v.ly = [names |-> n.names, current |-> n.current]
        /\ v.td => v.fc = FocusOf(n)
    BY <1>5 DEF Agree
  <2>2. LayoutsBy(v.ly, e) = [names |-> na, current |-> c]
    BY <1>3, <2>1 DEF LayoutsBy
  <2>3. /\ Apply(v, e).sp = v.sp /\ Apply(v, e).ws = v.ws /\ Apply(v, e).fc = v.fc
        /\ Apply(v, e).td = v.td /\ Apply(v, e).ly = [names |-> na, current |-> c]
    <3>1. /\ SpacesBy(v.sp, e) = v.sp /\ WindowsBy(v.ws, e) = v.ws /\ FocusBy(v.fc, v.ws, e) = v.fc
          /\ ToldBy(v.td, e) = v.td
      BY <1>4 DEF LayoutLine, SpacesBy, WindowsBy, FocusBy, ToldBy
    <3> QED
      BY <2>2, <3>1 DEF Apply
  <2>4. FocusOf(m) = FocusOf(n) /\ Now(m) = Now(n)
    BY <1>1 DEF FocusOf, Now
  <2> QED
    BY <1>1, <2>1, <2>3, <2>4 DEF Agree
<1> QED
  BY <1>1, <1>2, <1>4, <1>5

\* A stream that begins tells everything.
LEMMA BeginsFollowing ==
  ASSUME NEW n, NiriFits(n), n.up, NEW sp, NEW ws, NEW fc, NEW ly, NEW k
  PROVE  KeepsUp(TRUE, View(sp, ws, fc, FALSE, ly), Niri!Everything(n), k, n)
<1> DEFINE v == View(sp, ws, fc, FALSE, ly)
<1>1. PICK a, b, c : a = Niri!Everything(n)[1] /\ b = Niri!Everything(n)[2] /\ c = Niri!Everything(n)[3]
  OBVIOUS
<1>2. /\ Niri!Everything(n) = <<a, b, c>>
      /\ a.event = "WorkspacesChanged" /\ Niri!Range(a.spaces) = Now(n) /\ LineFits(a)
      /\ b.event = "WindowsChanged" /\ b.windows = n.windows /\ LineFits(b)
      /\ c.event = "KeyboardLayoutsChanged" /\ c.names = n.names /\ c.current = n.current /\ LineFits(c)
  BY <1>1, EverythingIs
<1>3. <<a>> = Append(<<>>, a) /\ <<a, b>> = Append(<<a>>, b) /\ <<a, b, c>> = Append(<<a, b>>, c)
  OBVIOUS
<1>4. PICK s0, s1, s2, s3 : s0 = <<>> /\ s1 = <<a>> /\ s2 = <<a, b>> /\ s3 = <<a, b, c>>
  OBVIOUS
<1>5. s1 = Append(s0, a) /\ s2 = Append(s1, b) /\ s3 = Append(s2, c)
  BY <1>3, <1>4
<1>6a. IsSeq(s0) /\ Leads(v, s0, v)
  BY <1>4, EmptySeq, LeadsNow DEF IsSeq
<1>6b. IsSeq(s1) /\ Leads(v, s1, Apply(v, a))
  BY <1>5, <1>6a, LeadsOn, AppendIsSeq
<1>6c. IsSeq(s2) /\ Leads(v, s2, Apply(Apply(v, a), b))
  BY <1>5, <1>6b, LeadsOn, AppendIsSeq
<1>6d. IsSeq(s3) /\ Leads(v, s3, Apply(Apply(Apply(v, a), b), c))
  BY <1>5, <1>6c, LeadsOn, AppendIsSeq
<1>6. Leads(v, <<a, b, c>>, Apply(Apply(Apply(v, a), b), c)) /\ IsSeq(<<a, b, c>>)
  BY <1>4, <1>6d
<1> DEFINE x == Apply(v, a)
           y == Apply(x, b)
           z == Apply(y, c)
<1>7. x.sp = Now(n) /\ x.td = FALSE
  <2>1. v.td = FALSE
    BY DEF View
  <2> HIDE DEF v
  <2> QED
    BY <1>2, <2>1 DEF Apply, SpacesBy, ToldBy
<1> HIDE DEF x
<1>8. y.sp = Now(n) /\ y.td = FALSE /\ y.ws = n.windows
  BY <1>2, <1>7 DEF Apply, SpacesBy, ToldBy, WindowsBy
<1> HIDE DEF y
<1>9. Agree(z, n)
  <2>1. /\ z.sp = Now(n) /\ z.td = FALSE /\ z.ws = n.windows
        /\ z.ly = [names |-> n.names, current |-> n.current]
    BY <1>2, <1>8 DEF Apply, SpacesBy, ToldBy, WindowsBy, LayoutsBy
  <2> HIDE DEF z
  <2> QED
    BY <2>1 DEF Agree
<1> DEFINE s == <<a, b, c>>
<1>10. DOMAIN s = 1..3 /\ s[1] = a /\ s[2] = b /\ s[3] = c /\ IsSeq(s)
  BY <1>6
<1>11. Leads(v, s, z)
  BY <1>6 DEF x, y
<1> HIDE DEF s, z, v
<1>12. \A i \in DOMAIN s : s[i] \in {a, b, c}
  BY <1>10
<1>13. Lines(s) /\ \A i \in DOMAIN s : s[i].event # "eof"
  BY <1>2, <1>10, <1>12 DEF Lines
<1>14. Heard(v, s, k, n)
  <2>1. LayoutLine(s[3]) /\ 3 \in DOMAIN s
    BY <1>2, <1>10 DEF LayoutLine
  <2> QED
    BY <1>9, <1>11, <2>1 DEF Heard
<1>15. KeepsUp(TRUE, v, s, k, n)
  BY <1>13, <1>14 DEF KeepsUp
<1> QED
  BY <1>2, <1>15 DEF s, v

-----------------------------------------------------------------------------
(* Every step keeps the invariant.                                         *)

\* niri changes and says so.
LEMMA ChangeKeeps ==
  ASSUME StreamInv, UNCHANGED Niri!shell, NEW e, LineFits(e), e.event # "eof", Niri!Says(<<e>>),
         NiriFits(niri'), niri'.up, LayoutLine(e) \/ niri'.current = niri.current,
         \A v : Agree(v, niri) => Agree(Apply(v, e), niri')
  PROVE  StreamInv'
<1> DEFINE v == View(spaces, windows, focused, niri_told, layouts)
<1>1. /\ connected' = connected /\ spaces' = spaces /\ windows' = windows /\ focused' = focused
      /\ layouts' = layouts /\ shown' = shown /\ niri_told' = niri_told
  BY DEF Niri!shell
<1>2. /\ Shows(shown, spaces, windows, focused, layouts) /\ Ascending(spaces) /\ connected \in BOOLEAN
      /\ KeepsUp(connected, v, stream, shown.checked, niri)
  BY DEF StreamInv
<1>3. stream' = Told(connected, stream, e)
  BY <1>2, SaysIs DEF KeepsUp
<1> HIDE DEF v
<1> DEFINE m == niri'
           k == shown.checked
<1>4. KeepsUp(connected, v, Told(connected, stream, e), k, m)
  <2>1. /\ m.up /\ (\A w : Agree(w, niri) => Agree(Apply(w, e), m))
        /\ LayoutLine(e) \/ m.current = niri.current
    OBVIOUS
  <2> HIDE DEF m, k
  <2>2. KeepsUp(connected, v, stream, k, niri)
    BY <1>2 DEF k
  <2> QED
    BY <1>2, <2>1, <2>2, ToldFollows
<1>5. KeepsUp(connected, v, stream, shown.checked, niri)'
  BY <1>1, <1>3, <1>4 DEF v
<1>6. (Shows(shown, spaces, windows, focused, layouts) /\ Ascending(spaces) /\ connected \in BOOLEAN)'
  BY <1>1, <1>2
<1> QED
  BY <1>5, <1>6 DEF StreamInv, v

\* A window is opened.
LEMMA OpenKeeps ==
  ASSUME StreamInv, NEW id \in NiriWindows, NEW title \in Titles, NEW space \in 1..3,
         Niri!Open(id, title, space)
  PROVE  StreamInv'
<1> DEFINE w == [id |-> id, title |-> title, space |-> space]
           e == [event |-> "WindowOpenedOrChanged", window |-> w, focus |-> TRUE]
<1>1. /\ UNCHANGED Niri!shell /\ niri.up /\ id \notin Niri!Ids(niri.windows)
      /\ niri' = [niri EXCEPT !.windows = Append(@, w), !.focused = id] /\ Niri!Says(<<e>>)
  BY DEF Niri!Open, Niri!Change, Niri!SaysWindow
<1>2. NiriFits(niri)
  BY DEF StreamInv
<1>3. w \in Win /\ w.id = id
  BY DEF Win
<1>4. e.event = "WindowOpenedOrChanged" /\ e.window = w /\ e.focus = TRUE
  OBVIOUS
<1> HIDE DEF w, e
<1> DEFINE us == Append(niri.windows, w)
           m == niri'
<1>5. m = [niri EXCEPT !.windows = us, !.focused = id]
  BY <1>1
<1> HIDE DEF us, m
<1>6. NiriWith(m, niri.up, niri.spaces, us, id, niri.active, niri.focus, niri.names, niri.current)
  BY <1>2, <1>5, NiriIs, Zenon
<1>7. /\ NiriFits(m) /\ m.up = niri.up /\ m.current = niri.current
      /\ \A v : Agree(v, niri) => Agree(Apply(v, e), m)
  <2>1. NiriWith(m, niri.up, niri.spaces, Append(niri.windows, w), w.id, niri.active, niri.focus,
                 niri.names, niri.current)
    BY <1>3, <1>6 DEF us
  <2>2. w.id \notin Niri!Ids(niri.windows)
    BY <1>1, <1>3
  <2> QED
    BY <1>2, <1>3, <1>4, <2>1, <2>2, OpenIs
<1>8. LineFits(e) /\ e.event # "eof"
  BY <1>4 DEF LineFits, Events
<1> QED
  BY <1>1, <1>7, <1>8, ChangeKeeps DEF m

\* A window is renamed or moved.
LEMMA RenameKeeps ==
  ASSUME StreamInv, NEW id \in NiriWindows, NEW title \in Titles, NEW space \in 1..3,
         Niri!Rename(id, title, space)
  PROVE  StreamInv'
<1> DEFINE w == [id |-> id, title |-> title, space |-> space]
           e == [event |-> "WindowOpenedOrChanged", window |-> w, focus |-> niri.focused = id]
           ws == niri.windows
           m == niri'
<1>1. PICK j \in DOMAIN ws : ws[j].id = id /\ niri' = [niri EXCEPT !.windows[j] = w]
  BY DEF Niri!Rename
<1>2. UNCHANGED Niri!shell /\ niri.up /\ Niri!Says(<<e>>)
  BY DEF Niri!Rename, Niri!Change, Niri!SaysWindow
<1>3. NiriFits(niri)
  BY DEF StreamInv
<1>4. w \in Win /\ w.id = id
  BY DEF Win
<1>5. e.event = "WindowOpenedOrChanged" /\ e.window = w /\ Changed(e, niri, w)
  BY <1>4 DEF Changed
<1> HIDE DEF w, e
<1>6. PICK us : us = [i \in DOMAIN ws |-> IF i = j THEN w ELSE ws[i]]
  OBVIOUS
<1>7. [ws EXCEPT ![j] = w] = us
  <2>1. ws \in Seq(Win)
    BY <1>3 DEF NiriFits
  <2>2. ws = [i \in DOMAIN ws |-> ws[i]]
    BY <2>1, LenProperties
  <2> HIDE DEF ws
  <2> QED
    BY <1>6, <2>2
<1>8. NiriWith(m, niri.up, niri.spaces, us, niri.focused, niri.active, niri.focus, niri.names, niri.current)
  <2>1. NiriWith(m, niri.up, niri.spaces, [niri.windows EXCEPT ![j] = w], niri.focused, niri.active,
                 niri.focus, niri.names, niri.current)
    BY <1>1, <1>3, NiriIs, Zenon
  <2> QED
    BY <1>7, <2>1, Zenon
<1> HIDE DEF m
<1>9. /\ NiriFits(m) /\ m.up = niri.up /\ m.current = niri.current
      /\ \A v : Agree(v, niri) => Agree(Apply(v, e), m)
  <2>1. niri.windows[j].id = w.id
    BY <1>1, <1>4
  <2>2. us = Put(niri.windows, j, w)
    BY <1>6 DEF Put
  <2> QED
    <3>1. j \in DOMAIN niri.windows
      OBVIOUS
    <3>2. w \in Win
      BY <1>4
    <3>3. Changed(e, niri, w)
      BY <1>5
    <3> HIDE DEF ws
    <3> QED
      BY <1>3, <1>8, <2>1, <2>2, <3>1, <3>2, <3>3, RenameIs
<1>10. LineFits(e) /\ e.event # "eof"
  BY <1>5 DEF LineFits, Events
<1> QED
  BY <1>2, <1>9, <1>10, ChangeKeeps DEF m

\* Another window has the focus.
LEMMA FocusKeeps ==
  ASSUME StreamInv, NEW id, Niri!FocusOn(id)
  PROVE  StreamInv'
<1> DEFINE e == [event |-> "WindowFocusChanged", id |-> id]
           m == niri'
<1>1. /\ UNCHANGED Niri!shell /\ niri.up /\ id \in Niri!Ids(niri.windows) \cup {0} /\ Niri!Says(<<e>>)
      /\ m = [niri EXCEPT !.focused = id]
  BY DEF Niri!FocusOn, Niri!Change, Niri!SaysFocus, Niri!None
<1>2. e.event = "WindowFocusChanged" /\ e.id = id
  OBVIOUS
<1> HIDE DEF e, m
<1>3. NiriFits(niri)
  BY DEF StreamInv
<1>4. NiriWith(m, niri.up, niri.spaces, niri.windows, id, niri.active, niri.focus, niri.names, niri.current)
  BY <1>1, <1>3, NiriIs, Zenon
<1>5. /\ NiriFits(m) /\ m.up = niri.up /\ m.current = niri.current
      /\ \A v : Agree(v, niri) => Agree(Apply(v, e), m)
  <2>1. id \in Niri!Ids(niri.windows) \cup {0}
    BY <1>1
  <2> QED
    BY <1>2, <1>3, <1>4, <2>1, FocusIs
<1>6. LineFits(e) /\ e.event # "eof"
  BY <1>2 DEF LineFits, Events
<1> QED
  BY <1>1, <1>5, <1>6, ChangeKeeps DEF m

\* Two lines at once.
LEMMA SaysTwo ==
  ASSUME NEW e, NEW f, e.event # "eof", Lines(stream), Niri!Says(<<e>> \o <<f>>)
  PROVE  stream' = Told(connected, Told(connected, stream, e), f)
<1> DEFINE alive == connected /\ (stream = <<>> \/ Niri!Last(stream).event # "eof")
           t == Append(stream, e)
<1>1. stream' = IF alive THEN stream \o (<<e>> \o <<f>>) ELSE stream
  BY DEF Niri!Says
<1>2. CASE alive
  <2> DEFINE S == {stream[i] : i \in DOMAIN stream} \cup {e, f}
  <2>0. stream \in Seq(S)
    <3> DEFINE T == {stream[i] : i \in DOMAIN stream}
    <3>1. stream \in Seq(T)
      BY DEF Lines, IsSeq
    <3> HIDE DEF T
    <3>2. stream \in Seq(T \cup {e, f})
      BY <3>1
    <3> QED
      BY <3>2 DEF T
  <2>1. e \in S /\ f \in S
    OBVIOUS
  <2> HIDE DEF S
  <2>2. t \in Seq(S) /\ Len(t) = Len(stream) + 1 /\ t[Len(stream) + 1] = e /\ Len(stream) \in Nat
    BY <2>0, <2>1, AppendProperties, LenProperties
  <2>3. stream \o (<<e>> \o <<f>>) = Append(t, f)
    <3>1. t = stream \o <<e>> /\ Append(t, f) = t \o <<f>>
      BY <2>0, <2>1, <2>2, AppendIsConcat
    <3>2. <<e>> \in Seq(S) /\ <<f>> \in Seq(S)
      BY <2>1
    <3>3. (stream \o <<e>>) \o <<f>> = stream \o (<<e>> \o <<f>>)
      BY <2>0, <3>2, ConcatAssociative
    <3> QED
      BY <3>1, <3>3
  <2>4. Told(connected, stream, e) = t
    BY <1>2 DEF Told
  <2>5. t # <<>> /\ Niri!Last(t) = e
    <3> HIDE DEF t
    <3>1. Len(t) # 0
      BY <2>2
    <3>2. t # <<>>
      BY <3>1, EmptySeq
    <3> QED
      BY <2>2, <3>2 DEF Niri!Last
  <2>6. Told(connected, t, f) = Append(t, f)
    BY <1>2, <2>5 DEF Told
  <2> QED
    BY <1>1, <1>2, <2>3, <2>4, <2>6
<1>3. CASE ~alive
  <2>1. Told(connected, stream, e) = stream /\ Told(connected, stream, f) = stream
    BY <1>3 DEF Told
  <2> QED
    BY <1>1, <1>3, <2>1
<1> QED
  BY <1>2, <1>3

\* The shell stays as it is, and follows what niri is.
LEMMA StaysShown ==
  ASSUME StreamInv, UNCHANGED Niri!shell, NiriFits(niri'),
         KeepsUp(connected, View(spaces, windows, focused, niri_told, layouts), stream', shown.checked,
                 niri')
  PROVE  StreamInv'
<1>1. /\ connected' = connected /\ spaces' = spaces /\ windows' = windows /\ focused' = focused
      /\ layouts' = layouts /\ shown' = shown /\ niri_told' = niri_told
  BY DEF Niri!shell
<1>2. Shows(shown, spaces, windows, focused, layouts) /\ Ascending(spaces) /\ connected \in BOOLEAN
  BY DEF StreamInv
<1>3. View(spaces, windows, focused, niri_told, layouts)' = View(spaces, windows, focused, niri_told, layouts)
  BY <1>1
<1>4. KeepsUp(connected, View(spaces, windows, focused, niri_told, layouts), stream, shown.checked, niri)'
  BY <1>1, <1>3
<1>5. (Shows(shown, spaces, windows, focused, layouts) /\ Ascending(spaces) /\ connected \in BOOLEAN)'
  BY <1>1, <1>2
<1> QED
  BY <1>4, <1>5 DEF StreamInv

\* A window is closed; if it had the focus, a second line says which has it now.
LEMMA CloseKeeps ==
  ASSUME StreamInv, NEW id, NEW next, Niri!Close(id, next)
  PROVE  StreamInv'
<1> DEFINE e == [event |-> "WindowClosed", id |-> id]
           f == [event |-> "WindowFocusChanged", id |-> next]
           us == Niri!Without(niri.windows, id)
           m == niri'
           fo == IF niri.focused = id THEN next ELSE niri.focused
           v == View(spaces, windows, focused, niri_told, layouts)
<1>1. /\ UNCHANGED Niri!shell /\ niri.up /\ id \in Niri!Ids(niri.windows)
      /\ next \in Niri!Ids(niri.windows) \cup {0} /\ next # id
      /\ m = [niri EXCEPT !.windows = us, !.focused = fo]
      /\ IF niri.focused = id THEN Niri!Says(<<e>> \o <<f>>) ELSE Niri!Says(<<e>> \o <<>>)
  BY DEF Niri!Close, Niri!Change, Niri!SaysFocus, Niri!None
<1>2. NiriFits(niri) /\ KeepsUp(connected, v, stream, shown.checked, niri) /\ connected \in BOOLEAN
  BY DEF StreamInv
<1>3. /\ e.event = "WindowClosed" /\ e.id = id /\ f.event = "WindowFocusChanged" /\ f.id = next
      /\ <<e>> \o <<>> = <<e>>
  OBVIOUS
<1>4. LineFits(e) /\ LineFits(f) /\ e.event # "eof" /\ f.event # "eof"
  BY <1>3 DEF LineFits, Events
<1> HIDE DEF e, f, m, us, fo, v
<1>5. NiriWith(m, niri.up, niri.spaces, us, fo, niri.active, niri.focus, niri.names, niri.current)
  BY <1>1, <1>2, NiriIs, Zenon
<1>6. PICK fo1, m1 : /\ fo1 = IF niri.focused = id THEN 0 ELSE niri.focused
                     /\ NiriWith(m1, niri.up, niri.spaces, us, fo1, niri.active, niri.focus, niri.names,
                                 niri.current)
  BY Zenon DEF NiriWith
<1>7. /\ NiriFits(m1) /\ m1.up = niri.up /\ m1.current = niri.current
      /\ \A w : Agree(w, niri) => Agree(Apply(w, e), m1)
  <2>1. NiriWith(m1, niri.up, niri.spaces, Niri!Without(niri.windows, id), fo1, niri.active, niri.focus,
                 niri.names, niri.current)
    BY <1>6 DEF us
  <2>2. id \in Niri!Ids(niri.windows) /\ NiriFits(niri) /\ e.event = "WindowClosed" /\ e.id = id
        /\ fo1 = IF niri.focused = id THEN 0 ELSE niri.focused
    BY <1>1, <1>2, <1>3, <1>6
  <2> QED
    BY <2>1, <2>2, CloseIs
<1>8. KeepsUp(connected, v, Told(connected, stream, e), shown.checked, m1)
  <2> DEFINE k == shown.checked
  <2>1. KeepsUp(connected, v, stream, k, niri) /\ m1.up
    BY <1>1, <1>2, <1>7
  <2> HIDE DEF k
  <2>2. KeepsUp(connected, v, Told(connected, stream, e), k, m1)
    BY <1>2, <1>4, <1>7, <2>1, ToldFollows
  <2> QED
    BY <2>2 DEF k
<1>9. CASE niri.focused # id
  <2>1. m = m1
    <3>1. fo = fo1
      BY <1>6, <1>9 DEF fo
    <3> QED
      BY <1>5, <1>6, <3>1, Zenon DEF NiriWith
  <2>2. stream' = Told(connected, stream, e)
    <3>1. Niri!Says(<<e>>)
      BY <1>1, <1>3, <1>9
    <3> QED
      BY <1>2, <3>1, SaysIs DEF KeepsUp
  <2> QED
    BY <1>1, <1>7, <1>8, <2>1, <2>2, StaysShown DEF m, v
<1>10. CASE niri.focused = id
  <2>1. stream' = Told(connected, Told(connected, stream, e), f)
    <3>1. Niri!Says(<<e>> \o <<f>>)
      BY <1>1, <1>10
    <3> QED
      BY <1>2, <1>4, <3>1, SaysTwo DEF KeepsUp
  <2>2. NiriWith(m, m1.up, m1.spaces, m1.windows, next, m1.active, m1.focus, m1.names, m1.current)
    <3>1. fo = next
      BY <1>10 DEF fo
    <3>2. /\ m1.up = niri.up /\ m1.spaces = niri.spaces /\ m1.windows = us /\ m1.active = niri.active
          /\ m1.focus = niri.focus /\ m1.names = niri.names /\ m1.current = niri.current
      BY <1>6 DEF NiriWith
    <3> QED
      BY <1>5, <3>1, <3>2
  <2>3. next \in Niri!Ids(m1.windows) \cup {0}
    <3>1. m1.windows = us
      BY <1>6 DEF NiriWith
    <3>2. Others(niri.windows, id, us)
      <4>1. niri.windows \in Seq(Win) /\ Alone(niri.windows)
        BY <1>2 DEF NiriFits
      <4> QED
        BY <4>1, WithoutWindow DEF us
    <3>3. next = 0 \/ \E i \in DOMAIN niri.windows : niri.windows[i].id = next
      BY <1>1 DEF Niri!Ids
    <3> QED
      BY <1>1, <3>1, <3>2, <3>3 DEF Others, Niri!Ids
  <2>4. /\ NiriFits(m) /\ m.up = m1.up /\ m.current = m1.current
        /\ \A w : Agree(w, m1) => Agree(Apply(w, f), m)
    <3>1. f.event = "WindowFocusChanged" /\ f.id = next
      BY <1>3
    <3> QED
      BY <1>7, <2>2, <2>3, <3>1, FocusIs
  <2>5. KeepsUp(connected, v, Told(connected, Told(connected, stream, e), f), shown.checked, m)
    <3> DEFINE k == shown.checked
               s1 == Told(connected, stream, e)
    <3>1. KeepsUp(connected, v, s1, k, m1) /\ m.up
      BY <1>1, <1>7, <1>8, <2>4
    <3> HIDE DEF k, s1
    <3>2. KeepsUp(connected, v, Told(connected, s1, f), k, m)
      BY <1>2, <1>4, <2>4, <3>1, ToldFollows
    <3> QED
      BY <3>2 DEF k, s1
  <2> QED
    BY <1>1, <2>1, <2>4, <2>5, StaysShown DEF m, v
<1> QED
  BY <1>9, <1>10

\* A workspace is activated.
LEMMA ActivateKeeps ==
  ASSUME StreamInv, NEW id, NEW focus \in BOOLEAN, Niri!Activate(id, focus)
  PROVE  StreamInv'
<1> DEFINE e == [event |-> "WorkspaceActivated", id |-> id, focused |-> focus]
           m == niri'
           fs == IF focus THEN id ELSE niri.focus
           Ac(s) == {id} \cup {t.id : t \in {u \in Niri!Range(niri.spaces) :
                                            u.id \in niri.active /\ u.output # s.output}}
<1>1. PICK s, f \in Niri!Range(niri.spaces) :
        /\ s.id = id /\ f.id = niri.focus /\ (focus \/ s.output # f.output)
        /\ m = [niri EXCEPT !.active = Ac(s), !.focus = fs]
        /\ Niri!Says(<<e>>)
  BY DEF Niri!Activate
<1>2. UNCHANGED Niri!shell /\ niri.up
  BY DEF Niri!Activate, Niri!Change
<1>3. NiriFits(niri)
  BY DEF StreamInv
<1>4. e.event = "WorkspaceActivated" /\ e.id = id /\ e.focused = focus
  OBVIOUS
<1> DEFINE ac == Ac(s)
<1>5. ac = Actives(niri, id, s)
  BY DEF Actives
<1>a. fs = IF focus THEN id ELSE niri.focus
  OBVIOUS
<1> HIDE DEF e, m, fs, Ac
<1>b. m = [niri EXCEPT !.active = ac, !.focus = fs]
  BY <1>1
<1>c. s.id = id /\ f.id = niri.focus /\ (focus \/ s.output # f.output) /\ Niri!Says(<<e>>)
  BY <1>1
<1> HIDE DEF ac
<1>6. NiriWith(m, niri.up, niri.spaces, niri.windows, niri.focused, ac, fs, niri.names, niri.current)
  BY <1>3, <1>b, NiriIs, Zenon
<1>7. /\ NiriFits(m) /\ m.up = niri.up /\ m.current = niri.current
      /\ \A v : Agree(v, niri) => Agree(Apply(v, e), m)
  <2>1. s.id = id /\ f.id = niri.focus /\ (focus \/ s.output # f.output)
    BY <1>c
  <2> QED
    BY <1>3, <1>4, <1>5, <1>6, <1>a, <2>1, ActivateIs
<1>8. LineFits(e) /\ e.event # "eof"
  BY <1>4 DEF LineFits, Events
<1> QED
  BY <1>2, <1>7, <1>8, <1>c, ChangeKeeps DEF m

\* Workspaces come and go.
LEMMA RearrangeKeeps ==
  ASSUME StreamInv, NEW sp \in Spaces, Niri!Rearrange(sp)
  PROVE  StreamInv'
<1> DEFINE m == niri'
<1>1. /\ UNCHANGED Niri!shell /\ niri.up /\ m = [niri EXCEPT !.spaces = sp]
      /\ Niri!Says(<<Niri!Everything(m)[1]>>)
  BY DEF Niri!Rearrange, Niri!Change
<1>2. NiriFits(niri)
  BY DEF StreamInv
<1> HIDE DEF m
<1>3. NiriWith(m, niri.up, sp, niri.windows, niri.focused, niri.active, niri.focus, niri.names, niri.current)
  BY <1>1, <1>2, NiriIs, Zenon
<1>4. PICK e : e = Niri!Everything(m)[1]
  OBVIOUS
<1>5. /\ NiriFits(m) /\ m.up = niri.up /\ m.current = niri.current /\ e.event # "eof" /\ LineFits(e)
      /\ \A v : Agree(v, niri) => Agree(Apply(v, e), m)
  BY <1>2, <1>3, <1>4, RearrangeIs
<1>6. Niri!Says(<<e>>)
  BY <1>1, <1>4
<1> QED
  BY <1>1, <1>5, <1>6, ChangeKeeps DEF m

\* Other layouts are set.
LEMMA SetLayoutsKeeps ==
  ASSUME StreamInv, NEW names \in Keyboards, NEW current, Niri!SetLayouts(names, current)
  PROVE  StreamInv'
<1> DEFINE m == niri'
<1>1. /\ UNCHANGED Niri!shell /\ niri.up /\ m = [niri EXCEPT !.names = names, !.current = current]
      /\ Niri!Says(<<Niri!Everything(m)[3]>>) /\ current \in DOMAIN names
  BY DEF Niri!SetLayouts, Niri!Change
<1>2. NiriFits(niri)
  BY DEF StreamInv
<1> HIDE DEF m
<1>3. NiriWith(m, niri.up, niri.spaces, niri.windows, niri.focused, niri.active, niri.focus, names, current)
  BY <1>1, <1>2, NiriIs, Zenon
<1>4. PICK e : e = Niri!Everything(m)[3]
  OBVIOUS
<1>5. /\ NiriFits(m) /\ m.up = niri.up /\ LayoutLine(e) /\ e.event # "eof" /\ LineFits(e)
      /\ \A v : Agree(v, niri) => Agree(Apply(v, e), m)
  <2>1. current \in DOMAIN names
    BY <1>1
  <2>2. \/ e = Niri!Everything(m)[3]
        \/ names = niri.names /\ e.event = "KeyboardLayoutSwitched" /\ e.current = current
    BY <1>4
  <2> QED
    BY <1>2, <1>3, <2>1, <2>2, LayoutIs
<1>6. Niri!Says(<<e>>)
  BY <1>1, <1>4
<1> QED
  BY <1>1, <1>5, <1>6, ChangeKeeps DEF m

\* A radio button that is checked.
LEMMA RecheckIs ==
  ASSUME NEW sh, NEW sp, NEW ws, NEW fc, NEW ly, Shows(sh, sp, ws, fc, ly), NEW i,
         NEW t, t = [sh EXCEPT !.checked = i]
  PROVE  Shows(t, sp, ws, fc, ly) /\ t.checked = i
<1>1. PICK a, b, c, d, e : sh = [tasks |-> a, window |-> b, radios |-> c, checked |-> d, panel |-> e]
  BY DEF Shows
<1>2. /\ a = Niri!Tasks(sp, ws) /\ b = fc /\ IsSeq(c) /\ Len(c) = Len(ly.names)
      /\ e = PanelOf(ly) /\ ly = [names |-> ly.names, current |-> ly.current] /\ IsSeq(ly.names)
  BY <1>1 DEF Shows
<1>3. t = [tasks |-> a, window |-> b, radios |-> c, checked |-> i, panel |-> e]
  BY <1>1
<1> QED
  BY <1>1, <1>2, <1>3 DEF Shows

\* A radio button is toggled.
LEMMA PickLayoutKeeps ==
  ASSUME StreamInv, NEW i, Niri!PickLayout(i)
  PROVE  StreamInv'
<1> DEFINE v == View(spaces, windows, focused, niri_told, layouts)
           e == [event |-> "KeyboardLayoutSwitched", current |-> i]
           m == niri'
<1>1. /\ i \in DOMAIN shown.radios /\ shown' = [shown EXCEPT !.checked = i]
      /\ connected' = connected /\ spaces' = spaces /\ windows' = windows /\ focused' = focused
      /\ layouts' = layouts /\ niri_told' = niri_told
  BY DEF Niri!PickLayout
<1>2. IF niri.up /\ i \in DOMAIN niri.names
      THEN m = [niri EXCEPT !.current = i] /\ Niri!Says(<<e>>)
      ELSE m = niri /\ stream' = stream
  BY DEF Niri!PickLayout
<1>3. /\ NiriFits(niri) /\ KeepsUp(connected, v, stream, shown.checked, niri) /\ connected \in BOOLEAN
      /\ Shows(shown, spaces, windows, focused, layouts) /\ Ascending(spaces)
  BY DEF StreamInv
<1>4. e.event = "KeyboardLayoutSwitched" /\ e.current = i
  OBVIOUS
<1> HIDE DEF v, e, m
<1>5. Shows(shown', spaces, windows, focused, layouts) /\ shown'.checked = i
  <2>1. shown' = [shown EXCEPT !.checked = i]
    BY <1>1
  <2> QED
    BY <1>3, <2>1, RecheckIs
<1>6. NiriFits(m) /\ KeepsUp(connected, v, stream', i, m)
  <2>1. CASE niri.up /\ i \in DOMAIN niri.names
    <3>1. m = [niri EXCEPT !.current = i] /\ Niri!Says(<<e>>)
      BY <1>2, <2>1
    <3>2. NiriWith(m, niri.up, niri.spaces, niri.windows, niri.focused, niri.active, niri.focus,
                   niri.names, i)
      BY <1>3, <3>1, NiriIs, Zenon
    <3>3. niri.names \in Keyboards
      BY <1>3 DEF NiriFits
    <3>4. /\ NiriFits(m) /\ m.up = niri.up /\ LayoutLine(e) /\ e.event # "eof" /\ LineFits(e)
          /\ \A w : Agree(w, niri) => Agree(Apply(w, e), m)
      BY <1>3, <1>4, <2>1, <3>2, <3>3, LayoutIs
    <3>5. stream' = Told(connected, stream, e)
      BY <1>3, <3>1, SaysIs DEF KeepsUp
    <3>6. KeepsUp(connected, v, Told(connected, stream, e), i, m)
      <4> DEFINE k == shown.checked
      <4>1. KeepsUp(connected, v, stream, k, niri) /\ m.up
        BY <1>3, <2>1, <3>4
      <4> HIDE DEF k
      <4> QED
        BY <1>3, <3>4, <4>1, ToldFollows
    <3> QED
      BY <3>4, <3>5, <3>6
  <2>2. CASE ~(niri.up /\ i \in DOMAIN niri.names)
    <3>1. m = niri /\ stream' = stream
      BY <1>2, <2>2
    <3>2. ASSUME connected, Alive(stream) PROVE Heard(v, stream, i, niri)
      <4>1. Heard(v, stream, shown.checked, niri)
        BY <1>3, <3>2 DEF KeepsUp
      <4>2. i \notin DOMAIN niri.names
        BY <2>2, <4>1 DEF Heard
      <4>3. ASSUME \A j \in DOMAIN stream : ~LayoutLine(stream[j]) PROVE FALSE
        <5>1. PICK w : Leads(v, stream, w) /\ Agree(w, niri)
          BY <4>1 DEF Heard
        <5>2. IsSeq(stream)
          BY <1>3 DEF KeepsUp, Lines
        <5>3. w.ly = v.ly
          BY <4>3, <5>1, <5>2, Quiet
        <5>4. v.ly = layouts
          BY DEF v, View
        <5>5. layouts.names = niri.names
          BY <5>1, <5>3, <5>4 DEF Agree
        <5>6. IsSeq(shown.radios) /\ IsSeq(layouts.names) /\ Len(shown.radios) = Len(layouts.names)
          BY <1>3 DEF Shows
        <5>7. DOMAIN shown.radios = DOMAIN layouts.names
          BY <5>6, SeqIs DEF IsSeq
        <5> QED
          BY <1>1, <4>2, <5>5, <5>7
      <4> QED
        BY <4>1, <4>3 DEF Heard
    <3>3. KeepsUp(connected, v, stream, i, niri)
      BY <1>3, <3>2 DEF KeepsUp
    <3> QED
      BY <1>3, <3>1, <3>3
  <2> QED
    BY <2>1, <2>2
<1>7. View(spaces, windows, focused, niri_told, layouts)' = v
  BY <1>1 DEF v
<1>8. KeepsUp(connected, View(spaces, windows, focused, niri_told, layouts), stream, shown.checked, niri)'
  BY <1>1, <1>5, <1>6, <1>7 DEF m
<1>9. (Shows(shown, spaces, windows, focused, layouts) /\ Ascending(spaces) /\ connected \in BOOLEAN)'
  BY <1>1, <1>3, <1>5
<1>10. NiriFits(niri)'
  BY <1>6 DEF m
<1> QED
  BY <1>8, <1>9, <1>10 DEF StreamInv

\* The stream is cut, and niri is gone or not; it comes back.
LEMMA CutKeeps ==
  ASSUME StreamInv, (\E stays \in BOOLEAN : Niri!Cut(stays)) \/ Niri!Return
  PROVE  StreamInv'
<1> DEFINE v == View(spaces, windows, focused, niri_told, layouts)
           e == [event |-> "eof"]
           m == niri'
<1>1. /\ UNCHANGED Niri!shell /\ \E u : m = [niri EXCEPT !.up = u]
      /\ (niri.up /\ Niri!Says(<<e>>)) \/ (~niri.up /\ stream' = stream)
  BY DEF Niri!Cut, Niri!Return
<1>2. NiriFits(niri) /\ KeepsUp(connected, v, stream, shown.checked, niri) /\ connected \in BOOLEAN
  BY DEF StreamInv
<1>3. e.event = "eof"
  OBVIOUS
<1> HIDE DEF v, e, m
<1>4. NiriFits(m)
  <2>1. PICK u : m = [niri EXCEPT !.up = u]
    BY <1>1
  <2>2. NiriWith(m, u, niri.spaces, niri.windows, niri.focused, niri.active, niri.focus, niri.names,
                 niri.current)
    BY <1>2, <2>1, NiriIs, Zenon
  <2>3. /\ m.spaces = niri.spaces /\ m.windows = niri.windows /\ m.focused = niri.focused
        /\ m.names = niri.names /\ m.current = niri.current
        /\ m = [up |-> m.up, spaces |-> m.spaces, windows |-> m.windows, focused |-> m.focused,
                active |-> m.active, focus |-> m.focus, names |-> m.names, current |-> m.current]
    BY <2>2 DEF NiriWith
  <2> QED
    BY <1>2, <2>3 DEF NiriFits
<1>5. KeepsUp(connected, v, stream', shown.checked, m)
  <2>1. CASE niri.up /\ Niri!Says(<<e>>)
    <3>1. stream' = Told(connected, stream, e)
      BY <1>2, <2>1, SaysIs DEF KeepsUp
    <3>2. LineFits(e)
      BY <1>3 DEF LineFits
    <3> DEFINE k == shown.checked
    <3>3. KeepsUp(connected, v, stream, k, niri)
      BY <1>2
    <3> HIDE DEF k
    <3>4. KeepsUp(connected, v, Told(connected, stream, e), k, m)
      BY <1>2, <1>3, <3>2, <3>3, ToldFollows
    <3> QED
      BY <3>1, <3>4 DEF k
  <2>2. CASE ~niri.up /\ stream' = stream
    <3>1. ~(connected /\ Alive(stream))
      BY <1>2, <2>2 DEF KeepsUp, Heard
    <3> QED
      BY <1>2, <2>2, <3>1 DEF KeepsUp
  <2> QED
    BY <1>1, <2>1, <2>2
<1> QED
  BY <1>1, <1>4, <1>5, StaysShown DEF m, v

\* A line is read: what waits after it leads from what it made.
LEMMA ReadKeeps ==
  ASSUME StreamInv, Niri!ReadLine
  PROVE  StreamInv'
<1> DEFINE v == View(spaces, windows, focused, niri_told, layouts)
           e == Head(stream)
           t == Tail(stream)
<1>1. /\ connected /\ stream # <<>> /\ e.event # "eof" /\ Niri!Handle(e) /\ stream' = t
      /\ niri' = niri /\ connected' = connected
  BY DEF Niri!ReadLine
<1>2. /\ NiriFits(niri) /\ KeepsUp(connected, v, stream, shown.checked, niri) /\ connected \in BOOLEAN
      /\ Shows(shown, spaces, windows, focused, layouts) /\ Ascending(spaces)
  BY DEF StreamInv
<1>3. IsSeq(stream) /\ \A i \in DOMAIN stream : LineFits(stream[i])
  BY <1>2 DEF KeepsUp, Lines
<1>4. /\ Len(stream) \in Nat /\ DOMAIN stream = 1..Len(stream) /\ Len(stream) # 0 /\ e = stream[1]
      /\ t \in Seq({stream[i] : i \in DOMAIN stream}) /\ Len(t) = Len(stream) - 1
      /\ \A j \in 1..(Len(stream) - 1) : t[j] = stream[j + 1]
  BY <1>1, <1>3, HeadTailProperties, LenProperties DEF IsSeq
<1>5. IsSeq(t) /\ DOMAIN t = 1..Len(t) /\ Len(t) \in Nat
  BY <1>4, SeqIs
<1> HIDE DEF v, e, t
<1>6. 1 \in DOMAIN stream /\ LineFits(e)
  BY <1>3, <1>4
<1>7. \A j \in DOMAIN t : j + 1 \in DOMAIN stream /\ t[j] = stream[j + 1]
  BY <1>4, <1>5
<1>8. \A i \in DOMAIN stream : i = 1 \/ \E j \in DOMAIN t : j + 1 = i
  <2> SUFFICES ASSUME NEW i \in DOMAIN stream, i # 1 PROVE \E j \in DOMAIN t : j + 1 = i
    OBVIOUS
  <2>1. PICK j : j = i - 1
    OBVIOUS
  <2>2. j \in DOMAIN t /\ j + 1 = i
    BY <1>4, <1>5, <2>1
  <2> QED
    BY <2>2
<1>9. Keeps(e)
  BY <1>1, <1>2, <1>6, Reads
<1> DEFINE w1 == View(spaces, windows, focused, niri_told, layouts)'
           k1 == shown'.checked
           l1 == layouts'
<1>10. /\ (Shows(shown, spaces, windows, focused, layouts) /\ Ascending(spaces))' /\ w1 = Apply(v, e)
       /\ IF LayoutLine(e) THEN l1.current \in DOMAIN l1.names => k1 = l1.current
          ELSE k1 = shown.checked
  BY <1>9 DEF Keeps, v
<1>11. w1.ly = l1
  BY DEF View
<1> HIDE DEF w1, k1, l1
<1>12. Lines(t) /\ (\A j \in DOMAIN t : t[j].event = "eof" => j = Len(t))
  <2>1. \A j \in DOMAIN t : LineFits(t[j])
    BY <1>3, <1>7
  <2>2. ASSUME NEW j \in DOMAIN t, t[j].event = "eof" PROVE j = Len(t)
    <3>1. PICK i \in DOMAIN stream : i = j + 1 /\ t[j] = stream[i]
      BY <1>7
    <3>2. i = Len(stream)
      BY <1>1, <1>2, <2>2, <3>1 DEF KeepsUp
    <3> QED
      BY <1>4, <1>5, <3>1, <3>2
  <2> QED
    BY <1>5, <2>1, <2>2 DEF Lines
<1>13. ASSUME Alive(t) PROVE Heard(w1, t, k1, niri)
  <2>1. Alive(stream)
    <3> SUFFICES ASSUME NEW i \in DOMAIN stream PROVE stream[i].event # "eof"
      BY DEF Alive
    <3>1. CASE i = 1
      BY <1>1, <1>4, <3>1
    <3>2. CASE i # 1
      BY <1>7, <1>8, <1>13, <3>2 DEF Alive
    <3> QED
      BY <3>1, <3>2
  <2>2. Heard(v, stream, shown.checked, niri)
    BY <1>1, <1>2, <2>1 DEF KeepsUp
  <2>3. PICK w : Leads(v, stream, w) /\ Agree(w, niri)
    BY <2>2 DEF Heard
  <2>4. Leads(w1, t, w)
    <3>1. Leads(Apply(v, e), t, w)
      BY <1>1, <1>3, <2>3, LeadsTail DEF e, t
    <3> QED
      BY <1>10, <3>1
  <2>5. ASSUME \A j \in DOMAIN t : ~LayoutLine(t[j]) PROVE k1 = niri.current
    <3>1. CASE LayoutLine(e)
      <4>1. w.ly = w1.ly
        BY <1>5, <2>4, <2>5, Quiet
      <4>2. l1 = [names |-> niri.names, current |-> niri.current]
        BY <1>11, <2>3, <4>1 DEF Agree
      <4>3. niri.current \in DOMAIN niri.names
        BY <1>2 DEF NiriFits
      <4> QED
        BY <1>10, <3>1, <4>2, <4>3
    <3>2. CASE ~LayoutLine(e)
      <4>1. \A i \in DOMAIN stream : ~LayoutLine(stream[i])
        BY <1>4, <1>7, <1>8, <2>5, <3>2
      <4> QED
        BY <1>10, <2>2, <3>2, <4>1 DEF Heard
    <3> QED
      BY <3>1, <3>2
  <2> QED
    BY <2>2, <2>3, <2>4, <2>5 DEF Heard
<1>14. KeepsUp(connected, w1, t, k1, niri)
  BY <1>12, <1>13 DEF KeepsUp
<1>15. KeepsUp(connected, View(spaces, windows, focused, niri_told, layouts), stream, shown.checked, niri)'
  BY <1>1, <1>14 DEF w1, k1
<1>16. (NiriFits(niri) /\ connected \in BOOLEAN)'
  BY <1>1, <1>2
<1> QED
  BY <1>10, <1>15, <1>16 DEF StreamInv

\* The stream ends, and another begins.
LEMMA ConnectionKeeps ==
  ASSUME StreamInv, Niri!StreamEnds \/ Niri!Reconnect
  PROVE  StreamInv'
<1>1. /\ niri' = niri /\ spaces' = spaces /\ windows' = windows /\ focused' = focused
      /\ layouts' = layouts /\ shown' = shown
      /\ \/ connected' = FALSE /\ stream' = <<>>
         \/ niri.up /\ connected' = TRUE /\ stream' = Niri!Everything(niri) /\ niri_told' = FALSE
         \/ connected' = connected /\ stream' = stream /\ niri_told' = niri_told
  BY DEF Niri!StreamEnds, Niri!Reconnect, Niri!Connect
<1>2. /\ NiriFits(niri) /\ connected \in BOOLEAN
      /\ KeepsUp(connected, View(spaces, windows, focused, niri_told, layouts), stream, shown.checked, niri)
      /\ Shows(shown, spaces, windows, focused, layouts) /\ Ascending(spaces)
  BY DEF StreamInv
<1>3. KeepsUp(connected', View(spaces, windows, focused, niri_told', layouts), stream', shown.checked, niri)
  <2>1. CASE connected' = FALSE /\ stream' = <<>>
    <3>1. IsSeq(<<>>) /\ DOMAIN <<>> = {}
      BY EmptySeq DEF IsSeq
    <3>2. Lines(<<>>)
      BY <3>1 DEF Lines
    <3> DEFINE s1 == stream'
               c1 == connected'
    <3>3. Lines(s1) /\ ~c1
      BY <2>1, <3>2
    <3> HIDE DEF s1, c1
    <3>4. KeepsUp(c1, View(spaces, windows, focused, niri_told', layouts), s1, shown.checked, niri)
      BY <3>3 DEF KeepsUp
    <3> QED
      BY <3>4 DEF s1, c1
  <2>2. CASE niri.up /\ connected' = TRUE /\ stream' = Niri!Everything(niri) /\ niri_told' = FALSE
    <3> DEFINE k == shown.checked
    <3>1. niri.up /\ NiriFits(niri)
      BY <1>2, <2>2
    <3> HIDE DEF k
    <3>2. KeepsUp(TRUE, View(spaces, windows, focused, FALSE, layouts), Niri!Everything(niri), k, niri)
      BY <3>1, BeginsFollowing
    <3> QED
      BY <2>2, <3>2 DEF k
  <2>3. CASE connected' = connected /\ stream' = stream /\ niri_told' = niri_told
    BY <1>2, <2>3
  <2> QED
    BY <1>1, <2>1, <2>2, <2>3
<1>4. KeepsUp(connected, View(spaces, windows, focused, niri_told, layouts), stream, shown.checked, niri)'
  BY <1>1, <1>3
<1>5. (NiriFits(niri) /\ connected \in BOOLEAN)'
  BY <1>1, <1>2
<1>6. (Shows(shown, spaces, windows, focused, layouts) /\ Ascending(spaces))'
  BY <1>1, <1>2
<1> QED
  BY <1>4, <1>5, <1>6 DEF StreamInv

\* The first state satisfies the invariant.
LEMMA StreamInit == Niri!Init => StreamInv
<1> SUFFICES ASSUME Niri!Init PROVE StreamInv
  OBVIOUS
<1>1. PICK sp, names, ac :
        /\ sp \in Spaces /\ names \in Keyboards
        /\ niri = [up |-> TRUE, spaces |-> sp, windows |-> <<>>, focused |-> 0, active |-> ac,
                   focus |-> sp[1].id, names |-> names, current |-> 1]
  BY DEF Niri!Init, Niri!None
<1>2. /\ stream = Niri!Everything(niri) /\ connected = TRUE
      /\ spaces = <<>> /\ windows = <<>> /\ focused = Niri!NoWindow /\ niri_told = FALSE
      /\ layouts = [names |-> <<>>, current |-> 1]
      /\ shown = [tasks |-> <<>>, window |-> Niri!NoWindow, radios |-> <<>>, checked |-> 0,
                  panel |-> Niri!NoLayout]
  BY DEF Niri!Init, Niri!None
<1>3. NiriFits(niri)
  <2>1. <<>> \in Seq(Win) /\ DOMAIN <<>> = {}
    BY EmptySeq
  <2>2. Alone(<<>>)
    BY <2>1 DEF Alone
  <2>3. names \in Seq(Niri!Range(names)) /\ names # <<>>
    BY <1>1, NiriAssumption
  <2>4. 1 \in DOMAIN names
    BY <2>3, LenProperties, EmptySeq
  <2>5. /\ niri.spaces = sp /\ niri.windows = <<>> /\ niri.focused = 0 /\ niri.names = names
        /\ niri.current = 1
        /\ niri = [up |-> niri.up, spaces |-> niri.spaces, windows |-> niri.windows,
                   focused |-> niri.focused, active |-> niri.active, focus |-> niri.focus,
                   names |-> niri.names, current |-> niri.current]
    BY <1>1
  <2>6. sp \in Spaces /\ names \in Keyboards
    BY <1>1
  <2> QED
    BY <2>1, <2>2, <2>4, <2>5, <2>6 DEF NiriFits
<1>4. niri.up
  BY <1>1
<1>5. KeepsUp(TRUE, View(spaces, windows, focused, FALSE, layouts), Niri!Everything(niri), shown.checked,
              niri)
  <2> DEFINE k == shown.checked
  <2> HIDE DEF k
  <2>1. KeepsUp(TRUE, View(spaces, windows, focused, FALSE, layouts), Niri!Everything(niri), k, niri)
    BY <1>3, <1>4, BeginsFollowing
  <2> QED
    BY <2>1 DEF k
<1>6. DOMAIN spaces = {} /\ IsSeq(spaces)
  BY <1>2, EmptySeq DEF IsSeq
<1>7. Ascending(spaces)
  BY <1>6 DEF Ascending
<1>8. Shows(shown, spaces, windows, focused, layouts)
  <2>1. Niri!Tasks(spaces, windows) = <<>>
    <3> DEFINE Of(i) == LET in == Niri!Of(windows, spaces[i].id)
                            n  == IF Len(in) > Icons THEN Icons ELSE Len(in)
                        IN  [id |-> spaces[i].id, active |-> spaces[i].active,
                             focused |-> spaces[i].focused,
                             icons |-> [j \in 1..n |-> in[j].id], more |-> Len(in) - n]
    <3>1. Niri!Tasks(spaces, windows) = [i \in DOMAIN spaces |-> Of(i)]
      BY DEF Niri!Tasks
    <3> HIDE DEF Of
    <3>2. DOMAIN <<>> = {} /\ <<>> = [i \in {} |-> Of(i)]
      OBVIOUS
    <3> QED
      BY <1>6, <3>1, <3>2
  <2>2. layouts.names = <<>> /\ layouts = [names |-> layouts.names, current |-> layouts.current]
    BY <1>2
  <2>3. IsSeq(<<>>)
    BY EmptySeq DEF IsSeq
  <2>4. PanelOf(layouts) = Niri!NoLayout
    <3>1. layouts.current \notin DOMAIN layouts.names
      BY <2>2
    <3> QED
      BY <3>1 DEF PanelOf
  <2>5. /\ shown.tasks = <<>> /\ shown.window = focused /\ shown.radios = <<>>
        /\ shown.panel = Niri!NoLayout
        /\ shown = [tasks |-> shown.tasks, window |-> shown.window, radios |-> shown.radios,
                    checked |-> shown.checked, panel |-> shown.panel]
    BY <1>2
  <2> QED
    BY <2>1, <2>2, <2>3, <2>4, <2>5 DEF Shows
<1> QED
  BY <1>2, <1>3, <1>5, <1>7, <1>8 DEF StreamInv

\* Every step keeps the invariant.
LEMMA StreamNext == StreamInv /\ [Niri!Next]_(Niri!vars) => StreamInv'
<1> SUFFICES ASSUME StreamInv, [Niri!Next]_(Niri!vars) PROVE StreamInv'
  OBVIOUS
<1>1. CASE Niri!ReadLine
  BY <1>1, ReadKeeps
<1>2. CASE Niri!StreamEnds \/ Niri!Reconnect
  BY <1>2, ConnectionKeeps
<1>3. CASE Niri!Return \/ \E stays \in BOOLEAN : Niri!Cut(stays)
  BY <1>3, CutKeeps
<1>4. CASE \E id \in NiriWindows, next \in NiriWindows \cup {Niri!None} : Niri!Close(id, next)
  BY <1>4, CloseKeeps
<1>5. CASE \E id \in NiriWindows \cup {Niri!None} : Niri!FocusOn(id)
  BY <1>5, FocusKeeps
<1>6. CASE \E id \in 1..3, focus \in BOOLEAN : Niri!Activate(id, focus)
  BY <1>6, ActivateKeeps
<1>7. CASE \E id \in NiriWindows, title \in Titles, space \in 1..3 :
             Niri!Open(id, title, space) \/ Niri!Rename(id, title, space)
  BY <1>7, OpenKeeps, RenameKeeps
<1>8. CASE \E sp \in Spaces : Niri!Rearrange(sp)
  BY <1>8, RearrangeKeeps
<1>9. CASE \E names \in Keyboards, current \in 1..2 : Niri!SetLayouts(names, current)
  BY <1>9, SetLayoutsKeeps
<1>10. CASE \E i \in 1..2 : Niri!PickLayout(i)
  BY <1>10, PickLayoutKeeps
<1>11. CASE Niri!CloseShown \/ Niri!FocusIcon \/ Niri!PickSpace
            \/ (\E down \in BOOLEAN : Niri!Scroll(down)) \/ (\E name \in Titles : Niri!FocusApp(name))
  <2>1. CASE Niri!CloseShown
    BY <2>1, CloseKeeps DEF Niri!CloseShown
  <2>2. CASE Niri!FocusIcon
    BY <2>2, FocusKeeps DEF Niri!FocusIcon
  <2>3. CASE Niri!PickSpace
    <3>1. PICK i \in DOMAIN shown.tasks : Niri!Activate(shown.tasks[i].id, TRUE)
      BY <2>3 DEF Niri!PickSpace
    <3> QED
      BY <3>1, ActivateKeeps
  <2>4. CASE \E down \in BOOLEAN : Niri!Scroll(down)
    <3>1. PICK id : Niri!Activate(id, TRUE)
      BY <2>4 DEF Niri!Scroll
    <3> QED
      BY <3>1, ActivateKeeps
  <2>5. CASE \E name \in Titles : Niri!FocusApp(name)
    BY <2>5, FocusKeeps DEF Niri!FocusApp
  <2> QED
    BY <1>11, <2>1, <2>2, <2>3, <2>4, <2>5
<1>12. CASE UNCHANGED Niri!vars
  BY <1>12 DEF Niri!vars, Niri!shell, StreamInv
<1>13. CASE Niri!Next
  BY <1>1, <1>2, <1>3, <1>4, <1>5, <1>6, <1>7, <1>8, <1>9, <1>10, <1>11, <1>13 DEF Niri!Next
<1> QED
  BY <1>12, <1>13

\* What the invariant says when every line was read.
LEMMA StreamHolds == StreamInv => InSync
<1> SUFFICES ASSUME StreamInv, connected, stream = <<>> PROVE InSync
  BY DEF InSync, Niri!InSync
<1> DEFINE v == View(spaces, windows, focused, niri_told, layouts)
<1>1. /\ NiriFits(niri) /\ KeepsUp(connected, v, stream, shown.checked, niri)
      /\ Shows(shown, spaces, windows, focused, layouts) /\ Ascending(spaces)
  BY DEF StreamInv
<1>2. /\ v.sp = Niri!Range(spaces) /\ v.ws = windows /\ v.fc = focused /\ v.td = niri_told
      /\ v.ly = layouts
  BY DEF View
<1> HIDE DEF v
<1>3. \A i \in DOMAIN stream : FALSE
  OBVIOUS
<1>4. Heard(v, stream, shown.checked, niri)
  BY <1>1, <1>3 DEF KeepsUp, Alive
<1>5. Agree(v, niri)
  <2>1. PICK w : Leads(v, stream, w) /\ Agree(w, niri)
    BY <1>4 DEF Heard
  <2>2. Leads(v, <<>>, w)
    BY <2>1
  <2>3. w = v
    BY <2>2, LeadsNow
  <2> QED
    BY <2>1, <2>3
<1>6. shown.checked = niri.current
  BY <1>3, <1>4 DEF Heard
<1>7. /\ Niri!Range(spaces) = Now(niri) /\ windows = niri.windows
      /\ layouts = [names |-> niri.names, current |-> niri.current]
      /\ niri_told => focused = FocusOf(niri)
  BY <1>2, <1>5 DEF Agree
<1>8. {[id |-> s.id, active |-> s.active, focused |-> s.focused] : s \in Niri!Range(spaces)}
        = {[id |-> s.id, active |-> s.id \in niri.active, focused |-> s.id = niri.focus]
             : s \in Niri!Range(niri.spaces)}
  <2> DEFINE F(s) == [id |-> s.id, active |-> s.active, focused |-> s.focused]
             G(t) == [id |-> t.id, idx |-> t.idx, output |-> t.output,
                      active |-> t.id \in niri.active, focused |-> t.id = niri.focus]
             H(t) == [id |-> t.id, active |-> t.id \in niri.active, focused |-> t.id = niri.focus]
  <2>1. \A t : F(G(t)) = H(t)
    OBVIOUS
  <2>2. Niri!Range(spaces) = {G(t) : t \in Niri!Range(niri.spaces)}
    BY <1>7 DEF Now
  <2> HIDE DEF F, G, H
  <2>3. {F(s) : s \in Niri!Range(spaces)} = {H(t) : t \in Niri!Range(niri.spaces)}
    BY <2>1, <2>2
  <2> QED
    BY <2>3 DEF F, H
<1>9. \A i \in DOMAIN spaces : i > 1 => spaces[i - 1].idx <= spaces[i].idx
  BY <1>1 DEF Ascending
<1>10. /\ shown.tasks = Niri!Tasks(spaces, windows) /\ shown.window = focused
       /\ Len(shown.radios) = Len(niri.names) /\ shown.panel = niri.names[niri.current]
  <2>1. layouts.names = niri.names /\ layouts.current = niri.current
    BY <1>7
  <2>2. niri.current \in DOMAIN niri.names
    BY <1>1 DEF NiriFits
  <2> QED
    BY <1>1, <2>1, <2>2 DEF Shows, PanelOf
<1>11. niri_told => focused = IF niri.focused = Niri!None THEN Niri!NoWindow
                              ELSE Niri!Find(niri.windows, niri.focused)
  BY <1>7 DEF FocusOf, Niri!None
<1> QED
  BY <1>6, <1>7, <1>8, <1>9, <1>10, <1>11 DEF InSync, Niri!InSync

\* The shell has what niri has whenever every line was read, and the widgets show it.
THEOREM StreamAlwaysInSync == Niri!Spec => []InSync
<1>1. Niri!Init => StreamInv
  BY StreamInit
<1>2. StreamInv /\ [Niri!Next]_(Niri!vars) => StreamInv'
  BY StreamNext
<1>3. StreamInv => InSync
  BY StreamHolds
<1> QED
  BY <1>1, <1>2, <1>3, PTL DEF Niri!Spec
=============================================================================
