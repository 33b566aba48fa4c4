--------------------------- MODULE MCSessionGuard ---------------------------
(* Instances of SessionGuard for TLC. *)
EXTENDS SessionGuard

TwoMonitors == {"internal", "external"}

\* The order of the defaults (300 s, 600 s, 900 s), monitors off as the saver
\* with the lock first, and no saver at all.
Ordered == {[mode |-> "overlay", onSuspend |-> TRUE,
             timeout |-> [saver |-> 1, dpms |-> 2, lock |-> 3]]}
AllConfigs == Ordered \cup
  {[mode |-> "dpms", onSuspend |-> FALSE, timeout |-> [saver |-> 2, dpms |-> 0, lock |-> 1]],
   [mode |-> "disabled", onSuspend |-> TRUE, timeout |-> [saver |-> 1, dpms |-> 2, lock |-> 2]]}
=============================================================================
