---------------------------- MODULE LoginScreen -----------------------------
(***************************************************************************)
(* The greeter, under names that stand beside SessionGuard's.              *)
(***************************************************************************)
EXTENDS Integers, Sequences

CONSTANTS
  Accounts, Installed, Command, Greeters, Nobody, Rounds,   \* as in Greeter
  Outputs, LoginEvents                                      \* Monitors and MaxEvents

VARIABLES
  greeter_running, users, sessions, user, session, greeter_monitors, greeter_surfaces,
  entry, busy, job, worker, greetd, broken, answers, stored, cache, rebuilt, headless,
  started, greeter_events

Login == INSTANCE Greeter WITH
  Monitors <- Outputs, MaxEvents <- LoginEvents,
  running <- greeter_running, monitors <- greeter_monitors,
  surfaces <- greeter_surfaces, events <- greeter_events

LoginVars ==
  <<greeter_running, users, sessions, user, session, greeter_monitors,
    greeter_surfaces, entry, busy, job, worker, greetd, broken, answers, stored,
    cache, rebuilt, headless, started, greeter_events>>

-----------------------------------------------------------------------------
\* The system lists its users and its session files one after the other, and the names
\* of sessions are ordered.
ASSUME LoginAssumption ==
  /\ \A a \in Accounts : a \in Seq(Login!Range(a))
  /\ \A f \in Installed :
       /\ f \in Seq(Login!Range(f))
       /\ \A i \in DOMAIN f : f[i].name \in Int

-----------------------------------------------------------------------------
(* The login card is on the first monitor and only there, and an attempt   *)
(* sends one password, for the user it began with, and cleans up           *)
(* (greeter/main.c).                                                       *)
AttemptsAreClean == Login!CardIsThere /\ Login!AttemptsAreClean

(* Every attempt of the greeter to log in ends (greeter/main.c).           *)
AttemptEnds == Login!AttemptEnds
=============================================================================
