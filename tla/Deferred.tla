------------------------------ MODULE Deferred ------------------------------
(***************************************************************************)
(* What Perl promises of a signal with a handler (perlipc, "Deferred       *)
(* Signals"): the signal is noted when it comes, its handler is called     *)
(* later, once for all that have come by then, and is not called again     *)
(* before that call has ended.                                             *)
(***************************************************************************)
CONSTANT Sigs

VARIABLES
  owed,    \* the signals that have been noted and not answered
  active,  \* the signals whose handlers are running
  stopped  \* the process has ended

vars == <<owed, active, stopped>>

Init == owed = {} /\ active = {} /\ stopped = FALSE

\* Signals come, but never one whose handler is running.
Note(new) ==
  /\ new \cap active = {}
  /\ owed' = owed \cup new
  /\ UNCHANGED active

\* A handler is called for all the instances of s together.
Begin(s) ==
  /\ s \in owed \ active
  /\ owed' = owed \ {s}
  /\ active' = active \cup {s}

\* The handler of s has been taken away before it could be called.
Forget(s) ==
  /\ s \in owed
  /\ owed' = owed \ {s}
  /\ UNCHANGED active

\* A handler returns, or dies.
End(s) ==
  /\ s \in active
  /\ active' = active \ {s}
  /\ UNCHANGED owed

\* A new process owes nothing for the signals of its parent.
Fork ==
  /\ owed' = {}
  /\ UNCHANGED active

Next ==
  /\ ~stopped
  /\ stopped' \in BOOLEAN
  /\ \/ \E new \in SUBSET Sigs : Note(new)
     \/ \E s \in Sigs : Begin(s) \/ Forget(s) \/ End(s)
     \/ Fork

Spec == Init /\ [][Next]_vars
=============================================================================
