------------------------------ MODULE Tracker ------------------------------
(***************************************************************************)
(* The tracking page www/api/index.php, which every fifteen seconds asks   *)
(* the browser where the visitor is, posts the position to                 *)
(* www/api/pull.php and shows what it answers, and pull.php, which looks   *)
(* up what is near.                                                        *)
(*                                                                         *)
(* The page does not wait for a call before it begins the next, names no   *)
(* time limit and handles no failure: locating, the query and the answer   *)
(* of several calls may overlap and end in any order.  How long a call can *)
(* take is not in the code; it is the parameter Slowest.                   *)
(*                                                                         *)
(* Time is kept in ages, which a Tick adds to; an age of Old or more is    *)
(* Old.  So there is no bound on how long the page is open.                *)
(***************************************************************************)
EXTENDS Naturals, FiniteSets

CONSTANTS
  Places,     \* where the visitor may be
  Tables,     \* what table piperpal may hold
  Period,     \* the interval of the timer, 15000 ms
  Late,       \* how late a timer may be
  Slowest     \* a call that is not answered at this age fails

\* What a run of pull.php answers that fails: its form, an empty line or the
\* text of an error.
Failure == "failure"

ASSUME TimeAssumption ==
  Period \in Nat \ {0} /\ Late \in Nat /\ Slowest \in Nat \ {0}
ASSUME ValuesAssumption ==
  Failure \notin Tables /\ Places \cap Tables = {}

VARIABLES
  geolocation,   \* the browser has navigator.geolocation
  since,   \* age of the last run of the timer's function
  place,   \* where the visitor is
  table,   \* what table piperpal holds
  calls,   \* the calls in progress
  log,     \* the contents of the element #log
  gone     \* history: for how long a place or a table has not been the case

vars == <<geolocation, since, place, table, calls, log, gone>>

Old == Slowest + 1
Ages == 0 .. Old
Older(age) == IF age < Old THEN age + 1 ELSE Old

-----------------------------------------------------------------------------
Answers == Tables \cup {Failure}

Calls ==
       [phase : {"locating"}, age : 0 .. Slowest]
  \cup [phase : {"asking"}, age : 0 .. Slowest, at : Places]
  \cup [phase : {"answering"}, age : 0 .. Slowest, at : Places, rows : Answers]

Blank == [shows |-> "blank"]
Unavailable == [shows |-> "unavailable"]
Shown == [shows : {"answer"}, at : Places, rows : Answers, age : Ages]

TypeOK ==
  /\ geolocation \in BOOLEAN
  /\ since \in 0 .. Period + Late
  /\ place \in Places
  /\ table \in Tables
  /\ calls \subseteq Calls
  /\ log \in {Blank, Unavailable} \cup Shown
  /\ gone \in [Places \cup Tables -> Ages]

Init ==
  /\ geolocation \in BOOLEAN
  /\ since = 0
  /\ place \in Places
  /\ table \in Tables
  /\ calls = {}
  /\ log = Blank
  /\ gone = [x \in Places \cup Tables |-> IF x \in {place, table} THEN 0 ELSE Old]

-----------------------------------------------------------------------------
(* The page.                                                               *)

\* Begins a call whatever the others do; starts over, keeping none of them.
Begun == calls \cup {[phase |-> "locating", age |-> 0]}

\* No position, that of the answer shown last, and that of this call.
RememberedPlace == IF log.shows = "answer" THEN log.at ELSE place
Measured == place

\* setInterval waits half a period, or a whole one.
WaitsHalf == since >= Period \div 2
Due == since >= Period

Unsupported == log' = Unavailable /\ UNCHANGED calls

\* The function of the timer runs, lines 13-19.
Fire ==
  /\ Due
  /\ since' = 0
  /\ IF geolocation THEN calls' = Begun /\ UNCHANGED log ELSE Unsupported
  /\ UNCHANGED <<geolocation, place, table, gone>>

\* The browser calls ajaxCall with a position, and the call is posted.
Locate(c) ==
  /\ c.phase = "locating"
  /\ calls' = (calls \ {c}) \cup {[phase |-> "asking", age |-> c.age, at |-> Measured]}
  /\ UNCHANGED <<geolocation, since, place, table, log, gone>>

\* success: the answer replaces what #log shows, lines 33-36.
Receive(c) ==
  /\ c.phase = "answering"
  /\ calls' = calls \ {c}
  /\ log' = [shows |-> "answer", at |-> c.at, rows |-> c.rows, age |-> c.age]
  /\ UNCHANGED <<geolocation, since, place, table, gone>>

\* No position, no connection or no answer: there is no error callback.
Fail(c) ==
  /\ calls' = calls \ {c}
  /\ UNCHANGED <<geolocation, since, place, table, log, gone>>

-----------------------------------------------------------------------------
(* The server, pull.php.                                                   *)

Answered(c, rows) ==
  (calls \ {c}) \cup {[phase |-> "answering", age |-> c.age, at |-> c.at, rows |-> rows]}

Answer(c) ==
  /\ c.phase = "asking"
  /\ calls' = Answered(c, table)
  /\ UNCHANGED <<geolocation, since, place, table, log, gone>>

\* Line 3 or 5 fails.  Before PHP 8, line 6 then counts no rows and the form is
\* printed.  Otherwise the script ends there: where its empty first line has been
\* sent already, or the error is displayed, the status is 200 all the same, and
\* this is all the answer says; elsewhere it is 500 (Fail).
QueryFails(c) ==
  /\ c.phase = "asking"
  /\ calls' = Answered(c, Failure)
  /\ UNCHANGED <<geolocation, since, place, table, log, gone>>

-----------------------------------------------------------------------------
(* The world.                                                              *)

Move(p) ==
  /\ p # place
  /\ place' = p
  /\ gone' = [gone EXCEPT ![p] = 0]
  /\ UNCHANGED <<geolocation, since, table, calls, log>>

Change(t) ==
  /\ t # table
  /\ table' = t
  /\ gone' = [gone EXCEPT ![t] = 0]
  /\ UNCHANGED <<geolocation, since, place, calls, log>>

\* Time passes, but not beyond the moment when a timer or a call must end.
Tick ==
  /\ since < Period + Late
  /\ \A c \in calls : c.age < Slowest
  /\ since' = since + 1
  /\ calls' = {[c EXCEPT !.age = @ + 1] : c \in calls}
  /\ log' = IF log.shows = "answer" THEN [log EXCEPT !.age = Older(@)] ELSE log
  /\ gone' = [x \in Places \cup Tables |->
                IF x \in {place, table} THEN 0 ELSE Older(gone[x])]
  /\ UNCHANGED <<geolocation, place, table>>

Next ==
  \/ Fire
  \/ \E c \in calls : Locate(c) \/ Receive(c) \/ Fail(c) \/ Answer(c) \/ QueryFails(c)
  \/ \E p \in Places : Move(p)
  \/ \E t \in Tables : Change(t)
  \/ Tick

Spec == Init /\ [][Next]_vars

\* Rows are received.
Succeeds(c) == c.phase = "answering" /\ c.rows \in Tables /\ Receive(c)

\* Time passes, the timer runs, answers arrive, and calls that are tried again
\* and again succeed again and again.
Fairness ==
  /\ WF_vars(Tick) /\ WF_vars(Fire) /\ WF_vars(\E c \in calls : Receive(c))
  /\ SF_vars(\E c \in calls : Locate(c))
  /\ SF_vars(\E c \in calls : Answer(c))
  /\ SF_vars(\E c \in calls : Succeeds(c))

FairSpec == Spec /\ Fairness

-----------------------------------------------------------------------------
(* Properties.                                                             *)

\* The page replaces an answer by that of a call that began earlier only if
\* this call is a whole period slower: never when calls take less.
NeverGoesBack ==
  [][\A c \in calls : Receive(c) /\ log.shows = "answer"
       => c.age < log.age \/ c.age >= log.age + Period]_vars

\* However slow, there are never more calls than periods in Slowest and one.
CallsBounded == Cardinality(calls) <= Slowest \div Period + 1

\* What appears was the case since its call began: the visitor was at the
\* place, and the table held the rows, at most the age of the call ago.
FreshWhenShown ==
  [][\A c \in calls : Receive(c) =>
       /\ gone[c.at] <= c.age
       /\ c.rows \in Tables => gone[c.rows] <= c.age]_vars

ShowsOf(p, rows) == log.shows = "answer" /\ log.at = p /\ log.rows \in rows

\* With geolocation, whoever stays at a place while the table stays as it is
\* sees the answer for this place and this table again and again, and from some
\* moment on nothing else but the answers of calls that failed there.
StaysCurrent ==
  \A p \in Places, t \in Tables :
    geolocation /\ <>[](place = p /\ table = t)
      => []<>ShowsOf(p, {t}) /\ <>[]ShowsOf(p, {t, Failure})

-----------------------------------------------------------------------------
(* The invariants behind the properties.                                   *)

\* Calls began at runs of the timer, which are a period apart.
SpacedInv ==
  /\ \A c \in calls : c.age >= since
  /\ \A c, d \in calls : c.age < d.age => c.age + Period <= d.age
  /\ \A c, d \in calls : c.age = d.age => c = d

\* An answer is older than every call in progress that is not slower by a
\* period.
OrderInv ==
  log.shows = "answer" =>
    /\ log.age >= since \/ log.age = Old
    /\ \A c \in calls : c.age < log.age \/ log.age + Period <= c.age

\* What a call knows was the case after it began.
Fresh(c) ==
  /\ c.phase # "locating" => gone[c.at] <= c.age
  /\ c.phase = "answering" /\ c.rows \in Tables => gone[c.rows] <= c.age

FreshInv ==
  /\ gone[place] = 0 /\ gone[table] = 0
  /\ \A c \in calls : Fresh(c)
=============================================================================
