--------------------------- MODULE Tracker_proofs ---------------------------
(***************************************************************************)
(* Proofs about the tracking page, for any period, any lateness of the     *)
(* timer, any duration of the calls and any places and tables.             *)
(***************************************************************************)
EXTENDS Tracker, FiniteSetTheorems, TLAPS

USE TimeAssumption, ValuesAssumption

\* The ages of answers and of the world grow up to Old.
LEMMA OlderGrows ==
  ASSUME NEW age \in Ages
  PROVE  /\ Older(age) \in Ages
         /\ Older(age) >= age
         /\ \A a \in 0 .. Slowest : age <= a /\ a < Slowest => Older(age) <= a + 1
         /\ \A a \in Nat : a < Slowest /\ a < age => a + 1 < Older(age)
BY DEF Older, Ages, Old

\* The fields a call has in each phase.
LEMMA CallFields ==
  ASSUME NEW c \in Calls
  PROVE  /\ c.phase \in {"locating", "asking", "answering"}
         /\ c.age \in 0 .. Slowest
         /\ c.phase \in {"asking", "answering"} => c.at \in Places
         /\ c.phase = "answering" => c.rows \in Answers
BY DEF Calls

\* A call that gets older keeps everything else.
LEMMA CallAges ==
  ASSUME NEW c \in Calls, c.age < Slowest
  PROVE  LET d == [c EXCEPT !.age = @ + 1]
         IN  /\ d \in Calls
             /\ d.age = c.age + 1 /\ d.phase = c.phase
             /\ c.phase \in {"asking", "answering"} => d.at = c.at
             /\ c.phase = "answering" => d.rows = c.rows
<1>1. CASE c \in [phase : {"locating"}, age : 0 .. Slowest]
  BY <1>1 DEF Calls
<1>2. CASE c \in [phase : {"asking"}, age : 0 .. Slowest, at : Places]
  BY <1>2 DEF Calls
<1>3. CASE c \in [phase : {"answering"}, age : 0 .. Slowest, at : Places, rows : Answers]
  BY <1>3 DEF Calls
<1>4. QED
  BY <1>1, <1>2, <1>3 DEF Calls

\* Every variable keeps its type: the type invariant of the tracker runs.
THEOREM TypeCorrect == Spec => []TypeOK
<1>1. Init => TypeOK
  BY DEF Init, TypeOK, Ages, Old
<1>2. TypeOK /\ [Next]_vars => TypeOK'
  <2> SUFFICES ASSUME TypeOK, [Next]_vars PROVE TypeOK'
    OBVIOUS
  <2> USE DEF TypeOK
  <2>1. CASE UNCHANGED vars
    BY <2>1 DEF vars
  <2>2. CASE Fire
    <3>1. [phase |-> "locating", age |-> 0] \in Calls
      BY DEF Calls
    <3>2. calls' \subseteq Calls /\ log' \in {Blank, Unavailable} \cup Shown
      BY <2>2, <3>1 DEF Fire, Begun, Unsupported
    <3>3. QED
      BY <2>2, <3>2 DEF Fire
  <2>3. ASSUME NEW c \in calls, Locate(c) PROVE TypeOK'
    <3>1. [phase |-> "asking", age |-> c.age, at |-> Measured] \in Calls
      BY CallFields DEF Calls, Measured
    <3>2. QED
      BY <2>3, <3>1 DEF Locate
  <2>4. ASSUME NEW c \in calls, Receive(c) PROVE TypeOK'
    <3>1. c.at \in Places /\ c.rows \in Answers /\ c.age \in Ages
      BY <2>4, CallFields DEF Receive, Ages, Old
    <3>2. log' \in Shown
      BY <2>4, <3>1 DEF Receive, Shown
    <3>3. QED
      BY <2>4, <3>2 DEF Receive
  <2>5. ASSUME NEW c \in calls, Fail(c) PROVE TypeOK'
    BY <2>5 DEF Fail
  <2>6. ASSUME NEW c \in calls, NEW rows \in Answers,
               c.phase = "asking", calls' = Answered(c, rows),
               UNCHANGED <<geolocation, since, place, table, log, gone>>
        PROVE  TypeOK'
    <3>1. [phase |-> "answering", age |-> c.age, at |-> c.at, rows |-> rows] \in Calls
      BY <2>6, CallFields DEF Calls
    <3>2. QED
      BY <2>6, <3>1 DEF Answered
  <2>7. ASSUME NEW c \in calls, Answer(c) \/ QueryFails(c) PROVE TypeOK'
    BY <2>6, <2>7 DEF Answer, QueryFails, Answers
  <2>8. ASSUME NEW p \in Places, Move(p) PROVE TypeOK'
    BY <2>8 DEF Move, Ages, Old
  <2>9. ASSUME NEW t \in Tables, Change(t) PROVE TypeOK'
    BY <2>9 DEF Change, Ages, Old
  <2>10. CASE Tick
    <3>1. calls' \subseteq Calls
      BY <2>10, CallAges DEF Tick
    <3>2. log' \in {Blank, Unavailable} \cup Shown
      BY <2>10, OlderGrows DEF Tick, Shown, Blank, Unavailable
    <3>3. gone' \in [Places \cup Tables -> Ages]
      <4>1. 0 \in Ages
        BY DEF Ages, Old
      <4>2. QED
        BY <2>10, <4>1, OlderGrows DEF Tick
    <3>4. QED
      BY <2>10, <3>1, <3>2, <3>3 DEF Tick
  <2>11. QED
    BY <2>1, <2>2, <2>3, <2>4, <2>5, <2>7, <2>8, <2>9, <2>10 DEF Next
<1>3. QED
  BY <1>1, <1>2, PTL DEF Spec

\* Calls keep their distance, because only the timer begins one.
LEMMA SpacedCorrect == Spec => []SpacedInv
<1>1. Init => SpacedInv
  BY DEF Init, SpacedInv
<1>2. TypeOK /\ SpacedInv /\ [Next]_vars => SpacedInv'
  <2> SUFFICES ASSUME TypeOK, SpacedInv, [Next]_vars PROVE SpacedInv'
    OBVIOUS
  <2>1. /\ since \in Nat
        /\ \A c \in calls : c \in Calls /\ c.age \in Nat /\ c.age <= Slowest
    BY CallFields DEF TypeOK
  <2>2. CASE UNCHANGED <<since, calls>>
    BY <2>2 DEF SpacedInv
  <2>3. CASE Fire
    <3>1. CASE calls' = calls
      BY <2>1, <2>3, <3>1 DEF Fire, SpacedInv
    <3>2. CASE calls' = Begun
      <4> DEFINE new == [phase |-> "locating", age |-> 0]
      <4>1. \A c \in calls : c.age >= Period
        BY <2>1, <2>3 DEF Fire, Due, SpacedInv
      <4>2. calls' = calls \cup {new} /\ new.age = 0 /\ since' = 0
        BY <2>3, <3>2 DEF Fire, Begun
      <4> HIDE DEF new
      <4>3. QED
        BY <2>1, <4>1, <4>2 DEF SpacedInv
    <3>3. QED
      BY <2>3, <3>1, <3>2 DEF Fire, Unsupported
  <2>4. ASSUME NEW c \in calls, NEW d, d.age = c.age, calls' = (calls \ {c}) \cup {d},
               UNCHANGED since
        PROVE  SpacedInv'
    BY <2>1, <2>4 DEF SpacedInv
  <2>5. ASSUME NEW c \in calls, Locate(c) \/ Answer(c) \/ QueryFails(c) PROVE SpacedInv'
    BY <2>4, <2>5 DEF Locate, Answer, QueryFails, Answered
  <2>6. ASSUME NEW c \in calls, Receive(c) \/ Fail(c) PROVE SpacedInv'
    BY <2>1, <2>6 DEF Receive, Fail, SpacedInv
  <2>7. CASE Tick
    <3> DEFINE aged(c) == [c EXCEPT !.age = @ + 1]
    <3>1. \A c \in calls : aged(c).age = c.age + 1
      BY <2>1, <2>7, CallAges DEF Tick
    <3>2. calls' = {aged(c) : c \in calls} /\ since' = since + 1
      BY <2>7 DEF Tick
    <3> HIDE DEF aged
    <3>3. QED
      BY <2>1, <3>1, <3>2 DEF SpacedInv
  <2>8. QED
    BY <2>2, <2>3, <2>5, <2>6, <2>7 DEF Next, vars, Move, Change
<1>3. QED
  BY <1>1, <1>2, TypeCorrect, PTL DEF Spec

\* An answer that shows began before the calls in progress that are not
\* slower by a period.
LEMMA OrderCorrect == Spec => []OrderInv
<1>1. Init => OrderInv
  BY DEF Init, OrderInv, Blank
<1>2. TypeOK /\ SpacedInv /\ OrderInv /\ [Next]_vars => OrderInv'
  <2> SUFFICES ASSUME TypeOK, SpacedInv, OrderInv, [Next]_vars,
                      log'.shows = "answer"
               PROVE  /\ log'.age >= since' \/ log'.age = Old
                      /\ \A c \in calls' : c.age < log'.age \/ log'.age + Period <= c.age
    BY DEF OrderInv
  <2>1. /\ since \in Nat
        /\ \A c \in calls : c \in Calls /\ c.age \in Nat /\ c.age <= Slowest
        /\ log.shows = "answer" => log.age \in Ages
    BY CallFields DEF TypeOK, Shown, Blank, Unavailable
  <2>3. CASE UNCHANGED <<since, log>> /\ \A c \in calls' : \E d \in calls : c.age = d.age
    BY <2>3 DEF OrderInv
  <2>4. CASE Fire
    <3>1. log' = log /\ calls' = Begun /\ since' = 0
      BY <2>4 DEF Fire, Unsupported, Unavailable
    <3>2. log.age > 0 /\ log.age \in Nat
      BY <2>1, <2>4, <3>1 DEF OrderInv, Fire, Due, Ages, Old
    <3>3. \A c \in calls : c.age < log.age \/ log.age + Period <= c.age
      BY <3>1 DEF OrderInv
    <3>4. QED
      BY <3>1, <3>2, <3>3 DEF Begun
  <2>5. ASSUME NEW c \in calls, Receive(c)
        PROVE  /\ log'.age >= since' \/ log'.age = Old
               /\ \A d \in calls' : d.age < log'.age \/ log'.age + Period <= d.age
    <3>1. calls' = calls \ {c} /\ log'.age = c.age /\ since' = since
      BY <2>5 DEF Receive
    <3>2. \A d \in calls : d.age = c.age => d = c
      BY DEF SpacedInv
    <3>3. \A d \in calls : c.age < d.age => c.age + Period <= d.age
      BY DEF SpacedInv
    <3>4. c.age >= since
      BY DEF SpacedInv
    <3>5. QED
      BY <2>1, <3>1, <3>2, <3>3, <3>4
  <2>6. ASSUME NEW c \in calls,
               Locate(c) \/ Answer(c) \/ QueryFails(c) \/ Fail(c)
        PROVE  UNCHANGED <<since, log>> /\ \A e \in calls' : \E d \in calls : e.age = d.age
    BY <2>6 DEF Locate, Answer, QueryFails, Answered, Fail
  <2>7. CASE Tick
    <3> DEFINE aged(c) == [c EXCEPT !.age = @ + 1]
    <3>1. \A c \in calls : aged(c).age = c.age + 1 /\ c.age < Slowest
      BY <2>1, <2>7, CallAges DEF Tick
    <3>2. calls' = {aged(c) : c \in calls} /\ since' = since + 1
      BY <2>7 DEF Tick
    <3>3. log.shows = "answer" /\ log'.age = Older(log.age)
      <4>1. CASE log.shows = "answer"
        <5>1. log \in Shown
          BY <4>1 DEF TypeOK, Blank, Unavailable
        <5>2. QED
          BY <2>7, <4>1, <5>1 DEF Tick, Shown
      <4>2. CASE log.shows # "answer"
        BY <2>7, <4>2 DEF Tick
      <4>3. QED
        BY <4>1, <4>2
    <3> HIDE DEF aged
    <3>4. \A c \in calls :
            c.age + 1 < Older(log.age) \/ Older(log.age) + Period <= c.age + 1
      BY <2>1, <3>1, <3>3, OlderGrows DEF OrderInv, Older, Ages, Old
    <3>5. Older(log.age) >= since + 1 \/ Older(log.age) = Old
      BY <2>1, <3>3 DEF OrderInv, Older, Ages, Old
    <3>6. QED
      BY <3>1, <3>2, <3>3, <3>4, <3>5
  <2>8. QED
    BY <2>3, <2>4, <2>5, <2>6, <2>7 DEF Next, vars, Move, Change
<1>3. QED
  BY <1>1, <1>2, TypeCorrect, SpacedCorrect, PTL DEF Spec

\* The page never goes back by less than a period.
THEOREM NeverGoesBackHolds == Spec => NeverGoesBack
<1>1. TypeOK /\ OrderInv
        => \A c \in calls : Receive(c) /\ log.shows = "answer"
             => c.age < log.age \/ c.age >= log.age + Period
  <2> SUFFICES ASSUME TypeOK, OrderInv, NEW c \in calls, log.shows = "answer"
               PROVE  c.age < log.age \/ c.age >= log.age + Period
    OBVIOUS
  <2>1. log.age \in Nat /\ c.age \in Nat
    BY CallFields DEF TypeOK, Shown, Blank, Unavailable, Ages, Old
  <2>2. QED
    BY <2>1 DEF OrderInv
<1>2. QED
  BY <1>1, TypeCorrect, OrderCorrect, PTL DEF NeverGoesBack

\* What a call knows was the case after it began.
LEMMA FreshCorrect == Spec => []FreshInv
<1>1. Init => FreshInv
  BY DEF Init, FreshInv
<1>2. TypeOK /\ FreshInv /\ [Next]_vars => FreshInv'
  <2> SUFFICES ASSUME TypeOK, FreshInv, [Next]_vars PROVE FreshInv'
    OBVIOUS
  <2>1. /\ gone \in [Places \cup Tables -> Ages]
        /\ place \in Places /\ table \in Tables
        /\ \A c \in calls : c \in Calls /\ c.age \in 0 .. Slowest
    BY CallFields DEF TypeOK
  <2>2. \A c \in calls : c.phase # "locating" => c.at \in Places
    BY <2>1, CallFields
  <2>3. CASE UNCHANGED <<place, table, calls, gone>>
    BY <2>3 DEF FreshInv, Fresh
  <2>4. ASSUME UNCHANGED <<place, table, gone>>,
               \A c \in calls' : c \in calls \/ Fresh(c)
        PROVE  FreshInv'
    BY <2>4 DEF FreshInv, Fresh
  <2>5. CASE Fire
    BY <2>4, <2>5 DEF Fire, Begun, Unsupported, Fresh
  <2>6. ASSUME NEW c \in calls, Locate(c) PROVE FreshInv'
    <3>1. Fresh([phase |-> "asking", age |-> c.age, at |-> Measured])
      BY <2>1 DEF FreshInv, Fresh, Measured
    <3>2. QED
      BY <2>4, <2>6, <3>1 DEF Locate
  <2>7. ASSUME NEW c \in calls, c.phase = "asking", NEW rows \in {table, Failure},
               calls' = Answered(c, rows), UNCHANGED <<place, table, gone>>
        PROVE  FreshInv'
    <3>1. Fresh([phase |-> "answering", age |-> c.age, at |-> c.at, rows |-> rows])
      BY <2>1, <2>7 DEF FreshInv, Fresh
    <3>2. QED
      BY <2>4, <2>7, <3>1 DEF Answered
  <2>8. ASSUME NEW c \in calls, Answer(c) \/ QueryFails(c) PROVE FreshInv'
    BY <2>7, <2>8 DEF Answer, QueryFails
  <2>9. ASSUME NEW c \in calls, Receive(c) \/ Fail(c) PROVE FreshInv'
    BY <2>4, <2>9 DEF Receive, Fail
  <2>10. ASSUME NEW p \in Places, Move(p) PROVE FreshInv'
    <3>2. \A x \in Places \cup Tables : gone'[x] = IF x = p THEN 0 ELSE gone[x]
      BY <2>1, <2>10 DEF Move
    <3>3. ASSUME NEW c \in calls PROVE Fresh(c)'
      <4>1. Fresh(c) /\ c.age \in 0 .. Slowest
        BY <2>1 DEF FreshInv
      <4>2. \A x \in Places \cup Tables : gone[x] <= c.age => gone'[x] <= c.age
        BY <3>2, <4>1
      <4>3. /\ c.phase # "locating" => c.at \in Places \cup Tables
            /\ c.phase = "answering" /\ c.rows \in Tables => c.rows \in Places \cup Tables
        BY <2>2
      <4>4. QED
        BY <4>1, <4>2, <4>3, Zenon DEF Fresh
    <3>4. QED
      <4>1. calls' = calls /\ gone'[place'] = 0 /\ gone'[table'] = 0
        BY <2>1, <2>10, <3>2 DEF Move, FreshInv
      <4>2. QED
        BY <3>3, <4>1 DEF FreshInv
  <2>11. ASSUME NEW t \in Tables, Change(t) PROVE FreshInv'
    <3>2. \A x \in Places \cup Tables : gone'[x] = IF x = t THEN 0 ELSE gone[x]
      BY <2>1, <2>11 DEF Change
    <3>3. ASSUME NEW c \in calls PROVE Fresh(c)'
      <4>1. Fresh(c) /\ c.age \in 0 .. Slowest
        BY <2>1 DEF FreshInv
      <4>2. \A x \in Places \cup Tables : gone[x] <= c.age => gone'[x] <= c.age
        BY <3>2, <4>1
      <4>3. /\ c.phase # "locating" => c.at \in Places \cup Tables
            /\ c.phase = "answering" /\ c.rows \in Tables => c.rows \in Places \cup Tables
        BY <2>2
      <4>4. QED
        BY <4>1, <4>2, <4>3, Zenon DEF Fresh
    <3>4. QED
      <4>1. calls' = calls /\ gone'[place'] = 0 /\ gone'[table'] = 0
        BY <2>1, <2>11, <3>2 DEF Change, FreshInv
      <4>2. QED
        BY <3>3, <4>1 DEF FreshInv
  <2>12. CASE Tick
    <3>1. \A x \in Places \cup Tables, a \in 0 .. Slowest :
            gone[x] <= a /\ a < Slowest => gone'[x] <= a + 1
      BY <2>1, <2>12, OlderGrows DEF Tick
    <3>2. ASSUME NEW c \in calls PROVE Fresh([c EXCEPT !.age = @ + 1])'
      <4> DEFINE d == [c EXCEPT !.age = @ + 1]
      <4>1. /\ d.age = c.age + 1 /\ d.phase = c.phase
            /\ c.phase \in {"asking", "answering"} => d.at = c.at
            /\ c.phase = "answering" => d.rows = c.rows
        BY <2>1, <2>12, CallAges DEF Tick
      <4>2. c.age \in 0 .. Slowest /\ c.age < Slowest /\ Fresh(c)
        BY <2>1, <2>12 DEF Tick, FreshInv
      <4>3. c.phase \in {"locating", "asking", "answering"}
        BY <2>1, CallFields
      <4> HIDE DEF d
      <4>4. \A x \in Places \cup Tables : gone[x] <= c.age => gone'[x] <= d.age
        BY <3>1, <4>1, <4>2
      <4>5. /\ c.phase # "locating" => c.at \in Places \cup Tables
            /\ c.phase = "answering" /\ c.rows \in Tables => c.rows \in Places \cup Tables
        BY <2>2
      <4>6. Fresh(d)'
        BY <4>1, <4>2, <4>3, <4>4, <4>5, Zenon DEF Fresh
      <4>7. QED
        BY <4>6 DEF d
    <3>3. gone'[place'] = 0 /\ gone'[table'] = 0
      BY <2>1, <2>12 DEF Tick
    <3>4. QED
      <4>1. \A e \in calls' : \E c \in calls : e = [c EXCEPT !.age = @ + 1]
        BY <2>12 DEF Tick
      <4>2. \A e \in calls' : Fresh(e)'
        BY <3>2, <4>1
      <4>3. QED
        BY <3>3, <4>2 DEF FreshInv
  <2>13. QED
    BY <2>3, <2>5, <2>6, <2>8, <2>9, <2>10, <2>11, <2>12 DEF Next, vars
<1>3. QED
  BY <1>1, <1>2, TypeCorrect, PTL DEF Spec

\* What appears was the case since its call began.
THEOREM FreshWhenShownHolds == Spec => FreshWhenShown
<1>1. FreshInv => \A c \in calls : Receive(c) =>
        /\ gone[c.at] <= c.age
        /\ c.rows \in Tables => gone[c.rows] <= c.age
  BY DEF FreshInv, Fresh, Receive
<1>2. QED
  BY <1>1, FreshCorrect, PTL DEF FreshWhenShown

\* Ages that are a period apart are in different periods.
LEMMA PeriodsApart ==
  ASSUME NEW a \in Nat, NEW b \in Nat, a + Period <= b
  PROVE  a \div Period < b \div Period
<1> DEFINE q == a \div Period
           r == b \div Period
<1>1. /\ q \in Nat /\ r \in Nat
      /\ q * Period <= a /\ b < (r + 1) * Period
  OBVIOUS
<1>2. (q + 1) * Period = q * Period + Period
  BY <1>1
<1>3. (q + 1) * Period < (r + 1) * Period
  BY <1>1, <1>2
<1>4. QED
  BY <1>1, <1>3

\* There are never more calls than periods in the slowest call, and one.
THEOREM CallsBoundedHolds == Spec => []CallsBounded
<1>1. TypeOK /\ SpacedInv => CallsBounded
  <2> SUFFICES ASSUME TypeOK, SpacedInv PROVE CallsBounded
    OBVIOUS
  <2> DEFINE n == Slowest \div Period
             period == [c \in calls |-> c.age \div Period]
  <2>1. \A c \in calls : c.age \in 0 .. Slowest
    BY CallFields DEF TypeOK
  <2>2. \A a \in 0 .. Slowest : a \div Period \in 0 .. n
    OBVIOUS
  <2>3. n \in Nat
    OBVIOUS
  <2>4. \A c, d \in calls : period[c] = period[d] => c = d
    BY <2>1, PeriodsApart DEF SpacedInv
  <2>5. period \in Injection(calls, 0 .. n)
    <3>1. period \in [calls -> 0 .. n]
      BY <2>1, <2>2
    <3>2. IsInjective(period)
      BY <2>4 DEF IsInjective
    <3>3. QED
      BY <3>1, <3>2 DEF Injection
  <2>6. IsFiniteSet(0 .. n) /\ Cardinality(0 .. n) = n + 1
    <3> HIDE DEF n
    <3>1. QED
      BY <2>3, FS_Interval
  <2>7. QED
    BY <2>5, <2>6, FS_Injection DEF CallsBounded, ExistsInjection
<1>2. QED
  BY <1>1, TypeCorrect, SpacedCorrect, PTL
=============================================================================
