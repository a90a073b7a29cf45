-------------------------- MODULE Movements_proofs --------------------------
(***************************************************************************)
(* Proofs about the movement store, for any number of processes, any set   *)
(* of requests and any number of runs, and for both modes of the database  *)
(* and of mysqli.                                                          *)
(***************************************************************************)
EXTENDS Movements, FiniteSetTheorems, TLAPS

USE RequestsAssumption, ColumnAssumption, ModeAssumption

\* Appending to a sequence adds one element.
LEMMA ElementsAppend ==
  ASSUME NEW S, NEW s \in Seq(S), NEW x \in S
  PROVE  Elements(Append(s, x)) = Elements(s) \cup {x}
<1> DEFINE t == Append(s, x)
<1>1. /\ Len(s) \in Nat /\ Len(t) = Len(s) + 1 /\ t[Len(s) + 1] = x
      /\ \A i \in 1 .. Len(s) : t[i] = s[i]
  OBVIOUS
<1>2. 1 .. Len(t) = 1 .. Len(s) \cup {Len(s) + 1}
  BY <1>1
<1>3. QED
  BY <1>1, <1>2 DEF Elements

\* What the database stores of a request fits its columns.
LEMMA RowTypes ==
  ASSUME NEW r \in Requests
  PROVE  /\ PositronRow(r) \in PositronRows
         /\ GeopherRow(r) \in GeopherRows
<1>1. /\ r.at \in Nat /\ r.alt \in Nat /\ r.given \subseteq Optional
  OBVIOUS
<1>2. \A v \in Nat : Rounded(v) \in Nat
  <2> SUFFICES ASSUME NEW v \in Nat PROVE Rounded(v) \in Nat
    OBVIOUS
  <2>1. Precision \div 2 \in Nat
    OBVIOUS
  <2>2. v + Precision \div 2 \in Nat
    BY <2>1
  <2>3. (v + Precision \div 2) \div Precision \in Nat
    BY <2>2
  <2>4. QED
    BY <2>3 DEF Rounded
<1>3. Altitude(r) \in Nat
  BY <1>1 DEF Altitude
<1>4. StoredAltitude(r) \in Nat
  BY <1>2, <1>3 DEF StoredAltitude
<1>5. ("size" \in r.given) \in BOOLEAN
  OBVIOUS
<1>6. QED
  BY <1>1, <1>2, <1>4, <1>5 DEF PositronRow, GeopherRow, PositronRows, GeopherRows

\* A process that is not idle works on a request.
LEMMA JobHasRequest ==
  ASSUME NEW j \in {Idle} \cup Jobs
  PROVE  j.step # "idle" => j \in Jobs /\ j.req \in Requests
<1>1. Idle.step = "idle"
  BY DEF Idle
<1>2. QED
  BY <1>1 DEF Jobs

\* Every variable keeps its type: the type invariant of the movement runs.
THEOREM TypeCorrect == Spec => []TypeOK
<1>1. Init => TypeOK
  BY DEF Init, TypeOK
<1>2. TypeOK /\ [Next]_vars => TypeOK'
  <2> SUFFICES ASSUME TypeOK, [Next]_vars PROVE TypeOK'
    OBVIOUS
  <2> USE DEF TypeOK
  <2>1. CASE UNCHANGED vars
    BY <2>1 DEF vars
  <2>2. ASSUME NEW h \in Handlers, NEW r \in Requests, Start(h, r) PROVE TypeOK'
    <3>1. [step |-> "log", req |-> r] \in Jobs
      BY DEF Jobs, Steps
    <3>2. QED
      BY <2>2, <3>1 DEF Start, First
  <2>3. ASSUME NEW h \in Handlers, handler[h].step # "idle",
               NEW s \in Steps \ {"idle"}, Goto(h, s)
        PROVE  handler' \in [Handlers -> {Idle} \cup Jobs]
    <3>1. [step |-> s, req |-> handler[h].req] \in Jobs
      BY <2>3, JobHasRequest DEF Jobs
    <3>2. QED
      BY <2>3, <3>1 DEF Goto
  <2>4. ASSUME NEW h \in Handlers, End(h)
        PROVE  handler' \in [Handlers -> {Idle} \cup Jobs]
    BY <2>4 DEF End
  <2>5. ASSUME NEW h \in Handlers, Log(h) PROVE TypeOK'
    <3>1. handler[h].req \in Requests
      BY <2>5, JobHasRequest DEF Log
    <3>2. handler' \in [Handlers -> {Idle} \cup Jobs]
      BY <2>3, <2>5 DEF Log, Steps
    <3>3. QED
      BY <2>5, <3>1, <3>2 DEF Log
  <2>12. ASSUME NEW h \in Handlers, LogFails(h) PROVE TypeOK'
    <3>1. handler[h].req \in Requests
      BY <2>12, JobHasRequest DEF LogFails
    <3>2. handler' \in [Handlers -> {Idle} \cup Jobs]
      BY <2>3, <2>12 DEF LogFails, Steps
    <3>3. QED
      BY <2>12, <3>1, <3>2 DEF LogFails
  <2>6. ASSUME NEW h \in Handlers, StorePositron(h) PROVE TypeOK'
    <3>1. PositronRow(handler[h].req) \in PositronRows
      BY <2>6, JobHasRequest, RowTypes DEF StorePositron
    <3>2. positron' \in Seq(PositronRows)
      BY <2>6, <3>1 DEF StorePositron
    <3>3. handler' \in [Handlers -> {Idle} \cup Jobs]
      BY <2>3, <2>6 DEF StorePositron, Steps
    <3>4. QED
      BY <2>6, <3>2, <3>3 DEF StorePositron
  <2>7. ASSUME NEW h \in Handlers, StoreGeopher(h) PROVE TypeOK'
    <3>1. GeopherRow(handler[h].req) \in GeopherRows
      BY <2>7, JobHasRequest, RowTypes DEF StoreGeopher
    <3>2. geopher' \in Seq(GeopherRows)
      BY <2>7, <3>1 DEF StoreGeopher
    <3>3. handler' \in [Handlers -> {Idle} \cup Jobs]
      BY <2>3, <2>7 DEF StoreGeopher, Steps
    <3>4. QED
      BY <2>7, <3>2, <3>3 DEF StoreGeopher
  <2>8. ASSUME NEW h \in Handlers, QueryFails(h) PROVE TypeOK'
    BY <2>3, <2>4, <2>8 DEF QueryFails, AfterFailure, Steps
  <2>9. ASSUME NEW h \in Handlers, SendPage(h) PROVE TypeOK'
    <3>1. handler[h].req \in Requests
      BY <2>9, JobHasRequest DEF SendPage
    <3>2. QED
      BY <2>4, <2>9, <3>1 DEF SendPage
  <2>10. ASSUME NEW h \in Handlers, Die(h) PROVE TypeOK'
    BY <2>4, <2>10 DEF Die
  <2>11. QED
    BY <2>1, <2>2, <2>5, <2>6, <2>7, <2>8, <2>9, <2>10, <2>12 DEF Next
<1>3. QED
  BY <1>1, <1>2, PTL DEF Spec

\* What was pushed are requests.
LEMMA PushedTypes ==
  ASSUME TypeOK
  PROVE  Pushed \subseteq Requests
<1>1. ASSUME NEW s \in Seq(Requests) PROVE Elements(s) \subseteq Requests
  BY DEF Elements
<1>2. QED
  BY <1>1 DEF Pushed, TypeOK

\* What one process does to another: nothing.
LEMMA OthersKeepTheirStep ==
  ASSUME TypeOK, NEW h \in Handlers, NEW g \in Handlers, g # h,
         \/ \E s \in Steps : Goto(h, s)
         \/ End(h)
         \/ \E r \in Requests : Start(h, r)
  PROVE  handler'[g] = handler[g]
BY DEF TypeOK, Goto, End, Start

\* The one line or row that each step adds.
LEMMA Effects ==
  ASSUME TypeOK, NEW h \in Handlers
  PROVE  /\ Log(h) \/ LogFails(h) => Pushed' = Pushed \cup {handler[h].req}
         /\ StorePositron(h) =>
              Elements(positron') = Elements(positron) \cup {PositronRow(handler[h].req)}
         /\ StoreGeopher(h) =>
              Elements(geopher') = Elements(geopher) \cup {GeopherRow(handler[h].req)}
<1> USE DEF TypeOK
<1>1. ASSUME Log(h) \/ LogFails(h) PROVE Pushed' = Pushed \cup {handler[h].req}
  <2>1. handler[h].req \in Requests
    BY <1>1, JobHasRequest DEF Log, LogFails
  <2>2. CASE Log(h)
    <3>1. Elements(log') = Elements(log) \cup {handler[h].req} /\ lost' = lost
      BY <2>1, <2>2, ElementsAppend DEF Log
    <3>2. QED
      BY <3>1 DEF Pushed
  <2>3. CASE LogFails(h)
    <3>1. Elements(lost') = Elements(lost) \cup {handler[h].req} /\ log' = log
      BY <2>1, <2>3, ElementsAppend DEF LogFails
    <3>2. QED
      BY <3>1 DEF Pushed
  <2>4. QED
    BY <1>1, <2>2, <2>3
<1>2. ASSUME StorePositron(h)
      PROVE  Elements(positron') = Elements(positron) \cup {PositronRow(handler[h].req)}
  <2>1. PositronRow(handler[h].req) \in PositronRows
    BY <1>2, JobHasRequest, RowTypes DEF StorePositron
  <2>2. QED
    BY <1>2, <2>1, ElementsAppend DEF StorePositron
<1>3. ASSUME StoreGeopher(h)
      PROVE  Elements(geopher') = Elements(geopher) \cup {GeopherRow(handler[h].req)}
  <2>1. GeopherRow(handler[h].req) \in GeopherRows
    BY <1>3, JobHasRequest, RowTypes DEF StoreGeopher
  <2>2. QED
    BY <1>3, <2>1, ElementsAppend DEF StoreGeopher
<1>4. QED
  BY <1>1, <1>2, <1>3

\* Whatever happens, nothing disappears from the log or from a table.
LEMMA StoresGrow ==
  ASSUME TypeOK, [Next]_vars
  PROVE  /\ Pushed \subseteq Pushed'
         /\ Elements(positron) \subseteq Elements(positron')
         /\ Elements(geopher) \subseteq Elements(geopher')
<1>1. CASE UNCHANGED <<log, lost, positron, geopher>>
  BY <1>1 DEF Pushed
<1>2. ASSUME NEW h \in Handlers,
             Log(h) \/ LogFails(h) \/ StorePositron(h) \/ StoreGeopher(h)
      PROVE  /\ Pushed \subseteq Pushed'
             /\ Elements(positron) \subseteq Elements(positron')
             /\ Elements(geopher) \subseteq Elements(geopher')
  BY <1>2, Effects DEF Log, LogFails, StorePositron, StoreGeopher, Pushed
<1>3. QED
  BY <1>1, <1>2 DEF Next, vars, Start, QueryFails, SendPage, Die

\* In terms of rows, the reference of Geopher.sql reads as follows, before and
\* after a step.
RowsRefer(geo, pos) ==
  \A row \in geo : \E p \in pos : p.at = row.at /\ p.alt = row.alt

LEMMA ReferenceOfRows ==
  /\ GeopherHasPositron <=> RowsRefer(Elements(geopher), Elements(positron))
  /\ GeopherHasPositron' <=> RowsRefer(Elements(geopher'), Elements(positron'))
<1>1. ASSUME NEW geo, NEW pos
      PROVE  (\A i \in 1 .. Len(geo) : \E j \in 1 .. Len(pos) :
                pos[j].at = geo[i].at /\ pos[j].alt = geo[i].alt)
               <=> RowsRefer(Elements(geo), Elements(pos))
  <2> DEFINE Refers(i) == \E j \in 1 .. Len(pos) :
                            pos[j].at = geo[i].at /\ pos[j].alt = geo[i].alt
  <2>1. ASSUME NEW i \in 1 .. Len(geo)
        PROVE  Refers(i) <=> \E p \in Elements(pos) :
                               p.at = geo[i].at /\ p.alt = geo[i].alt
    BY Zenon DEF Elements
  <2>2. (\A i \in 1 .. Len(geo) : Refers(i))
          <=> \A i \in 1 .. Len(geo) : \E p \in Elements(pos) :
                p.at = geo[i].at /\ p.alt = geo[i].alt
    BY <2>1, Zenon
  <2>3. RowsRefer(Elements(geo), Elements(pos))
          <=> \A i \in 1 .. Len(geo) : \E p \in Elements(pos) :
                p.at = geo[i].at /\ p.alt = geo[i].alt
    <3> DEFINE Has(row) == \E p \in Elements(pos) : p.at = row.at /\ p.alt = row.alt
    <3>1. (\A row \in Elements(geo) : Has(row)) <=> \A i \in 1 .. Len(geo) : Has(geo[i])
      <4> HIDE DEF Has
      <4>1. QED
        BY DEF Elements
    <3>2. QED
      BY <3>1 DEF RowsRefer
  <2>4. QED
    BY <2>2, <2>3
<1>2. QED
  BY <1>1, Zenon DEF GeopherHasPositron

\* A process whose own step is unchanged keeps what it knows.
LEMMA KnowsStable ==
  ASSUME TypeOK, [Next]_vars, NEW g \in Handlers, handler'[g] = handler[g], Knows(g)
  PROVE  Knows(g)'
BY StoresGrow DEF Knows

\* A process that ends, and one that starts, has nothing to know.
LEMMA NothingToKnow ==
  ASSUME NEW h \in Handlers, handler'[h].step \in {"idle", "log"}
  PROVE  Knows(h)'
BY DEF Knows

\* Each step leaves every process with what it knows.
LEMMA StepInvKept ==
  ASSUME TypeOK, StepInv, [Next]_vars
  PROVE  StepInv'
<1>1. CASE UNCHANGED vars
  BY <1>1, KnowsStable DEF StepInv, vars
<1>2. ASSUME NEW h \in Handlers, Knows(h)',
             \A g \in Handlers \ {h} : handler'[g] = handler[g]
      PROVE  StepInv'
  BY <1>2, KnowsStable DEF StepInv
<1>3. ASSUME NEW h \in Handlers, NEW s \in Steps, Goto(h, s)
      PROVE  /\ handler'[h] = [step |-> s, req |-> handler[h].req]
             /\ \A g \in Handlers \ {h} : handler'[g] = handler[g]
  BY <1>3 DEF Goto, TypeOK
<1>4. ASSUME NEW h \in Handlers, End(h) PROVE StepInv'
  <2>1. handler'[h].step = "idle"
    BY <1>4 DEF End, Idle, TypeOK
  <2>2. QED
    BY <1>2, <1>4, <2>1, NothingToKnow, OthersKeepTheirStep
<1>5. ASSUME NEW h \in Handlers, NEW r \in Requests, Start(h, r) PROVE StepInv'
  <2>1. handler'[h].step = "log"
    BY <1>5 DEF Start, First, TypeOK
  <2>2. QED
    BY <1>2, <1>5, <2>1, NothingToKnow, OthersKeepTheirStep
<1>6. ASSUME NEW h \in Handlers, Log(h) \/ LogFails(h) PROVE StepInv'
  <2>1. handler'[h] = [step |-> "positron", req |-> handler[h].req]
    BY <1>3, <1>6 DEF Log, LogFails, Steps
  <2>2. handler[h].req \in Pushed'
    BY <1>6, Effects
  <2>3. Knows(h)'
    BY <2>1, <2>2 DEF Knows
  <2>4. QED
    BY <1>2, <1>3, <1>6, <2>3 DEF Log, LogFails, Steps
<1>7. ASSUME NEW h \in Handlers, StorePositron(h) PROVE StepInv'
  <2>1. handler'[h] = [step |-> "geopher", req |-> handler[h].req]
    BY <1>3, <1>7 DEF StorePositron, Steps
  <2>2. PositronRow(handler[h].req) \in Elements(positron')
    BY <1>7, Effects
  <2>3. handler[h].req \in Pushed'
    BY <1>7, StoresGrow DEF StepInv, Knows, StorePositron
  <2>4. Knows(h)'
    BY <2>1, <2>2, <2>3 DEF Knows, PositronRow
  <2>5. QED
    BY <1>2, <1>3, <1>7, <2>4 DEF StorePositron, Steps
<1>8. ASSUME NEW h \in Handlers, StoreGeopher(h) PROVE StepInv'
  <2>1. handler'[h] = [step |-> "page", req |-> handler[h].req]
    BY <1>3, <1>8 DEF StoreGeopher, Steps
  <2>2. GeopherRow(handler[h].req) \in Elements(geopher')
    BY <1>8, Effects
  <2>3. /\ handler[h].req \in Pushed'
        /\ Throws => PositronRow(handler[h].req) \in Elements(positron')
    BY <1>8, StoresGrow DEF StepInv, Knows, StoreGeopher
  <2>4. Knows(h)'
    BY <2>1, <2>2, <2>3 DEF Knows
  <2>5. QED
    BY <1>2, <1>3, <1>8, <2>4 DEF StoreGeopher, Steps
<1>9. ASSUME NEW h \in Handlers, QueryFails(h) PROVE StepInv'
  <2>1. CASE End(h)
    BY <1>4, <2>1
  <2>2. ASSUME ~Throws, NEW s \in {"geopher", "page"}, Goto(h, s) PROVE StepInv'
    <3>1. handler'[h] = [step |-> s, req |-> handler[h].req]
      BY <1>3, <2>2 DEF Steps
    <3>2. handler[h].req \in Pushed'
      BY <1>9, StoresGrow DEF StepInv, Knows, QueryFails
    <3>3. Knows(h)'
      BY <2>2, <3>1, <3>2 DEF Knows
    <3>4. QED
      BY <1>2, <1>3, <2>2, <3>3 DEF Steps
  <2>3. QED
    BY <1>9, <2>1, <2>2 DEF QueryFails, AfterFailure
<1>10. QED
  BY <1>1, <1>4, <1>5, <1>6, <1>7, <1>8, <1>9 DEF Next, SendPage, Die

\* The tables and the answers follow what the processes know.
THEOREM StoreCorrect == Spec => []StoreInv
<1>1. Init => StoreInv
  BY DEF Init, StoreInv, Pushed, StepInv, Knows, Idle, RowsAreLogged, AnsweredIsStored,
         GeopherHasPositron, Elements
<1>2. TypeOK /\ StoreInv /\ [Next]_vars => StoreInv'
  <2> SUFFICES ASSUME TypeOK, StoreInv, [Next]_vars PROVE StoreInv'
    OBVIOUS
  <2>1. StepInv'
    BY StepInvKept DEF StoreInv
  <2>2. ASSUME UNCHANGED positron, UNCHANGED geopher, UNCHANGED answered
        PROVE  StoreInv'
    BY <2>1, <2>2, StoresGrow
       DEF StoreInv, RowsAreLogged, AnsweredIsStored, GeopherHasPositron
  <2>3. ASSUME NEW h \in Handlers, StorePositron(h) PROVE StoreInv'
    <3> DEFINE r == handler[h].req
    <3>1. Elements(positron') = Elements(positron) \cup {PositronRow(r)}
      BY <2>3, Effects
    <3>2. r \in Pushed
      BY <2>3 DEF StoreInv, StepInv, Knows, StorePositron
    <3>3. RowsAreLogged'
      BY <2>3, <3>1, <3>2 DEF StoreInv, RowsAreLogged, Pushed, StorePositron
    <3>4. AnsweredIsStored'
      BY <2>3, <3>1 DEF StoreInv, AnsweredIsStored, StorePositron
    <3>5. (Throws => GeopherHasPositron)'
      BY <2>3, <3>1, ReferenceOfRows DEF StoreInv, StorePositron, RowsRefer
    <3>6. QED
      BY <2>1, <3>3, <3>4, <3>5 DEF StoreInv
  <2>4. ASSUME NEW h \in Handlers, StoreGeopher(h) PROVE StoreInv'
    <3> DEFINE r == handler[h].req
    <3>1. Elements(geopher') = Elements(geopher) \cup {GeopherRow(r)}
      BY <2>4, Effects
    <3>2. r \in Pushed /\ (Throws => PositronRow(r) \in Elements(positron))
      BY <2>4 DEF StoreInv, StepInv, Knows, StoreGeopher
    <3>3. RowsAreLogged'
      BY <2>4, <3>1, <3>2 DEF StoreInv, RowsAreLogged, Pushed, StoreGeopher
    <3>4. AnsweredIsStored'
      BY <2>4, <3>1 DEF StoreInv, AnsweredIsStored, StoreGeopher
    <3>5. (Throws => GeopherHasPositron)'
      <4>1. PositronRow(r).at = GeopherRow(r).at /\ PositronRow(r).alt = GeopherRow(r).alt
        BY DEF PositronRow, GeopherRow
      <4>2. QED
        BY <2>4, <3>1, <3>2, <4>1, ReferenceOfRows
           DEF StoreInv, StoreGeopher, RowsRefer
    <3>6. QED
      BY <2>1, <3>3, <3>4, <3>5 DEF StoreInv
  <2>5. ASSUME NEW h \in Handlers, SendPage(h) PROVE StoreInv'
    <3>1. Throws => /\ PositronRow(handler[h].req) \in Elements(positron)
                    /\ GeopherRow(handler[h].req) \in Elements(geopher)
      BY <2>5 DEF StoreInv, StepInv, Knows, SendPage
    <3>2. AnsweredIsStored'
      BY <2>5, <3>1 DEF StoreInv, AnsweredIsStored, SendPage
    <3>3. QED
      BY <2>1, <2>5, <3>2 DEF StoreInv, RowsAreLogged, Pushed, GeopherHasPositron, SendPage
  <2>6. QED
    BY <2>2, <2>3, <2>4, <2>5 DEF Next, vars, Start, Log, LogFails, QueryFails, Die
<1>3. QED
  BY <1>1, <1>2, TypeCorrect, PTL DEF Spec

\* A row is the image of a request that was logged, or whose line could not be
\* written, whatever fails or dies.
THEOREM RowsAreLoggedHolds == Spec => []RowsAreLogged
BY StoreCorrect, PTL DEF StoreInv

\* Where mysqli throws, who got the page has both rows.
THEOREM AnsweredIsStoredHolds == Spec => []AnsweredIsStored
BY StoreCorrect, PTL DEF StoreInv

\* Where mysqli throws, every row of Geopher has its row of Positron.
THEOREM ReferencesHold == Spec => [](Throws => GeopherHasPositron)
BY StoreCorrect, PTL DEF StoreInv

\* Where mysqli throws, a movement that was answered is found where its
\* rounded coordinates are.
THEOREM AnsweredIsFoundHolds == Spec => []AnsweredIsFound
<1>1. AnsweredIsStored => AnsweredIsFound
  BY DEF AnsweredIsStored, AnsweredIsFound, Found, PositronRow
<1>2. QED
  BY <1>1, AnsweredIsStoredHolds, PTL

\* How a step of one process changes the number of those in a set.
LEMMA Moves ==
  ASSUME NEW h \in Handlers, NEW A \in SUBSET Handlers, NEW B \in SUBSET Handlers,
         \A g \in Handlers \ {h} : g \in A <=> g \in B
  PROVE  /\ Cardinality(A) \in Nat /\ Cardinality(B) \in Nat
         /\ (h \in A <=> h \in B) => Cardinality(B) = Cardinality(A)
         /\ h \notin A /\ h \in B => Cardinality(B) = Cardinality(A) + 1
         /\ h \in A /\ h \notin B => Cardinality(B) = Cardinality(A) - 1
<1>1. /\ IsFiniteSet(A) /\ IsFiniteSet(B)
      /\ Cardinality(A) \in Nat /\ Cardinality(B) \in Nat
  BY HandlersAssumption, FS_Subset, FS_CardinalityType
<1>2. CASE h \in A <=> h \in B
  <2>1. B = A
    BY <1>2
  <2>2. QED
    BY <1>1, <1>2, <2>1
<1>3. CASE h \notin A /\ h \in B
  <2>1. B = A \cup {h}
    BY <1>3
  <2>2. QED
    BY <1>1, <1>3, <2>1, FS_AddElement
<1>4. CASE h \in A /\ h \notin B
  <2>1. B = A \ {h}
    BY <1>4
  <2>2. QED
    BY <1>1, <1>4, <2>1, FS_RemoveElement
<1>5. QED
  BY <1>2, <1>3, <1>4

\* One index more.
LEMMA OneMore ==
  ASSUME NEW n \in Nat, NEW A \in SUBSET (1 .. n), NEW B \in SUBSET (1 .. n + 1),
         \A i \in 1 .. n : i \in A <=> i \in B
  PROVE  /\ Cardinality(A) \in Nat
         /\ Cardinality(B) = IF n + 1 \in B THEN Cardinality(A) + 1 ELSE Cardinality(A)
<1>0. IsFiniteSet(1 .. n) /\ (1 .. n + 1) = (1 .. n) \cup {n + 1} /\ n + 1 \notin 1 .. n
  <2>1. IsFiniteSet(1 .. n)
    BY FS_Interval
  <2>2. (1 .. n + 1) = (1 .. n) \cup {n + 1} /\ n + 1 \notin 1 .. n
    OBVIOUS
  <2>3. QED
    BY <2>1, <2>2
<1>1. IsFiniteSet(A) /\ Cardinality(A) \in Nat
  BY <1>0, FS_Subset, FS_CardinalityType
<1>2. CASE n + 1 \in B
  <2> DEFINE I == 1 .. n
             k == n + 1
  <2>0. A \in SUBSET I /\ B \in SUBSET (I \cup {k}) /\ k \notin I /\ k \in B
        /\ \A i \in I : i \in A <=> i \in B
    BY <1>0, <1>2
  <2> HIDE DEF I, k
  <2>1. B = A \cup {k} /\ k \notin A
    BY <2>0
  <2>2. QED
    BY <1>1, <2>0, <2>1, FS_AddElement DEF k
<1>3. CASE n + 1 \notin B
  <2>1. B = A
    <3> DEFINE I == 1 .. n
               k == n + 1
    <3>1. A \in SUBSET I /\ B \in SUBSET (I \cup {k}) /\ k \notin B
          /\ \A i \in I : i \in A <=> i \in B
      BY <1>0, <1>3
    <3> HIDE DEF I, k
    <3>2. QED
      BY <3>1
  <2>2. QED
    BY <1>1, <1>3, <2>1
<1>4. QED
  BY <1>2, <1>3

\* What appending does to the number of copies of a row.
LEMMA CopiesAppend ==
  ASSUME NEW S, NEW s \in Seq(S), NEW x \in S, NEW row
  PROVE  /\ Copies(s, row) \in Nat
         /\ Copies(Append(s, x), row) =
              IF x = row THEN Copies(s, row) + 1 ELSE Copies(s, row)
<1> DEFINE t == Append(s, x)
           n == Len(s)
           A == {i \in 1 .. Len(s) : s[i] = row}
           B == {i \in 1 .. Len(t) : t[i] = row}
<1>1. /\ n \in Nat /\ Len(t) = n + 1 /\ t[n + 1] = x
      /\ \A i \in 1 .. n : t[i] = s[i]
  OBVIOUS
<1>2. /\ A \in SUBSET (1 .. n) /\ B \in SUBSET (1 .. n + 1)
      /\ \A i \in 1 .. n : i \in A <=> i \in B
      /\ n + 1 \in B <=> x = row
  BY <1>1
<1>3. Copies(s, row) = Cardinality(A) /\ Copies(t, row) = Cardinality(B)
  BY DEF Copies
<1> HIDE DEF A, B, n, t
<1>4. QED
  BY <1>1, <1>2, <1>3, OneMore DEF t

\* What one more line does to the number of lines that make a row.
LEMMA InAppend ==
  ASSUME NEW s \in Seq(Requests), NEW r \in Requests, NEW row
  PROVE  /\ PositronIn(s, row) \in Nat /\ GeopherIn(s, row) \in Nat
         /\ PositronIn(Append(s, r), row) =
              IF PositronRow(r) = row THEN PositronIn(s, row) + 1 ELSE PositronIn(s, row)
         /\ GeopherIn(Append(s, r), row) =
              IF GeopherRow(r) = row THEN GeopherIn(s, row) + 1 ELSE GeopherIn(s, row)
<1> DEFINE t == Append(s, r)
           n == Len(s)
<1>1. /\ n \in Nat /\ Len(t) = n + 1 /\ t[n + 1] = r
      /\ \A i \in 1 .. n : t[i] = s[i]
  OBVIOUS
<1>2. /\ PositronIn(s, row) \in Nat
      /\ PositronIn(t, row) =
           IF PositronRow(r) = row THEN PositronIn(s, row) + 1 ELSE PositronIn(s, row)
  <2> DEFINE A == {i \in 1 .. Len(s) : PositronRow(s[i]) = row}
             B == {i \in 1 .. Len(t) : PositronRow(t[i]) = row}
  <2> HIDE DEF t
  <2>1. /\ A \in SUBSET (1 .. n) /\ B \in SUBSET (1 .. n + 1)
        /\ \A i \in 1 .. n : i \in A <=> i \in B
        /\ n + 1 \in B <=> PositronRow(r) = row
    BY <1>1
  <2>2. PositronIn(s, row) = Cardinality(A) /\ PositronIn(t, row) = Cardinality(B)
    BY DEF PositronIn
  <2> HIDE DEF A, B, n
  <2>3. /\ Cardinality(A) \in Nat
        /\ Cardinality(B) = IF n + 1 \in B THEN Cardinality(A) + 1 ELSE Cardinality(A)
    BY <1>1, <2>1, OneMore
  <2>4. QED
    BY <2>1, <2>2, <2>3
<1>3. /\ GeopherIn(s, row) \in Nat
      /\ GeopherIn(t, row) =
           IF GeopherRow(r) = row THEN GeopherIn(s, row) + 1 ELSE GeopherIn(s, row)
  <2> DEFINE A == {i \in 1 .. Len(s) : GeopherRow(s[i]) = row}
             B == {i \in 1 .. Len(t) : GeopherRow(t[i]) = row}
  <2> HIDE DEF t
  <2>1. /\ A \in SUBSET (1 .. n) /\ B \in SUBSET (1 .. n + 1)
        /\ \A i \in 1 .. n : i \in A <=> i \in B
        /\ n + 1 \in B <=> GeopherRow(r) = row
    BY <1>1
  <2>2. GeopherIn(s, row) = Cardinality(A) /\ GeopherIn(t, row) = Cardinality(B)
    BY DEF GeopherIn
  <2> HIDE DEF A, B, n
  <2>3. /\ Cardinality(A) \in Nat
        /\ Cardinality(B) = IF n + 1 \in B THEN Cardinality(A) + 1 ELSE Cardinality(A)
    BY <1>1, <2>1, OneMore
  <2>4. QED
    BY <2>1, <2>2, <2>3
<1>4. QED
  BY <1>2, <1>3

\* A line that is written, or lost, counts once.
LEMMA LinesAppend ==
  ASSUME TypeOK, NEW r \in Requests, NEW row,
         \/ log' = Append(log, r) /\ lost' = lost
         \/ lost' = Append(lost, r) /\ log' = log
  PROVE  /\ PositronLines(row)' =
              IF PositronRow(r) = row THEN PositronLines(row) + 1 ELSE PositronLines(row)
         /\ GeopherLines(row)' =
              IF GeopherRow(r) = row THEN GeopherLines(row) + 1 ELSE GeopherLines(row)
<1>1. log \in Seq(Requests) /\ lost \in Seq(Requests)
  BY DEF TypeOK
<1>2. /\ PositronIn(log, row) \in Nat /\ PositronIn(lost, row) \in Nat
      /\ GeopherIn(log, row) \in Nat /\ GeopherIn(lost, row) \in Nat
  BY <1>1, InAppend
<1>3. CASE log' = Append(log, r) /\ lost' = lost
  <2>1. /\ PositronIn(log', row) =
             IF PositronRow(r) = row THEN PositronIn(log, row) + 1 ELSE PositronIn(log, row)
        /\ GeopherIn(log', row) =
             IF GeopherRow(r) = row THEN GeopherIn(log, row) + 1 ELSE GeopherIn(log, row)
    BY <1>1, <1>3, InAppend
  <2>2. QED
    BY <1>2, <1>3, <2>1 DEF PositronLines, GeopherLines
<1>4. CASE lost' = Append(lost, r) /\ log' = log
  <2>1. /\ PositronIn(lost', row) =
             IF PositronRow(r) = row THEN PositronIn(lost, row) + 1 ELSE PositronIn(lost, row)
        /\ GeopherIn(lost', row) =
             IF GeopherRow(r) = row THEN GeopherIn(lost, row) + 1 ELSE GeopherIn(lost, row)
    BY <1>1, <1>4, InAppend
  <2>2. QED
    BY <1>2, <1>4, <2>1 DEF PositronLines, GeopherLines
<1>5. QED
  BY <1>3, <1>4

\* All that is counted is finite.
LEMMA CountTypes ==
  ASSUME TypeOK, NEW row
  PROVE  /\ Copies(positron, row) \in Nat /\ Copies(geopher, row) \in Nat
         /\ PositronLines(row) \in Nat /\ GeopherLines(row) \in Nat
         /\ Cardinality(PositronDue(row)) \in Nat /\ Cardinality(GeopherDue(row)) \in Nat
<1>1. ASSUME NEW n \in Nat, NEW A \in SUBSET (1 .. n) PROVE Cardinality(A) \in Nat
  <2>1. IsFiniteSet(1 .. n)
    BY FS_Interval
  <2>2. QED
    BY <2>1, FS_Subset, FS_CardinalityType
<1>2. Len(positron) \in Nat /\ Len(geopher) \in Nat
  BY DEF TypeOK
<1>3. Copies(positron, row) \in Nat /\ Copies(geopher, row) \in Nat
  <2>1. /\ {i \in 1 .. Len(positron) : positron[i] = row} \in SUBSET (1 .. Len(positron))
        /\ {i \in 1 .. Len(geopher) : geopher[i] = row} \in SUBSET (1 .. Len(geopher))
    OBVIOUS
  <2>2. QED
    BY <1>1, <1>2, <2>1 DEF Copies
<1>4. PositronLines(row) \in Nat /\ GeopherLines(row) \in Nat
  <2>1. ASSUME NEW s \in Seq(Requests)
        PROVE  PositronIn(s, row) \in Nat /\ GeopherIn(s, row) \in Nat
    <3>1. /\ {i \in 1 .. Len(s) : PositronRow(s[i]) = row} \in SUBSET (1 .. Len(s))
          /\ {i \in 1 .. Len(s) : GeopherRow(s[i]) = row} \in SUBSET (1 .. Len(s))
      OBVIOUS
    <3>2. Len(s) \in Nat
      OBVIOUS
    <3>3. QED
      BY <1>1, <3>1, <3>2 DEF PositronIn, GeopherIn
  <2>2. /\ PositronIn(log, row) \in Nat /\ GeopherIn(log, row) \in Nat
        /\ PositronIn(lost, row) \in Nat /\ GeopherIn(lost, row) \in Nat
    BY <2>1 DEF TypeOK
  <2>3. QED
    BY <2>2 DEF PositronLines, GeopherLines
<1>5. Cardinality(PositronDue(row)) \in Nat /\ Cardinality(GeopherDue(row)) \in Nat
  BY HandlersAssumption, FS_Subset, FS_CardinalityType DEF PositronDue, GeopherDue
<1>6. QED
  BY <1>3, <1>4, <1>5

\* Where a step takes its own process, and that it takes no other.
LEMMA Targets ==
  ASSUME TypeOK, NEW h \in Handlers
  PROVE  /\ \A s : Goto(h, s) => handler'[h].step = s
         /\ End(h) => handler'[h].step = "idle"
         /\ \A r : Start(h, r) => handler'[h].step = "log"
         /\ (\E s : Goto(h, s)) \/ End(h) \/ (\E r : Start(h, r))
              => \A g \in Handlers \ {h} : handler'[g] = handler[g]
<1> USE DEF TypeOK
<1>1. \A s : Goto(h, s) => /\ handler'[h].step = s
                            /\ \A g \in Handlers \ {h} : handler'[g] = handler[g]
  BY DEF Goto
<1>2. End(h) => /\ handler'[h].step = "idle"
                /\ \A g \in Handlers \ {h} : handler'[g] = handler[g]
  BY DEF End, Idle
<1>3. \A r : Start(h, r) => /\ handler'[h].step = "log"
                             /\ \A g \in Handlers \ {h} : handler'[g] = handler[g]
  BY DEF Start, First
<1>4. QED
  BY <1>1, <1>2, <1>3

\* Each step keeps the rows of Positron accounted for.
LEMMA PositronStep ==
  ASSUME TypeOK, [Next]_vars, NEW r \in Requests, PositronCounted(PositronRow(r))
  PROVE  PositronCounted(PositronRow(r))'
<1> DEFINE row == PositronRow(r)
<1> HIDE DEF row
<1> SUFFICES Copies(positron', row) + Cardinality(PositronDue(row)') <= PositronLines(row)'
  BY DEF PositronCounted, row
<1>0. /\ Copies(positron, row) \in Nat /\ PositronLines(row) \in Nat
      /\ Cardinality(PositronDue(row)) \in Nat
      /\ Copies(positron, row) + Cardinality(PositronDue(row)) <= PositronLines(row)
  BY CountTypes DEF PositronCounted, row
<1>1. ASSUME UNCHANGED <<log, lost>> PROVE PositronLines(row)' = PositronLines(row)
  BY <1>1 DEF PositronLines
<1>2. CASE UNCHANGED vars
  BY <1>0, <1>1, <1>2 DEF PositronDue, vars
<1>3. ASSUME NEW h \in Handlers, \A g \in Handlers \ {h} : handler'[g] = handler[g]
      PROVE  /\ Cardinality(PositronDue(row)') \in Nat
             /\ (h \in PositronDue(row) <=> h \in PositronDue(row)')
                  => Cardinality(PositronDue(row)') = Cardinality(PositronDue(row))
             /\ h \notin PositronDue(row) /\ h \in PositronDue(row)'
                  => Cardinality(PositronDue(row)') = Cardinality(PositronDue(row)) + 1
             /\ h \in PositronDue(row) /\ h \notin PositronDue(row)'
                  => Cardinality(PositronDue(row)') = Cardinality(PositronDue(row)) - 1
  <2>1. /\ PositronDue(row) \in SUBSET Handlers /\ PositronDue(row)' \in SUBSET Handlers
        /\ \A g \in Handlers \ {h} : g \in PositronDue(row) <=> g \in PositronDue(row)'
    BY <1>3 DEF PositronDue
  <2> HIDE DEF row
  <2>2. QED
    BY <2>1, Moves
<1>4. ASSUME NEW h \in Handlers, \A g \in Handlers \ {h} : handler'[g] = handler[g],
             UNCHANGED <<log, lost, positron>>, handler'[h].step # "positron"
      PROVE  Copies(positron', row) + Cardinality(PositronDue(row)') <= PositronLines(row)'
  <2>1. h \notin PositronDue(row)'
    BY <1>4 DEF PositronDue
  <2>2. Cardinality(PositronDue(row)') <= Cardinality(PositronDue(row))
    BY <1>0, <1>3, <1>4, <2>1
  <2>3. QED
    BY <1>0, <1>1, <1>3, <1>4, <2>2
<1>5. ASSUME NEW h \in Handlers, NEW q \in Requests, Start(h, q)
      PROVE  Copies(positron', row) + Cardinality(PositronDue(row)') <= PositronLines(row)'
  BY <1>4, <1>5, Targets DEF Start
<1>6. ASSUME NEW h \in Handlers, Log(h) \/ LogFails(h)
      PROVE  Copies(positron', row) + Cardinality(PositronDue(row)') <= PositronLines(row)'
  <2> DEFINE q == handler[h].req
  <2>1. /\ q \in Requests /\ positron' = positron
        /\ \/ log' = Append(log, q) /\ lost' = lost
           \/ lost' = Append(lost, q) /\ log' = log
    BY <1>6, JobHasRequest DEF Log, LogFails, TypeOK
  <2>2. PositronLines(row)' =
          IF PositronRow(q) = row THEN PositronLines(row) + 1 ELSE PositronLines(row)
    BY <2>1, LinesAppend
  <2>3. h \notin PositronDue(row)
    BY <1>6 DEF Log, LogFails, PositronDue
  <2>4. handler'[h] = [step |-> "positron", req |-> q]
    BY <1>6 DEF Log, LogFails, Goto, TypeOK
  <2>5. h \in PositronDue(row)' <=> PositronRow(q) = row
    BY <2>4 DEF PositronDue
  <2>6. \A g \in Handlers \ {h} : handler'[g] = handler[g]
    BY <1>6, Targets DEF Log, LogFails
  <2> HIDE DEF q
  <2>7. QED
    BY <1>0, <1>3, <2>1, <2>2, <2>3, <2>5, <2>6
<1>7. ASSUME NEW h \in Handlers, StorePositron(h)
      PROVE  Copies(positron', row) + Cardinality(PositronDue(row)') <= PositronLines(row)'
  <2> DEFINE q == handler[h].req
  <2>1. /\ PositronRow(q) \in PositronRows /\ positron \in Seq(PositronRows)
        /\ positron' = Append(positron, PositronRow(q)) /\ log' = log /\ lost' = lost
    BY <1>7, JobHasRequest, RowTypes DEF StorePositron, TypeOK
  <2>2. Copies(positron', row) =
          IF PositronRow(q) = row THEN Copies(positron, row) + 1 ELSE Copies(positron, row)
    BY <2>1, CopiesAppend
  <2>3. h \in PositronDue(row) <=> PositronRow(q) = row
    BY <1>7 DEF StorePositron, PositronDue
  <2>4. h \notin PositronDue(row)'
    BY <1>7, Targets DEF StorePositron, PositronDue
  <2>5. \A g \in Handlers \ {h} : handler'[g] = handler[g]
    BY <1>7, Targets DEF StorePositron
  <2> HIDE DEF q
  <2>6. QED
    BY <1>0, <1>1, <1>3, <2>1, <2>2, <2>3, <2>4, <2>5
<1>8. ASSUME NEW h \in Handlers, StoreGeopher(h) \/ QueryFails(h) \/ SendPage(h) \/ Die(h)
      PROVE  Copies(positron', row) + Cardinality(PositronDue(row)') <= PositronLines(row)'
  <2>1. handler'[h].step # "positron" /\ UNCHANGED <<log, lost, positron>>
    BY <1>8, Targets DEF StoreGeopher, QueryFails, AfterFailure, SendPage, Die
  <2>2. \A g \in Handlers \ {h} : handler'[g] = handler[g]
    BY <1>8, Targets DEF StoreGeopher, QueryFails, AfterFailure, SendPage, Die
  <2>3. QED
    BY <1>4, <2>1, <2>2
<1>9. QED
  BY <1>2, <1>5, <1>6, <1>7, <1>8 DEF Next

\* Each step keeps the rows of Geopher accounted for.
LEMMA GeopherStep ==
  ASSUME TypeOK, [Next]_vars, NEW r \in Requests, GeopherCounted(GeopherRow(r))
  PROVE  GeopherCounted(GeopherRow(r))'
<1> DEFINE row == GeopherRow(r)
<1> HIDE DEF row
<1> SUFFICES Copies(geopher', row) + Cardinality(GeopherDue(row)') <= GeopherLines(row)'
  BY DEF GeopherCounted, row
<1>0. /\ Copies(geopher, row) \in Nat /\ GeopherLines(row) \in Nat
      /\ Cardinality(GeopherDue(row)) \in Nat
      /\ Copies(geopher, row) + Cardinality(GeopherDue(row)) <= GeopherLines(row)
  BY CountTypes DEF GeopherCounted, row
<1>1. ASSUME UNCHANGED <<log, lost>> PROVE GeopherLines(row)' = GeopherLines(row)
  BY <1>1 DEF GeopherLines
<1>2. CASE UNCHANGED vars
  BY <1>0, <1>1, <1>2 DEF GeopherDue, vars
<1>3. ASSUME NEW h \in Handlers, \A g \in Handlers \ {h} : handler'[g] = handler[g]
      PROVE  /\ Cardinality(GeopherDue(row)') \in Nat
             /\ (h \in GeopherDue(row) <=> h \in GeopherDue(row)')
                  => Cardinality(GeopherDue(row)') = Cardinality(GeopherDue(row))
             /\ h \notin GeopherDue(row) /\ h \in GeopherDue(row)'
                  => Cardinality(GeopherDue(row)') = Cardinality(GeopherDue(row)) + 1
             /\ h \in GeopherDue(row) /\ h \notin GeopherDue(row)'
                  => Cardinality(GeopherDue(row)') = Cardinality(GeopherDue(row)) - 1
  <2>1. /\ GeopherDue(row) \in SUBSET Handlers /\ GeopherDue(row)' \in SUBSET Handlers
        /\ \A g \in Handlers \ {h} : g \in GeopherDue(row) <=> g \in GeopherDue(row)'
    BY <1>3 DEF GeopherDue
  <2> HIDE DEF row
  <2>2. QED
    BY <2>1, Moves
<1>4. ASSUME NEW h \in Handlers, \A g \in Handlers \ {h} : handler'[g] = handler[g],
             UNCHANGED <<log, lost, geopher>>,
             handler'[h].step \in {"positron", "geopher"}
               => handler[h].step \in {"positron", "geopher"}
                  /\ handler'[h].req = handler[h].req
      PROVE  Copies(geopher', row) + Cardinality(GeopherDue(row)') <= GeopherLines(row)'
  <2>1. h \in GeopherDue(row)' => h \in GeopherDue(row)
    BY <1>4 DEF GeopherDue
  <2>2. Cardinality(GeopherDue(row)') <= Cardinality(GeopherDue(row))
    BY <1>0, <1>3, <1>4, <2>1
  <2>3. QED
    BY <1>0, <1>1, <1>3, <1>4, <2>2
<1>5. ASSUME NEW h \in Handlers, NEW q \in Requests, Start(h, q)
      PROVE  Copies(geopher', row) + Cardinality(GeopherDue(row)') <= GeopherLines(row)'
  BY <1>4, <1>5, Targets DEF Start
<1>6. ASSUME NEW h \in Handlers, Log(h) \/ LogFails(h)
      PROVE  Copies(geopher', row) + Cardinality(GeopherDue(row)') <= GeopherLines(row)'
  <2> DEFINE q == handler[h].req
  <2>1. /\ q \in Requests /\ geopher' = geopher
        /\ \/ log' = Append(log, q) /\ lost' = lost
           \/ lost' = Append(lost, q) /\ log' = log
    BY <1>6, JobHasRequest DEF Log, LogFails, TypeOK
  <2>2. GeopherLines(row)' =
          IF GeopherRow(q) = row THEN GeopherLines(row) + 1 ELSE GeopherLines(row)
    BY <2>1, LinesAppend
  <2>3. h \notin GeopherDue(row)
    BY <1>6 DEF Log, LogFails, GeopherDue
  <2>4. handler'[h] = [step |-> "positron", req |-> q]
    BY <1>6 DEF Log, LogFails, Goto, TypeOK
  <2>5. h \in GeopherDue(row)' <=> GeopherRow(q) = row
    BY <2>4 DEF GeopherDue
  <2>6. \A g \in Handlers \ {h} : handler'[g] = handler[g]
    BY <1>6, Targets DEF Log, LogFails
  <2> HIDE DEF q
  <2>7. QED
    BY <1>0, <1>3, <2>1, <2>2, <2>3, <2>5, <2>6
<1>7. ASSUME NEW h \in Handlers, StoreGeopher(h)
      PROVE  Copies(geopher', row) + Cardinality(GeopherDue(row)') <= GeopherLines(row)'
  <2> DEFINE q == handler[h].req
  <2>1. /\ GeopherRow(q) \in GeopherRows /\ geopher \in Seq(GeopherRows)
        /\ geopher' = Append(geopher, GeopherRow(q)) /\ log' = log /\ lost' = lost
    BY <1>7, JobHasRequest, RowTypes DEF StoreGeopher, TypeOK
  <2>2. Copies(geopher', row) =
          IF GeopherRow(q) = row THEN Copies(geopher, row) + 1 ELSE Copies(geopher, row)
    BY <2>1, CopiesAppend
  <2>3. h \in GeopherDue(row) <=> GeopherRow(q) = row
    BY <1>7 DEF StoreGeopher, GeopherDue
  <2>4. h \notin GeopherDue(row)'
    BY <1>7, Targets DEF StoreGeopher, GeopherDue
  <2>5. \A g \in Handlers \ {h} : handler'[g] = handler[g]
    BY <1>7, Targets DEF StoreGeopher
  <2> HIDE DEF q
  <2>6. QED
    BY <1>0, <1>1, <1>3, <2>1, <2>2, <2>3, <2>4, <2>5
<1>8. ASSUME NEW h \in Handlers, StorePositron(h) \/ QueryFails(h) \/ SendPage(h) \/ Die(h)
      PROVE  Copies(geopher', row) + Cardinality(GeopherDue(row)') <= GeopherLines(row)'
  <2>1. UNCHANGED <<log, lost, geopher>>
    BY <1>8 DEF StorePositron, QueryFails, SendPage, Die
  <2>3. handler'[h].step \in {"positron", "geopher"}
          => handler[h].step \in {"positron", "geopher"}
             /\ handler'[h].req = handler[h].req
    <3>1. CASE End(h)
      BY <3>1, Targets
    <3>2. ASSUME NEW s, Goto(h, s) PROVE handler'[h].req = handler[h].req
      BY <3>2 DEF Goto, TypeOK
    <3>3. CASE StorePositron(h) \/ QueryFails(h)
      BY <3>1, <3>2, <3>3 DEF StorePositron, QueryFails, AfterFailure
    <3>4. QED
      BY <1>8, <3>1, <3>3 DEF SendPage, Die
  <2>2. \A g \in Handlers \ {h} : handler'[g] = handler[g]
    BY <1>8, Targets DEF StorePositron, QueryFails, AfterFailure, SendPage, Die
  <2>4. QED
    BY <1>4, <2>1, <2>2, <2>3
<1>9. QED
  BY <1>2, <1>5, <1>6, <1>7, <1>8 DEF Next

\* No run of push.php stores a row twice: of each row, the copies and the
\* processes that owe one are no more than the lines, written or lost, that
\* make it.
THEOREM RowsAreCountedHolds == Spec => []RowsAreCounted
<1>1. Init => CountInv
  <2> SUFFICES ASSUME Init, NEW row
               PROVE  PositronCounted(row) /\ GeopherCounted(row)
    BY DEF CountInv
  <2>1. TypeOK
    BY DEF Init, TypeOK
  <2>2. PositronDue(row) = {} /\ GeopherDue(row) = {}
    BY DEF Init, PositronDue, GeopherDue, Idle
  <2>3. Copies(<<>>, row) = 0
    <3>1. {i \in 1 .. Len(<<>>) : <<>>[i] = row} = {}
      OBVIOUS
    <3>2. QED
      BY <3>1, FS_EmptySet DEF Copies
  <2>4. QED
    BY <2>1, <2>2, <2>3, FS_EmptySet, CountTypes
       DEF Init, PositronCounted, GeopherCounted
<1>2. TypeOK /\ CountInv /\ [Next]_vars => CountInv'
  BY PositronStep, GeopherStep DEF CountInv
<1>3. TypeOK /\ StoreInv /\ CountInv => RowsAreCounted
  <2> SUFFICES ASSUME TypeOK, StoreInv, CountInv PROVE RowsAreCounted
    OBVIOUS
  <2>1. ASSUME NEW row \in Elements(positron)
        PROVE  Copies(positron, row) <= PositronLines(row)
    <3>1. PICK r \in Pushed : row = PositronRow(r)
      BY <2>1 DEF StoreInv, RowsAreLogged
    <3>2. r \in Requests
      BY <3>1, PushedTypes
    <3>3. PositronCounted(row)
      BY <3>1, <3>2 DEF CountInv
    <3>4. QED
      BY <3>3, CountTypes DEF PositronCounted
  <2>2. ASSUME NEW row \in Elements(geopher)
        PROVE  Copies(geopher, row) <= GeopherLines(row)
    <3>1. PICK r \in Pushed : row = GeopherRow(r)
      BY <2>2 DEF StoreInv, RowsAreLogged
    <3>2. r \in Requests
      BY <3>1, PushedTypes
    <3>3. GeopherCounted(row)
      BY <3>1, <3>2 DEF CountInv
    <3>4. QED
      BY <3>3, CountTypes DEF GeopherCounted
  <2>3. QED
    BY <2>1, <2>2 DEF RowsAreCounted
<1>4. QED
  BY <1>1, <1>2, <1>3, TypeCorrect, StoreCorrect, PTL DEF Spec

-----------------------------------------------------------------------------
(* json.php and repeated pushes.                                           *)

\* The values of a function on a finite set are no more than its arguments.
LEMMA FewerValues ==
  ASSUME NEW S, IsFiniteSet(S), NEW f, f = [x \in S |-> f[x]],
         NEW T, T = {f[x] : x \in S}
  PROVE  IsFiniteSet(T) /\ Cardinality(T) <= Cardinality(S)
<1>1. f \in Surjection(S, T)
  BY DEF Surjection
<1>2. QED
  BY <1>1, FS_Surjection

\* A log has finitely many different lines.
LEMMA ElementsFinite ==
  ASSUME NEW S, NEW s \in Seq(S)
  PROVE  IsFiniteSet(Elements(s))
<1> DEFINE f == [i \in 1 .. Len(s) |-> s[i]]
<1>1. IsFiniteSet(1 .. Len(s))
  BY FS_Interval
<1>2. Elements(s) = {f[i] : i \in 1 .. Len(s)}
  BY DEF Elements
<1>3. f = [i \in 1 .. Len(s) |-> f[i]]
  OBVIOUS
<1> HIDE DEF f
<1>4. QED
  BY <1>1, <1>2, <1>3, FewerValues

\* Pushes that are repeated are stored again and shown once (json.php:5):
\* the rows found at a place are images of requests for the place.
THEOREM RetriesUnseenHolds == Spec => []RetriesUnseen
<1>1. TypeOK /\ RowsAreLogged => RetriesUnseen
  <2> SUFFICES ASSUME TypeOK, RowsAreLogged, NEW r \in Requests
               PROVE  Cardinality(Found(Rounded(r.at)))
                        <= Cardinality({q \in Pushed : Rounded(q.at) = Rounded(r.at)})
    BY DEF RetriesUnseen
  <2> DEFINE S == {q \in Pushed : Rounded(q.at) = Rounded(r.at)}
             f == [q \in S |-> PositronRow(q)]
             T == {f[q] : q \in S}
  <2>1. IsFiniteSet(S)
    <3>1. IsFiniteSet(Pushed)
      BY ElementsFinite, FS_Union DEF TypeOK, Pushed
    <3>2. QED
      BY <3>1, FS_Subset
  <2>2. IsFiniteSet(T) /\ Cardinality(T) <= Cardinality(S)
    <3>1. f = [q \in S |-> f[q]] /\ T = {f[q] : q \in S}
      OBVIOUS
    <3> HIDE DEF f, S, T
    <3>2. QED
      BY <2>1, <3>1, FewerValues
  <2>3. Found(Rounded(r.at)) \subseteq T
    BY DEF Found, RowsAreLogged, PositronRow
  <2>4. Cardinality(Found(Rounded(r.at))) <= Cardinality(T)
    BY <2>2, <2>3, FS_Subset
  <2>5. Cardinality(Found(Rounded(r.at))) \in Nat /\ Cardinality(T) \in Nat /\ Cardinality(S) \in Nat
    BY <2>1, <2>2, <2>3, FS_Subset, FS_CardinalityType
  <2> HIDE DEF S, T
  <2>6. Cardinality(Found(Rounded(r.at))) <= Cardinality(S)
    BY <2>2, <2>4, <2>5
  <2> QED
    BY <2>6 DEF S
<1>2. QED
  BY <1>1, TypeCorrect, RowsAreLoggedHolds, PTL
=============================================================================
