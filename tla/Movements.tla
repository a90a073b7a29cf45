----------------------------- MODULE Movements -----------------------------
(***************************************************************************)
(* The movement store: www/api/movement/push.php, which logs a movement to *)
(* data.csv and stores it in the tables Positron and Geopher of            *)
(* Geopher.sql, and www/api/movement/json.php, which looks movements up.   *)
(*                                                                         *)
(* push.php runs three effects one after the other, without a transaction  *)
(* and without looking at the result of any.  What a failed query does     *)
(* depends on the installation: mysqli throws from PHP 8.1 on (Throws) and *)
(* returns FALSE before; the server rejects a value that does not fit its  *)
(* column in strict mode (Strict) and adapts it otherwise.                 *)
(*                                                                         *)
(* A coordinate is a natural number, counted in a unit finer than the six  *)
(* decimals of the columns; sign and the difference between latitude and   *)
(* longitude, which push.php and json.php treat alike, are left out.       *)
(***************************************************************************)
EXTENDS Naturals, Sequences, FiniteSets

CONSTANTS
  Handlers,    \* processes that run push.php
  Requests,    \* what visitors may push
  Precision,   \* units in the last decimal of a column
  MaxColumn,   \* the largest value of an altitude column
  Strict,      \* sql_mode contains STRICT_TRANS_TABLES
  Throws,      \* mysqli throws when a query fails
  MaxRuns      \* bound: the runs of push.php

\* The fields of a form that may be missing, and then arrive as ''.
Optional == {"galt", "size"}

ASSUME RequestsAssumption ==
  Requests \subseteq [at : Nat, alt : Nat, given : SUBSET Optional]
ASSUME ColumnAssumption ==
  /\ Precision \in Nat \ {0}
  /\ MaxColumn \in Nat /\ MaxColumn % Precision = 0
ASSUME ModeAssumption == Strict \in BOOLEAN /\ Throws \in BOOLEAN
ASSUME HandlersAssumption == IsFiniteSet(Handlers)
ASSUME RunsAssumption == MaxRuns \in Nat

VARIABLES
  log,        \* the lines of data.csv
  lost,       \* history: the requests whose line could not be written
  positron,   \* the rows of table Positron
  geopher,    \* the rows of table Geopher, in the order of actionid
  handler,    \* where each process stands, and in which request
  answered    \* history: the requests that have got their page

vars == <<log, lost, positron, geopher, handler, answered>>

-----------------------------------------------------------------------------
(* Values, rows and queries.                                               *)

\* DECIMAL(8,6) and DECIMAL(9,6) keep six decimals, rounding halves up.
Rounded(v) == ((v + Precision \div 2) \div Precision) * Precision

Altitude(r) == IF "galt" \in r.given THEN r.alt ELSE 0

Overflows(r) == Rounded(Altitude(r)) > MaxColumn

StoredAltitude(r) == IF Overflows(r) THEN MaxColumn ELSE Rounded(Altitude(r))

\* The columns of the row, in the order of the statement and swapped.
SwappedRow(r) ==
  [at |-> StoredAltitude(r), alt |-> Rounded(r.at), size |-> "size" \in r.given]
PositronRow(r) ==
  [at |-> Rounded(r.at), alt |-> StoredAltitude(r), size |-> "size" \in r.given]

GeopherRow(r) == [at |-> Rounded(r.at), alt |-> StoredAltitude(r)]

\* In strict mode '' is no number, and an altitude must fit its column.
GeopherTakes(r) == Strict => "galt" \in r.given /\ ~Overflows(r)
PositronTakes(r) == GeopherTakes(r) /\ (Strict => "size" \in r.given)

Elements(s) == {s[i] : i \in 1 .. Len(s)}

\* json.php: SELECT DISTINCT ... WHERE glat = '...' AND glon = '...'.
FoundRepeated(at) == {<<i, positron[i]>> : i \in {j \in 1 .. Len(positron) : positron[j].at = at}}
Found(at) == {row \in Elements(positron) : row.at = at}

-----------------------------------------------------------------------------
Steps == {"idle", "log", "positron", "geopher", "page"}

Idle == [step |-> "idle"]
Jobs == [step : Steps \ {"idle"}, req : Requests]

PositronRows == [at : Nat, alt : Nat, size : BOOLEAN]
GeopherRows == [at : Nat, alt : Nat]

TypeOK ==
  /\ log \in Seq(Requests)
  /\ lost \in Seq(Requests)
  /\ positron \in Seq(PositronRows)
  /\ geopher \in Seq(GeopherRows)
  /\ handler \in [Handlers -> {Idle} \cup Jobs]
  /\ answered \subseteq Requests

Init ==
  /\ log = <<>>
  /\ lost = <<>>
  /\ positron = <<>>
  /\ geopher = <<>>
  /\ handler = [h \in Handlers |-> Idle]
  /\ answered = {}

Goto(h, step) == handler' = [handler EXCEPT ![h] = [step |-> step, req |-> @.req]]
End(h) == handler' = [handler EXCEPT ![h] = Idle]

\* After a query that failed, without its effect.
ContinuesAlways(h, step) == Goto(h, step)
AfterFailure(h, step) == IF Throws THEN End(h) ELSE Goto(h, step)

\* What push.php does first.
StoreFirst == "positron"
First == "log"

\* A visitor sends a form, or reloads a page and sends it again.
Start(h, r) ==
  /\ handler[h] = Idle
  /\ Len(log) + Len(lost) + Cardinality({g \in Handlers : handler[g].step = "log"}) < MaxRuns
  /\ handler' = [handler EXCEPT ![h] = [step |-> First, req |-> r]]
  /\ UNCHANGED <<log, lost, positron, geopher, answered>>

\* Lines 38-41: the line is written first, then the database is called.
Log(h) ==
  /\ handler[h].step = "log"
  /\ log' = Append(log, handler[h].req)
  /\ Goto(h, "positron")
  /\ UNCHANGED <<lost, positron, geopher, answered>>

\* fopen or fwrite fails, which the script does not look at: it goes on, unless
\* fwrite throws for want of a file (Die).
LogFails(h) ==
  /\ handler[h].step = "log"
  /\ lost' = Append(lost, handler[h].req)
  /\ Goto(h, "positron")
  /\ UNCHANGED <<log, positron, geopher, answered>>

\* Lines 42-44.
StorePositron(h) ==
  /\ handler[h].step = "positron"
  /\ PositronTakes(handler[h].req)
  /\ positron' = Append(positron, PositronRow(handler[h].req))
  /\ Goto(h, "geopher")
  /\ UNCHANGED <<log, lost, geopher, answered>>

\* Lines 45-47.
StoreGeopher(h) ==
  /\ handler[h].step = "geopher"
  /\ GeopherTakes(handler[h].req)
  /\ geopher' = Append(geopher, GeopherRow(handler[h].req))
  /\ Goto(h, "page")
  /\ UNCHANGED <<log, lost, positron, answered>>

\* The server rejects a row, or fails for reasons of its own.
QueryFails(h) ==
  /\ \/ handler[h].step = "positron" /\ AfterFailure(h, "geopher")
     \/ handler[h].step = "geopher" /\ AfterFailure(h, "page")
  /\ UNCHANGED <<log, lost, positron, geopher, answered>>

\* Lines 48-57.
SendPage(h) ==
  /\ handler[h].step = "page"
  /\ answered' = answered \cup {handler[h].req}
  /\ End(h)
  /\ UNCHANGED <<log, lost, positron, geopher>>

\* The process is killed, cannot reach the database, or ends with an error.
Die(h) ==
  /\ handler[h] # Idle
  /\ End(h)
  /\ UNCHANGED <<log, lost, positron, geopher, answered>>

Next ==
  \/ \E h \in Handlers, r \in Requests : Start(h, r)
  \/ \E h \in Handlers :
       \/ Log(h) \/ LogFails(h) \/ StorePositron(h) \/ StoreGeopher(h)
       \/ QueryFails(h) \/ SendPage(h) \/ Die(h)

Spec == Init /\ [][Next]_vars

-----------------------------------------------------------------------------
(* Properties.                                                             *)

\* Geopher.sql:39-41: glat, glon and galt of table Geopher reference table
\* Positron, so that every row of Geopher has its row of Positron.
GeopherHasPositron ==
  \A i \in 1 .. Len(geopher) : \E j \in 1 .. Len(positron) :
    positron[j].at = geopher[i].at /\ positron[j].alt = geopher[i].alt

\* The requests of the runs that have come past the log.
Pushed == Elements(log) \cup Elements(lost)

\* Whatever fails, dies or is repeated, a row is the image of a request that
\* was logged before, or whose line could not be written.
RowsAreLogged ==
  /\ \A row \in Elements(positron) : \E r \in Pushed : row = PositronRow(r)
  /\ \A row \in Elements(geopher) : \E r \in Pushed : row = GeopherRow(r)

\* How often a row is in a table, and how many of the lines make it.
Copies(rows, row) == Cardinality({i \in 1 .. Len(rows) : rows[i] = row})
PositronIn(lines, row) == Cardinality({i \in 1 .. Len(lines) : PositronRow(lines[i]) = row})
GeopherIn(lines, row) == Cardinality({i \in 1 .. Len(lines) : GeopherRow(lines[i]) = row})

\* The lines of the log, and those that are missing there.
PositronLines(row) == PositronIn(log, row) + PositronIn(lost, row)
GeopherLines(row) == GeopherIn(log, row) + GeopherIn(lost, row)

\* No run stores a row twice, nor one that is not its own: a row is in a table
\* at most as often as lines of the log make it, and once more for each line
\* that could not be written.
RowsAreCounted ==
  /\ \A row \in Elements(positron) : Copies(positron, row) <= PositronLines(row)
  /\ \A row \in Elements(geopher) : Copies(geopher, row) <= GeopherLines(row)

\* Where a failing query throws, a visitor who got the page has been stored
\* in both tables.
AnsweredIsStored ==
  Throws => \A r \in answered :
    /\ PositronRow(r) \in Elements(positron)
    /\ GeopherRow(r) \in Elements(geopher)

\* ... and json.php finds the movement at its rounded coordinates, hence at
\* the coordinates pushed when they have no more than six decimals.
AnsweredIsFound ==
  Throws => \A r \in answered :
    r.at = Rounded(r.at) => PositronRow(r) \in Found(r.at)

\* Repeated pushes are stored again, but json.php shows them once: it never
\* shows more rows than different requests have been made for the place,
\* whether or not their lines were written.
RetriesUnseen ==
  \A r \in Requests :
    Cardinality(Found(Rounded(r.at)))
      <= Cardinality({q \in Pushed : Rounded(q.at) = Rounded(r.at)})

\* www/api/movement/index.cgi gives, as examples of the read and the write
\* end point, a push and a pull with the same coordinates.  A movement that
\* push.php has stored and answered is found where it was pushed.
ReadFindsWhatWasPushed ==
  \A r \in answered :
    PositronRow(r) \in Elements(positron) => Found(r.at) # {}

-----------------------------------------------------------------------------
(* The invariants behind the properties.                                   *)

\* A process knows what it has done.
Knows(h) ==
  LET r == handler[h].req
      step == handler[h].step
  IN  /\ step \in {"positron", "geopher", "page"} => r \in Pushed
      /\ (Throws /\ step \in {"geopher", "page"})
           => PositronRow(r) \in Elements(positron)
      /\ (Throws /\ step = "page") => GeopherRow(r) \in Elements(geopher)

StepInv == \A h \in Handlers : Knows(h)

StoreInv ==
  /\ StepInv
  /\ RowsAreLogged
  /\ AnsweredIsStored
  /\ Throws => GeopherHasPositron

\* The processes that still owe a row have a line, written or lost, that no row
\* of the table accounts for yet.
PositronDue(row) ==
  {h \in Handlers : handler[h].step = "positron" /\ PositronRow(handler[h].req) = row}
GeopherDue(row) ==
  {h \in Handlers :
     handler[h].step \in {"positron", "geopher"} /\ GeopherRow(handler[h].req) = row}

PositronCounted(row) ==
  Copies(positron, row) + Cardinality(PositronDue(row)) <= PositronLines(row)
GeopherCounted(row) ==
  Copies(geopher, row) + Cardinality(GeopherDue(row)) <= GeopherLines(row)

CountInv ==
  \A r \in Requests : PositronCounted(PositronRow(r)) /\ GeopherCounted(GeopherRow(r))
=============================================================================
