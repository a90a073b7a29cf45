------------------------------ MODULE Listings ------------------------------
(***************************************************************************)
(* The table piperpal of piperpal.sql: the scripts that insert listings    *)
(* (pushgeopher, www/checkout.php, www/ppcharge.php), the script that      *)
(* reads which are open (www/piperpal-autocomplete-names.php; -locations   *)
(* differs in the column it shows), and the free slots between bookings of *)
(* a tour (www/cft/available.php).                                         *)
(*                                                                         *)
(* The three scripts insert with one statement, but not in one database:   *)
(* pushgeopher and checkout.php write to piperpalcom02, which nothing      *)
(* reads, and ppcharge.php gives the statement to YayLocation, which is    *)
(* outside the repository and is taken to run it in the database piperpal, *)
(* where the readers look.  The table here is either; what is read of it   *)
(* has come through ppcharge.php.                                          *)
(*                                                                         *)
(* Time is counted in hours, and a day begins at a multiple of 24.  The    *)
(* column modified holds when a listing opens, created when it closes.     *)
(* Names and places are those the columns keep.                            *)
(***************************************************************************)
EXTENDS Naturals, Sequences, FiniteSets

CONSTANTS
  Requests,    \* what visitors may insert
  Times,       \* when things may happen
  Since,       \* where the bookings of available.php begin
  MaxId,       \* the largest value of the key, 16777215
  Last,        \* the last hour a TIMESTAMP can hold, in January 2038
  Limit        \* the rows a reader is given at most, 50

\* Names are numbered in their alphabetical order.
ASSUME RequestsAssumption ==
  Requests \subseteq
    [name : Nat, place : Nat, tour : BOOLEAN, from : Nat, to : Nat, paid : Nat]
ASSUME TimesAssumption == Times \subseteq Nat /\ Times # {} /\ \A t \in Times : t <= Last
ASSUME BoundsAssumption ==
  MaxId \in Nat \ {0} /\ Last \in Nat /\ Limit \in Nat /\ Since \in Nat

VARIABLES
  now,      \* the clock of the server
  table,    \* the rows in the order of id
  listed    \* the page a reader has got, and when

vars == <<now, table, listed>>

-----------------------------------------------------------------------------
(* Writing.                                                                *)

\* date("Y-m-d h:i:s", ...): h is the hour on a clock of twelve hours.
Clock12(t) == (t - (t % 24)) + ((t + 11) % 12) + 1

\* Under INSERT IGNORE a moment out of the range of a TIMESTAMP becomes the
\* zero date, which comes before every moment.
Zero == 0
Stored(t) == IF Clock12(t) <= Last THEN Clock12(t) ELSE Zero

Row(q) == [asked |-> q, modified |-> Stored(q.from), created |-> Stored(q.to)]
Rows == [asked : Requests, modified : Nat, created : Nat]

\* What ON DUPLICATE KEY UPDATE changes; duplicates are only met when the key
\* has reached its end and stays there.
Duplicate(rows, q) == [rows EXCEPT ![MaxId].modified = now]

Inserted(rows, q) ==
  IF Len(rows) < MaxId THEN Append(rows, Row(q)) ELSE Duplicate(rows, q)

Insert(q) ==
  /\ table' = Inserted(table, q)
  /\ UNCHANGED <<now, listed>>

-----------------------------------------------------------------------------
(* Reading.                                                                *)

\* WHERE modified < NOW() AND created > NOW() AND paid = '1'
OpenSwapped(row) == row.modified > now /\ row.created < now /\ row.asked.paid = 1
OpensOnly(row) == row.modified < now /\ row.asked.paid = 1
Open(row) == row.modified < now /\ row.created > now /\ row.asked.paid = 1

Listed == [name : Nat, place : Nat]
Entry(row) == [name |-> row.asked.name, place |-> row.asked.place]

\* SELECT DISTINCT name,glat,glon
OpenEntries ==
  {Entry(table[i]) : i \in {j \in 1 .. Len(table) : Open(table[j])}}

\* ORDER by name LIMIT 50: what a reader is given of S.  Which of the rows of
\* one name come first is the server's choice.
First(S) ==
  {P \in SUBSET S :
     /\ Cardinality(P) <= Limit
     /\ P = S \/ Cardinality(P) = Limit
     /\ \A e \in P, f \in S \ P : e.name <= f.name}

Read ==
  /\ \E P \in First(OpenEntries) : listed' = [at |-> now, rows |-> P]
  /\ UNCHANGED <<now, table>>

Tick(t) ==
  /\ t > now
  /\ now' = t
  /\ UNCHANGED <<table, listed>>

TypeOK ==
  /\ now \in Times
  /\ table \in Seq(Rows) /\ Len(table) <= MaxId
  /\ listed \in [at : Times, rows : SUBSET Listed]

Init ==
  /\ now \in Times
  /\ table = <<>>
  /\ listed = [at |-> now, rows |-> {}]

Next ==
  \/ \E q \in Requests : Insert(q)
  \/ Read
  \/ \E t \in Times : Tick(t)

Spec == Init /\ [][Next]_vars

-----------------------------------------------------------------------------
(* The slots that available.php offers.                                    *)

Booked == {i \in 1 .. Len(table) :
             LET row == table[i]
             IN  row.asked.tour /\ row.modified >= Since}
Opens(i) == table[i].modified
Closes(i) == table[i].created

\* The rows that the variable @lastEndTime goes through.  The ORDER BY created
\* stands in a derived table that is joined with the first value of the
\* variable, where a server may drop it.
Numbering == [1 .. Cardinality(Booked) -> Booked]
Orders == {p \in Numbering : \A k, l \in DOMAIN p : p[k] = p[l] => k = l}
KeepsOrder(p) == \A k, l \in DOMAIN p : k < l => Closes(p[k]) <= Closes(p[l])

\* @lastEndTime := modified, after AvailStartTime has got its old value.
Hours == 3
AssignedFirst(i, j) == [from |-> Opens(j), to |-> Closes(j)]
Between(i, j) == [from |-> Opens(i), to |-> Closes(j)]

\* WHERE AvailEndTime > DATE_ADD(AvailStartTime, INTERVAL 180 MINUTE)
Slots(p) ==
  {s \in {Between(p[k - 1], p[k]) : k \in 2 .. Cardinality(Booked)} : s.to > s.from + Hours}

-----------------------------------------------------------------------------
(* Properties.                                                             *)

\* An insert never changes a row that is there, except that a full table has
\* its last row opened.
OnlyLastChanges ==
  [][\A i \in 1 .. Len(table) :
       table'[i] # table[i]
         => i = MaxId /\ table'[i] = [table[i] EXCEPT !.modified = now]]_vars

\* Half a day more or less, because of the clock of twelve hours.
Within(q, t) == q.from < t + 12 /\ t < q.to + 12
WellWithin(q, t) == q.from + 12 < t /\ t + 12 < q.to

\* What is on a reader's page was paid for, for a window that is open then or
\* within half a day, unless it opens beyond the last moment of a TIMESTAMP, or
\* stands in the last row of a full table: these open at any time.
ListedWasAsked ==
  \A e \in listed.rows :
    \E i \in 1 .. Len(table) :
      LET q == table[i].asked
      IN  /\ Entry(table[i]) = e /\ q.paid = 1
          /\ listed.at < q.to + 12
          /\ i = MaxId \/ q.from + 12 > Last \/ Within(q, listed.at)

\* What was paid for a window well around the moment, closing when a TIMESTAMP
\* can still hold it, is listed then, unless Limit rows of this name or of
\* others before it are.
AskedIsListed ==
  [][Read =>
       \A i \in 1 .. Len(table) :
         LET q == table[i].asked
         IN  q.paid = 1 /\ WellWithin(q, now) /\ q.to + 12 <= Last /\ i # MaxId
               => \/ Entry(table[i]) \in listed'.rows
                  \/ /\ Cardinality(listed'.rows) = Limit
                     /\ \A e \in listed'.rows : e.name <= q.name]_vars

Proper == \A i \in Booked : Opens(i) <= Closes(i)

\* Any more than three hours that are free between two bookings lie in a slot
\* available.php offers, if the server keeps the order of the derived table, as
\* long as no booking closes before it opens.
FreeIsOffered ==
  Proper =>
    \A p \in Orders : KeepsOrder(p) => \A i, j \in Booked :
      LET a == Closes(i)
          b == Opens(j)
      IN  (b > a + Hours /\ \A k \in Booked : Closes(k) <= a \/ Opens(k) >= b)
            => \E s \in Slots(p) : s.from <= a /\ b <= s.to

\* What is offered is free: the names AvailStartTime and AvailEndTime in
\* www/cft/available.php:11, even if the server keeps the order.
OfferedIsFree ==
  \A p \in Orders : KeepsOrder(p) => \A s \in Slots(p) : \A i \in Booked :
    Closes(i) <= s.from \/ s.to <= Opens(i)

\* A place is listed only between the dates of its form, "Not Before" and "Not
\* After" in www/cft/s/index.php:258 and 259.
ListedInItsWindow ==
  \A e \in listed.rows :
    \E i \in 1 .. Len(table) :
      LET q == table[i].asked
      IN  Entry(table[i]) = e /\ q.from <= listed.at /\ listed.at <= q.to
=============================================================================
