-------------------------- MODULE Listings_proofs --------------------------
(***************************************************************************)
(* What Listings promises for every set of requests and of times, and for  *)
(* every bound.                                                            *)
(*                                                                         *)
(* ListedWasAsked speaks of what was asked, the reader of the columns:     *)
(* ListingsInv adds what ties the two together in every row.  FreeIsOffered*)
(* holds of every table; its proof finds the place in the order where the  *)
(* free hours lie, by counting the bookings that close before them.        *)
(***************************************************************************)
EXTENDS Listings, FiniteSetTheorems, TLAPS

\* The columns are what a TIMESTAMP keeps of the dates that were asked for;
\* only the last row of a full table may have been opened at another time.
RowsAsAsked ==
  \A i \in 1 .. Len(table) :
    /\ table[i].created = Stored(table[i].asked.to)
    /\ i # MaxId => table[i].modified = Stored(table[i].asked.from)

ListingsInv == TypeOK /\ RowsAsAsked /\ ListedWasAsked

-----------------------------------------------------------------------------

\* The clock of twelve hours is wrong by half a day at most, and a TIMESTAMP
\* keeps what it says but for the end of its range.
LEMMA ClockFact ==
  ASSUME NEW t \in Nat
  PROVE  Clock12(t) \in Nat /\ t <= Clock12(t) + 12 /\ Clock12(t) <= t + 12
BY DEF Clock12

LEMMA StoredFact ==
  ASSUME NEW t \in Nat
  PROVE  /\ Stored(t) \in Nat /\ Stored(t) <= t + 12
         /\ t + 12 <= Last => t <= Stored(t) + 12
<1>1. Clock12(t) \in Nat /\ t <= Clock12(t) + 12 /\ Clock12(t) <= t + 12 /\ Last \in Nat
  BY ClockFact, BoundsAssumption
<1> HIDE DEF Clock12
<1> QED  BY <1>1 DEF Stored, Zero

\* A request has its fields, and makes a row.
LEMMA RequestFields ==
  ASSUME NEW q \in Requests
  PROVE  /\ q.name \in Nat /\ q.place \in Nat /\ q.from \in Nat /\ q.to \in Nat
         /\ q.tour \in BOOLEAN /\ q.paid \in Nat
         /\ Row(q) \in Rows
<1>1. /\ q.name \in Nat /\ q.place \in Nat /\ q.from \in Nat /\ q.to \in Nat
      /\ q.tour \in BOOLEAN /\ q.paid \in Nat
  BY RequestsAssumption
<1>2. Stored(q.from) \in Nat /\ Stored(q.to) \in Nat
  BY <1>1, StoredFact
<1> QED  BY <1>1, <1>2 DEF Row, Rows

\* So has a row.
LEMMA RowFields ==
  ASSUME TypeOK, NEW i \in 1 .. Len(table)
  PROVE  /\ Len(table) \in Nat /\ i \in Nat
         /\ table[i] \in Rows
         /\ table[i].asked \in Requests
         /\ table[i].asked.name \in Nat /\ table[i].asked.place \in Nat
         /\ table[i].asked.from \in Nat
         /\ table[i].asked.to \in Nat /\ table[i].asked.tour \in BOOLEAN
         /\ table[i].modified \in Nat /\ table[i].created \in Nat
<1>1. Len(table) \in Nat /\ i \in Nat /\ table[i] \in Rows
  BY DEF TypeOK
<1>2. /\ table[i].asked \in Requests
      /\ table[i].modified \in Nat /\ table[i].created \in Nat
  BY <1>1 DEF Rows
<1> QED  BY <1>1, <1>2, RequestFields

\* What an insert makes of the table.
LEMMA InsertedRows ==
  ASSUME TypeOK, NEW q \in Requests, Insert(q)
  PROVE  /\ table' \in Seq(Rows) /\ Len(table') <= MaxId
         /\ now' = now /\ listed' = listed
         /\ Len(table) <= Len(table')
         /\ \A i \in 1 .. Len(table) :
              \/ table'[i] = table[i]
              \/ i = MaxId /\ table'[i] = [table[i] EXCEPT !.modified = now]
         /\ \A i \in 1 .. Len(table') : i > Len(table) => table'[i] = Row(q)
<1>0. /\ table \in Seq(Rows) /\ Len(table) \in Nat /\ MaxId \in Nat \ {0}
      /\ Len(table) <= MaxId /\ now \in Nat /\ now' = now /\ listed' = listed
  BY BoundsAssumption, TimesAssumption DEF TypeOK, Insert
<1>1. CASE Len(table) < MaxId
  <2>1. table' = Append(table, Row(q)) /\ Row(q) \in Rows
    BY <1>1, RequestFields DEF Insert, Inserted
  <2> HIDE DEF Row
  <2> QED  BY <1>0, <1>1, <2>1
<1>2. CASE Len(table) = MaxId
  <2> DEFINE touched == [table[MaxId] EXCEPT !.modified = now]
  <2>1. table' = [table EXCEPT ![MaxId] = touched]
    BY <1>0, <1>2 DEF Insert, Inserted, Duplicate
  <2>2. touched \in Rows
    <3>1. table[MaxId] \in Rows
      BY <1>0, <1>2
    <3> QED  BY <1>0, <3>1 DEF Rows
  <2>3. touched = [table[MaxId] EXCEPT !.modified = now]
    OBVIOUS
  <2> HIDE DEF touched
  <2>4. table' \in Seq(Rows) /\ Len(table') = Len(table)
    BY <1>0, <1>2, <2>1, <2>2
  <2>5. \A i \in 1 .. Len(table) : table'[i] = IF i = MaxId THEN touched ELSE table[i]
    BY <1>0, <1>2, <2>1
  <2> QED  BY <1>0, <1>2, <2>3, <2>4, <2>5
<1> QED  BY <1>0, <1>1, <1>2

\* The columns of a row that has just been opened.
LEMMA Touched ==
  ASSUME NEW r \in Rows, NEW t
  PROVE  /\ [r EXCEPT !.modified = t].asked = r.asked
         /\ [r EXCEPT !.modified = t].created = r.created
         /\ [r EXCEPT !.modified = t].modified = t
BY DEF Rows

LEMMA InitInv == Init => ListingsInv
<1> SUFFICES ASSUME Init PROVE ListingsInv  OBVIOUS
<1>1. TypeOK
  BY BoundsAssumption DEF Init, TypeOK
<1> QED  BY <1>1 DEF Init, ListingsInv, RowsAsAsked, ListedWasAsked

LEMMA TypeStep ==
  ASSUME TypeOK, [Next]_vars
  PROVE  TypeOK'
<1>1. ASSUME NEW q \in Requests, Insert(q)
      PROVE  TypeOK'
  BY <1>1, InsertedRows DEF TypeOK
<1>2. CASE Read
  <2>1. OpenEntries \subseteq Listed
    BY RowFields DEF OpenEntries, Entry, Listed
  <2>2. \A P \in First(OpenEntries) : P \subseteq Listed
    BY <2>1 DEF First
  <2> QED  BY <1>2, <2>2 DEF Read, TypeOK
<1>3. ASSUME NEW t \in Times, Tick(t)
      PROVE  TypeOK'
  BY <1>3 DEF Tick, TypeOK
<1>4. CASE UNCHANGED vars
  BY <1>4 DEF vars, TypeOK
<1> QED  BY <1>1, <1>2, <1>3, <1>4 DEF Next

\* What an insert leaves of the rows.
LEMMA RowsKeep ==
  ASSUME TypeOK, NEW q \in Requests, Insert(q), NEW i \in 1 .. Len(table)
  PROVE  /\ i \in 1 .. Len(table')
         /\ table'[i].asked = table[i].asked
         /\ table'[i].created = table[i].created
         /\ i # MaxId => table'[i].modified = table[i].modified
<1>1. i \in 1 .. Len(table')
  BY InsertedRows, RowFields
<1>2. \/ table'[i] = table[i]
      \/ i = MaxId /\ table'[i] = [table[i] EXCEPT !.modified = now]
  BY InsertedRows
<1>3. table[i] \in Rows
  BY RowFields
<1>4. /\ [table[i] EXCEPT !.modified = now].asked = table[i].asked
      /\ [table[i] EXCEPT !.modified = now].created = table[i].created
  BY <1>3, Touched
<1>5. CASE table'[i] = table[i]
  BY <1>1, <1>5
<1>6. CASE i = MaxId /\ table'[i] = [table[i] EXCEPT !.modified = now]
  BY <1>1, <1>4, <1>6
<1> QED  BY <1>2, <1>5, <1>6

LEMMA RowsStep ==
  ASSUME TypeOK, RowsAsAsked, [Next]_vars
  PROVE  RowsAsAsked'
<1>1. ASSUME NEW q \in Requests, Insert(q)
      PROVE  RowsAsAsked'
  <2>1. ASSUME NEW i \in 1 .. Len(table'), i \in 1 .. Len(table)
        PROVE  /\ table'[i].created = Stored(table'[i].asked.to)
               /\ i # MaxId => table'[i].modified = Stored(table'[i].asked.from)
    BY <1>1, <2>1, RowsKeep DEF RowsAsAsked
  <2>2. ASSUME NEW i \in 1 .. Len(table'), i \notin 1 .. Len(table)
        PROVE  /\ table'[i].created = Stored(table'[i].asked.to)
               /\ i # MaxId => table'[i].modified = Stored(table'[i].asked.from)
    <3>1. i > Len(table)
      BY <1>1, <2>2, InsertedRows DEF TypeOK
    <3>2. table'[i] = Row(q)
      BY <1>1, <3>1, InsertedRows
    <3> QED  BY <3>2 DEF Row
  <2> QED  BY <2>1, <2>2 DEF RowsAsAsked
<1>2. CASE UNCHANGED table
  BY <1>2 DEF RowsAsAsked
<1> QED  BY <1>1, <1>2 DEF Next, Read, Tick, vars

\* Who is on a page stays there, and so does the row.
LEMMA ListedStep ==
  ASSUME ListingsInv, [Next]_vars
  PROVE  ListedWasAsked'
<1>0. TypeOK /\ RowsAsAsked /\ ListedWasAsked /\ now \in Nat /\ Last \in Nat
  BY TimesAssumption, BoundsAssumption DEF ListingsInv, TypeOK
<1>1. ASSUME NEW q \in Requests, Insert(q)
      PROVE  ListedWasAsked'
  <2> SUFFICES ASSUME NEW e \in listed'.rows
               PROVE  \E i \in 1 .. Len(table') :
                        /\ Entry(table'[i]) = e /\ table'[i].asked.paid = 1
                        /\ listed'.at < table'[i].asked.to + 12
                        /\ \/ i = MaxId \/ table'[i].asked.from + 12 > Last
                           \/ Within(table'[i].asked, listed'.at)
    BY DEF ListedWasAsked, Within, Entry
  <2>1. listed' = listed
    BY <1>0, <1>1, InsertedRows
  <2>2. PICK i \in 1 .. Len(table) :
          /\ Entry(table[i]) = e /\ table[i].asked.paid = 1
          /\ listed.at < table[i].asked.to + 12
          /\ \/ i = MaxId \/ table[i].asked.from + 12 > Last
             \/ Within(table[i].asked, listed.at)
    BY <1>0, <2>1 DEF ListedWasAsked
  <2>3. i \in 1 .. Len(table') /\ table'[i].asked = table[i].asked
    BY <1>0, <1>1, RowsKeep
  <2>4. Entry(table'[i]) = Entry(table[i])
    BY <2>3 DEF Entry
  <2> QED  BY <2>1, <2>2, <2>3, <2>4
<1>2. CASE Read
  <2> SUFFICES ASSUME NEW P \in First(OpenEntries), listed' = [at |-> now, rows |-> P], NEW e \in P
               PROVE  \E i \in 1 .. Len(table) :
                        /\ Entry(table[i]) = e /\ table[i].asked.paid = 1
                        /\ now < table[i].asked.to + 12
                        /\ \/ i = MaxId \/ table[i].asked.from + 12 > Last
                           \/ Within(table[i].asked, now)
    BY <1>2 DEF Read, ListedWasAsked, Within, Entry
  <2>1. PICK i \in 1 .. Len(table) : Open(table[i]) /\ Entry(table[i]) = e
    BY DEF First, OpenEntries
  <2>2. /\ table[i].modified < now /\ table[i].created > now /\ table[i].asked.paid = 1
    BY <2>1 DEF Open
  <2>3. /\ table[i].asked.from \in Nat /\ table[i].asked.to \in Nat
        /\ table[i].modified \in Nat /\ table[i].created \in Nat
    BY <1>0, RowFields
  <2>4. table[i].created <= table[i].asked.to + 12
    BY <1>0, <2>3, StoredFact DEF RowsAsAsked
  <2>5. i # MaxId /\ table[i].asked.from + 12 <= Last
          => table[i].asked.from <= table[i].modified + 12
    BY <1>0, <2>3, StoredFact DEF RowsAsAsked
  <2>6. /\ now < table[i].asked.to + 12
        /\ \/ i = MaxId \/ table[i].asked.from + 12 > Last
           \/ table[i].asked.from < now + 12
    <3>1. now < table[i].asked.to + 12
      BY <1>0, <2>2, <2>3, <2>4
    <3>2. CASE i = MaxId
      BY <3>1, <3>2
    <3>3. CASE i # MaxId
      <4>1. ~(table[i].asked.from + 12 > Last)
              => table[i].asked.from <= table[i].modified + 12
        BY <1>0, <2>3, <2>5, <3>3
      <4>2. table[i].asked.from + 12 > Last \/ table[i].asked.from < now + 12
        BY <1>0, <2>2, <2>3, <4>1
      <4> QED  BY <3>1, <4>2
    <3> QED  BY <3>2, <3>3
  <2> QED  BY <2>1, <2>2, <2>6 DEF Within
<1>3. CASE UNCHANGED <<table, listed>>
  BY <1>0, <1>3 DEF ListedWasAsked, Entry
<1> QED  BY <1>1, <1>2, <1>3 DEF Next, Tick, vars

\* ListingsInv is inductive.
THEOREM ListingsCorrect == Spec => []ListingsInv
<1>1. ListingsInv /\ [Next]_vars => ListingsInv'
  BY TypeStep, RowsStep, ListedStep DEF ListingsInv
<1> QED  BY InitInv, <1>1, PTL DEF Spec

\* The variables have their types.
THEOREM TypeCorrect == Spec => []TypeOK
BY ListingsCorrect, PTL DEF ListingsInv

\* What a reader lists was paid for, within half a day of its window, or opens
\* beyond the range of a TIMESTAMP, or is in the last row of a full table.
THEOREM ListedWasAskedHolds == Spec => []ListedWasAsked
BY ListingsCorrect, PTL DEF ListingsInv

\* No insert changes a row, but the last of a full table.
THEOREM OnlyLastChangesHolds == Spec => OnlyLastChanges
<1>1. ASSUME ListingsInv, [Next]_vars, NEW i \in 1 .. Len(table), table'[i] # table[i]
      PROVE  i = MaxId /\ table'[i] = [table[i] EXCEPT !.modified = now]
  <2>1. PICK q \in Requests : Insert(q)
    BY <1>1 DEF Next, Read, Tick, vars
  <2> QED  BY <1>1, <2>1, InsertedRows DEF ListingsInv
<1> DEFINE Kept == \A i \in 1 .. Len(table) :
      table'[i] # table[i] => i = MaxId /\ table'[i] = [table[i] EXCEPT !.modified = now]
<1>2. ListingsInv /\ [Next]_vars => [Kept]_vars
  BY <1>1
<1> QED  BY ListingsCorrect, <1>2, PTL DEF Spec, OnlyLastChanges

-----------------------------------------------------------------------------
(* The rows a reader is given.                                             *)

\* A row that is paid for is open well within its window.
LEMMA OpenWellWithin ==
  ASSUME ListingsInv, NEW i \in 1 .. Len(table), table[i].asked.paid = 1,
         WellWithin(table[i].asked, now), table[i].asked.to + 12 <= Last, i # MaxId
  PROVE  Open(table[i])
<1>0. TypeOK /\ RowsAsAsked /\ now \in Nat
  BY TimesAssumption DEF ListingsInv, TypeOK
<1> DEFINE q == table[i].asked
<1>1. q.from \in Nat /\ q.to \in Nat /\ table[i].modified \in Nat /\ table[i].created \in Nat
  BY <1>0, RowFields
<1>2. table[i].modified <= q.from + 12 /\ q.to <= table[i].created + 12
  BY <1>0, <1>1, StoredFact DEF RowsAsAsked
<1>3. q.from + 12 < now /\ now + 12 < q.to
  BY DEF WellWithin
<1>4. table[i].modified < now /\ now < table[i].created
  <2>1. ASSUME NEW t \in Nat, NEW from \in Nat, NEW to \in Nat, NEW opens \in Nat, NEW closes \in Nat,
               opens <= from + 12, to <= closes + 12, from + 12 < t, t + 12 < to
        PROVE  opens < t /\ t < closes
    BY <2>1
  <2>2. QED
    BY <1>0, <1>1, <1>2, <1>3, <2>1
<1>5. table[i].modified < now /\ table[i].created > now /\ table[i].asked.paid = 1
  BY <1>0, <1>1, <1>4
<1> QED  BY <1>5, Zenon DEF Open

\* What was paid for is on the page of every reader well within its window,
\* unless the page is full of rows of its name and of names before it.
THEOREM AskedIsListedHolds == Spec => AskedIsListed
<1> DEFINE Shown ==
      Read =>
        \A i \in 1 .. Len(table) :
          LET q == table[i].asked
          IN  q.paid = 1 /\ WellWithin(q, now) /\ q.to + 12 <= Last /\ i # MaxId
                => \/ Entry(table[i]) \in listed'.rows
                   \/ /\ Cardinality(listed'.rows) = Limit
                      /\ \A e \in listed'.rows : e.name <= q.name
<1>1. ASSUME ListingsInv, Read PROVE Shown
  <2> SUFFICES ASSUME NEW i \in 1 .. Len(table), table[i].asked.paid = 1,
                      WellWithin(table[i].asked, now), table[i].asked.to + 12 <= Last,
                      i # MaxId, Entry(table[i]) \notin listed'.rows
               PROVE  /\ Cardinality(listed'.rows) = Limit
                      /\ \A e \in listed'.rows : e.name <= table[i].asked.name
    OBVIOUS
  <2>1. PICK P \in First(OpenEntries) : listed' = [at |-> now, rows |-> P]
    BY <1>1 DEF Read
  <2>2. Entry(table[i]) \in OpenEntries
    BY <1>1, OpenWellWithin DEF OpenEntries
  <2>3. Entry(table[i]) \in OpenEntries \ P
    BY <2>1, <2>2
  <2>4. Entry(table[i]).name = table[i].asked.name
    BY DEF Entry
  <2>5. /\ Cardinality(P) = Limit
        /\ \A e \in P : e.name <= table[i].asked.name
    BY <2>3, <2>4 DEF First
  <2>6. listed'.rows = P
    BY <2>1
  <2> HIDE DEF Shown
  <2> QED  BY <2>5, <2>6
<1>2. ListingsInv /\ [Next]_vars => [Shown]_vars
  BY <1>1
<1> QED  BY ListingsCorrect, <1>2, PTL DEF Spec, AskedIsListed

-----------------------------------------------------------------------------
(* The slots.                                                              *)

\* The first numbers of 1 .. n, as many as there are.
LEMMA Prefix ==
  ASSUME NEW n \in Nat, NEW A \in SUBSET (1 .. n),
         \A k \in A : \A l \in 1 .. k : l \in A
  PROVE  \E c \in 0 .. n : \A k \in 1 .. n : k \in A <=> k <= c
<1>0. IsFiniteSet(1 .. n) /\ Cardinality(1 .. n) = n
  BY FS_Interval
<1>1. IsFiniteSet(A) /\ Cardinality(A) <= n
  <2>1. IsFiniteSet(A) /\ Cardinality(A) <= Cardinality(1 .. n)
    BY <1>0, FS_Subset
  <2> QED
    BY <1>0, <2>1
<1>2. Cardinality(A) \in Nat
  BY <1>1, FS_CardinalityType
<1>3. \A k \in 1 .. n : k \in A => k <= Cardinality(A)
  <2> SUFFICES ASSUME NEW k \in A PROVE k <= Cardinality(A)
    OBVIOUS
  <2>1. (1 .. k) \subseteq A /\ Cardinality(1 .. k) = k
    BY FS_Interval
  <2> QED  BY <1>1, <2>1, FS_Subset
<1>4. \A k \in 1 .. n : k \notin A => k > Cardinality(A)
  <2> SUFFICES ASSUME NEW k \in 1 .. n, k \notin A PROVE k > Cardinality(A)
    OBVIOUS
  <2> DEFINE m == k - 1
  <2>0. m \in Nat /\ k = m + 1
    OBVIOUS
  <2> HIDE DEF m
  <2>1. A \subseteq 1 .. m
    BY <2>0
  <2>2. IsFiniteSet(1 .. m) /\ Cardinality(1 .. m) = m
    BY <2>0, FS_Interval
  <2>3. Cardinality(A) <= Cardinality(1 .. m)
    <3>1. A \in SUBSET (1 .. m)
      BY <2>1
    <3> QED  BY <2>2, <3>1, FS_Subset, Zenon
  <2> QED  BY <1>2, <2>0, <2>2, <2>3
<1> DEFINE c == Cardinality(A)
<1>5. c \in 0 .. n
  BY <1>1, <1>2
<1>6. \A k \in 1 .. n : k \in A <=> k <= c
  <2> SUFFICES ASSUME NEW k \in 1 .. n PROVE k \in A <=> k <= c
    OBVIOUS
  <2>1. CASE k \in A
    BY <2>1, <1>3
  <2>2. CASE k \notin A
    <3>1. k > c
      BY <2>2, <1>4
    <3> HIDE DEF c
    <3> QED  BY <2>2, <3>1, <1>5
  <2> QED  BY <2>1, <2>2
<1> HIDE DEF c
<1> QED  BY <1>5, <1>6

\* Free hours lie in a slot, in any table whose order the server keeps.
LEMMA FreeOffered == TypeOK => FreeIsOffered
<1> DEFINE n == Cardinality(Booked)
<1> SUFFICES ASSUME TypeOK, Proper, NEW p \in Orders, KeepsOrder(p), NEW i \in Booked, NEW j \in Booked,
                    Opens(j) > Closes(i) + Hours,
                    \A k \in Booked : Closes(k) <= Closes(i) \/ Opens(k) >= Opens(j)
             PROVE  \E s \in Slots(p) : s.from <= Closes(i) /\ Opens(j) <= s.to
  BY DEF FreeIsOffered
<1>1. IsFiniteSet(Booked) /\ n \in Nat
  <2>1. Booked \subseteq 1 .. Len(table) /\ Len(table) \in Nat
    BY DEF Booked, TypeOK
  <2>2. IsFiniteSet(1 .. Len(table))
    BY <2>1, FS_Interval
  <2>3. IsFiniteSet(Booked)
    BY <2>1, <2>2, FS_Subset
  <2> QED  BY <2>3, FS_CardinalityType
<1>2. \A k \in Booked : Opens(k) \in Nat /\ Closes(k) \in Nat
  BY RowFields DEF Booked, Opens, Closes
<1>3. /\ p \in [1 .. n -> Booked]
      /\ \A k, l \in 1 .. n : p[k] = p[l] => k = l
      /\ \A k, l \in 1 .. n : k < l => Closes(p[k]) <= Closes(p[l])
  BY DEF Orders, KeepsOrder, Numbering
<1>4. \A b \in Booked : \E k \in 1 .. n : p[k] = b
  <2>1. p \in Injection(1 .. n, Booked)
    BY <1>3 DEF Injection, IsInjective
  <2>2. IsFiniteSet(1 .. n) /\ Cardinality(1 .. n) = n
    BY <1>1, FS_Interval
  <2>3. p \in Surjection(1 .. n, Booked)
    BY <1>1, <2>1, <2>2, FS_Injection
  <2> QED  BY <2>3 DEF Surjection
<1> HIDE DEF n
<1> DEFINE A == {k \in 1 .. n : Closes(p[k]) <= Closes(i)}
<1>5. PICK c \in 0 .. n : \A k \in 1 .. n : k \in A <=> k <= c
  <2>1. \A k \in A : \A l \in 1 .. k : l \in A
    <3> SUFFICES ASSUME NEW k \in A, NEW l \in 1 .. k PROVE l \in A
      OBVIOUS
    <3>1. l \in 1 .. n /\ k \in 1 .. n /\ (l < k \/ l = k)
      BY <1>1
    <3>2. Closes(p[l]) <= Closes(p[k]) /\ p[l] \in Booked /\ p[k] \in Booked
      BY <1>2, <1>3, <3>1
    <3> QED  BY <1>2, <3>1, <3>2
  <2>2. A \in SUBSET (1 .. n)
    OBVIOUS
  <2> HIDE DEF A
  <2> QED  BY <1>1, <2>1, <2>2, Prefix
\* Some booking closes before the free hours, and some opens after them.
<1>6. c >= 1 /\ c < n
  <2>1. PICK k \in 1 .. n : p[k] = i
    BY <1>4
  <2>2. PICK l \in 1 .. n : p[l] = j
    BY <1>4
  <2>3. k \in A
    BY <1>2, <2>1
  <2>4. l \notin A
    <3>1. Opens(j) <= Closes(j)
      BY DEF Proper
    <3> QED  BY <1>2, <2>2, <3>1 DEF Hours
  <2> HIDE DEF A
  <2> QED  BY <1>1, <1>5, <2>1, <2>2, <2>3, <2>4
\* The slot between the last of those that close and the next.
<1> DEFINE s == Between(p[c], p[c + 1])
<1>7. c \in 1 .. n /\ c + 1 \in 1 .. n /\ c \in A /\ c + 1 \notin A
  <2> HIDE DEF A
  <2> QED  BY <1>1, <1>5, <1>6
<1>8. p[c] \in Booked /\ p[c + 1] \in Booked
  BY <1>3, <1>7
<1>9. Opens(p[c]) <= Closes(i)
  <2>1. Opens(p[c]) <= Closes(p[c])
    BY <1>8 DEF Proper
  <2>2. Closes(p[c]) <= Closes(i)
    BY <1>7
  <2> QED  BY <1>2, <1>8, <2>1, <2>2
<1>10. Opens(j) <= Closes(p[c + 1])
  <2>1. Opens(p[c + 1]) <= Closes(p[c + 1])
    BY <1>8 DEF Proper
  <2>2. ~(Closes(p[c + 1]) <= Closes(i))
    BY <1>7
  <2>3. Opens(p[c + 1]) >= Opens(j)
    BY <1>8, <2>2
  <2> QED  BY <1>2, <1>8, <2>1, <2>3
<1>11. s.from = Opens(p[c]) /\ s.to = Closes(p[c + 1])
  BY DEF Between
<1>12. s.to > s.from + Hours
  BY <1>2, <1>8, <1>9, <1>10, <1>11 DEF Hours
<1>13. s \in Slots(p)
  <2>1. c + 1 \in 2 .. n /\ p[(c + 1) - 1] = p[c]
    BY <1>1, <1>6
  <2>2. s \in {Between(p[k - 1], p[k]) : k \in 2 .. n}
    BY <2>1
  <2> HIDE DEF s
  <2> QED  BY <1>12, <2>2 DEF Slots, n
<1> QED  BY <1>9, <1>10, <1>11, <1>13

\* available.php offers all that is free, whatever the order of equals, if the
\* server keeps the order of the derived table.
THEOREM FreeIsOfferedHolds == Spec => []FreeIsOffered
BY TypeCorrect, FreeOffered, PTL
=============================================================================
