----------------------------- MODULE MCListings -----------------------------
EXTENDS Listings

Listing(n, l, f, t, p) ==
  [name |-> n, place |-> l, tour |-> FALSE, from |-> f, to |-> t, paid |-> p]
Tour(f, t) == [name |-> 1, place |-> 1, tour |-> TRUE, from |-> f, to |-> t, paid |-> 1]

\* Two names, of which one is in two places; a window of days, one of an
\* afternoon, one never paid for, one without dates, which PHP takes for 1970,
\* and two that go beyond the last moment of a TIMESTAMP.
SomeListings ==
  {Listing(1, 1, 24, 96, 1), Listing(1, 2, 24, 96, 1), Listing(2, 1, 24, 120, 1),
   Listing(2, 1, 61, 64, 1), Listing(2, 1, 24, 96, 500), Listing(1, 1, 0, 0, 1),
   Listing(1, 3, 24, 200, 1), Listing(1, 4, 172, 182, 1)}

\* Bookings of days, of a morning and an afternoon, and without dates.
SomeTours == {Tour(24, 24), Tour(48, 72), Tour(120, 120), Tour(33, 35), Tour(38, 41), Tour(0, 0)}

\* Listings that a TIMESTAMP can hold.
OrdinaryListings == {q \in SomeListings : q.to < 168}

ListingsAndTours == SomeListings \cup SomeTours

SomeTimes == {30, 49, 51, 53, 62, 84, 110}
OneTime == {30}
=============================================================================
