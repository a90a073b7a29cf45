# geopher in TLA+

This directory specifies the moving parts of geopher: the scripts under `src/www` that
keep state, the pages that call them, the tables and mails they share, and, of the Perl tree
that the repository carries, the two mechanisms below its scripts where processes and
signals meet. Eight specifications are model-checked with TLC, and what matters most about
each is proved with TLAPS for every value of its constants.

geopher is a web site, not a daemon. Nearly every piece of state is a file or a table that
short scripts touch without a lock and without a transaction, or a variable of a page whose
callbacks come in an order nobody chose. That is what the specifications are about.

1. [Inventory](#inventory)
2. [Specifications and code](#specifications-and-code)
3. [Runs](#runs)
4. [Fairness](#fairness)
5. [Proofs](#proofs)
6. [What the runs found](#what-the-runs-found)
7. [Not modelled](#not-modelled)
8. [Plan](#plan)

## Inventory

Paths are relative to `src/`. Most of the repository is vendored or generated: a Perl tree
(two copies of its modules), prototype.js, neural networks, images, dated copies of the same
pages. The program's own logic is in the following; the rows *Response mail* and *Safe
signals* reach into the Perl tree, as far as the scripts depend on it.

| component | state | operations | interacts with |
|---|---|---|---|
| **Comet channel** `www/api/comet/backend.php`, `index.html` | `data.txt` and its modification time; the fields `timestamp` and `noerror` of each page's `Comet` object | store a message; long-poll; connect, receive, fail, reconnect after five seconds | pages and scripts by HTTP, scripts with each other through the file, everyone through the pool of workers of the web server |
| **Movement store** `www/api/movement/push.php`, `json.php`, `Geopher.sql` | `data.csv`; the tables Positron and Geopher | push (log, insert, insert, answer); look up by coordinates | parallel runs through the log and the tables |
| **Tracking page** `www/api/index.php`, `pull.php` | the timer, the calls in progress, the element `#log` | a call every 15 s: locate, ask, show | browser's geolocation by callback, `pull.php` by AJAX, table piperpal |
| **Form page** `www/cft/s/index.php`, `www/index.cgi` with the form of `Geopher.pm` | the element `#status` with the hidden inputs `glat` and `glon`; each script's request | ask for the position, fill in the form, show a failure, submit | geolocation by callback, the parser of the page, the next page through what was submitted |
| **Listings** `pushgeopher`, `www/checkout.php`, `www/ppcharge.php`, `www/piperpal-autocomplete-names.php` and `-locations.php`, `piperpal.sql` | the table piperpal | insert a listing; list the open names | writers and readers through the table |
| **Availability of tours** `www/cft/available.php` | none of its own (a user variable during one query) | free slots between bookings | table piperpal |
| **Location request** `www/location/name/search`, `submit`, `search/submit`, `locate` | the inputs of the form; a log; mails in flight | ask the browser for the position; submit, reload; log, mail, say what came of it; accept, ignore, negotiate, cancel | people by mail, the form by callbacks |
| **Response mail** `www/r`, `perl5/lib/perl5/MIME/Lite.pm`, `perl-5.36.0/util.c` | two pipes and two processes for each request | mail while a module is loaded: fork, exec, print, close, wait | sendmail through a pipe, the visitor through what the module returns |
| **Safe signals** `perl-5.36.0/mg.c`, `pp_sys.c` | the counts of caught signals, `%SIG`, the signal mask, the C stack | catch; despatch between two ops; assign to `%SIG`; fork | the kernel by signals, Perl code by handlers |
| **Search module** `Geopher.pm`, `Geopher.pl`, `www/Geopher.cgi` | none that a statement of this commit changes | print pages around queries | table piperpal, Form page |
| **Read end points** `www/api/json.php`, `name/json.php`, ... | none | one SELECT each | the tables |
| **Robot and resolver** `www/api/movement/robot.php`, `www/api/resolver` | none: their statement is refused | | |

Where it is hard, and what makes each part correct:

* *Comet channel.* Opening with truncation, writing, reading the modification time and reading
  the file are four system calls; any two scripts interleave between them. Time stamps are
  whole seconds. A poll holds its worker until the file changes, also when its page is gone.
  Connections and workers die. Correct means: pages see the messages in order, miss one only
  where the second-wide stamp hides it, never see the bytes of two messages mixed unless two
  posts overlapped, keep reconnecting, and cannot fill the pool.
* *Movement store.* Three effects with no transaction and no look at a result; death between
  any two; reloads. Correct means: no row without a request that was logged, or whose line could not be
  written, no row twice for one run, and, where failing queries throw, a visitor who got the page is in both
  tables and can be found.
* *Tracking page.* Calls overlap and end in any order; there is no time limit and no error
  callback, and a failing query may still be an answer. Correct means: what is shown was so while the call ran, is
  not replaced by something older, and in the end is about where the visitor is.
* *Form page.* Two scripts ask for the position and fill in one element, which the parser may
  not have reached yet; either may be answered twice, the second time from a cache. Correct means: a position
  that came when the form was there is in it, and no answer replaces the coordinates of another.
* *Location request.* Positions come by callback in any order, into inputs that are typed into as well and
  that a browser keeps; a page can be reloaded, a letter is read long after it was written, more than once or never,
  and nothing is remembered of an answer. Correct means: the place in a letter is its sender's own, not one that
  another letter brought, and nobody receives what the script has not tried to log.
* *Response mail.* Two processes wait for each other through two pipes that both have inherited; exec and
  fork fail, either process dies, a signal interrupts a read. Correct means: a page means a mail, a
  refusal means none, no mail is cut off unnoticed, nobody waits for ever, nothing is left behind.
* *Safe signals.* Signals come between any two C statements; handlers are Perl code, which
  looks for signals again, dies, assigns to `%SIG` and forks. Correct means: no handler within itself, a
  mask that is what the calls in progress make it, but for what a croak of a C handler leaves blocked, no
  signal forgotten, no unbounded nesting.
* *Listings, tours.* A clock of twelve hours written where one of twenty-four is read; a key
  that can run out into `ON DUPLICATE KEY UPDATE`; a LIMIT; slots computed from the order of one
  column, which the server need not keep; dates beyond the range of a TIMESTAMP. Correct means: what is listed was
  paid for and is open, what is open is listed, what is offered is free, what is free is offered.

`PROJECT.json` lists the hazards at their lines with the properties that would catch them.

## Specifications and code

Every definition that models code is in the `map` of `PROJECT.json` with its lines. A few definitions stand
beside the one they are a variant of, without being used by the specification (`FromLetters` beside `New`,
`NothingNewer` beside `NothingNew`, `StampsOnlyOnOpen` beside `Modify`, ...): each is a plausible mistake in
that place, and makes a property fail when it is put in.

### Comet, Bulletin

`Comet` composes the server and its pages: any number of `Clients`, `Workers` and `Messages`.

* `text` is `data.txt` byte by byte, each byte known by the message it is from, so that a short
  message written over a long one leaves its tail (`Overlay`); `mtime` is `filemtime`, `now` the clock.
* `worker[w]` says where the script of a worker stands. A post is `AcceptPost`, `Truncate` (the
  `open(O_TRUNC)` inside `file_put_contents`), `Write`. A poll is `AcceptPoll` (lines 14-15, the first
  `filemtime`), `LookAgain` (one turn of the loop of lines 16-21), `Answer` (lines 24-28: read the
  file, send it with the time seen *before*). Between any two of these anything else may happen.
* A page is `calling`, `served`, `answered` or `waiting`. `Receive` is `onSuccess` followed by
  `onComplete` and the `connect` it calls; `CompleteFailed` is `onComplete` alone, reached by `Break`
  (the connection is lost; the worker goes on polling for nobody, `open = FALSE`) or `KillPoll`. `Reconnect`
  is the timer of line 46.
* A message can be lost on its way (`LosePost`) or with its worker (`KillPost`), before or after
  the file was truncated.

The five seconds of the timer and the 10 ms of `usleep` are not counted: the clock may advance
any number of seconds, or none, while they last. The loop makes no difference between them.

`Bulletin` is what the channel promises: a board with one issue at a time, and readers who see
issues in order, may miss some, may see one twice in a row and never three times.
`ImplementsBulletin` is `Bulletin!Spec` under the mapping *issue = number of modifications of data.txt*,
*seen = the modifications that the answers on a page were read from*. Numbers of modifications
(`version`), the time of reading (`at`), `overlap` and `broken` are history: nothing of the code
depends on them.

### Movements

Any number of processes of `push.php` (`Handlers`), each at the step it will take next: `Log`,
`StorePositron`, `StoreGeopher`, `SendPage`. `LogFails` is a line that could not be written, which lines
38-41 do not look at, so that the INSERTs follow all the same; `lost` holds these lines, as history.
`QueryFails` is a query that has no effect, for whatever reason; `Die` is death at any moment, or a database
that cannot be reached. A query that the server must refuse has no other choice than to fail
(`PositronTakes`, `GeopherTakes`). Two parameters say what the installation decides and the repository does
not: `Strict` (the server refuses what does not fit) and `Throws` (mysqli throws, the default since PHP
8.1). `Rounded`, `StoredAltitude` are what `DECIMAL(8,6)` and `DECIMAL(9,6)` do to a value; a missing field
arrives as the empty string. `Found` is the query of `json.php`.

`RetriesUnseen` says that pushes that are repeated, whatever the first attempt came to, do not show: a
look-up has no more rows than different requests were made for the place, by runs that came past the log
(`Pushed`). `RowsAreCounted` says by how much repetitions make the tables longer, row by row: a row is in a table no
more often than lines that make this row are in the log, or are missing there. `PositronLines` and `GeopherLines`
are those lines, `Copies` the rows.

### Tracker

`Fire` is the function of `setInterval`; `Locate`, `Answer`/`QueryFails`, `Receive` and `Fail` are the life
of one call; `Move` and `Change` are the world. Time is kept as *ages*, so that there is no bound on how
long a page is open: `since` is the age of the last run of the timer, `c.age` that of a call, `gone[x]` how
long a place or a table has not been the case. `Tick` stops where a timer or a call must end. `Period` is
the 15 s of the code. How late a timer may be (`Late`) and how long a call may last (`Slowest`) are not in
the code, which sets no limit; a browser and a server do, and they are parameters. With `Slowest` a call
without end is assumed away: `index.php` names no limit, and a browser that had none either could let calls
pile up for ever. `QueryFails` is a query that fails while the status of the answer is 200: `pull.php` has
sent its first line before, so that jQuery's `success` shows what there is, an empty line, the text of an
error or the form (`Failure`). Where nothing was sent before, the status is 500, and it is `Fail`.

### FormPage

`Pages` are the pages a visitor goes between. `scripts` lists the scripts of a page above its form and says of
each whether its `error` shows the failure: `<<FALSE, TRUE>>` is `www/cft/s/index.php`, one script is
`www/index.cgi`. `remembers` is the form that `Geopher.pm:123` writes with the coordinates of the address:
those submitted last, or of a link. `RunScript`
and `ParseForm` are the parser; `Succeed` and `FailToLocate` the callbacks; `Submit`, `Reload` and `Visit`
leave the page, whose callbacks then never come. The comments of the page have seen "a cached result coming
back" that hits `success` twice (`www/cft/s/index.php:54`, `:169`): an answer brings any place, new or old,
and a request that was answered may be answered again. Nothing is assumed of a request that is never
answered. `status` is the element `#status`: absent until the form is parsed, then its class and what its
inputs say.

### Listings

`Insert` is the one statement of the three writers, `Clock12` the conversion of `date("Y-m-d h:i:s", ...)`,
`Duplicate` the `ON DUPLICATE KEY UPDATE` that is met only when the key has run out. `Stored` is what a
TIMESTAMP makes of it: the zero date beyond January 2038 (`Last`). `Read` is the statement of the readers;
its LIMIT counts the rows of `SELECT DISTINCT name,glat,glon`, and which rows of one name come first is open
(`First` is the set of pages the server may give). `Slots` is the query of `available.php` for the order `p`
in which the rows reach `@lastEndTime`. Its ORDER BY stands in a derived table, where a server may drop it:
`Orders` are all orders, `KeepsOrder(p)` those of a server that keeps it. That `@lastEndTime` is read before
it is assigned, column by column, is what the query relies on and what MySQL has always done without
promising it.

The writers do not share a database: `pushgeopher` and `checkout.php` write to one that nothing here
reads, `ppcharge.php` hands its statement to YayLocation, which is not in the repository and is taken to
run it where the readers look. The table of the specification is either; what is *read* from it has come
through `ppcharge.php`.

### Location

`Open`, `Type`, `Click`, `Answered` and `Submit` are a person's form (`search/index.html`): its inputs are
text inputs, which anything may be typed into, and getMovement may be clicked several times, each click
answered with any place where the person was since, in any order, or not at all. `Back` is a form that was
left and is shown again: the browser may have kept what its inputs said (`kept`), and the page itself with
the clicks it was waiting for. `Submit` and `Reload` begin a run of `submit/index.php`, whose steps are
`Log`, `Mail` and `Die`; a line that could not be written counts as logged, as error_log is not looked at.
The page that says what mail() returned is output and is left out: a script that dies after mail() leaves a
letter and no page. `Deliver` is the mail system, which is external: letters arrive late or never. `Follow`
is the link to `locate/`, `Answer` is `process_location.php`, which answers whatever it is sent: it
remembers nothing, so that accepting after cancelling is possible and is in the specification. After
*accept* the target may `Open` the form and ask back, with a form of its own. `own`, where a person has been
since their first form or what they typed, and `true` are history.

### Mail

One request of `www/r`. `Fork`, `ForkFails`, `ParentCloses`, `ReadErrno` and `Interrupted` are `my_popen`,
`Write` and `BrokenPipe` the printing of `MIME::Lite`, `Close` and `Reap` are `my_pclose`; `ChildCloses`,
`Exec` and `ExecFails` are the child, then sendmail (external). `writeEnd`, `readEnd` and `errEnd` say who
holds which end of the two pipes, on which every blocking read, every end of file and every SIGPIPE depends.
`ignored` and `checks` are two facts about the process that the repository does not decide: whether the web
server left SIGPIPE ignored, and whether the pipe for errno could be made. `KillScript` and `KillChild` are
death at any moment. `page` and `refused` are what `require` makes of the value of `Geomail.pm`, which is
that of `send_by_sendmail`, `($? >> 8) ? undef : 1`.

sendmail is taken to be what its manual says: exit 0 means that it has taken the mail over, and it never
ends with an error after it has. The reading end of the pipe for errno, which only the script has after the
fork, is not tracked. The only mail of `Geomail.pm`, of about 1.5 KB, fits one buffer of PerlIO, which is
written when the pipe is closed: `Size = 1`. Larger sizes are any other mail sent in the same way; only
those can be cut off.

### Signals, Deferred

The C stack above the program is the sequence `frames`: frames of `despatch_signals`, each at a signal of
its loop, and of `magic_setsig`. `Catch` is the C handler `csighandler3` with the increments it may lose,
`Overflow` its croak at `SIG_PENDING_DIE_COUNT`, out of any number of C handlers that have interrupted each
other, `AsyncCheck` is `PERL_ASYNC_CHECK` between two ops, of the program or of a handler, `Skip`, `Block`,
`Call`, `Return` and `LoopEnds` are the loop, `Dies` is a handler that dies, with `Unwind` for what the
exception leaves and the mask it restores; `SetSig`, `SetChecks` and `Install` are an assignment to
`$SIG{s}`; `Fork` is the child after `pp_fork`. `Raise`, `Deliverable` and `Default` are the kernel.

A croak may come anywhere in `despatch_signals` and `magic_setsig`, also between `sigprocmask(SIG_BLOCK)`
and `SAVEDESTRUCTOR_X` (`mg.c:1646-1652`, `1739-1743`), and while LEAVE runs a destructor it has taken off:
then the signal stays blocked although its own C handler has not croaked. `Losable` are the frames that may
lose their destructor so, and `overflown` is the history of all signals that a croak may have left blocked.

`Deferred` is what perlipc promises: a signal is noted when it comes, answered later, once for all
that have come by then, and never while its handler runs. `ImplementsDeferred` is `Promise!Spec` under
*owed = pending*, *active = a frame runs its handler*. That a noted signal is answered *at all* is not in
`Deferred`: it is `PendingIsSeen`, and an exception may prevent it (`abandoned`, history).

### Composition

`Comet` composes its server with its pages, `Movements` its writers with its reader, `Tracker` the page
with `pull.php`, `Listings` the writers, the readers and the tours over one table. There is no
larger composition to check: the components meet only in the tables of piperpal, of which
`Tracker` needs no more than that it changes (`Change` is any step of `Listings`), and in a form's
coordinates, of which `Listings` needs nothing. `Location` composes the form, the script, the mail
system and the answers; `Mail` the script with its child. Of `Signals` a request of `www/r` meets only
that a handler may interrupt a system call, which is `Interrupted` of `Mail`: no script of `www/r` assigns
to `%SIG`, so that the signals are those of the modules and of the web server.

## Runs

States are distinct states.

| run | instance | states | what it shows |
|---|---|---|---|
| `comet` | 1 page, messages of 1 and 2 bytes, 3 workers, 2 s, 1 failure, fair | 71,425 | in which order a page shows what, what it can miss (`MissedOnlyWithinSecond`, `StampsIncrease`), when bytes mix (`MixedOnlyByOverlap`), how failures are retried (`HastyRetryOnlyOnce`), that polls cannot use up the pool (`PollersBounded`), that the channel is a bulletin, that pages catch up (`CatchesUp`) and posts are not starved by polls (`PostsLand`) |
| `movements` | 2 processes, 4 kinds of request, 3 runs, strict and throwing | 15,911 | log, tables, answers and look-ups agree, also where the log fails, and repetitions do no harm to look-ups |
| `movements_example` | the documented example | violation | pushed and not found |
| `tracker` | period 2, calls last 3 at most, fair | 137,096 | overlapping calls are bounded, how far an answer can go back, what is shown is no older than its call, and the page shows the answer for where the visitor stays again and again |
| `form` | 4 places, the two scripts of the push page, the one of the search page, which remembers | 5,846 | what is filled in and kept, by answers that come twice, early or from a cache, also where the form is written with coordinates |
| `listings` | 8 listings and 6 bookings, 7 moments, key up to 3, LIMIT 2 | 684,226 | who is listed (`ListedWasAsked`), who must be (`AskedIsListed`), and that free time is offered (`FreeIsOffered`) |
| `listings_slots` | 6 bookings, one moment, key up to 4 | violation | a slot with a booking in it |
| `listings_window` | 6 listings a TIMESTAMP can hold, 7 moments, key up to 3 | violation | a listing of the afternoon on a page in the morning |
| `signals` | 2 signals raised twice each, 2 handlers, 2 assignments, 1 fork, croak at 3, fair | 839,657 | handlers do not nest for one signal, what the mask is, croaks included, who can be left pending, what a changed `$SIG{s}` can meet, how deep the stack gets, the promise of perlipc, and that a pending signal is seen |
| `signals_stranded` | the same without assignments and fork | violation | a signal that ops go on without looking at |
| `mail` | a mail of 4 buffers, a pipe of 2, fair | 788 | what the visitor is told, what is mailed, what is left behind, that script and sendmail are never blocked on each other (`NeverBothWait`), and that the request ends |
| `location` | 2 people, 2 places, 1 click at a time, 2 submissions | 1,789,120 | whose place a letter says however late it is read, and that it was logged first |

### Bounds, and why they are enough

* `MaxTime` stops the clock of `Comet`. Two seconds are needed for a poll within and after the second
  of a modification. The proofs have no such bound.
  Two messages, of which the second is longer, are the least that can mix, and each is
  stored in two modifications, so that five contents can be told apart. Three workers are a post and
  two polls of one page (the living one and the one of a lost connection), the smallest pool in
  which nothing starves. Two workers would be used up by them: that is what `PollersBounded` says, not
  an accident of the model.
* `MaxFailures` bounds the failures of one page's requests. One failure is the first (`noerror` still
  holds), or a later one; `CompleteFailed` after `Receive` and before it are both reached. That a second failure
  is never retried at once is therefore in the theorem only.
* `MaxRuns` of push.php: three runs by two processes are two requests at once and the repetition of one.
  `CHECK_DEADLOCK FALSE` stands in the configurations of `Movements` because the runs are
  bounded: when all have ended there is nothing left to do.
* In `MCMovements` ten units make the last decimal. The four requests are a complete one, one that
  is rounded onto it, the one the site's own form sends (no size) and one that overflows.
* `Tracker` has no bound on time. `Period`, `Late` and `Slowest` are the smallest numbers with calls
  shorter than a period, and with calls that last a period and a half and so overlap.
* `FormPage` has no bound but its places: two for each request to be answered with.
* `MaxId` is 16,777,215 in the schema and `Limit` is 50; both are boundaries that are met the same way at 3
  (4 in `listings_slots`) and 2, with two rows of one name before one of another. The moments are those
  around noon, midnight and the ends of the windows; `Last` stands for January 2038, soon after them.

* `Signals`: with two signals one is before and one behind the loop's position. `DieCount` is 120 in the code; three
  is reached by two signals raised twice, and is more than a single signal needs to be caught twice. Each
  signal can come while its handler runs, and again after it was seen. Two assignments are a change
  during a change, one of them made by a handler of the other's check; one fork is a fork at any point. The
  proofs are for any number of signals and have no bound on any of these.
  `CHECK_DEADLOCK FALSE`: the process may end, and with all arrivals used up it has nothing left to look at.
* `Mail`: the mail is larger than the one of `Geomail.pm` and than the pipe, so that writing blocks, and by
  more than one buffer, so that sendmail can stop reading before and after the script has blocked.
  `CHECK_DEADLOCK FALSE`: a request ends. That nobody waits for ever is what `NeverBothWait` and
  `RequestEnds` say instead.
* `Location`: two submissions are a request and asking back, a request and its repetition, or two requests
  at once. Two places are one that a person has been at, or typed, and one that only another has. One click
  at a time still gives any order of answers and moves; more at once are in the proof, which is for any
  number. `Answer` and `Move` are always possible for somebody, and deadlock is checked.

Deadlock is checked in every run that is not named above. Symmetry is used in the runs of `Movements`
(processes) and `Location` (everything), which check safety only.

## Fairness

* `Comet`: every process that can run does (WF on the steps of each worker), answers arrive and timers
  fire (WF on `Receive` or `Reconnect`), and the queue of the web server is first come, first served, so
  that a request that again and again finds a free worker is accepted (SF on `AcceptPoll` and
  `AcceptPost`; WF would not do, as another request may take the worker first). Nothing has to be sent, to fail
  or to be lost, and the clock need not advance.
* `Tracker`: time passes, the timer runs and what arrives is received (WF). A call that is made again and
  again succeeds again and again (SF on locating, on answering, and on receiving rows, for some call): any
  number of calls may fail, with an answer or without, but not all of them from some moment on. Without that
  no page could become current.
* `Signals`: every op ends and every handler returns or dies (WF on `Interpret`, the interpreter's own
  steps). Nobody has to raise a signal and the kernel need not deliver one.
* `Mail`: both processes run and sendmail does not hang (WF on the steps of each). Nobody is ever killed or
  interrupted by fairness. That the script steps also assumes that a fork which fails with EAGAIN, and which
  `my_popen` repeats every five seconds without a limit (`util.c:2869-2883`), succeeds or fails for another
  reason in the end.

`Movements`, `FormPage`, `Listings` and `Location` state no liveness: no script of the first and the last
two waits for anything, a browser may never answer a request for the position (`getCurrentPosition` is
called without a timeout, and a visitor may ignore the question), and the mail system may lose every letter.

## Proofs

Each `*_proofs` module extends its specification. The only assumptions are the named `ASSUME`s on
constants, which say of what type they are, that sizes, periods and bounds are numbers,
and, where distinct values must stay distinct, that they are (`ShippedAssumption`, `ValuesAssumption`,
`PlacesAssumption`, `BlankAssumption`). TLC evaluates them in the runs.

**Comet_proofs.** For any pool, pages, messages and lengths. The stamps of answers are in order because of a
chain that no single property states, `OrderInv`: at most one worker serves a page and it compares with the
page's timestamp (`ServedByOne`), that timestamp is the stamp of the last answer (`TimestampIsLast`), a
worker knows no stamp from the future (`StampsArePast`), and therefore an answer on its way may follow what
is shown (`ReplyFits`). That a modification is shown at most *twice* needs more: a page which already shows
the present modification can only get one more answer about it, with the file's own stamp (`PollsKnow`,
`ShownKnown`), after which the loop waits. From the same invariant follow `MissedOnlyWithinSecond`,
`ShownAtMostTwice`, `StampsIncrease` and the refinement `ImplementsBulletin`. `OverlapInv` says why bytes
cannot mix before two posts overlap: the file is empty while one worker is about to write. `NoErrorInv`
gives `HastyRetryOnlyOnce`. `GoneInv` gives `PollersBounded`: the polls of a page that nobody waits for
(`GonePolls`) are no more than its connections that broke, as every other poll is the one the page waits for
(`ServedByOne`). `PoolLasts` adds these up over the pages: a pool of more than `Cardinality(Clients) * (1 +
MaxFailures)` workers always has one that no poll holds, which is left to the posts. Lemma `Places` is the
counting behind it, what is put into finitely many places with at most n in each; the run `comet` has the
smallest such pool.

**Movements_proofs.** For any requests, in all four modes. `StoreInv` adds to the properties what a process
at each step has already done (`Knows`). `CountInv` is a counting argument: processes between the log and an
insert (`PositronDue`, `GeopherDue`) have a line, written or lost, that no row accounts for yet, so that the
copies of a row and the processes that are about to make another are together never more than its lines. One
count for the whole table would not do: a row too many of one kind could hide behind a row too few of
another. Lemma `Moves` says what one process does to the processes that are due, `LinesAppend` and
`CopiesAppend` what an append does to the other two counts. `GeopherHasPositron` is proved where queries
throw, which is where it is true (`ReferencesHold` says so). `RetriesUnseenHolds` maps what a look-up
returns to the contents of the requests, of which there are no more (lemma `FewerValues`).

**Tracker_proofs.** For any period and any duration of calls. `SpacedInv` (calls begin a period apart)
bounds the calls, by the number of multiples of a period below `Slowest`. `OrderInv` adds that an answer on
the page is older than any call in progress, or younger by a period at least. `FreshInv` dates what each
call carries.

**FormPage_proofs.** For any pages, with any number of scripts, remembering or not, and any places.
`FormInv` adds to the properties that the form is there exactly from its parsing on and what it may say.

**Listings_proofs.** For any requests, moments and bounds. `RowsAsAsked` says that a row is its request,
converted, but for the last of a full table; `ClockFact` that the conversion is off by less than half a day
either way, and `StoredFact` that it may end at the zero date. `FreeIsOffered` holds of every table and
every order that a server which keeps the order may choose, by counting: the bookings that close before the
free time are a prefix of the order (`Prefix`), and the slot after the prefix contains the free time.
`AskedIsListed` follows from what `First` says of every page. `OpenWellWithin` says that who asked for a
window around the moment by more than half a day is open then, whatever the clock of twelve hours made of
it.

**Signals_proofs.** For any number of signals, any handlers and any stack. `SignalInv` describes the stack
from bottom to top. `StackShape` says which frame may lie on which. `MaskShape` says that what a frame will
restore when it is left is exactly what the frames below it have blocked, except for signals that a croak
has left blocked (`LosableFacts`, `UnwindFacts`): without it `MaskBalanced` is not inductive, as leaving a
frame would restore anything. `PendShape` and `CheckedShape` place each pending signal: in front of some
loop of the stack (`LoopAhead`), counted (`sigPending`), or abandoned. `NoReentry` follows from the mask,
and needs it: a signal whose handler runs is blocked, so it is not caught, so it is not pending, so no loop
calls it. `LoopsBounded` is a counting argument over the stack: distinct signals for the frames that run,
and one frame more on top. `DeferredImplemented` maps each action to `Note`, `Begin`, `Forget`, `End`,
`Fork` or a stutter; that an exception ends one handler at a time is `StackShape` again.

**Mail_proofs.** For a mail and a pipe of any size. `MailInv` adds to the properties who holds which end at
each step (`EndsHeld`), that each buffer is in one place (`PartsKept`), and how far script and child have
come with each other (`InStep`, `Knows`). `NeverBothWait` follows from `EndsHeld`: a process that is blocked
on a pipe is blocked on an end that the other one holds, and nobody holds an end of the pipe whose end of
file it waits for. `EveryStepCounts` bounds a request: `StepsLeft`, what the script, the child and the mail
still have before them, is a natural number, at most `2 * Size + 13 + Capacity`, and every step, also one of
a failure or a death, makes it smaller. What `RequestEnds` adds to the two is that a process that is not
blocked steps, which is its fairness.

**Location_proofs.** For any people, places, clicks and submissions. `LocationInv` adds that a form, every
answer that may still come to it and what the browser keeps of earlier ones are its owner's own
(`FormIsOwn`), and what each step of a run has done (`RunsInOrder`).

### Proved and not in a run

The type invariant `TypeOK` of each module is a theorem (`TypeCorrect`), for every value of the constants,
and is not checked again by the runs; so are `RowsAreLogged` of `Movements`, which follows the order of two
statements, `ShownAtMostTwice` of `Comet`, which is a part of `ImplementsBulletin`, `OnlyLastChanges` of
`Listings`, which says that an insert changes at most the last row of a full table, and `EveryStepCounts`
and `PoolLasts`, which are about numbers that a single instance does not vary.

### Only model-checked

* `CatchesUp`, `PostsLand`, `StaysCurrent`, `PendingIsSeen`, `RequestEnds`: liveness under fairness is
  out of this prover's reach.
* Every other property of a passing run is proved as well. Whether a step is possible (ENABLED) is out of
  reach too: that there is no deadlock is checked in the runs, and `PoolLasts` and `NeverBothWait` prove
  what it would come from.

## What the runs found

* `movements_example`: coordinates with more than six decimals are rounded by the columns and compared
  exactly by `json.php:5`: the example push of `www/api/movement/index.cgi` is not found by the example pull.
* `listings_slots`: `available.php:11` takes `modified` for the end of a booking and `created` for its
  beginning, and all writers store them the other way round. A slot spans two bookings instead of the
  gap between them. It still contains the gap, if the server keeps the order of the derived table: that is
  `FreeIsOffered`.
* `listings_window`: `date("Y-m-d h:i:s")` (`pushgeopher:43`) loses the half of the day, so that a listing
  asked for from 13:00 to 16:00 is listed at 03:00.

* `signals_stranded`: `despatch_signals` clears `PL_sig_pending` before its loop (`mg.c:1629`), and a
  handler that dies is thrown out of the loop (`mg.c:3662`). A signal the loop had not reached stays in
  `PL_psig_pend` with the count at 0, and no op looks at it until another signal comes, while perlipc says
  that its handler is called after the opcode completes (`perlipc.pod:268`). `StrandedOnlyByDeath` and
  `PendingIsSeen` show that there is no other way to strand one.

Other facts that the specifications made visible, without a run of their own. `push.php:44` does not look at
the result of the first INSERT: where mysqli returns FALSE (before PHP 8.1), a request without w, h, l and re
is refused by a strict server for Positron and taken for Geopher, whose columns reference Positron
(`Geopher.sql:39-41`; written behind a column, REFERENCES is parsed and not checked by MySQL before version 9).
`GeopherHasPositron`, `AnsweredIsStored` and `AnsweredIsFound` are therefore properties of an installation that
throws, which the run `movements` is; `RowsAreCounted` and `RetriesUnseen` are proved for either.

`index.html:45` says that after a connection problem the page reconnects each five seconds; as `noerror`
starts TRUE, a page whose very first request fails repeats it at once, and `HastyRetryOnlyOnce` shows that
it is the only one. And a page may miss a message stored in the second of the last one it has seen;
`MissedOnlyWithinSecond` says that this is the only case.

`send_by_sendmail` (`MIME/Lite.pm:2707`) looks at `$? >> 8`, which is 0 for a sendmail that a signal killed:
`PageMeansMailed` has to except that case, though the module's documentation offers the result as the way to
know whether the mail was sent. And of a mail of several buffers, which `Geomail.pm` does not send, a script
that is killed while it prints leaves a part that is delivered (`CutOnlyByDeath`), as nothing but the end of
file marks the end of a mail.

A worker that is killed after it has truncated `data.txt` and before it has written (`backend.php:9`) loses
both texts, the one that stood there and the one it was to store. No property excludes that:
`MissedOnlyWithinSecond` counts modifications, of which a truncation is one, and `MixedOnlyByOverlap` is
about bytes that are there.

## Not modelled

* *The vendored Perl tree* but for its safe signals and pipes: the interpreter, the regular expressions,
  `cpan`, `dist`, `ext`. It is by far the largest part of the repository in lines, and almost all of the
  lines in a compiled language, so that the modelled share of those is small. It is not geopher's own code,
  its logic is that of a sequential program with its own test suite, and of its many mechanisms the two that
  are modelled are those where actors that run at the same time meet. `PERL_SIGNALS=unsafe`, sigaction of
  `POSIX.pm`, `__WARN__` and `__DIE__` are left out of `Signals`.
* *What was answered to a location request*: `process_location.php` remembers nothing, and accepts after a
  cancellation. There is no state a property could relate an answer to; `Answer` of `Location` may be taken
  in any order, and what is proved holds whatever was answered.
* *Search module*, *read end points*, *listing services*: queries and printing. The statements that would
  change state do not run in this commit, as `PROJECT.json` says of each.
* *Robot and resolver*: their INSERT has a WHERE and is refused.
* *Charges* (`checkout.php:27-53`, `ppcharge.php:40-54`): no run reaches them; an undefined
  object ends the script first. In `checkout.php` this
  is after the row was inserted and the page has said that the payment was processed.
* *Browser demonstrations*, *static services*, *prediction of matches*: pages of one script, fixed texts, and
  thin calls of a library that is not here.
* Within modelled components: formatting, the texts of mails and pages, maps, the sign of coordinates,
  prices and periods of requests.

## Plan

Done, in this order: `Comet` with `Bulletin` (the concurrent core), `Movements`, `Tracker`, `FormPage`, `Listings`
with the tours, `Signals` with `Deferred`, `Mail`, `Location`; each with its runs, its inductive invariants and its
theorems.

What would come next:

1. One more refinement: `Listings` as an implementation of a board of windows, exact up to half a day.
2. Several requests of `Mail` in one process, as under a persistent interpreter: `my_pclose` saves and
   restores the statuses of children that another wait has reaped (`pidgone`), which one request does not
   reach.
3. `Comet` with two pages in one run with both messages.
