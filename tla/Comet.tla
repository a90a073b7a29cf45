------------------------------- MODULE Comet -------------------------------
(***************************************************************************)
(* The comet channel: www/api/comet/backend.php, a PHP script that keeps   *)
(* one message in data.txt and long-polls its modification time, and the   *)
(* Comet class of www/api/comet/index.html, which polls it from a browser. *)
(*                                                                         *)
(* A request occupies one worker process of the web server from the moment *)
(* it is accepted until it answers or dies.  Between any two of the system *)
(* calls of backend.php (open with truncation, write, stat, read) another  *)
(* worker may run, and the clock, which stamps the file in whole seconds,  *)
(* may advance.                                                            *)
(***************************************************************************)
EXTENDS Naturals, Sequences, FiniteSets

CONSTANTS
  Clients,      \* browsers that have the page open
  Messages,     \* the texts that users will send, each sent at most once
  Workers,      \* the processes of the web server that run backend.php
  Shipped,      \* the text data.txt holds in the repository
  Size,         \* Size[m]: the length of m, in bytes
  MaxTime,      \* bound: the clock stops here
  MaxFailures   \* bound: the requests of one client that may fail

Texts == Messages \cup {Shipped}

ASSUME SizeAssumption == Size \in [Texts -> Nat \ {0}]
ASSUME ShippedAssumption == Shipped \notin Messages
ASSUME BoundAssumption == MaxTime \in Nat \ {0} /\ MaxFailures \in Nat

VARIABLES
  now,        \* the clock of the server, in seconds
  text,       \* the bytes of data.txt: text[i] is the message byte i is from
  mtime,      \* filemtime(data.txt)
  worker,     \* what each process of the server is doing
  post,       \* how far each message has got
  phase,      \* where the request loop of each client stands
  timestamp,  \* the field timestamp of each client's Comet object
  noerror,    \* its field noerror
  reply,      \* the answer travelling to a client whose phase is "answered"
  shown,      \* history: the answers a client has put on the page
  version,    \* history: how often data.txt has been modified
  overlap,    \* history: two posts have had data.txt open at the same time
  broken      \* history: how many requests of a client have failed

serverVars == <<text, mtime, version, overlap>>
clientVars == <<phase, timestamp, noerror, reply, shown, broken>>
vars == <<now, worker, post, serverVars, clientVars>>

-----------------------------------------------------------------------------
(* State.                                                                  *)

Free == [job |-> "free"]

\* A worker in the loop of lines 16-21: last is $lastmodif, cur $currentmodif;
\* open says whether the client is still there to read the answer.
PollJobs ==
  [job : {"poll"}, client : Clients, open : BOOLEAN, last : Nat, cur : Nat]

\* A worker about to open ("open") or to write ("write") the file on line 9.
PostJobs == [job : {"open", "write"}, msg : Messages]

\* The JSON object of lines 24-27, with the moment it was read and the
\* modification it shows, which the code does not send.
Replies == [text : Seq(Texts), stamp : Nat, at : Nat, version : Nat]
NoReply == [text |-> <<>>, stamp |-> 0, at |-> 0, version |-> 0]

Phases == {"calling", "served", "answered", "waiting"}
PostPhases == {"unsent", "sent", "accepted", "stored", "lost"}

TypeOK ==
  /\ now \in Nat \ {0}
  /\ text \in Seq(Texts)
  /\ mtime \in Nat \ {0}
  /\ worker \in [Workers -> {Free} \cup PollJobs \cup PostJobs]
  /\ post \in [Messages -> PostPhases]
  /\ phase \in [Clients -> Phases]
  /\ timestamp \in [Clients -> Nat]
  /\ noerror \in [Clients -> BOOLEAN]
  /\ reply \in [Clients -> Replies]
  /\ shown \in [Clients -> Seq(Replies)]
  /\ version \in Nat
  /\ overlap \in BOOLEAN
  /\ broken \in [Clients -> Nat]

Whole(m) == [i \in 1 .. Size[m] |-> m]

\* Writing m at offset 0 leaves the bytes of a longer text behind it.
Overlay(m, t) ==
  [i \in 1 .. (IF Size[m] >= Len(t) THEN Size[m] ELSE Len(t)) |->
     IF i <= Size[m] THEN m ELSE t[i]]

\* data.txt is shipped with the page, and every client connects on loading it.
Init ==
  /\ now = 1
  /\ text = Whole(Shipped)
  /\ mtime = 1
  /\ worker = [w \in Workers |-> Free]
  /\ post = [m \in Messages |-> "unsent"]
  /\ phase = [c \in Clients |-> "calling"]
  /\ timestamp = [c \in Clients |-> 0]
  /\ noerror = [c \in Clients |-> TRUE]
  /\ reply = [c \in Clients |-> NoReply]
  /\ shown = [c \in Clients |-> <<>>]
  /\ version = 0
  /\ overlap = FALSE
  /\ broken = [c \in Clients |-> 0]

-----------------------------------------------------------------------------
(* The clock and the server.                                               *)

Tick ==
  /\ now < MaxTime
  /\ now' = now + 1
  /\ UNCHANGED <<worker, post, serverVars, clientVars>>

\* The script of worker w ends.
NeverEnds(w) == worker
Release(w) == [worker EXCEPT ![w] = Free]

\* data.txt gets the bytes t, and the kernel stamps it.
StampsOnlyOnOpen(t) ==
  /\ text' = t
  /\ mtime' = IF t = <<>> THEN now ELSE mtime
  /\ version' = version + 1
Modify(t) ==
  /\ text' = t
  /\ mtime' = now
  /\ version' = version + 1

\* A worker accepts the request that stores m (lines 6-7; m is not empty).
AcceptPost(m, w) ==
  /\ post[m] = "sent"
  /\ worker[w] = Free
  /\ worker' = [worker EXCEPT ![w] = [job |-> "open", msg |-> m]]
  /\ post' = [post EXCEPT ![m] = "accepted"]
  /\ UNCHANGED <<now, serverVars, clientVars>>

\* What opening the file for writing leaves of it.
OpenedForUpdate == text
Opened == <<>>

\* file_put_contents first opens the file, which truncates it.
Truncate(w) ==
  /\ worker[w].job = "open"
  /\ Modify(Opened)
  /\ worker' = [worker EXCEPT ![w] = [job |-> "write", msg |-> worker[w].msg]]
  /\ overlap' = (overlap \/ \E v \in Workers : worker[v].job = "write")
  /\ UNCHANGED <<now, post, clientVars>>

\* It then writes the message and the script dies.
Write(w) ==
  /\ worker[w].job = "write"
  /\ Modify(Overlay(worker[w].msg, text))
  /\ worker' = Release(w)
  /\ post' = [post EXCEPT ![worker[w].msg] = "stored"]
  /\ UNCHANGED <<now, overlap, clientVars>>

\* A worker accepts a poll and takes its first look at the file.
AcceptPoll(c, w) ==
  /\ phase[c] = "calling"
  /\ worker[w] = Free
  /\ worker' = [worker EXCEPT ![w] =
       [job |-> "poll", client |-> c, open |-> TRUE,
        last |-> timestamp[c], cur |-> mtime]]
  /\ phase' = [phase EXCEPT ![c] = "served"]
  /\ UNCHANGED <<now, post, serverVars, timestamp, noerror, reply, shown, broken>>

\* The condition of the loop, line 16.
NothingNewer(w) == worker[w].cur < worker[w].last
NothingNew(w) == worker[w].cur <= worker[w].last

\* One turn of the loop: sleep, forget the cached stat, look again.
LookAgain(w) ==
  /\ worker[w].job = "poll"
  /\ NothingNew(w)
  /\ worker' = [worker EXCEPT ![w].cur = mtime]
  /\ UNCHANGED <<now, post, serverVars, clientVars>>

\* The loop has ended: read the file, answer with the time seen before.
\* The script of a client that is gone does the same, for nobody.
Answer(w) ==
  /\ worker[w].job = "poll"
  /\ ~NothingNew(w)
  /\ worker' = Release(w)
  /\ LET c == worker[w].client
     IN  \/ /\ worker[w].open
            /\ phase' = [phase EXCEPT ![c] = "answered"]
            /\ reply' = [reply EXCEPT ![c] = [text |-> text,
                 stamp |-> worker[w].cur, at |-> now, version |-> version]]
         \/ /\ ~worker[w].open
            /\ UNCHANGED <<phase, reply>>
  /\ UNCHANGED <<now, post, serverVars, timestamp, noerror, shown, broken>>

-----------------------------------------------------------------------------
(* The clients.                                                            *)

\* A user sends m from the form (doRequest).
Send(m) ==
  /\ post[m] = "unsent"
  /\ post' = [post EXCEPT ![m] = "sent"]
  /\ UNCHANGED <<now, worker, serverVars, clientVars>>

\* The last statement of onComplete.
KeepsNoError(c) == UNCHANGED noerror
ClearNoError(c) == noerror' = [noerror EXCEPT ![c] = FALSE]

\* onSuccess stores the timestamp, shows the message and sets noerror, so
\* that onComplete connects again at once and clears noerror.
Receive(c) ==
  /\ phase[c] = "answered"
  /\ timestamp' = [timestamp EXCEPT ![c] = reply[c].stamp]
  /\ shown' = [shown EXCEPT ![c] = Append(@, reply[c])]
  /\ phase' = [phase EXCEPT ![c] = "calling"]
  /\ ClearNoError(c)
  /\ reply' = [reply EXCEPT ![c] = NoReply]
  /\ UNCHANGED <<now, worker, post, serverVars, broken>>

\* onComplete without onSuccess: wait, unless noerror still holds.
CompleteFailed(c) ==
  /\ broken[c] < MaxFailures
  /\ broken' = [broken EXCEPT ![c] = @ + 1]
  /\ phase' = [phase EXCEPT ![c] = IF noerror[c] THEN "calling" ELSE "waiting"]
  /\ ClearNoError(c)
  /\ reply' = [reply EXCEPT ![c] = NoReply]
  /\ UNCHANGED <<now, post, serverVars, timestamp, shown>>

\* The connection of a poll breaks.  The worker that serves it does not
\* notice: it writes nothing before its loop ends.
Break(c) ==
  /\ phase[c] # "waiting"
  /\ CompleteFailed(c)
  /\ worker' = [w \in Workers |->
       IF worker[w].job = "poll" /\ worker[w].client = c
       THEN [worker[w] EXCEPT !.open = FALSE]
       ELSE worker[w]]

\* The timer onComplete sets after a failure, on line 46.
TimerOnlyIfNoError(c) == phase[c] = "waiting" /\ noerror[c]
TimerSet(c) == phase[c] = "waiting"

\* The five seconds are over.
Reconnect(c) ==
  /\ TimerSet(c)
  /\ phase' = [phase EXCEPT ![c] = "calling"]
  /\ UNCHANGED <<now, worker, post, serverVars,
                 timestamp, noerror, reply, shown, broken>>

\* The web server kills a worker that polls; its client sees the failure.
KillPoll(w) ==
  /\ worker[w].job = "poll"
  /\ worker[w].open
  /\ CompleteFailed(worker[w].client)
  /\ worker' = Release(w)

\* It kills a worker that stores a message: the file stays as it is, empty
\* when the worker had opened it.
KillPost(w) ==
  /\ worker[w].job \in {"open", "write"}
  /\ post' = [post EXCEPT ![worker[w].msg] = "lost"]
  /\ worker' = Release(w)
  /\ UNCHANGED <<now, serverVars, clientVars>>

\* A message is lost before the server accepts it; nobody is told.
LosePost(m) ==
  /\ post[m] = "sent"
  /\ post' = [post EXCEPT ![m] = "lost"]
  /\ UNCHANGED <<now, worker, serverVars, clientVars>>

-----------------------------------------------------------------------------
Next ==
  \/ Tick
  \/ \E m \in Messages : Send(m) \/ LosePost(m)
  \/ \E m \in Messages, w \in Workers : AcceptPost(m, w)
  \/ \E c \in Clients, w \in Workers : AcceptPoll(c, w)
  \/ \E w \in Workers : Truncate(w) \/ Write(w) \/ LookAgain(w) \/ Answer(w)
  \/ \E w \in Workers : KillPoll(w) \/ KillPost(w)
  \/ \E c \in Clients : Receive(c) \/ Break(c) \/ Reconnect(c)

Spec == Init /\ [][Next]_vars

\* The kernel runs every process, timers fire and answers arrive; the queue
\* of the web server is first come, first served, so that a request which
\* finds a free worker again and again is accepted.  Nobody has to send a
\* message, nothing has to break, and the clock need not advance.
Fairness ==
  /\ \A w \in Workers :
       WF_vars(Truncate(w) \/ Write(w) \/ LookAgain(w) \/ Answer(w))
  /\ \A c \in Clients :
       /\ SF_vars(\E w \in Workers : AcceptPoll(c, w))
       /\ WF_vars(Receive(c) \/ Reconnect(c))
  /\ \A m \in Messages : SF_vars(\E w \in Workers : AcceptPost(m, w))

FairSpec == Spec /\ Fairness

-----------------------------------------------------------------------------
(* Properties.                                                             *)

\* The modifications of data.txt are the issues of a bulletin, and pages see
\* them in order, one at most twice: every step of the channel is a step of
\* the bulletin or none.
Bulletin == INSTANCE Bulletin
  WITH Readers <- Clients,
       issue <- version,
       seen <- [c \in Clients |->
                  [i \in 1 .. Len(shown[c]) |-> shown[c][i].version]]

ImplementsBulletin == Bulletin!Spec

LastShown(c) == shown[c][Len(shown[c])]

\* An answer that stamped the file's last modification, and was read after
\* the second of that modification had ended, carries what the file holds:
\* only a poll within the very second of a modification can miss a message.
MissedOnlyWithinSecond ==
  \A c \in Clients :
    (shown[c] # <<>> /\ LastShown(c).stamp = mtime /\ LastShown(c).at > mtime)
      => LastShown(c).text = text

\* backend.php takes the stamp before it reads the message, so that a page
\* may show one modification twice, but never three times.
ShownAtMostTwice ==
  \A c \in Clients : \A i, j \in 1 .. Len(shown[c]) :
    i + 2 <= j => shown[c][i].version < shown[c][j].version

\* Each answer a page shows is stamped later than the one before it, although
\* connections break, workers outlive them and polls are repeated.
StampsIncrease ==
  \A c \in Clients : \A i, j \in 1 .. Len(shown[c]) :
    i < j => shown[c][i].stamp < shown[c][j].stamp

Unmixed(t) == t = <<>> \/ \E m \in Texts : t = Whole(m)

\* A page shows a message, or an empty file a post has truncated, and never
\* the bytes of two messages, unless two posts had the file open at once.
MixedOnlyByOverlap ==
  ~overlap =>
    \A c \in Clients : \A i \in 1 .. Len(shown[c]) : Unmixed(shown[c][i].text)

\* A client's long polls hold one worker, and one more for each of its
\* requests that has failed: they cannot use up a larger pool.
PollersBounded ==
  \A c \in Clients :
    Cardinality({w \in Workers : worker[w].job = "poll" /\ worker[w].client = c})
      <= 1 + broken[c]

\* Only the failure of the very first request of a page is followed by a
\* request that does not wait five seconds.
HastyRetryOnlyOnce ==
  [][\A c \in Clients :
       (broken'[c] > broken[c] /\ phase'[c] = "calling")
          => broken[c] = 0 /\ shown[c] = <<>>]_vars

\* Every client comes to know every modification time of the file, or a
\* later one, whatever breaks on the way.
CatchesUp ==
  \A c \in Clients, t \in 1 .. MaxTime : mtime = t ~> timestamp[c] >= t

\* A message that has been sent is stored or lost: polls that last until the
\* next message do not keep the next message out.
PostsLand ==
  \A m \in Messages : post[m] = "sent" ~> post[m] \in {"stored", "lost"}

-----------------------------------------------------------------------------
(* The invariants behind the properties.                                   *)

OpenPoll(w, c) ==
  worker[w].job = "poll" /\ worker[w].open /\ worker[w].client = c

\* At most one worker serves a page, and it compares with the page's timestamp.
ServedByOne ==
  \A c \in Clients, w \in Workers : OpenPoll(w, c) =>
    /\ phase[c] = "served"
    /\ worker[w].last = timestamp[c]
    /\ \A v \in Workers : OpenPoll(v, c) => v = w

\* Nothing is stamped in the future.
StampsArePast ==
  /\ mtime <= now
  /\ \A w \in Workers : worker[w].job = "poll" => worker[w].cur <= mtime

\* An answer that may be shown next to a page that has shown s.
Follows(s, r) ==
  \A i \in 1 .. Len(s) :
    /\ s[i].version <= r.version
    /\ s[i].stamp < r.stamp
    /\ i < Len(s) => s[i].version < r.version

\* What is known of an answer, on its way or shown.
Known(r) == r.version <= version /\ r.stamp <= mtime /\ r.at <= now

Fresh(r) == (r.stamp = mtime /\ r.at > mtime) => r.text = text

\* A page whose last answer shows the file as it still is.
UpToDate(c) == shown[c] # <<>> /\ LastShown(c).version = version

TimestampIsLast(c) ==
  timestamp[c] = IF shown[c] = <<>> THEN 0 ELSE LastShown(c).stamp

ReplyFits(c) ==
  phase[c] = "answered" =>
    /\ Follows(shown[c], reply[c])
    /\ Known(reply[c])
    /\ Fresh(reply[c])
    /\ UpToDate(c) => reply[c].stamp = mtime

\* A poll that was accepted after the page was up to date knows mtime.
PollsKnow(c) ==
  \A w \in Workers : OpenPoll(w, c) /\ UpToDate(c) => worker[w].cur = mtime

ShownKnown(c) ==
  \A i \in 1 .. Len(shown[c]) :
    /\ Known(shown[c][i])
    /\ (i < Len(shown[c]) /\ shown[c][i].version = version)
         => shown[c][i + 1].stamp = mtime

ShownSorted(c) ==
  \A i, j \in 1 .. Len(shown[c]) : i < j =>
    /\ shown[c][i].stamp < shown[c][j].stamp
    /\ shown[c][i].version <= shown[c][j].version
    /\ i + 2 <= j => shown[c][i].version < shown[c][j].version

LastIsFresh(c) == shown[c] # <<>> => Fresh(LastShown(c))

OrderInv ==
  /\ ServedByOne
  /\ StampsArePast
  /\ \A c \in Clients :
       /\ TimestampIsLast(c)
       /\ ReplyFits(c)
       /\ PollsKnow(c)
       /\ ShownKnown(c)
       /\ ShownSorted(c)
       /\ LastIsFresh(c)

\* As long as no two posts have overlapped, the file is empty while a worker
\* is about to write it.
OverlapInv ==
  ~overlap =>
    /\ Unmixed(text)
    /\ \A w \in Workers : worker[w].job = "write" =>
         /\ text = <<>>
         /\ \A v \in Workers : worker[v].job = "write" => v = w
    /\ \A c \in Clients :
         /\ Unmixed(reply[c].text)
         /\ \A i \in 1 .. Len(shown[c]) : Unmixed(shown[c][i].text)

\* The workers whose client c has gone are no more than its failures.
GonePolls(c) ==
  {w \in Workers : worker[w].job = "poll" /\ worker[w].client = c /\ ~worker[w].open}
GoneInv ==
  \A c \in Clients :
    IsFiniteSet(GonePolls(c)) /\ Cardinality(GonePolls(c)) <= broken[c]

\* noerror holds only until the first request of a page completes.
NoErrorInv ==
  \A c \in Clients : noerror[c] => broken[c] = 0 /\ shown[c] = <<>>
=============================================================================
