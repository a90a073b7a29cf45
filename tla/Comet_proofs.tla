---------------------------- MODULE Comet_proofs ----------------------------
(***************************************************************************)
(* Proofs about the comet channel, for any number of pages, messages and   *)
(* workers and any length of the run.                                      *)
(***************************************************************************)
EXTENDS Comet, FiniteSetTheorems, FunctionTheorems, TLAPS

USE SizeAssumption, ShippedAssumption, BoundAssumption

-----------------------------------------------------------------------------
(* Types.                                                                  *)

\* The texts data.txt can hold are sequences of messages.
LEMMA WholeType == ASSUME NEW m \in Texts PROVE Whole(m) \in Seq(Texts)
<1>1. Size[m] \in Nat
  OBVIOUS
<1>2. QED
  BY <1>1 DEF Whole

\* Writing a message over a text gives a text.
LEMMA OverlayType ==
  ASSUME NEW m \in Texts, NEW t \in Seq(Texts)
  PROVE  Overlay(m, t) \in Seq(Texts)
<1> DEFINE n == IF Size[m] >= Len(t) THEN Size[m] ELSE Len(t)
<1>1. n \in Nat /\ Size[m] \in Nat
  OBVIOUS
<1>2. \A i \in 1 .. n : (IF i <= Size[m] THEN m ELSE t[i]) \in Texts
  OBVIOUS
<1> HIDE DEF n
<1>3. [i \in 1 .. n |-> IF i <= Size[m] THEN m ELSE t[i]] \in Seq(Texts)
  BY <1>1, <1>2
<1>4. QED
  BY <1>3 DEF Overlay, n

\* The job of a worker tells which record it is.
LEMMA JobKinds ==
  ASSUME NEW j \in {Free} \cup PollJobs \cup PostJobs
  PROVE  /\ j.job = "poll" => j \in PollJobs
         /\ j.job \in {"open", "write"} => j \in PostJobs
         /\ j \in PollJobs => /\ j.client \in Clients /\ j.open \in BOOLEAN
                             /\ j.last \in Nat /\ j.cur \in Nat
                             /\ j.job = "poll"
         /\ j \in PostJobs => j.msg \in Messages
<1>1. Free.job = "free"
  BY DEF Free
<1>2. \A k \in PollJobs : /\ k.job = "poll" /\ k.client \in Clients
                          /\ k.open \in BOOLEAN /\ k.last \in Nat /\ k.cur \in Nat
  BY DEF PollJobs
<1>3. \A k \in PostJobs : k.job \in {"open", "write"} /\ k.msg \in Messages
  BY DEF PostJobs
<1>4. QED
  BY <1>1, <1>2, <1>3

\* Every variable keeps its type: the type invariant of the comet runs.
THEOREM TypeCorrect == Spec => []TypeOK
<1>1. Init => TypeOK
  <2> SUFFICES ASSUME Init PROVE TypeOK
    OBVIOUS
  <2>1. text \in Seq(Texts)
    BY WholeType DEF Init, Texts
  <2>2. <<>> \in Seq(Texts) /\ <<>> \in Seq(Replies)
    OBVIOUS
  <2>3. NoReply \in Replies
    BY <2>2 DEF NoReply, Replies
  <2>4. /\ worker \in [Workers -> {Free} \cup PollJobs \cup PostJobs]
        /\ post \in [Messages -> PostPhases]
        /\ phase \in [Clients -> Phases]
        /\ timestamp \in [Clients -> Nat]
        /\ noerror \in [Clients -> BOOLEAN]
        /\ broken \in [Clients -> Nat]
    BY DEF Init, PostPhases, Phases
  <2>5. reply \in [Clients -> Replies] /\ shown \in [Clients -> Seq(Replies)]
    BY <2>2, <2>3 DEF Init
  <2>6. /\ now \in Nat \ {0} /\ mtime \in Nat \ {0} /\ version \in Nat
    BY DEF Init
  <2>7. overlap \in BOOLEAN
    BY Zenon DEF Init
  <2>8. QED
    BY <2>1, <2>4, <2>5, <2>6, <2>7 DEF TypeOK
<1>2. TypeOK /\ [Next]_vars => TypeOK'
  <2> SUFFICES ASSUME TypeOK, [Next]_vars PROVE TypeOK'
    OBVIOUS
  <2> USE DEF TypeOK, serverVars, clientVars
  <2>1. CASE UNCHANGED vars
    BY <2>1 DEF vars
  <2>2. CASE Tick
    BY <2>2 DEF Tick
  <2>3. ASSUME NEW m \in Messages, Send(m) \/ LosePost(m) PROVE TypeOK'
    BY <2>3 DEF Send, LosePost, PostPhases
  <2>4. ASSUME NEW m \in Messages, NEW w \in Workers, AcceptPost(m, w)
        PROVE  TypeOK'
    <3>1. [job |-> "open", msg |-> m] \in PostJobs
      BY DEF PostJobs
    <3>2. QED
      BY <2>4, <3>1 DEF AcceptPost, PostPhases
  <2>5. ASSUME NEW c \in Clients, NEW w \in Workers, AcceptPoll(c, w)
        PROVE  TypeOK'
    <3>1. [job |-> "poll", client |-> c, open |-> TRUE,
           last |-> timestamp[c], cur |-> mtime] \in PollJobs
      BY DEF PollJobs
    <3>2. QED
      BY <2>5, <3>1 DEF AcceptPoll, Phases
  <2>6. ASSUME NEW w \in Workers, Truncate(w) PROVE TypeOK'
    <3>1. worker[w] \in PostJobs
      BY <2>6, JobKinds DEF Truncate
    <3>2. [job |-> "write", msg |-> worker[w].msg] \in PostJobs
      BY <3>1 DEF PostJobs
    <3>3. QED
      BY <2>6, <3>2 DEF Truncate, Modify, Opened
  <2>7. ASSUME NEW w \in Workers, Write(w) PROVE TypeOK'
    <3>1. worker[w] \in PostJobs
      BY <2>7, JobKinds DEF Write
    <3>2. worker[w].msg \in Messages
      BY <3>1, JobKinds
    <3>3. Overlay(worker[w].msg, text) \in Seq(Texts)
      BY <3>2, OverlayType DEF Texts
    <3>4. QED
      BY <2>7, <3>2, <3>3 DEF Write, Modify, Release, PostPhases
  <2>8. ASSUME NEW w \in Workers, LookAgain(w) PROVE TypeOK'
    <3>1. worker[w] \in PollJobs
      BY <2>8, JobKinds DEF LookAgain
    <3>2. [worker[w] EXCEPT !.cur = mtime] \in PollJobs
      BY <3>1 DEF PollJobs
    <3>3. QED
      BY <2>8, <3>2 DEF LookAgain
  <2>9. ASSUME NEW w \in Workers, Answer(w) PROVE TypeOK'
    <3>1. worker[w] \in PollJobs
      BY <2>9, JobKinds DEF Answer
    <3>2. worker[w].client \in Clients /\ worker[w].cur \in Nat
      BY <3>1, JobKinds
    <3>3. [text |-> text, stamp |-> worker[w].cur,
           at |-> now, version |-> version] \in Replies
      BY <3>2 DEF Replies
    <3>4. phase' \in [Clients -> Phases] /\ reply' \in [Clients -> Replies]
      <4>1. CASE worker[w].open
        <5>1. /\ phase' = [phase EXCEPT ![worker[w].client] = "answered"]
              /\ reply' = [reply EXCEPT ![worker[w].client] =
                   [text |-> text, stamp |-> worker[w].cur,
                    at |-> now, version |-> version]]
          BY <2>9, <4>1, Zenon DEF Answer
        <5>2. QED
          BY <3>2, <3>3, <5>1 DEF Phases
      <4>2. CASE ~worker[w].open
        BY <2>9, <4>2 DEF Answer
      <4>3. QED
        BY <4>1, <4>2
    <3>5. QED
      BY <2>9, <3>4 DEF Answer, Release
  <2>10. ASSUME NEW c \in Clients, Receive(c) PROVE TypeOK'
    <3>1. reply[c] \in Replies /\ reply[c].stamp \in Nat
      BY DEF Replies
    <3>2. Append(shown[c], reply[c]) \in Seq(Replies)
      BY <3>1
    <3>3. NoReply \in Replies
      BY DEF NoReply, Replies
    <3>4. QED
      BY <2>10, <3>1, <3>2, <3>3 DEF Receive, ClearNoError, Phases
  <2>11. ASSUME NEW c \in Clients, CompleteFailed(c)
         PROVE  /\ phase' \in [Clients -> Phases]
                /\ noerror' \in [Clients -> BOOLEAN]
                /\ reply' \in [Clients -> Replies]
                /\ broken' \in [Clients -> Nat]
    <3>1. NoReply \in Replies
      BY DEF NoReply, Replies
    <3>2. QED
      BY <2>11, <3>1 DEF CompleteFailed, ClearNoError, Phases
  <2>12. ASSUME NEW c \in Clients, Break(c) PROVE TypeOK'
    <3>1. ASSUME NEW w \in Workers, worker[w].job = "poll"
          PROVE  [worker[w] EXCEPT !.open = FALSE] \in PollJobs
      <4>1. worker[w] \in PollJobs
        BY <3>1, JobKinds
      <4>2. QED
        BY <4>1 DEF PollJobs
    <3>2. worker' \in [Workers -> {Free} \cup PollJobs \cup PostJobs]
      BY <2>12, <3>1 DEF Break
    <3>3. QED
      BY <2>11, <2>12, <3>2 DEF Break, CompleteFailed
  <2>13. ASSUME NEW c \in Clients, Reconnect(c) PROVE TypeOK'
    BY <2>13 DEF Reconnect, TimerSet, Phases
  <2>14. ASSUME NEW w \in Workers, KillPoll(w) PROVE TypeOK'
    <3>1. worker[w] \in PollJobs
      BY <2>14, JobKinds DEF KillPoll
    <3>2. worker[w].client \in Clients
      BY <3>1, JobKinds
    <3>3. QED
      BY <2>11, <2>14, <3>2 DEF KillPoll, CompleteFailed, Release
  <2>15. ASSUME NEW w \in Workers, KillPost(w) PROVE TypeOK'
    BY <2>15 DEF KillPost, Release, PostPhases
  <2>16. QED
    BY <2>1, <2>2, <2>3, <2>4, <2>5, <2>6, <2>7, <2>8, <2>9, <2>10, <2>12,
       <2>13, <2>14, <2>15 DEF Next
<1>3. QED
  BY <1>1, <1>2, PTL DEF Spec

-----------------------------------------------------------------------------
(* The order in which a page sees what was stored.                         *)

\* A step after which every page has shown what it had shown, and no poll or
\* answer is new, keeps the invariant, whether or not it modifies the file.
LEMMA NothingNewForPages ==
  ASSUME TypeOK, TypeOK', OrderInv,
         shown' = shown, timestamp' = timestamp, now <= now',
         \/ UNCHANGED <<text, mtime, version>>
         \/ version' = version + 1 /\ mtime' = now /\ now' = now,
         \A c \in Clients : phase'[c] = "answered" =>
            phase[c] = "answered" /\ reply'[c] = reply[c],
         \A w \in Workers : worker'[w].job = "poll" =>
            /\ worker[w].job = "poll"
            /\ worker'[w].client = worker[w].client
            /\ worker'[w].last = worker[w].last
            /\ worker'[w].cur = worker[w].cur
            /\ worker'[w].open => worker[w].open,
         \A c \in Clients, w \in Workers : OpenPoll(w, c)' => phase'[c] = "served"
  PROVE  OrderInv'
<1>1. \A c \in Clients, w \in Workers :
        OpenPoll(w, c)' => OpenPoll(w, c) /\ worker'[w].last = worker[w].last
                                         /\ worker'[w].cur = worker[w].cur
  BY DEF OpenPoll
<1>2. ServedByOne'
  BY <1>1 DEF ServedByOne, OrderInv
<1>3. /\ mtime <= mtime' /\ mtime' <= now' /\ version <= version'
      /\ version' = version => UNCHANGED <<text, mtime>>
      /\ \/ mtime' = mtime /\ text' = text
         \/ mtime' = now /\ now' = now
  BY DEF TypeOK, OrderInv, StampsArePast
<1>4. StampsArePast'
  <2>1. ASSUME NEW w \in Workers, worker'[w].job = "poll"
        PROVE  worker'[w].cur <= mtime'
    <3>1. worker[w].job = "poll" /\ worker'[w].cur = worker[w].cur
      BY <2>1
    <3>2. worker[w].cur \in Nat /\ worker[w].cur <= mtime
      BY <3>1, JobKinds DEF TypeOK, OrderInv, StampsArePast
    <3>3. QED
      BY <1>3, <3>1, <3>2 DEF TypeOK
  <2>2. QED
    BY <1>3, <2>1 DEF StampsArePast
<1>5. ASSUME NEW r \in Replies, Known(r) PROVE Known(r)'
  BY <1>3, <1>5 DEF Known, Replies, TypeOK
<1>6. ASSUME NEW r \in Replies, Known(r), Fresh(r) PROVE Fresh(r)'
  BY <1>3, <1>6 DEF Known, Fresh, Replies, TypeOK
<1>7. ASSUME NEW c \in Clients
      PROVE  /\ TimestampIsLast(c)'
             /\ ReplyFits(c)'
             /\ PollsKnow(c)'
             /\ ShownKnown(c)'
             /\ ShownSorted(c)'
             /\ LastIsFresh(c)'
  <2>1. /\ TimestampIsLast(c) /\ ReplyFits(c) /\ PollsKnow(c)
        /\ ShownKnown(c) /\ ShownSorted(c) /\ LastIsFresh(c)
    BY DEF OrderInv
  <2>2. shown[c] \in Seq(Replies) /\ reply[c] \in Replies
    BY DEF TypeOK
  <2>3. UpToDate(c)' => UpToDate(c) /\ UNCHANGED <<text, mtime, version>>
    <3>1. shown[c] # <<>> => LastShown(c) \in Replies /\ Known(LastShown(c))
      BY <2>1, <2>2 DEF LastShown, ShownKnown
    <3>2. QED
      BY <3>1, <1>3 DEF UpToDate, Known, Replies, LastShown, TypeOK
  <2>4. TimestampIsLast(c)'
    BY <2>1 DEF TimestampIsLast, LastShown
  <2>5. ReplyFits(c)'
    <3> SUFFICES ASSUME phase'[c] = "answered"
                 PROVE  /\ Follows(shown[c], reply[c])
                        /\ Known(reply[c])'
                        /\ Fresh(reply[c])'
                        /\ UpToDate(c)' => reply[c].stamp = mtime'
      BY DEF ReplyFits, Follows
    <3>1. phase[c] = "answered" /\ reply'[c] = reply[c]
      OBVIOUS
    <3>2. Known(reply[c])'
      BY <2>1, <2>2, <3>1, <1>5 DEF ReplyFits, Known
    <3>3. Fresh(reply[c])'
      BY <2>1, <2>2, <3>1, <1>6 DEF ReplyFits, Fresh
    <3>4. QED
      BY <2>1, <2>3, <3>1, <3>2, <3>3 DEF ReplyFits
  <2>6. PollsKnow(c)'
    BY <1>1, <2>1, <2>3 DEF PollsKnow
  <2>7. ShownKnown(c)'
    <3> SUFFICES ASSUME NEW i \in 1 .. Len(shown[c])
                 PROVE  /\ Known(shown[c][i])'
                        /\ (i < Len(shown[c]) /\ shown[c][i].version = version')
                             => shown[c][i + 1].stamp = mtime'
      BY DEF ShownKnown
    <3>1. shown[c][i] \in Replies /\ Known(shown[c][i])
      BY <2>1, <2>2 DEF ShownKnown
    <3>2. Known(shown[c][i])'
      BY <3>1, <1>5 DEF Known
    <3>3. shown[c][i].version = version' => version' = version
      BY <3>1, <1>3 DEF Known, Replies, TypeOK
    <3>4. QED
      BY <2>1, <3>2, <3>3, <1>3 DEF ShownKnown
  <2>8. ShownSorted(c)'
    BY <2>1 DEF ShownSorted
  <2>9. LastIsFresh(c)'
    <3>1. shown[c] # <<>> => LastShown(c) \in Replies /\ Known(LastShown(c))
      BY <2>1, <2>2 DEF LastShown, ShownKnown
    <3>2. QED
      BY <2>1, <3>1, <1>6 DEF LastIsFresh, LastShown, Fresh
  <2>10. QED
    BY <2>1, <2>4, <2>5, <2>6, <2>7, <2>8, <2>9
<1>8. QED
  BY <1>2, <1>4, <1>7 DEF OrderInv

\* The invariant holds at the start.
LEMMA OrderInit == Init => OrderInv
<1> SUFFICES ASSUME Init PROVE OrderInv
  OBVIOUS
<1>1. \A w \in Workers : worker[w].job = "free"
  BY DEF Init, Free
<1>2. ServedByOne /\ StampsArePast
  BY <1>1 DEF Init, ServedByOne, StampsArePast, OpenPoll
<1>3. ASSUME NEW c \in Clients
      PROVE  /\ TimestampIsLast(c)
             /\ ReplyFits(c)
             /\ PollsKnow(c)
             /\ ShownKnown(c)
             /\ ShownSorted(c)
             /\ LastIsFresh(c)
  <2>1. shown[c] = <<>> /\ timestamp[c] = 0 /\ phase[c] = "calling"
    BY DEF Init
  <2>2. QED
    BY <2>1 DEF TimestampIsLast, ReplyFits, PollsKnow, ShownKnown, ShownSorted,
                LastIsFresh, UpToDate
<1>4. QED
  BY <1>2, <1>3 DEF OrderInv

\* Accepting a poll: the worker knows the file's present stamp.
LEMMA OrderAcceptPoll ==
  ASSUME TypeOK, OrderInv, NEW c \in Clients, NEW w \in Workers, AcceptPoll(c, w)
  PROVE  OrderInv'
<1> USE DEF serverVars
<1>1. /\ UNCHANGED <<now, text, mtime, version, timestamp, reply, shown>>
      /\ phase[c] = "calling" /\ phase' = [phase EXCEPT ![c] = "served"]
      /\ worker' = [worker EXCEPT ![w] = [job |-> "poll", client |-> c,
           open |-> TRUE, last |-> timestamp[c], cur |-> mtime]]
  BY DEF AcceptPoll
<1>2. \A v \in Workers : v # w => worker'[v] = worker[v]
  BY <1>1 DEF TypeOK
<1>3. /\ worker'[w].job = "poll" /\ worker'[w].client = c
      /\ worker'[w].last = timestamp[c] /\ worker'[w].cur = mtime
  BY <1>1 DEF TypeOK
<1>4. \A v \in Workers : ~OpenPoll(v, c)
  BY <1>1 DEF OrderInv, ServedByOne
<1>5. \A d \in Clients, v \in Workers :
        OpenPoll(v, d)' => (v = w /\ d = c) \/ (v # w /\ d # c /\ OpenPoll(v, d))
  BY <1>2, <1>3, <1>4 DEF OpenPoll
<1>6. phase'[c] = "served" /\ \A d \in Clients : d # c => phase'[d] = phase[d]
  BY <1>1 DEF TypeOK
<1>7. ServedByOne'
  <2> SUFFICES ASSUME NEW d \in Clients, NEW v \in Workers, OpenPoll(v, d)'
               PROVE  /\ phase'[d] = "served"
                      /\ worker'[v].last = timestamp'[d]
                      /\ \A u \in Workers : OpenPoll(u, d)' => u = v
    BY DEF ServedByOne
  <2>1. CASE v = w /\ d = c
    BY <2>1, <1>1, <1>3, <1>5, <1>6
  <2>2. CASE v # w /\ d # c /\ OpenPoll(v, d)
    BY <2>2, <1>1, <1>2, <1>5, <1>6 DEF OrderInv, ServedByOne
  <2>3. QED
    BY <1>5, <2>1, <2>2
<1>8. StampsArePast'
  BY <1>1, <1>2, <1>3 DEF OrderInv, StampsArePast, TypeOK
<1>9. ASSUME NEW d \in Clients
      PROVE  /\ TimestampIsLast(d)'
             /\ ReplyFits(d)'
             /\ PollsKnow(d)'
             /\ ShownKnown(d)'
             /\ ShownSorted(d)'
             /\ LastIsFresh(d)'
  <2>1. TimestampIsLast(d)' /\ ShownKnown(d)' /\ ShownSorted(d)' /\ LastIsFresh(d)'
    BY <1>1 DEF OrderInv, TimestampIsLast, ShownKnown, ShownSorted, LastIsFresh,
                LastShown, Known, Fresh
  <2>2. ReplyFits(d)'
    BY <1>1, <1>6 DEF OrderInv, ReplyFits, Follows, Known, Fresh, UpToDate, LastShown
  <2>3. PollsKnow(d)'
    BY <1>1, <1>2, <1>3, <1>5 DEF OrderInv, PollsKnow, UpToDate, LastShown
  <2>4. QED
    BY <2>1, <2>2, <2>3
<1>10. QED
  BY <1>7, <1>8, <1>9 DEF OrderInv

\* Looking again: the worker learns the file's present stamp.
LEMMA OrderLookAgain ==
  ASSUME TypeOK, OrderInv, NEW w \in Workers, LookAgain(w)
  PROVE  OrderInv'
<1> USE DEF serverVars, clientVars
<1>1. /\ UNCHANGED <<now, text, mtime, version, phase, timestamp, reply, shown>>
      /\ worker[w].job = "poll"
      /\ worker' = [worker EXCEPT ![w].cur = mtime]
  BY DEF LookAgain
<1>2. worker[w] \in PollJobs
  BY <1>1, JobKinds DEF TypeOK
<1>3. /\ worker'[w].job = "poll" /\ worker'[w].client = worker[w].client
      /\ worker'[w].last = worker[w].last /\ worker'[w].cur = mtime
      /\ worker'[w].open = worker[w].open
      /\ \A v \in Workers : v # w => worker'[v] = worker[v]
  BY <1>1, <1>2 DEF TypeOK, PollJobs
<1>4. \A d \in Clients, v \in Workers : OpenPoll(v, d)' => OpenPoll(v, d)
  BY <1>1, <1>3 DEF OpenPoll
<1>5. \A v \in Workers : worker'[v].last = worker[v].last
  BY <1>3
<1>6. ServedByOne'
  BY <1>1, <1>4, <1>5 DEF OrderInv, ServedByOne
<1>7. StampsArePast'
  BY <1>1, <1>3 DEF OrderInv, StampsArePast, TypeOK
<1>8. ASSUME NEW d \in Clients
      PROVE  /\ TimestampIsLast(d)'
             /\ ReplyFits(d)'
             /\ PollsKnow(d)'
             /\ ShownKnown(d)'
             /\ ShownSorted(d)'
             /\ LastIsFresh(d)'
  <2>1. TimestampIsLast(d)' /\ ShownKnown(d)' /\ ShownSorted(d)' /\ LastIsFresh(d)'
    BY <1>1 DEF OrderInv, TimestampIsLast, ShownKnown, ShownSorted, LastIsFresh,
                LastShown, Known, Fresh
  <2>2. ReplyFits(d)'
    BY <1>1 DEF OrderInv, ReplyFits, Follows, Known, Fresh, UpToDate, LastShown
  <2>3. PollsKnow(d)'
    BY <1>1, <1>3, <1>4 DEF OrderInv, PollsKnow, UpToDate, LastShown
  <2>4. QED
    BY <2>1, <2>2, <2>3
<1>9. QED
  BY <1>6, <1>7, <1>8 DEF OrderInv

\* The answer to a page that is still there fits behind what it has shown.
LEMMA AnswerFits ==
  ASSUME TypeOK, OrderInv, NEW w \in Workers, NEW c \in Clients, OpenPoll(w, c),
         ~NothingNew(w), NEW r \in Replies,
         r = [text |-> text, stamp |-> worker[w].cur, at |-> now, version |-> version]
  PROVE  /\ Follows(shown[c], r)
         /\ Known(r)
         /\ Fresh(r)
         /\ UpToDate(c) => r.stamp = mtime
<1>1. /\ r.text = text /\ r.stamp = worker[w].cur /\ r.at = now
      /\ r.version = version
  OBVIOUS
<1>2. /\ worker[w].cur \in Nat /\ worker[w].last \in Nat
      /\ worker[w].last < worker[w].cur
  <2>1. worker[w].cur \in Nat /\ worker[w].last \in Nat
    BY JobKinds DEF TypeOK, OpenPoll
  <2>2. QED
    BY <2>1 DEF NothingNew
<1>3. worker[w].cur <= mtime /\ worker[w].last = timestamp[c]
  BY DEF OrderInv, ServedByOne, StampsArePast, OpenPoll
<1>4. Known(r) /\ Fresh(r) /\ (UpToDate(c) => r.stamp = mtime)
  BY <1>1, <1>2, <1>3 DEF Known, Fresh, OrderInv, PollsKnow, TypeOK
<1>5. ASSUME NEW i \in 1 .. Len(shown[c])
      PROVE  /\ shown[c][i].version <= version
             /\ shown[c][i].stamp < worker[w].cur
             /\ i < Len(shown[c]) => shown[c][i].version < version
  <2> DEFINE s == shown[c]
  <2>1. s \in Seq(Replies) /\ Len(s) \in Nat /\ s # <<>>
    BY DEF TypeOK
  <2>2. s[i] \in Replies /\ s[Len(s)] \in Replies
    BY <2>1
  <2>3. /\ s[i].version \in Nat /\ s[i].stamp \in Nat
        /\ s[Len(s)].stamp \in Nat
    BY <2>2 DEF Replies
  <2>4. timestamp[c] = s[Len(s)].stamp
    BY <2>1 DEF OrderInv, TimestampIsLast, LastShown
  <2>5. \A j \in 1 .. Len(s) : s[j].stamp <= s[Len(s)].stamp
    <3>1. ASSUME NEW j \in 1 .. Len(s) PROVE s[j].stamp <= s[Len(s)].stamp
      <4>1. CASE j < Len(s)
        <5>1. ShownSorted(c) /\ Len(s) \in 1 .. Len(s)
          BY <2>1, <4>1 DEF OrderInv
        <5>2. s[j].stamp < s[Len(s)].stamp
          BY <4>1, <5>1 DEF ShownSorted
        <5>3. s[j].stamp \in Nat
          <6>1. s[j] \in Replies
            BY <2>1
          <6>2. QED
            BY <6>1 DEF Replies
        <5>4. QED
          BY <2>3, <5>2, <5>3
      <4>2. CASE j = Len(s)
        BY <2>3, <4>2
      <4>3. QED
        BY <2>1, <4>1, <4>2
    <3>2. QED
      BY <3>1
  <2>6. s[i].stamp < worker[w].cur
    <3>1. s[i].stamp <= s[Len(s)].stamp
      BY <2>5
    <3>2. worker[w].last = s[Len(s)].stamp
      BY <1>3, <2>4
    <3> QED
      BY <1>2, <2>3, <3>1, <3>2
  <2>7. s[i].version <= version
    BY DEF OrderInv, ShownKnown, Known
  <2>8. ASSUME i < Len(s), s[i].version = version PROVE FALSE
    <3>1. i + 1 \in 1 .. Len(s) /\ s[i + 1].stamp = mtime
      BY <2>1, <2>8 DEF OrderInv, ShownKnown
    <3>2. mtime <= s[Len(s)].stamp
      BY <2>5, <3>1
    <3>3. QED
      BY <1>2, <1>3, <2>3, <2>4, <3>2 DEF TypeOK
  <2>9. QED
    BY <2>3, <2>6, <2>7, <2>8 DEF TypeOK
<1>6. QED
  BY <1>1, <1>4, <1>5 DEF Follows

\* Answering: the worker is free again, its page holds the answer.
LEMMA OrderAnswer ==
  ASSUME TypeOK, OrderInv, NEW w \in Workers, Answer(w)
  PROVE  OrderInv'
<1> USE DEF serverVars
<1> DEFINE c == worker[w].client
           r == [text |-> text, stamp |-> worker[w].cur,
                 at |-> now, version |-> version]
<1>1. /\ UNCHANGED <<now, text, mtime, version, timestamp, shown>>
      /\ worker[w].job = "poll" /\ ~NothingNew(w)
      /\ worker' = [worker EXCEPT ![w] = Free]
  BY DEF Answer, Release
<1>2. c \in Clients /\ worker[w].cur \in Nat
  BY <1>1, JobKinds DEF TypeOK
<1>3. r \in Replies
  BY <1>2 DEF Replies, TypeOK
<1>4. worker'[w] = Free /\ \A v \in Workers : v # w => worker'[v] = worker[v]
  BY <1>1 DEF TypeOK
<1>5. worker'[w].job = "free"
  BY <1>4 DEF Free
<1>6. \A v \in Workers : worker'[v].job = "poll" => v # w /\ worker'[v] = worker[v]
  BY <1>4, <1>5
<1>7. \A d \in Clients, v \in Workers :
        OpenPoll(v, d)' => v # w /\ OpenPoll(v, d) /\ worker'[v] = worker[v]
  BY <1>6 DEF OpenPoll
<1>8. \/ /\ OpenPoll(w, c)
         /\ phase' = [phase EXCEPT ![c] = "answered"]
         /\ reply' = [reply EXCEPT ![c] = r]
      \/ UNCHANGED <<phase, reply>>
  BY <1>1, Zenon DEF Answer, OpenPoll
<1>9. ServedByOne'
  <2> SUFFICES ASSUME NEW d \in Clients, NEW v \in Workers, OpenPoll(v, d)'
               PROVE  /\ phase'[d] = "served"
                      /\ worker'[v].last = timestamp'[d]
                      /\ \A u \in Workers : OpenPoll(u, d)' => u = v
    BY DEF ServedByOne
  <2>1. v # w /\ OpenPoll(v, d) /\ worker'[v] = worker[v]
    BY <1>7
  <2>2. phase[d] = "served" /\ worker[v].last = timestamp[d]
    BY <2>1 DEF OrderInv, ServedByOne
  <2>3. OpenPoll(w, c) => d # c
    BY <1>2, <2>1 DEF OrderInv, ServedByOne
  <2>4. phase'[d] = "served"
    BY <1>8, <2>2, <2>3 DEF TypeOK
  <2>5. QED
    BY <1>1, <1>7, <2>1, <2>2, <2>4 DEF OrderInv, ServedByOne
<1>10. StampsArePast'
  BY <1>1, <1>6 DEF OrderInv, StampsArePast
<1>11. ASSUME NEW d \in Clients
       PROVE  /\ TimestampIsLast(d)'
              /\ ReplyFits(d)'
              /\ PollsKnow(d)'
              /\ ShownKnown(d)'
              /\ ShownSorted(d)'
              /\ LastIsFresh(d)'
  <2>1. TimestampIsLast(d)' /\ ShownKnown(d)' /\ ShownSorted(d)' /\ LastIsFresh(d)'
    BY <1>1 DEF OrderInv, TimestampIsLast, ShownKnown, ShownSorted, LastIsFresh,
                LastShown, Known, Fresh
  <2>2. ReplyFits(d)'
    <3>1. CASE OpenPoll(w, c) /\ d = c /\ reply'[d] = r
      <4>1. /\ Follows(shown[c], r) /\ Known(r) /\ Fresh(r)
            /\ UpToDate(c) => r.stamp = mtime
        BY <1>1, <1>2, <1>3, <3>1, AnswerFits
      <4>2. QED
        BY <1>1, <3>1, <4>1
           DEF ReplyFits, Follows, Known, Fresh, UpToDate, LastShown
    <3>2. CASE phase'[d] = phase[d] /\ reply'[d] = reply[d]
      BY <1>1, <3>2 DEF OrderInv, ReplyFits, Follows, Known, Fresh, UpToDate, LastShown
    <3>3. QED
      BY <1>2, <1>8, <3>1, <3>2 DEF TypeOK
  <2>3. PollsKnow(d)'
    BY <1>1, <1>7 DEF OrderInv, PollsKnow, UpToDate, LastShown
  <2>4. QED
    BY <2>1, <2>2, <2>3
<1>12. QED
  BY <1>9, <1>10, <1>11 DEF OrderInv

\* A page shows the answer it received.
LEMMA OrderReceive ==
  ASSUME TypeOK, OrderInv, NEW c \in Clients, Receive(c)
  PROVE  OrderInv'
<1> USE DEF serverVars
<1> DEFINE s == shown[c]
           r == reply[c]
<1>1. /\ UNCHANGED <<now, text, mtime, version, worker>>
      /\ phase[c] = "answered" /\ phase' = [phase EXCEPT ![c] = "calling"]
      /\ timestamp' = [timestamp EXCEPT ![c] = r.stamp]
      /\ shown' = [shown EXCEPT ![c] = Append(s, r)]
      /\ reply' = [reply EXCEPT ![c] = NoReply]
  BY DEF Receive
<1>2. s \in Seq(Replies) /\ r \in Replies /\ Len(s) \in Nat
  BY DEF TypeOK
<1>3. /\ Follows(s, r) /\ Known(r) /\ Fresh(r)
      /\ UpToDate(c) => r.stamp = mtime
  BY <1>1 DEF OrderInv, ReplyFits
<1>4. \A w \in Workers, d \in Clients :
        OpenPoll(w, d)' => OpenPoll(w, d) /\ d # c
  BY <1>1 DEF OpenPoll, OrderInv, ServedByOne
<1>5. \A d \in Clients : d # c =>
        /\ shown'[d] = shown[d] /\ reply'[d] = reply[d]
        /\ phase'[d] = phase[d] /\ timestamp'[d] = timestamp[d]
  BY <1>1 DEF TypeOK
<1>6. /\ shown'[c] = Append(s, r) /\ phase'[c] = "calling"
      /\ timestamp'[c] = r.stamp
  BY <1>1 DEF TypeOK
<1>7. ServedByOne'
  BY <1>1, <1>4, <1>5 DEF OrderInv, ServedByOne
<1>8. StampsArePast'
  BY <1>1 DEF OrderInv, StampsArePast
<1>9. ASSUME NEW d \in Clients, d # c
      PROVE  /\ TimestampIsLast(d)'
             /\ ReplyFits(d)'
             /\ PollsKnow(d)'
             /\ ShownKnown(d)'
             /\ ShownSorted(d)'
             /\ LastIsFresh(d)'
  <2>1. /\ TimestampIsLast(d)' /\ ShownKnown(d)' /\ ShownSorted(d)'
        /\ LastIsFresh(d)'
    BY <1>1, <1>5, <1>9 DEF OrderInv, TimestampIsLast, ShownKnown, ShownSorted,
       LastIsFresh, LastShown, Known, Fresh
  <2>2. ReplyFits(d)'
    BY <1>1, <1>5, <1>9 DEF OrderInv, ReplyFits, Follows, Known, Fresh, UpToDate,
       LastShown
  <2>3. PollsKnow(d)'
    BY <1>1, <1>4, <1>5, <1>9 DEF OrderInv, PollsKnow, UpToDate, LastShown
  <2>4. QED
    BY <2>1, <2>2, <2>3
<1>10. /\ TimestampIsLast(c)'
       /\ ReplyFits(c)'
       /\ PollsKnow(c)'
       /\ ShownKnown(c)'
       /\ ShownSorted(c)'
       /\ LastIsFresh(c)'
  <2> DEFINE n == Len(s) + 1
             t == Append(s, r)
  <2>1. /\ Len(t) = n /\ t[n] = r /\ t # <<>>
        /\ \A i \in 1 .. Len(s) : t[i] = s[i] /\ s[i] \in Replies
    BY <1>2
  <2>2. shown'[c] = t /\ LastShown(c)' = r
    BY <1>6, <2>1 DEF LastShown
  <2>3. TimestampIsLast(c)' /\ LastIsFresh(c)'
    BY <1>1, <1>3, <1>6, <2>1, <2>2 DEF TimestampIsLast, LastIsFresh, Fresh
  <2>4. ReplyFits(c)' /\ PollsKnow(c)'
    BY <1>4, <1>6 DEF ReplyFits, PollsKnow
  <2>5. ShownKnown(c)'
    <3>1. ASSUME NEW i \in 1 .. n
          PROVE  /\ Known(t[i])
                 /\ (i < n /\ t[i].version = version) => t[i + 1].stamp = mtime
      <4>1. CASE i = n
        BY <1>3, <2>1, <4>1
      <4>2. CASE i = Len(s)
        <5>1. s # <<>> /\ t[i] = s[i] /\ t[i + 1] = r
          BY <1>2, <2>1, <4>2
        <5>2. t[i].version = version => UpToDate(c)
          BY <4>2, <5>1 DEF UpToDate, LastShown
        <5>3. Known(s[i])
          BY <4>2, <5>1, <1>2 DEF OrderInv, ShownKnown
        <5>4. QED
          BY <1>3, <5>1, <5>2, <5>3
      <4>3. CASE i < Len(s)
        BY <1>2, <2>1, <4>3 DEF OrderInv, ShownKnown
      <4>4. QED
        BY <1>2, <4>1, <4>2, <4>3
    <3>2. QED
      BY <1>1, <2>1, <2>2, <3>1 DEF ShownKnown, Known
  <2>6. ShownSorted(c)'
    <3>1. ASSUME NEW i \in 1 .. n, NEW j \in 1 .. n, i < j
          PROVE  /\ t[i].stamp < t[j].stamp
                 /\ t[i].version <= t[j].version
                 /\ i + 2 <= j => t[i].version < t[j].version
      <4>1. i \in 1 .. Len(s) /\ t[i] = s[i]
        BY <1>2, <2>1, <3>1
      <4>2. CASE j = n
        BY <1>2, <1>3, <2>1, <3>1, <4>1, <4>2 DEF Follows
      <4>3. CASE j # n
        <5>1. j \in 1 .. Len(s) /\ t[j] = s[j]
          BY <1>2, <2>1, <4>3
        <5>2. QED
          BY <3>1, <4>1, <5>1 DEF OrderInv, ShownSorted
      <4>4. QED
        BY <4>2, <4>3
    <3>2. QED
      BY <2>1, <2>2, <3>1 DEF ShownSorted
  <2>7. QED
    BY <2>3, <2>4, <2>5, <2>6
<1>11. QED
  BY <1>7, <1>8, <1>9, <1>10 DEF OrderInv

\* A step of any other action has nothing new for the pages.
LEMMA OrderOther ==
  ASSUME TypeOK, TypeOK', OrderInv,
         \/ Tick
         \/ \E m \in Messages : Send(m) \/ LosePost(m)
         \/ \E m \in Messages, w \in Workers : AcceptPost(m, w)
         \/ \E w \in Workers : Truncate(w) \/ Write(w) \/ KillPoll(w) \/ KillPost(w)
         \/ \E c \in Clients : Break(c) \/ Reconnect(c)
         \/ UNCHANGED vars
  PROVE  OrderInv'
<1> USE DEF serverVars, clientVars
<1> DEFINE
      PollsKept == \A w \in Workers : worker'[w].job = "poll" =>
        /\ worker[w].job = "poll"
        /\ worker'[w].client = worker[w].client
        /\ worker'[w].last = worker[w].last
        /\ worker'[w].cur = worker[w].cur
        /\ worker'[w].open => worker[w].open
      FileKept == /\ now <= now'
                  /\ \/ UNCHANGED <<text, mtime, version>>
                     \/ version' = version + 1 /\ mtime' = now /\ now' = now
      PagesKept == UNCHANGED <<shown, timestamp, phase, reply>>
<1>1. ASSUME NEW w \in Workers, NEW j, j.job # "poll",
             worker' = [worker EXCEPT ![w] = j]
      PROVE  PollsKept
  BY <1>1 DEF TypeOK
<1>2. ASSUME PollsKept, FileKept, PagesKept PROVE OrderInv'
  <2>1. \A c \in Clients, w \in Workers : OpenPoll(w, c)' => OpenPoll(w, c)
    BY <1>2 DEF OpenPoll
  <2>2. \A c \in Clients, w \in Workers : OpenPoll(w, c)' => phase'[c] = "served"
    BY <1>2, <2>1 DEF OrderInv, ServedByOne
  <2>3. QED
    BY <1>2, <2>2, NothingNewForPages
<1>3. Free.job # "poll"
  BY DEF Free
<1>4. CASE Tick \/ (\E m \in Messages : Send(m) \/ LosePost(m)) \/ UNCHANGED vars
  <2>1. UNCHANGED worker /\ PagesKept /\ FileKept
    BY <1>4 DEF Tick, Send, LosePost, vars, TypeOK
  <2>2. QED
    BY <1>2, <2>1
<1>5. ASSUME NEW m \in Messages, NEW w \in Workers, AcceptPost(m, w) PROVE OrderInv'
  <2>1. PollsKept
    BY <1>1, <1>5 DEF AcceptPost
  <2>2. PagesKept /\ FileKept
    BY <1>5 DEF AcceptPost, TypeOK
  <2>3. QED
    BY <1>2, <2>1, <2>2
<1>6. ASSUME NEW w \in Workers, Truncate(w) PROVE OrderInv'
  <2>1. PollsKept
    BY <1>1, <1>6 DEF Truncate
  <2>2. PagesKept /\ FileKept
    BY <1>6 DEF Truncate, Modify, TypeOK
  <2>3. QED
    BY <1>2, <2>1, <2>2
<1>7. ASSUME NEW w \in Workers, Write(w) PROVE OrderInv'
  <2>1. PollsKept
    BY <1>1, <1>3, <1>7 DEF Write, Release
  <2>2. PagesKept /\ FileKept
    BY <1>7 DEF Write, Modify, TypeOK
  <2>3. QED
    BY <1>2, <2>1, <2>2
<1>8. ASSUME NEW w \in Workers, KillPost(w) PROVE OrderInv'
  <2>1. PollsKept
    BY <1>1, <1>3, <1>8 DEF KillPost, Release
  <2>2. PagesKept /\ FileKept
    BY <1>8 DEF KillPost, TypeOK
  <2>3. QED
    BY <1>2, <2>1, <2>2
<1>9. ASSUME NEW c \in Clients, CompleteFailed(c), PollsKept,
             \A w \in Workers : OpenPoll(w, c)' => FALSE
      PROVE  OrderInv'
  <2>1. FileKept /\ UNCHANGED <<shown, timestamp>>
    BY <1>9 DEF CompleteFailed, TypeOK
  <2>2. /\ phase'[c] \in {"calling", "waiting"}
        /\ \A d \in Clients : d # c => phase'[d] = phase[d] /\ reply'[d] = reply[d]
    BY <1>9 DEF CompleteFailed, TypeOK
  <2>3. \A d \in Clients, w \in Workers : OpenPoll(w, d)' => phase'[d] = "served"
    <3>1. \A d \in Clients, w \in Workers : OpenPoll(w, d)' => OpenPoll(w, d)
      BY <1>9 DEF OpenPoll
    <3>2. QED
      BY <1>9, <2>2, <3>1 DEF OrderInv, ServedByOne
  <2>4. \A d \in Clients : phase'[d] = "answered" =>
          phase[d] = "answered" /\ reply'[d] = reply[d]
    BY <2>2
  <2>5. QED
    BY <1>9, <2>1, <2>3, <2>4, NothingNewForPages
<1>10. ASSUME NEW c \in Clients, Break(c) PROVE OrderInv'
  <2>1. \A w \in Workers :
          worker'[w] = IF worker[w].job = "poll" /\ worker[w].client = c
                       THEN [worker[w] EXCEPT !.open = FALSE] ELSE worker[w]
    BY <1>10 DEF Break
  <2>2. ASSUME NEW w \in Workers, worker[w].job = "poll"
        PROVE  /\ [worker[w] EXCEPT !.open = FALSE].open = FALSE
               /\ [worker[w] EXCEPT !.open = FALSE].client = worker[w].client
               /\ [worker[w] EXCEPT !.open = FALSE].last = worker[w].last
               /\ [worker[w] EXCEPT !.open = FALSE].cur = worker[w].cur
               /\ [worker[w] EXCEPT !.open = FALSE].job = "poll"
    <3>1. worker[w] \in PollJobs
      BY <2>2, JobKinds DEF TypeOK
    <3>2. QED
      BY <2>2, <3>1 DEF PollJobs
  <2>3. PollsKept
    BY <2>1, <2>2
  <2>4. \A w \in Workers : OpenPoll(w, c)' => FALSE
    BY <2>1, <2>2 DEF OpenPoll
  <2>5. QED
    BY <1>9, <1>10, <2>3, <2>4 DEF Break
<1>11. ASSUME NEW w \in Workers, NEW c \in Clients, c = worker[w].client, KillPoll(w)
       PROVE  OrderInv'
  <2>1. worker' = [worker EXCEPT ![w] = Free]
    BY <1>11 DEF KillPoll, Release
  <2>2. PollsKept
    BY <1>1, <1>3, <2>1
  <2>3. OpenPoll(w, c)
    BY <1>11 DEF KillPoll, OpenPoll
  <2>4. \A v \in Workers : OpenPoll(v, c)' => FALSE
    <3>1. worker'[w].job # "poll"
      BY <1>3, <2>1 DEF TypeOK
    <3>2. \A v \in Workers : v # w => worker'[v] = worker[v] /\ ~OpenPoll(v, c)
      BY <2>1, <2>3 DEF TypeOK, OrderInv, ServedByOne
    <3>3. QED
      BY <3>1, <3>2 DEF OpenPoll
  <2>5. QED
    BY <1>9, <1>11, <2>2, <2>4 DEF KillPoll
<1>12. ASSUME NEW c \in Clients, Reconnect(c) PROVE OrderInv'
  <2>1. /\ UNCHANGED <<now, worker, text, mtime, version, shown, timestamp, reply>>
        /\ phase[c] = "waiting" /\ phase' = [phase EXCEPT ![c] = "calling"]
    BY <1>12 DEF Reconnect, TimerSet
  <2>2. \A d \in Clients, w \in Workers : OpenPoll(w, d)' => phase'[d] = "served"
    BY <2>1 DEF OrderInv, ServedByOne, OpenPoll, TypeOK
  <2>3. \A d \in Clients : phase'[d] = "answered" => phase[d] = "answered"
    BY <2>1 DEF TypeOK
  <2>4. FileKept /\ PollsKept
    BY <2>1 DEF TypeOK
  <2>5. QED
    BY <2>1, <2>2, <2>3, <2>4, NothingNewForPages
<1>13. QED
  <2>1. \A w \in Workers : KillPoll(w) => worker[w].client \in Clients
    BY JobKinds DEF KillPoll, TypeOK
  <2>2. \A w \in Workers : KillPoll(w) => OrderInv'
    BY <1>11, <2>1
  <2>3. QED
    BY <1>4, <1>5, <1>6, <1>7, <1>8, <1>10, <1>12, <2>2

\* What the order of answers rests on, as an invariant of the channel.
LEMMA OrderCorrect == Spec => []OrderInv
<1>1. TypeOK /\ TypeOK' /\ OrderInv /\ [Next]_vars => OrderInv'
  <2> SUFFICES ASSUME TypeOK, TypeOK', OrderInv, [Next]_vars PROVE OrderInv'
    OBVIOUS
  <2>1. ASSUME NEW w \in Workers, LookAgain(w) PROVE OrderInv'
    BY <2>1, OrderLookAgain
  <2>2. ASSUME NEW w \in Workers, Answer(w) PROVE OrderInv'
    BY <2>2, OrderAnswer
  <2>3. ASSUME NEW c \in Clients, Receive(c) PROVE OrderInv'
    BY <2>3, OrderReceive
  <2>4. ASSUME NEW c \in Clients, NEW w \in Workers, AcceptPoll(c, w) PROVE OrderInv'
    BY <2>4, OrderAcceptPoll
  <2>5. CASE \/ Tick
             \/ \E m \in Messages : Send(m) \/ LosePost(m)
             \/ \E m \in Messages, w \in Workers : AcceptPost(m, w)
             \/ \E w \in Workers : Truncate(w) \/ Write(w) \/ KillPoll(w) \/ KillPost(w)
             \/ \E c \in Clients : Break(c) \/ Reconnect(c)
             \/ UNCHANGED vars
    BY <2>5, OrderOther
  <2>6. QED
    BY <2>1, <2>2, <2>3, <2>4, <2>5 DEF Next
<1>2. QED
  BY <1>1, OrderInit, TypeCorrect, PTL DEF Spec

\* A page misses a message only by polling in the second of a modification.
THEOREM MissedOnlyWithinSecondHolds == Spec => []MissedOnlyWithinSecond
<1>1. OrderInv => MissedOnlyWithinSecond
  BY DEF OrderInv, LastIsFresh, Fresh, MissedOnlyWithinSecond
<1>2. QED
  BY <1>1, OrderCorrect, PTL

\* No page shows a modification three times, or an older one after a newer.
THEOREM ShownAtMostTwiceHolds == Spec => []ShownAtMostTwice
<1>1. TypeOK /\ OrderInv => ShownAtMostTwice
  <2> SUFFICES ASSUME TypeOK, OrderInv, NEW c \in Clients,
                      NEW i \in 1 .. Len(shown[c]), NEW j \in 1 .. Len(shown[c]),
                      i + 2 <= j
               PROVE  shown[c][i].version < shown[c][j].version
    BY DEF ShownAtMostTwice
  <2>1. i < j
    OBVIOUS
  <2>2. QED
    BY <2>1 DEF OrderInv, ShownSorted
<1>2. QED
  BY <1>1, TypeCorrect, OrderCorrect, PTL

\* The stamps of what a page shows increase.
THEOREM StampsIncreaseHolds == Spec => []StampsIncrease
<1>1. OrderInv => StampsIncrease
  BY DEF OrderInv, ShownSorted, StampsIncrease
<1>2. QED
  BY <1>1, OrderCorrect, PTL

-----------------------------------------------------------------------------
(* The channel is a bulletin.                                              *)

Versions(s) == [i \in 1 .. Len(s) |-> s[i].version]

\* Showing one more answer appends its version to the versions shown.
LEMMA VersionsAppend ==
  ASSUME NEW s \in Seq(Replies), NEW r \in Replies
  PROVE  Versions(Append(s, r)) = Append(Versions(s), r.version)
<1>1. /\ Len(Append(s, r)) = Len(s) + 1 /\ Append(s, r)[Len(s) + 1] = r
      /\ \A i \in 1 .. Len(s) : Append(s, r)[i] = s[i]
  OBVIOUS
<1>2. \A i \in 1 .. Len(s) : s[i].version \in Nat
  <2>1. \A i \in 1 .. Len(s) : s[i] \in Replies
    OBVIOUS
  <2>2. QED
    BY <2>1 DEF Replies
<1>3. r.version \in Nat
  BY DEF Replies
<1>4. Versions(s) \in Seq(Nat) /\ Len(Versions(s)) = Len(s)
  BY <1>2 DEF Versions
<1>5. Versions(Append(s, r)) \in Seq(Nat)
      /\ Len(Versions(Append(s, r))) = Len(s) + 1
  BY <1>1, <1>2, <1>3 DEF Versions
<1>6. \A i \in 1 .. Len(s) + 1 :
        Versions(Append(s, r))[i] = Append(Versions(s), r.version)[i]
  BY <1>1, <1>3, <1>4 DEF Versions
<1>7. QED
  BY <1>3, <1>4, <1>5, <1>6

\* Every behaviour of the channel is one of the bulletin, read through the
\* versions of what the pages show.
THEOREM ImplementsBulletinHolds == Spec => ImplementsBulletin
<1> DEFINE seen == [c \in Clients |-> Versions(shown[c])]
<1>1. Init => Bulletin!Init
  BY DEF Init, Bulletin!Init
<1>2. TypeOK /\ OrderInv /\ [Next]_vars => [Bulletin!Next]_<<version, seen>>
  <2> SUFFICES ASSUME TypeOK, OrderInv, [Next]_vars
               PROVE  [Bulletin!Next]_<<version, seen>>
    OBVIOUS
  <2> USE DEF serverVars, clientVars
  <2>1. ASSUME version' = version + 1, shown' = shown PROVE Bulletin!Publish
    BY <2>1 DEF Bulletin!Publish
  <2>2. ASSUME NEW w \in Workers, Truncate(w) \/ Write(w) PROVE Bulletin!Publish
    BY <2>1, <2>2 DEF Truncate, Write, Modify
  <2>3. ASSUME NEW c \in Clients, Receive(c) PROVE Bulletin!See(c)
    <3> DEFINE s == shown[c]
               n == reply[c].version
    <3>1. s \in Seq(Replies) /\ reply[c] \in Replies
      BY DEF TypeOK
    <3>2. Follows(s, reply[c]) /\ Known(reply[c])
      BY <2>3 DEF Receive, OrderInv, ReplyFits
    <3>3. n \in 0 .. version
      BY <3>1, <3>2 DEF Known, Replies, TypeOK
    <3>4. Bulletin!MayFollow(seen[c], n)
      BY <3>1, <3>2 DEF Follows, Bulletin!MayFollow, Versions
    <3>5. shown' = [shown EXCEPT ![c] = Append(s, reply[c])] /\ version' = version
      BY <2>3 DEF Receive
    <3>6. Versions(Append(s, reply[c])) = Append(seen[c], n)
      BY <3>1, VersionsAppend
    <3>7. seen' = [seen EXCEPT ![c] = Append(seen[c], n)]
      <4>1. \A d \in Clients : shown'[d] = IF d = c THEN Append(s, reply[c]) ELSE shown[d]
        BY <3>5 DEF TypeOK
      <4>2. \A d \in Clients :
              Versions(shown'[d]) = IF d = c THEN Append(seen[c], n) ELSE Versions(shown[d])
        BY <3>6, <4>1
      <4>3. QED
        BY <4>2
    <3>8. QED
      BY <3>3, <3>4, <3>5, <3>7 DEF Bulletin!See, Versions
  <2>4. CASE Tick \/ UNCHANGED vars
    BY <2>4 DEF Tick, vars, Versions
  <2>5. CASE \/ \E m \in Messages : Send(m) \/ LosePost(m)
             \/ \E m \in Messages, w \in Workers : AcceptPost(m, w)
             \/ \E c \in Clients, w \in Workers : AcceptPoll(c, w)
             \/ \E w \in Workers : LookAgain(w) \/ Answer(w) \/ KillPoll(w) \/ KillPost(w)
             \/ \E c \in Clients : Break(c) \/ Reconnect(c)
    <3>1. UNCHANGED <<version, shown>>
      BY <2>5 DEF Send, LosePost, AcceptPost, AcceptPoll, LookAgain, Answer,
                  KillPoll, KillPost, Break, Reconnect, CompleteFailed
    <3>2. QED
      BY <3>1
  <2>6. QED
    BY <2>2, <2>3, <2>4, <2>5 DEF Next, Bulletin!Next
<1>3. QED
  BY <1>1, <1>2, TypeCorrect, OrderCorrect, PTL
     DEF Spec, ImplementsBulletin, Bulletin!Spec, Versions

-----------------------------------------------------------------------------
(* Whole messages.                                                         *)

\* Written over an empty file, a message is whole.
LEMMA OverlayEmpty == ASSUME NEW m \in Texts PROVE Overlay(m, <<>>) = Whole(m)
<1>1. Size[m] \in Nat /\ Len(<<>>) = 0
  OBVIOUS
<1>2. QED
  BY <1>1 DEF Overlay, Whole

\* The file, the answers and the pages hold no mixture until posts overlap.
LEMMA OverlapCorrect == Spec => []OverlapInv
<1>1. Init => OverlapInv
  <2> SUFFICES ASSUME Init PROVE OverlapInv
    OBVIOUS
  <2>1. \A w \in Workers : worker[w].job = "free"
    BY DEF Init, Free
  <2>2. Unmixed(text)
    BY DEF Init, Unmixed, Texts
  <2>3. \A c \in Clients : shown[c] = <<>> /\ reply[c].text = <<>>
    BY DEF Init, NoReply
  <2>4. QED
    BY <2>1, <2>2, <2>3 DEF OverlapInv, Unmixed
<1>2. TypeOK /\ OverlapInv /\ [Next]_vars => OverlapInv'
  <2> SUFFICES ASSUME TypeOK, OverlapInv, [Next]_vars PROVE OverlapInv'
    OBVIOUS
  <2> USE DEF serverVars, clientVars
  <2> DEFINE
        Writing(w) == worker[w].job = "write"
        PagesUnmixed == \A c \in Clients :
          /\ Unmixed(reply[c].text)
          /\ \A i \in 1 .. Len(shown[c]) : Unmixed(shown[c][i].text)
  <2>1. ASSUME UNCHANGED <<text, overlap>>,
               \A w \in Workers : Writing(w)' => Writing(w),
               ~overlap => PagesUnmixed'
        PROVE  OverlapInv'
    BY <2>1 DEF OverlapInv, Unmixed
  <2>2. ASSUME UNCHANGED <<reply, shown, overlap>> PROVE ~overlap => PagesUnmixed'
    BY <2>2 DEF OverlapInv, Unmixed
  <2>3. ASSUME NEW w \in Workers, NEW j, j.job # "write",
               worker' = [worker EXCEPT ![w] = j]
        PROVE  \A v \in Workers : Writing(v)' => Writing(v)
    BY <2>3 DEF TypeOK
  <2>4. Free.job # "write"
    BY DEF Free
  <2>5. CASE Tick \/ (\E m \in Messages : Send(m) \/ LosePost(m)) \/ UNCHANGED vars
    BY <2>1, <2>2, <2>5 DEF Tick, Send, LosePost, vars
  <2>6. ASSUME NEW m \in Messages, NEW w \in Workers, AcceptPost(m, w)
        PROVE  OverlapInv'
    BY <2>1, <2>2, <2>3, <2>6 DEF AcceptPost
  <2>7. ASSUME NEW c \in Clients, NEW w \in Workers, AcceptPoll(c, w)
        PROVE  OverlapInv'
    BY <2>1, <2>2, <2>3, <2>7 DEF AcceptPoll
  <2>8. ASSUME NEW w \in Workers, Truncate(w) PROVE OverlapInv'
    <3> SUFFICES ASSUME ~overlap' PROVE OverlapInv'
      BY DEF OverlapInv
    <3>1. /\ ~overlap /\ \A v \in Workers : ~Writing(v)
          /\ text' = <<>> /\ UNCHANGED <<reply, shown>>
          /\ worker' = [worker EXCEPT ![w] = [job |-> "write", msg |-> worker[w].msg]]
      BY <2>8 DEF Truncate, Modify, Opened
    <3>2. \A v \in Workers : Writing(v)' => v = w
      BY <3>1 DEF TypeOK
    <3>3. PagesUnmixed'
      BY <3>1 DEF OverlapInv, Unmixed
    <3>4. QED
      BY <3>1, <3>2, <3>3 DEF OverlapInv, Unmixed
  <2>9. ASSUME NEW w \in Workers, Write(w) PROVE OverlapInv'
    <3> SUFFICES ASSUME ~overlap' PROVE OverlapInv'
      BY DEF OverlapInv
    <3>1. /\ ~overlap /\ Writing(w)
          /\ text' = Overlay(worker[w].msg, text) /\ UNCHANGED <<reply, shown>>
          /\ worker' = [worker EXCEPT ![w] = Free]
      BY <2>9 DEF Write, Modify, Release
    <3>2. worker[w].msg \in Texts
      BY <3>1, JobKinds DEF TypeOK, Texts
    <3>3. text = <<>> /\ \A v \in Workers : Writing(v) => v = w
      BY <3>1 DEF OverlapInv
    <3>4. Unmixed(text')
      BY <3>1, <3>2, <3>3, OverlayEmpty DEF Unmixed
    <3>5. \A v \in Workers : ~Writing(v)'
      BY <2>4, <3>1, <3>3 DEF TypeOK
    <3>6. PagesUnmixed'
      BY <3>1 DEF OverlapInv, Unmixed
    <3>7. QED
      BY <3>4, <3>5, <3>6 DEF OverlapInv, Unmixed
  <2>10. ASSUME NEW w \in Workers, LookAgain(w) PROVE OverlapInv'
    <3>1. worker[w] \in PollJobs
      BY <2>10, JobKinds DEF LookAgain, TypeOK
    <3>2. [worker[w] EXCEPT !.cur = mtime].job = "poll"
      BY <3>1 DEF PollJobs
    <3>3. \A v \in Workers : Writing(v)' => Writing(v)
      BY <2>10, <3>2 DEF LookAgain, TypeOK
    <3>4. QED
      BY <2>1, <2>2, <2>10, <3>3 DEF LookAgain
  <2>11. ASSUME NEW w \in Workers, Answer(w) PROVE OverlapInv'
    <3>1. \A v \in Workers : Writing(v)' => Writing(v)
      BY <2>3, <2>4, <2>11 DEF Answer, Release
    <3>2. \/ reply' = [reply EXCEPT ![worker[w].client] = [text |-> text,
              stamp |-> worker[w].cur, at |-> now, version |-> version]]
          \/ reply' = reply
      BY <2>11, Zenon DEF Answer
    <3>3. \A c \in Clients : reply'[c].text = text \/ reply'[c] = reply[c]
      BY <3>2 DEF TypeOK
    <3>4. UNCHANGED <<text, shown, overlap>>
      BY <2>11 DEF Answer
    <3>5. ~overlap => PagesUnmixed'
      BY <3>3, <3>4 DEF OverlapInv, Unmixed
    <3>6. QED
      BY <2>1, <3>1, <3>4, <3>5
  <2>12. ASSUME NEW c \in Clients, Receive(c) PROVE OverlapInv'
    <3>1. /\ UNCHANGED <<worker, text, overlap>>
          /\ shown' = [shown EXCEPT ![c] = Append(shown[c], reply[c])]
          /\ reply' = [reply EXCEPT ![c] = NoReply]
      BY <2>12 DEF Receive
    <3>2. \A d \in Clients : reply'[d].text = <<>> \/ reply'[d] = reply[d]
      BY <3>1 DEF TypeOK, NoReply
    <3>3. ASSUME NEW d \in Clients, NEW i \in 1 .. Len(shown'[d])
          PROVE  \/ i \in 1 .. Len(shown[d]) /\ shown'[d][i] = shown[d][i]
                 \/ shown'[d][i] = reply[d]
      <4>1. shown[d] \in Seq(Replies) /\ reply[d] \in Replies
        BY DEF TypeOK
      <4>2. shown'[d] = IF d = c THEN Append(shown[d], reply[d]) ELSE shown[d]
        BY <3>1 DEF TypeOK
      <4>3. QED
        BY <3>3, <4>1, <4>2
    <3>4. ~overlap => PagesUnmixed'
      BY <3>2, <3>3 DEF OverlapInv, Unmixed
    <3>5. QED
      BY <2>1, <3>1, <3>4
  <2>13. ASSUME NEW c \in Clients, CompleteFailed(c) PROVE ~overlap => PagesUnmixed'
    <3>1. reply' = [reply EXCEPT ![c] = NoReply] /\ UNCHANGED shown
      BY <2>13 DEF CompleteFailed
    <3>2. \A d \in Clients : reply'[d].text = <<>> \/ reply'[d] = reply[d]
      BY <3>1 DEF TypeOK, NoReply
    <3>3. QED
      BY <3>1, <3>2 DEF OverlapInv, Unmixed
  <2>14. ASSUME NEW c \in Clients, Break(c) PROVE OverlapInv'
    <3>1. ASSUME NEW v \in Workers, Writing(v)' PROVE Writing(v)
      <4>1. CASE worker[v].job = "poll"
        <5>1. worker[v] \in PollJobs
          BY <4>1, JobKinds DEF TypeOK
        <5>2. [worker[v] EXCEPT !.open = FALSE].job = "poll"
          BY <5>1 DEF PollJobs
        <5>3. QED
          BY <2>14, <3>1, <4>1, <5>2 DEF Break
      <4>2. CASE worker[v].job # "poll"
        BY <2>14, <3>1, <4>2 DEF Break
      <4>3. QED
        BY <4>1, <4>2
    <3>2. QED
      BY <2>1, <2>13, <2>14, <3>1 DEF Break, CompleteFailed
  <2>15. ASSUME NEW c \in Clients, Reconnect(c) PROVE OverlapInv'
    BY <2>1, <2>2, <2>15 DEF Reconnect
  <2>16. ASSUME NEW w \in Workers, KillPoll(w) PROVE OverlapInv'
    <3>1. worker[w].client \in Clients
      BY <2>16, JobKinds DEF KillPoll, TypeOK
    <3>2. \A v \in Workers : Writing(v)' => Writing(v)
      BY <2>3, <2>4, <2>16 DEF KillPoll, Release
    <3>3. ~overlap => PagesUnmixed'
      BY <2>13, <2>16, <3>1 DEF KillPoll
    <3>4. QED
      BY <2>1, <2>16, <3>2, <3>3 DEF KillPoll, CompleteFailed
  <2>17. ASSUME NEW w \in Workers, KillPost(w) PROVE OverlapInv'
    BY <2>1, <2>2, <2>3, <2>4, <2>17 DEF KillPost, Release
  <2>18. QED
    BY <2>5, <2>6, <2>7, <2>8, <2>9, <2>10, <2>11, <2>12, <2>14, <2>15, <2>16,
       <2>17 DEF Next
<1>3. QED
  BY <1>1, <1>2, TypeCorrect, PTL DEF Spec

\* A page shows whole messages and empty files, unless posts have overlapped.
THEOREM MixedOnlyByOverlapHolds == Spec => []MixedOnlyByOverlap
<1>1. OverlapInv => MixedOnlyByOverlap
  BY DEF OverlapInv, MixedOnlyByOverlap
<1>2. QED
  BY <1>1, OverlapCorrect, PTL

-----------------------------------------------------------------------------
(* Reconnecting.                                                           *)

\* A page whose noerror still holds has not completed any request.
LEMMA NoErrorCorrect == Spec => []NoErrorInv
<1>1. Init => NoErrorInv
  BY DEF Init, NoErrorInv
<1>2. TypeOK /\ NoErrorInv /\ [Next]_vars => NoErrorInv'
  <2> SUFFICES ASSUME TypeOK, NoErrorInv, [Next]_vars PROVE NoErrorInv'
    OBVIOUS
  <2> USE DEF serverVars, clientVars
  <2>1. ASSUME UNCHANGED <<noerror, broken, shown>> PROVE NoErrorInv'
    BY <2>1 DEF NoErrorInv
  <2>2. ASSUME NEW c \in Clients, CompleteFailed(c) PROVE NoErrorInv'
    <3>1. /\ noerror' = [noerror EXCEPT ![c] = FALSE]
          /\ broken' = [broken EXCEPT ![c] = @ + 1]
          /\ UNCHANGED shown
      BY <2>2 DEF CompleteFailed, ClearNoError
    <3>2. ~noerror'[c] /\ \A d \in Clients : d # c =>
            noerror'[d] = noerror[d] /\ broken'[d] = broken[d]
      BY <3>1 DEF TypeOK
    <3>3. QED
      BY <3>1, <3>2 DEF NoErrorInv
  <2>3. ASSUME NEW c \in Clients, Receive(c) PROVE NoErrorInv'
    <3>1. /\ noerror' = [noerror EXCEPT ![c] = FALSE]
          /\ shown' = [shown EXCEPT ![c] = Append(@, reply[c])]
          /\ UNCHANGED broken
      BY <2>3 DEF Receive, ClearNoError
    <3>2. ~noerror'[c] /\ \A d \in Clients : d # c =>
            noerror'[d] = noerror[d] /\ shown'[d] = shown[d]
      BY <3>1 DEF TypeOK
    <3>3. QED
      BY <3>1, <3>2 DEF NoErrorInv
  <2>4. ASSUME NEW c \in Clients, Break(c) PROVE NoErrorInv'
    BY <2>2, <2>4 DEF Break
  <2>5. ASSUME NEW w \in Workers, KillPoll(w) PROVE NoErrorInv'
    <3>1. worker[w].client \in Clients
      BY <2>5, JobKinds DEF KillPoll, TypeOK
    <3>2. QED
      BY <2>2, <2>5, <3>1 DEF KillPoll
  <2>6. CASE \/ Tick \/ UNCHANGED vars
             \/ \E m \in Messages : Send(m) \/ LosePost(m)
             \/ \E m \in Messages, w \in Workers : AcceptPost(m, w)
             \/ \E c \in Clients, w \in Workers : AcceptPoll(c, w)
             \/ \E w \in Workers : \/ Truncate(w) \/ Write(w) \/ LookAgain(w)
                                   \/ Answer(w) \/ KillPost(w)
             \/ \E c \in Clients : Reconnect(c)
    BY <2>1, <2>6 DEF Tick, vars, Send, LosePost, AcceptPost, AcceptPoll, Truncate,
       Write, LookAgain, Answer, KillPost, Reconnect
  <2>7. QED
    BY <2>3, <2>4, <2>5, <2>6 DEF Next
<1>3. QED
  BY <1>1, <1>2, TypeCorrect, PTL DEF Spec

\* Only the first request of a page is repeated without a pause when it fails.
THEOREM HastyRetryOnlyOnceHolds == Spec => HastyRetryOnlyOnce
<1> DEFINE Hasty(c) == (broken'[c] > broken[c] /\ phase'[c] = "calling")
                         => broken[c] = 0 /\ shown[c] = <<>>
<1>1. TypeOK /\ NoErrorInv /\ [Next]_vars => [\A c \in Clients : Hasty(c)]_vars
  <2> SUFFICES ASSUME TypeOK, NoErrorInv, Next, NEW c \in Clients,
                      broken'[c] > broken[c], phase'[c] = "calling"
               PROVE  broken[c] = 0 /\ shown[c] = <<>>
    OBVIOUS
  <2> USE DEF serverVars, clientVars
  <2>1. broken' # broken
    BY DEF TypeOK
  <2>2. PICK d \in Clients : CompleteFailed(d)
    <3>1. CASE \E d \in Clients : Break(d)
      BY <3>1 DEF Break
    <3>2. CASE \E w \in Workers : KillPoll(w)
      BY <3>2, JobKinds DEF KillPoll, TypeOK
    <3>3. QED
      BY <2>1, <3>1, <3>2 DEF Next, Tick, Send, LosePost, AcceptPost, AcceptPoll,
         Truncate, Write, LookAgain, Answer, KillPost, Receive, Reconnect
  <2>3. c = d
    BY <2>2 DEF CompleteFailed, TypeOK
  <2>4. noerror[c]
    BY <2>2, <2>3 DEF CompleteFailed, TypeOK
  <2>5. QED
    BY <2>4 DEF NoErrorInv
<1>2. QED
  BY <1>1, TypeCorrect, NoErrorCorrect, PTL DEF Spec, HastyRetryOnlyOnce

-----------------------------------------------------------------------------
(* The workers polls take.                                                 *)

\* Steps after which no worker is new among those whose client has gone.
LEMMA GoneKept ==
  ASSUME TypeOK', GoneInv,
         \A c \in Clients : broken[c] \in Nat /\ broken[c] <= broken'[c],
         \A w \in Workers : worker'[w].job = "poll" /\ ~worker'[w].open =>
            /\ worker[w].job = "poll" /\ ~worker[w].open
            /\ worker'[w].client = worker[w].client
  PROVE  GoneInv'
<1> SUFFICES ASSUME NEW c \in Clients
             PROVE  /\ IsFiniteSet(GonePolls(c)')
                    /\ Cardinality(GonePolls(c)') <= broken'[c]
  BY DEF GoneInv
<1>1. GonePolls(c)' \subseteq GonePolls(c)
  BY DEF GonePolls
<1>2. IsFiniteSet(GonePolls(c)) /\ Cardinality(GonePolls(c)) <= broken[c]
  BY DEF GoneInv
<1>3. /\ IsFiniteSet(GonePolls(c)')
      /\ Cardinality(GonePolls(c)') <= Cardinality(GonePolls(c))
  BY <1>1, <1>2, FS_Subset
<1>4. Cardinality(GonePolls(c)') \in Nat /\ Cardinality(GonePolls(c)) \in Nat
  BY <1>2, <1>3, FS_CardinalityType
<1>5. QED
  BY <1>2, <1>3, <1>4 DEF TypeOK

\* A connection that breaks leaves one more worker behind.
LEMMA GoneBreak ==
  ASSUME TypeOK, TypeOK', OrderInv, GoneInv, NEW c \in Clients, Break(c)
  PROVE  GoneInv'
<1> SUFFICES ASSUME NEW d \in Clients
             PROVE  /\ IsFiniteSet(GonePolls(d)')
                    /\ Cardinality(GonePolls(d)') <= broken'[d]
  BY DEF GoneInv
<1>1. /\ broken' = [broken EXCEPT ![c] = @ + 1]
      /\ \A w \in Workers : worker'[w] =
           IF worker[w].job = "poll" /\ worker[w].client = c
           THEN [worker[w] EXCEPT !.open = FALSE] ELSE worker[w]
  BY DEF Break, CompleteFailed
<1>2. \A w \in Workers : worker[w].job = "poll" =>
        LET j == [worker[w] EXCEPT !.open = FALSE]
        IN  ~j.open /\ j.job = "poll" /\ j.client = worker[w].client
  <2> SUFFICES ASSUME NEW w \in Workers, worker[w].job = "poll"
               PROVE  LET j == [worker[w] EXCEPT !.open = FALSE]
                      IN  ~j.open /\ j.job = "poll" /\ j.client = worker[w].client
    OBVIOUS
  <2>1. worker[w] \in PollJobs
    BY JobKinds DEF TypeOK
  <2>2. QED
    BY <2>1 DEF PollJobs
<1>3. /\ IsFiniteSet(GonePolls(d)) /\ Cardinality(GonePolls(d)) <= broken[d]
      /\ Cardinality(GonePolls(d)) \in Nat /\ broken[d] \in Nat
  BY FS_CardinalityType DEF GoneInv, TypeOK
<1>4. CASE d # c
  <2>1. GonePolls(d)' = GonePolls(d)
    BY <1>1, <1>2, <1>4 DEF GonePolls
  <2>2. broken'[d] = broken[d]
    BY <1>1, <1>4 DEF TypeOK
  <2>3. QED
    BY <1>3, <2>1, <2>2
<1>5. CASE d = c
  <2>1. broken'[d] = broken[d] + 1
    BY <1>1, <1>5 DEF TypeOK
  <2>2. \E v : GonePolls(d)' \subseteq GonePolls(d) \cup {v}
    <3>1. GonePolls(d)' \subseteq GonePolls(d) \cup {w \in Workers : OpenPoll(w, d)}
      BY <1>1, <1>2, <1>5 DEF GonePolls, OpenPoll
    <3>2. \A v, w \in Workers : OpenPoll(v, d) /\ OpenPoll(w, d) => v = w
      BY DEF OrderInv, ServedByOne
    <3>3. \E v : {w \in Workers : OpenPoll(w, d)} \subseteq {v}
      BY <3>2
    <3>4. QED
      BY <3>1, <3>3
  <2>3. PICK v : GonePolls(d)' \subseteq GonePolls(d) \cup {v}
    BY <2>2
  <2>4. /\ IsFiniteSet(GonePolls(d) \cup {v})
        /\ Cardinality(GonePolls(d) \cup {v}) <= Cardinality(GonePolls(d)) + 1
        /\ Cardinality(GonePolls(d) \cup {v}) \in Nat
    <3>1. /\ IsFiniteSet(GonePolls(d) \cup {v})
          /\ Cardinality(GonePolls(d) \cup {v}) =
               IF v \in GonePolls(d) THEN Cardinality(GonePolls(d))
               ELSE Cardinality(GonePolls(d)) + 1
      BY <1>3, FS_AddElement
    <3>2. QED
      BY <1>3, <3>1
  <2>5. /\ IsFiniteSet(GonePolls(d)')
        /\ Cardinality(GonePolls(d)') <= Cardinality(GonePolls(d) \cup {v})
        /\ Cardinality(GonePolls(d)') \in Nat
    BY <2>3, <2>4, FS_Subset, FS_CardinalityType
  <2>6. QED
    BY <1>3, <2>1, <2>4, <2>5
<1>6. QED
  BY <1>4, <1>5

LEMMA GoneCorrect == Spec => []GoneInv
<1>1. Init => GoneInv
  <2> SUFFICES ASSUME Init, NEW c \in Clients
               PROVE  IsFiniteSet(GonePolls(c)) /\ Cardinality(GonePolls(c)) <= broken[c]
    BY DEF GoneInv
  <2>1. GonePolls(c) = {} /\ broken[c] = 0
    BY DEF Init, GonePolls, Free
  <2>2. QED
    BY <2>1, FS_EmptySet
<1>2. TypeOK /\ TypeOK' /\ OrderInv /\ GoneInv /\ [Next]_vars => GoneInv'
  <2> SUFFICES ASSUME TypeOK, TypeOK', OrderInv, GoneInv, [Next]_vars PROVE GoneInv'
    OBVIOUS
  <2> USE DEF serverVars, clientVars
  <2> DEFINE Kept == \A w \in Workers : worker'[w].job = "poll" /\ ~worker'[w].open =>
               /\ worker[w].job = "poll" /\ ~worker[w].open
               /\ worker'[w].client = worker[w].client
             Failed == \A c \in Clients : broken[c] \in Nat /\ broken[c] <= broken'[c]
  <2>1. Kept /\ Failed => GoneInv'
    BY GoneKept
  <2>2. UNCHANGED broken => Failed
    BY DEF TypeOK
  <2>3. ASSUME NEW w \in Workers, NEW j, worker' = [worker EXCEPT ![w] = j],
               j.job # "poll" \/ j.open
        PROVE  Kept
    BY <2>3 DEF TypeOK
  <2>4. Free.job # "poll"
    BY DEF Free
  <2>5. CASE \/ Tick \/ (\E m \in Messages : Send(m) \/ LosePost(m))
             \/ (\E c \in Clients : Receive(c) \/ Reconnect(c)) \/ UNCHANGED vars
    <3>1. UNCHANGED <<worker, broken>>
      BY <2>5 DEF Tick, Send, LosePost, Receive, Reconnect, vars
    <3>2. QED
      BY <2>1, <2>2, <3>1
  <2>6. ASSUME NEW m \in Messages, NEW w \in Workers, AcceptPost(m, w) PROVE GoneInv'
    BY <2>1, <2>2, <2>3, <2>6 DEF AcceptPost
  <2>7. ASSUME NEW c \in Clients, NEW w \in Workers, AcceptPoll(c, w) PROVE GoneInv'
    BY <2>1, <2>2, <2>3, <2>7 DEF AcceptPoll
  <2>8. ASSUME NEW w \in Workers, Truncate(w) PROVE GoneInv'
    BY <2>1, <2>2, <2>3, <2>8 DEF Truncate
  <2>9. ASSUME NEW w \in Workers, Write(w) \/ Answer(w) \/ KillPost(w) PROVE GoneInv'
    <3>1. worker' = [worker EXCEPT ![w] = Free] /\ UNCHANGED broken
      BY <2>9 DEF Write, Answer, KillPost, Release
    <3>2. QED
      BY <2>1, <2>2, <2>3, <2>4, <3>1
  <2>10. ASSUME NEW w \in Workers, LookAgain(w) PROVE GoneInv'
    <3>1. worker[w] \in PollJobs
      BY <2>10, JobKinds DEF LookAgain, TypeOK
    <3>2. LET j == [worker[w] EXCEPT !.cur = mtime]
          IN  j.open = worker[w].open /\ j.client = worker[w].client
      BY <3>1 DEF PollJobs
    <3>3. Kept
      BY <2>10, <3>1, <3>2 DEF LookAgain, TypeOK
    <3>4. QED
      BY <2>1, <2>2, <2>10, <3>3 DEF LookAgain
  <2>11. ASSUME NEW w \in Workers, KillPoll(w) PROVE GoneInv'
    <3>1. worker[w].client \in Clients
      BY <2>11, JobKinds DEF KillPoll, TypeOK
    <3>2. Failed
      BY <2>11, <3>1 DEF KillPoll, CompleteFailed, TypeOK
    <3>3. worker' = [worker EXCEPT ![w] = Free]
      BY <2>11 DEF KillPoll, Release
    <3>4. QED
      BY <2>1, <2>3, <2>4, <3>2, <3>3
  <2>12. ASSUME NEW c \in Clients, Break(c) PROVE GoneInv'
    BY <2>12, GoneBreak
  <2>13. QED
    BY <2>5, <2>6, <2>7, <2>8, <2>9, <2>10, <2>11, <2>12 DEF Next
<1>3. QED
  BY <1>1, <1>2, TypeCorrect, OrderCorrect, PTL DEF Spec

\* A page holds one worker that its connection is open to, and those of its
\* requests that have failed.
LEMMA PollersOfPage ==
  ASSUME TypeOK, OrderInv, GoneInv, NEW c \in Clients
  PROVE  LET P == {w \in Workers : worker[w].job = "poll" /\ worker[w].client = c}
         IN  IsFiniteSet(P) /\ Cardinality(P) <= 1 + broken[c]
<1> DEFINE P == {w \in Workers : worker[w].job = "poll" /\ worker[w].client = c}
<1>1. \E v : P \subseteq GonePolls(c) \cup {v}
  <2>1. P \subseteq GonePolls(c) \cup {w \in Workers : OpenPoll(w, c)}
    BY DEF GonePolls, OpenPoll
  <2>2. \E v : {w \in Workers : OpenPoll(w, c)} \subseteq {v}
    BY DEF OrderInv, ServedByOne
  <2>3. QED
    BY <2>1, <2>2
<1>2. PICK v : P \subseteq GonePolls(c) \cup {v}
  BY <1>1
<1>3. /\ IsFiniteSet(GonePolls(c)) /\ Cardinality(GonePolls(c)) <= broken[c]
      /\ Cardinality(GonePolls(c)) \in Nat /\ broken[c] \in Nat
  BY FS_CardinalityType DEF GoneInv, TypeOK
<1>4. /\ IsFiniteSet(GonePolls(c) \cup {v})
      /\ Cardinality(GonePolls(c) \cup {v}) <= Cardinality(GonePolls(c)) + 1
      /\ Cardinality(GonePolls(c) \cup {v}) \in Nat
  <2>1. /\ IsFiniteSet(GonePolls(c) \cup {v})
        /\ Cardinality(GonePolls(c) \cup {v}) =
             IF v \in GonePolls(c) THEN Cardinality(GonePolls(c))
             ELSE Cardinality(GonePolls(c)) + 1
    BY <1>3, FS_AddElement
  <2>2. QED
    BY <1>3, <2>1
<1> HIDE DEF P
<1>5. IsFiniteSet(P) /\ Cardinality(P) <= Cardinality(GonePolls(c) \cup {v})
      /\ Cardinality(P) \in Nat
  BY <1>2, <1>4, FS_Subset, FS_CardinalityType
<1>6. Cardinality(P) <= 1 + broken[c]
  BY <1>3, <1>4, <1>5
<1>7. QED
  BY <1>5, <1>6 DEF P

\* A page holds one worker, and one more for each request that has failed.
THEOREM PollersBoundedHolds == Spec => []PollersBounded
<1>1. TypeOK /\ OrderInv /\ GoneInv => PollersBounded
  BY PollersOfPage DEF PollersBounded
<1>2. QED
  BY <1>1, TypeCorrect, OrderCorrect, GoneCorrect, PTL

\* What is put in finitely many places, n at most in each.
LEMMA Places ==
  ASSUME NEW C, IsFiniteSet(C), NEW n \in Nat, NEW P, NEW f \in [P -> C],
         \A c \in C : LET B == {x \in P : f[x] = c}
                      IN  IsFiniteSet(B) /\ Cardinality(B) <= n
  PROVE  IsFiniteSet(P) /\ Cardinality(P) <= Cardinality(C) * n
<1> DEFINE B(c) == {x \in P : f[x] = c}
           Numbers(c, g) == /\ g \in [B(c) -> 1 .. n]
                            /\ \A x, y \in B(c) : g[x] = g[y] => x = y
           G(c) == CHOOSE g : Numbers(c, g)
           h == [x \in P |-> <<f[x], G(f[x])[x]>>]
<1>1. ASSUME NEW c \in C PROVE \E g : Numbers(c, g)
  <2> DEFINE S == B(c)
             k == Cardinality(S)
  <2>1. /\ IsFiniteSet(S) /\ k <= n
    OBVIOUS
  <2> HIDE DEF S
  <2>2. k \in Nat /\ ExistsBijection(1 .. k, S)
    BY <2>1, FS_CardinalityType
  <2> HIDE DEF k
  <2>3. ExistsBijection(S, 1 .. k)
    BY <2>2, Fun_ExistsBijSymmetric
  <2>4. PICK g : g \in Bijection(S, 1 .. k)
    BY <2>3 DEF ExistsBijection
  <2>5. g \in [S -> 1 .. k] /\ \A x, y \in S : g[x] = g[y] => x = y
    <3> DEFINE T == 1 .. k
    <3> HIDE DEF T
    <3>1. g \in Bijection(S, T)
      BY <2>4 DEF T
    <3>2. /\ g \in [S -> T]
          /\ \A x, y \in S : g[x] = g[y] => x = y
      BY <3>1 DEF Bijection, Injection, IsInjective
    <3>3. QED
      BY <3>2 DEF T
  <2>6. g \in [S -> 1 .. n]
    BY <2>1, <2>2, <2>5
  <2>7. QED
    BY <2>5, <2>6 DEF S
<1>2. \A c \in C : Numbers(c, G(c))
  BY <1>1
<1> HIDE DEF G
<1>3. h \in Injection(P, C \X (1 .. n))
  <2>1. \A x \in P : f[x] \in C /\ x \in B(f[x]) /\ G(f[x])[x] \in 1 .. n
    BY <1>2
  <2>2. ASSUME NEW x \in P, NEW y \in P, h[x] = h[y] PROVE x = y
    <3>1. f[x] = f[y] /\ G(f[x])[x] = G(f[y])[y]
      BY <2>2
    <3>2. x \in B(f[x]) /\ y \in B(f[x]) /\ f[x] \in C
      BY <2>1, <3>1
    <3>3. QED
      BY <1>2, <3>1, <3>2
  <2>3. QED
    BY <2>1, <2>2 DEF Injection, IsInjective
<1>4. IsFiniteSet(1 .. n) /\ Cardinality(1 .. n) = n
  BY FS_Interval
<1>5. IsFiniteSet(C \X (1 .. n)) /\ Cardinality(C \X (1 .. n)) = Cardinality(C) * n
  BY <1>4, FS_Product
<1> HIDE DEF h
<1>6. QED
  BY <1>3, <1>5, FS_Injection

\* A request fails only as often as it may.
LEMMA FailuresBounded == Spec => [](\A c \in Clients : broken[c] <= MaxFailures)
<1> DEFINE Inv == \A c \in Clients : broken[c] <= MaxFailures
<1>1. Init => Inv
  BY DEF Init
<1>2. TypeOK /\ Inv /\ [Next]_vars => Inv'
  <2> SUFFICES ASSUME TypeOK, Inv, [Next]_vars PROVE Inv'
    OBVIOUS
  <2>1. CASE UNCHANGED broken
    BY <2>1
  <2>2. ASSUME NEW c \in Clients, CompleteFailed(c) PROVE Inv'
    BY <2>2 DEF CompleteFailed, TypeOK
  <2>3. ASSUME NEW w \in Workers, KillPoll(w) PROVE Inv'
    <3>1. worker[w].client \in Clients
      BY <2>3, JobKinds DEF KillPoll, TypeOK
    <3>2. QED
      BY <2>2, <2>3, <3>1 DEF KillPoll
  <2>4. QED
    BY <2>1, <2>2, <2>3
       DEF Next, Tick, Send, LosePost, AcceptPost, AcceptPoll, Truncate, Write, LookAgain,
           Answer, KillPost, Receive, Reconnect, Break, vars, clientVars
<1>3. QED
  BY <1>1, <1>2, TypeCorrect, PTL DEF Spec

\* Polls of the pages do not use up a pool that has a worker for every page
\* and every failure, and one more, for the posts.
PoolLasts ==
  IsFiniteSet(Clients) /\ IsFiniteSet(Workers)
    /\ Cardinality(Workers) > Cardinality(Clients) * (1 + MaxFailures)
  => \E w \in Workers : worker[w].job # "poll"

\* Some worker is never taken by a poll, in a pool that is larger than what
\* the pages can hold (backend.php:16-21, whose loop outlives its client).
THEOREM PoolLastsHolds == Spec => []PoolLasts
<1>1. TypeOK /\ OrderInv /\ GoneInv /\ (\A c \in Clients : broken[c] <= MaxFailures)
        => PoolLasts
  <2> SUFFICES ASSUME TypeOK, OrderInv, GoneInv, \A c \in Clients : broken[c] <= MaxFailures,
                      IsFiniteSet(Clients), IsFiniteSet(Workers),
                      Cardinality(Workers) > Cardinality(Clients) * (1 + MaxFailures),
                      \A w \in Workers : worker[w].job = "poll"
               PROVE  FALSE
    BY DEF PoolLasts
  <2> DEFINE f == [w \in Workers |-> worker[w].client]
             n == 1 + MaxFailures
  <2>1. f \in [Workers -> Clients]
    BY JobKinds DEF TypeOK
  <2>2. n \in Nat
    OBVIOUS
  <2>3. ASSUME NEW c \in Clients
        PROVE  LET B == {w \in Workers : f[w] = c}
               IN  IsFiniteSet(B) /\ Cardinality(B) <= n
    <3> DEFINE P == {w \in Workers : worker[w].job = "poll" /\ worker[w].client = c}
    <3>1. {w \in Workers : f[w] = c} = P
      OBVIOUS
    <3>2. IsFiniteSet(P) /\ Cardinality(P) <= 1 + broken[c]
      BY PollersOfPage
    <3> HIDE DEF P, f
    <3>3. Cardinality(P) \in Nat /\ broken[c] \in Nat /\ broken[c] <= MaxFailures
      BY <3>2, FS_CardinalityType DEF TypeOK
    <3>4. Cardinality(P) <= n
      BY <3>2, <3>3
    <3>5. QED
      BY <3>1, <3>2, <3>4
  <2> HIDE DEF f, n
  <2>4. Cardinality(Workers) <= Cardinality(Clients) * n
    BY <2>1, <2>2, <2>3, Places
  <2>5. Cardinality(Workers) \in Nat /\ Cardinality(Clients) \in Nat
    BY FS_CardinalityType
  <2>6. Cardinality(Clients) * n \in Nat
    BY <2>2, <2>5
  <2>7. QED
    BY <2>4, <2>5, <2>6 DEF n
<1>2. QED
  BY <1>1, TypeCorrect, OrderCorrect, GoneCorrect, FailuresBounded, PTL
=============================================================================
