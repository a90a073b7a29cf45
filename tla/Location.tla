------------------------------ MODULE Location ------------------------------
(***************************************************************************)
(* The exchange of location requests in www/location/name: the form of     *)
(* search/index.html, the script submit/index.php (search/submit/index.php *)
(* is the same text) which logs and mails a request, and the page locate/, *)
(* to which the mail leads and whose answers process_location.php takes.   *)
(*                                                                         *)
(* Everybody may ask everybody else.  The browser may be asked for the     *)
(* position any number of times before the form is sent, and answers in    *)
(* any order; the inputs it fills may be typed into as well, and are there *)
(* again when somebody goes back to a form.  Nothing of an answer to a     *)
(* letter is kept: one of them, accept, leads to the form, where the       *)
(* target may ask back.                                                    *)
(***************************************************************************)
CONSTANTS
  People,
  Places,   \* where they may be
  Clicks,   \* bound: requests for the position of one page, at a time
  Jobs      \* bound: one for every time a form is sent

Blank == "blank"   \* the inputs of a form that have not been filled in

ASSUME BlankAssumption == Blank \notin Places

VARIABLES
  place,   \* where everybody is
  page,    \* the page everybody looks at
  asked,   \* for each click: where they have been since, {} when it is over
  form,    \* the inputs glat, glon and galt
  kept,    \* the browser: the places in the inputs of the forms they have left
  own,     \* history: where they have been since their first form, or typed
  last,    \* what has led to the page somebody sees, and a reload sends again
  job,     \* the runs of submit/index.php
  logged,  \* the runs that have called error_log
  mailed,  \* the runs that have handed their letter to the mail system
  inbox    \* the mails everybody has received

pages == <<place, page, asked, form, kept, own, last>>
vars == <<pages, job, logged, mailed, inbox>>

Contents == Places \cup {Blank}
\* `true': the place is its sender's own (history).
Letters == [to : People, at : Contents, true : BOOLEAN]
NoLetter == [to |-> "nobody", at |-> Blank, true |-> TRUE]

NotAsked == [c \in Clicks |-> {}]

Steps == {"idle", "log", "mail", "over"}

TypeOK ==
  /\ place \in [People -> Places]
  /\ page \in [People -> {"away", "form", "sent", "locate"}]
  /\ asked \in [People -> [Clicks -> SUBSET Places]]
  /\ form \in [People -> Contents]
  /\ kept \in [People -> SUBSET Places]
  /\ own \in [People -> SUBSET Places]
  /\ last \in [People -> Letters \cup {NoLetter}]
  /\ job \in [Jobs -> [step : Steps, letter : Letters \cup {NoLetter}]]
  /\ logged \in SUBSET Jobs
  /\ mailed \in SUBSET Jobs
  /\ inbox \in [People -> SUBSET Jobs]

Init ==
  /\ place \in [People -> Places]
  /\ page = [p \in People |-> "away"]
  /\ asked = [p \in People |-> NotAsked]
  /\ form = [p \in People |-> Blank]
  /\ kept = [p \in People |-> {}]
  /\ own = [p \in People |-> {}]
  /\ last = [p \in People |-> NoLetter]
  /\ job = [j \in Jobs |-> [step |-> "idle", letter |-> NoLetter]]
  /\ logged = {}
  /\ mailed = {}
  /\ inbox = [p \in People |-> {}]

-----------------------------------------------------------------------------
(* search/index.html.                                                      *)

\* Somebody goes on to another page, where there is no form, having sent
\* `letter'.  Answers to clicks will come only if they go back.
Leaves(p, next, letter) ==
  /\ page' = [page EXCEPT ![p] = next]
  /\ form' = [form EXCEPT ![p] = Blank]
  /\ kept' = [kept EXCEPT ![p] = @ \cup ({form[p]} \cap Places)]
  /\ last' = [last EXCEPT ![p] = letter]

\* What a new form says: it does not look at the query of the link.
FromLetters(p) == {Blank} \cup {job[j].letter.at : j \in inbox[p]}
New(p) == {Blank}

\* Answers to what was asked on an earlier form do not come any more.
Open(p) ==
  /\ page[p] = "away"
  /\ page' = [page EXCEPT ![p] = "form"]
  /\ \E x \in New(p) : form' = [form EXCEPT ![p] = x]
  /\ asked' = [asked EXCEPT ![p] = NotAsked]
  /\ own' = [own EXCEPT ![p] = @ \cup {place[p]}]
  /\ UNCHANGED <<place, kept, last, job, logged, mailed, inbox>>

\* Back to a form: the browser may have kept what the inputs said, and the
\* page itself with what it was waiting for.
Back(p) ==
  /\ page[p] # "form"
  /\ kept[p] # {} \/ asked[p] # NotAsked
  /\ page' = [page EXCEPT ![p] = "form"]
  /\ \E x \in kept[p] \cup {Blank} : form' = [form EXCEPT ![p] = x]
  /\ asked' \in {asked, [asked EXCEPT ![p] = NotAsked]}
  /\ last' = [last EXCEPT ![p] = NoLetter]
  /\ UNCHANGED <<place, kept, own, job, logged, mailed, inbox>>

\* The inputs are text inputs: somebody types x into them, or clears them.
Type(p, x) ==
  /\ page[p] = "form" /\ form[p] # x
  /\ form' = [form EXCEPT ![p] = x]
  /\ own' = [own EXCEPT ![p] = @ \cup ({x} \cap Places)]
  /\ UNCHANGED <<place, page, asked, kept, last, job, logged, mailed, inbox>>

\* getMovement.
Click(p, c) ==
  /\ page[p] = "form"
  /\ asked[p][c] = {}
  /\ asked' = [asked EXCEPT ![p][c] = {place[p]}]
  /\ UNCHANGED <<place, page, form, kept, own, last, job, logged, mailed, inbox>>

\* showPosition, with a place since the click, or showError, which leaves the
\* inputs alone.
Answered(p, c) ==
  /\ page[p] = "form"
  /\ asked[p][c] # {}
  /\ asked' = [asked EXCEPT ![p][c] = {}]
  /\ \/ \E x \in asked[p][c] : form' = [form EXCEPT ![p] = x]
     \/ UNCHANGED form
  /\ UNCHANGED <<place, page, kept, own, last, job, logged, mailed, inbox>>

Move(p, x) ==
  /\ place[p] # x
  /\ place' = [place EXCEPT ![p] = x]
  /\ own' = [own EXCEPT ![p] = IF @ = {} THEN {} ELSE @ \cup {x}]
  /\ asked' = [asked EXCEPT ![p] =
       [c \in Clicks |-> IF @[c] = {} THEN {} ELSE @[c] \cup {x}]]
  /\ UNCHANGED <<page, form, kept, last, job, logged, mailed, inbox>>

\* What the script does first.
MailsFirst == "mail"
First == "log"

Starts(j, letter) ==
  /\ job[j].step = "idle"
  /\ job' = [job EXCEPT ![j] = [step |-> First, letter |-> letter]]

\* The form is sent, with or without a position.
Submit(p, q, j) ==
  LET letter == [to |-> q, at |-> form[p],
                 true |-> form[p] \in own[p] \cup {Blank}]
  IN  /\ page[p] = "form"
      /\ Starts(j, letter)
      /\ Leaves(p, "sent", letter)
      /\ UNCHANGED <<place, asked, own, logged, mailed, inbox>>

\* The page of the result is reloaded, which sends the same again.
Reload(p, j) ==
  /\ page[p] = "sent"
  /\ Starts(j, last[p])
  /\ UNCHANGED <<pages, logged, mailed, inbox>>

Leave(p) ==
  /\ page[p] # "away"
  /\ Leaves(p, "away", NoLetter)
  /\ UNCHANGED <<place, asked, own, job, logged, mailed, inbox>>

-----------------------------------------------------------------------------
(* submit/index.php.                                                       *)

Goto(j, step) == job' = [job EXCEPT ![j].step = step]

\* error_log, which may fail: what it returns is not looked at.
Log(j) ==
  /\ job[j].step = "log"
  /\ Goto(j, "mail")
  /\ logged' = logged \cup {j}
  /\ UNCHANGED <<pages, mailed, inbox>>

\* mail() hands the letter to sendmail, or it does not.  The page which says
\* that of the two is left out, with the death that may come before it.
Mail(j) ==
  /\ job[j].step = "mail"
  /\ Goto(j, "over")
  /\ mailed' \in {mailed, mailed \cup {j}}
  /\ UNCHANGED <<pages, logged, inbox>>

\* The script is killed.
Die(j) ==
  /\ job[j].step \in {"log", "mail"}
  /\ Goto(j, "over")
  /\ UNCHANGED <<pages, logged, mailed, inbox>>

-----------------------------------------------------------------------------
(* The mail system, locate/index.html and process_location.php.            *)

\* Whom a letter is for: $recipient.
Recipients(j) == {job[j].letter.to}

\* Letters come late, in any order or not at all; one that comes more than
\* once says the same.
Deliver(p, j) ==
  /\ j \in mailed \ inbox[p]
  /\ p \in Recipients(j)
  /\ inbox' = [inbox EXCEPT ![p] = @ \cup {j}]
  /\ UNCHANGED <<pages, job, logged, mailed>>

\* The link in a letter; all letters have the same.
Follow(p) ==
  /\ inbox[p] # {}
  /\ page[p] # "locate"
  /\ Leaves(p, "locate", NoLetter)
  /\ UNCHANGED <<place, asked, own, job, logged, mailed, inbox>>

\* process_location.php answers with a text, whatever was answered before,
\* and if it was accept with a link to the form; the link in the letter leads
\* to the same page again.
Answer(p) ==
  /\ page[p] = "locate"
  /\ Leaves(p, "away", NoLetter)
  /\ UNCHANGED <<place, asked, own, job, logged, mailed, inbox>>

Next ==
  \/ \E p \in People :
       \/ Open(p) \/ Back(p) \/ Leave(p) \/ Follow(p) \/ Answer(p)
       \/ \E x \in Contents : Type(p, x)
       \/ \E c \in Clicks : Click(p, c) \/ Answered(p, c)
       \/ \E x \in Places : Move(p, x)
       \/ \E j \in Jobs : Reload(p, j) \/ Deliver(p, j)
       \/ \E q \in People \ {p}, j \in Jobs : Submit(p, q, j)
  \/ \E j \in Jobs : Log(j) \/ Mail(j) \/ Die(j)

Spec == Init /\ [][Next]_vars

-----------------------------------------------------------------------------
(* Properties.                                                             *)

\* However late a letter comes, however often it was sent again and in which
\* order the browser answered: it is for whom it reaches, and the place in it
\* is its sender's own, one where they have been since they opened their first
\* form or that they have typed, or there is none.  In particular who asks
\* back does not send the place that the letter they answer has brought.
ReceivedIsOwn ==
  \A p \in People : \A j \in inbox[p] :
    job[j].letter.to = p /\ job[j].letter.true

\* Nobody receives a letter before the script has tried to log it: scripts
\* that die leave lines without letters only.
ReceivedIsLogged ==
  \A p \in People : \A j \in inbox[p] : j \in logged

-----------------------------------------------------------------------------
(* The invariants behind the properties.                                   *)

\* The form, what its clicks may still put there and what the browser keeps.
FormIsOwn ==
  \A p \in People :
    /\ form[p] \in own[p] \cup {Blank}
    /\ kept[p] \subseteq own[p] \cup {Blank}
    /\ \A c \in Clicks : asked[p][c] \subseteq own[p]
    /\ own[p] = {} => page[p] # "form"
    /\ own[p] # {} => place[p] \in own[p]

LettersAreTrue ==
  /\ \A p \in People : last[p].true
  /\ \A j \in Jobs : job[j].letter.true

\* What each step of a run has done.
RunsInOrder ==
  \A j \in Jobs :
    /\ job[j].step # "over" => j \notin mailed
    /\ job[j].step = "mail" => j \in logged
    /\ j \in mailed => j \in logged

ReceivedWasMailed ==
  \A p \in People : \A j \in inbox[p] : j \in mailed /\ job[j].letter.to = p

LocationInv ==
  /\ TypeOK
  /\ FormIsOwn
  /\ LettersAreTrue
  /\ RunsInOrder
  /\ ReceivedWasMailed
=============================================================================
