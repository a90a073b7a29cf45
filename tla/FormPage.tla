------------------------------ MODULE FormPage ------------------------------
(***************************************************************************)
(* A page with a form that is filled in with the visitor's position:       *)
(* www/cft/s/index.php, whose form pushes a listing, and www/index.cgi,    *)
(* whose form searches.                                                    *)
(*                                                                         *)
(* Scripts above the form ask the browser for the position and go on.  The *)
(* browser may call success or error later, or never, before or after it   *)
(* has parsed the form.  The comments in success have seen it called again *)
(* with "a cached result coming back", so that the position of an answer   *)
(* is any place, new or old, and a request that has succeeded may succeed  *)
(* again.  The element #status inside the form holds the inputs glat and   *)
(* glon.  The first page has two scripts, each with its own success and    *)
(* error, the second page has one.  The form of the second is filled in    *)
(* with the coordinates of the address.                                    *)
(*                                                                         *)
(* Beyond the inputs in #status success does nothing: the element it looks *)
(* up next, #status_publisher, is on neither page, and it throws.  So does *)
(* updateGeo, which runs when the form is submitted.                       *)
(***************************************************************************)
EXTENDS Naturals, Sequences

CONSTANTS
  Places,      \* the positions an answer may bring
  Pages        \* each with its scripts, which of them show that they failed,
               \* and whether its form is filled in from the address

Default == "default"   \* the coordinates written in the page, or none in the address
Nothing == "nothing"   \* no inputs at all

ASSUME PlacesAssumption == Places \cap {Default, Nothing} = {}
ASSUME PagesAssumption ==
  Pages \subseteq [scripts : Seq(BOOLEAN) \ {<<>>}, remembers : BOOLEAN]

VARIABLES
  page,        \* the page the visitor is on
  supported,   \* the browser has navigator.geolocation
  stage,       \* how much of the page has been parsed
  request,     \* what has become of each script's request
  status,      \* the element #status
  sent         \* the coordinates of the address: what was submitted last

vars == <<page, supported, stage, request, status, sent>>

Scripts == page.scripts
Requests == 1 .. Len(Scripts)

\* Before the scripts, after each of them, and with the form.
Stages == 0 .. Len(Scripts) + 1
Parsed == Len(Scripts) + 1

\* A request is found "early" as long as the form is not there; at are the
\* positions it was answered with since.
States == {"none", "pending", "found", "early", "failed"}
RequestStates == [state : States, at : SUBSET Places]
Now(state) == [state |-> state, at |-> {}]

Contents == Places \cup {Default, Nothing}
Absent == [class |-> "absent", holds |-> Nothing]

TypeOK ==
  /\ page \in Pages
  /\ supported \in BOOLEAN
  /\ stage \in Stages
  /\ request \in [Requests -> RequestStates]
  /\ status \in [class : {"absent", "", "success", "fail"}, holds : Contents]
  /\ sent \in Contents

Init ==
  /\ page \in Pages
  /\ supported \in BOOLEAN
  /\ stage = 0
  /\ request = [i \in Requests |-> Now("none")]
  /\ status = Absent
  /\ sent = Default

-----------------------------------------------------------------------------
(* The page.                                                               *)

\* The next script runs.  Without geolocation it calls error, which does not
\* find #status either.
RunScript ==
  LET i == stage + 1
  IN  /\ i \in Requests
      /\ stage' = i
      /\ request' = IF supported
                    THEN [request EXCEPT ![i] = Now("pending")]
                    ELSE request
      /\ UNCHANGED <<page, supported, status, sent>>

\* The inputs the page is written with.
Written == IF page.remembers THEN sent ELSE Default

ParseForm ==
  /\ stage = Len(Scripts)
  /\ stage' = Parsed
  /\ status' = [class |-> "", holds |-> Written]
  /\ UNCHANGED <<page, supported, request, sent>>

\* The condition under which success writes.
NotAbsent == status # Absent
NotRemembered == status.class = "" /\ status.holds = Default
NotYetFilled == status.class \notin {"absent", "success"}

\* The browser calls success of script i with the position p.
Succeed(i, p) ==
  /\ request[i].state \in {"pending", "found", "early"}
  /\ request' = [request EXCEPT ![i] =
       IF status = Absent THEN Now("early")
                          ELSE [state |-> "found", at |-> @.at \cup {p}]]
  /\ status' = IF NotYetFilled THEN [class |-> "success", holds |-> p] ELSE status
  /\ UNCHANGED <<page, supported, stage, sent>>

\* What error of script i makes of #status, when it is there.
Shows(i) == IF Scripts[i] THEN [class |-> "fail", holds |-> Nothing] ELSE status

\* It calls error.
FailToLocate(i) ==
  /\ request[i].state = "pending"
  /\ request' = [request EXCEPT ![i] = Now("failed")]
  /\ status' = IF status = Absent THEN status ELSE Shows(i)
  /\ UNCHANGED <<page, supported, stage, sent>>

-----------------------------------------------------------------------------
(* The visitor.                                                            *)

\* A page is opened, and the callbacks of the one before are gone.
Open ==
  /\ stage' = 0
  /\ request' = [i \in Requests' |-> Now("none")]
  /\ status' = Absent
  /\ UNCHANGED supported

Submit ==
  /\ stage = Parsed
  /\ UNCHANGED page
  /\ sent' = status.holds
  /\ Open

Reload == UNCHANGED <<page, sent>> /\ Open

\* A link leads to a page, with coordinates in its address or without.
Visit(where, place) ==
  /\ page' = where
  /\ sent' = place
  /\ Open

Next ==
  \/ RunScript \/ ParseForm \/ Submit \/ Reload
  \/ \E i \in Requests : FailToLocate(i) \/ \E p \in Places : Succeed(i, p)
  \/ \E where \in Pages, place \in Places \cup {Default} : Visit(where, place)

Spec == Init /\ [][Next]_vars

-----------------------------------------------------------------------------
(* Properties.                                                             *)

\* The coordinates that success has filled in stay those of one answer,
\* although another request, or the same one again, may bring others; only a
\* failure that is shown takes them away.
PositionStays ==
  [][status.class = "success" /\ stage' = stage
       => \/ status' = status
          \/ \E i \in Requests :
               /\ Scripts[i]
               /\ request[i].state = "pending" /\ request'[i].state = "failed"]_vars

ShownFailure == \E i \in Requests : Scripts[i] /\ request[i].state = "failed"

\* A position that was found when the form was there is in the form, or that
\* of another answer is, unless a failure has been shown; without such a
\* position or failure the form is as it was written, whatever came before the
\* form was parsed.
FoundIsFilledIn ==
  stage = Parsed =>
    \/ /\ status.class = "success"
       /\ \E i \in Requests : request[i].state = "found" /\ status.holds \in request[i].at
    \/ /\ status.class = "fail" /\ status.holds = Nothing
       /\ ShownFailure
    \/ /\ status.class = "" /\ status.holds = Written
       /\ \A i \in Requests : request[i].state # "found"
=============================================================================
