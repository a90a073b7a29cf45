-------------------------- MODULE FormPage_proofs --------------------------
(***************************************************************************)
(* What FormPage promises for any places and pages, of any number of       *)
(* scripts.                                                                *)
(*                                                                         *)
(* FoundIsFilledIn is not inductive: before the form is parsed it says     *)
(* nothing of answers that came early, and a request that is found then    *)
(* would break it the moment the form appears.  FormInv adds that the form *)
(* is there exactly when the page is parsed, and that nothing is "found"   *)
(* before.                                                                 *)
(***************************************************************************)
EXTENDS FormPage, TLAPS

\* The form is there when the page is parsed, and no position was found in it
\* before.
FormIsParsed ==
  /\ stage = Parsed <=> status.class # "absent"
  /\ status.class = "absent" => /\ status = Absent
                                /\ \A i \in Requests : request[i].state # "found"

FormInv ==
  /\ TypeOK
  /\ FormIsParsed
  /\ FoundIsFilledIn

-----------------------------------------------------------------------------

\* The scripts are numbered, and the stages are theirs and two more.
LEMMA StageFacts ==
  ASSUME page \in Pages
  PROVE
  /\ Len(Scripts) \in Nat
  /\ Requests \subseteq Nat
  /\ 0 \in Stages /\ Parsed \in Stages /\ Len(Scripts) \in Stages
  /\ 0 # Parsed /\ Len(Scripts) # Parsed
  /\ \A i \in Requests : i \in Stages /\ i # Parsed /\ Scripts[i] \in BOOLEAN
<1>0. Scripts \in Seq(BOOLEAN)  BY PagesAssumption DEF Scripts
<1>1. Len(Scripts) \in Nat  BY <1>0
<1>2. \A i \in Requests : Scripts[i] \in BOOLEAN  BY <1>0 DEF Requests
<1> QED  BY <1>1, <1>2 DEF Requests, Stages, Parsed

\* What is said of a page stays so as long as the visitor is on it.
LEMMA SamePage ==
  ASSUME page' = page
  PROVE  /\ Scripts' = Scripts /\ Requests' = Requests
         /\ Stages' = Stages /\ Parsed' = Parsed
BY DEF Scripts, Requests, Stages, Parsed

\* A page that is opened is not parsed yet.
LEMMA Begins ==
  ASSUME page' \in Pages
  PROVE  0 \in Stages' /\ 0 # Parsed'
<1>1. Scripts' \in Seq(BOOLEAN)  BY PagesAssumption DEF Scripts
<1>2. Len(Scripts') \in Nat  BY <1>1
<1> QED  BY <1>2 DEF Stages, Parsed

\* A step leaves the visitor on the page, or opens one.
LEMMA Stays ==
  ASSUME TypeOK, [Next]_vars
  PROVE  /\ page' \in Pages
         /\ page' = page \/ Open
BY DEF TypeOK, Next, vars, RunScript, ParseForm, Succeed, FailToLocate, Submit, Reload, Visit

\* Every step keeps the types.
LEMMA TypeStep ==
  ASSUME TypeOK, [Next]_vars
  PROVE  TypeOK'
<1> USE DEF TypeOK, Contents
<1>0. \A s \in States : Now(s) \in RequestStates
  BY DEF Now, RequestStates
<1>p. page' \in Pages
  BY Stays
<1>s. page' = page => Requests' = Requests /\ Stages' = Stages
  BY SamePage
<1>1. CASE RunScript
  <2> DEFINE i == stage + 1
  <2>1. i \in Requests /\ stage' = i /\ i \in Stages
    BY <1>1, StageFacts DEF RunScript
  <2>2. request' \in [Requests -> RequestStates]
    <3>1. request' = request \/ request' = [request EXCEPT ![i] = Now("pending")]
      BY <1>1 DEF RunScript
    <3>2. Now("pending") \in RequestStates
      BY <1>0 DEF States
    <3> HIDE DEF i
    <3>3. [request EXCEPT ![i] = Now("pending")] \in [Requests -> RequestStates]
      BY <2>1, <3>2
    <3> QED  BY <3>1, <3>3
  <2> QED  BY <1>1, <1>s, <2>1, <2>2 DEF RunScript
<1>2. CASE ParseForm
  BY <1>2, <1>s, StageFacts DEF ParseForm, Written
<1>3. ASSUME NEW i \in Requests, NEW p \in Places, Succeed(i, p)
      PROVE  TypeOK'
  <2>1. request[i].at \subseteq Places
    BY DEF RequestStates
  <2>2. [state |-> "found", at |-> request[i].at \cup {p}] \in RequestStates
    BY <2>1 DEF RequestStates, States
  <2>3. Now("early") \in RequestStates
    BY <1>0 DEF States
  <2>4. request' \in [Requests -> RequestStates]
    BY <1>3, <2>2, <2>3 DEF Succeed
  <2>5. status' \in [class : {"absent", "", "success", "fail"}, holds : Contents]
    BY <1>3 DEF Succeed
  <2> QED  BY <1>3, <1>s, <2>4, <2>5 DEF Succeed
<1>4. ASSUME NEW i \in Requests, FailToLocate(i)
      PROVE  TypeOK'
  <2>1. Now("failed") \in RequestStates
    BY <1>0 DEF States
  <2> QED  BY <1>4, <1>s, <2>1 DEF FailToLocate, Shows
<1>5. ASSUME Open, sent' \in Contents
      PROVE  TypeOK'
  <2>1. Now("none") \in RequestStates
    BY <1>0 DEF States
  <2> QED  BY <1>5, <1>p, <2>1, Begins DEF Open, Absent
<1>6. Submit \/ Reload => TypeOK'
  BY <1>5 DEF Submit, Reload
<1>7. ASSUME NEW where \in Pages, NEW place \in Places \cup {Default}, Visit(where, place)
      PROVE  TypeOK'
  BY <1>5, <1>7 DEF Visit
<1>8. CASE UNCHANGED vars
  BY <1>8, <1>s DEF vars
<1> QED  BY <1>1, <1>2, <1>3, <1>4, <1>6, <1>7, <1>8 DEF Next

\* The parts of a request and of the form.
LEMMA Fields ==
  ASSUME TypeOK
  PROVE  /\ request = [j \in Requests |-> request[j]]
         /\ status.class \in {"absent", "", "success", "fail"}
         /\ status = [class |-> status.class, holds |-> status.holds]
         /\ Absent.class = "absent" /\ Absent.holds = Nothing
         /\ \A s \in States : Now(s).state = s
BY DEF TypeOK, Absent, Now

\* A script asks for its own position, and no request is found by it.
LEMMA RunScriptChanges ==
  ASSUME TypeOK, RunScript
  PROVE  /\ \A j \in Requests : request'[j] = request[j] \/ request'[j] = Now("pending")
         /\ stage # Parsed /\ stage' # Parsed
<1> DEFINE i == stage + 1
<1>1. i \in Requests /\ stage' = i /\ stage \in Nat
  <2>1. stage \in Nat
    <3>1. stage \in 0 .. Len(Scripts) + 1
      BY DEF TypeOK, Stages
    <3> QED  BY <3>1
  <2> QED  BY <2>1 DEF RunScript
<1>2. stage # Parsed /\ stage' # Parsed
  BY <1>1, StageFacts DEF Parsed, Requests
<1>3. request' = request \/ request' = [request EXCEPT ![i] = Now("pending")]
  BY DEF RunScript
<1> HIDE DEF i
<1>4. \A j \in Requests : request'[j] = request[j] \/ request'[j] = Now("pending")
  BY <1>1, <1>3, Fields
<1> QED  BY <1>2, <1>4

\* Nothing of the form is there on a page that has just been opened.
LEMMA Opened ==
  ASSUME page \in Pages, stage = 0, status = Absent, request = [i \in Requests |-> Now("none")]
  PROVE  FormIsParsed /\ FoundIsFilledIn
BY StageFacts DEF FormIsParsed, FoundIsFilledIn, Absent, Now

LEMMA InitInv == Init => FormInv
<1> SUFFICES ASSUME Init PROVE FormInv  OBVIOUS
<1>1. Now("none") \in RequestStates
  BY DEF Now, RequestStates, States
<1>2. TypeOK
  BY <1>1, StageFacts DEF Init, TypeOK, Absent, Contents
<1> QED  BY <1>2, Opened DEF Init, FormInv

-----------------------------------------------------------------------------

\* The form is there exactly from the moment it is parsed.
LEMMA ParsedStep ==
  ASSUME FormInv, [Next]_vars
  PROVE  FormIsParsed'
<1> USE DEF FormInv, TypeOK, FormIsParsed
<1>p. page' \in Pages
  BY Stays
<1>s. page' = page => Requests' = Requests /\ Parsed' = Parsed
  BY SamePage
<1>1. CASE RunScript
  BY <1>1, <1>s, RunScriptChanges, Fields DEF RunScript, States
<1>2. CASE ParseForm
  BY <1>2, <1>s, StageFacts DEF ParseForm
<1>3. ASSUME NEW i \in Requests, NEW p \in Places, Succeed(i, p)
      PROVE  FormIsParsed'
  <2>1. CASE status.class = "absent"
    <3>1. status = Absent /\ status' = status /\ stage' = stage
      BY <1>3, <1>s, <2>1 DEF Succeed, NotYetFilled
    <3>2. request' = [request EXCEPT ![i] = Now("early")]
      BY <1>3, <1>s, <3>1 DEF Succeed
    <3>3. Now("early").state # "found"
      BY DEF Now
    <3>4. \A j \in Requests : request'[j].state # "found"
      BY <2>1, <3>2, <3>3
    <3>5. Requests' = Requests /\ Parsed' = Parsed
      BY <1>s, <1>3 DEF Succeed
    <3> QED  BY <2>1, <3>1, <3>4, <3>5
  <2>2. CASE status.class # "absent"
    <3>1. status'.class # "absent" /\ stage' = stage
      BY <1>3, <1>s, <2>2 DEF Succeed
    <3> QED  BY <1>s, <1>3, <2>2, <3>1 DEF Succeed
  <2> QED  BY <2>1, <2>2
<1>4. ASSUME NEW i \in Requests, FailToLocate(i)
      PROVE  FormIsParsed'
  BY <1>4, <1>s, Fields DEF FailToLocate, Shows, Absent, States
<1>5. ASSUME Open
      PROVE  FormIsParsed'
  BY <1>5, <1>p, Begins DEF Open, Absent, Now
<1>6. Submit \/ Reload => FormIsParsed'
  BY <1>5 DEF Submit, Reload
<1>7. ASSUME NEW where \in Pages, NEW place \in Places \cup {Default}, Visit(where, place)
      PROVE  FormIsParsed'
  BY <1>5, <1>7 DEF Visit
<1>8. CASE UNCHANGED vars
  BY <1>8, <1>s DEF vars, Parsed
<1> QED  BY <1>1, <1>2, <1>3, <1>4, <1>6, <1>7, <1>8 DEF Next

\* A position that was found stays accounted for.
LEMMA FoundStep ==
  ASSUME FormInv, [Next]_vars
  PROVE  FoundIsFilledIn'
<1> USE DEF FormIsParsed, FoundIsFilledIn, ShownFailure
<1>0. /\ TypeOK /\ FormIsParsed /\ FoundIsFilledIn
      /\ request = [j \in Requests |-> request[j]]
  BY Fields DEF FormInv
<1>p. page \in Pages /\ page' \in Pages
  BY <1>0, Stays DEF TypeOK
<1>s. page' = page => Requests' = Requests /\ Parsed' = Parsed /\ Scripts' = Scripts
  BY SamePage
<1>1. CASE RunScript
  <2>1. Parsed' = Parsed
    BY <1>1, <1>s DEF RunScript
  <2> QED  BY <1>0, <1>p, <1>1, <2>1, RunScriptChanges
<1>2. CASE ParseForm
  <2>1. status.class = "absent"
    BY <1>0, <1>p, <1>2, StageFacts, Fields DEF ParseForm
  <2> QED  BY <1>0, <1>s, <1>2, <2>1 DEF ParseForm, Written
<1>3. ASSUME NEW i \in Requests, NEW p \in Places, Succeed(i, p), stage' = Parsed'
      PROVE  FoundIsFilledIn'
  <2>0. Requests' = Requests /\ Parsed' = Parsed /\ Scripts' = Scripts
    BY <1>s, <1>3 DEF Succeed
  <2>1. stage = Parsed /\ status # Absent /\ status.class # "absent"
    BY <1>0, <1>3, <2>0, Fields DEF Succeed
  <2> DEFINE answered == [state |-> "found", at |-> request[i].at \cup {p}]
  <2>2. /\ request'[i] = answered
        /\ \A j \in Requests \ {i} : request'[j] = request[j]
    BY <1>0, <1>3, <2>1 DEF Succeed
  <2>3. CASE NotYetFilled
    <3>1. status' = [class |-> "success", holds |-> p]
      BY <1>3, <2>3 DEF Succeed
    <3>2. request'[i].state = "found" /\ p \in request'[i].at
      BY <2>2
    <3> QED  BY <2>0, <3>1, <3>2
  <2>4. CASE ~NotYetFilled
    <3>1. status.class = "success" /\ status' = status
      BY <1>0, <1>3, <2>1, <2>4, Fields DEF Succeed, NotYetFilled
    <3>2. PICK j \in Requests : request[j].state = "found" /\ status.holds \in request[j].at
      BY <1>0, <2>1, <3>1
    <3>3. request'[j].state = "found" /\ status.holds \in request'[j].at
      BY <2>2, <3>2
    <3> QED  BY <2>0, <3>1, <3>3
  <2> QED  BY <2>3, <2>4
<1>4. ASSUME NEW i \in Requests, FailToLocate(i), stage' = Parsed'
      PROVE  FoundIsFilledIn'
  <2>0. Requests' = Requests /\ Parsed' = Parsed /\ Scripts' = Scripts
    BY <1>s, <1>4 DEF FailToLocate
  <2>1. stage = Parsed /\ status # Absent /\ request[i].state = "pending"
    BY <1>0, <1>4, <2>0, Fields DEF FailToLocate
  <2>2. request'[i].state = "failed" /\ \A j \in Requests \ {i} : request'[j] = request[j]
    BY <1>0, <1>4, Fields DEF FailToLocate, States
  <2>3. CASE Scripts[i]
    <3>1. status' = [class |-> "fail", holds |-> Nothing]
      BY <1>4, <2>1, <2>3 DEF FailToLocate, Shows
    <3> QED  BY <2>0, <2>2, <2>3, <3>1
  <2>4. CASE ~Scripts[i]
    <3>1. status' = status /\ Written' = Written
      BY <1>4, <2>4 DEF FailToLocate, Shows, Written
    <3>2. \A j \in Requests : request[j].state = "found" => request'[j] = request[j]
      BY <2>1, <2>2
    <3>3. \A j \in Requests : request[j].state = "failed" => request'[j].state = "failed"
      BY <2>2
    <3>4. \A j \in Requests : request'[j].state = "found" => request[j].state = "found"
      BY <2>2
    <3>5. CASE status.class = "success"
      <4>1. PICK j \in Requests : request[j].state = "found" /\ status.holds \in request[j].at
        BY <1>0, <2>1, <3>5
      <4>2. request'[j] = request[j]
        BY <3>2, <4>1
      <4> QED  BY <2>0, <3>1, <3>5, <4>1, <4>2
    <3>6. CASE status.class = "fail"
      BY <1>0, <2>0, <2>1, <3>1, <3>3, <3>6
    <3>7. CASE status.class = ""
      BY <1>0, <2>0, <2>1, <3>1, <3>4, <3>7
    <3> QED  BY <1>0, <2>1, <3>5, <3>6, <3>7
  <2> QED  BY <2>3, <2>4
<1>5. ASSUME Open
      PROVE  FoundIsFilledIn'
  BY <1>5, <1>p, Begins DEF Open
<1>6. Submit \/ Reload => FoundIsFilledIn'
  BY <1>5 DEF Submit, Reload
<1>7. ASSUME NEW where \in Pages, NEW place \in Places \cup {Default}, Visit(where, place)
      PROVE  FoundIsFilledIn'
  BY <1>5, <1>7 DEF Visit
<1>8. CASE UNCHANGED vars
  BY <1>0, <1>s, <1>8 DEF vars, Parsed, Written
<1>9. stage' # Parsed' => FoundIsFilledIn'
  OBVIOUS
<1> QED  BY <1>1, <1>2, <1>3, <1>4, <1>6, <1>7, <1>8, <1>9 DEF Next

\* FormInv is inductive.
THEOREM FormInvariant == Spec => []FormInv
<1>1. FormInv /\ [Next]_vars => FormInv'
  BY TypeStep, ParsedStep, FoundStep DEF FormInv
<1> QED  BY InitInv, <1>1, PTL DEF Spec

\* The variables have their types.
THEOREM TypeCorrect == Spec => []TypeOK
BY FormInvariant, PTL DEF FormInv

\* A position found while the form is there is in the form, or that of another
\* answer is, or a failure took it away, whatever the order of the answers, of
\* the parser and of second answers to one request.
THEOREM FoundFilledIn == Spec => []FoundIsFilledIn
BY FormInvariant, PTL DEF FormInv

\* A second answer leaves the first in the form.
THEOREM PositionKept == Spec => PositionStays
<1> DEFINE Kept ==
      status.class = "success" /\ stage' = stage
        => \/ status' = status
           \/ \E i \in Requests :
                /\ Scripts[i]
                /\ request[i].state = "pending" /\ request'[i].state = "failed"
<1>1. ASSUME FormInv, [Next]_vars, status.class = "success", stage' = stage
      PROVE  Kept
  <2> USE DEF FormInv, TypeOK
  <2>0. stage = Parsed /\ status # Absent
    BY <1>1, Fields DEF FormIsParsed
  <2>1. CASE RunScript
    BY <1>1, <2>1, <2>0, StageFacts DEF RunScript
  <2>2. ~ParseForm /\ ~Open
    BY <1>1, <2>0, StageFacts DEF ParseForm, Open
  <2>3. ASSUME NEW i \in Requests, NEW p \in Places, Succeed(i, p)
        PROVE  Kept
    BY <1>1, <2>3 DEF Succeed, NotYetFilled
  <2>4. ASSUME NEW i \in Requests, FailToLocate(i)
        PROVE  Kept
    <3>1. request[i].state = "pending" /\ request'[i].state = "failed"
      BY <1>1, <2>4, Fields DEF FailToLocate, States
    <3> QED  BY <1>1, <2>0, <2>4, <3>1 DEF FailToLocate, Shows
  <2>5. CASE UNCHANGED vars
    BY <2>5 DEF vars
  <2> QED
    BY <1>1, <2>1, <2>2, <2>3, <2>4, <2>5 DEF Next, Submit, Reload, Visit
<1>2. FormInv /\ [Next]_vars => [Kept]_vars
  BY <1>1
<1> QED  BY FormInvariant, <1>2, PTL DEF Spec, PositionStays
=============================================================================
