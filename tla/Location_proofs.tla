--------------------------- MODULE Location_proofs ---------------------------
(* Proofs about location requests, for any people, places, clicks and runs.  *)
EXTENDS Location, TLAPS

\* The invariant holds at the beginning.
LEMMA InitInv == Init => LocationInv
<1> SUFFICES ASSUME Init PROVE LocationInv
  OBVIOUS
<1> USE DEF Init, NoLetter, NotAsked, Contents
<1>1. TypeOK
  BY DEF TypeOK, Steps
<1>2. FormIsOwn
  BY DEF FormIsOwn, Steps
<1>3. LettersAreTrue
  BY DEF LettersAreTrue, Steps
<1>4. RunsInOrder
  BY DEF RunsInOrder, Steps
<1>5. ReceivedWasMailed
  BY DEF ReceivedWasMailed, Steps
<1> QED
  BY <1>1, <1>2, <1>3, <1>4, <1>5 DEF LocationInv

\* Open keeps the invariant.
LEMMA OpenKeeps ==
  ASSUME LocationInv, NEW p \in People, Open(p)
  PROVE LocationInv'
<1> USE DEF LocationInv, Open, New, NotAsked, pages
<1>1. TypeOK'
  BY BlankAssumption DEF TypeOK, Contents, Letters, NoLetter, Steps
<1>2. FormIsOwn'
  BY BlankAssumption DEF TypeOK, FormIsOwn, Contents, NoLetter
<1>3. LettersAreTrue'
  BY BlankAssumption DEF TypeOK, FormIsOwn, LettersAreTrue, Contents, Letters, NoLetter, Steps
<1>4. RunsInOrder'
  BY BlankAssumption DEF TypeOK, RunsInOrder
<1>5. ReceivedWasMailed'
  BY BlankAssumption DEF TypeOK, RunsInOrder, ReceivedWasMailed
<1> QED
  BY <1>1, <1>2, <1>3, <1>4, <1>5

\* Back keeps the invariant.
LEMMA BackKeeps ==
  ASSUME LocationInv, NEW p \in People, Back(p)
  PROVE LocationInv'
<1> USE DEF LocationInv, pages
<1>1. PICK x \in kept[p] \cup {Blank} : form' = [form EXCEPT ![p] = x]
  BY DEF Back
<1>2. /\ page' = [page EXCEPT ![p] = "form"]
      /\ last' = [last EXCEPT ![p] = NoLetter]
      /\ UNCHANGED <<place, kept, own, job, logged, mailed, inbox>>
      /\ kept[p] # {} \/ asked[p] # NotAsked
  BY DEF Back
<1>3. /\ asked' \in [People -> [Clicks -> SUBSET Places]]
      /\ \A q \in People, c \in Clicks : asked'[q][c] = asked[q][c] \/ asked'[q][c] = {}
  <2>1. asked \in [People -> [Clicks -> SUBSET Places]]
    BY DEF TypeOK
  <2>2. NotAsked \in [Clicks -> SUBSET Places] /\ \A c \in Clicks : NotAsked[c] = {}
    BY DEF NotAsked
  <2>3. CASE asked' = asked
    BY <2>1, <2>3
  <2>4. CASE asked' = [asked EXCEPT ![p] = NotAsked]
    BY <2>1, <2>2, <2>4
  <2> QED
    BY <2>3, <2>4 DEF Back
<1>4. own[p] # {}
  <2>1. CASE kept[p] # {}
    BY <2>1, BlankAssumption DEF FormIsOwn, TypeOK
  <2>2. CASE asked[p] # NotAsked
    <3>1. PICK c \in Clicks : asked[p][c] # {}
      BY <2>2 DEF TypeOK, NotAsked
    <3> QED
      BY <3>1 DEF FormIsOwn
  <2> QED
    BY <1>2, <2>1, <2>2
<1>5. x \in own[p] \cup {Blank} /\ x \in Contents
  BY <1>1 DEF FormIsOwn, TypeOK, Contents
<1>6. TypeOK'
  BY <1>1, <1>2, <1>3, <1>5 DEF TypeOK
<1>7. FormIsOwn'
  BY <1>1, <1>2, <1>3, <1>4, <1>5 DEF TypeOK, FormIsOwn
<1>8. LettersAreTrue'
  BY <1>2 DEF TypeOK, LettersAreTrue, NoLetter
<1>9. RunsInOrder' /\ ReceivedWasMailed'
  BY <1>2 DEF RunsInOrder, ReceivedWasMailed
<1> QED
  BY <1>6, <1>7, <1>8, <1>9

\* Type keeps the invariant.
LEMMA TypeKeeps ==
  ASSUME LocationInv, NEW p \in People, NEW x \in Contents, Type(p, x)
  PROVE LocationInv'
<1> USE DEF LocationInv, Type, pages
<1>1. TypeOK'
  BY BlankAssumption DEF TypeOK, Contents, Letters, NoLetter, Steps
<1>2. FormIsOwn'
  BY BlankAssumption DEF TypeOK, FormIsOwn, Contents, NoLetter
<1>3. LettersAreTrue'
  BY BlankAssumption DEF TypeOK, FormIsOwn, LettersAreTrue, Contents, Letters, NoLetter, Steps
<1>4. RunsInOrder'
  BY BlankAssumption DEF TypeOK, RunsInOrder
<1>5. ReceivedWasMailed'
  BY BlankAssumption DEF TypeOK, RunsInOrder, ReceivedWasMailed
<1> QED
  BY <1>1, <1>2, <1>3, <1>4, <1>5

\* Leave keeps the invariant.
LEMMA LeaveKeeps ==
  ASSUME LocationInv, NEW p \in People, Leave(p)
  PROVE LocationInv'
<1> USE DEF LocationInv, Leave, Leaves, pages
<1>1. TypeOK'
  BY BlankAssumption DEF TypeOK, Contents, Letters, NoLetter, Steps
<1>2. FormIsOwn'
  BY BlankAssumption DEF TypeOK, FormIsOwn, Contents, NoLetter
<1>3. LettersAreTrue'
  BY BlankAssumption DEF TypeOK, FormIsOwn, LettersAreTrue, Contents, Letters, NoLetter, Steps
<1>4. RunsInOrder'
  BY BlankAssumption DEF TypeOK, RunsInOrder
<1>5. ReceivedWasMailed'
  BY BlankAssumption DEF TypeOK, RunsInOrder, ReceivedWasMailed
<1> QED
  BY <1>1, <1>2, <1>3, <1>4, <1>5

\* Follow keeps the invariant.
LEMMA FollowKeeps ==
  ASSUME LocationInv, NEW p \in People, Follow(p)
  PROVE LocationInv'
<1> USE DEF LocationInv, Follow, Leaves, pages
<1>1. TypeOK'
  BY BlankAssumption DEF TypeOK, Contents, Letters, NoLetter, Steps
<1>2. FormIsOwn'
  BY BlankAssumption DEF TypeOK, FormIsOwn, Contents, NoLetter
<1>3. LettersAreTrue'
  BY BlankAssumption DEF TypeOK, FormIsOwn, LettersAreTrue, Contents, Letters, NoLetter, Steps
<1>4. RunsInOrder'
  BY BlankAssumption DEF TypeOK, RunsInOrder
<1>5. ReceivedWasMailed'
  BY BlankAssumption DEF TypeOK, RunsInOrder, ReceivedWasMailed
<1> QED
  BY <1>1, <1>2, <1>3, <1>4, <1>5

\* Click keeps the invariant.
LEMMA ClickKeeps ==
  ASSUME LocationInv, NEW p \in People, NEW c \in Clicks, Click(p, c)
  PROVE LocationInv'
<1> USE DEF LocationInv, Click, pages
<1>1. TypeOK'
  BY BlankAssumption DEF TypeOK, Contents, Letters, NoLetter, Steps
<1>2. FormIsOwn'
  BY BlankAssumption DEF TypeOK, FormIsOwn, Contents, NoLetter
<1>3. LettersAreTrue'
  BY BlankAssumption DEF TypeOK, FormIsOwn, LettersAreTrue, Contents, Letters, NoLetter, Steps
<1>4. RunsInOrder'
  BY BlankAssumption DEF TypeOK, RunsInOrder
<1>5. ReceivedWasMailed'
  BY BlankAssumption DEF TypeOK, RunsInOrder, ReceivedWasMailed
<1> QED
  BY <1>1, <1>2, <1>3, <1>4, <1>5

\* Answered keeps the invariant.
LEMMA AnsweredKeeps ==
  ASSUME LocationInv, NEW p \in People, NEW c \in Clicks, Answered(p, c)
  PROVE LocationInv'
<1> USE DEF LocationInv, Answered, pages
<1>1. TypeOK'
  BY BlankAssumption DEF TypeOK, Contents, Letters, NoLetter, Steps
<1>2. FormIsOwn'
  BY BlankAssumption DEF TypeOK, FormIsOwn, Contents, NoLetter
<1>3. LettersAreTrue'
  BY BlankAssumption DEF TypeOK, FormIsOwn, LettersAreTrue, Contents, Letters, NoLetter, Steps
<1>4. RunsInOrder'
  BY BlankAssumption DEF TypeOK, RunsInOrder
<1>5. ReceivedWasMailed'
  BY BlankAssumption DEF TypeOK, RunsInOrder, ReceivedWasMailed
<1> QED
  BY <1>1, <1>2, <1>3, <1>4, <1>5

\* Move keeps the invariant.
LEMMA MoveKeeps ==
  ASSUME LocationInv, NEW p \in People, NEW x \in Places, Move(p, x)
  PROVE LocationInv'
<1> USE DEF LocationInv, Move, pages
<1>1. TypeOK'
  BY BlankAssumption DEF TypeOK, Contents, Letters, NoLetter, Steps
<1>2. FormIsOwn'
  BY BlankAssumption DEF TypeOK, FormIsOwn, Contents, NoLetter
<1>3. LettersAreTrue'
  BY BlankAssumption DEF TypeOK, FormIsOwn, LettersAreTrue, Contents, Letters, NoLetter, Steps
<1>4. RunsInOrder'
  BY BlankAssumption DEF TypeOK, RunsInOrder
<1>5. ReceivedWasMailed'
  BY BlankAssumption DEF TypeOK, RunsInOrder, ReceivedWasMailed
<1> QED
  BY <1>1, <1>2, <1>3, <1>4, <1>5

\* Answer keeps the invariant.
LEMMA AnswerKeeps ==
  ASSUME LocationInv, NEW p \in People, Answer(p)
  PROVE LocationInv'
<1> USE DEF LocationInv, Answer, Leaves, pages
<1>1. TypeOK'
  BY BlankAssumption DEF TypeOK, Contents, Letters, NoLetter, Steps
<1>2. FormIsOwn'
  BY BlankAssumption DEF TypeOK, FormIsOwn, Contents, NoLetter
<1>3. LettersAreTrue'
  BY BlankAssumption DEF TypeOK, FormIsOwn, LettersAreTrue, Contents, Letters, NoLetter, Steps
<1>4. RunsInOrder'
  BY BlankAssumption DEF TypeOK, RunsInOrder
<1>5. ReceivedWasMailed'
  BY BlankAssumption DEF TypeOK, RunsInOrder, ReceivedWasMailed
<1> QED
  BY <1>1, <1>2, <1>3, <1>4, <1>5

\* Reload keeps the invariant.
LEMMA ReloadKeeps ==
  ASSUME LocationInv, NEW p \in People, NEW j \in Jobs, Reload(p, j)
  PROVE LocationInv'
<1> USE DEF LocationInv, Reload, Starts, First, pages
<1>1. TypeOK'
  BY BlankAssumption DEF TypeOK, Contents, Letters, NoLetter, Steps
<1>2. FormIsOwn'
  BY BlankAssumption DEF TypeOK, FormIsOwn, Contents, NoLetter
<1>3. LettersAreTrue'
  BY BlankAssumption DEF TypeOK, FormIsOwn, LettersAreTrue, Contents, Letters, NoLetter, Steps
<1>4. RunsInOrder'
  BY BlankAssumption DEF TypeOK, RunsInOrder
<1>5. ReceivedWasMailed'
  BY BlankAssumption DEF TypeOK, RunsInOrder, ReceivedWasMailed
<1> QED
  BY <1>1, <1>2, <1>3, <1>4, <1>5

\* Deliver keeps the invariant.
LEMMA DeliverKeeps ==
  ASSUME LocationInv, NEW p \in People, NEW j \in Jobs, Deliver(p, j)
  PROVE LocationInv'
<1> USE DEF LocationInv, Deliver, Recipients, pages
<1>1. TypeOK'
  BY BlankAssumption DEF TypeOK, Contents, Letters, NoLetter, Steps
<1>2. FormIsOwn'
  BY BlankAssumption DEF TypeOK, FormIsOwn, Contents, NoLetter
<1>3. LettersAreTrue'
  BY BlankAssumption DEF TypeOK, FormIsOwn, LettersAreTrue, Contents, Letters, NoLetter, Steps
<1>4. RunsInOrder'
  BY BlankAssumption DEF TypeOK, RunsInOrder
<1>5. ReceivedWasMailed'
  BY BlankAssumption DEF TypeOK, RunsInOrder, ReceivedWasMailed
<1> QED
  BY <1>1, <1>2, <1>3, <1>4, <1>5

\* Submit keeps the invariant.
LEMMA SubmitKeeps ==
  ASSUME LocationInv, NEW p \in People, NEW q \in People \ {p}, NEW j \in Jobs, Submit(p, q, j)
  PROVE LocationInv'
<1> USE DEF LocationInv, Submit, Starts, First, Leaves, pages
<1>1. TypeOK'
  BY BlankAssumption DEF TypeOK, Contents, Letters, NoLetter, Steps
<1>2. FormIsOwn'
  BY BlankAssumption DEF TypeOK, FormIsOwn, Contents, NoLetter
<1>3. LettersAreTrue'
  <2>1. form[p] \in own[p] \cup {Blank}
    BY DEF FormIsOwn
  <2> DEFINE letter == [to |-> q, at |-> form[p], true |-> TRUE]
  <2>2. last' = [last EXCEPT ![p] = letter]
    BY <2>1
  <2>3. job' = [job EXCEPT ![j] = [step |-> "log", letter |-> letter]]
    BY <2>1
  <2> HIDE DEF letter
  <2>4. letter.true
    BY DEF letter
  <2>5. (\A r \in People : last[r].true) /\ (\A k \in Jobs : job[k].letter.true)
    BY DEF LettersAreTrue
  <2>6. \A r \in People : last'[r].true
    BY <2>2, <2>4, <2>5 DEF TypeOK
  <2>7. \A k \in Jobs : job'[k].letter.true
    BY <2>3, <2>4, <2>5 DEF TypeOK
  <2> QED
    BY <2>6, <2>7 DEF LettersAreTrue
<1>4. RunsInOrder'
  BY BlankAssumption DEF TypeOK, RunsInOrder
<1>5. ReceivedWasMailed'
  BY BlankAssumption DEF TypeOK, RunsInOrder, ReceivedWasMailed
<1> QED
  BY <1>1, <1>2, <1>3, <1>4, <1>5

\* A run stays a run when it goes to another step.
LEMMA GotoTyped ==
  ASSUME TypeOK, NEW j \in Jobs, NEW step \in Steps, Goto(j, step)
  PROVE  job' \in [Jobs -> [step : Steps, letter : Letters \cup {NoLetter}]]
<1> HIDE DEF Letters, NoLetter, Steps
<1>1. job \in [Jobs -> [step : Steps, letter : Letters \cup {NoLetter}]]
  BY DEF TypeOK
<1>2. job' = [job EXCEPT ![j] = [job[j] EXCEPT !.step = step]]
  BY <1>1 DEF Goto
<1> QED
  BY <1>1, <1>2

\* Log keeps the invariant.
LEMMA LogKeeps ==
  ASSUME LocationInv, NEW j \in Jobs, Log(j)
  PROVE LocationInv'
<1> USE DEF LocationInv, Log, Goto, pages
<1>1. TypeOK'
  <2>1. "mail" \in Steps /\ Goto(j, "mail")
    BY DEF Steps
  <2>2. job' \in [Jobs -> [step : Steps, letter : Letters \cup {NoLetter}]]
    BY <2>1, GotoTyped
  <2>3. logged' \in SUBSET Jobs
    BY DEF TypeOK
  <2>4. UNCHANGED <<pages, mailed, inbox>>
    OBVIOUS
  <2> QED
    BY <2>2, <2>3, <2>4 DEF TypeOK
<1>2. FormIsOwn'
  BY BlankAssumption DEF TypeOK, FormIsOwn, Contents, NoLetter
<1>3. LettersAreTrue'
  BY BlankAssumption DEF TypeOK, FormIsOwn, LettersAreTrue, Contents, Letters, NoLetter, Steps
<1>4. RunsInOrder'
  BY BlankAssumption DEF TypeOK, RunsInOrder
<1>5. ReceivedWasMailed'
  BY BlankAssumption DEF TypeOK, RunsInOrder, ReceivedWasMailed
<1> QED
  BY <1>1, <1>2, <1>3, <1>4, <1>5

\* Mail keeps the invariant.
LEMMA MailKeeps ==
  ASSUME LocationInv, NEW j \in Jobs, Mail(j)
  PROVE LocationInv'
<1> USE DEF LocationInv, Mail, Goto, pages
<1>1. TypeOK'
  <2>1. "over" \in Steps /\ Goto(j, "over")
    BY DEF Steps
  <2>2. job' \in [Jobs -> [step : Steps, letter : Letters \cup {NoLetter}]]
    BY <2>1, GotoTyped
  <2>3. mailed' \in SUBSET Jobs
    BY DEF TypeOK
  <2>4. UNCHANGED <<pages, logged, inbox>>
    OBVIOUS
  <2> QED
    BY <2>2, <2>3, <2>4 DEF TypeOK
<1>2. FormIsOwn'
  BY BlankAssumption DEF TypeOK, FormIsOwn, Contents, NoLetter
<1>3. LettersAreTrue'
  BY BlankAssumption DEF TypeOK, FormIsOwn, LettersAreTrue, Contents, Letters, NoLetter, Steps
<1>4. RunsInOrder'
  BY BlankAssumption DEF TypeOK, RunsInOrder
<1>5. ReceivedWasMailed'
  BY BlankAssumption DEF TypeOK, RunsInOrder, ReceivedWasMailed
<1> QED
  BY <1>1, <1>2, <1>3, <1>4, <1>5

\* Die keeps the invariant.
LEMMA DieKeeps ==
  ASSUME LocationInv, NEW j \in Jobs, Die(j)
  PROVE LocationInv'
<1> USE DEF LocationInv, Die, Goto, pages
<1>1. TypeOK'
  <2>1. "over" \in Steps /\ Goto(j, "over")
    BY DEF Steps
  <2>2. job' \in [Jobs -> [step : Steps, letter : Letters \cup {NoLetter}]]
    BY <2>1, GotoTyped
  <2>3. UNCHANGED <<pages, logged, mailed, inbox>>
    OBVIOUS
  <2> QED
    BY <2>2, <2>3 DEF TypeOK
<1>2. FormIsOwn'
  BY BlankAssumption DEF TypeOK, FormIsOwn, Contents, NoLetter
<1>3. LettersAreTrue'
  BY BlankAssumption DEF TypeOK, FormIsOwn, LettersAreTrue, Contents, Letters, NoLetter, Steps
<1>4. RunsInOrder'
  BY BlankAssumption DEF TypeOK, RunsInOrder
<1>5. ReceivedWasMailed'
  BY BlankAssumption DEF TypeOK, RunsInOrder, ReceivedWasMailed
<1> QED
  BY <1>1, <1>2, <1>3, <1>4, <1>5

\* Every step keeps the invariant.
LEMMA NextInv == LocationInv /\ [Next]_vars => LocationInv'
<1> SUFFICES ASSUME LocationInv, [Next]_vars PROVE LocationInv'
  OBVIOUS
<1>1. CASE \E p \in People : Open(p)
  BY <1>1, OpenKeeps
<1>2. CASE \E p \in People : Leave(p)
  BY <1>2, LeaveKeeps
<1>3. CASE \E p \in People : Follow(p)
  BY <1>3, FollowKeeps
<1>4. CASE \E p \in People, c \in Clicks : Click(p, c)
  BY <1>4, ClickKeeps
<1>5. CASE \E p \in People, c \in Clicks : Answered(p, c)
  BY <1>5, AnsweredKeeps
<1>6. CASE \E p \in People, x \in Places : Move(p, x)
  BY <1>6, MoveKeeps
<1>7. CASE \E p \in People : Answer(p)
  BY <1>7, AnswerKeeps
<1>8. CASE \E p \in People, j \in Jobs : Reload(p, j)
  BY <1>8, ReloadKeeps
<1>9. CASE \E p \in People, j \in Jobs : Deliver(p, j)
  BY <1>9, DeliverKeeps
<1>10. CASE \E p \in People : \E q \in People \ {p}, j \in Jobs : Submit(p, q, j)
  BY <1>10, SubmitKeeps
<1>11. CASE \E j \in Jobs : Log(j)
  BY <1>11, LogKeeps
<1>12. CASE \E j \in Jobs : Mail(j)
  BY <1>12, MailKeeps
<1>13. CASE \E j \in Jobs : Die(j)
  BY <1>13, DieKeeps
<1>14. CASE UNCHANGED vars
  BY <1>14
     DEF LocationInv, TypeOK, FormIsOwn, LettersAreTrue, RunsInOrder,
         ReceivedWasMailed, vars, pages
<1>15. CASE \E p \in People : Back(p)
  BY <1>15, BackKeeps
<1>16. CASE \E p \in People, x \in Contents : Type(p, x)
  BY <1>16, TypeKeeps
<1> QED
  BY <1>1, <1>2, <1>3, <1>4, <1>5, <1>6, <1>7, <1>8, <1>9,
     <1>10, <1>11, <1>12, <1>13, <1>14, <1>15, <1>16 DEF Next

\* The inductive invariant: forms and letters say what is their senders' own,
\* and each run has done what its step says.
THEOREM Invariant == Spec => []LocationInv
<1> QED
  BY InitInv, NextInv, PTL DEF Spec

\* Every reachable state is well typed.
THEOREM TypeCorrect == Spec => []TypeOK
<1>1. LocationInv => TypeOK
  BY DEF LocationInv
<1> QED
  BY <1>1, Invariant, PTL

\* The place in a letter is its sender's own, through reloads, forms that are
\* returned to, late letters and requests that are asked back.
THEOREM ReceivedIsOwnHolds == Spec => []ReceivedIsOwn
<1>1. LocationInv => ReceivedIsOwn
  BY DEF LocationInv, ReceivedIsOwn, LettersAreTrue, ReceivedWasMailed, TypeOK
<1> QED
  BY <1>1, Invariant, PTL

\* No letter arrives before submit/index.php:16 has tried to log it.
THEOREM ReceivedIsLoggedHolds == Spec => []ReceivedIsLogged
<1>1. LocationInv => ReceivedIsLogged
  BY DEF LocationInv, ReceivedIsLogged, RunsInOrder, ReceivedWasMailed, TypeOK
<1> QED
  BY <1>1, Invariant, PTL

==============================================================================
