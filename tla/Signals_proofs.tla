--------------------------- MODULE Signals_proofs ---------------------------
(***************************************************************************)
(* Proofs about Signals: the invariants hold for any number of signals,    *)
(* and the interpreter keeps the promise of Deferred.                      *)
(***************************************************************************)
EXTENDS Signals, FiniteSetTheorems, TLAPS

USE SizeAssumption, SubsAssumption, FatalAssumption, CountAssumption

-----------------------------------------------------------------------------
(* The stack.                                                              *)

\* What putting a frame on top leaves in place.
LEMMA PushFacts ==
  ASSUME frames \in Seq(Frames), NEW f \in Frames
  PROVE  LET g == Append(frames, f) IN
         /\ g \in Seq(Frames)
         /\ Len(g) = Len(frames) + 1
         /\ \A k \in 1 .. Len(frames) : g[k] = frames[k]
         /\ g[Len(frames) + 1] = f
  OBVIOUS

\* What taking frames off leaves in place.
LEMMA CutFacts ==
  ASSUME frames \in Seq(Frames), NEW n \in 0 .. Len(frames)
  PROVE  LET g == SubSeq(frames, 1, n) IN
         /\ g \in Seq(Frames)
         /\ Len(g) = n
         /\ \A k \in 1 .. n : g[k] = frames[k]
  <1> DEFINE g == SubSeq(frames, 1, n)
  <1>1. g \in Seq(Frames) /\ Len(g) = n
    OBVIOUS
  <1>2. ASSUME NEW k \in 1 .. n PROVE g[k] = frames[k]
    OBVIOUS
  <1> QED BY <1>1, <1>2

\* What changing the frame on top leaves in place.
LEMMA ChangeFacts ==
  ASSUME frames \in Seq(Frames), frames # <<>>, NEW f \in Frames
  PROVE  LET g == [frames EXCEPT ![Len(frames)] = f] IN
         /\ g \in Seq(Frames)
         /\ Len(g) = Len(frames)
         /\ \A k \in 1 .. Len(frames) - 1 : g[k] = frames[k]
         /\ g[Len(frames)] = f
  OBVIOUS

-----------------------------------------------------------------------------
(* The invariant.                                                          *)

LEMMA InitInv == Init => SignalInv
  <1> SUFFICES ASSUME Init PROVE SignalInv
    OBVIOUS
  <1>1. frames = <<>> /\ Depth = 0
    BY DEF Init, Depth
  <1>2. TypeOK
    <2>1. frames \in Seq(Frames)
      BY <1>1
    <2> QED BY <2>1 DEF Init, TypeOK, Dispositions, Endings
  <1>3. StackShape /\ PendShape /\ MaskShape /\ CheckedShape /\ NoReentry
    BY <1>1 DEF StackShape, PendShape, MaskShape, CheckedShape, NoReentry, Running
  <1>4. DyingShape /\ MaskBalanced /\ StrandedOnlyByDeath
    BY <1>1 DEF Init, DyingShape, MaskBalanced, Held, HeldBelow,
                StrandedOnlyByDeath, Stranded, Sigs
  <1> QED BY <1>2, <1>3, <1>4 DEF SignalInv

\* The signal of a call in progress is blocked.
LEMMA HeldIsBlocked ==
  ASSUME SignalInv, NEW k \in 1 .. Depth, frames[k].phase # "scan"
  PROVE  frames[k].at \in Sigs /\ frames[k].at \in blocked
  <1>1. frames[k].at \in Sigs
    BY DEF SignalInv, StackShape
  <1>2. k \in 1 .. (Depth + 1) - 1
    BY DEF SignalInv, TypeOK, Depth
  <1>3. Held(frames[k].at)
    BY <1>2 DEF Held, HeldBelow
  <1> QED BY <1>1, <1>3 DEF SignalInv, MaskBalanced

\* Steps that leave the stack alone and block nothing new.
LEMMA RaiseInv == \A s \in Sigs : SignalInv /\ ended = "no" /\ Raise(s) => SignalInv'
  <1> SUFFICES ASSUME NEW s \in Sigs, SignalInv, Raise(s) PROVE SignalInv'
    OBVIOUS
  <1>1. TypeOK'
    BY DEF SignalInv, TypeOK, Raise, perlVars
  <1> QED BY <1>1 DEF SignalInv, Raise, perlVars, Depth, Top, StackShape,
       DyingShape, PendShape, NoReentry, Running, MaskBalanced, MaskShape, Held,
       HeldBelow, StrandedOnlyByDeath, Stranded, LoopAhead, CheckedShape

LEMMA DefaultInv == \A s \in Sigs : SignalInv /\ ended = "no" /\ Default(s) => SignalInv'
  <1> SUFFICES ASSUME NEW s \in Sigs, SignalInv, Default(s), ended = "no"
               PROVE  SignalInv'
    OBVIOUS
  <1>1. TypeOK'
    BY DEF SignalInv, TypeOK, Default, perlVars, bounds, Endings
  <1>2. DyingShape' /\ PendShape'
    BY DEF SignalInv, Default, perlVars, Depth, Top, DyingShape, PendShape
  <1>3. StackShape' /\ NoReentry' /\ CheckedShape' /\ StrandedOnlyByDeath'
    BY DEF SignalInv, Default, perlVars, Depth, StackShape, NoReentry, Running,
           StrandedOnlyByDeath, Stranded, LoopAhead, CheckedShape
  <1>4. MaskBalanced' /\ MaskShape'
    BY DEF SignalInv, Default, Depth, MaskBalanced, MaskShape, Held, HeldBelow
  <1> QED BY <1>1, <1>2, <1>3, <1>4 DEF SignalInv

\* A signal that is caught is not blocked: it is neither in its handler nor
\* being assigned to.
LEMMA CatchInv ==
  \A new \in SUBSET Sigs : SignalInv /\ ended = "no" /\ Catch(new) => SignalInv'
  <1> SUFFICES ASSUME NEW new \in SUBSET Sigs, SignalInv, Catch(new), ended = "no"
               PROVE  SignalInv'
    OBVIOUS
  <1>1. PICK n \in 1 .. Cardinality(new) : sigPending' = sigPending + n
    BY DEF Catch
  <1>2. n \in Nat \ {0} /\ sigPending' > 0 /\ sigPending' \in Nat
    <2>1. Cardinality(new) \in Nat
      <3>1. IsFiniteSet(Sigs)
        BY FS_Interval DEF Sigs
      <3> QED BY <3>1, FS_CardinalityType, FS_Subset
    <2> QED BY <1>1, <2>1 DEF SignalInv, TypeOK
  <1>3. TypeOK'
    BY <1>2 DEF SignalInv, TypeOK, Catch, bounds
  <1>4. \A s \in Sigs : /\ pend'[s] = pend[s] \/ (s \notin blocked /\ pend[s] \in Nat /\ pend'[s] = pend[s] + 1)
                        /\ pend[s] \in Nat
    BY DEF Catch, SignalInv, TypeOK, Deliverable
  <1>5. PendShape' /\ CheckedShape'
    <2>1. \A k \in 1 .. Depth : frames[k].phase # "scan" => frames[k].at \in Sigs /\ frames[k].at \in blocked
      BY HeldIsBlocked
    <2>2. frames' = frames /\ Depth' = Depth /\ ended' = ended /\ abandoned' = abandoned
      BY DEF Catch, Depth
    <2>3. PendShape'
      BY <2>1, <2>2, <1>4 DEF SignalInv, PendShape
    <2>4. \A s \in Sigs : LoopAhead(s)' <=> LoopAhead(s)
      BY <2>2 DEF LoopAhead, Ahead
    <2>5. CheckedShape'
      BY <2>1, <2>2, <2>4, <1>4 DEF SignalInv, CheckedShape
    <2> QED BY <2>3, <2>5
  <1>6. StrandedOnlyByDeath'
    BY <1>2 DEF StrandedOnlyByDeath, Stranded
  <1> QED BY <1>3, <1>5, <1>6 DEF SignalInv, Catch, Depth, Top, StackShape,
       DyingShape, NoReentry, Running, MaskBalanced, MaskShape, Held, HeldBelow

LEMMA ForkInv == SignalInv /\ ended = "no" /\ Fork => SignalInv'
  <1> SUFFICES ASSUME SignalInv, Fork, ended = "no" PROVE SignalInv'
    OBVIOUS
  <1>1. TypeOK'
    BY DEF SignalInv, TypeOK, Fork
  <1>2. \A k \in 1 .. Depth : frames[k].phase # "blocked"
    <2>1. ASSUME NEW k \in 1 .. Depth, k < Depth PROVE frames[k].phase # "blocked"
      BY <2>1 DEF SignalInv, StackShape
    <2>2. frames # <<>> => frames[Depth].phase = "running"
      BY DEF Fork, InPerl, IsPerl, Top
    <2> QED BY <2>1, <2>2 DEF SignalInv, TypeOK, Depth
  <1>3. \A s \in Sigs : pend'[s] = 0
    BY DEF Fork
  <1>4. StackShape /\ frames' = frames /\ Depth' = Depth
    BY DEF SignalInv, Fork, Depth
  <1>5. PendShape' /\ CheckedShape' /\ StrandedOnlyByDeath'
    BY <1>2, <1>3, <1>4 DEF StackShape, PendShape, CheckedShape, StrandedOnlyByDeath, Stranded
  <1> QED BY <1>1, <1>5 DEF SignalInv, Fork, Depth, Top, StackShape,
       DyingShape, NoReentry, Running, MaskBalanced, MaskShape, Held, HeldBelow

\* What is held below a frame depends on the frames below it.
LEMMA HeldSame ==
  ASSUME NEW n \in Nat, \A k \in 1 .. n : frames'[k] = frames[k]
  PROVE  \A k \in 1 .. n + 1, s \in Sigs : HeldBelow(k, s)' <=> HeldBelow(k, s)
  BY DEF HeldBelow

LEMMA LoopIsFrame == Loop \in Frames
  BY DEF Loop, Frames, Phases, Dispositions

LEMMA AsyncCheckInv == SignalInv /\ ended = "no" /\ AsyncCheck => SignalInv'
  <1> SUFFICES ASSUME SignalInv, AsyncCheck, ended = "no" PROVE SignalInv'
    OBVIOUS
  <1>1. /\ frames \in Seq(Frames) /\ Depth = Len(frames) /\ Depth \in Nat
        /\ frames # <<>> => Depth > 0 /\ frames[Depth].phase = "running"
        /\ ~dying
    BY DEF SignalInv, TypeOK, AsyncCheck, InPerl, IsPerl, Depth, Top
  <1>2. /\ frames' \in Seq(Frames) /\ Depth' = Depth + 1 /\ frames' # <<>>
        /\ \A k \in 1 .. Depth : frames'[k] = frames[k]
        /\ frames'[Depth + 1] = Loop
    BY <1>1, PushFacts, LoopIsFrame DEF AsyncCheck, Push, Depth
  <1>3. /\ UNCHANGED <<raised, blocked, handler, pend, dying, ended, overflown, abandoned, bounds>>
        /\ sigPending' = 0
    BY DEF AsyncCheck, kernelVars
  <1>4. TypeOK'
    BY <1>2, <1>3 DEF SignalInv, TypeOK, bounds
  <1>5. StackShape'
    <2>1. StackShape /\ Loop.phase = "scan"
      BY DEF SignalInv, Loop
    <2>2. ASSUME NEW k \in 1 .. Depth
          PROVE  \/ frames'[k].phase = "running"
                 \/ frames'[k].phase = "checked" /\ ~InSetsig(frames'[k + 1])
      <3>1. CASE k = Depth
        BY <1>1, <1>2, <3>1
      <3>2. CASE k < Depth
        <4>1. frames'[k] = frames[k] /\ frames'[k + 1] = frames[k + 1]
          BY <1>1, <1>2, <3>2
        <4> QED BY <2>1, <3>2, <4>1 DEF StackShape
      <3> QED BY <1>1, <3>1, <3>2
    <2>3. ASSUME NEW k \in 1 .. Depth + 1, InSetsig(frames'[k]), k > 1
          PROVE  frames'[k - 1].phase = "running"
      <3>1. k # Depth + 1
        BY <1>2, <2>1, <2>3 DEF InSetsig
      <3>2. frames'[k] = frames[k] /\ frames'[k - 1] = frames[k - 1]
        BY <1>1, <1>2, <2>3, <3>1
      <3> QED BY <1>1, <2>1, <2>3, <3>1, <3>2 DEF StackShape
    <2>4. ASSUME NEW k \in 1 .. Depth + 1 PROVE frames'[k].phase # "scan" => frames'[k].at \in Sigs
      BY <1>1, <1>2, <2>1 DEF StackShape
    <2> QED BY <1>1, <1>2, <2>2, <2>3, <2>4 DEF StackShape, InSetsig
  <1>6. DyingShape' /\ PendShape'
    BY <1>1, <1>2, <1>3 DEF SignalInv, DyingShape, PendShape, Loop
  <1>7. NoReentry'
    BY <1>1, <1>2 DEF SignalInv, NoReentry, Running, Loop
  <1>8. \A k \in 1 .. Depth + 1, s \in Sigs : HeldBelow(k, s)' <=> HeldBelow(k, s)
    BY <1>1, <1>2, HeldSame
  <1>9. \A s \in Sigs : Held(s)' <=> Held(s)
    BY <1>1, <1>2, <1>8 DEF Held, HeldBelow, Loop
  <1>10. MaskBalanced' /\ MaskShape'
    <2>1. MaskBalanced'
      BY <1>3, <1>9 DEF SignalInv, MaskBalanced
    <2>2. MaskShape'
      BY <1>1, <1>2, <1>3, <1>8 DEF SignalInv, StackShape, MaskShape, Loop, InSetsig
    <2> QED BY <2>1, <2>2
  <1>11. \A s \in Sigs : LoopAhead(s)'
    BY <1>1, <1>2 DEF LoopAhead, Ahead, Loop, Sigs
  <1>12. StrandedOnlyByDeath' /\ CheckedShape'
    BY <1>1, <1>2, <1>3, <1>11
       DEF SignalInv, StrandedOnlyByDeath, Stranded, CheckedShape, StackShape, Loop
  <1> QED BY <1>4, <1>5, <1>6, <1>7, <1>10, <1>12 DEF SignalInv

LEMMA TopIsFrame ==
  ASSUME SignalInv, frames # <<>>
  PROVE  /\ Depth \in Nat \ {0} /\ Depth = Len(frames)
         /\ Top = frames[Depth] /\ Top \in Frames
         /\ \A k \in 1 .. Depth : frames[k] \in Frames
  BY DEF SignalInv, TypeOK, Top, Depth

\* Steps of the loop on top: the frames below it are as before.
LEMMA TopFacts ==
  ASSUME SignalInv, NEW f \in Frames, frames # <<>>, Becomes(f)
  PROVE  /\ Depth \in Nat \ {0} /\ Depth = Len(frames)
         /\ frames' \in Seq(Frames) /\ Depth' = Depth /\ frames' # <<>>
         /\ \A k \in 1 .. Depth - 1 : frames'[k] = frames[k]
         /\ frames'[Depth] = f /\ Top' = f
         /\ \A k \in 1 .. Depth, s \in Sigs : HeldBelow(k, s)' <=> HeldBelow(k, s)
  <1>1. Depth \in Nat \ {0} /\ Depth = Len(frames) /\ frames \in Seq(Frames)
    BY DEF SignalInv, TypeOK, Depth
  <1>2. /\ frames' \in Seq(Frames) /\ Depth' = Depth /\ frames' # <<>>
        /\ \A k \in 1 .. Depth - 1 : frames'[k] = frames[k]
        /\ frames'[Depth] = f
    BY <1>1, ChangeFacts DEF Becomes, Depth
  <1>3. \A k \in 1 .. (Depth - 1) + 1, s \in Sigs : HeldBelow(k, s)' <=> HeldBelow(k, s)
    <2> DEFINE n == Depth - 1
    <2>1. n \in Nat /\ \A k \in 1 .. n : frames'[k] = frames[k]
      BY <1>1, <1>2
    <2> HIDE DEF n
    <2>2. \A k \in 1 .. n + 1, s \in Sigs : HeldBelow(k, s)' <=> HeldBelow(k, s)
      BY <2>1, HeldSame
    <2> QED BY <2>2 DEF n
  <1> QED BY <1>1, <1>2, <1>3 DEF Top

LEMMA StackTop ==
  ASSUME SignalInv, NEW f \in Frames, frames # <<>>, Becomes(f),
         InSetsig(f) <=> InSetsig(Top), f.phase # "scan" => f.at \in Sigs
  PROVE  StackShape'
  <1>1. /\ Depth \in Nat \ {0} /\ Depth' = Depth /\ StackShape
        /\ \A k \in 1 .. Depth - 1 : frames'[k] = frames[k]
        /\ frames'[Depth] = f
        /\ InSetsig(f) <=> InSetsig(frames[Depth])
    BY TopFacts, TopIsFrame DEF SignalInv
  <1>2. ASSUME NEW k \in 1 .. Depth, k < Depth
        PROVE  \/ frames'[k].phase = "running"
               \/ frames'[k].phase = "checked" /\ ~InSetsig(frames'[k + 1])
    <2>1. frames'[k] = frames[k]
      BY <1>1, <1>2
    <2>2. InSetsig(frames'[k + 1]) <=> InSetsig(frames[k + 1])
      <3>1. CASE k + 1 = Depth
        BY <1>1, <3>1
      <3>2. CASE k + 1 < Depth
        <4>1. frames'[k + 1] = frames[k + 1]
          BY <1>1, <3>2
        <4> QED BY <4>1
      <3> QED BY <1>1, <1>2, <3>1, <3>2
    <2> QED BY <1>1, <1>2, <2>1, <2>2 DEF StackShape
  <1>3. ASSUME NEW k \in 1 .. Depth, k > 1, InSetsig(frames'[k])
        PROVE  frames'[k - 1].phase = "running"
    <2>1. InSetsig(frames[k]) /\ frames'[k - 1] = frames[k - 1]
      BY <1>1, <1>3
    <2> QED BY <1>1, <1>3, <2>1 DEF StackShape
  <1>4. ASSUME NEW k \in 1 .. Depth, frames'[k].phase # "scan"
        PROVE  frames'[k].at \in Sigs
    <2>1. CASE k = Depth
      BY <1>1, <1>4, <2>1
    <2>2. CASE k < Depth
      <3>1. frames'[k] = frames[k]
        BY <1>1, <2>2
      <3> QED BY <1>1, <1>4, <3>1 DEF StackShape
    <2> QED BY <1>1, <2>1, <2>2
  <1>5. Depth' = Depth
    BY <1>1
  <1> QED BY <1>2, <1>3, <1>4, <1>5 DEF StackShape, InSetsig

\* The loop on top passes no pending signal.
LEMMA SeenTop ==
  ASSUME SignalInv, NEW f \in Frames, frames # <<>>, Becomes(f),
         f.phase # "checked", sigPending' = sigPending,
         \A s \in Sigs : pend'[s] > 0 =>
           /\ pend[s] > 0
           /\ s \notin abandoned \ abandoned'
           /\ Ahead(Top, s) => Ahead(f, s)
  PROVE  StrandedOnlyByDeath' /\ CheckedShape'
  <1>1. /\ Depth \in Nat \ {0} /\ Depth' = Depth /\ StackShape /\ CheckedShape
        /\ \A k \in 1 .. Depth - 1 : frames'[k] = frames[k]
        /\ frames'[Depth] = f
        /\ Top = frames[Depth]
    BY TopFacts, TopIsFrame DEF SignalInv
  <1>2. ASSUME NEW s \in Sigs, pend'[s] > 0, LoopAhead(s) PROVE LoopAhead(s)'
    <2>1. PICK k \in 1 .. Depth : Ahead(frames[k], s)
      BY <1>2 DEF LoopAhead
    <2>2. Ahead(frames'[k], s)
      <3>1. CASE k = Depth
        BY <1>1, <1>2, <2>1, <3>1
      <3>2. CASE k < Depth
        <4>1. frames'[k] = frames[k]
          BY <1>1, <3>2
        <4> QED BY <2>1, <4>1
      <3> QED BY <1>1, <3>1, <3>2
    <2> QED BY <1>1, <2>2 DEF LoopAhead, Ahead
  <1>3. StrandedOnlyByDeath'
    BY <1>2 DEF SignalInv, StrandedOnlyByDeath, Stranded
  <1>4. ASSUME NEW k \in 1 .. Depth, frames'[k].phase = "checked", pend'[frames'[k].at] > 0
        PROVE  k < Depth /\ Ahead(frames'[k + 1], frames'[k].at)
    <2>1. k < Depth /\ frames'[k] = frames[k]
      BY <1>1, <1>4
    <2>2. frames[k].at \in Sigs /\ pend[frames[k].at] > 0
      BY <1>1, <1>4, <2>1 DEF StackShape
    <2>3. Ahead(frames[k + 1], frames[k].at)
      BY <1>1, <1>4, <2>1, <2>2 DEF CheckedShape
    <2>4. CASE k + 1 = Depth
      BY <1>1, <1>4, <2>1, <2>2, <2>3, <2>4
    <2>5. CASE k + 1 < Depth
      <3>1. frames'[k + 1] = frames[k + 1]
        BY <1>1, <2>5
      <3> QED BY <2>1, <2>3, <3>1
    <2> QED BY <1>1, <2>1, <2>4, <2>5
  <1>5. CheckedShape'
    BY <1>1, <1>4 DEF CheckedShape, Ahead
  <1> QED BY <1>3, <1>5

LEMMA SkipInv == SignalInv /\ ended = "no" /\ Skip => SignalInv'
  <1> SUFFICES ASSUME SignalInv, Skip, ended = "no" PROVE SignalInv'
    OBVIOUS
  <1> DEFINE f == [Top EXCEPT !.at = @ + 1]
  <1>1. /\ frames # <<>> /\ Top = frames[Depth] /\ Top \in Frames /\ Top.phase = "scan"
        /\ Top.at \in Sigs /\ pend[Top.at] = 0 /\ ~dying
    <2>1. frames # <<>> /\ Top.phase = "scan" /\ Top.at <= N /\ pend[Top.at] = 0 /\ ~dying
      BY DEF Skip, InScan, TopIs
    <2> QED BY <2>1, TopIsFrame DEF Frames, Sigs
  <1>2. f \in Frames /\ f.phase = "scan" /\ f.at = Top.at + 1 /\ f.unblock = Top.unblock
    BY <1>1 DEF Frames, Sigs
  <1> HIDE DEF f
  <1>3. Becomes(f)
    BY DEF Skip, f
  <1>4. /\ Depth \in Nat \ {0} /\ frames' \in Seq(Frames) /\ Depth' = Depth /\ frames' # <<>>
        /\ \A k \in 1 .. Depth - 1 : frames'[k] = frames[k]
        /\ frames'[Depth] = f
        /\ \A k \in 1 .. Depth, s \in Sigs : HeldBelow(k, s)' <=> HeldBelow(k, s)
    BY <1>1, <1>2, <1>3, TopFacts
  <1>5. UNCHANGED <<raised, blocked, handler, pend, sigPending, dying, ended, overflown, abandoned, bounds>>
    BY DEF Skip, kernelVars, perlVars
  <1>6. TypeOK'
    BY <1>4, <1>5 DEF SignalInv, TypeOK, bounds
  <1>7. StackShape'
    BY <1>1, <1>2, <1>3, StackTop DEF InSetsig
  <1>8. DyingShape' /\ PendShape'
    BY <1>1, <1>2, <1>4, <1>5 DEF SignalInv, DyingShape, PendShape
  <1>9. NoReentry'
    BY <1>1, <1>2, <1>4 DEF SignalInv, NoReentry, Running
  <1>10. \A s \in Sigs : Held(s)' <=> Held(s)
    BY <1>1, <1>2, <1>4 DEF Held, HeldBelow
  <1>11. MaskBalanced' /\ MaskShape'
    <2>1. MaskBalanced'
      BY <1>5, <1>10 DEF SignalInv, MaskBalanced
    <2>2. MaskShape'
      BY <1>1, <1>2, <1>4, <1>5 DEF SignalInv, StackShape, MaskShape, InSetsig
    <2> QED BY <2>1, <2>2
  <1>12. \A s \in Sigs : pend'[s] > 0 =>
           pend[s] > 0 /\ s \notin abandoned \ abandoned' /\ (Ahead(Top, s) => Ahead(f, s))
    BY <1>1, <1>2, <1>5 DEF Ahead, Sigs
  <1>13. StrandedOnlyByDeath' /\ CheckedShape'
    BY <1>1, <1>2, <1>3, <1>5, <1>12, SeenTop
  <1> QED BY <1>6, <1>7, <1>8, <1>9, <1>11, <1>13 DEF SignalInv

\* What is held is held below the top, or by the top.
LEMMA HeldTop ==
  ASSUME SignalInv, frames # <<>>, NEW s \in Sigs
  PROVE  Held(s) <=> HeldBelow(Depth, s) \/ (Top.phase # "scan" /\ Top.at = s)
  BY TopIsFrame DEF Held, HeldBelow

\* A new top that fits the mask.
LEMMA MaskTop ==
  ASSUME SignalInv, NEW f \in Frames, frames # <<>>, Becomes(f), ~InSetsig(f),
         overflown' = overflown,
         f.phase \in {"blocked", "running"} =>
           IF f.unblock THEN ~HeldBelow(Depth, f.at)
           ELSE HeldBelow(Depth, f.at) \/ f.at \in overflown,
         f.phase # "scan" => f.at \in Sigs,
         f.phase = "scan" => ~f.unblock,
         \A s \in Sigs :
           /\ HeldBelow(Depth, s) \/ (f.phase # "scan" /\ f.at = s) => s \in blocked'
           /\ s \in blocked' => \/ HeldBelow(Depth, s) \/ s \in overflown
                                \/ f.phase # "scan" /\ f.at = s
  PROVE  MaskBalanced' /\ MaskShape'
  <1>1. /\ Depth \in Nat \ {0} /\ Depth' = Depth
        /\ \A k \in 1 .. Depth - 1 : frames'[k] = frames[k]
        /\ frames'[Depth] = f
        /\ \A k \in 1 .. Depth, s \in Sigs : HeldBelow(k, s)' <=> HeldBelow(k, s)
    BY TopFacts
  <1>2. StackShape /\ MaskShape
    BY DEF SignalInv
  <1>3. MaskBalanced'
    <2>1. ASSUME NEW s \in Sigs
          PROVE  Held(s)' <=> HeldBelow(Depth, s) \/ (f.phase # "scan" /\ f.at = s)
      <3>1. Held(s)' <=> HeldBelow(Depth, s)' \/ (f.phase # "scan" /\ f.at = s)
        BY <1>1 DEF Held, HeldBelow
      <3> QED BY <1>1, <3>1
    <2> QED BY <2>1 DEF MaskBalanced
  <1>4. ASSUME NEW k \in 1 .. Depth, k < Depth
        PROVE  /\ frames'[k] = frames[k]
               /\ \A s \in Sigs : HeldBelow(k, s)' <=> HeldBelow(k, s)
               /\ frames[k].phase # "scan" => frames[k].at \in Sigs
    BY <1>1, <1>2, <1>4 DEF StackShape
  <1>5. MaskShape'
    <2>1. ASSUME NEW k \in 1 .. Depth, InSetsig(frames'[k]), NEW s \in Sigs
          PROVE  /\ HeldBelow(k, s)' => s \in frames'[k].save
                 /\ s \in frames'[k].save => HeldBelow(k, s)' \/ s \in overflown'
      <3>1. k < Depth
        BY <1>1, <2>1
      <3> QED BY <1>2, <1>4, <2>1, <3>1 DEF MaskShape
    <2>2. ASSUME NEW k \in 1 .. Depth, frames'[k].phase \in {"blocked", "running"}
          PROVE  IF frames'[k].unblock
                 THEN ~HeldBelow(k, frames[k].at)'
                 ELSE HeldBelow(k, frames[k].at)' \/ frames'[k].at \in overflown'
      <3>1. CASE k < Depth
        BY <1>2, <1>4, <2>2, <3>1 DEF MaskShape
      <3>2. CASE k = Depth
        BY <1>1, <2>2, <3>2
      <3> QED BY <1>1, <3>1, <3>2
    <2>3. ASSUME NEW k \in 1 .. Depth, frames'[k].phase = "scan"
          PROVE  ~frames'[k].unblock
      <3>1. CASE k < Depth
        BY <1>2, <1>4, <2>3, <3>1 DEF MaskShape
      <3>2. CASE k = Depth
        BY <1>1, <2>3, <3>2
      <3> QED BY <1>1, <3>1, <3>2
    <2> QED BY <1>1, <2>1, <2>2, <2>3 DEF MaskShape, InSetsig
  <1> QED BY <1>3, <1>5

\* What the invariant says of the mask and the frame on top.
LEMMA TopMask ==
  ASSUME SignalInv, frames # <<>>, NEW s \in Sigs
  PROVE  /\ HeldBelow(Depth, s) => s \in blocked
         /\ s \in blocked => \/ HeldBelow(Depth, s) \/ s \in overflown
                             \/ Top.phase # "scan" /\ Top.at = s
         /\ Top.phase \in {"blocked", "running"} =>
              IF Top.unblock THEN ~HeldBelow(Depth, Top.at)
              ELSE HeldBelow(Depth, Top.at) \/ Top.at \in overflown
         /\ Top.phase # "scan" => Top.at \in blocked
  <1>1. HeldBelow(Depth, s) => s \in blocked
    BY HeldTop DEF SignalInv, MaskBalanced
  <1>2. s \in blocked => \/ HeldBelow(Depth, s) \/ s \in overflown
                         \/ Top.phase # "scan" /\ Top.at = s
    <2>1. s \in blocked => Held(s) \/ s \in overflown
      BY DEF SignalInv, MaskBalanced
    <2>2. Held(s) <=> HeldBelow(Depth, s) \/ (Top.phase # "scan" /\ Top.at = s)
      BY HeldTop
    <2> QED BY <2>1, <2>2
  <1>3. Top.phase \in {"blocked", "running"} =>
              IF Top.unblock THEN ~HeldBelow(Depth, Top.at)
              ELSE HeldBelow(Depth, Top.at) \/ Top.at \in overflown
    BY TopIsFrame DEF SignalInv, MaskShape
  <1>4. Top.phase # "scan" => Top.at \in blocked
    BY TopIsFrame, HeldIsBlocked
  <1> QED BY <1>1, <1>2, <1>3, <1>4

LEMMA BlockInv == SignalInv /\ ended = "no" /\ Block => SignalInv'
  <1> SUFFICES ASSUME SignalInv, Block, ended = "no" PROVE SignalInv'
    OBVIOUS
  <1> DEFINE f == [Top EXCEPT !.phase = "blocked", !.unblock = Top.at \notin blocked]
  <1>1. /\ frames # <<>> /\ Top = frames[Depth] /\ Top \in Frames /\ Top.phase = "scan"
        /\ Top.at \in Sigs /\ pend[Top.at] > 0 /\ ~dying
    <2>1. frames # <<>> /\ Top.phase = "scan" /\ Top.at <= N /\ pend[Top.at] > 0 /\ ~dying
      BY DEF Block, InScan, TopIs
    <2> QED BY <2>1, TopIsFrame DEF Frames, Sigs
  <1>2. f \in Frames /\ f.phase = "blocked" /\ f.at = Top.at /\ f.unblock = (Top.at \notin blocked)
    BY <1>1 DEF Frames, Phases
  <1> HIDE DEF f
  <1>3. Becomes(f)
    BY DEF Block, f
  <1>4. /\ Depth \in Nat \ {0} /\ frames' \in Seq(Frames) /\ Depth' = Depth /\ frames' # <<>>
        /\ \A k \in 1 .. Depth - 1 : frames'[k] = frames[k]
        /\ frames'[Depth] = f
    BY <1>1, <1>2, <1>3, TopFacts
  <1>5. /\ UNCHANGED <<raised, handler, pend, sigPending, dying, ended, overflown, abandoned, bounds>>
        /\ blocked' = blocked \cup {Top.at}
    BY DEF Block, Masked, perlVars
  <1>6. TypeOK'
    BY <1>1, <1>4, <1>5 DEF SignalInv, TypeOK, bounds
  <1>7. StackShape'
    BY <1>1, <1>2, <1>3, StackTop DEF InSetsig
  <1>8. DyingShape' /\ PendShape'
    BY <1>1, <1>2, <1>4, <1>5 DEF SignalInv, DyingShape, PendShape
  <1>9. NoReentry'
    BY <1>1, <1>2, <1>4 DEF SignalInv, NoReentry, Running
  <1>10. MaskBalanced' /\ MaskShape'
    <2>1. Top.at \notin blocked => ~HeldBelow(Depth, Top.at)
      BY <1>1, TopMask
    <2>2. Top.at \in blocked => HeldBelow(Depth, Top.at) \/ Top.at \in overflown
      BY <1>1, TopMask
    <2>3. \A s \in Sigs :
           /\ HeldBelow(Depth, s) \/ f.at = s => s \in blocked'
           /\ s \in blocked' => HeldBelow(Depth, s) \/ s \in overflown \/ f.at = s
      BY <1>1, <1>2, <1>5, TopMask
    <2> QED BY <1>1, <1>2, <1>3, <1>5, <2>1, <2>2, <2>3, MaskTop DEF InSetsig
  <1>11. StrandedOnlyByDeath' /\ CheckedShape'
    <2>1. \A s \in Sigs : pend'[s] > 0 =>
           pend[s] > 0 /\ s \notin abandoned \ abandoned' /\ (Ahead(Top, s) => Ahead(f, s))
      BY <1>1, <1>2, <1>5 DEF Ahead
    <2> QED BY <1>1, <1>2, <1>3, <1>5, <2>1, SeenTop
  <1> QED BY <1>6, <1>7, <1>8, <1>9, <1>10, <1>11 DEF SignalInv

\* The frame with which the loop goes on.
LEMMA NextAtFacts ==
  ASSUME NEW g \in Frames, g.at \in Sigs
  PROVE  /\ NextAt(g) \in Frames /\ NextAt(g).phase = "scan"
         /\ NextAt(g).at = g.at + 1 /\ NextAt(g).unblock = FALSE
  <1>1. g.at + 1 \in 1 .. N + 1
    BY DEF Sigs
  <1>2. "none" \in Dispositions /\ "scan" \in Phases
    BY DEF Dispositions, Phases
  <1> QED BY <1>1, <1>2 DEF NextAt, Frames

\* LEAVE of a loop restores what the frames below it have blocked.
LEMMA RestoredFacts ==
  ASSUME SignalInv, frames # <<>>, Top.phase \in {"blocked", "running"},
         NEW s \in Sigs
  PROVE  /\ HeldBelow(Depth, s) => s \in Restored(Top, blocked)
         /\ s \in Restored(Top, blocked) => HeldBelow(Depth, s) \/ s \in overflown
  <1>1. Top.at \in Sigs
    BY TopIsFrame, HeldIsBlocked
  <1> QED BY <1>1, TopMask, TopIsFrame DEF Restored, InSetsig, Frames

LEMMA CallInv == SignalInv /\ ended = "no" /\ Call => SignalInv'
  <1> SUFFICES ASSUME SignalInv, Call, ended = "no" PROVE SignalInv'
    OBVIOUS
  <1>1. /\ frames # <<>> /\ Depth \in Nat \ {0} /\ Top = frames[Depth] /\ Top \in Frames
        /\ Top.phase = "blocked" /\ ~dying
        /\ Top.at \in Sigs /\ Top.at \in blocked /\ pend[Top.at] > 0
    <2>1. frames # <<>> /\ Top.phase = "blocked" /\ ~dying
      BY DEF Call, TopIs
    <2>2. Depth \in Nat \ {0} /\ Top = frames[Depth] /\ Top \in Frames
      BY <2>1, TopIsFrame
    <2>3. Top.at \in Sigs /\ Top.at \in blocked
      BY <2>1, <2>2, HeldIsBlocked
    <2>4. pend[Top.at] > 0
      BY <2>1, <2>2 DEF SignalInv, PendShape
    <2> QED BY <2>1, <2>2, <2>3, <2>4
  <1>2. /\ UNCHANGED <<raised, handler, sigPending, dying, overflown, bounds>>
        /\ pend' = [pend EXCEPT ![Top.at] = 0]
        /\ abandoned' = abandoned \ {Top.at}
    BY DEF Call, Answered
  <1>3. \A k \in 1 .. Depth : frames[k].phase = "running" => frames[k].at # Top.at
    BY <1>1 DEF SignalInv, PendShape, TypeOK
  <1>4. \A s \in Sigs : /\ pend'[s] > 0 => s # Top.at /\ pend[s] > 0
                        /\ pend'[s] = 0 \/ pend'[s] = pend[s]
                        /\ pend'[Top.at] = 0
    BY <1>1, <1>2 DEF SignalInv, TypeOK
  <1>5. ASSUME NEW f \in Frames, Becomes(f), f.phase \in {"running", "scan"},
               f.phase = "running" =>
                 f.at = Top.at /\ f.unblock = Top.unblock /\ blocked' = blocked,
               f.phase = "scan" =>
                 f.at = Top.at + 1 /\ ~f.unblock /\ blocked' = Restored(Top, blocked),
               ended' = ended
        PROVE  SignalInv'
    <2>1. /\ frames' \in Seq(Frames) /\ Depth' = Depth /\ frames' # <<>>
          /\ \A k \in 1 .. Depth - 1 : frames'[k] = frames[k]
          /\ frames'[Depth] = f
      BY <1>1, <1>5, TopFacts
    <2>2. TypeOK'
      BY <1>1, <1>2, <1>5, <2>1 DEF SignalInv, TypeOK, bounds, Restored, Frames
    <2>3. StackShape'
      BY <1>1, <1>5, StackTop DEF InSetsig
    <2>4. DyingShape' /\ PendShape'
      <3>1. DyingShape'
        BY <1>1, <1>2 DEF DyingShape
      <3>2. ASSUME NEW k \in 1 .. Depth, k < Depth
            PROVE  frames'[k].phase = "running" => pend'[frames'[k].at] = 0
        <4>1. frames'[k] = frames[k]
          BY <1>1, <2>1, <3>2
        <4>2. frames[k].phase = "running" => frames[k].at \in Sigs /\ pend[frames[k].at] = 0
          BY DEF SignalInv, StackShape, PendShape
        <4> QED BY <1>4, <4>1, <4>2
      <3>3. \A k \in 1 .. Depth : k < Depth => frames'[k].phase # "blocked"
        BY <1>1, <2>1 DEF SignalInv, StackShape
      <3>4. PendShape'
        BY <1>1, <1>2, <1>4, <1>5, <2>1, <3>2, <3>3 DEF PendShape
      <3> QED BY <3>1, <3>4
    <2>5. NoReentry'
      BY <1>1, <1>3, <1>5, <2>1 DEF SignalInv, NoReentry, Running
    <2>6. MaskBalanced' /\ MaskShape'
      <3>1. CASE f.phase = "running"
        <4>1. \A s \in Sigs :
               /\ HeldBelow(Depth, s) \/ f.at = s => s \in blocked'
               /\ s \in blocked' => HeldBelow(Depth, s) \/ s \in overflown \/ f.at = s
          BY <1>1, <1>5, <3>1, TopMask
        <4> QED BY <1>1, <1>2, <1>5, <3>1, <4>1, TopMask, MaskTop DEF InSetsig
      <3>2. CASE f.phase = "scan"
        <4>1. \A s \in Sigs :
               /\ HeldBelow(Depth, s) => s \in blocked'
               /\ s \in blocked' => HeldBelow(Depth, s) \/ s \in overflown
          BY <1>1, <1>5, <3>2, RestoredFacts
        <4> QED BY <1>1, <1>2, <1>5, <3>2, <4>1, MaskTop DEF InSetsig
      <3> QED BY <1>5, <3>1, <3>2
    <2>7. StrandedOnlyByDeath' /\ CheckedShape'
      <3>1. \A s \in Sigs : pend'[s] > 0 =>
             pend[s] > 0 /\ s \notin abandoned \ abandoned' /\ (Ahead(Top, s) => Ahead(f, s))
        BY <1>1, <1>2, <1>4, <1>5 DEF Ahead, Sigs
      <3> QED BY <1>1, <1>2, <1>5, <3>1, SeenTop
    <2> QED BY <2>2, <2>3, <2>4, <2>5, <2>6, <2>7 DEF SignalInv
  <1>6. CASE handler[Top.at] \in Subs
    <2> DEFINE f == [Top EXCEPT !.phase = "running", !.sub = handler[Top.at]]
    <2>1. Becomes(f) /\ blocked' = blocked /\ ended' = ended
      BY <1>6 DEF Call
    <2>2. f \in Frames /\ f.phase = "running" /\ f.at = Top.at /\ f.unblock = Top.unblock
      BY <1>1, <1>6 DEF Frames, Phases, Dispositions
    <2> HIDE DEF f
    <2> QED BY <1>5, <2>1, <2>2
  <1>7. CASE handler[Top.at] \in {"DEFAULT", "IGNORE"}
    <2>1. Becomes(NextAt(Top)) /\ blocked' = Restored(Top, blocked) /\ ended' = ended
      BY <1>7 DEF Call
    <2> QED BY <1>1, <1>5, <2>1, NextAtFacts
  <1>8. CASE handler[Top.at] = "none"
    <2>1. blocked' = blocked /\ frames' = frames /\ ended' = "handlerless"
      BY <1>8 DEF Call
    <2>2. TypeOK'
      BY <1>2, <2>1 DEF SignalInv, TypeOK, bounds, Endings
    <2>3. PendShape'
      BY <1>1, <1>4, <2>1 DEF SignalInv, PendShape, StackShape, Depth
    <2>4. StrandedOnlyByDeath' /\ CheckedShape'
      <3>1. UNCHANGED <<frames, Depth>> /\ \A s \in Sigs : LoopAhead(s)' <=> LoopAhead(s)
        BY <2>1 DEF Depth, LoopAhead, Ahead
      <3>2. StrandedOnlyByDeath'
        BY <1>2, <1>4, <3>1 DEF SignalInv, StrandedOnlyByDeath, Stranded
      <3>3. CheckedShape'
        BY <1>2, <1>4, <3>1 DEF SignalInv, CheckedShape, StackShape, Ahead
      <3> QED BY <3>2, <3>3
    <2> QED BY <1>1, <1>2, <2>1, <2>2, <2>3, <2>4 DEF SignalInv, Depth, Top, StackShape,
         DyingShape, NoReentry, Running, MaskBalanced, MaskShape, Held, HeldBelow
  <1>9. handler[Top.at] \in Dispositions
    BY <1>1 DEF SignalInv, TypeOK
  <1> QED BY <1>6, <1>7, <1>8, <1>9 DEF Dispositions

LEMMA ReturnInv == SignalInv /\ ended = "no" /\ Return => SignalInv'
  <1> SUFFICES ASSUME SignalInv, Return, ended = "no" PROVE SignalInv'
    OBVIOUS
  <1> DEFINE f == NextAt(Top)
  <1>1. /\ frames # <<>> /\ Depth \in Nat \ {0} /\ Top = frames[Depth] /\ Top \in Frames
        /\ Top.phase = "running" /\ ~dying /\ Top.at \in Sigs
    <2>1. frames # <<>> /\ Top.phase = "running" /\ ~dying
      BY DEF Return, TopIs
    <2> QED BY <2>1, TopIsFrame, HeldIsBlocked
  <1>2. f \in Frames /\ f.phase = "scan" /\ f.at = Top.at + 1 /\ f.unblock = FALSE
    BY <1>1, NextAtFacts
  <1>3. Becomes(f) /\ blocked' = Restored(Top, blocked)
    BY DEF Return
  <1> HIDE DEF f
  <1>4. UNCHANGED <<raised, handler, pend, sigPending, dying, ended, overflown, abandoned, bounds>>
    BY DEF Return, perlVars
  <1>5. /\ frames' \in Seq(Frames) /\ Depth' = Depth /\ frames' # <<>>
        /\ \A k \in 1 .. Depth - 1 : frames'[k] = frames[k]
        /\ frames'[Depth] = f
    BY <1>1, <1>2, <1>3, TopFacts
  <1>6. TypeOK'
    BY <1>1, <1>3, <1>4, <1>5 DEF SignalInv, TypeOK, bounds, Restored, Frames
  <1>7. StackShape'
    BY <1>1, <1>2, <1>3, StackTop DEF InSetsig
  <1>8. DyingShape' /\ PendShape'
    BY <1>1, <1>2, <1>4, <1>5 DEF SignalInv, DyingShape, PendShape
  <1>9. NoReentry'
    BY <1>1, <1>2, <1>5 DEF SignalInv, NoReentry, Running
  <1>10. MaskBalanced' /\ MaskShape'
    <2>1. \A s \in Sigs :
            /\ HeldBelow(Depth, s) => s \in blocked'
            /\ s \in blocked' => HeldBelow(Depth, s) \/ s \in overflown
      BY <1>1, <1>3, RestoredFacts
    <2> QED BY <1>1, <1>2, <1>3, <1>4, <2>1, MaskTop DEF InSetsig
  <1>11. StrandedOnlyByDeath' /\ CheckedShape'
    <2>1. \A s \in Sigs : pend'[s] > 0 =>
           pend[s] > 0 /\ s \notin abandoned \ abandoned' /\ (Ahead(Top, s) => Ahead(f, s))
      BY <1>1, <1>2, <1>4 DEF Ahead, Sigs
    <2> QED BY <1>1, <1>2, <1>3, <1>4, <2>1, SeenTop
  <1> QED BY <1>6, <1>7, <1>8, <1>9, <1>10, <1>11 DEF SignalInv

\* Taking frames off: those that stay are as before.
LEMMA CutStack ==
  ASSUME SignalInv, NEW n \in 0 .. Depth, frames' = SubSeq(frames, 1, n)
  PROVE  /\ frames' \in Seq(Frames) /\ Depth' = n /\ n \in Nat /\ Depth \in Nat
         /\ \A k \in 1 .. n : frames'[k] = frames[k] /\ k \in 1 .. Depth
         /\ \A k \in 1 .. n + 1, s \in Sigs : HeldBelow(k, s)' <=> HeldBelow(k, s)
         /\ \A s \in Sigs : Held(s)' <=> HeldBelow(n + 1, s)
  <1>1. frames \in Seq(Frames) /\ Depth = Len(frames) /\ Depth \in Nat /\ n \in Nat
    BY DEF SignalInv, TypeOK, Depth
  <1>2. /\ frames' \in Seq(Frames) /\ Depth' = n
        /\ \A k \in 1 .. n : frames'[k] = frames[k] /\ k \in 1 .. Depth
    BY <1>1, CutFacts DEF Depth
  <1>3. \A k \in 1 .. n + 1, s \in Sigs : HeldBelow(k, s)' <=> HeldBelow(k, s)
    BY <1>1, <1>2, HeldSame
  <1>4. \A s \in Sigs : Held(s)' <=> HeldBelow(n + 1, s)
    BY <1>1, <1>2, <1>3 DEF Held
  <1> QED BY <1>1, <1>2, <1>3, <1>4

\* The parts of the invariant that only look down hold of what stays.
LEMMA CutShape ==
  ASSUME SignalInv, NEW n \in 0 .. Depth, frames' = SubSeq(frames, 1, n),
         overflown \subseteq overflown'
  PROVE  StackShape' /\ NoReentry' /\ MaskShape'
  <1>1. /\ Depth' = n /\ n \in Nat /\ Depth \in Nat
        /\ \A k \in 1 .. n : frames'[k] = frames[k] /\ k \in 1 .. Depth
        /\ \A k \in 1 .. n, s \in Sigs : HeldBelow(k, s)' <=> HeldBelow(k, s)
        /\ StackShape /\ MaskShape /\ NoReentry
    BY CutStack DEF SignalInv
  <1>2. StackShape'
    <2>1. ASSUME NEW k \in 1 .. n, k < n
          PROVE  /\ k < Depth /\ frames'[k] = frames[k] /\ frames'[k + 1] = frames[k + 1]
      BY <1>1, <2>1
    <2>2. ASSUME NEW k \in 1 .. n, k > 1
          PROVE  frames'[k] = frames[k] /\ frames'[k - 1] = frames[k - 1]
      BY <1>1, <2>2
    <2>3. ASSUME NEW k \in 1 .. n, k < n
          PROVE  \/ frames'[k].phase = "running"
                 \/ frames'[k].phase = "checked" /\ ~InSetsig(frames'[k + 1])
      BY <1>1, <2>1, <2>3 DEF StackShape
    <2>4. ASSUME NEW k \in 1 .. n, InSetsig(frames'[k]), k > 1
          PROVE  frames'[k - 1].phase = "running"
      BY <1>1, <2>2, <2>4 DEF StackShape
    <2>5. \A k \in 1 .. n : frames'[k].phase # "scan" => frames'[k].at \in Sigs
      BY <1>1 DEF StackShape
    <2> QED BY <1>1, <2>3, <2>4, <2>5 DEF StackShape, InSetsig
  <1>3. NoReentry'
    BY <1>1 DEF NoReentry, Running
  <1>4. MaskShape'
    <2>1. ASSUME NEW k \in 1 .. n
          PROVE  /\ frames'[k] = frames[k] /\ k \in 1 .. Depth
                 /\ \A s \in Sigs : HeldBelow(k, s)' <=> HeldBelow(k, s)
                 /\ frames[k].phase # "scan" => frames[k].at \in Sigs
      BY <1>1 DEF StackShape
    <2>2. ASSUME NEW k \in 1 .. n, InSetsig(frames'[k]), NEW s \in Sigs
          PROVE  /\ HeldBelow(k, s)' => s \in frames'[k].save
                 /\ s \in frames'[k].save => HeldBelow(k, s)' \/ s \in overflown'
      BY <1>1, <2>1, <2>2 DEF MaskShape
    <2>3. ASSUME NEW k \in 1 .. n, frames'[k].phase \in {"blocked", "running"}
          PROVE  IF frames'[k].unblock
                 THEN ~HeldBelow(k, frames[k].at)'
                 ELSE HeldBelow(k, frames[k].at)' \/ frames'[k].at \in overflown'
      BY <1>1, <2>1, <2>3 DEF MaskShape
    <2>4. ASSUME NEW k \in 1 .. n, frames'[k].phase = "scan" PROVE ~frames'[k].unblock
      BY <1>1, <2>1, <2>4 DEF MaskShape
    <2> QED BY <1>1, <2>1, <2>2, <2>3, <2>4 DEF MaskShape, InSetsig
  <1> QED BY <1>2, <1>3, <1>4

LEMMA LoopEndsInv == SignalInv /\ ended = "no" /\ LoopEnds => SignalInv'
  <1> SUFFICES ASSUME SignalInv, LoopEnds, ended = "no" PROVE SignalInv'
    OBVIOUS
  <1> DEFINE n == Depth - 1
  <1>1. /\ frames # <<>> /\ Depth \in Nat \ {0} /\ Top = frames[Depth] /\ Top \in Frames
        /\ Top.phase = "scan" /\ Top.at = N + 1 /\ ~dying
    <2>1. frames # <<>> /\ Top.phase = "scan" /\ Top.at = N + 1 /\ ~dying
      BY DEF LoopEnds, InScan, TopIs
    <2> QED BY <2>1, TopIsFrame
  <1>2. n \in 0 .. Depth /\ n \in Nat /\ Depth = n + 1 /\ frames' = SubSeq(frames, 1, n)
    BY <1>1 DEF LoopEnds, Pop
  <1> HIDE DEF n
  <1>3. UNCHANGED <<raised, blocked, handler, pend, sigPending, dying, ended,
                    overflown, abandoned, bounds>>
    BY DEF LoopEnds, kernelVars, perlVars
  <1>4. /\ frames' \in Seq(Frames) /\ Depth' = n
        /\ \A k \in 1 .. n : frames'[k] = frames[k] /\ k \in 1 .. Depth
        /\ \A s \in Sigs : Held(s)' <=> HeldBelow(n + 1, s)
    BY <1>2, CutStack
  <1>5. TypeOK'
    BY <1>3, <1>4 DEF SignalInv, TypeOK, bounds
  <1>6. StackShape' /\ NoReentry' /\ MaskShape'
    BY <1>2, <1>3, CutShape
  <1>7. DyingShape' /\ PendShape'
    BY <1>1, <1>3, <1>4 DEF SignalInv, DyingShape, PendShape
  <1>8. MaskBalanced'
    BY <1>1, <1>2, <1>3, <1>4, TopMask DEF MaskBalanced
  <1>9. \A s \in Sigs : ~Ahead(Top, s)
    BY <1>1 DEF Ahead, Sigs
  <1>10. ASSUME NEW s \in Sigs, LoopAhead(s) PROVE LoopAhead(s)'
    <2>1. PICK k \in 1 .. Depth : Ahead(frames[k], s)
      BY <1>10 DEF LoopAhead
    <2>2. k \in 1 .. n /\ Ahead(frames'[k], s)
      BY <1>1, <1>2, <1>4, <1>9, <2>1
    <2> QED BY <1>4, <2>2 DEF LoopAhead, Ahead
  <1>11. StrandedOnlyByDeath'
    BY <1>3, <1>10 DEF SignalInv, StrandedOnlyByDeath, Stranded
  <1>12. ASSUME NEW k \in 1 .. n, frames'[k].phase = "checked", pend'[frames'[k].at] > 0
         PROVE  k < n /\ Ahead(frames'[k + 1], frames'[k].at)
    <2>1. frames'[k] = frames[k] /\ k < Depth /\ frames[k].at \in Sigs
      BY <1>2, <1>4, <1>12 DEF SignalInv, StackShape
    <2>2. Ahead(frames[k + 1], frames[k].at)
      BY <1>3, <1>4, <1>12, <2>1 DEF SignalInv, CheckedShape
    <2>3. k + 1 # Depth
      BY <1>1, <1>9, <2>1, <2>2
    <2>4. k < n /\ frames'[k + 1] = frames[k + 1]
      BY <1>2, <1>4, <2>1, <2>3
    <2> QED BY <2>1, <2>2, <2>4
  <1>13. CheckedShape'
    BY <1>4, <1>12 DEF CheckedShape, Ahead
  <1> QED BY <1>5, <1>6, <1>7, <1>8, <1>11, <1>13 DEF SignalInv

LEMMA SetSigInv ==
  \A i \in Sigs, new \in Dispositions :
    SignalInv /\ ended = "no" /\ SetSig(i, new) => SignalInv'
  <1> SUFFICES ASSUME NEW i \in Sigs, NEW new \in Dispositions,
                      SignalInv, SetSig(i, new), ended = "no"
               PROVE  SignalInv'
    OBVIOUS
  <1> DEFINE f == [Loop EXCEPT !.phase = "set", !.at = i, !.save = blocked, !.to = new]
  <1>1. /\ frames \in Seq(Frames) /\ Depth = Len(frames) /\ Depth \in Nat
        /\ frames # <<>> => Depth > 0 /\ frames[Depth].phase = "running"
        /\ ~dying
    BY DEF SignalInv, TypeOK, SetSig, InPerl, IsPerl, Depth, Top
  <1>2. f \in Frames /\ f.phase = "set" /\ f.at = i /\ f.save = blocked
    <2>1. "none" \in Dispositions /\ "set" \in Phases /\ i \in 1 .. N + 1 /\ blocked \in SUBSET Sigs
      BY DEF Dispositions, Phases, Sigs, SignalInv, TypeOK
    <2> QED BY <2>1 DEF Loop, Frames
  <1>3. Push(f)
    BY DEF SetSig
  <1> HIDE DEF f
  <1>4. /\ frames' \in Seq(Frames) /\ Depth' = Depth + 1 /\ frames' # <<>>
        /\ \A k \in 1 .. Depth : frames'[k] = frames[k]
        /\ frames'[Depth + 1] = f
    BY <1>1, <1>2, <1>3, PushFacts DEF Push, Depth
  <1>5. /\ UNCHANGED <<raised, handler, pend, sigPending, dying, ended, overflown,
                      abandoned, arrivals, forks>>
        /\ blocked' = blocked \cup {i}
        /\ sets' = sets + 1
    BY DEF SetSig, perlVars
  <1>6. TypeOK'
    BY <1>4, <1>5 DEF SignalInv, TypeOK
  <1>7. StackShape'
    <2>1. ASSUME NEW k \in 1 .. Depth
          PROVE  \/ frames'[k].phase = "running"
                 \/ frames'[k].phase = "checked" /\ ~InSetsig(frames'[k + 1])
      <3>1. CASE k = Depth
        BY <1>1, <1>4, <3>1
      <3>2. CASE k < Depth
        <4>1. frames'[k] = frames[k] /\ frames'[k + 1] = frames[k + 1]
          BY <1>1, <1>4, <3>2
        <4> QED BY <3>2, <4>1 DEF SignalInv, StackShape
      <3> QED BY <1>1, <3>1, <3>2
    <2>2. ASSUME NEW k \in 1 .. Depth + 1, InSetsig(frames'[k]), k > 1
          PROVE  frames'[k - 1].phase = "running"
      <3>1. CASE k = Depth + 1
        BY <1>1, <1>4, <2>2, <3>1
      <3>2. CASE k < Depth + 1
        <4>1. frames'[k] = frames[k] /\ frames'[k - 1] = frames[k - 1]
          BY <1>1, <1>4, <2>2, <3>2
        <4> QED BY <1>1, <2>2, <3>2, <4>1 DEF SignalInv, StackShape
      <3> QED BY <1>1, <3>1, <3>2
    <2>3. ASSUME NEW k \in 1 .. Depth + 1 PROVE frames'[k].phase # "scan" => frames'[k].at \in Sigs
      BY <1>1, <1>2, <1>4 DEF SignalInv, StackShape
    <2> QED BY <1>1, <1>4, <2>1, <2>2, <2>3 DEF StackShape, InSetsig
  <1>8. DyingShape' /\ PendShape' /\ NoReentry'
    <2>1. DyingShape' /\ PendShape'
      BY <1>1, <1>2, <1>4, <1>5 DEF SignalInv, DyingShape, PendShape
    <2>2. frames'[Depth + 1].phase # "running"
      BY <1>2, <1>4
    <2>3. ASSUME NEW s \in Sigs, NEW k \in Running(s)'
          PROVE  k \in Running(s)
      BY <1>1, <1>4, <2>2, <2>3 DEF Running
    <2>4. NoReentry'
      BY <2>3 DEF SignalInv, NoReentry
    <2> QED BY <2>1, <2>4
  <1>9. \A k \in 1 .. Depth + 1, s \in Sigs : HeldBelow(k, s)' <=> HeldBelow(k, s)
    BY <1>1, <1>4, HeldSame
  <1>10. \A s \in Sigs : Held(s)' <=> Held(s) \/ s = i
    <2>1. frames'[Depth + 1].phase = "set" /\ frames'[Depth + 1].at = i
      BY <1>2, <1>4
    <2>2. PICK n \in Nat : n = Depth
      BY <1>1
    <2>3. ASSUME NEW s \in Sigs
          PROVE  Held(s)' <=> HeldBelow(n + 1, s)' \/ s = i
      BY <1>1, <1>4, <2>1, <2>2 DEF Held, HeldBelow
    <2>4. ASSUME NEW s \in Sigs
          PROVE  HeldBelow(n + 1, s)' <=> Held(s)
      BY <1>9, <2>2 DEF Held
    <2> QED BY <2>3, <2>4
  <1>11. MaskBalanced'
    BY <1>5, <1>10 DEF SignalInv, MaskBalanced
  <1>12. MaskShape'
    <2>1. \A s \in Sigs :
            /\ Held(s) => s \in blocked
            /\ s \in blocked => Held(s) \/ s \in overflown
      BY DEF SignalInv, MaskBalanced
    <2>2. ASSUME NEW k \in 1 .. Depth
          PROVE  /\ frames'[k] = frames[k]
                 /\ \A s \in Sigs : HeldBelow(k, s)' <=> HeldBelow(k, s)
                 /\ frames[k].phase # "scan" => frames[k].at \in Sigs
      BY <1>1, <1>4, <1>9 DEF SignalInv, StackShape
    <2>3. frames'[Depth + 1].phase = "set" /\ frames'[Depth + 1].save = blocked
      BY <1>2, <1>4
    <2>4. ASSUME NEW k \in 1 .. Depth + 1, InSetsig(frames'[k]), NEW s \in Sigs
          PROVE  /\ HeldBelow(k, s)' => s \in frames'[k].save
                 /\ s \in frames'[k].save => HeldBelow(k, s)' \/ s \in overflown'
      <3>1. CASE k = Depth + 1
        <4>1. HeldBelow(k, s)' <=> HeldBelow(k, s)
          BY <1>9
        <4>2. HeldBelow(k, s) <=> Held(s)
          BY <3>1 DEF Held
        <4>3. frames'[k].save = blocked
          BY <2>3, <3>1
        <4> QED BY <1>5, <2>1, <4>1, <4>2, <4>3
      <3>2. CASE k \in 1 .. Depth
        BY <1>5, <2>2, <2>4, <3>2 DEF SignalInv, MaskShape
      <3> QED BY <1>1, <3>1, <3>2
    <2>5. ASSUME NEW k \in 1 .. Depth + 1, frames'[k].phase \in {"blocked", "running"}
          PROVE  IF frames'[k].unblock
                 THEN ~HeldBelow(k, frames[k].at)'
                 ELSE HeldBelow(k, frames[k].at)' \/ frames'[k].at \in overflown'
      <3>1. k \in 1 .. Depth
        BY <1>1, <2>3, <2>5
      <3> QED BY <1>5, <2>2, <2>5, <3>1 DEF SignalInv, MaskShape
    <2>6. ASSUME NEW k \in 1 .. Depth + 1, frames'[k].phase = "scan" PROVE ~frames'[k].unblock
      <3>1. k \in 1 .. Depth
        BY <1>1, <2>3, <2>6
      <3> QED BY <2>2, <2>6, <3>1 DEF SignalInv, MaskShape
    <2>7. \A k \in 1 .. Depth + 1 :
             frames'[k].phase \in {"blocked", "running"} => frames'[k].at = frames[k].at
      BY <1>1, <2>2, <2>3
    <2> QED BY <1>4, <2>4, <2>5, <2>6, <2>7 DEF MaskShape, InSetsig
  <1>13. \A s \in Sigs : LoopAhead(s) => LoopAhead(s)'
    BY <1>1, <1>4 DEF LoopAhead, Ahead
  <1>14. StrandedOnlyByDeath'
    BY <1>5, <1>13 DEF SignalInv, StrandedOnlyByDeath, Stranded
  <1>15. CheckedShape'
    <2>1. \A k \in 1 .. Depth : frames'[k].phase = "checked" => k < Depth
      BY <1>1, <1>4
    <2>2. \A k \in 1 .. Depth : k < Depth => frames'[k] = frames[k] /\ frames'[k + 1] = frames[k + 1]
      BY <1>1, <1>4
    <2>3. frames'[Depth + 1].phase = "set"
      BY <1>2, <1>4
    <2>4. ASSUME NEW k \in 1 .. Depth + 1, frames'[k].phase = "checked", pend[frames'[k].at] > 0
          PROVE  k < Depth + 1 /\ Ahead(frames'[k + 1], frames'[k].at)
      <3>1. k \in 1 .. Depth /\ k < Depth
        BY <1>1, <2>1, <2>3, <2>4
      <3>2. frames'[k] = frames[k] /\ frames'[k + 1] = frames[k + 1]
        BY <2>2, <3>1
      <3>3. Ahead(frames[k + 1], frames[k].at)
        BY <2>4, <3>1, <3>2 DEF SignalInv, CheckedShape
      <3> QED BY <1>1, <3>1, <3>2, <3>3
    <2> QED BY <1>4, <1>5, <2>4 DEF CheckedShape
  <1> QED BY <1>6, <1>7, <1>8, <1>11, <1>12, <1>14, <1>15 DEF SignalInv

LEMMA InstallInv == SignalInv /\ ended = "no" /\ Install => SignalInv'
  <1> SUFFICES ASSUME SignalInv, Install, ended = "no" PROVE SignalInv'
    OBVIOUS
  <1> DEFINE n == Depth - 1
  <1>1. /\ frames # <<>> /\ Depth \in Nat \ {0} /\ Top = frames[Depth] /\ Top \in Frames
        /\ Top.phase = "checked"
    <2>1. frames # <<>> /\ Top.phase = "checked"
      BY DEF Install, TopIs
    <2> QED BY <2>1, TopIsFrame
  <1>2. n \in 0 .. Depth /\ n \in Nat /\ Depth = n + 1 /\ frames' = SubSeq(frames, 1, n)
    BY <1>1 DEF Install, Pop
  <1> HIDE DEF n
  <1>3. /\ UNCHANGED <<pend, sigPending, dying, ended, overflown, abandoned, bounds>>
        /\ blocked' = Top.save
        /\ handler' = [handler EXCEPT ![Top.at] = Top.to]
        /\ raised' \subseteq raised
    BY <1>1 DEF Install, Restored, InSetsig
  <1>4. /\ frames' \in Seq(Frames) /\ Depth' = n
        /\ \A k \in 1 .. n : frames'[k] = frames[k] /\ k \in 1 .. Depth
        /\ \A s \in Sigs : Held(s)' <=> HeldBelow(n + 1, s)
    BY <1>2, CutStack
  <1>5. TypeOK'
    BY <1>1, <1>3, <1>4 DEF SignalInv, TypeOK, bounds, Frames
  <1>6. StackShape' /\ NoReentry' /\ MaskShape'
    BY <1>2, <1>3, CutShape
  <1>7. n > 0 => frames'[n].phase = "running"
    BY <1>1, <1>2, <1>4 DEF SignalInv, StackShape, InSetsig
  <1>8. DyingShape' /\ PendShape'
    <2>1. ~dying
      BY <1>1 DEF SignalInv, DyingShape
    <2> QED BY <1>3, <1>4, <2>1 DEF SignalInv, DyingShape, PendShape
  <1>9. MaskBalanced'
    BY <1>1, <1>2, <1>3, <1>4 DEF SignalInv, MaskShape, MaskBalanced, InSetsig
  <1>10. ASSUME NEW s \in Sigs, LoopAhead(s) PROVE LoopAhead(s)'
    <2>1. PICK k \in 1 .. Depth : Ahead(frames[k], s)
      BY <1>10 DEF LoopAhead
    <2>2. k \in 1 .. n /\ Ahead(frames'[k], s)
      BY <1>1, <1>2, <1>4, <2>1 DEF Ahead
    <2> QED BY <1>4, <2>2 DEF LoopAhead, Ahead
  <1>11. StrandedOnlyByDeath'
    BY <1>3, <1>10 DEF SignalInv, StrandedOnlyByDeath, Stranded
  <1>12. CheckedShape'
    <2>1. ASSUME NEW k \in 1 .. n, frames'[k].phase = "checked", pend'[frames'[k].at] > 0
          PROVE  k < n /\ Ahead(frames'[k + 1], frames'[k].at)
      <3>1. k < n /\ frames'[k] = frames[k] /\ frames'[k + 1] = frames[k + 1] /\ k < Depth
        BY <1>2, <1>4, <1>7, <2>1
      <3> QED BY <1>2, <1>3, <2>1, <3>1 DEF SignalInv, CheckedShape
    <2> QED BY <1>4, <2>1 DEF CheckedShape, Ahead
  <1> QED BY <1>5, <1>6, <1>8, <1>9, <1>11, <1>12 DEF SignalInv

\* The PERL_ASYNC_CHECK of an assignment, without the loop it may begin.
LEMMA CheckedTop ==
  ASSUME SignalInv, TopIs("set"), NEW f \in Frames,
         f = [Top EXCEPT !.phase = "checked"]
  PROVE  /\ Depth \in Nat \ {0} /\ Top = frames[Depth] /\ Top \in Frames
         /\ f.phase = "checked" /\ f.at = Top.at /\ f.save = Top.save /\ Top.at \in Sigs
         /\ Depth > 1 => frames[Depth - 1].phase = "running"
         /\ ~dying
  <1>1. frames # <<>> /\ Top.phase = "set"
    BY DEF TopIs
  <1>2. Depth \in Nat \ {0} /\ Top = frames[Depth] /\ Top \in Frames
    BY <1>1, TopIsFrame
  <1>3. f.phase = "checked" /\ f.at = Top.at /\ f.save = Top.save
    BY <1>2 DEF Frames
  <1>4. Top.at \in Sigs /\ (Depth > 1 => frames[Depth - 1].phase = "running")
    BY <1>1, <1>2 DEF SignalInv, StackShape, InSetsig
  <1>5. ~dying
    BY <1>1 DEF SignalInv, DyingShape
  <1> QED BY <1>2, <1>3, <1>4, <1>5

LEMMA SetChecksInv == SignalInv /\ ended = "no" /\ SetChecks => SignalInv'
  <1> SUFFICES ASSUME SignalInv, SetChecks, ended = "no" PROVE SignalInv'
    OBVIOUS
  <1> DEFINE f == [Top EXCEPT !.phase = "checked"]
             g == [frames EXCEPT ![Depth] = f]
  <1>1. frames # <<>> /\ TopIs("set") /\ Top.phase = "set" /\ Top \in Frames
    BY TopIsFrame DEF SetChecks, TopIs
  <1>2. f \in Frames
    BY <1>1 DEF Frames, Phases
  <1>3. /\ Depth \in Nat \ {0} /\ Top = frames[Depth]
        /\ f.phase = "checked" /\ f.at = Top.at /\ f.save = Top.save /\ Top.at \in Sigs
        /\ Depth > 1 => frames[Depth - 1].phase = "running"
        /\ ~dying
    BY <1>1, <1>2, CheckedTop
  <1>4. /\ g \in Seq(Frames) /\ Len(g) = Depth
        /\ \A k \in 1 .. Depth - 1 : g[k] = frames[k]
        /\ g[Depth] = f
    BY <1>1, <1>2, ChangeFacts DEF SignalInv, TypeOK, Depth
  <1>5. /\ UNCHANGED <<raised, blocked, handler, pend, dying, ended, overflown,
                      abandoned, bounds>>
        /\ sigPending' = 0
        /\ frames' = IF sigPending > 0 THEN Append(g, Loop) ELSE g
    BY DEF SetChecks, kernelVars
  <1> HIDE DEF f, g
  <1>6. /\ frames' \in Seq(Frames) /\ frames' # <<>>
        /\ \A k \in 1 .. Depth - 1 : frames'[k] = frames[k]
        /\ frames'[Depth] = f
        /\ IF sigPending > 0 THEN Depth' = Depth + 1 /\ frames'[Depth + 1] = Loop
          ELSE Depth' = Depth
    BY <1>3, <1>4, <1>5, LoopIsFrame DEF Depth
  <1>7. /\ Depth' \in {Depth, Depth + 1} /\ Depth' \in Nat
        /\ Loop.phase = "scan" /\ Loop.at = 1 /\ ~Loop.unblock
        /\ \A k \in 1 .. Depth' : k < Depth \/ k = Depth \/ (k = Depth + 1 /\ frames'[k] = Loop)
    BY <1>3, <1>6 DEF Loop
  <1>8. StackShape /\ MaskShape /\ PendShape /\ CheckedShape /\ MaskBalanced
    BY DEF SignalInv
  <1>9. ASSUME NEW k \in 1 .. Depth - 1
        PROVE  /\ k \in 1 .. Depth /\ frames'[k] = frames[k]
               /\ frames'[k + 1] = frames[k + 1] \/ (k + 1 = Depth /\ frames[k].phase = "running")
    <2>1. k \in 1 .. Depth /\ frames'[k] = frames[k]
      BY <1>3, <1>6
    <2>2. CASE k + 1 = Depth
      <3>1. k = Depth - 1 /\ Depth > 1
        BY <1>3, <2>2
      <3> QED BY <1>3, <2>1, <2>2, <3>1
    <2>3. CASE k + 1 < Depth
      BY <1>3, <1>6, <2>1, <2>3
    <2> QED BY <1>3, <2>1, <2>2, <2>3
  <1>10. TypeOK'
    BY <1>5, <1>6 DEF SignalInv, TypeOK, bounds
  <1>11. StackShape'
    <2>1. ASSUME NEW k \in 1 .. Depth', k < Depth'
          PROVE  \/ frames'[k].phase = "running"
                 \/ frames'[k].phase = "checked" /\ ~InSetsig(frames'[k + 1])
      <3>1. CASE k = Depth
        BY <1>3, <1>6, <1>7, <2>1, <3>1 DEF InSetsig
      <3>2. CASE k < Depth
        <4>1. k \in 1 .. Depth - 1
          BY <1>3, <3>2
        <4> QED BY <1>3, <1>8, <1>9, <3>2, <4>1 DEF StackShape
      <3> QED BY <1>3, <1>7, <2>1, <3>1, <3>2
    <2>2. ASSUME NEW k \in 1 .. Depth', InSetsig(frames'[k]), k > 1
          PROVE  frames'[k - 1].phase = "running"
      <3>1. k # Depth + 1
        BY <1>7, <2>2 DEF InSetsig
      <3>2. CASE k = Depth
        BY <1>3, <1>6, <2>2, <3>2
      <3>3. CASE k < Depth
        <4>1. frames'[k] = frames[k] /\ frames'[k - 1] = frames[k - 1] /\ k \in 1 .. Depth
          BY <1>3, <1>6, <2>2, <3>3
        <4> QED BY <1>8, <2>2, <4>1 DEF StackShape
      <3> QED BY <1>3, <1>7, <3>1, <3>2, <3>3
    <2>3. ASSUME NEW k \in 1 .. Depth', frames'[k].phase # "scan" PROVE frames'[k].at \in Sigs
      <3>1. CASE k < Depth
        <4>1. frames'[k] = frames[k] /\ k \in 1 .. Depth
          BY <1>3, <1>6, <3>1
        <4> QED BY <1>8, <2>3, <4>1 DEF StackShape
      <3> QED BY <1>3, <1>6, <1>7, <2>3, <3>1
    <2> QED BY <2>1, <2>2, <2>3 DEF StackShape, InSetsig
  <1>12. DyingShape' /\ PendShape' /\ NoReentry'
    <2>1. DyingShape'
      BY <1>3, <1>5 DEF DyingShape
    <2>2. \A k \in 1 .. Depth' : frames'[k].phase \in {"running", "blocked"} =>
             k \in 1 .. Depth /\ frames'[k] = frames[k]
      BY <1>3, <1>6, <1>7
    <2>3. PendShape'
      BY <1>5, <1>8, <2>2 DEF PendShape
    <2>4. NoReentry'
      BY <2>2 DEF SignalInv, NoReentry, Running
    <2> QED BY <2>1, <2>3, <2>4
  <1>13. \A k \in 1 .. Depth, s \in Sigs : HeldBelow(k, s)' <=> HeldBelow(k, s)
    <2> DEFINE n == Depth - 1
    <2>1. n \in Nat /\ \A k \in 1 .. n : frames'[k] = frames[k]
      BY <1>3, <1>6
    <2> HIDE DEF n
    <2>2. \A k \in 1 .. n + 1, s \in Sigs : HeldBelow(k, s)' <=> HeldBelow(k, s)
      BY <2>1, HeldSame
    <2>3. n + 1 = Depth
      BY <1>3 DEF n
    <2> QED BY <2>2, <2>3 DEF HeldBelow
  <1>14. MaskBalanced'
    <2>1. ASSUME NEW s \in Sigs PROVE Held(s)' <=> Held(s)
      <3>1. \A j \in 1 .. Depth :
              (frames'[j].phase # "scan" /\ frames'[j].at = s)
                <=> (frames[j].phase # "scan" /\ frames[j].at = s)
        BY <1>1, <1>3, <1>6
      <3>2. Held(s) <=> \E j \in 1 .. Depth : frames[j].phase # "scan" /\ frames[j].at = s
        BY <1>3 DEF Held, HeldBelow
      <3>3. Held(s)' <=> \E j \in 1 .. Depth' : frames'[j].phase # "scan" /\ frames'[j].at = s
        <4>1. 1 .. (Depth' + 1) - 1 = 1 .. Depth'
          BY <1>7
        <4> QED BY <4>1 DEF Held, HeldBelow
      <3>4. \A j \in 1 .. Depth' : frames'[j].phase # "scan" => j \in 1 .. Depth
        BY <1>3, <1>7
      <3>5. 1 .. Depth \subseteq 1 .. Depth'
        BY <1>3, <1>7
      <3> QED BY <3>1, <3>2, <3>3, <3>4, <3>5
    <2> QED BY <1>5, <1>8, <2>1 DEF MaskBalanced
  <1>15. MaskShape'
    <2>1. ASSUME NEW k \in 1 .. Depth', NEW s \in Sigs, InSetsig(frames'[k])
          PROVE  /\ HeldBelow(k, s)' => s \in frames'[k].save
                 /\ s \in frames'[k].save => HeldBelow(k, s)' \/ s \in overflown'
      <3>1. k \in 1 .. Depth /\ frames'[k].save = frames[k].save /\ InSetsig(frames[k])
        BY <1>1, <1>3, <1>6, <1>7, <2>1 DEF InSetsig
      <3> QED BY <1>5, <1>8, <1>13, <3>1 DEF MaskShape
    <2>2. ASSUME NEW k \in 1 .. Depth', frames'[k].phase \in {"blocked", "running"}
          PROVE  IF frames'[k].unblock
                 THEN ~HeldBelow(k, frames[k].at)'
                 ELSE HeldBelow(k, frames[k].at)' \/ frames'[k].at \in overflown'
      <3>1. k \in 1 .. Depth /\ frames'[k] = frames[k] /\ frames[k].at \in Sigs
        BY <1>3, <1>6, <1>7, <1>8, <2>2 DEF StackShape
      <3> QED BY <1>5, <1>8, <1>13, <2>2, <3>1 DEF MaskShape
    <2>3. ASSUME NEW k \in 1 .. Depth', frames'[k].phase \in {"blocked", "running"}
          PROVE  frames'[k].at = frames[k].at
      BY <1>3, <1>6, <1>7, <2>3
    <2>4. ASSUME NEW k \in 1 .. Depth', frames'[k].phase = "scan" PROVE ~frames'[k].unblock
      BY <1>3, <1>6, <1>7, <1>8, <2>4 DEF MaskShape
    <2> QED BY <2>1, <2>2, <2>3, <2>4 DEF MaskShape, InSetsig
  <1>16. \A s \in Sigs : LoopAhead(s) => LoopAhead(s)'
    <2>1. \A k \in 1 .. Depth, s \in Sigs : Ahead(frames[k], s) => Ahead(frames'[k], s)
      BY <1>1, <1>3, <1>6 DEF Ahead
    <2> QED BY <1>3, <1>7, <2>1 DEF LoopAhead, Ahead
  <1>17. sigPending > 0 => \A s \in Sigs : LoopAhead(s)'
    BY <1>3, <1>6, <1>7 DEF LoopAhead, Ahead, Sigs
  <1>18. StrandedOnlyByDeath'
    BY <1>5, <1>16, <1>17 DEF SignalInv, TypeOK, StrandedOnlyByDeath, Stranded
  <1>19. CheckedShape'
    <2>1. ASSUME NEW k \in 1 .. Depth', frames'[k].phase = "checked", pend'[frames'[k].at] > 0
          PROVE  IF k < Depth' THEN Ahead(frames'[k + 1], frames'[k].at)
                 ELSE LoopAhead(frames[k].at)' \/ frames'[k].at \in abandoned'
      <3>1. CASE k < Depth
        <4>1. k \in 1 .. Depth - 1 /\ k < Depth'
          BY <1>3, <1>7, <3>1
        <4>2. frames'[k] = frames[k] /\ frames'[k + 1] = frames[k + 1] /\ k \in 1 .. Depth
          BY <1>9, <2>1, <4>1
        <4> QED BY <1>5, <1>8, <2>1, <3>1, <4>1, <4>2 DEF CheckedShape
      <3>2. CASE k = Depth /\ sigPending > 0
        BY <1>3, <1>6, <1>7, <3>2 DEF Ahead, Sigs
      <3>3. CASE k = Depth /\ ~(sigPending > 0)
        <4>1. frames'[k].at = frames[k].at /\ frames[k].at \in Sigs /\ ~(k < Depth')
          BY <1>3, <1>6, <3>3
        <4>2. sigPending = 0 /\ pend[frames[k].at] > 0
          BY <1>5, <2>1, <3>3, <4>1 DEF SignalInv, TypeOK
        <4>3. LoopAhead(frames[k].at) \/ frames[k].at \in abandoned
          BY <4>1, <4>2 DEF SignalInv, StrandedOnlyByDeath, Stranded
        <4> QED BY <1>5, <1>16, <4>1, <4>3
      <3>4. CASE k = Depth + 1
        BY <1>7, <2>1, <3>4
      <3> QED BY <1>3, <1>7, <3>1, <3>2, <3>3, <3>4
    <2>2. \A k \in 1 .. Depth' : frames'[k].phase = "checked" => frames'[k].at = frames[k].at
      BY <1>3, <1>6, <1>7
    <2> QED BY <2>1, <2>2 DEF CheckedShape
  <1> QED BY <1>10, <1>11, <1>12, <1>14, <1>15, <1>18, <1>19 DEF SignalInv

-----------------------------------------------------------------------------
(* Exceptions.                                                             *)

\* What an exception leaves has Perl code on top.
LEMMA BelowFacts ==
  ASSUME SignalInv, frames # <<>>
  PROVE  /\ Depth \in Nat \ {0} /\ Below \in 0 .. Depth /\ Below \in Nat /\ Below < Depth
         /\ Below > 0 => frames[Below].phase = "running"
         /\ Below = Depth - 2 => Depth > 1 /\ InSetsig(frames[Depth - 1])
         /\ Below # Depth - 2 => Below = Depth - 1
  <1>1. Depth \in Nat \ {0} /\ StackShape
    BY TopIsFrame DEF SignalInv
  <1>2. Below \in 0 .. Depth /\ Below \in Nat /\ Below < Depth
    BY <1>1 DEF Below
  <1>3. Below = Depth - 2 => Depth > 1 /\ InSetsig(frames[Depth - 1])
    BY <1>1 DEF Below
  <1>4. Below # Depth - 2 => Below = Depth - 1 /\ ~(Depth > 1 /\ InSetsig(frames[Depth - 1]))
    BY <1>1 DEF Below
  <1>5. ASSUME Below > 0 PROVE frames[Below].phase = "running"
    <2>1. CASE Below = Depth - 2
      <3>1. Depth - 1 \in 1 .. Depth /\ Depth - 1 > 1 /\ (Depth - 1) - 1 = Below
        BY <1>1, <1>5, <2>1
      <3> QED BY <1>1, <1>3, <2>1, <3>1 DEF StackShape
    <2>2. CASE Below # Depth - 2
      <3>1. Depth - 1 \in 1 .. Depth /\ Depth - 1 < Depth /\ Below = Depth - 1 /\ Depth > 1
        BY <1>1, <1>4, <1>5, <2>2
      <3> QED BY <1>1, <1>4, <2>2, <3>1 DEF StackShape, InSetsig
    <2> QED BY <2>1, <2>2
  <1> QED BY <1>1, <1>2, <1>3, <1>4, <1>5

\* An exception leaves the frames above Below, with a mask that fits.
LEMMA LeaveInv ==
  ASSUME SignalInv, ended = "no", frames # <<>>,
         frames' = SubSeq(frames, 1, Below), Reaches(Below),
         raised' \in SUBSET Sigs, blocked' \in SUBSET Sigs,
         overflown' \in SUBSET Sigs, overflown \subseteq overflown',
         UNCHANGED <<handler, bounds>>,
         pend' \in [Sigs -> Nat], sigPending' \in Nat,
         \A s \in Sigs : s \in blocked => pend'[s] = pend[s],
         \A s \in Sigs :
           /\ HeldBelow(Below + 1, s) => s \in blocked'
           /\ s \in blocked' => HeldBelow(Below + 1, s) \/ s \in overflown'
  PROVE  SignalInv'
  <1> DEFINE n == Below
  <1>1. /\ Depth \in Nat \ {0} /\ n \in 0 .. Depth /\ n \in Nat /\ n < Depth
        /\ n > 0 => frames[n].phase = "running"
    BY BelowFacts
  <1>2. /\ frames' = SubSeq(frames, 1, n)
        /\ \A s \in Sigs :
             /\ HeldBelow(n + 1, s) => s \in blocked'
             /\ s \in blocked' => HeldBelow(n + 1, s) \/ s \in overflown'
        /\ abandoned' = abandoned \cup {s \in Sigs : Stranded(s)'}
        /\ dying' \in BOOLEAN
        /\ ended' = IF dying' /\ n = 0 THEN "died" ELSE ended
    BY DEF Reaches
  <1> HIDE DEF n
  <1>3. /\ frames' \in Seq(Frames) /\ Depth' = n
        /\ \A k \in 1 .. n : frames'[k] = frames[k] /\ k \in 1 .. Depth
        /\ \A s \in Sigs : Held(s)' <=> HeldBelow(n + 1, s)
    BY <1>1, <1>2, CutStack
  <1>4. TypeOK'
    BY <1>2, <1>3 DEF SignalInv, TypeOK, bounds, Endings
  <1>5. StackShape' /\ NoReentry' /\ MaskShape'
    BY <1>1, <1>2, CutShape
  <1>6. DyingShape'
    <2>1. frames' = <<>> <=> n = 0
      BY <1>1, <1>3 DEF Depth
    <2>2. ASSUME n > 0 PROVE Top'.phase = "running"
      <3>1. n \in 1 .. n
        BY <1>1, <2>2
      <3>2. frames'[n] = frames[n]
        BY <1>3, <3>1
      <3>3. Top' = frames'[n]
        BY <1>3 DEF Top
      <3> QED BY <1>1, <2>2, <3>2, <3>3
    <2> QED BY <1>1, <1>2, <2>1, <2>2 DEF DyingShape
  <1>7. ASSUME NEW k \in 1 .. n
        PROVE  /\ frames'[k] = frames[k] /\ k \in 1 .. Depth /\ k < Depth
               /\ frames[k].phase \in {"running", "checked"}
               /\ frames[k].at \in Sigs /\ pend'[frames[k].at] = pend[frames[k].at]
    <2>1. frames'[k] = frames[k] /\ k \in 1 .. Depth
      BY <1>3
    <2>2. k < Depth
      BY <1>1
    <2>3. frames[k].phase \in {"running", "checked"}
      BY <2>1, <2>2 DEF SignalInv, StackShape
    <2>4. frames[k].at \in Sigs /\ frames[k].at \in blocked
      BY <2>1, <2>3, HeldIsBlocked
    <2> QED BY <2>1, <2>2, <2>3, <2>4
  <1>8. PendShape'
    <2>1. ASSUME NEW k \in 1 .. n, frames'[k].phase = "running" PROVE pend'[frames'[k].at] = 0
      BY <1>7, <2>1 DEF SignalInv, PendShape
    <2>2. \A k \in 1 .. n : frames'[k].phase # "blocked"
      BY <1>7
    <2> QED BY <1>3, <2>1, <2>2 DEF PendShape
  <1>9. MaskBalanced'
    BY <1>2, <1>3 DEF MaskBalanced
  <1>10. StrandedOnlyByDeath'
    BY <1>2 DEF StrandedOnlyByDeath
  <1>11. CheckedShape'
    <2>1. ASSUME NEW k \in 1 .. n, frames'[k].phase = "checked", pend'[frames'[k].at] > 0
          PROVE  k < n /\ Ahead(frames'[k + 1], frames'[k].at)
      <3>1. frames'[k] = frames[k] /\ k \in 1 .. Depth /\ k < Depth
        BY <1>7
      <3>2. k # n
        <4>1. n > 0
          BY <1>1
        <4> QED BY <1>1, <2>1, <3>1, <4>1
      <3>3. k < n /\ k + 1 \in 1 .. n
        BY <1>1, <3>2
      <3>4. frames'[k + 1] = frames[k + 1]
        BY <1>3, <3>3
      <3> QED BY <1>7, <2>1, <3>1, <3>3, <3>4 DEF SignalInv, CheckedShape
    <2> QED BY <1>3, <2>1 DEF CheckedShape, Ahead
  <1> QED BY <1>4, <1>5, <1>6, <1>8, <1>9, <1>10, <1>11 DEF SignalInv

\* The mask an assignment has saved, below a frame.
LEMMA SavedFacts ==
  ASSUME SignalInv, NEW k \in 1 .. Depth, InSetsig(frames[k]), NEW s \in Sigs
  PROVE  /\ HeldBelow(k, s) => s \in frames[k].save
         /\ s \in frames[k].save => HeldBelow(k, s) \/ s \in overflown
         /\ frames[k].save \in SUBSET Sigs
  <1>1. frames[k] \in Frames
    BY DEF SignalInv, TypeOK, Depth
  <1>2. frames[k].save \in SUBSET Sigs
    BY <1>1 DEF Frames
  <1> QED BY <1>2 DEF SignalInv, MaskShape

\* The mask that is left of the frame on top fits those below it: a signal
\* whose destructor is lost is overflown.
LEMMA LeftFacts ==
  ASSUME SignalInv, frames # <<>>, NEW lost \in SUBSET Losable, NEW new \in SUBSET Sigs,
         overflown \subseteq overflown', new \subseteq overflown',
         SignalsOf(lost) \subseteq overflown', NEW x \in Sigs
  PROVE  /\ Left(Depth, lost, blocked \cup new) \in SUBSET Sigs
         /\ HeldBelow(Depth, x) => x \in Left(Depth, lost, blocked \cup new)
         /\ x \in Left(Depth, lost, blocked \cup new)
              => HeldBelow(Depth, x) \/ x \in overflown'
  <1> DEFINE mask == Left(Depth, lost, blocked \cup new)
  <1>1. /\ Top = frames[Depth] /\ Top \in Frames /\ Depth \in Nat \ {0} /\ Depth \in 1 .. Depth
    BY TopIsFrame
  <1>2. /\ HeldBelow(Depth, x) => x \in blocked
        /\ x \in blocked => \/ HeldBelow(Depth, x) \/ x \in overflown
                            \/ Top.phase # "scan" /\ Top.at = x
        /\ blocked \subseteq Sigs
    BY TopMask DEF SignalInv, TypeOK
  <1>3. CASE Depth \in lost
    <2>1. mask = blocked \cup new
      BY <1>3 DEF Left
    <2>2. Top.at \in overflown'
      BY <1>1, <1>3 DEF SignalsOf
    <2> QED BY <1>2, <2>1, <2>2
  <1>4. CASE Depth \notin lost /\ InSetsig(Top)
    <2>1. mask = frames[Depth].save
      BY <1>1, <1>4 DEF Left, Restored
    <2> QED BY <1>1, <1>4, <2>1, SavedFacts
  <1>5. CASE Depth \notin lost /\ ~InSetsig(Top)
    <2>1. mask = IF Top.unblock THEN (blocked \cup new) \ {Top.at} ELSE blocked \cup new
      BY <1>1, <1>5 DEF Left, Restored
    <2>2. Top.phase \in {"scan", "blocked", "running"} /\ Top.unblock \in BOOLEAN
      BY <1>1, <1>5 DEF Frames, Phases, InSetsig
    <2>3. CASE Top.unblock
      <3>1. Top.phase \in {"blocked", "running"}
        BY <1>1, <2>2, <2>3 DEF SignalInv, MaskShape
      <3>2. ~HeldBelow(Depth, Top.at)
        BY <1>1, <2>3, <3>1 DEF SignalInv, MaskShape
      <3> QED BY <1>2, <2>1, <2>3, <3>2
    <2>4. CASE ~Top.unblock
      <3>1. Top.phase # "scan" => HeldBelow(Depth, Top.at) \/ Top.at \in overflown
        BY <1>1, <2>2, <2>4 DEF SignalInv, MaskShape
      <3> QED BY <1>2, <2>1, <2>4, <3>1
    <2> QED BY <2>3, <2>4
  <1> QED BY <1>3, <1>4, <1>5

\* So does the mask an exception leaves.
LEMMA UnwindFacts ==
  ASSUME SignalInv, frames # <<>>, NEW lost \in SUBSET Losable, NEW new \in SUBSET Sigs,
         Unwind(lost, blocked \cup new),
         overflown \subseteq overflown', new \subseteq overflown',
         SignalsOf(lost) \subseteq overflown'
  PROVE  /\ blocked' \in SUBSET Sigs
         /\ \A x \in Sigs :
              /\ HeldBelow(Below + 1, x) => x \in blocked'
              /\ x \in blocked' => HeldBelow(Below + 1, x) \/ x \in overflown'
  <1> DEFINE inner == Left(Depth, lost, blocked \cup new)
  <1>1. /\ Depth \in Nat \ {0}
        /\ Below = Depth - 2 => Depth > 1 /\ InSetsig(frames[Depth - 1])
        /\ Below # Depth - 2 => Below = Depth - 1
    BY BelowFacts
  <1>2. /\ inner \in SUBSET Sigs
        /\ \A x \in Sigs :
             /\ HeldBelow(Depth, x) => x \in inner
             /\ x \in inner => HeldBelow(Depth, x) \/ x \in overflown'
    <2>1. 1 \in Sigs
      BY DEF Sigs
    <2> QED BY <2>1, LeftFacts
  <1>3. blocked' = IF Below = Depth - 2 THEN Left(Depth - 1, lost, inner) ELSE inner
    BY DEF Unwind
  <1> HIDE DEF inner
  <1>4. CASE Below # Depth - 2
    <2>1. Below + 1 = Depth /\ blocked' = inner
      BY <1>1, <1>3, <1>4
    <2> QED BY <1>2, <2>1
  <1>5. CASE Below = Depth - 2
    <2> DEFINE k == Depth - 1
    <2>1. k \in 1 .. Depth /\ k = Below + 1 /\ k + 1 = Depth /\ InSetsig(frames[k])
      BY <1>1, <1>5
    <2>2. blocked' = Left(k, lost, inner)
      BY <1>3, <1>5
    <2> HIDE DEF k
    <2>3. CASE k \in lost
      <3>1. blocked' = inner /\ frames[k].at \in overflown'
        BY <2>2, <2>3 DEF Left, SignalsOf
      <3>2. \A x \in Sigs : HeldBelow(k, x) => HeldBelow(Depth, x)
        BY <1>1, <2>1 DEF HeldBelow
      <3>3. \A x \in Sigs : HeldBelow(Depth, x) => HeldBelow(k, x) \/ x = frames[k].at
        BY <1>1, <2>1 DEF HeldBelow
      <3> QED BY <1>2, <2>1, <3>1, <3>2, <3>3
    <2>4. CASE k \notin lost
      <3>1. blocked' = frames[k].save
        BY <2>1, <2>2, <2>4 DEF Left, Restored
      <3>2. frames[k].save \in SUBSET Sigs
        <4>1. frames[k] \in Frames
          BY <2>1, TopIsFrame
        <4> QED BY <4>1 DEF Frames
      <3>3. \A x \in Sigs : /\ HeldBelow(k, x) => x \in frames[k].save
                            /\ x \in frames[k].save => HeldBelow(k, x) \/ x \in overflown
        BY <2>1, SavedFacts
      <3> QED BY <2>1, <3>1, <3>2, <3>3
    <2> QED BY <2>3, <2>4
  <1> QED BY <1>4, <1>5

\* Only frames that have blocked a signal have a destructor.
LEMMA LosableFacts ==
  ASSUME SignalInv, frames # <<>>
  PROVE  \A k \in Losable : frames[k].at \in Sigs
  <1> SUFFICES ASSUME NEW k \in Losable PROVE frames[k].at \in Sigs
    OBVIOUS
  <1>1. k \in 1 .. Depth
    BY BelowFacts DEF Losable
  <1>2. frames[k].phase # "scan"
    BY <1>1 DEF Losable, InSetsig, SignalInv, MaskShape
  <1> QED BY <1>1, <1>2 DEF SignalInv, StackShape

LEMMA DiesInv == SignalInv /\ ended = "no" /\ Dies => SignalInv'
  <1> SUFFICES ASSUME SignalInv, Dies, ended = "no" PROVE SignalInv'
    OBVIOUS
  <1>1. frames # <<>>
    BY DEF Dies, TopIs
  <1>2. PICK lost \in SUBSET Losable :
          Unwind(lost, blocked) /\ overflown' = overflown \cup SignalsOf(lost)
    BY DEF Dies
  <1>3. UNCHANGED <<raised, handler, pend, sigPending, bounds>> /\ Reaches(Below)
    BY DEF Dies, perlVars
  <1>4. Unwind(lost, blocked \cup {}) /\ {} \subseteq overflown'
    <2>1. blocked \cup {} = blocked
      OBVIOUS
    <2> QED BY <1>2, <2>1
  <1>5. SignalsOf(lost) \subseteq Sigs
    BY <1>1, LosableFacts DEF SignalsOf
  <1>6. /\ raised' \in SUBSET Sigs /\ overflown' \in SUBSET Sigs
        /\ overflown \subseteq overflown' /\ SignalsOf(lost) \subseteq overflown'
        /\ pend' \in [Sigs -> Nat] /\ sigPending' \in Nat /\ UNCHANGED <<handler, bounds>>
        /\ \A s \in Sigs : s \in blocked => pend'[s] = pend[s]
    BY <1>2, <1>3, <1>5 DEF SignalInv, TypeOK
  <1>7. frames' = SubSeq(frames, 1, Below)
    BY <1>2 DEF Unwind
  <1>8. {} \in SUBSET Sigs
    OBVIOUS
  <1> QED BY <1>1, <1>3, <1>4, <1>6, <1>7, <1>8, UnwindFacts, LeaveInv

\* One signal too many: what a croak leaves of the counts.
LEMMA OverflowFacts ==
  ASSUME SignalInv, NEW new \in SUBSET Sigs, Overflow(new)
  PROVE  /\ pend' \in [Sigs -> Nat] /\ sigPending' \in Nat
         /\ \A x \in Sigs : pend'[x] = pend[x] \/ (x \in new /\ pend'[x] = pend[x] + 1)
         /\ \A x \in Sigs : x \in blocked => pend'[x] = pend[x]
         /\ raised' \in SUBSET Sigs /\ UNCHANGED <<handler, bounds>>
  <1>1. PICK counted \in SUBSET new :
          /\ pend' = [s \in Sigs |-> IF s \in counted THEN pend[s] + 1 ELSE pend[s]]
          /\ \E n \in 1 .. Cardinality(counted) : sigPending' = sigPending + n
    BY DEF Overflow
  <1>2. sigPending' \in Nat
    <2>1. PICK n \in 1 .. Cardinality(counted) : sigPending' = sigPending + n
      BY <1>1
    <2>2. Cardinality(counted) \in Nat
      <3>1. IsFiniteSet(Sigs) /\ counted \subseteq Sigs
        BY FS_Interval DEF Sigs
      <3> QED BY <3>1, FS_CardinalityType, FS_Subset
    <2> QED BY <2>1, <2>2 DEF SignalInv, TypeOK
  <1>3. \A x \in new : x \notin blocked
    BY DEF Overflow, Deliverable
  <1>4. pend \in [Sigs -> Nat] /\ raised \in SUBSET Sigs
    BY DEF SignalInv, TypeOK
  <1>5. raised' = raised \ new /\ UNCHANGED <<handler, bounds>>
    BY DEF Overflow
  <1> QED BY <1>1, <1>2, <1>3, <1>4, <1>5

\* While Perl code runs, the exception starts there.
LEMMA OverflowPerlInv ==
  ASSUME NEW new \in SUBSET Sigs, SignalInv, ended = "no", Overflow(new), IsPerl, UNCHANGED frames,
         blocked' = blocked \cup new, overflown' = overflown \cup new, Reaches(Depth)
  PROVE  SignalInv'
  <1>1. /\ pend' \in [Sigs -> Nat] /\ sigPending' \in Nat /\ raised' \in SUBSET Sigs
        /\ \A x \in Sigs : x \in blocked => pend'[x] = pend[x]
        /\ UNCHANGED <<handler, bounds>>
    BY OverflowFacts
  <1>2. /\ abandoned' = abandoned \cup {x \in Sigs : Stranded(x)'}
        /\ dying' \in BOOLEAN
        /\ ended' = IF dying' /\ Depth = 0 THEN "died" ELSE ended
    BY DEF Reaches
  <1>3. /\ Depth' = Depth /\ Depth \in Nat /\ Top' = Top
        /\ frames # <<>> => Top = frames[Depth] /\ Depth > 0 /\ Top.phase = "running"
        /\ frames = <<>> => Depth = 0
    BY DEF SignalInv, TypeOK, Depth, Top, IsPerl
  <1>4. TypeOK'
    BY <1>1, <1>2 DEF SignalInv, TypeOK, bounds, Endings
  <1>5. \A k \in 1 .. Depth : frames[k].phase # "scan" =>
           frames[k].at \in Sigs /\ pend'[frames[k].at] = pend[frames[k].at]
    BY <1>1, HeldIsBlocked
  <1>6. StackShape' /\ NoReentry'
    BY <1>3 DEF SignalInv, StackShape, NoReentry, Running, InSetsig
  <1>7. DyingShape'
    BY <1>2, <1>3 DEF DyingShape
  <1>8. PendShape'
    <2>1. \A k \in 1 .. Depth : frames[k].phase # "blocked"
      <3>1. ASSUME NEW k \in 1 .. Depth, k < Depth PROVE frames[k].phase # "blocked"
        BY <3>1 DEF SignalInv, StackShape
      <3>2. ASSUME NEW k \in 1 .. Depth, k = Depth PROVE frames[k].phase # "blocked"
        BY <1>3, <3>2
      <3> QED BY <1>3, <3>1, <3>2
    <2> QED BY <1>3, <1>5, <2>1 DEF SignalInv, PendShape
  <1>9. \A k \in 1 .. Depth + 1, x \in Sigs : HeldBelow(k, x)' <=> HeldBelow(k, x)
    BY DEF HeldBelow
  <1>10. MaskBalanced'
    <2>1. \A x \in Sigs : Held(x)' <=> Held(x)
      BY <1>3 DEF Held, HeldBelow
    <2> QED BY <1>1, <2>1 DEF SignalInv, MaskBalanced
  <1>11. MaskShape'
    <2>1. ASSUME NEW k \in 1 .. Depth, InSetsig(frames[k]), NEW x \in Sigs
          PROVE  /\ HeldBelow(k, x)' => x \in frames[k].save
                 /\ x \in frames[k].save => HeldBelow(k, x)' \/ x \in overflown'
      <3>1. /\ HeldBelow(k, x) => x \in frames[k].save
            /\ x \in frames[k].save => HeldBelow(k, x) \/ x \in overflown
        BY <2>1, SavedFacts
      <3>2. HeldBelow(k, x)' <=> HeldBelow(k, x)
        BY <1>3, <1>9
      <3> QED BY <1>1, <3>1, <3>2
    <2>2. ASSUME NEW k \in 1 .. Depth, frames[k].phase \in {"blocked", "running"}
          PROVE  IF frames[k].unblock
                 THEN ~HeldBelow(k, frames[k].at)'
                 ELSE HeldBelow(k, frames[k].at)' \/ frames[k].at \in overflown'
      <3>1. frames[k].at \in Sigs
        BY <1>5, <2>2
      <3>2. HeldBelow(k, frames[k].at)' <=> HeldBelow(k, frames[k].at)
        BY DEF HeldBelow
      <3>3. IF frames[k].unblock THEN ~HeldBelow(k, frames[k].at)
            ELSE HeldBelow(k, frames[k].at) \/ frames[k].at \in overflown
        BY <2>2 DEF SignalInv, MaskShape
      <3> QED BY <1>1, <3>2, <3>3
    <2>3. ASSUME NEW k \in 1 .. Depth, frames[k].phase = "scan" PROVE ~frames[k].unblock
      BY <2>3 DEF SignalInv, MaskShape
    <2> QED BY <1>3, <2>1, <2>2, <2>3 DEF MaskShape, InSetsig
  <1>12. StrandedOnlyByDeath'
    BY <1>2 DEF StrandedOnlyByDeath
  <1>13. CheckedShape'
    <2>1. ASSUME NEW k \in 1 .. Depth, frames[k].phase = "checked", pend'[frames[k].at] > 0
          PROVE  k < Depth /\ Ahead(frames[k + 1], frames[k].at)
      <3>1. k < Depth /\ pend[frames[k].at] > 0
        BY <1>3, <1>5, <2>1
      <3> QED BY <2>1, <3>1 DEF SignalInv, CheckedShape
    <2> QED BY <1>3, <2>1 DEF CheckedShape, Ahead
  <1> QED BY <1>4, <1>6, <1>7, <1>8, <1>10, <1>11, <1>12, <1>13 DEF SignalInv

\* Elsewhere the top frame is left at once.
LEMMA OverflowElseInv ==
  ASSUME NEW new \in SUBSET Sigs, SignalInv, ended = "no", Overflow(new), ~IsPerl,
         NEW lost \in SUBSET Losable, Unwind(lost, blocked \cup new),
         overflown' = overflown \cup new \cup SignalsOf(lost), Reaches(Below)
  PROVE  SignalInv'
  <1>1. frames # <<>>
    BY DEF IsPerl
  <1>2. /\ pend' \in [Sigs -> Nat] /\ sigPending' \in Nat /\ raised' \in SUBSET Sigs
        /\ \A x \in Sigs : x \in blocked => pend'[x] = pend[x]
        /\ UNCHANGED <<handler, bounds>>
    BY OverflowFacts
  <1>3. SignalsOf(lost) \subseteq Sigs
    BY <1>1, LosableFacts DEF SignalsOf
  <1>4. /\ overflown' \in SUBSET Sigs /\ overflown \subseteq overflown'
        /\ new \subseteq overflown' /\ SignalsOf(lost) \subseteq overflown'
    BY <1>3 DEF SignalInv, TypeOK
  <1>5. frames' = SubSeq(frames, 1, Below)
    BY DEF Unwind
  <1> QED BY <1>1, <1>2, <1>4, <1>5, UnwindFacts, LeaveInv

LEMMA OverflowInv ==
  \A new \in SUBSET Sigs : SignalInv /\ ended = "no" /\ Overflow(new) => SignalInv'
  <1> SUFFICES ASSUME NEW new \in SUBSET Sigs, SignalInv, ended = "no", Overflow(new)
               PROVE  SignalInv'
    OBVIOUS
  <1>1. CASE /\ IsPerl /\ blocked' = blocked \cup new /\ overflown' = overflown \cup new
             /\ UNCHANGED frames /\ Reaches(Depth)
    BY <1>1, OverflowPerlInv
  <1>2. ASSUME ~IsPerl, NEW lost \in SUBSET Losable, Unwind(lost, blocked \cup new),
               overflown' = overflown \cup new \cup SignalsOf(lost), Reaches(Below)
        PROVE  SignalInv'
    BY <1>2, OverflowElseInv
  <1> QED BY <1>1, <1>2 DEF Overflow

-----------------------------------------------------------------------------
(* The theorems.                                                           *)

LEMMA NextInv == SignalInv /\ [Next]_vars => SignalInv'
  <1> SUFFICES ASSUME SignalInv, [Next]_vars PROVE SignalInv'
    OBVIOUS
  <1>1. CASE Next
    <2>1. ended = "no"
      BY <1>1 DEF Next
    <2>2. CASE \E s \in Sigs : Raise(s) \/ Default(s)
      BY <2>1, <2>2, RaiseInv, DefaultInv
    <2>3. CASE \E new \in SUBSET Sigs : Catch(new) \/ Overflow(new)
      BY <2>1, <2>3, CatchInv, OverflowInv
    <2>4. CASE \E s \in Sigs, new \in Dispositions : SetSig(s, new)
      BY <2>1, <2>4, SetSigInv
    <2>5. CASE Interpret
      BY <2>1, <2>5, AsyncCheckInv, SkipInv, BlockInv, CallInv, ReturnInv, LoopEndsInv,
         SetChecksInv, InstallInv, DiesInv DEF Interpret
    <2>6. CASE Fork
      BY <2>1, <2>6, ForkInv
    <2> QED BY <1>1, <2>2, <2>3, <2>4, <2>5, <2>6 DEF Next
  <1>2. CASE UNCHANGED vars
    BY <1>2 DEF vars, kernelVars, perlVars, bounds, SignalInv, TypeOK, Depth, Top, StackShape,
       DyingShape, PendShape, NoReentry, Running, MaskBalanced, MaskShape, Held,
       HeldBelow, StrandedOnlyByDeath, Stranded, LoopAhead, CheckedShape, InSetsig, Ahead
  <1> QED BY <1>1, <1>2

\* The invariant that carries the others.
THEOREM Invariant == Spec => []SignalInv
  BY InitInv, NextInv, PTL DEF Spec

\* The variables have their types, with any number of signals.
THEOREM TypeCorrect == Spec => []TypeOK
  <1>1. SignalInv => TypeOK
    BY DEF SignalInv
  <1> QED BY <1>1, Invariant, PTL

\* A handler is not called while it runs for the same signal, with any number
\* of signals, however handlers nest, assign to %SIG and die.
THEOREM NoHandlerReentered == Spec => []NoReentry
  <1>1. SignalInv => NoReentry
    BY DEF SignalInv
  <1> QED BY <1>1, Invariant, PTL

\* The mask is what the calls in progress make it.
THEOREM MaskIsBalanced == Spec => []MaskBalanced
  <1>1. SignalInv => MaskBalanced
    BY DEF SignalInv
  <1> QED BY <1>1, Invariant, PTL

\* Only an exception strands a pending signal.
THEOREM StrandedOnlyByExceptions == Spec => []StrandedOnlyByDeath
  <1>1. SignalInv => StrandedOnlyByDeath
    BY DEF SignalInv
  <1> QED BY <1>1, Invariant, PTL

\* $SIG{s} is replaced under a pending signal only below a loop that will
\* look at it, or after an exception has abandoned it.
THEOREM IsReplacedInTime == Spec => ReplacedInTime
  <1> DEFINE A == \A s \in Sigs :
       handler'[s] # handler[s] /\ pend[s] > 0 => LoopAhead(s) \/ s \in abandoned
  <1>1. SignalInv /\ [Next]_vars => [A]_vars
    <2> SUFFICES ASSUME SignalInv, Next, NEW s \in Sigs,
                        handler'[s] # handler[s], pend[s] > 0
                 PROVE  LoopAhead(s) \/ s \in abandoned
      OBVIOUS
    <2>1. Install
      BY DEF Next, Raise, Default, Overflow, Catch, SetSig, Interpret, Fork, AsyncCheck,
         Skip, Block, Call, Return, LoopEnds, SetChecks, Dies, perlVars
    <2>2. frames # <<>> /\ Top.phase = "checked" /\ handler' = [handler EXCEPT ![Top.at] = Top.to]
      BY <2>1 DEF Install, TopIs
    <2>3. Depth \in Nat \ {0} /\ Top = frames[Depth] /\ s = Top.at
      BY <2>2, TopIsFrame DEF SignalInv, TypeOK
    <2> QED BY <2>2, <2>3 DEF SignalInv, CheckedShape
  <1>2. Spec => [][A]_vars
    BY <1>1, Invariant, PTL DEF Spec
  <1> QED BY <1>2 DEF ReplacedInTime

\* The calls in progress are for different signals; the loop on top may be
\* between two calls.
LEMMA LoopsFit == SignalInv => LoopsBounded
  <1> SUFFICES ASSUME SignalInv PROVE Cardinality(Loops) <= N + 1
    BY DEF LoopsBounded
  <1> DEFINE R == {k \in 1 .. Depth : frames[k].phase = "running"}
             f == [k \in R |-> frames[k].at]
  <1>1. Depth \in Nat
    BY DEF SignalInv, TypeOK, Depth
  <1>2. IsFiniteSet(1 .. Depth) /\ IsFiniteSet(1 .. N) /\ Cardinality(1 .. N) = N
    BY <1>1, FS_Interval
  <1>3. IsFiniteSet(R) /\ Cardinality(R) \in Nat
    <2>1. R \subseteq 1 .. Depth
      OBVIOUS
    <2> QED BY <1>2, <2>1, FS_Subset, FS_CardinalityType
  <1>4. f \in [R -> 1 .. N]
    BY HeldIsBlocked DEF Sigs
  <1>5. \A j, k \in R : j # k => f[j] # f[k]
    <2> SUFFICES ASSUME NEW j \in R, NEW k \in R, f[j] = f[k] PROVE j = k
      OBVIOUS
    <2>1. frames[j].at = frames[k].at /\ frames[j].at \in Sigs
      BY HeldIsBlocked
    <2> QED BY <2>1 DEF SignalInv, NoReentry, Running
  <1>6. Cardinality(R) <= N
    <2> HIDE DEF R, f
    <2> QED BY <1>2, <1>3, <1>4, <1>5, FS_PigeonHole
  <1>7. Loops \subseteq R \cup {Depth}
    <2> SUFFICES ASSUME NEW k \in Loops PROVE k \in R \cup {Depth}
      OBVIOUS
    <2>1. k \in 1 .. Depth /\ ~InSetsig(frames[k])
      BY DEF Loops
    <2>2. k < Depth \/ k = Depth
      BY <1>1, <2>1
    <2>3. ASSUME k < Depth PROVE frames[k].phase = "running"
      BY <2>1, <2>3 DEF SignalInv, StackShape, InSetsig
    <2> QED BY <2>1, <2>2, <2>3
  <1> HIDE DEF R, f
  <1>8. /\ IsFiniteSet(R \cup {Depth}) /\ Cardinality(R \cup {Depth}) \in Nat
        /\ Cardinality(R \cup {Depth}) <= Cardinality(R) + 1
    BY <1>3, FS_AddElement, FS_CardinalityType
  <1>9. /\ Cardinality(Loops) <= Cardinality(R \cup {Depth})
        /\ IsFiniteSet(Loops) /\ Cardinality(Loops) \in Nat
    BY <1>7, <1>8, FS_Subset, FS_CardinalityType
  <1> QED BY <1>3, <1>6, <1>8, <1>9

\* Signals do not pile up handlers on the stack.
THEOREM LoopsAreBounded == Spec => []LoopsBounded
  BY LoopsFit, Invariant, PTL

-----------------------------------------------------------------------------
(* The promise of perlipc.                                                 *)

Owed == {s \in Sigs : pend[s] > 0}
Active == {s \in Sigs : Running(s) # {}}

\* The handlers that run are those of the frames that stay.
LEMMA SameActive ==
  ASSUME \A k \in 1 .. Depth : frames[k].phase = "running" =>
           k \in 1 .. Depth' /\ frames'[k].phase = "running" /\ frames'[k].at = frames[k].at,
         \A k \in 1 .. Depth' : frames'[k].phase = "running" =>
           k \in 1 .. Depth /\ frames[k].phase = "running" /\ frames'[k].at = frames[k].at
  PROVE  Active' = Active
  <1>1. ASSUME NEW s \in Sigs PROVE Running(s)' = Running(s)
    BY DEF Running
  <1> QED BY <1>1 DEF Active

\* A loop that is pushed runs no handler.
LEMMA PushActive ==
  ASSUME SignalInv, NEW f \in Frames, f.phase # "running", Push(f)
  PROVE  Active' = Active
  <1>1. /\ Depth' = Depth + 1 /\ Depth \in Nat
        /\ \A k \in 1 .. Depth : frames'[k] = frames[k]
        /\ frames'[Depth + 1] = f
    BY PushFacts DEF SignalInv, TypeOK, Push, Depth
  <1>2. \A k \in 1 .. Depth' : k \in 1 .. Depth \/ k = Depth + 1
    BY <1>1
  <1> QED BY <1>1, <1>2, SameActive

\* Neither does a top frame that is cut, or changed, out of a handler.
LEMMA CutActive ==
  ASSUME SignalInv, NEW n \in 0 .. Depth, frames' = SubSeq(frames, 1, n),
         \A k \in n + 1 .. Depth : frames[k].phase # "running"
  PROVE  Active' = Active
  <1>1. /\ Depth' = n /\ n \in Nat /\ Depth \in Nat
        /\ \A k \in 1 .. n : frames'[k] = frames[k] /\ k \in 1 .. Depth
    BY CutStack
  <1>2. \A k \in 1 .. Depth : k \in 1 .. n \/ k \in n + 1 .. Depth
    BY <1>1
  <1> QED BY <1>1, <1>2, SameActive

LEMMA TopActive ==
  ASSUME SignalInv, NEW f \in Frames, frames # <<>>, Becomes(f),
         Top.phase # "running", f.phase # "running"
  PROVE  Active' = Active
  <1>1. /\ Depth \in Nat \ {0} /\ Depth' = Depth /\ Top = frames[Depth]
        /\ \A k \in 1 .. Depth - 1 : frames'[k] = frames[k]
        /\ frames'[Depth] = f
    BY TopFacts, TopIsFrame
  <1>2. \A k \in 1 .. Depth : k \in 1 .. Depth - 1 \/ k = Depth
    BY <1>1
  <1> QED BY <1>1, <1>2, SameActive

\* Handlers that end: nobody else runs one for the same signal.
LEMMA EndActive ==
  ASSUME SignalInv, frames # <<>>, Top.phase = "running",
         Depth' \in 0 .. Depth,
         \A k \in 1 .. Depth' : k < Depth => frames'[k] = frames[k],
         \A k \in 1 .. Depth' : k = Depth => frames'[k].phase # "running",
         \A k \in 1 .. Depth : k > Depth' /\ k < Depth => frames[k].phase # "running"
  PROVE  Top.at \in Active /\ Active' = Active \ {Top.at}
  <1>1. Depth \in Nat \ {0} /\ Top = frames[Depth] /\ Top.at \in Sigs
    <2>1. Depth \in Nat \ {0} /\ Top = frames[Depth]
      BY TopIsFrame
    <2> QED BY <2>1, HeldIsBlocked
  <1>2. Depth \in Running(Top.at)
    BY <1>1 DEF Running
  <1>3. Top.at \in Active
    BY <1>1, <1>2 DEF Active
  <1>4. \A k \in 1 .. Depth : k < Depth /\ frames[k].phase = "running" => frames[k].at # Top.at
    <2> SUFFICES ASSUME NEW k \in 1 .. Depth, k < Depth, frames[k].phase = "running",
                        frames[k].at = Top.at
                 PROVE  FALSE
      OBVIOUS
    <2>1. k \in Running(Top.at)
      BY DEF Running
    <2>2. k = Depth
      BY <1>1, <1>2, <2>1 DEF SignalInv, NoReentry
    <2> QED BY <1>1, <2>2
  <1>5. ASSUME NEW s \in Sigs PROVE Running(s)' # {} <=> Running(s) # {} /\ s # Top.at
    <2>1. ASSUME NEW k \in Running(s)'
          PROVE  k \in Running(s) /\ s # Top.at
      <3>1. k \in 1 .. Depth' /\ frames'[k].phase = "running" /\ frames'[k].at = s
        BY DEF Running
      <3>2. k \in 1 .. Depth /\ k < Depth
        BY <1>1, <3>1
      <3>3. frames'[k] = frames[k]
        BY <3>1, <3>2
      <3> QED BY <1>4, <3>1, <3>2, <3>3 DEF Running
    <2>2. ASSUME NEW k \in Running(s), s # Top.at PROVE k \in Running(s)'
      <3>1. k \in 1 .. Depth /\ frames[k].phase = "running" /\ frames[k].at = s /\ k # Depth
        BY <1>1, <2>2 DEF Running
      <3>2. k < Depth /\ k \in 1 .. Depth'
        BY <1>1, <3>1
      <3>3. frames'[k] = frames[k]
        BY <3>2
      <3> QED BY <3>1, <3>2, <3>3 DEF Running
    <2> QED BY <2>1, <2>2
  <1> QED BY <1>1, <1>3, <1>5 DEF Active

\* What is owed changes only with what is pending.
LEMMA SameOwed == UNCHANGED pend => Owed' = Owed
  BY DEF Owed

LEMMA Stutter ==
  ASSUME ended = "no", ended' \in Endings, Owed' = Owed, Active' = Active
  PROVE  Promise!Next
  <1>1. Promise!Note({})
    BY DEF Promise!Note, Owed, Active
  <1>2. (ended' # "no") \in BOOLEAN /\ {} \in SUBSET Sigs
    OBVIOUS
  <1> QED BY <1>1, <1>2 DEF Promise!Next

\* Signals that come are not blocked, so that their handlers do not run.
LEMMA NewNotActive ==
  ASSUME SignalInv, NEW s \in Sigs, s \notin blocked
  PROVE  s \notin Active
  <1> SUFFICES ASSUME NEW k \in Running(s) PROVE FALSE
    BY DEF Active
  <1>1. k \in 1 .. Depth /\ frames[k].phase = "running" /\ frames[k].at = s
    BY DEF Running
  <1> QED BY <1>1, HeldIsBlocked

LEMMA RaiseKeeps == \A s \in Sigs :
  SignalInv /\ ended = "no" /\ (Raise(s) \/ Default(s)) => Promise!Next
  <1> SUFFICES ASSUME NEW s \in Sigs, SignalInv, ended = "no", Raise(s) \/ Default(s)
               PROVE  Promise!Next
    OBVIOUS
  <1>1. UNCHANGED <<pend, frames>> /\ ended' \in Endings
    BY DEF Raise, Default, perlVars, Endings
  <1>2. Active' = Active
    BY <1>1 DEF Active, Running, Depth
  <1> QED BY <1>1, <1>2, SameOwed, Stutter

LEMMA CatchKeeps == \A new \in SUBSET Sigs :
  SignalInv /\ ended = "no" /\ Catch(new) => Promise!Next
  <1> SUFFICES ASSUME NEW new \in SUBSET Sigs, SignalInv, ended = "no", Catch(new)
               PROVE  Promise!Next
    OBVIOUS
  <1>1. /\ pend' = [s \in Sigs |-> IF s \in new THEN pend[s] + 1 ELSE pend[s]]
        /\ UNCHANGED <<frames, ended>> /\ \A s \in new : s \notin blocked
    BY DEF Catch, Deliverable
  <1>2. Active' = Active
    BY <1>1 DEF Active, Running, Depth
  <1>3. Owed' = Owed \cup new
    BY <1>1 DEF Owed, SignalInv, TypeOK
  <1>4. new \cap Active = {}
    BY <1>1, NewNotActive
  <1>5. Promise!Note(new)
    BY <1>2, <1>3, <1>4 DEF Promise!Note, Owed, Active
  <1> QED BY <1>1, <1>5 DEF Promise!Next

LEMMA OverflowKeeps == \A new \in SUBSET Sigs :
  SignalInv /\ ended = "no" /\ Overflow(new) => Promise!Next
  <1> SUFFICES ASSUME NEW new \in SUBSET Sigs, SignalInv, ended = "no", Overflow(new)
               PROVE  Promise!Next
    OBVIOUS
  <1>1. PICK counted \in SUBSET new :
          /\ pend' = [s \in Sigs |-> IF s \in counted THEN pend[s] + 1 ELSE pend[s]]
          /\ \A s \in counted : s \notin blocked
    BY DEF Overflow, Deliverable
  <1>2. Active' = Active
    <2>1. CASE UNCHANGED frames
      BY <2>1 DEF Active, Running, Depth
    <2>2. CASE ~IsPerl /\ frames' = SubSeq(frames, 1, Below)
      <3>1. frames # <<>> /\ Top.phase # "running" /\ Top = frames[Depth]
        BY <2>2, TopIsFrame DEF IsPerl
      <3>2. /\ Depth \in Nat \ {0} /\ Below \in 0 .. Depth /\ Below \in Nat
            /\ Below = Depth - 2 => Depth > 1 /\ InSetsig(frames[Depth - 1])
            /\ Below # Depth - 2 => Below = Depth - 1
        BY <3>1, BelowFacts
      <3>3. ASSUME NEW k \in Below + 1 .. Depth PROVE frames[k].phase # "running"
        <4>1. k = Depth \/ (k = Depth - 1 /\ Below = Depth - 2)
          BY <3>2
        <4> QED BY <3>1, <3>2, <4>1 DEF InSetsig
      <3> QED BY <2>2, <3>2, <3>3, CutActive
    <2> QED BY <2>1, <2>2 DEF Overflow, Unwind
  <1>3. Owed' = Owed \cup counted
    BY <1>1 DEF Owed, SignalInv, TypeOK
  <1>4. counted \cap Active = {}
    BY <1>1, NewNotActive
  <1>5. Promise!Note(counted)
    BY <1>2, <1>3, <1>4 DEF Promise!Note, Owed, Active
  <1>6. (ended' # "no") \in BOOLEAN /\ counted \in SUBSET Sigs
    OBVIOUS
  <1> QED BY <1>5, <1>6 DEF Promise!Next

\* The steps of the interpreter that call no handler and leave none.
LEMMA QuietKeeps ==
  ASSUME SignalInv, ended = "no",
         AsyncCheck \/ Skip \/ Block \/ LoopEnds \/ SetChecks \/ Install
  PROVE  Promise!Next
  <1>1. UNCHANGED <<pend, ended>> /\ ended' \in Endings
    BY DEF AsyncCheck, Skip, Block, LoopEnds, SetChecks, Install, perlVars, Endings
  <1>2. Active' = Active
    <2>1. CASE AsyncCheck
      BY <2>1, LoopIsFrame, PushActive DEF AsyncCheck, Loop
    <2>2. CASE Skip \/ Block
      <3>1. frames # <<>> /\ Top.phase = "scan" /\ Top \in Frames /\ Top.at \in 1 .. N + 1 /\ Top.at <= N
        <4>1. frames # <<>> /\ Top.phase = "scan" /\ Top.at <= N
          BY <2>2 DEF Skip, Block, InScan, TopIs
        <4> QED BY <4>1, TopIsFrame DEF Frames
      <3>2. CASE Skip
        <4>1. [Top EXCEPT !.at = @ + 1] \in Frames /\ [Top EXCEPT !.at = @ + 1].phase = "scan"
          BY <3>1 DEF Frames
        <4> QED BY <3>1, <3>2, <4>1, TopActive DEF Skip
      <3>3. CASE Block
        <4> DEFINE f == [Top EXCEPT !.phase = "blocked", !.unblock = Top.at \notin blocked]
        <4>1. f \in Frames /\ f.phase = "blocked"
          BY <3>1 DEF Frames, Phases
        <4>2. Becomes(f)
          BY <3>3 DEF Block
        <4> QED BY <3>1, <4>1, <4>2, TopActive
      <3> QED BY <2>2, <3>2, <3>3
    <2>3. CASE LoopEnds \/ Install
      <3>1. frames # <<>> /\ Top.phase # "running" /\ frames' = SubSeq(frames, 1, Depth - 1)
        BY <2>3 DEF LoopEnds, Install, InScan, TopIs, Pop
      <3>2. Depth \in Nat \ {0} /\ Top = frames[Depth] /\ Depth - 1 \in 0 .. Depth
        BY <3>1, TopIsFrame
      <3>3. \A k \in (Depth - 1) + 1 .. Depth : frames[k].phase # "running"
        BY <3>1, <3>2
      <3> QED BY <3>1, <3>2, <3>3, CutActive
    <2>4. CASE SetChecks
      <3> DEFINE f == [Top EXCEPT !.phase = "checked"]
                 g == [frames EXCEPT ![Depth] = f]
      <3>1. frames # <<>> /\ Top.phase = "set" /\ Top = frames[Depth]
            /\ Depth \in Nat \ {0} /\ Top \in Frames
        BY <2>4, TopIsFrame DEF SetChecks, TopIs
      <3>2. f \in Frames /\ f.phase = "checked"
        BY <3>1 DEF Frames, Phases
      <3>3. /\ g \in Seq(Frames) /\ Len(g) = Depth
            /\ \A k \in 1 .. Depth - 1 : g[k] = frames[k]
            /\ g[Depth] = f
        BY <3>1, <3>2, ChangeFacts DEF SignalInv, TypeOK, Depth
      <3>4. frames' = IF sigPending > 0 THEN Append(g, Loop) ELSE g
        BY <2>4 DEF SetChecks
      <3> HIDE DEF f, g
      <3>5. /\ \A k \in 1 .. Depth - 1 : frames'[k] = frames[k]
            /\ frames'[Depth] = f /\ Depth' \in {Depth, Depth + 1}
            /\ Depth' = Depth + 1 => frames'[Depth + 1] = Loop
        BY <3>1, <3>3, <3>4, LoopIsFrame DEF Depth
      <3>6. /\ \A k \in 1 .. Depth : k \in 1 .. Depth - 1 \/ k = Depth
            /\ \A k \in 1 .. Depth' : k \in 1 .. Depth - 1 \/ k = Depth
                                      \/ (k = Depth + 1 /\ frames'[k].phase = "scan")
            /\ 1 .. Depth \subseteq 1 .. Depth'
        BY <3>1, <3>5 DEF Loop
      <3> QED BY <3>1, <3>2, <3>5, <3>6, SameActive
    <2> QED BY <2>1, <2>2, <2>3, <2>4
  <1> QED BY <1>1, <1>2, SameOwed, Stutter

LEMMA SetSigKeeps == \A i \in Sigs, new \in Dispositions :
  SignalInv /\ ended = "no" /\ SetSig(i, new) => Promise!Next
  <1> SUFFICES ASSUME NEW i \in Sigs, NEW new \in Dispositions, SignalInv, ended = "no",
                      SetSig(i, new)
               PROVE  Promise!Next
    OBVIOUS
  <1> DEFINE f == [Loop EXCEPT !.phase = "set", !.at = i, !.save = blocked, !.to = new]
  <1>1. f \in Frames /\ f.phase = "set"
    <2>1. "none" \in Dispositions /\ "set" \in Phases /\ i \in 1 .. N + 1 /\ blocked \in SUBSET Sigs
      BY DEF Dispositions, Phases, Sigs, SignalInv, TypeOK
    <2> QED BY <2>1 DEF Loop, Frames
  <1>2. Push(f) /\ UNCHANGED <<pend, ended>> /\ ended' \in Endings
    BY DEF SetSig, perlVars, Endings
  <1>3. Active' = Active
    BY <1>1, <1>2, PushActive
  <1> QED BY <1>2, <1>3, SameOwed, Stutter

\* The handler begins, or the signal is forgotten.
LEMMA CallKeeps == SignalInv /\ ended = "no" /\ Call => Promise!Next
  <1> SUFFICES ASSUME SignalInv, ended = "no", Call PROVE Promise!Next
    OBVIOUS
  <1>0. /\ frames # <<>> /\ Depth \in Nat \ {0} /\ Top = frames[Depth] /\ Top \in Frames
        /\ Top.phase = "blocked" /\ Top.at \in Sigs /\ pend[Top.at] > 0
    <2>1. frames # <<>> /\ Top.phase = "blocked"
      BY DEF Call, TopIs
    <2>2. Depth \in Nat \ {0} /\ Top = frames[Depth] /\ Top \in Frames
      BY <2>1, TopIsFrame
    <2> QED BY <2>1, <2>2 DEF SignalInv, StackShape, PendShape
  <1> PICK s \in Sigs : s = Top.at
    BY <1>0
  <1>1. /\ frames # <<>> /\ Depth \in Nat \ {0} /\ Top = frames[Depth] /\ Top \in Frames
        /\ Top.phase = "blocked" /\ Top.at = s /\ pend[s] > 0
    BY <1>0
  <1>2. /\ pend' = [pend EXCEPT ![s] = 0]
        /\ (ended' # "no") \in BOOLEAN
    BY <1>1 DEF Call, Answered
  <1>3. s \in Owed /\ Owed' = Owed \ {s}
    BY <1>1, <1>2 DEF Owed, SignalInv, TypeOK
  <1>4. s \notin Active
    <2> SUFFICES ASSUME NEW k \in Running(s) PROVE FALSE
      BY DEF Active
    <2>1. k \in 1 .. Depth /\ frames[k].phase = "running" /\ frames[k].at = s
      BY DEF Running
    <2> QED BY <1>1, <2>1 DEF SignalInv, PendShape
  <1>5. CASE handler[s] \in Subs /\ Becomes([Top EXCEPT !.phase = "running", !.sub = handler[s]])
    <2> DEFINE f == [Top EXCEPT !.phase = "running", !.sub = handler[s]]
    <2>1. f \in Frames /\ f.phase = "running" /\ f.at = s
      BY <1>1, <1>5 DEF Frames, Phases, Dispositions
    <2>2. Becomes(f)
      BY <1>5
    <2> HIDE DEF f
    <2>3. /\ Depth' = Depth /\ \A k \in 1 .. Depth - 1 : frames'[k] = frames[k]
          /\ frames'[Depth] = f
      BY <1>1, <2>1, <2>2, TopFacts
    <2>4. \A k \in 1 .. Depth : k \in 1 .. Depth - 1 \/ k = Depth
      BY <1>1
    <2>5. Depth \in Running(s)'
      BY <1>1, <2>1, <2>3 DEF Running
    <2>6. ASSUME NEW x \in Sigs, x # s PROVE Running(x)' = Running(x)
      BY <1>1, <2>1, <2>3, <2>4, <2>6 DEF Running
    <2>7. Active' = Active \cup {s}
      BY <1>1, <2>5, <2>6 DEF Active
    <2>8. Promise!Begin(s)
      BY <1>3, <1>4, <2>7 DEF Promise!Begin, Owed, Active
    <2> QED BY <1>2, <2>8 DEF Promise!Next
  <1>6. CASE Becomes(NextAt(Top)) \/ UNCHANGED frames
    <2>1. Active' = Active
      <3>1. CASE Becomes(NextAt(Top))
        <4>1. NextAt(Top) \in Frames /\ NextAt(Top).phase = "scan"
          BY <1>1, NextAtFacts
        <4> QED BY <1>1, <3>1, <4>1, TopActive
      <3>2. CASE UNCHANGED frames
        BY <3>2 DEF Active, Running, Depth
      <3> QED BY <1>6, <3>1, <3>2
    <2>2. Promise!Forget(s)
      BY <1>3, <2>1 DEF Promise!Forget, Owed, Active
    <2> QED BY <1>2, <2>2 DEF Promise!Next
  <1> QED BY <1>1, <1>5, <1>6 DEF Call

\* The handler returns, or an exception leaves it.
LEMMA EndKeeps == SignalInv /\ ended = "no" /\ (Return \/ Dies) => Promise!Next
  <1> SUFFICES ASSUME SignalInv, ended = "no", Return \/ Dies PROVE Promise!Next
    OBVIOUS
  <1>1. /\ frames # <<>> /\ Depth \in Nat \ {0} /\ Top = frames[Depth] /\ Top \in Frames
        /\ Top.phase = "running" /\ Top.at \in Sigs
    <2>1. frames # <<>> /\ Top.phase = "running"
      BY DEF Return, Dies, TopIs
    <2>2. Depth \in Nat \ {0} /\ Top = frames[Depth] /\ Top \in Frames
      BY <2>1, TopIsFrame
    <2> QED BY <2>1, <2>2, HeldIsBlocked
  <1>2. UNCHANGED pend
    BY DEF Return, Dies, perlVars
  <1>3. Top.at \in Active /\ Active' = Active \ {Top.at}
    <2>1. CASE Return
      <3>1. NextAt(Top) \in Frames /\ NextAt(Top).phase = "scan" /\ Becomes(NextAt(Top))
        BY <1>1, <2>1, NextAtFacts DEF Return
      <3>2. /\ Depth' = Depth /\ \A k \in 1 .. Depth - 1 : frames'[k] = frames[k]
            /\ frames'[Depth] = NextAt(Top)
        BY <1>1, <3>1, TopFacts
      <3>3. /\ Depth' \in 0 .. Depth
            /\ \A k \in 1 .. Depth' : k < Depth => frames'[k] = frames[k]
            /\ \A k \in 1 .. Depth' : k = Depth => frames'[k].phase # "running"
            /\ \A k \in 1 .. Depth : ~(k > Depth' /\ k < Depth)
        BY <1>1, <3>1, <3>2
      <3> QED BY <1>1, <3>3, EndActive
    <2>2. CASE Dies
      <3>1. frames' = SubSeq(frames, 1, Below)
        BY <2>2 DEF Dies, Unwind
      <3>2. /\ Below \in 0 .. Depth /\ Below < Depth /\ Below \in Nat
            /\ Below = Depth - 2 => Depth > 1 /\ InSetsig(frames[Depth - 1])
            /\ Below # Depth - 2 => Below = Depth - 1
        BY <1>1, BelowFacts
      <3>3. Depth' = Below /\ \A k \in 1 .. Below : frames'[k] = frames[k]
        BY <3>1, <3>2, CutStack
      <3>4. ASSUME NEW k \in 1 .. Depth, k > Depth', k < Depth PROVE frames[k].phase # "running"
        <4>1. k = Depth - 1 /\ Below = Depth - 2
          BY <1>1, <3>2, <3>3, <3>4
        <4> QED BY <3>2, <4>1 DEF InSetsig
      <3>5. /\ Depth' \in 0 .. Depth
            /\ \A k \in 1 .. Depth' : k < Depth => frames'[k] = frames[k]
            /\ \A k \in 1 .. Depth' : k # Depth
        BY <1>1, <3>2, <3>3
      <3> QED BY <1>1, <3>4, <3>5, EndActive
    <2> QED BY <2>1, <2>2
  <1>4. Promise!End(Top.at)
    BY <1>2, <1>3, SameOwed DEF Promise!End, Owed, Active
  <1>5. (ended' # "no") \in BOOLEAN
    OBVIOUS
  <1> QED BY <1>1, <1>4, <1>5 DEF Promise!Next

LEMMA ForkKeeps == SignalInv /\ ended = "no" /\ Fork => Promise!Next
  <1> SUFFICES ASSUME SignalInv, ended = "no", Fork PROVE Promise!Next
    OBVIOUS
  <1>1. pend' = [s \in Sigs |-> 0] /\ UNCHANGED <<frames, ended>>
    BY DEF Fork
  <1>2. Owed' = {} /\ Active' = Active
    BY <1>1 DEF Owed, Active, Running, Depth
  <1>3. Promise!Fork
    BY <1>2 DEF Promise!Fork, Owed, Active
  <1> QED BY <1>1, <1>3 DEF Promise!Next

LEMMA InitKeeps == Init => Promise!Init
  BY DEF Init, Promise!Init, Running, Depth

LEMMA NextKeeps == SignalInv /\ [Next]_vars => [Promise!Next]_Promise!vars
  <1> SUFFICES ASSUME SignalInv, [Next]_vars PROVE [Promise!Next]_Promise!vars
    OBVIOUS
  <1>1. CASE Next
    <2>1. ended = "no"
      BY <1>1 DEF Next
    <2>2. CASE \E s \in Sigs : Raise(s) \/ Default(s)
      BY <2>1, <2>2, RaiseKeeps
    <2>3. CASE \E new \in SUBSET Sigs : Catch(new) \/ Overflow(new)
      BY <2>1, <2>3, CatchKeeps, OverflowKeeps
    <2>4. CASE \E s \in Sigs, new \in Dispositions : SetSig(s, new)
      BY <2>1, <2>4, SetSigKeeps
    <2>5. CASE Interpret
      BY <2>1, <2>5, QuietKeeps, CallKeeps, EndKeeps DEF Interpret
    <2>6. CASE Fork
      BY <2>1, <2>6, ForkKeeps
    <2> QED BY <1>1, <2>2, <2>3, <2>4, <2>5, <2>6 DEF Next
  <1>2. CASE UNCHANGED vars
    BY <1>2 DEF vars, kernelVars, perlVars, bounds, Promise!vars, Running, Depth
  <1> QED BY <1>1, <1>2

\* The interpreter keeps the promise of perlipc: signals that come before the
\* handler is called are answered by one call, which no further signal of the
\* kind interrupts.
THEOREM DeferredImplemented == Spec => ImplementsDeferred
  BY InitKeeps, NextKeeps, Invariant, PTL DEF Spec, ImplementsDeferred, Promise!Spec
=============================================================================
