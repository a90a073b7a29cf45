------------------------------ MODULE Signals -------------------------------
(***************************************************************************)
(* The safe signals of the Perl interpreter, which runs the scripts of     *)
(* www/r: mg.c of src/perl-5.36.0.  The handler the kernel calls only      *)
(* counts a signal; the interpreter looks at the count between two ops and *)
(* calls the Perl handlers, which are Perl code and so look at it again.   *)
(*                                                                         *)
(* The C stack above the program is a sequence of frames, the last one on  *)
(* top: a frame of despatch_signals, at the signal `at' of its loop, or of *)
(* magic_setsig, which assigns `to' to $SIG{at}.  Perl code runs, and the  *)
(* ops of the program or of a handler are executed, when there is no frame *)
(* or the top frame has called a handler.                                  *)
(***************************************************************************)
EXTENDS Naturals, Sequences, FiniteSets

CONSTANTS
  N,          \* the signals are 1 .. N, in the order of the loop
  Subs,       \* the Perl subs that are used as handlers
  Mortal,     \* those of them that may die
  Meddling,   \* those of them that may assign to %SIG
  Fatal,      \* the signals whose default action ends the process
  DieCount,   \* SIG_PENDING_DIE_COUNT
  MaxRaised,  \* bound: how often each signal is raised
  MaxSets,    \* bound: how often %SIG is assigned to
  MaxForks    \* bound: how often the process is a child that was forked

Sigs == 1 .. N

\* What $SIG{s} may be: "none" when it was deleted or never set.
Dispositions == Subs \cup {"none", "DEFAULT", "IGNORE"}

ASSUME SizeAssumption == N \in Nat \ {0}
ASSUME SubsAssumption ==
  Mortal \subseteq Subs /\ Meddling \subseteq Subs
    /\ {"none", "DEFAULT", "IGNORE"} \cap Subs = {}
ASSUME FatalAssumption == Fatal \subseteq Sigs
ASSUME CountAssumption == DieCount \in Nat \ {0, 1}

VARIABLES
  raised,      \* the kernel: signals raised and not yet delivered
  blocked,     \* the kernel: the signal mask of the process
  handler,     \* PL_psig_ptr, with which the kernel's disposition agrees
  pend,        \* PL_psig_pend: caught and not yet despatched
  sigPending,  \* PL_sig_pending: caught since the last despatch began
  frames,      \* the C stack
  dying,       \* an exception is on its way to an eval
  ended,       \* why the process has ended, or "no"
  overflown,   \* history: the signals a croak of a C handler may leave blocked
  abandoned,   \* history: signals an exception has left pending, unseen
  arrivals,    \* bound: how often each signal has been raised
  sets,        \* bound: the assignments
  forks        \* bound: the forks

kernelVars == <<raised, blocked>>
perlVars == <<handler, pend, sigPending>>
bounds == <<arrivals, sets, forks>>
vars ==
  <<kernelVars, perlVars, frames, dying, ended, overflown, abandoned, bounds>>

-----------------------------------------------------------------------------
(* State.                                                                  *)

\* Of despatch_signals: looking at pend[at] ("scan"), having blocked `at'
\* ("blocked"), in its handler or in the LEAVE after it ("running").  Of
\* magic_setsig: having blocked `at', before ("set") and after ("checked")
\* its PERL_ASYNC_CHECK.
Phases == {"scan", "blocked", "running", "set", "checked"}

Frames ==
  [phase : Phases, at : 1 .. N + 1, unblock : BOOLEAN, sub : Dispositions,
   save : SUBSET Sigs, to : Dispositions]

Endings == {"no", "default", "handlerless", "died"}

TypeOK ==
  /\ raised \in SUBSET Sigs
  /\ blocked \in SUBSET Sigs
  /\ handler \in [Sigs -> Dispositions]
  /\ pend \in [Sigs -> Nat]
  /\ sigPending \in Nat
  /\ frames \in Seq(Frames)
  /\ dying \in BOOLEAN
  /\ ended \in Endings
  /\ overflown \in SUBSET Sigs
  /\ abandoned \in SUBSET Sigs
  /\ arrivals \in [Sigs -> Nat] /\ sets \in Nat /\ forks \in Nat

Init ==
  /\ raised = {}
  /\ blocked = {}
  /\ handler \in [Sigs -> Subs \cup {"none"}]
  /\ pend = [s \in Sigs |-> 0]
  /\ sigPending = 0
  /\ frames = <<>>
  /\ dying = FALSE
  /\ ended = "no"
  /\ overflown = {}
  /\ abandoned = {}
  /\ arrivals = [s \in Sigs |-> 0] /\ sets = 0 /\ forks = 0

Depth == Len(frames)
Top == frames[Depth]
InSetsig(f) == f.phase \in {"set", "checked"}
TopIs(phase) == frames # <<>> /\ Top.phase = phase
Push(f) == frames' = Append(frames, f)
Pop == frames' = SubSeq(frames, 1, Depth - 1)
Becomes(f) == frames' = [frames EXCEPT ![Depth] = f]

\* A loop of despatch_signals that has yet to look at pend[s].
Ahead(f, s) ==
  \/ f.phase \in {"scan", "blocked"} /\ f.at <= s
  \/ f.phase = "running" /\ f.at < s
LoopAhead(s) == \E k \in 1 .. Depth : Ahead(frames[k], s)

\* s is pending and nobody will look at it before another signal comes.
Stranded(s) == pend[s] > 0 /\ sigPending = 0 /\ ~LoopAhead(s)

\* The top of the stack is Perl code, and its ops are executed.
IsPerl == frames # <<>> => Top.phase = "running"
InPerl == IsPerl /\ ~dying

\* What LEAVE, or an exception, does to the mask when it removes the frame f.
RestoredAlways(f, mask) ==
  IF InSetsig(f) THEN f.save ELSE mask \ {f.at}
Restored(f, mask) ==
  IF InSetsig(f) THEN f.save
  ELSE IF f.unblock THEN mask \ {f.at} ELSE mask

-----------------------------------------------------------------------------
(* The kernel, and the C handler it calls.                                 *)

Raise(s) ==
  /\ arrivals[s] < MaxRaised
  /\ arrivals' = [arrivals EXCEPT ![s] = @ + 1]
  /\ raised' = raised \cup {s}
  /\ UNCHANGED <<blocked, perlVars, frames, dying, ended, overflown, abandoned,
                 sets, forks>>

Deliverable(s) == s \in raised \ blocked

\* csighandler3 counts the signals `new'.  Their C handlers interrupt each
\* other, so that increments of PL_sig_pending may be lost, but not all.
Catch(new) ==
  /\ new # {}
  /\ \A s \in new : Deliverable(s) /\ handler[s] \in Subs
  /\ raised' = raised \ new
  /\ pend' = [s \in Sigs |-> IF s \in new THEN pend[s] + 1 ELSE pend[s]]
  /\ \E n \in 1 .. Cardinality(new) :
       /\ sigPending + n < DieCount
       /\ sigPending' = sigPending + n
  /\ UNCHANGED <<blocked, handler, frames, dying, ended, overflown, abandoned, bounds>>

\* Without a handler the signal is ignored, or ends the process.
Default(s) ==
  /\ Deliverable(s)
  /\ handler[s] \notin Subs
  /\ raised' = raised \ {s}
  /\ ended' = IF s \in Fatal /\ handler[s] # "IGNORE" THEN "default" ELSE ended
  /\ UNCHANGED <<blocked, perlVars, frames, dying, overflown, abandoned, bounds>>

-----------------------------------------------------------------------------
(* Exceptions.                                                             *)

\* The frames an exception leaves that is thrown above the frame on top or
\* by its handler: this frame, and the assignment in which it was called.
Below ==
  IF Depth > 1 /\ InSetsig(frames[Depth - 1]) THEN Depth - 2 ELSE Depth - 1

\* The destructors that put the mask back.  A croak may come after
\* sigprocmask(SIG_BLOCK) and before SAVEDESTRUCTOR_X, or when leave_scope has
\* taken the destructor off and not called it: then it is lost.
Losable ==
  {k \in Below + 1 .. Depth : InSetsig(frames[k]) \/ frames[k].unblock}
SignalsOf(lost) == {frames[k].at : k \in lost}

Left(k, lost, mask) == IF k \in lost THEN mask ELSE Restored(frames[k], mask)

Unwind(lost, mask) ==
  /\ frames' = SubSeq(frames, 1, Below)
  /\ blocked' = LET inner == Left(Depth, lost, mask)
                IN  IF Below = Depth - 2 THEN Left(Depth - 1, lost, inner) ELSE inner

\* The exception reaches Perl code, whose eval catches it, or none does.
\* What is pending stays so, although loops may have been left.
Reaches(level) ==
  /\ abandoned' = abandoned \cup {s \in Sigs : Stranded(s)'}
  /\ dying' \in BOOLEAN
  /\ ended' = IF dying' /\ level = 0 THEN "died" ELSE ended

\* call_sv has caught the exception of a handler; perly_sighandler throws it
\* again, out of the loop of despatch_signals.  It may be that of a croak,
\* which came in the LEAVE of the handler or of another exception.
Dies ==
  /\ TopIs("running")
  /\ dying \/ Top.sub \in Mortal
  /\ UNCHANGED <<raised, perlVars, bounds>>
  /\ \E lost \in SUBSET Losable :
       /\ lost # {} => dying /\ sigPending >= DieCount
       /\ Unwind(lost, blocked)
       /\ overflown' = overflown \cup SignalsOf(lost)
  /\ Reaches(Below)

\* One signal too many: csighandler3 croaks, out of the C handlers of the
\* signals `new', which have interrupted each other.  Those that it came too
\* early for have not counted their signal.  The kernel has blocked all of
\* them, and the jump does not restore the mask.
Overflow(new) ==
  /\ new # {}
  /\ \A s \in new : Deliverable(s) /\ handler[s] \in Subs
  /\ raised' = raised \ new
  /\ \E counted \in SUBSET new :
       /\ pend' = [s \in Sigs |-> IF s \in counted THEN pend[s] + 1 ELSE pend[s]]
       /\ \E n \in 1 .. Cardinality(counted) :
            sigPending + n >= DieCount /\ sigPending' = sigPending + n
  /\ \/ /\ IsPerl
        /\ blocked' = blocked \cup new
        /\ overflown' = overflown \cup new
        /\ UNCHANGED frames
        /\ Reaches(Depth)
        /\ dying => dying'
     \/ /\ ~IsPerl
        /\ \E lost \in SUBSET Losable :
             /\ Unwind(lost, blocked \cup new)
             /\ overflown' = overflown \cup new \cup SignalsOf(lost)
        /\ Reaches(Below)
  /\ UNCHANGED <<handler, bounds>>

-----------------------------------------------------------------------------
(* despatch_signals.                                                       *)

Loop == [phase |-> "scan", at |-> 1, unblock |-> FALSE, sub |-> "none",
         save |-> {}, to |-> "none"]

\* PERL_ASYNC_CHECK between two ops.
AsyncCheck ==
  /\ InPerl
  /\ sigPending > 0
  /\ sigPending' = 0
  /\ Push(Loop)
  /\ UNCHANGED <<kernelVars, handler, pend, dying, ended, overflown, abandoned, bounds>>

InScan == TopIs("scan") /\ ~dying

\* Nothing is pending for the signal the loop is at.
Skip ==
  /\ InScan
  /\ Top.at <= N
  /\ pend[Top.at] = 0
  /\ Becomes([Top EXCEPT !.at = @ + 1])
  /\ UNCHANGED <<kernelVars, perlVars, dying, ended, overflown, abandoned, bounds>>

\* The mask while the handler of s runs.
Unmasked(s) == blocked
Masked(s) == blocked \cup {s}

\* SIG_BLOCK, with unblock_sigmask for the end unless it was blocked; until
\* SAVEDESTRUCTOR_X the destructor is among the Losable.
Block ==
  /\ InScan
  /\ Top.at <= N
  /\ pend[Top.at] > 0
  /\ blocked' = Masked(Top.at)
  /\ Becomes([Top EXCEPT !.phase = "blocked", !.unblock = Top.at \notin blocked])
  /\ UNCHANGED <<raised, perlVars, dying, ended, overflown, abandoned, bounds>>

NextAt(f) == [f EXCEPT !.phase = "scan", !.at = @ + 1, !.unblock = FALSE,
                       !.sub = "none"]

\* What is left of pend when the handler of s is called.
KeepsPending(s) == pend
Answered(s) == [pend EXCEPT ![s] = 0]

\* perly_sighandler calls the handler, now that the signal is not pending.
\* "IGNORE" and "DEFAULT" are no subs: it warns and returns.  Without any
\* entry in PL_psig_ptr the process exits.
Call ==
  /\ TopIs("blocked") /\ ~dying
  /\ LET s == Top.at
     IN  /\ pend' = Answered(s)
         /\ abandoned' = abandoned \ {s}
         /\ \/ /\ handler[s] \in Subs
               /\ Becomes([Top EXCEPT !.phase = "running", !.sub = handler[s]])
               /\ UNCHANGED <<blocked, ended>>
            \/ /\ handler[s] \in {"DEFAULT", "IGNORE"}
               /\ blocked' = Restored(Top, blocked)
               /\ Becomes(NextAt(Top))
               /\ UNCHANGED ended
            \/ /\ handler[s] = "none"
               /\ ended' = "handlerless"
               /\ UNCHANGED <<blocked, frames>>
  /\ UNCHANGED <<raised, handler, sigPending, dying, overflown, bounds>>

\* The handler returns; LEAVE.
Return ==
  /\ TopIs("running") /\ ~dying
  /\ blocked' = Restored(Top, blocked)
  /\ Becomes(NextAt(Top))
  /\ UNCHANGED <<raised, perlVars, dying, ended, overflown, abandoned, bounds>>

\* The loop is over.
ResetsAtEnd ==
  /\ InScan
  /\ Top.at = N + 1
  /\ Pop
  /\ sigPending' = 0
  /\ UNCHANGED <<kernelVars, handler, pend, dying, ended, overflown, abandoned, bounds>>
LoopEnds ==
  /\ InScan
  /\ Top.at = N + 1
  /\ Pop
  /\ UNCHANGED <<kernelVars, perlVars, dying, ended, overflown, abandoned, bounds>>

-----------------------------------------------------------------------------
(* magic_setsig and magic_clearsig.                                        *)

MayAssign == frames # <<>> => Top.sub \in Meddling

\* $SIG{s} = new, or delete $SIG{s} when new is "none".  The mask is saved and
\* s blocked; restore_sigmask, too, is Losable.
SetSig(s, new) ==
  /\ InPerl /\ MayAssign
  /\ sets < MaxSets
  /\ sets' = sets + 1
  /\ Push([Loop EXCEPT !.phase = "set", !.at = s, !.save = blocked, !.to = new])
  /\ blocked' = blocked \cup {s}
  /\ UNCHANGED <<raised, perlVars, dying, ended, overflown, abandoned,
                 arrivals, forks>>

\* Its PERL_ASYNC_CHECK.
NeverChecks ==
  /\ TopIs("set")
  /\ Becomes([Top EXCEPT !.phase = "checked"])
  /\ UNCHANGED <<kernelVars, perlVars, dying, ended, overflown, abandoned, bounds>>
SetChecks ==
  /\ TopIs("set")
  /\ LET checked == [frames EXCEPT ![Depth] = [Top EXCEPT !.phase = "checked"]]
     IN  frames' = IF sigPending > 0 THEN Append(checked, Loop) ELSE checked
  /\ sigPending' = 0
  /\ UNCHANGED <<kernelVars, handler, pend, dying, ended, overflown, abandoned, bounds>>

\* The new handler; a signal that is ignored is no longer raised; LEAVE.
Install ==
  /\ TopIs("checked")
  /\ handler' = [handler EXCEPT ![Top.at] = Top.to]
  /\ raised' = IF Top.to = "IGNORE" THEN raised \ {Top.at} ELSE raised
  /\ blocked' = Restored(Top, blocked)
  /\ Pop
  /\ UNCHANGED <<pend, sigPending, dying, ended, overflown, abandoned, bounds>>

-----------------------------------------------------------------------------
\* pp_fork, in the child: it has the stack and the mask of its parent.
Fork ==
  /\ InPerl
  /\ forks < MaxForks
  /\ forks' = forks + 1
  /\ sigPending' = 0
  /\ pend' = [s \in Sigs |-> 0]
  /\ raised' = {}
  /\ abandoned' = {}
  /\ UNCHANGED <<blocked, handler, frames, dying, ended, overflown,
                 arrivals, sets>>

Interpret ==
  \/ AsyncCheck \/ Skip \/ Block \/ Call \/ Return \/ LoopEnds
  \/ SetChecks \/ Install \/ Dies

Next ==
  /\ ended = "no"
  /\ \/ \E s \in Sigs : Raise(s) \/ Default(s)
     \/ \E new \in SUBSET Sigs : Catch(new) \/ Overflow(new)
     \/ \E s \in Sigs, new \in Dispositions : SetSig(s, new)
     \/ Interpret
     \/ Fork

Spec == Init /\ [][Next]_vars

\* Every op ends and every handler returns or dies.  Nobody has to raise a
\* signal, and the kernel may take its time to deliver one.
FairSpec == Spec /\ WF_vars(ended = "no" /\ Interpret)

-----------------------------------------------------------------------------
(* Properties.                                                             *)

Running(s) == {k \in 1 .. Depth : frames[k].phase = "running" /\ frames[k].at = s}

\* A handler is never called while it runs for the same signal, although
\* its own ops look for signals and it may assign to %SIG.
NoReentry == \A s \in Sigs : \A j, k \in Running(s) : j = k

\* A frame below k keeps s blocked.
HeldBelow(k, s) == \E j \in 1 .. k - 1 : frames[j].phase # "scan" /\ frames[j].at = s
Held(s) == HeldBelow(Depth + 1, s)

\* The mask is what the calls in progress make it: however they nest and
\* however they are left, none leaves a signal blocked or unblocks one
\* another call has blocked.  Only a croak of a C handler may leave signals
\* blocked: those whose C handlers it ends, and those whose destructors it
\* comes before or takes.
MaskBalanced ==
  \A s \in Sigs :
    /\ Held(s) => s \in blocked
    /\ s \in blocked => Held(s) \/ s \in overflown

\* A pending signal is stranded only by an exception, which leaves the loop
\* of despatch_signals: signals that come while the loop runs, whatever
\* their number, are seen.
StrandedOnlyByDeath == \A s \in Sigs : Stranded(s) => s \in abandoned

\* $SIG{s} changes while s is pending, so that s may meet a handler which was
\* not installed when it came, or none, only in a handler called by a loop
\* that has yet to look at s, or after an exception abandoned s.
ReplacedInTime ==
  [][\A s \in Sigs :
       handler'[s] # handler[s] /\ pend[s] > 0 => LoopAhead(s) \/ s \in abandoned]_vars

Loops == {k \in 1 .. Depth : ~InSetsig(frames[k])}

\* Signals do not pile handlers up, whatever their number: at most one call
\* for each signal is in progress, and one more loop.
LoopsBounded == Cardinality(Loops) <= N + 1

\* The interpreter keeps the promise of perlipc.
Promise == INSTANCE Deferred
  WITH owed <- {s \in Sigs : pend[s] > 0},
       active <- {s \in Sigs : Running(s) # {}},
       stopped <- ended # "no"
ImplementsDeferred == Promise!Spec

\* A pending signal is despatched, or the process ends, or an exception
\* abandons it.
PendingIsSeen ==
  \A s \in Sigs : pend[s] > 0 ~> (pend[s] = 0 \/ ended # "no" \/ s \in abandoned)

\* perlipc: the handler is called after the op completes.
PendingIsDespatched ==
  \A s \in Sigs : pend[s] > 0 ~> (pend[s] = 0 \/ ended # "no")

-----------------------------------------------------------------------------
(* The invariants behind the properties.                                   *)

\* Below the top a frame is in a handler, or in the PERL_ASYNC_CHECK of an
\* assignment; assignments are executed by Perl code.
StackShape ==
  \A k \in 1 .. Depth :
    /\ k < Depth =>
         \/ frames[k].phase = "running"
         \/ frames[k].phase = "checked" /\ ~InSetsig(frames[k + 1])
    /\ InSetsig(frames[k]) /\ k > 1 => frames[k - 1].phase = "running"
    /\ frames[k].phase # "scan" => frames[k].at \in Sigs

\* Exceptions travel from handler to handler.
DyingShape == dying => IF frames = <<>> THEN ended # "no" ELSE Top.phase = "running"

\* The signal of a running handler is not pending, that of a handler about
\* to be called is.
PendShape ==
  \A k \in 1 .. Depth :
    /\ frames[k].phase = "running" => pend[frames[k].at] = 0
    /\ frames[k].phase = "blocked" => pend[frames[k].at] > 0 \/ ended # "no"

\* A frame that is left restores what the frames below it have blocked.
MaskShape ==
  \A k \in 1 .. Depth :
    /\ InSetsig(frames[k]) =>
         \A s \in Sigs :
           /\ HeldBelow(k, s) => s \in frames[k].save
           /\ s \in frames[k].save => HeldBelow(k, s) \/ s \in overflown
    /\ frames[k].phase \in {"blocked", "running"} =>
         IF frames[k].unblock
         THEN ~HeldBelow(k, frames[k].at)
         ELSE HeldBelow(k, frames[k].at) \/ frames[k].at \in overflown
    /\ frames[k].phase = "scan" => ~frames[k].unblock

\* A signal that is pending after the check of an assignment to it: the loop
\* the check has begun will see it, or else one further down.
CheckedShape ==
  \A k \in 1 .. Depth :
    frames[k].phase = "checked" /\ pend[frames[k].at] > 0 =>
      IF k < Depth THEN Ahead(frames[k + 1], frames[k].at)
      ELSE LoopAhead(frames[k].at) \/ frames[k].at \in abandoned

SignalInv ==
  /\ TypeOK
  /\ StackShape
  /\ DyingShape
  /\ PendShape
  /\ NoReentry
  /\ MaskBalanced
  /\ MaskShape
  /\ StrandedOnlyByDeath
  /\ CheckedShape
=============================================================================
