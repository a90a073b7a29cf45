----------------------------- MODULE Mail_proofs -----------------------------
(* Proofs about the response mail, for any length of the mail and any pipe.  *)
EXTENDS Mail, TLAPS

USE DEF Parties, Died, Answered, Gone

\* The invariant holds at the beginning.
LEMMA InitInv == Init => MailInv
<1> SUFFICES ASSUME Init PROVE MailInv
  OBVIOUS
<1> USE SizeAssumption, CapacityAssumption DEF Init
<1>1. TypeOK
  <2>1. ignored \in BOOLEAN /\ checks \in BOOLEAN /\ errno \in BOOLEAN /\ failed \in BOOLEAN
    BY Zenon
  <2>2. unsent \in 0 .. Size /\ pipe \in 0 .. Capacity /\ got \in 0 .. Size
    OBVIOUS
  <2> QED
    BY <2>1, <2>2 DEF TypeOK
<1>2. EndsHeld
  BY DEF EndsHeld
<1>3. PartsKept
  BY DEF PartsKept
<1>4. InStep /\ Knows /\ CutOnlyByDeath /\ RefusedMailsNothing
  BY DEF InStep, Knows, CutOnlyByDeath, RefusedMailsNothing
<1> QED
  BY <1>1, <1>2, <1>3, <1>4 DEF MailInv

\* Fork keeps the invariant.
LEMMA ForkKeeps == MailInv /\ Fork => MailInv'
<1> SUFFICES ASSUME MailInv, Fork PROVE MailInv'
  OBVIOUS
<1> USE SizeAssumption, CapacityAssumption DEF MailInv, Fork, ends, mail
<1>1. TypeOK'
  BY DEF TypeOK, EndsHeld, PartsKept, InStep, Knows
<1>2. EndsHeld'
  BY DEF TypeOK, EndsHeld, InStep
<1>3. PartsKept'
  BY DEF TypeOK, PartsKept
<1>4. InStep'
  BY DEF TypeOK, EndsHeld, PartsKept, InStep, Knows, CutOnlyByDeath, RefusedMailsNothing
<1>5. Knows'
  BY DEF TypeOK, EndsHeld, PartsKept, InStep, Knows, CutOnlyByDeath, RefusedMailsNothing
<1>6. CutOnlyByDeath'
  BY DEF TypeOK, EndsHeld, PartsKept, InStep, Knows, CutOnlyByDeath, RefusedMailsNothing
<1>7. RefusedMailsNothing'
  BY DEF TypeOK, EndsHeld, PartsKept, InStep, Knows, CutOnlyByDeath, RefusedMailsNothing
<1> QED
  BY <1>1, <1>2, <1>3, <1>4, <1>5, <1>6, <1>7

\* ForkFails keeps the invariant.
LEMMA ForkFailsKeeps == MailInv /\ ForkFails => MailInv'
<1> SUFFICES ASSUME MailInv, ForkFails PROVE MailInv'
  OBVIOUS
<1> USE SizeAssumption, CapacityAssumption DEF MailInv, ForkFails, ends, mail
<1>1. TypeOK'
  BY DEF TypeOK, EndsHeld, PartsKept, InStep, Knows
<1>2. EndsHeld'
  BY DEF TypeOK, EndsHeld, InStep
<1>3. PartsKept'
  BY DEF TypeOK, PartsKept
<1>4. InStep'
  BY DEF TypeOK, EndsHeld, PartsKept, InStep, Knows, CutOnlyByDeath, RefusedMailsNothing
<1>5. Knows'
  BY DEF TypeOK, EndsHeld, PartsKept, InStep, Knows, CutOnlyByDeath, RefusedMailsNothing
<1>6. CutOnlyByDeath'
  BY DEF TypeOK, EndsHeld, PartsKept, InStep, Knows, CutOnlyByDeath, RefusedMailsNothing
<1>7. RefusedMailsNothing'
  BY DEF TypeOK, EndsHeld, PartsKept, InStep, Knows, CutOnlyByDeath, RefusedMailsNothing
<1> QED
  BY <1>1, <1>2, <1>3, <1>4, <1>5, <1>6, <1>7

\* ParentCloses keeps the invariant.
LEMMA ParentClosesKeeps == MailInv /\ ParentCloses => MailInv'
<1> SUFFICES ASSUME MailInv, ParentCloses PROVE MailInv'
  OBVIOUS
<1> USE SizeAssumption, CapacityAssumption DEF MailInv, ParentCloses, ends, mail
<1>1. TypeOK'
  BY DEF TypeOK, EndsHeld, PartsKept, InStep, Knows
<1>2. EndsHeld'
  BY DEF TypeOK, EndsHeld, InStep
<1>3. PartsKept'
  BY DEF TypeOK, PartsKept
<1>4. InStep'
  BY DEF TypeOK, EndsHeld, PartsKept, InStep, Knows, CutOnlyByDeath, RefusedMailsNothing
<1>5. Knows'
  BY DEF TypeOK, EndsHeld, PartsKept, InStep, Knows, CutOnlyByDeath, RefusedMailsNothing
<1>6. CutOnlyByDeath'
  BY DEF TypeOK, EndsHeld, PartsKept, InStep, Knows, CutOnlyByDeath, RefusedMailsNothing
<1>7. RefusedMailsNothing'
  BY DEF TypeOK, EndsHeld, PartsKept, InStep, Knows, CutOnlyByDeath, RefusedMailsNothing
<1> QED
  BY <1>1, <1>2, <1>3, <1>4, <1>5, <1>6, <1>7

\* ReadErrno keeps the invariant.
LEMMA ReadErrnoKeeps == MailInv /\ ReadErrno => MailInv'
<1> SUFFICES ASSUME MailInv, ReadErrno PROVE MailInv'
  OBVIOUS
<1> USE SizeAssumption, CapacityAssumption DEF MailInv, ReadErrno, ends, mail
<1>1. TypeOK'
  BY DEF TypeOK, EndsHeld, PartsKept, InStep, Knows
<1>2. EndsHeld'
  BY DEF TypeOK, EndsHeld, InStep
<1>3. PartsKept'
  BY DEF TypeOK, PartsKept
<1>4. InStep'
  BY DEF TypeOK, EndsHeld, PartsKept, InStep, Knows, CutOnlyByDeath, RefusedMailsNothing
<1>5. Knows'
  BY DEF TypeOK, EndsHeld, PartsKept, InStep, Knows, CutOnlyByDeath, RefusedMailsNothing
<1>6. CutOnlyByDeath'
  BY DEF TypeOK, EndsHeld, PartsKept, InStep, Knows, CutOnlyByDeath, RefusedMailsNothing
<1>7. RefusedMailsNothing'
  BY DEF TypeOK, EndsHeld, PartsKept, InStep, Knows, CutOnlyByDeath, RefusedMailsNothing
<1> QED
  BY <1>1, <1>2, <1>3, <1>4, <1>5, <1>6, <1>7

\* Write keeps the invariant.
LEMMA WriteKeeps == MailInv /\ Write => MailInv'
<1> SUFFICES ASSUME MailInv, Write PROVE MailInv'
  OBVIOUS
<1> USE SizeAssumption, CapacityAssumption DEF MailInv, Write, HasRoom, ends, mail
<1>1. TypeOK'
  BY DEF TypeOK, EndsHeld, PartsKept, InStep, Knows
<1>2. EndsHeld'
  BY DEF TypeOK, EndsHeld, InStep
<1>3. PartsKept'
  BY DEF TypeOK, PartsKept
<1>4. InStep'
  BY DEF TypeOK, EndsHeld, PartsKept, InStep, Knows, CutOnlyByDeath, RefusedMailsNothing
<1>5. Knows'
  BY DEF TypeOK, EndsHeld, PartsKept, InStep, Knows, CutOnlyByDeath, RefusedMailsNothing
<1>6. CutOnlyByDeath'
  BY DEF TypeOK, EndsHeld, PartsKept, InStep, Knows, CutOnlyByDeath, RefusedMailsNothing
<1>7. RefusedMailsNothing'
  BY DEF TypeOK, EndsHeld, PartsKept, InStep, Knows, CutOnlyByDeath, RefusedMailsNothing
<1> QED
  BY <1>1, <1>2, <1>3, <1>4, <1>5, <1>6, <1>7

\* BrokenPipe keeps the invariant.
LEMMA BrokenPipeKeeps == MailInv /\ BrokenPipe => MailInv'
<1> SUFFICES ASSUME MailInv, BrokenPipe PROVE MailInv'
  OBVIOUS
<1> USE SizeAssumption, CapacityAssumption DEF MailInv, BrokenPipe, Closes, ends, mail
<1>1. TypeOK'
  BY DEF TypeOK, EndsHeld, PartsKept, InStep, Knows
<1>2. EndsHeld'
  BY DEF TypeOK, EndsHeld, InStep
<1>3. PartsKept'
  BY DEF TypeOK, PartsKept
<1>4. InStep'
  BY DEF TypeOK, EndsHeld, PartsKept, InStep, Knows, CutOnlyByDeath, RefusedMailsNothing
<1>5. Knows'
  BY DEF TypeOK, EndsHeld, PartsKept, InStep, Knows, CutOnlyByDeath, RefusedMailsNothing
<1>6. CutOnlyByDeath'
  BY DEF TypeOK, EndsHeld, PartsKept, InStep, Knows, CutOnlyByDeath, RefusedMailsNothing
<1>7. RefusedMailsNothing'
  BY DEF TypeOK, EndsHeld, PartsKept, InStep, Knows, CutOnlyByDeath, RefusedMailsNothing
<1> QED
  BY <1>1, <1>2, <1>3, <1>4, <1>5, <1>6, <1>7

\* Close keeps the invariant.
LEMMA CloseKeeps == MailInv /\ Close => MailInv'
<1> SUFFICES ASSUME MailInv, Close PROVE MailInv'
  OBVIOUS
<1> USE SizeAssumption, CapacityAssumption DEF MailInv, Close, Flushed, ends, mail
<1>1. TypeOK'
  BY DEF TypeOK, EndsHeld, PartsKept, InStep, Knows
<1>2. EndsHeld'
  BY DEF TypeOK, EndsHeld, InStep
<1>3. PartsKept'
  BY DEF TypeOK, PartsKept
<1>4. InStep'
  BY DEF TypeOK, EndsHeld, PartsKept, InStep, Knows, CutOnlyByDeath, RefusedMailsNothing
<1>5. Knows'
  BY DEF TypeOK, EndsHeld, PartsKept, InStep, Knows, CutOnlyByDeath, RefusedMailsNothing
<1>6. CutOnlyByDeath'
  BY DEF TypeOK, EndsHeld, PartsKept, InStep, Knows, CutOnlyByDeath, RefusedMailsNothing
<1>7. RefusedMailsNothing'
  BY DEF TypeOK, EndsHeld, PartsKept, InStep, Knows, CutOnlyByDeath, RefusedMailsNothing
<1> QED
  BY <1>1, <1>2, <1>3, <1>4, <1>5, <1>6, <1>7

\* Reap keeps the invariant.
LEMMA ReapKeeps == MailInv /\ Reap => MailInv'
<1> SUFFICES ASSUME MailInv, Reap PROVE MailInv'
  OBVIOUS
<1> USE SizeAssumption, CapacityAssumption DEF MailInv, Reap, Succeeded, ends, mail
<1>1. TypeOK'
  BY DEF TypeOK, EndsHeld, PartsKept, InStep, Knows
<1>2. EndsHeld'
  BY DEF TypeOK, EndsHeld, InStep
<1>3. PartsKept'
  BY DEF TypeOK, PartsKept
<1>4. InStep'
  BY DEF TypeOK, EndsHeld, PartsKept, InStep, Knows, CutOnlyByDeath, RefusedMailsNothing
<1>5. Knows'
  BY DEF TypeOK, EndsHeld, PartsKept, InStep, Knows, CutOnlyByDeath, RefusedMailsNothing
<1>6. CutOnlyByDeath'
  BY DEF TypeOK, EndsHeld, PartsKept, InStep, Knows, CutOnlyByDeath, RefusedMailsNothing
<1>7. RefusedMailsNothing'
  BY DEF TypeOK, EndsHeld, PartsKept, InStep, Knows, CutOnlyByDeath, RefusedMailsNothing
<1> QED
  BY <1>1, <1>2, <1>3, <1>4, <1>5, <1>6, <1>7

\* ChildCloses keeps the invariant.
LEMMA ChildClosesKeeps == MailInv /\ ChildCloses => MailInv'
<1> SUFFICES ASSUME MailInv, ChildCloses PROVE MailInv'
  OBVIOUS
<1> USE SizeAssumption, CapacityAssumption DEF MailInv, ChildCloses, ends, mail
<1>1. TypeOK'
  BY DEF TypeOK, EndsHeld, PartsKept, InStep, Knows
<1>2. EndsHeld'
  BY DEF TypeOK, EndsHeld, InStep
<1>3. PartsKept'
  BY DEF TypeOK, PartsKept
<1>4. InStep'
  BY DEF TypeOK, EndsHeld, PartsKept, InStep, Knows, CutOnlyByDeath, RefusedMailsNothing
<1>5. Knows'
  BY DEF TypeOK, EndsHeld, PartsKept, InStep, Knows, CutOnlyByDeath, RefusedMailsNothing
<1>6. CutOnlyByDeath'
  BY DEF TypeOK, EndsHeld, PartsKept, InStep, Knows, CutOnlyByDeath, RefusedMailsNothing
<1>7. RefusedMailsNothing'
  BY DEF TypeOK, EndsHeld, PartsKept, InStep, Knows, CutOnlyByDeath, RefusedMailsNothing
<1> QED
  BY <1>1, <1>2, <1>3, <1>4, <1>5, <1>6, <1>7

\* Exec keeps the invariant.
LEMMA ExecKeeps == MailInv /\ Exec => MailInv'
<1> SUFFICES ASSUME MailInv, Exec PROVE MailInv'
  OBVIOUS
<1> USE SizeAssumption, CapacityAssumption DEF MailInv, Exec, ends, mail
<1>1. TypeOK'
  BY DEF TypeOK, EndsHeld, PartsKept, InStep, Knows
<1>2. EndsHeld'
  BY DEF TypeOK, EndsHeld, InStep
<1>3. PartsKept'
  BY DEF TypeOK, PartsKept
<1>4. InStep'
  BY DEF TypeOK, EndsHeld, PartsKept, InStep, Knows, CutOnlyByDeath, RefusedMailsNothing
<1>5. Knows'
  BY DEF TypeOK, EndsHeld, PartsKept, InStep, Knows, CutOnlyByDeath, RefusedMailsNothing
<1>6. CutOnlyByDeath'
  BY DEF TypeOK, EndsHeld, PartsKept, InStep, Knows, CutOnlyByDeath, RefusedMailsNothing
<1>7. RefusedMailsNothing'
  BY DEF TypeOK, EndsHeld, PartsKept, InStep, Knows, CutOnlyByDeath, RefusedMailsNothing
<1> QED
  BY <1>1, <1>2, <1>3, <1>4, <1>5, <1>6, <1>7

\* ExecFails keeps the invariant.
LEMMA ExecFailsKeeps == MailInv /\ ExecFails => MailInv'
<1> SUFFICES ASSUME MailInv, ExecFails PROVE MailInv'
  OBVIOUS
<1> USE SizeAssumption, CapacityAssumption DEF MailInv, ExecFails, ends, mail
<1>1. TypeOK'
  BY DEF TypeOK, EndsHeld, PartsKept, InStep, Knows
<1>2. EndsHeld'
  BY DEF TypeOK, EndsHeld, InStep
<1>3. PartsKept'
  BY DEF TypeOK, PartsKept
<1>4. InStep'
  BY DEF TypeOK, EndsHeld, PartsKept, InStep, Knows, CutOnlyByDeath, RefusedMailsNothing
<1>5. Knows'
  BY DEF TypeOK, EndsHeld, PartsKept, InStep, Knows, CutOnlyByDeath, RefusedMailsNothing
<1>6. CutOnlyByDeath'
  BY DEF TypeOK, EndsHeld, PartsKept, InStep, Knows, CutOnlyByDeath, RefusedMailsNothing
<1>7. RefusedMailsNothing'
  BY DEF TypeOK, EndsHeld, PartsKept, InStep, Knows, CutOnlyByDeath, RefusedMailsNothing
<1> QED
  BY <1>1, <1>2, <1>3, <1>4, <1>5, <1>6, <1>7

\* ReadMail keeps the invariant.
LEMMA ReadMailKeeps == MailInv /\ ReadMail => MailInv'
<1> SUFFICES ASSUME MailInv, ReadMail PROVE MailInv'
  OBVIOUS
<1> USE SizeAssumption, CapacityAssumption DEF MailInv, ReadMail, ends, mail
<1>1. TypeOK'
  BY DEF TypeOK, EndsHeld, PartsKept, InStep, Knows
<1>2. EndsHeld'
  BY DEF TypeOK, EndsHeld, InStep
<1>3. PartsKept'
  BY DEF TypeOK, PartsKept
<1>4. InStep'
  BY DEF TypeOK, EndsHeld, PartsKept, InStep, Knows, CutOnlyByDeath, RefusedMailsNothing
<1>5. Knows'
  BY DEF TypeOK, EndsHeld, PartsKept, InStep, Knows, CutOnlyByDeath, RefusedMailsNothing
<1>6. CutOnlyByDeath'
  BY DEF TypeOK, EndsHeld, PartsKept, InStep, Knows, CutOnlyByDeath, RefusedMailsNothing
<1>7. RefusedMailsNothing'
  BY DEF TypeOK, EndsHeld, PartsKept, InStep, Knows, CutOnlyByDeath, RefusedMailsNothing
<1> QED
  BY <1>1, <1>2, <1>3, <1>4, <1>5, <1>6, <1>7

\* QueueMail keeps the invariant.
LEMMA QueueMailKeeps == MailInv /\ QueueMail => MailInv'
<1> SUFFICES ASSUME MailInv, QueueMail PROVE MailInv'
  OBVIOUS
<1> USE SizeAssumption, CapacityAssumption DEF MailInv, QueueMail, ends, mail
<1>1. TypeOK'
  BY DEF TypeOK, EndsHeld, PartsKept, InStep, Knows
<1>2. EndsHeld'
  BY DEF TypeOK, EndsHeld, InStep
<1>3. PartsKept'
  BY DEF TypeOK, PartsKept
<1>4. InStep'
  BY DEF TypeOK, EndsHeld, PartsKept, InStep, Knows, CutOnlyByDeath, RefusedMailsNothing
<1>5. Knows'
  BY DEF TypeOK, EndsHeld, PartsKept, InStep, Knows, CutOnlyByDeath, RefusedMailsNothing
<1>6. CutOnlyByDeath'
  BY DEF TypeOK, EndsHeld, PartsKept, InStep, Knows, CutOnlyByDeath, RefusedMailsNothing
<1>7. RefusedMailsNothing'
  BY DEF TypeOK, EndsHeld, PartsKept, InStep, Knows, CutOnlyByDeath, RefusedMailsNothing
<1> QED
  BY <1>1, <1>2, <1>3, <1>4, <1>5, <1>6, <1>7

\* ExitOne keeps the invariant.
LEMMA ExitOneKeeps == MailInv /\ ExitOne => MailInv'
<1> SUFFICES ASSUME MailInv, ExitOne PROVE MailInv'
  OBVIOUS
<1> USE SizeAssumption, CapacityAssumption DEF MailInv, ExitOne, Ends, Closes, ends, mail
<1>1. TypeOK'
  BY DEF TypeOK, EndsHeld, PartsKept, InStep, Knows
<1>2. EndsHeld'
  BY DEF TypeOK, EndsHeld, InStep
<1>3. PartsKept'
  BY DEF TypeOK, PartsKept
<1>4. InStep'
  BY DEF TypeOK, EndsHeld, PartsKept, InStep, Knows, CutOnlyByDeath, RefusedMailsNothing
<1>5. Knows'
  BY DEF TypeOK, EndsHeld, PartsKept, InStep, Knows, CutOnlyByDeath, RefusedMailsNothing
<1>6. CutOnlyByDeath'
  BY DEF TypeOK, EndsHeld, PartsKept, InStep, Knows, CutOnlyByDeath, RefusedMailsNothing
<1>7. RefusedMailsNothing'
  BY DEF TypeOK, EndsHeld, PartsKept, InStep, Knows, CutOnlyByDeath, RefusedMailsNothing
<1> QED
  BY <1>1, <1>2, <1>3, <1>4, <1>5, <1>6, <1>7

\* ExitZero keeps the invariant.
LEMMA ExitZeroKeeps == MailInv /\ ExitZero => MailInv'
<1> SUFFICES ASSUME MailInv, ExitZero PROVE MailInv'
  OBVIOUS
<1> USE SizeAssumption, CapacityAssumption DEF MailInv, ExitZero, Ends, Closes, ends, mail
<1>1. TypeOK'
  BY DEF TypeOK, EndsHeld, PartsKept, InStep, Knows
<1>2. EndsHeld'
  BY DEF TypeOK, EndsHeld, InStep
<1>3. PartsKept'
  BY DEF TypeOK, PartsKept
<1>4. InStep'
  BY DEF TypeOK, EndsHeld, PartsKept, InStep, Knows, CutOnlyByDeath, RefusedMailsNothing
<1>5. Knows'
  BY DEF TypeOK, EndsHeld, PartsKept, InStep, Knows, CutOnlyByDeath, RefusedMailsNothing
<1>6. CutOnlyByDeath'
  BY DEF TypeOK, EndsHeld, PartsKept, InStep, Knows, CutOnlyByDeath, RefusedMailsNothing
<1>7. RefusedMailsNothing'
  BY DEF TypeOK, EndsHeld, PartsKept, InStep, Knows, CutOnlyByDeath, RefusedMailsNothing
<1> QED
  BY <1>1, <1>2, <1>3, <1>4, <1>5, <1>6, <1>7

\* KillChild keeps the invariant.
LEMMA KillChildKeeps == MailInv /\ KillChild => MailInv'
<1> SUFFICES ASSUME MailInv, KillChild PROVE MailInv'
  OBVIOUS
<1> USE SizeAssumption, CapacityAssumption DEF MailInv, KillChild, Ends, Closes, ends, mail
<1>1. TypeOK'
  BY DEF TypeOK, EndsHeld, PartsKept, InStep, Knows
<1>2. EndsHeld'
  BY DEF TypeOK, EndsHeld, InStep
<1>3. PartsKept'
  BY DEF TypeOK, PartsKept
<1>4. InStep'
  BY DEF TypeOK, EndsHeld, PartsKept, InStep, Knows, CutOnlyByDeath, RefusedMailsNothing
<1>5. Knows'
  BY DEF TypeOK, EndsHeld, PartsKept, InStep, Knows, CutOnlyByDeath, RefusedMailsNothing
<1>6. CutOnlyByDeath'
  BY DEF TypeOK, EndsHeld, PartsKept, InStep, Knows, CutOnlyByDeath, RefusedMailsNothing
<1>7. RefusedMailsNothing'
  BY DEF TypeOK, EndsHeld, PartsKept, InStep, Knows, CutOnlyByDeath, RefusedMailsNothing
<1> QED
  BY <1>1, <1>2, <1>3, <1>4, <1>5, <1>6, <1>7

\* Interrupted keeps the invariant.
LEMMA InterruptedKeeps == MailInv /\ Interrupted => MailInv'
<1> SUFFICES ASSUME MailInv, Interrupted PROVE MailInv'
  OBVIOUS
<1> USE SizeAssumption, CapacityAssumption DEF MailInv, Interrupted, ends, mail
<1>1. TypeOK'
  BY DEF TypeOK, EndsHeld, PartsKept, InStep, Knows
<1>2. EndsHeld'
  BY DEF TypeOK, EndsHeld, InStep
<1>3. PartsKept'
  BY DEF TypeOK, PartsKept
<1>4. InStep'
  BY DEF TypeOK, EndsHeld, PartsKept, InStep, Knows, CutOnlyByDeath, RefusedMailsNothing
<1>5. Knows'
  BY DEF TypeOK, EndsHeld, PartsKept, InStep, Knows, CutOnlyByDeath, RefusedMailsNothing
<1>6. CutOnlyByDeath'
  BY DEF TypeOK, EndsHeld, PartsKept, InStep, Knows, CutOnlyByDeath, RefusedMailsNothing
<1>7. RefusedMailsNothing'
  BY DEF TypeOK, EndsHeld, PartsKept, InStep, Knows, CutOnlyByDeath, RefusedMailsNothing
<1> QED
  BY <1>1, <1>2, <1>3, <1>4, <1>5, <1>6, <1>7

\* KillScript keeps the invariant.
LEMMA KillScriptKeeps == MailInv /\ KillScript => MailInv'
<1> SUFFICES ASSUME MailInv, KillScript PROVE MailInv'
  OBVIOUS
<1> USE SizeAssumption, CapacityAssumption DEF MailInv, KillScript, Closes, ends, mail
<1>1. TypeOK'
  BY DEF TypeOK, EndsHeld, PartsKept, InStep, Knows
<1>2. EndsHeld'
  BY DEF TypeOK, EndsHeld, InStep
<1>3. PartsKept'
  BY DEF TypeOK, PartsKept
<1>4. InStep'
  BY DEF TypeOK, EndsHeld, PartsKept, InStep, Knows, CutOnlyByDeath, RefusedMailsNothing
<1>5. Knows'
  BY DEF TypeOK, EndsHeld, PartsKept, InStep, Knows, CutOnlyByDeath, RefusedMailsNothing
<1>6. CutOnlyByDeath'
  BY DEF TypeOK, EndsHeld, PartsKept, InStep, Knows, CutOnlyByDeath, RefusedMailsNothing
<1>7. RefusedMailsNothing'
  BY DEF TypeOK, EndsHeld, PartsKept, InStep, Knows, CutOnlyByDeath, RefusedMailsNothing
<1> QED
  BY <1>1, <1>2, <1>3, <1>4, <1>5, <1>6, <1>7

\* Every step keeps the invariant.
LEMMA NextInv == MailInv /\ [Next]_vars => MailInv'
<1> SUFFICES ASSUME MailInv, [Next]_vars PROVE MailInv'
  OBVIOUS
<1>1. CASE Fork
  BY <1>1, ForkKeeps
<1>2. CASE ForkFails
  BY <1>2, ForkFailsKeeps
<1>3. CASE ParentCloses
  BY <1>3, ParentClosesKeeps
<1>4. CASE ReadErrno
  BY <1>4, ReadErrnoKeeps
<1>5. CASE Write
  BY <1>5, WriteKeeps
<1>6. CASE BrokenPipe
  BY <1>6, BrokenPipeKeeps
<1>7. CASE Close
  BY <1>7, CloseKeeps
<1>8. CASE Reap
  BY <1>8, ReapKeeps
<1>9. CASE ChildCloses
  BY <1>9, ChildClosesKeeps
<1>10. CASE Exec
  BY <1>10, ExecKeeps
<1>11. CASE ExecFails
  BY <1>11, ExecFailsKeeps
<1>12. CASE ReadMail
  BY <1>12, ReadMailKeeps
<1>13. CASE QueueMail
  BY <1>13, QueueMailKeeps
<1>14. CASE ExitOne
  BY <1>14, ExitOneKeeps
<1>15. CASE ExitZero
  BY <1>15, ExitZeroKeeps
<1>16. CASE KillChild
  BY <1>16, KillChildKeeps
<1>17. CASE KillScript
  BY <1>17, KillScriptKeeps
<1>18. CASE Interrupted
  BY <1>18, InterruptedKeeps
<1>19. CASE UNCHANGED vars
  BY <1>19
     DEF MailInv, TypeOK, EndsHeld, PartsKept, InStep, Knows, CutOnlyByDeath,
         RefusedMailsNothing, vars, ends, mail
<1> QED
  BY <1>1, <1>2, <1>3, <1>4, <1>5, <1>6, <1>7, <1>8, <1>9,
     <1>10, <1>11, <1>12, <1>13, <1>14, <1>15, <1>16, <1>17, <1>18, <1>19 DEF Next, ScriptStep, ChildStep

\* The inductive invariant: where the script and its child stand decides who
\* holds the pipes, where the mail is and what is known of it.
THEOREM Invariant == Spec => []MailInv
<1>1. QED
  BY InitInv, NextInv, PTL DEF Spec

\* Every reachable state is well typed; the pipe never holds too much.
THEOREM TypeCorrect == Spec => []TypeOK
<1>1. MailInv => TypeOK
  BY DEF MailInv
<1> QED
  BY <1>1, Invariant, PTL

\* The page means that the mail was taken over whole, or that sendmail was
\* killed (Geomail.pm:92, MIME::Lite's `$? >> 8').
THEOREM PageMeansMailedHolds == Spec => []PageMeansMailed
<1>1. MailInv => PageMeansMailed
  BY DEF MailInv, TypeOK, InStep, Knows, CutOnlyByDeath, PageMeansMailed
<1> QED
  BY <1>1, Invariant, PTL

\* A request that is refused has mailed nothing.
THEOREM RefusedMailsNothingHolds == Spec => []RefusedMailsNothing
<1>1. MailInv => RefusedMailsNothing
  BY DEF MailInv
<1> QED
  BY <1>1, Invariant, PTL

\* Only the death of the script lets sendmail take a part for the whole.
THEOREM CutOnlyByDeathHolds == Spec => []CutOnlyByDeath
<1>1. MailInv => CutOnlyByDeath
  BY DEF MailInv
<1> QED
  BY <1>1, Invariant, PTL

\* my_popen and my_pclose leave neither a child nor an open pipe behind.
THEOREM NothingLeftHolds == Spec => []NothingLeft
<1>1. MailInv => NothingLeft
  <2> SUFFICES ASSUME MailInv, script \in Answered
               PROVE  /\ child \in {"none", "reaped"}
                      /\ \A p \in Parties : p \notin writeEnd \cup readEnd \cup errEnd
    BY DEF MailInv, TypeOK, NothingLeft
  <2>1. child \in {"none", "reaped"}
    BY DEF MailInv, InStep
  <2>2. \A p \in Parties : p \notin writeEnd \cup readEnd \cup errEnd
    BY <2>1 DEF MailInv, EndsHeld
  <2> QED
    BY <2>1, <2>2
<1> QED
  BY <1>1, Invariant, PTL

\* The two never wait for each other: each has closed the ends of the pipes
\* that are the other's (my_popen, my_pclose), so a script that waits has a
\* child that goes on, and a sendmail that waits has a script that does.
THEOREM NeverBothWaitHolds == Spec => []NeverBothWait
<1>1. MailInv => NeverBothWait
  <2> SUFFICES ASSUME MailInv PROVE NeverBothWait
    OBVIOUS
  <2> USE DEF MailInv, EndsHeld, TypeOK
  <2>1. ASSUME script = "reading", errEnd # {}
        PROVE  child \in {"forked", "ready"}
    BY <2>1
  <2>2. ASSUME script = "printing", readEnd # {}, ~HasRoom
        PROVE  child \notin Gone \cup {"none"} /\ pipe # 0
    <3>1. "child" \in readEnd
      BY <2>2
    <3>2. pipe # 0
      BY <2>2, CapacityAssumption DEF HasRoom
    <3> QED
      BY <3>1, <3>2
  <2>3. ASSUME script \in {"waiting", "croaking"}, child # "zombie"
        PROVE  child \notin Gone \cup {"none"} /\ (child = "sendmail" => writeEnd = {})
    <3>1. child # "none" /\ child # "reaped"
      BY <2>3 DEF InStep
    <3>2. "script" \notin writeEnd
      BY <2>3
    <3>3. ASSUME child = "sendmail" PROVE "child" \notin writeEnd
      BY <3>3
    <3> QED
      BY <2>3, <3>1, <3>2, <3>3
  <2>4. ScriptWaits => child \notin Gone \cup {"none"} /\ ~SendmailWaits
    BY <2>1, <2>2, <2>3 DEF ScriptWaits, SendmailWaits
  <2>5. SendmailWaits => script \in {"forked", "reading", "printing"}
    BY DEF SendmailWaits
  <2> QED
    BY <2>4, <2>5 DEF NeverBothWait
<1> QED
  BY <1>1, Invariant, PTL

-----------------------------------------------------------------------------
(* The request has an end.                                                 *)

\* What is left to do is a number.
LEMMA LeftTypes ==
  ASSUME MailInv
  PROVE  /\ ScriptLeft \in Nat /\ ChildLeft \in Nat /\ ErrorLeft \in Nat /\ MailLeft \in Nat
         /\ StepsLeft \in Nat /\ StepsLeft <= 2 * Size + 13 + Capacity
<1>1. ScriptLeft \in 0 .. 6
  BY DEF MailInv, TypeOK, ScriptLeft
<1>2. ChildLeft \in 0 .. 6
  BY DEF MailInv, TypeOK, ChildLeft
<1>3. ErrorLeft \in 0 .. 1
  BY DEF ErrorLeft
<1>4. unsent \in 0 .. Size /\ pipe \in 0 .. Capacity
  BY DEF MailInv, TypeOK
<1>5. MailLeft \in Nat /\ MailLeft <= 2 * Size + Capacity + 1
  BY <1>3, <1>4, SizeAssumption, CapacityAssumption DEF MailLeft
<1> QED
  BY <1>1, <1>2, <1>3, <1>5, SizeAssumption, CapacityAssumption DEF StepsLeft

\* And so it is after a step.
AllLeft ==
  ScriptLeft \in Nat /\ ChildLeft \in Nat /\ ErrorLeft \in Nat /\ MailLeft \in Nat

LEMMA LeftIsNat == (MailInv => AllLeft) /\ (MailInv' => AllLeft')
<1>1. MailInv => AllLeft
  BY LeftTypes DEF AllLeft
<1>2. MailInv' => AllLeft'
  BY <1>1, PTL
<1> QED
  BY <1>1, <1>2

\* A sum is smaller when one part is and no part is greater.
LEMMA SmallerSum ==
  ASSUME NEW a \in Nat, NEW b \in Nat, NEW c \in Nat,
         NEW d \in Nat, NEW e \in Nat, NEW f \in Nat,
         d <= a, e <= b, f <= c, d < a \/ e < b \/ f < c
  PROVE  d + e + f < a + b + c
OBVIOUS

\* Every step, of the script, of the child or of whoever kills them, leaves
\* less to do.
LEMMA LeftDecreases ==
  ASSUME MailInv, MailInv', Next
  PROVE  StepsLeft' < StepsLeft
<1>0. /\ ScriptLeft \in Nat /\ ChildLeft \in Nat /\ ErrorLeft \in Nat /\ MailLeft \in Nat
      /\ ScriptLeft' \in Nat /\ ChildLeft' \in Nat /\ ErrorLeft' \in Nat /\ MailLeft' \in Nat
  BY LeftIsNat DEF AllLeft
<1>1. ASSUME UNCHANGED script PROVE ScriptLeft' = ScriptLeft
  BY <1>1 DEF ScriptLeft
<1>2. ASSUME UNCHANGED child PROVE ChildLeft' = ChildLeft
  BY <1>2 DEF ChildLeft
<1>3. ASSUME UNCHANGED mail PROVE MailLeft' = MailLeft
  BY <1>3 DEF MailLeft, ErrorLeft, mail
<1>4. ASSUME ScriptLeft' <= ScriptLeft, ChildLeft' <= ChildLeft, MailLeft' <= MailLeft,
             ScriptLeft' < ScriptLeft \/ ChildLeft' < ChildLeft \/ MailLeft' < MailLeft
      PROVE  StepsLeft' < StepsLeft
  BY <1>0, <1>4, SmallerSum DEF StepsLeft
<1>4a. /\ \A n \in Nat : n <= n
       /\ \A k, n \in Nat : k < n => k <= n
  OBVIOUS
<1>5. CASE Fork \/ ForkFails \/ ParentCloses \/ ReadErrno \/ Close \/ Interrupted \/ KillScript
  <2>1. ScriptLeft' < ScriptLeft
    BY <1>5 DEF ScriptLeft, Fork, ForkFails, ParentCloses, ReadErrno, Close, Interrupted,
                KillScript, MailInv, TypeOK
  <2>2. ChildLeft' <= ChildLeft
    <3>1. CASE Fork
      BY <3>1 DEF Fork, ChildLeft, MailInv, InStep
    <3>2. CASE UNCHANGED child
      BY <1>0, <1>2, <3>2
    <3> QED
      BY <1>5, <3>1, <3>2
         DEF ForkFails, ParentCloses, ReadErrno, Close, Interrupted, KillScript
  <2>3. MailLeft' = MailLeft
    BY <1>3, <1>5 DEF Fork, ForkFails, ParentCloses, ReadErrno, Close, Interrupted, KillScript
  <2> QED
    BY <1>0, <1>4, <1>4a, <2>1, <2>2, <2>3
<1>6. CASE ChildCloses \/ Exec \/ ExecFails \/ ExitOne \/ ExitZero \/ KillChild
  <2>1. ChildLeft' < ChildLeft
    BY <1>6 DEF ChildLeft, ChildCloses, Exec, ExecFails, ExitOne, ExitZero, KillChild, Ends,
                MailInv, TypeOK
  <2>2. ScriptLeft' = ScriptLeft /\ MailLeft' = MailLeft
    BY <1>1, <1>3, <1>6 DEF ChildCloses, Exec, ExecFails, ExitOne, ExitZero, KillChild
  <2> QED
    BY <1>0, <1>4, <1>4a, <2>1, <2>2
<1>7. CASE Reap
  <2>1. ScriptLeft' < ScriptLeft /\ ChildLeft' < ChildLeft
    BY <1>7 DEF Reap, ScriptLeft, ChildLeft
  <2>2. MailLeft' = MailLeft
    BY <1>3, <1>7 DEF Reap
  <2> QED
    BY <1>0, <1>4, <1>4a, <2>1, <2>2
<1>8. CASE QueueMail
  <2>1. ChildLeft' < ChildLeft /\ UNCHANGED script /\ MailLeft' = MailLeft
    BY <1>8 DEF QueueMail, ChildLeft, MailLeft, ErrorLeft
  <2> QED
    BY <1>0, <1>1, <1>4, <1>4a, <2>1
<1>9. CASE Write \/ ReadMail
  <2>1. MailLeft' < MailLeft
    <3>1. ErrorLeft' = ErrorLeft
      BY <1>9 DEF Write, ReadMail, ErrorLeft
    <3>2. \/ unsent' = unsent - 1 /\ pipe' = pipe + 1
          \/ unsent' = unsent /\ pipe' = pipe - 1
      BY <1>9 DEF Write, ReadMail
    <3>3. unsent \in Nat /\ pipe \in Nat
      BY DEF MailInv, TypeOK
    <3> QED
      BY <1>0, <3>1, <3>2, <3>3 DEF MailLeft
  <2>2. UNCHANGED script /\ UNCHANGED child
    BY <1>9 DEF Write, ReadMail
  <2>3. ScriptLeft' = ScriptLeft /\ ChildLeft' = ChildLeft
    BY <1>1, <1>2, <2>2
  <2> QED
    BY <1>0, <1>4, <1>4a, <2>1, <2>3
<1>10. CASE BrokenPipe
  <2>1. /\ UNCHANGED child
        /\ \/ UNCHANGED script /\ MailLeft' < MailLeft
           \/ ScriptLeft' < ScriptLeft /\ MailLeft' = MailLeft
    BY <1>10 DEF BrokenPipe, ScriptLeft, ErrorLeft, MailLeft, MailInv, TypeOK
  <2>2. ChildLeft' = ChildLeft /\ (UNCHANGED script => ScriptLeft' = ScriptLeft)
    BY <1>1, <1>2, <2>1
  <2> QED
    BY <1>0, <1>4, <1>4a, <2>1, <2>2
<1> QED
  BY <1>5, <1>6, <1>7, <1>8, <1>9, <1>10 DEF Next, ScriptStep, ChildStep

\* No request goes on for ever, however long the mail, whoever is killed and
\* whatever fails: each step brings down a number that starts below
\* 2 * Size + Capacity + 14.
THEOREM EveryStepCounts ==
  Spec => /\ [](StepsLeft \in Nat /\ StepsLeft <= 2 * Size + 13 + Capacity)
          /\ [][StepsLeft' < StepsLeft]_vars
<1>1. MailInv => StepsLeft \in Nat /\ StepsLeft <= 2 * Size + 13 + Capacity
  BY LeftTypes
<1>2. MailInv /\ MailInv' /\ [Next]_vars => [StepsLeft' < StepsLeft]_vars
  BY LeftDecreases
<1> QED
  BY <1>1, <1>2, Invariant, PTL DEF Spec
=============================================================================
