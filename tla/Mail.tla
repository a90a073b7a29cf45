--------------------------------- MODULE Mail ---------------------------------
(***************************************************************************)
(* The mail that www/r sends while Geomail.pm is loaded: the script, the   *)
(* child it forks, which becomes sendmail, and the two pipes between them. *)
(* MIME::Lite opens "|/usr/sbin/sendmail", prints the mail and closes the  *)
(* pipe; below it are my_popen and my_pclose of Perl's util.c.  One pipe   *)
(* carries the mail; by the other one, which exec closes, the child tells  *)
(* the script that exec has failed.                                        *)
(*                                                                         *)
(* One request is modelled.  Requests share nothing but sendmail's queue,  *)
(* and a visitor who reloads the page makes another one.  The one mail of  *)
(* Geomail.pm fits a buffer of PerlIO, which the close writes: a Size of 1 *)
(* is that mail, a larger one is any other that is sent in the same way.   *)
(***************************************************************************)
EXTENDS Naturals

CONSTANTS
  Size,     \* the mail, in buffers of PerlIO
  Capacity  \* what the pipe holds

ASSUME SizeAssumption == Size \in Nat \ {0}
ASSUME CapacityAssumption == Capacity \in Nat \ {0}

VARIABLES
  script,    \* where the script is
  child,     \* where its child is
  how,       \* how the child has ended: the status that wait will return
  ignored,   \* the web server has left SIGPIPE ignored
  checks,    \* did_pipes: there is a pipe for the errno of a failed exec
  writeEnd,  \* who holds the writing end of the mail's pipe,
  readEnd,   \* its reading end,
  errEnd,    \* and the writing end of the pipe for errno
  errno,     \* the child has written errno
  unsent, pipe, got,  \* the mail: in the script, in the pipe, read by sendmail
  failed,    \* PERLIO_F_ERROR: a write has failed
  queued     \* what sendmail has taken over: "no", "cut" or "whole"

ends == <<writeEnd, readEnd, errEnd>>
mail == <<unsent, pipe, got, failed, queued>>
vars == <<script, child, how, ignored, checks, ends, errno, mail>>

Parties == {"script", "child"}
Died == {"killed", "sigpipe"}
Answered == {"page", "refused", "croaked"}
Gone == {"zombie", "reaped"}

TypeOK ==
  /\ script \in {"start", "forked", "reading", "printing", "waiting", "croaking"}
                  \cup Died \cup Answered
  /\ child \in {"none", "forked", "ready", "failing", "sendmail", "queued"} \cup Gone
  /\ how \in {"running", "zero", "error", "signal"}
  /\ ignored \in BOOLEAN /\ checks \in BOOLEAN /\ errno \in BOOLEAN /\ failed \in BOOLEAN
  /\ writeEnd \in SUBSET Parties /\ readEnd \in SUBSET Parties /\ errEnd \in SUBSET Parties
  /\ unsent \in 0 .. Size /\ pipe \in 0 .. Capacity /\ got \in 0 .. Size
  /\ queued \in {"no", "cut", "whole"}

Init ==
  /\ script = "start"
  /\ child = "none"
  /\ how = "running"
  /\ ignored \in BOOLEAN /\ checks \in BOOLEAN
  /\ writeEnd = {} /\ readEnd = {} /\ errEnd = {}
  /\ errno = FALSE /\ failed = FALSE
  /\ unsent = Size /\ pipe = 0 /\ got = 0
  /\ queued = "no"

\* A process that ends closes what it holds.
Closes(who) ==
  /\ writeEnd' = writeEnd \ {who}
  /\ readEnd' = readEnd \ {who}
  /\ errEnd' = errEnd \ {who}

-----------------------------------------------------------------------------
(* my_popen.                                                               *)

\* Both ends of both pipes are there twice now.  A fork that fails for want
\* of processes is tried again, five seconds later.
Fork ==
  /\ script = "start"
  /\ script' = "forked"
  /\ child' = "forked"
  /\ writeEnd' = Parties /\ readEnd' = Parties
  /\ errEnd' = IF checks THEN Parties ELSE {}
  /\ UNCHANGED <<how, ignored, checks, errno, mail>>

\* No pipe, or no child: open fails, and MIME::Lite croaks.
ForkFails ==
  /\ script = "start"
  /\ script' = "croaked"
  /\ UNCHANGED <<child, how, ignored, checks, ends, errno, mail>>

\* The script closes the ends that are the child's.
ParentKeepsErrno ==
  /\ script = "forked"
  /\ script' = IF checks THEN "reading" ELSE "printing"
  /\ readEnd' = readEnd \ {"script"}
  /\ UNCHANGED <<child, how, ignored, checks, writeEnd, errEnd, errno, mail>>
ParentCloses ==
  /\ script = "forked"
  /\ script' = IF checks THEN "reading" ELSE "printing"
  /\ readEnd' = readEnd \ {"script"}
  /\ errEnd' = errEnd \ {"script"}
  /\ UNCHANGED <<child, how, ignored, checks, writeEnd, errno, mail>>

\* The script reads the errno of exec, and closes the pipe of the mail; or
\* it reads the end of file that a successful exec, or a death, has caused.
CroaksAtOnce ==
  /\ script = "reading"
  /\ errno \/ errEnd = {}
  /\ script' = IF errno THEN "croaked" ELSE "printing"
  /\ writeEnd' = IF errno THEN writeEnd \ {"script"} ELSE writeEnd
  /\ UNCHANGED <<child, how, ignored, checks, readEnd, errEnd, errno, mail>>
ReadErrno ==
  /\ script = "reading"
  /\ errno \/ errEnd = {}
  /\ script' = IF errno THEN "croaking" ELSE "printing"
  /\ writeEnd' = IF errno THEN writeEnd \ {"script"} ELSE writeEnd
  /\ UNCHANGED <<child, how, ignored, checks, readEnd, errEnd, errno, mail>>

\* A signal with a handler interrupts the read, and the loop takes the error
\* for the end of file: whether exec has failed is not known now.
Interrupted ==
  /\ script = "reading"
  /\ script' = "printing"
  /\ UNCHANGED <<child, how, ignored, checks, ends, errno, mail>>

\* The child closes the end that is the script's.
ChildCloses ==
  /\ child = "forked"
  /\ child' = "ready"
  /\ writeEnd' = writeEnd \ {"child"}
  /\ UNCHANGED <<script, how, ignored, checks, readEnd, errEnd, errno, mail>>

Exec ==
  /\ child = "ready"
  /\ child' = "sendmail"
  /\ errEnd' = errEnd \ {"child"}
  /\ UNCHANGED <<script, how, ignored, checks, writeEnd, readEnd, errno, mail>>

ExecFails ==
  /\ child = "ready"
  /\ child' = "failing"
  /\ errno' = checks
  /\ errEnd' = errEnd \ {"child"}
  /\ UNCHANGED <<script, how, ignored, checks, writeEnd, readEnd, mail>>

-----------------------------------------------------------------------------
(* print, close and the answer.                                            *)

HasRoom == pipe < Capacity

\* PerlIO hands a buffer to the pipe.
Write ==
  /\ script = "printing" /\ ~failed
  /\ unsent > 0 /\ readEnd # {} /\ HasRoom
  /\ unsent' = unsent - 1
  /\ pipe' = pipe + 1
  /\ UNCHANGED <<script, child, how, ignored, checks, ends, errno, got, failed, queued>>

\* Nobody will read it: the signal ends the script, or else the error stays
\* with the handle, as every later write fails too.
BrokenPipe ==
  /\ script = "printing" /\ ~failed
  /\ unsent > 0 /\ readEnd = {}
  /\ \/ /\ ignored
        /\ failed' = TRUE
        /\ UNCHANGED <<script, ends>>
     \/ /\ ~ignored
        /\ script' = "sigpipe"
        /\ Closes("script")
        /\ UNCHANGED failed
  /\ UNCHANGED <<child, how, ignored, checks, errno, unsent, pipe, got, queued>>

\* PerlIO_close of my_pclose, once everything is written, or cannot be.
FlushedOrNot == unsent >= 0
Flushed == unsent = 0 \/ failed
WaitsFirst ==
  /\ script = "printing"
  /\ Flushed
  /\ script' = "waiting"
  /\ UNCHANGED <<child, how, ignored, checks, ends, errno, mail>>
Close ==
  /\ script = "printing"
  /\ Flushed
  /\ script' = "waiting"
  /\ writeEnd' = writeEnd \ {"script"}
  /\ UNCHANGED <<child, how, ignored, checks, readEnd, errEnd, errno, mail>>

\* send_by_sendmail: ($? >> 8) ? undef : 1, where $? is -1 when the close has
\* failed, and else the status of the child.
StatusIsZero == ~failed /\ how = "zero"
AnyStatus == ~failed
Succeeded == ~failed /\ how # "error"

\* wait4pid, again and again while signals interrupt it.  Geomail.pm ends with
\* the value of send_respond_mail, and require dies unless it is true.
Reap ==
  /\ script \in {"waiting", "croaking"}
  /\ child = "zombie"
  /\ child' = "reaped"
  /\ script' = IF script = "croaking" THEN "croaked"
               ELSE IF Succeeded THEN "page" ELSE "refused"
  /\ UNCHANGED <<how, ignored, checks, ends, errno, mail>>

-----------------------------------------------------------------------------
(* sendmail -t -oi -oem, which is not in the repository, and death.        *)

Ends(status) ==
  /\ child' = "zombie"
  /\ how' = status
  /\ Closes("child")

ReadMail ==
  /\ child = "sendmail" /\ pipe > 0
  /\ pipe' = pipe - 1
  /\ got' = got + 1
  /\ UNCHANGED <<script, child, how, ignored, checks, ends, errno, unsent, failed, queued>>

\* The end of file is the end of the mail.
QueueMail ==
  /\ child = "sendmail" /\ pipe = 0 /\ writeEnd = {} /\ got > 0
  /\ child' = "queued"
  /\ queued' = IF got = Size THEN "whole" ELSE "cut"
  /\ UNCHANGED <<script, how, ignored, checks, ends, errno, unsent, pipe, got, failed>>

\* _exit(1) after exec has failed, or sendmail: it may reject a mail any time
\* until it has queued it.
ExitOne ==
  /\ child \in {"failing", "sendmail"}
  /\ Ends("error")
  /\ UNCHANGED <<script, ignored, checks, errno, mail>>

ExitZero ==
  /\ child = "queued"
  /\ Ends("zero")
  /\ UNCHANGED <<script, ignored, checks, errno, mail>>

KillChild ==
  /\ child \notin Gone \cup {"none"}
  /\ Ends("signal")
  /\ UNCHANGED <<script, ignored, checks, errno, mail>>

KillScript ==
  /\ script \notin Died \cup Answered
  /\ script' = "killed"
  /\ Closes("script")
  /\ UNCHANGED <<child, how, ignored, checks, errno, mail>>

ScriptStep ==
  \/ Fork \/ ForkFails \/ ParentCloses \/ ReadErrno
  \/ Write \/ BrokenPipe \/ Close \/ Reap
ChildStep ==
  \/ ChildCloses \/ Exec \/ ExecFails \/ ReadMail \/ QueueMail \/ ExitOne \/ ExitZero

Next == ScriptStep \/ ChildStep \/ Interrupted \/ KillChild \/ KillScript
Spec == Init /\ [][Next]_vars

\* Both processes run, sendmail does not hang, and a fork that is tried again
\* while there are too many processes succeeds or fails in the end (nothing
\* in my_popen limits that).  Nobody has to be killed.
FairSpec == Spec /\ WF_vars(ScriptStep) /\ WF_vars(ChildStep)

-----------------------------------------------------------------------------
(* Properties.                                                             *)

\* The page is shown only when sendmail has taken over the whole mail, or
\* was killed: of all failures, `$? >> 8' hides this one.
PageMeansMailed == script = "page" => queued = "whole" \/ how = "signal"

\* A request that is refused has mailed nothing, so that repeating it does
\* not mail twice.
RefusedMailsNothing == script \in {"refused", "croaked", "sigpipe"} => queued = "no"

\* sendmail takes the end of file for the end of the mail.  A mail that is
\* cut off, which is delivered all the same, is one whose script was killed,
\* and takes more than one buffer.
CutOnlyByDeath == queued = "cut" => script = "killed" /\ Size > 1

\* A script that goes on has waited for its child and closed every pipe.
NothingLeft ==
  script \in Answered =>
    child \in {"none", "reaped"} /\ writeEnd = {} /\ readEnd = {} /\ errEnd = {}

\* The script waits for the result of exec, for room in the pipe, or for the
\* end of its child; sendmail waits for what may still be written.
ScriptWaits ==
  \/ script = "reading" /\ ~errno /\ errEnd # {}
  \/ script = "printing" /\ ~Flushed /\ readEnd # {} /\ ~HasRoom
  \/ script \in {"waiting", "croaking"} /\ child # "zombie"
SendmailWaits == child = "sendmail" /\ pipe = 0 /\ writeEnd # {}

\* Neither waits for one that has gone, and they never wait for each other:
\* each has closed the ends that would keep the other waiting.
NeverBothWait ==
  /\ ScriptWaits => child \notin Gone \cup {"none"} /\ ~SendmailWaits
  /\ SendmailWaits => script \notin Died \cup Answered

\* Neither waits for the other for ever: the request ends, and so does the
\* child, orphan or not.
RequestEnds ==
  /\ <>(script \in Died \cup Answered)
  /\ child # "none" ~> child \in Gone

-----------------------------------------------------------------------------
(* The invariants behind the properties.                                   *)

\* Who holds which end follows from where the two are.
EndsHeld ==
  /\ "script" \in writeEnd => script \in {"forked", "reading", "printing"}
  /\ "script" \in readEnd => script = "forked"
  /\ "script" \in errEnd => script = "forked"
  /\ script \in {"forked", "reading", "printing"} => "script" \in writeEnd
  /\ "child" \in writeEnd => child = "forked"
  /\ "child" \in errEnd => child \in {"forked", "ready"}
  /\ child \notin Gone \cup {"none"} <=> "child" \in readEnd

\* A part of the mail is in one place, and does not get lost.
PartsKept == unsent + pipe + got = Size

\* How far the two have come with each other.
InStep ==
  /\ child = "none" => script \in {"start", "croaked", "killed"} /\ queued = "no"
  /\ script = "start" => child = "none"
  /\ script \in {"croaked", "refused", "page"} => child \in {"none", "reaped"}
  /\ script = "page" => child = "reaped"
  /\ child = "reaped" => script \in Answered
  /\ script = "croaking" => errno
  /\ errno => child \in {"failing"} \cup Gone /\ how \in {"running", "error", "signal"} /\ queued = "no"
  /\ child \in Gone <=> how # "running"
  /\ child \in {"none", "forked", "ready", "failing", "sendmail"} => queued = "no"

\* What is known of the mail.
Knows ==
  /\ script \in {"waiting", "page"} /\ ~failed => unsent = 0
  /\ failed => ignored /\ script \notin {"start", "forked", "reading", "croaking", "croaked", "page", "sigpipe"}
  /\ failed \/ script = "sigpipe" => unsent > 0 /\ child \in Gone /\ queued = "no"
  /\ script = "page" => how # "error"
  /\ script = "refused" => failed \/ how = "error"
  /\ queued = "whole" => unsent = 0
  /\ how = "zero" \/ child = "queued" => queued # "no"
  /\ how = "error" => queued = "no"

\* What is left to do: every step makes it less.
ScriptLeft ==
  [start |-> 6, forked |-> 5, reading |-> 4, printing |-> 3, waiting |-> 2, croaking |-> 2,
   killed |-> 0, sigpipe |-> 0, page |-> 0, refused |-> 0, croaked |-> 0][script]
ChildLeft ==
  [none |-> 6, forked |-> 5, ready |-> 4, failing |-> 3, sendmail |-> 3, queued |-> 2,
   zombie |-> 1, reaped |-> 0][child]
ErrorLeft == IF failed THEN 0 ELSE 1
MailLeft == 2 * unsent + pipe + ErrorLeft
StepsLeft == ScriptLeft + ChildLeft + MailLeft

MailInv ==
  /\ TypeOK
  /\ EndsHeld
  /\ PartsKept
  /\ InStep
  /\ Knows
  /\ CutOnlyByDeath
  /\ RefusedMailsNothing
=============================================================================
