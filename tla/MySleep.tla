------------------------------- MODULE MySleep -------------------------------
(***************************************************************************)
(* mysleep/mysleep.c: sleep by alarm and sigsuspend.  The alarm may go off   *)
(* at any moment after alarm(), because the process may be held up for        *)
(* longer than the second it asked for; SIGALRM is blocked until then.        *)
(***************************************************************************)

VARIABLES
    next,      \* the call that mysleep makes next; "asleep" inside sigsuspend,
               \* "killed" by a SIGALRM that met the default action
    blocked,   \* whether SIGALRM is in the signal mask
    handler,   \* whether sigrun is installed
    alarm,     \* whether the alarm is set
    pending    \* whether a SIGALRM waits

sleepVars == <<next, blocked, handler, alarm, pending>>

SleepInit ==
    /\ next = "block"
    /\ blocked = FALSE
    /\ handler = FALSE
    /\ alarm = FALSE
    /\ pending = FALSE

-----------------------------------------------------------------------------

\* sigprocmask(SIG_BLOCK, &sig, &osig); main blocks nothing, so osig is empty
Block ==
    /\ next = "block" /\ next' = "handle"
    /\ blocked' = TRUE
    /\ UNCHANGED <<handler, alarm, pending>>

Handle ==
    /\ next = "handle" /\ next' = "alarm"
    /\ handler' = TRUE
    /\ UNCHANGED <<blocked, alarm, pending>>

Alarm ==
    /\ next = "alarm" /\ next' = "suspend"
    /\ alarm' = TRUE
    /\ UNCHANGED <<blocked, handler, pending>>

\* fault variant: pause(), which the source has commented out, behind an unblock
Suspend_Pause ==
    /\ next = "suspend"
    /\ next' = "asleep"
    /\ pending' = FALSE
    /\ UNCHANGED <<blocked, handler, alarm>>

\* sigsuspend(&osig): unblocks and sleeps in one step; a signal that waits is
\* handled at once, and sigsuspend returns
Suspend ==
    /\ next = "suspend"
    /\ next' = IF pending THEN "cancel" ELSE "asleep"
    /\ pending' = FALSE
    /\ UNCHANGED <<blocked, handler, alarm>>

\* The alarm (external): the handler ends the sleep, a blocked signal waits, and
\* the default action kills
GoesOff ==
    /\ alarm
    /\ alarm' = FALSE
    /\ \/ /\ next = "asleep"
          /\ next' = IF handler THEN "cancel" ELSE "killed"
          /\ UNCHANGED pending
       \/ /\ next # "asleep" /\ blocked
          /\ pending' = TRUE
          /\ UNCHANGED next
    /\ UNCHANGED <<blocked, handler>>

\* alarm(0)
Cancel ==
    /\ next = "cancel" /\ next' = "default"
    /\ alarm' = FALSE
    /\ UNCHANGED <<blocked, handler, pending>>

Default ==
    /\ next = "default" /\ next' = "restore"
    /\ handler' = FALSE
    /\ UNCHANGED <<blocked, alarm, pending>>

\* sigprocmask(SIG_SETMASK, &osig, NULL); a signal that still waits would kill
Restore ==
    /\ next = "restore"
    /\ next' = IF pending THEN "killed" ELSE "block"
    /\ blocked' = FALSE
    /\ pending' = FALSE
    /\ UNCHANGED <<handler, alarm>>

Sleeper == Block \/ Handle \/ Alarm \/ Suspend \/ Cancel \/ Default \/ Restore
SleepNext == Sleeper \/ GoesOff

\* The process goes on, and a set alarm goes off
SleepFairness == WF_sleepVars(Sleeper) /\ WF_sleepVars(GoesOff)

-----------------------------------------------------------------------------
(* Properties *)

\* Types.
SleepTypeOK ==
    /\ next \in {"block", "handle", "alarm", "suspend", "asleep", "cancel",
                 "default", "restore", "killed"}
    /\ {blocked, handler, alarm, pending} \subseteq BOOLEAN

\* Every call of mysleep returns, however early the alarm goes off: it is neither
\* missed nor does it kill the process.
SleepEnds == next = "alarm" ~> next = "block"
=============================================================================
