------------------------------ MODULE Semaphore ------------------------------
(***************************************************************************)
(* sem/comm.c and the program sem/test_sem.c, started any number of times:   *)
(* create a set of one semaphore, set it to 1, take it, and exit while it is *)
(* taken.  V and destorySem are never reached: the value comes back because  *)
(* of SEM_UNDO, and the set stays, so that no later start gets beyond         *)
(* creatSem until somebody removes the set by hand.                          *)
(***************************************************************************)
EXTENDS Integers, FiniteSets

CONSTANTS
    Starts,    \* starts of the program, each a process
    Removals   \* bound: how often the set is removed by hand (ipcrm)

VARIABLES
    set,       \* number of the set that exists; 0 if there is none
    sets,      \* how many sets there have been
    value,     \* the value of the semaphore in it
    ready,     \* whether SETVAL was done on it
    undo,      \* what the kernel gives back when a process ends
    step,      \* where each process is
    semid      \* its local variable semid

semVars == <<set, sets, value, ready, undo, step, semid>>

SemInit ==
    /\ set = 0
    /\ sets = 0
    /\ value = 0
    /\ ready = FALSE
    /\ undo = [p \in Starts |-> 0]
    /\ step = [p \in Starts |-> "creat"]
    /\ semid = [p \in Starts |-> 0]

Goto(p, s) == step' = [step EXCEPT ![p] = s]
NoUndo == [p \in Starts |-> 0]
\* Whether semid still names a set
Valid(p) == set # 0 /\ semid[p] = set

-----------------------------------------------------------------------------

\* semget makes a set, whose value is 0 at first
NewSet(p) ==
    /\ set = 0
    /\ set' = sets + 1
    /\ sets' = sets + 1
    /\ value' = 0
    /\ ready' = FALSE
    /\ semid' = [semid EXCEPT ![p] = sets + 1]
    /\ Goto(p, "init")

\* fault variant: without IPC_EXCL a start uses the set that is there, and sets it
\* to 1 as well
Creat_Shares(p) ==
    /\ step[p] = "creat"
    /\ \/ NewSet(p)
       \/ /\ set # 0
          /\ semid' = [semid EXCEPT ![p] = set]
          /\ Goto(p, "init")
          /\ UNCHANGED <<set, sets, value, ready>>
    /\ UNCHANGED undo

\* creatSem: IPC_CREAT | IPC_EXCL; if there is a set already, main returns -1
Creat(p) ==
    /\ step[p] = "creat"
    /\ \/ NewSet(p)
       \/ /\ set # 0
          /\ Goto(p, "over")
          /\ UNCHANGED <<set, sets, value, ready, semid>>
    /\ UNCHANGED undo

\* initSem: SETVAL 1, which also takes back all undos; main returns -2 if it fails
Set(p) ==
    /\ step[p] = "init"
    /\ \/ /\ Valid(p)
          /\ value' = 1
          /\ ready' = TRUE
          /\ undo' = NoUndo
          /\ Goto(p, "P")
       \/ /\ ~Valid(p)
          /\ Goto(p, "over")
          /\ UNCHANGED <<value, ready, undo>>
    /\ UNCHANGED <<set, sets, semid>>

\* fault variant: op_sem adds what it should take
P_Adds(p) ==
    /\ step[p] = "P"
    /\ value' = value + 1
    /\ undo' = [undo EXCEPT ![p] = -1]
    /\ Goto(p, "inside")
    /\ UNCHANGED <<set, sets, ready, semid>>

\* P: takes the value, which is there for it, since no other process has the number
\* of its set; main does not look at whether P failed, so it goes on without a set
\* that was removed
P(p) ==
    /\ step[p] = "P"
    /\ \/ /\ Valid(p) /\ value > 0
          /\ value' = value - 1
          /\ undo' = [undo EXCEPT ![p] = 1]
          /\ Goto(p, "inside")
       \/ /\ ~Valid(p)
          /\ Goto(p, "inside")
          /\ UNCHANGED <<value, undo>>
    /\ UNCHANGED <<set, sets, ready, semid>>

\* exit(1) behind the sleep, or a kill anywhere: the kernel gives back the undo
Ends(p) ==
    /\ step[p] # "over"
    /\ value' = value + undo[p]
    /\ undo' = [undo EXCEPT ![p] = 0]
    /\ Goto(p, "over")
    /\ UNCHANGED <<set, sets, ready, semid>>

\* ipcrm (external)
Remove ==
    /\ set # 0 /\ sets <= Removals
    /\ set' = 0
    /\ value' = 0
    /\ undo' = NoUndo
    /\ UNCHANGED <<sets, ready, step, semid>>

SemNext ==
    \/ \E p \in Starts : Creat(p) \/ Set(p) \/ P(p) \/ Ends(p)
    \/ Remove

-----------------------------------------------------------------------------
(* Properties *)

\* Types; the semaphore is binary.
SemTypeOK ==
    /\ sets \in 0..Removals + 1 /\ set \in 0..sets
    /\ value \in 0..1 /\ ready \in BOOLEAN
    /\ undo \in [Starts -> 0..1]
    /\ step \in [Starts -> {"creat", "init", "P", "inside", "over"}]
    /\ semid \in [Starts -> 0..sets]

\* As long as a set lives, one process at most is inside with it, and when it is
\* gone, killed or not, the semaphore is free again: value and processes inside
\* always add up to 1.
Exclusive ==
    set # 0 /\ ready =>
        value + Cardinality({p \in Starts : step[p] = "inside" /\ Valid(p)}) = 1
=============================================================================
