-------------------------- MODULE ProducerConsumer --------------------------
(***************************************************************************)
(* Cond/producer_consumer.c: one producer and one consumer thread share a   *)
(* linked list under a mutex and a condition variable.  The list is a       *)
(* stack: Push_head and Pop_head both work at the head node.                *)
(*                                                                         *)
(* A value is drawn with rand() in the code; only its identity matters      *)
(* here, so the n-th value produced is n.                                   *)
(***************************************************************************)
EXTENDS Naturals, Sequences, FiniteSets

CONSTANT MaxItems   \* bound: the producer loops for ever, the model stops here
ASSUME MaxItemsAssumption == MaxItems \in Nat \ {0}

VARIABLES
    list,      \* head->_next, head->_next->_next, ... : the stack, top first
    mutex,     \* the holder of the mutex, or "free"
    ppc,       \* where the producer is
    cpc,       \* where the consumer is
    made,      \* how many values the producer has drawn
    data,      \* the consumer's local variable data (0 = nothing popped)
    got        \* the values the consumer has printed

vars == <<list, mutex, ppc, cpc, made, data, got>>

Init ==
    /\ list = <<>>
    /\ mutex = "free"
    /\ ppc = "lock"
    /\ cpc = "lock"
    /\ made = 0
    /\ data = 0
    /\ got = {}

-----------------------------------------------------------------------------
(* thread_producer *)

\* data = rand(); pthread_mutex_lock(&mutex)
ProducerLock ==
    /\ ppc = "lock"
    /\ mutex = "free"
    /\ made < MaxItems
    /\ made' = made + 1
    /\ mutex' = "producer"
    /\ ppc' = "push"
    /\ UNCHANGED <<list, cpc, data, got>>

\* fault variant: the new node does not link to the old first node
ProducerPush_DropsTail ==
    /\ ppc = "push"
    /\ list' = <<made>>
    /\ ppc' = "unlock"
    /\ UNCHANGED <<mutex, cpc, made, data, got>>

\* usleep under the lock, then Push_head(head, data)
ProducerPush ==
    /\ ppc = "push"
    /\ list' = <<made>> \o list
    /\ ppc' = "unlock"
    /\ UNCHANGED <<mutex, cpc, made, data, got>>

ProducerUnlock ==
    /\ ppc = "unlock"
    /\ mutex' = "free"
    /\ ppc' = "signal"
    /\ UNCHANGED <<list, cpc, made, data, got>>

\* fault variant: no pthread_cond_signal
ProducerSignal_Missing ==
    /\ ppc = "signal"
    /\ ppc' = "lock"
    /\ UNCHANGED <<list, mutex, cpc, made, data, got>>

\* pthread_cond_signal(&cond): the mutex is no longer held.  A signal that
\* finds no waiter is lost.
ProducerSignal ==
    /\ ppc = "signal"
    /\ cpc' = IF cpc = "waiting" THEN "relock" ELSE cpc
    /\ ppc' = "lock"
    /\ UNCHANGED <<list, mutex, made, data, got>>

-----------------------------------------------------------------------------
(* thread_consumer *)

\* fault variant: the wait is in an if, so one wake-up is trusted
ConsumerLock_TrustsWakeup ==
    /\ cpc \in {"lock", "relock"}
    /\ mutex = "free"
    /\ mutex' = "consumer"
    /\ data' = 0
    /\ cpc' = IF cpc = "relock" THEN "pop" ELSE "test"
    /\ UNCHANGED <<list, ppc, made, got>>

\* pthread_mutex_lock(&mutex), with data = 0 before it; or the lock taken
\* again inside pthread_cond_wait after a wake-up
ConsumerLock ==
    /\ cpc \in {"lock", "relock"}
    /\ mutex = "free"
    /\ mutex' = "consumer"
    /\ data' = 0
    /\ cpc' = "test"
    /\ UNCHANGED <<list, ppc, made, got>>

\* while(IsEmpty(head) == 0) pthread_cond_wait(&cond,&mutex): the wait
\* releases the mutex and sleeps in one step
ConsumerTest ==
    /\ cpc = "test"
    /\ IF list = <<>>
         THEN cpc' = "waiting" /\ mutex' = "free"
         ELSE cpc' = "pop" /\ UNCHANGED mutex
    /\ UNCHANGED <<list, ppc, made, data, got>>

\* pthread_cond_wait may return although nobody signalled
SpuriousWakeup ==
    /\ cpc = "waiting"
    /\ cpc' = "relock"
    /\ UNCHANGED <<list, mutex, ppc, made, data, got>>

\* Pop_head: on an empty list it only prints a message
ConsumerPop ==
    /\ cpc = "pop"
    /\ IF list = <<>>
         THEN UNCHANGED <<list, data>>
         ELSE list' = Tail(list) /\ data' = Head(list)
    /\ cpc' = "unlock"
    /\ UNCHANGED <<mutex, ppc, made, got>>

\* pthread_mutex_unlock(&mutex); printf("Consumer get ...")
ConsumerUnlock ==
    /\ cpc = "unlock"
    /\ mutex' = "free"
    /\ got' = got \union {data}
    /\ cpc' = "lock"
    /\ UNCHANGED <<list, ppc, made, data>>

-----------------------------------------------------------------------------
Producer == ProducerLock \/ ProducerPush \/ ProducerUnlock \/ ProducerSignal
Consumer == ConsumerLock \/ ConsumerTest \/ ConsumerPop \/ ConsumerUnlock

Next == Producer \/ Consumer \/ SpuriousWakeup

\* Each thread keeps running when it can.  The mutex is not assumed fair: a
\* thread that only finds it free now and then may starve.
Fairness == WF_vars(Producer) /\ WF_vars(Consumer)

Spec == Init /\ [][Next]_vars /\ Fairness

-----------------------------------------------------------------------------
(* Properties *)

\* Types of the variables.
TypeOK ==
    /\ made \in 0..MaxItems
    /\ list \in Seq(1..MaxItems)
    /\ mutex \in {"free", "producer", "consumer"}
    /\ ppc \in {"lock", "push", "unlock", "signal"}
    /\ cpc \in {"lock", "test", "waiting", "relock", "pop", "unlock"}
    /\ data \in 0..MaxItems
    /\ got \subseteq 0..MaxItems

\* The consumer pops only what is there.  The signal is sent after the
\* unlock, so it can arrive when the consumer has already taken the value
\* and waits for the next one: the test must be a loop.
PopFindsAValue == cpc = "pop" => list # <<>>

\* No wake-up is lost: when the consumer sleeps although the list holds a
\* value, the producer is still on its way to the signal.
NoLostWakeup ==
    cpc = "waiting" /\ list # <<>> => ppc \in {"unlock", "signal"}

\* Every value drawn is in exactly one place: in the producer's hand, in the
\* list (once), in the consumer's hand, or printed.
InList == {list[i] : i \in DOMAIN list}
InHands == (IF ppc = "push" THEN {made} ELSE {})
               \union (IF cpc = "unlock" THEN {data} ELSE {})
EachValueOnce ==
    /\ InList \union InHands \union got = 1..made
    /\ Len(list) + Cardinality(InHands) + Cardinality(got) = made

\* A consumer asleep beside a non-empty list is woken, whatever the mutex
\* does: the producer needs no lock between the push and the signal.
SleeperIsWoken == (cpc = "waiting" /\ list # <<>>) ~> (cpc # "waiting")
=============================================================================
