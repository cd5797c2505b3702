------------------------- MODULE SmallProgramsProofs -------------------------
(***************************************************************************)
(* What the small programs promise for every value of their constants.  A    *)
(* step of one program leaves the variables of the others alone; so each     *)
(* property rests on an inductive invariant of its program, kept by that      *)
(* program's actions and by steps that change none of its variables.         *)
(***************************************************************************)
EXTENDS SmallPrograms, FiniteSetTheorems, WellFoundedInduction, TLAPS

\* The instances bring their own copy of Cardinality.
LEMMA SameCardinality ==
  ASSUME NEW S
  PROVE  /\ Sem!Cardinality(S) = Cardinality(S)
         /\ Tcp!Cardinality(S) = Cardinality(S)
         /\ Ctl!Cardinality(S) = Cardinality(S)
         /\ Sql!Cardinality(S) = Cardinality(S)
BY DEF Cardinality, Sem!Cardinality, Tcp!Cardinality, Ctl!Cardinality, Sql!Cardinality

\* A step is one of the program, or leaves its variables alone.
LEMMA EachStep ==
  ASSUME [ProgramsNext]_allVars
  PROVE  /\ Tcp!TcpNext \/ UNCHANGED tcpVars
         /\ Sem!SemNext \/ UNCHANGED semVars
         /\ Sleep!SleepNext \/ UNCHANGED sleepVars
         /\ Craw!CrawlNext \/ UNCHANGED crawlVars
         /\ Ctl!CtlNext \/ UNCHANGED ctlVars
         /\ Pair!PairNext \/ UNCHANGED pairVars
         /\ Sql!SqlNext \/ UNCHANGED sqlVars
BY DEF ProgramsNext, allVars, ListRuns, TcpRuns, SemRuns, SleepRuns, CrawlerRuns,
       CtlRuns, PairRuns, SqlRuns

-----------------------------------------------------------------------------
(* producer_consumer *)

\* Who holds the mutex is read off the program counters, and a value being
\* pushed has been drawn.
LockInv ==
    /\ ppc \in {"push", "unlock"} => mutex = "producer"
    /\ cpc \in {"test", "pop", "unlock"} => mutex = "consumer"
    /\ ppc = "push" => made > 0

ListInv == TypeOK /\ LockInv /\ PopFindsAValue /\ NoLostWakeup

LEMMA ListInitInv == Init => ListInv
  BY MaxItemsAssumption
     DEF Init, ListInv, TypeOK, LockInv, PopFindsAValue, NoLostWakeup

\* Types: the only step that needs more than the types is the push, whose
\* value must have been drawn.
LEMMA NextTypeOK ==
  ASSUME ListInv, [Next]_vars
  PROVE  TypeOK'
<1> USE MaxItemsAssumption DEF TypeOK, ListInv
<1>1. CASE ProducerLock
  BY <1>1 DEF ProducerLock
<1>2. CASE ProducerPush
  <2>1. made \in 1..MaxItems
    BY <1>2 DEF ProducerPush, LockInv
  <2>2. list' \in Seq(1..MaxItems)
    BY <1>2, <2>1 DEF ProducerPush
  <2> QED BY <1>2, <2>2 DEF ProducerPush
<1>3. CASE ProducerUnlock
  BY <1>3 DEF ProducerUnlock
<1>4. CASE ProducerSignal
  BY <1>4 DEF ProducerSignal
<1>5. CASE ConsumerLock
  BY <1>5 DEF ConsumerLock
<1>6. CASE ConsumerTest
  BY <1>6 DEF ConsumerTest
<1>7. CASE SpuriousWakeup
  BY <1>7 DEF SpuriousWakeup
<1>8. CASE ConsumerPop
  <2>1. CASE list = <<>>
    BY <1>8, <2>1 DEF ConsumerPop
  <2>2. CASE list # <<>>
    <3>1. Head(list) \in 1..MaxItems /\ Tail(list) \in Seq(1..MaxItems)
      BY <2>2
    <3> QED BY SMTT(30), <1>8, <2>2, <3>1 DEF ConsumerPop
  <2> QED BY <2>1, <2>2
<1>9. CASE ConsumerUnlock
  BY <1>9 DEF ConsumerUnlock
<1>10. CASE UNCHANGED vars
  BY <1>10 DEF vars
<1> QED
  BY <1>1, <1>2, <1>3, <1>4, <1>5, <1>6, <1>7, <1>8, <1>9, <1>10
     DEF Next, Producer, Consumer

\* The lock discipline, the pop and the sleeping consumer.
LEMMA NextLocks ==
  ASSUME ListInv, [Next]_vars
  PROVE  LockInv' /\ PopFindsAValue' /\ NoLostWakeup'
<1> USE DEF ListInv, TypeOK, LockInv, PopFindsAValue, NoLostWakeup
<1>1. CASE ProducerLock
  BY <1>1 DEF ProducerLock
<1>2. CASE ProducerPush
  <2>1. list' # <<>>
    BY <1>2 DEF ProducerPush
  <2> QED BY <1>2, <2>1 DEF ProducerPush
<1>3. CASE ProducerUnlock
  BY <1>3 DEF ProducerUnlock
<1>4. CASE ProducerSignal
  BY <1>4 DEF ProducerSignal
<1>5. CASE ConsumerLock
  BY <1>5 DEF ConsumerLock
<1>6. CASE ConsumerTest
  BY <1>6 DEF ConsumerTest
<1>7. CASE SpuriousWakeup
  BY <1>7 DEF SpuriousWakeup
<1>8. CASE ConsumerPop
  BY <1>8 DEF ConsumerPop
<1>9. CASE ConsumerUnlock
  BY <1>9 DEF ConsumerUnlock
<1>10. CASE UNCHANGED vars
  BY <1>10 DEF vars
<1> QED
  BY <1>1, <1>2, <1>3, <1>4, <1>5, <1>6, <1>7, <1>8, <1>9, <1>10
     DEF Next, Producer, Consumer

\* The other programs leave the list alone.
LEMMA ListSteps ==
  ASSUME [ProgramsNext]_allVars
  PROVE  [Next]_vars
BY DEF ProgramsNext, allVars, TcpRuns, SemRuns, SleepRuns, CrawlerRuns, CtlRuns,
       PairRuns, SqlRuns

LEMMA ListInvHolds == ProgramsSpec => []ListInv
<1>1. ProgramsInit => ListInv
  BY ListInitInv DEF ProgramsInit
<1>2. ListInv /\ [ProgramsNext]_allVars => ListInv'
  BY ListSteps, NextTypeOK, NextLocks DEF ListInv
<1> QED
  BY <1>1, <1>2, PTL DEF ProgramsSpec

\* The consumer never pops an empty list, although the signal is sent after
\* the unlock and pthread_cond_wait may wake up for nothing.
THEOREM PopSafe == ProgramsSpec => []PopFindsAValue
  BY ListInvHolds, PTL DEF ListInv

\* A consumer asleep beside a non-empty list has a signal coming.
THEOREM WakeupPending == ProgramsSpec => []NoLostWakeup
  BY ListInvHolds, PTL DEF ListInv

\* EachValueOnce says that the sizes add up; that they keep doing so when a
\* value moves rests on the three places having nothing in common.
Apart ==
    /\ \A k, m \in 1..Len(list) : list[k] = list[m] => k = m
    /\ InList \intersect InHands = {}
    /\ InList \intersect got = {}
    /\ InHands \intersect got = {}

Sizes == Len(list) + Cardinality(InHands) + Cardinality(got) = made

OnceInv == InList \union InHands \union got = 1..made /\ Apart /\ Sizes

LEMMA InitOnce == Init => OnceInv
<1> SUFFICES ASSUME Init PROVE OnceInv
  OBVIOUS
<1>1. InList = {} /\ InHands = {} /\ got = {} /\ made = 0 /\ Len(list) = 0
  BY DEF Init, InList, InHands
<1> QED BY <1>1, FS_EmptySet DEF OnceInv, Apart, Sizes

LEMMA GotIsFinite ==
  ASSUME TypeOK
  PROVE  IsFiniteSet(got) /\ Cardinality(got) \in Nat
<1>1. IsFiniteSet(0..MaxItems)
  BY FS_Interval, MaxItemsAssumption
<1>2. IsFiniteSet(got)
  BY <1>1, FS_Subset DEF TypeOK
<1> QED BY <1>2, FS_CardinalityType

\* Nothing moves: the same list, the same hands, the same output.
LEMMA StillOnce ==
  ASSUME OnceInv, UNCHANGED <<list, made, got>>, InHands' = InHands
  PROVE  OnceInv'
<1>1. InList' = InList
  BY DEF InList
<1> QED BY <1>1 DEF OnceInv, Apart, Sizes

\* A value is drawn into empty hands.
LEMMA DrawnOnce ==
  ASSUME ListInv, OnceInv, ProducerLock
  PROVE  OnceInv'
<1> USE DEF ListInv, TypeOK, LockInv
<1>1. InHands = {} /\ InHands' = {made + 1} /\ made' = made + 1
  BY DEF ProducerLock, InHands
<1>2. InList' = InList /\ UNCHANGED <<list, got>>
  BY DEF ProducerLock, InList
<1>3. made + 1 \notin 1..made /\ 1..made' = (1..made) \union {made + 1}
  BY <1>1
<1>4. InList' \union InHands' \union got' = 1..made'
  BY <1>1, <1>2, <1>3 DEF OnceInv
<1>5. Apart'
  BY <1>1, <1>2, <1>3 DEF OnceInv, Apart
<1>6. Sizes'
  <2>1. Cardinality({}) = 0 /\ Cardinality({made + 1}) = 1
    BY FS_EmptySet, FS_Singleton
  <2>2. Len(list) \in Nat
    OBVIOUS
  <2>3. Cardinality(got) \in Nat
    BY GotIsFinite
  <2> QED BY <1>1, <1>2, <2>1, <2>2, <2>3 DEF OnceInv, Sizes
<1> QED BY <1>4, <1>5, <1>6 DEF OnceInv

\* The value in the producer's hands goes on top of the list.
LEMMA PushedOnce ==
  ASSUME ListInv, OnceInv, ProducerPush
  PROVE  OnceInv'
<1> USE DEF ListInv, TypeOK, LockInv
<1>1. InHands = {made} /\ InHands' = {} /\ UNCHANGED <<made, got>> /\ made \in 1..MaxItems
  BY DEF ProducerPush, InHands
<1>2. /\ list' = <<made>> \o list /\ Len(list') = Len(list) + 1
      /\ list'[1] = made /\ \A k \in 2..Len(list') : k - 1 \in 1..Len(list) /\ list'[k] = list[k - 1]
  BY <1>1 DEF ProducerPush
<1>3. InList' = InList \union {made}
  <2>1. InList = {list[k] : k \in 1..Len(list)} /\ InList' = {list'[k] : k \in 1..Len(list')}
    <3>1. TypeOK'
      BY NextTypeOK DEF Next, Producer
    <3>2. DOMAIN list = 1..Len(list) /\ DOMAIN list' = 1..Len(list')
      BY <3>1
    <3> QED BY <3>2 DEF InList
  <2>2. ASSUME NEW k \in 1..Len(list)
        PROVE  list[k] \in InList'
    <3>1. k + 1 \in 2..Len(list') /\ (k + 1) - 1 = k
      BY <1>2
    <3>2. list'[k + 1] = list[k]
      BY <1>2, <3>1
    <3> QED BY <2>1, <3>1, <3>2
  <2>3. made \in InList'
    <3>1. 1 \in 1..Len(list')
      BY <1>2
    <3> QED BY <1>2, <2>1, <3>1
  <2>4. ASSUME NEW k \in 1..Len(list')
        PROVE  list'[k] \in InList \union {made}
    <3>1. CASE k = 1
      BY <1>2, <3>1
    <3>2. CASE k # 1
      <4>1. k - 1 \in 1..Len(list) /\ list'[k] = list[k - 1]
        BY <1>2, <3>2
      <4> QED BY <2>1, <4>1
    <3> QED BY <3>1, <3>2
  <2> QED BY <2>1, <2>2, <2>3, <2>4
<1>4. \A k \in 1..Len(list) : list[k] # made
  BY <1>1 DEF OnceInv, Apart, InList
<1>5. \A k, m \in 1..Len(list') : list'[k] = list'[m] => k = m
  <2> SUFFICES ASSUME NEW k \in 1..Len(list'), NEW m \in 1..Len(list'), list'[k] = list'[m]
               PROVE  k = m
    OBVIOUS
  <2>1. CASE k = 1 /\ m = 1
    BY <2>1
  <2>2. CASE k = 1 /\ m # 1
    BY <1>2, <1>4, <2>2
  <2>3. CASE k # 1 /\ m = 1
    BY <1>2, <1>4, <2>3
  <2>4. CASE k # 1 /\ m # 1
    <3>1. /\ k - 1 \in 1..Len(list) /\ m - 1 \in 1..Len(list) 
          /\ list[k - 1] = list[m - 1]
      BY <1>2, <2>4
    <3>2. k - 1 = m - 1
      BY <3>1 DEF OnceInv, Apart
    <3> QED BY <3>2
  <2> QED BY <2>1, <2>2, <2>3, <2>4
<1>6. Apart'
  BY <1>1, <1>3, <1>5 DEF OnceInv, Apart
<1>7. Sizes'
  <2>1. Cardinality({}) = 0 /\ Cardinality({made}) = 1
    BY FS_EmptySet, FS_Singleton
  <2>2. Cardinality(got) \in Nat
    BY GotIsFinite
  <2> QED BY <1>1, <1>2, <2>1, <2>2 DEF OnceInv, Sizes
<1> QED BY <1>1, <1>3, <1>6, <1>7 DEF OnceInv

\* The value on top of the list goes into the consumer's hands.
LEMMA PoppedOnce ==
  ASSUME ListInv, OnceInv, ConsumerPop
  PROVE  OnceInv'
<1> USE DEF ListInv, TypeOK, LockInv
<1>1. list # <<>> /\ UNCHANGED <<made, got>>
  BY DEF ConsumerPop, PopFindsAValue
<1>2. list' = Tail(list) /\ data' = list[1]
  BY <1>1 DEF ConsumerPop
<1>3. InHands = {} /\ InHands' = {list[1]}
  BY <1>2 DEF ConsumerPop, InHands
<1>4. /\ Len(list) \in Nat /\ Len(list) > 0 /\ Len(list') = Len(list) - 1
      /\ \A k \in 1..Len(list') : k + 1 \in 2..Len(list) /\ list'[k] = list[k + 1]
  BY <1>1, <1>2
<1>5. InList = InList' \union {list[1]}
  <2>1. InList = {list[k] : k \in 1..Len(list)} /\ InList' = {list'[k] : k \in 1..Len(list')}
    <3>1. TypeOK'
      BY NextTypeOK DEF Next, Consumer
    <3>2. DOMAIN list = 1..Len(list) /\ DOMAIN list' = 1..Len(list')
      BY <3>1
    <3> QED BY <3>2 DEF InList
  <2>2. ASSUME NEW k \in 1..Len(list')
        PROVE  list'[k] \in InList
    BY <1>4, <2>1
  <2>3. list[1] \in InList
    <3>1. 1 \in 1..Len(list)
      BY <1>4
    <3> QED BY <2>1, <3>1
  <2>4. ASSUME NEW k \in 1..Len(list)
        PROVE  list[k] \in InList' \union {list[1]}
    <3>1. CASE k = 1
      BY <3>1
    <3>2. CASE k # 1
      <4>1. k - 1 \in 1..Len(list') /\ (k - 1) + 1 = k
        BY <1>4, <3>2
      <4>2. list'[k - 1] = list[k]
        BY <1>4, <4>1
      <4> QED BY <2>1, <4>1, <4>2
    <3> QED BY <3>1, <3>2
  <2> QED BY <2>1, <2>2, <2>3, <2>4
<1>6. list[1] \notin InList'
  <2> SUFFICES ASSUME NEW k \in 1..Len(list'), list'[k] = list[1]
               PROVE  FALSE
    BY <1>2, <1>4 DEF InList
  <2>1. k + 1 \in 2..Len(list) /\ list[k + 1] = list[1]
    BY <1>4
  <2>2. k + 1 = 1
    BY <1>4, <2>1 DEF OnceInv, Apart
  <2> QED BY <2>2
<1>7. \A k, m \in 1..Len(list') : list'[k] = list'[m] => k = m
  <2> SUFFICES ASSUME NEW k \in 1..Len(list'), NEW m \in 1..Len(list'), list'[k] = list'[m]
               PROVE  k = m
    OBVIOUS
  <2>1. /\ k + 1 \in 1..Len(list) /\ m + 1 \in 1..Len(list)
        /\ list[k + 1] = list[m + 1]
    BY <1>4
  <2>2. k + 1 = m + 1
    BY <2>1 DEF OnceInv, Apart
  <2> QED BY <2>2
<1>8. Apart'
  BY <1>1, <1>3, <1>5, <1>6, <1>7 DEF OnceInv, Apart
<1>9. Sizes'
  <2>1. Cardinality({}) = 0 /\ Cardinality({list[1]}) = 1
    BY FS_EmptySet, FS_Singleton
  <2>2. Cardinality(got) \in Nat
    BY GotIsFinite
  <2> QED BY <1>1, <1>3, <1>4, <2>1, <2>2 DEF OnceInv, Sizes
<1> QED BY <1>1, <1>3, <1>5, <1>8, <1>9 DEF OnceInv

\* The value in the consumer's hands is printed.
LEMMA PrintedOnce ==
  ASSUME ListInv, OnceInv, ConsumerUnlock
  PROVE  OnceInv'
<1> USE DEF ListInv, TypeOK, LockInv
<1>1. InHands = {data} /\ InHands' = {} /\ got' = got \union {data} /\ UNCHANGED <<list, made>>
  BY DEF ConsumerUnlock, InHands
<1>2. InList' = InList
  BY <1>1 DEF InList
<1>3. data \notin got
  BY <1>1 DEF OnceInv, Apart
<1>4. Sizes'
  <2>1. Cardinality({}) = 0 /\ Cardinality({data}) = 1
    BY FS_EmptySet, FS_Singleton
  <2>2. IsFiniteSet(got) /\ Cardinality(got) \in Nat
    BY GotIsFinite
  <2>3. Cardinality(got') = Cardinality(got) + 1
    BY <1>1, <1>3, <2>2, FS_AddElement
  <2>4. Len(list) \in Nat
    OBVIOUS
  <2> QED BY <1>1, <2>1, <2>2, <2>3, <2>4 DEF OnceInv, Sizes
<1>5. Apart'
  BY <1>1, <1>2 DEF OnceInv, Apart
<1> QED BY <1>1, <1>2, <1>4, <1>5 DEF OnceInv

LEMMA NextOnce ==
  ASSUME ListInv, OnceInv, [Next]_vars
  PROVE  OnceInv'
<1>1. CASE ProducerUnlock \/ ProducerSignal
  <2>1. UNCHANGED <<list, made, got, data>> /\ ppc # "push" /\ ppc' # "push"
        /\ (cpc' = "unlock" <=> cpc = "unlock")
    BY <1>1 DEF ProducerUnlock, ProducerSignal
  <2> QED BY <2>1, StillOnce DEF InHands
<1>2. CASE ConsumerLock \/ ConsumerTest \/ SpuriousWakeup
  <2>1. UNCHANGED <<list, made, got, ppc>> /\ cpc # "unlock" /\ cpc' # "unlock"
    BY <1>2 DEF ConsumerLock, ConsumerTest, SpuriousWakeup
  <2> QED BY <2>1, StillOnce DEF InHands
<1>3. CASE UNCHANGED vars
  BY <1>3, StillOnce DEF vars, InHands
<1> QED
  BY <1>1, <1>2, <1>3, DrawnOnce, PushedOnce, PoppedOnce, PrintedOnce
  DEF Next, Producer, Consumer

\* Every value drawn is in one place: the producer's hand, the list, the
\* consumer's hand, or the output, whatever the order of the two threads.
THEOREM ValuesAreKept == ProgramsSpec => []EachValueOnce
<1>1. OnceInv => EachValueOnce
  BY DEF OnceInv, Sizes, EachValueOnce
<1>2. ProgramsInit => OnceInv
  BY InitOnce DEF ProgramsInit
<1>3. ListInv /\ OnceInv /\ [ProgramsNext]_allVars => OnceInv'
  BY ListSteps, NextOnce
<1> QED BY ListInvHolds, <1>1, <1>2, <1>3, PTL DEF ProgramsSpec

-----------------------------------------------------------------------------
(* sem *)

\* A set has one maker, and who is inside with the set holds what is missing in
\* its value.
Inside(p) == step[p] = "inside" /\ Sem!Valid(p)
SemTypes ==
    /\ set \in Nat /\ sets \in Nat /\ set <= sets /\ value \in Nat
    /\ ready \in BOOLEAN
    /\ undo \in [Starts -> {0, 1}]
    /\ step \in [Starts -> {"creat", "init", "P", "inside", "over"}]
    /\ semid \in [Starts -> Nat]
SemMakers ==
    /\ \A p \in Starts : semid[p] <= sets
    /\ \A p, q \in Starts : semid[p] = semid[q] /\ semid[p] # 0 => p = q
    /\ \A p \in Starts : step[p] = "creat" => semid[p] = 0
SemValue ==
    /\ \A p \in Starts : Sem!Valid(p) /\ step[p] = "init" => ready = FALSE
    /\ \A p \in Starts : undo[p] = 1 <=> Inside(p)
    /\ set # 0 /\ ready = TRUE /\ (\E p \in Starts : Inside(p)) => value = 0
    /\ set # 0 /\ ready = TRUE /\ ~(\E p \in Starts : Inside(p)) => value = 1
    /\ set # 0 /\ ready = FALSE => value = 0 /\ \A p \in Starts : ~Inside(p)
SemInv == SemTypes /\ SemMakers /\ SemValue

LEMMA SemInitInv == ProgramsInit => SemInv
<1>1. ProgramsInit => Sem!SemInit
  BY DEF ProgramsInit
<1>2. Sem!SemInit => SemInv
  <2> SUFFICES ASSUME Sem!SemInit PROVE SemInv
    OBVIOUS
  <2> USE DEF Sem!SemInit
  <2>4. ready \in BOOLEAN
    OBVIOUS
  <2>1. SemTypes
    BY <2>4 DEF SemTypes
  <2>2. SemMakers
    BY DEF SemMakers
  <2>3. SemValue
    BY DEF SemValue, Inside, Sem!Valid
  <2> QED BY <2>1, <2>2, <2>3 DEF SemInv
<1> QED BY <1>1, <1>2

LEMMA SemKeepsInv ==
  ASSUME SemInv, Sem!SemNext
  PROVE  SemInv'
<1> USE DEF SemInv, SemTypes, SemMakers, SemValue, Inside, Sem!Valid, Sem!Goto, Sem!NoUndo
<1>1. ASSUME NEW p \in Starts, Sem!Creat(p)
      PROVE  SemInv'
  <2>1. CASE Sem!NewSet(p)
    <3>1. set = 0 /\ set' = sets + 1 /\ sets' = sets + 1 /\ value' = 0 /\ ready' = FALSE
          /\ semid' = [semid EXCEPT ![p] = sets + 1] /\ step' = [step EXCEPT ![p] = "init"]
          /\ UNCHANGED undo /\ step[p] = "creat"
      BY <1>1, <2>1 DEF Sem!Creat, Sem!NewSet
    <3>2. \A q \in Starts : Sem!Valid(q)' <=> q = p
      BY <3>1
    <3>3. \A q \in Starts : ~Inside(q) /\ ~Inside(q)'
      BY <3>1, <3>2
    <3>4. \A q, r \in Starts : (semid[q] = semid[r] /\ semid[q] # 0 => q = r)'
      BY <3>1
    <3>8. ready' \in BOOLEAN
      BY <3>1
    <3>5. SemTypes'
      BY <3>1, <3>8
    <3>6. SemMakers'
      BY <3>1, <3>4
    <3>7. SemValue'
      BY <3>1, <3>2, <3>3
    <3> QED BY <3>5, <3>6, <3>7
  <2>2. CASE ~Sem!NewSet(p)
    BY <1>1, <2>2 DEF Sem!Creat
  <2> QED BY <2>1, <2>2
<1>2. ASSUME NEW p \in Starts, Sem!Set(p)
      PROVE  SemInv'
  <2>1. CASE Sem!Valid(p)
    <3>1. ready' = TRUE /\ value' = 1 /\ undo' = [q \in Starts |-> 0]
          /\ step' = [step EXCEPT ![p] = "P"] /\ UNCHANGED <<set, sets, semid>>
      BY <1>2, <2>1 DEF Sem!Set
    <3>2. \A q \in Starts : Sem!Valid(q) => q = p
      BY <2>1
    <3>3. \A q \in Starts : ~Inside(q)'
      BY <1>2, <3>1, <3>2 DEF Sem!Set
    <3> QED BY <3>1, <3>2, <3>3
  <2>2. CASE ~Sem!Valid(p)
    BY <1>2, <2>2 DEF Sem!Set
  <2> QED BY <2>1, <2>2
<1>3. ASSUME NEW p \in Starts, Sem!P(p)
      PROVE  SemInv'
  <2>1. CASE Sem!Valid(p)
    <3>1. value > 0 /\ value' = value - 1 /\ undo' = [undo EXCEPT ![p] = 1]
          /\ step' = [step EXCEPT ![p] = "inside"] /\ UNCHANGED <<set, sets, ready, semid>>
      BY <1>3, <2>1 DEF Sem!P
    <3>2. \A q \in Starts : Sem!Valid(q) => q = p
      BY <2>1
    <3>3. \A q \in Starts : Inside(q)' <=> q = p
      BY <2>1, <3>1, <3>2
    <3>4. ready = TRUE /\ value' = 0
      BY <1>3, <2>1, <3>1, <3>2 DEF Sem!P
    <3>8. ready' \in BOOLEAN
      BY <3>1
    <3>5. SemTypes'
      BY <3>1, <3>8
    <3>6. SemMakers'
      BY <3>1, <3>4
    <3>7. SemValue'
      BY <3>1, <3>2, <3>3
    <3> QED BY <3>5, <3>6, <3>7
  <2>2. CASE ~Sem!Valid(p)
    BY <1>3, <2>2 DEF Sem!P
  <2> QED BY <2>1, <2>2
<1>4. ASSUME NEW p \in Starts, Sem!Ends(p)
      PROVE  SemInv'
  BY <1>4 DEF Sem!Ends
<1>5. CASE Sem!Remove
  BY <1>5 DEF Sem!Remove
<1> QED BY <1>1, <1>2, <1>3, <1>4, <1>5 DEF Sem!SemNext

LEMMA SemInvHolds == ProgramsSpec => []SemInv
<1>1. ASSUME SemInv, [ProgramsNext]_allVars
      PROVE  SemInv'
  <2>1. Sem!SemNext \/ UNCHANGED semVars
    BY <1>1 DEF ProgramsNext, allVars, ListRuns, TcpRuns, SemRuns, SleepRuns, CrawlerRuns,
                CtlRuns, PairRuns, SqlRuns
  <2>2. CASE UNCHANGED semVars
    BY <1>1, <2>2 DEF semVars, SemInv, SemTypes, SemMakers, SemValue, Inside, Sem!Valid
  <2> QED BY <1>1, <2>1, <2>2, SemKeepsInv
<1> QED BY SemInitInv, <1>1, PTL DEF ProgramsSpec

\* sem: value and processes inside add up to 1, for any number of starts, killed
\* anywhere, and any number of removals of the set.
THEOREM SemaphoreExcludes == ProgramsSpec => []Exclusive
<1>1. ASSUME SemInv
      PROVE  Exclusive
  <2> SUFFICES ASSUME set # 0, ready
               PROVE  value + Cardinality({p \in Starts : Inside(p)}) = 1
    BY SameCardinality DEF Exclusive, Sem!Exclusive, Inside, Sem!Valid
  <2>1. CASE \A p \in Starts : ~Inside(p)
    <3>1. {p \in Starts : Inside(p)} = {}
      BY <2>1
    <3> QED BY <1>1, <2>1, <3>1, FS_EmptySet DEF SemInv, SemTypes, SemValue
  <2>2. ASSUME NEW p \in Starts, Inside(p)
        PROVE  value + Cardinality({q \in Starts : Inside(q)}) = 1
    <3>1. {q \in Starts : Inside(q)} = {p}
      BY <1>1, <2>2 DEF SemInv, SemTypes, SemMakers, SemValue, Inside, Sem!Valid
    <3>2. value = 0
      BY <1>1, <2>2 DEF SemInv, SemValue
    <3> QED BY <3>1, <3>2, FS_Singleton
  <2> QED BY <2>1, <2>2
<1> QED BY SemInvHolds, <1>1, PTL

-----------------------------------------------------------------------------
(* http_ctl.sh *)

\* Where the script stands decides what is known of a server that runs, if its start
\* was not interrupted: http.pid has its number, and $pid too once the script has read
\* the file, or there is none.
CtlInv ==
    /\ ctl \in {"prompt", "start", "bin", "wait", "pidof", "write", "stop", "kill", "remove"}
    /\ \A s, t \in running : s = t
    /\ late \subseteq cut
    /\ ctl \in {"prompt", "start", "stop", "kill"} => running \subseteq (UNION pidfile) \union cut
    /\ ctl = "kill" => pid = UNION pidfile
    /\ ctl \in {"bin", "remove"} => running \subseteq cut

LEMMA CtlInitInv == ProgramsInit => CtlInv
  BY DEF ProgramsInit, Ctl!CtlInit, CtlInv

LEMMA CtlKeepsInv ==
  ASSUME CtlInv, Ctl!CtlNext
  PROVE  CtlInv'
<1> USE DEF CtlInv
<1>1. CASE Ctl!Command
  BY <1>1 DEF Ctl!Command
<1>2. CASE Ctl!Start
  BY <1>2 DEF Ctl!Start, Ctl!Exists
<1>3. CASE Ctl!Bin
  BY <1>3 DEF Ctl!Bin
<1>4. CASE Ctl!Wait
  BY <1>4 DEF Ctl!Wait
<1>5. CASE Ctl!Interrupt
  BY <1>5 DEF Ctl!Interrupt
<1>6. CASE Ctl!Pidof
  BY <1>6 DEF Ctl!Pidof
<1>7. CASE Ctl!Stop
  BY <1>7 DEF Ctl!Stop, Ctl!Exists, Ctl!AfterStop, Ctl!Listed
<1>8. CASE Ctl!Kill
  BY <1>8 DEF Ctl!Kill
<1>9. CASE Ctl!Remove
  BY <1>9 DEF Ctl!Remove, Ctl!AfterStop
<1>10. CASE Ctl!ServerEnds
  BY <1>10 DEF Ctl!ServerEnds
<1>11. CASE Ctl!ComesUp
  BY <1>11 DEF Ctl!ComesUp
<1>12. CASE Ctl!ProgramEnds
  BY <1>12 DEF Ctl!ProgramEnds
<1> QED
  BY <1>1, <1>2, <1>3, <1>4, <1>5, <1>6, <1>7, <1>8, <1>9, <1>10, <1>11, <1>12
     DEF Ctl!CtlNext

LEMMA CtlInvHolds == ProgramsSpec => []CtlInv
<1>1. ASSUME CtlInv, [ProgramsNext]_allVars
      PROVE  CtlInv'
  <2>1. Ctl!CtlNext \/ UNCHANGED ctlVars
    BY <1>1 DEF ProgramsNext, allVars, ListRuns, TcpRuns, SemRuns, SleepRuns, CrawlerRuns,
                CtlRuns, PairRuns, SqlRuns
  <2>2. CASE UNCHANGED ctlVars
    BY <1>1, <2>2 DEF ctlVars, CtlInv
  <2> QED BY <1>1, <2>1, <2>2, CtlKeepsInv
<1> QED BY CtlInitInv, <1>1, PTL DEF ProgramsSpec

\* http_ctl.sh: between two commands a server that runs is in http.pid or had its own
\* start interrupted, and it is the only one, however many servers crash or fail to
\* start and wherever the script is interrupted.
THEOREM ServersAreKnown == ProgramsSpec => []RunningIsKnown
<1>1. ASSUME CtlInv
      PROVE  RunningIsKnown
  <2>1. Cardinality(running) <= 1
    <3>1. CASE running = {}
      BY <3>1, FS_EmptySet
    <3>2. ASSUME NEW s \in running
          PROVE  Cardinality(running) <= 1
      <4>1. running = {s}
        BY <1>1 DEF CtlInv
      <4>2. Cardinality(running) = 1
        BY <4>1, FS_Singleton
      <4> QED BY <4>2
    <3> QED BY <3>1, <3>2
  <2> QED BY <1>1, <2>1, SameCardinality DEF CtlInv, RunningIsKnown, Ctl!RunningIsKnown, Ctl!Listed
<1> QED BY CtlInvHolds, <1>1, PTL

-----------------------------------------------------------------------------
(* crawler *)

\* What was fetched is in old_url, each page once, and what is to be fetched is
\* linked from it.
CrawlTypes ==
    /\ links \in [Pages -> SUBSET Pages]
    /\ fate \in [Pages -> {"good", "nosummary", "bad"}]
    /\ new_url \subseteq Pages
    /\ datas \in Seq(Pages) /\ file \in Seq(Pages)
    /\ phase \in {"crawl", "output", "done", "raised"}
CrawlOnce ==
    /\ new_url \intersect old_url = {}
    /\ \A m \in 1..Len(datas) : datas[m] \in old_url
    /\ \A m, n \in 1..Len(datas) : datas[m] = datas[n] => m = n
    /\ phase # "raised" => count = Len(datas)
CrawlLinked ==
    /\ \A m \in 2..Len(datas) : \E n \in 1..m - 1 : datas[m] \in links[datas[n]]
    /\ phase = "crawl" =>
          \A url \in new_url :
             IF Len(datas) = 0 THEN url = Root
             ELSE \E n \in 1..Len(datas) : url \in links[datas[n]]
CrawlFile ==
    /\ phase = "crawl" => file = <<>>
    /\ phase = "output" => /\ Len(file) <= Len(datas)
                           /\ \A n \in 1..Len(file) : file[n] = datas[n]
    /\ phase = "done" => file = datas
CrawlInv == CrawlTypes /\ CrawlOnce /\ CrawlLinked /\ CrawlFile

LEMMA CrawlInitInv == ProgramsInit => CrawlInv
<1>1. ProgramsInit => Craw!CrawlInit
  BY DEF ProgramsInit
<1>2. Craw!CrawlInit => CrawlInv
  BY ProgramsAssumption
     DEF Craw!CrawlInit, CrawlInv, CrawlTypes, CrawlOnce, CrawlLinked, CrawlFile
<1> QED BY <1>1, <1>2

LEMMA CrawlKeepsInv ==
  ASSUME CrawlInv, Craw!CrawlNext
  PROVE  CrawlInv'
<1> USE DEF CrawlInv, CrawlTypes
<1>1. CASE Craw!Crawl
  <2>1. PICK url \in new_url :
          \/ /\ phase' = "raised" /\ new_url' = new_url \ {url} /\ UNCHANGED datas
          \/ /\ new_url' = (new_url \ {url}) \union (links[url] \ old_url')
             /\ count' = count + 1
             /\ datas' = Append(datas, url)
             /\ phase' = "crawl"
    BY <1>1 DEF Craw!Crawl
  <2>2. phase = "crawl" /\ old_url' = old_url \union {url}
        /\ UNCHANGED <<links, fate, file>>
    BY <1>1, <2>1 DEF Craw!Crawl
  <2>3. CASE phase' = "raised" /\ new_url' = new_url \ {url} /\ UNCHANGED datas
    BY <2>1, <2>2, <2>3 DEF CrawlOnce, CrawlLinked, CrawlFile
  <2>4. CASE /\ new_url' = (new_url \ {url}) \union (links[url] \ old_url')
             /\ count' = count + 1
             /\ datas' = Append(datas, url)
             /\ phase' = "crawl"
    <3>1. /\ datas' \in Seq(Pages) /\ Len(datas') = Len(datas) + 1
          /\ \A n \in 1..Len(datas) : datas'[n] = datas[n]
          /\ datas'[Len(datas) + 1] = url
      BY <2>1, <2>4
    <3>2. CrawlTypes'
      BY <2>1, <2>2, <2>4, <3>1
    <3>3. CrawlOnce'
      BY <2>1, <2>2, <2>4, <3>1 DEF CrawlOnce
    <3>4. CrawlLinked'
      <4>1. ASSUME NEW m \in 2..Len(datas')
            PROVE  \E n \in 1..m - 1 : datas'[m] \in links[datas'[n]]
        <5>1. CASE m <= Len(datas)
          <6>1. PICK n \in 1..m - 1 : datas[m] \in links[datas[n]]
            BY <3>1, <4>1, <5>1 DEF CrawlLinked
          <6>2. n \in 1..Len(datas) /\ m \in 1..Len(datas)
            BY <4>1, <5>1, <6>1
          <6> QED BY <3>1, <6>1, <6>2
        <5>2. CASE m = Len(datas) + 1
          <6>1. PICK n \in 1..Len(datas) : url \in links[datas[n]]
            BY <2>1, <2>2, <3>1, <4>1, <5>2 DEF CrawlLinked
          <6> QED BY <3>1, <5>2, <6>1
        <5> QED BY <3>1, <4>1, <5>1, <5>2
      <4>2. ASSUME NEW u \in new_url'
            PROVE  \E n \in 1..Len(datas') : u \in links[datas'[n]]
        <5>1. CASE u \in links[url]
          BY <3>1, <5>1
        <5>2. CASE u \notin links[url]
          <6>1. u \in new_url /\ u # url
            BY <2>4, <4>2, <5>2
          <6>2. CASE Len(datas) > 0
            <7>1. PICK n \in 1..Len(datas) : u \in links[datas[n]]
              BY <2>2, <6>1, <6>2 DEF CrawlLinked
            <7> QED BY <3>1, <7>1
          <6>3. CASE Len(datas) = 0
            BY <2>1, <2>2, <6>1, <6>3 DEF CrawlLinked
          <6> QED BY <6>2, <6>3
        <5> QED BY <5>1, <5>2
      <4>3. Len(datas') # 0 /\ UNCHANGED links
        BY <2>2, <3>1
      <4> QED BY <4>1, <4>2, <4>3 DEF CrawlLinked
    <3>5. CrawlFile'
      BY <2>2, <2>4 DEF CrawlFile
    <3> QED BY <3>2, <3>3, <3>4, <3>5
  <2> QED BY <2>1, <2>3, <2>4
<1>2. CASE Craw!Finish
  BY <1>2 DEF Craw!Finish, CrawlOnce, CrawlLinked, CrawlFile
<1>3. CASE Craw!Output
  <2>1. phase = "output" /\ UNCHANGED <<links, fate, new_url, old_url, count, datas>>
    BY <1>3 DEF Craw!Output
  <2>2. CASE Len(file) + 1 > Len(datas) /\ phase' = "done" /\ UNCHANGED file
    <3>1. file = datas
      BY <2>1, <2>2 DEF CrawlFile
    <3> QED BY <2>1, <2>2, <3>1 DEF CrawlOnce, CrawlLinked, CrawlFile
  <2>3. CASE phase' = "raised" /\ UNCHANGED file
    BY <2>1, <2>3 DEF CrawlOnce, CrawlLinked, CrawlFile
  <2>4. CASE /\ Len(file) + 1 <= Len(datas)
             /\ file' = Append(file, datas[Len(file) + 1]) /\ UNCHANGED phase
    <3>1. /\ file' \in Seq(Pages) /\ Len(file') = Len(file) + 1
          /\ \A n \in 1..Len(file') : file'[n] = datas[n]
      BY <2>1, <2>4 DEF CrawlFile
    <3> QED BY <2>1, <2>4, <3>1 DEF CrawlOnce, CrawlLinked, CrawlFile
  <2> QED BY <1>3, <2>2, <2>3, <2>4 DEF Craw!Output
<1> QED BY <1>1, <1>2, <1>3 DEF Craw!CrawlNext

LEMMA CrawlInvHolds == ProgramsSpec => []CrawlInv
<1>1. ASSUME CrawlInv, [ProgramsNext]_allVars
      PROVE  CrawlInv'
  <2>1. Craw!CrawlNext \/ UNCHANGED crawlVars
    BY <1>1 DEF ProgramsNext, allVars, ListRuns, TcpRuns, SemRuns, SleepRuns, CrawlerRuns,
                CtlRuns, PairRuns, SqlRuns
  <2>2. CASE UNCHANGED crawlVars
    BY <1>1, <2>2 DEF crawlVars, CrawlInv, CrawlTypes, CrawlOnce, CrawlLinked, CrawlFile
  <2> QED BY <1>1, <2>1, <2>2, CrawlKeepsInv
<1> QED BY CrawlInitInv, <1>1, PTL DEF ProgramsSpec

\* crawler: whatever pages link to and whichever are missing, none is fetched twice,
\* each was linked from one fetched before, and a finished file has a row for each.
THEOREM PagesOnce == ProgramsSpec => []EachPageOnce
<1>1. CrawlInv => EachPageOnce
  BY DEF CrawlInv, CrawlOnce, CrawlLinked, CrawlFile, EachPageOnce, Craw!EachPageOnce
<1> QED BY CrawlInvHolds, <1>1, PTL

-----------------------------------------------------------------------------
(* The TCP servers *)

\* A set of numbers that is not empty has a least element.
LEMMA LeastNumber ==
  ASSUME NEW T, T \subseteq Nat, T # {}
  PROVE  \E x \in T : \A y \in T : x <= y
<1>1. PICK x \in T : \A y \in T : ~ (<<y, x>> \in OpToRel(<, Nat))
  BY NatLessThanWellFounded, WFMin
<1>2. ASSUME NEW y \in T, y < x
      PROVE  FALSE
  <2>1. <<y, x>> \in Nat \X Nat /\ <<y, x>>[1] < <<y, x>>[2]
    BY <1>2
  <2> QED BY <1>1, <2>1 DEF OpToRel
<1> QED BY <1>2

\* fork() finds a number that was free.
LEMMA NewProcIsFree ==
  ASSUME Tcp!Free # {}
  PROVE  Tcp!NewProc \in Tcp!Procs /\ at[Tcp!NewProc] = "none"
<1>1. Tcp!Free \subseteq Nat
  BY ProgramsAssumption DEF Tcp!Free, Tcp!Procs
<1>2. \E p \in Tcp!Free : \A q \in Tcp!Free : p <= q
  BY <1>1, LeastNumber
<1>3. Tcp!NewProc \in Tcp!Free
  BY <1>2 DEF Tcp!NewProc
<1> QED BY <1>3 DEF Tcp!Free

TcpTypes ==
    /\ at \in [Tcp!Procs -> {"none", "start", "accept", "fork", "fork2", "wait",
                             "read", "spin", "zombie"}]
    /\ parent \in [Tcp!Procs -> 0..MaxProcs]
    /\ ret \in [Tcp!Procs -> Users \union {NoSock}]
    /\ open \in [Tcp!Procs -> SUBSET Users]
    /\ queue \in Seq(Users)
    /\ user \in [Users -> {"away", "here", "quit"}]

\* Who has a parent is the only child of a process that waits for it.
TcpTree ==
    /\ \A q \in Tcp!Procs : parent[q] # 0 => at[parent[q]] = "wait" /\ at[q] # "none"
    /\ \A p \in Tcp!Procs : at[p] = "wait" => \E q \in Tcp!Procs : parent[q] = p
    /\ \A q, r \in Tcp!Procs : parent[q] = parent[r] /\ parent[q] # 0 => q = r
    /\ \A p \in Tcp!Procs : at[p] \in {"none", "zombie"} => open[p] = {}

\* A client that waits for accept is in no table, and in the queue once.
TcpQueue ==
    /\ \A n \in 1..Len(queue) : user[queue[n]] # "away"
    /\ \A m, n \in 1..Len(queue) : queue[m] = queue[n] => m = n
    /\ \A n \in 1..Len(queue) : \A p \in Tcp!Procs : queue[n] \notin open[p]
    /\ \A p \in Tcp!Procs : \A c \in open[p] : user[c] # "away"

\* A socket that is served is in the table of the process, and no other serves it.
TcpServed ==
    /\ \A p \in Tcp!Procs : Tcp!Serving(p) => ret[p] \in open[p]
    /\ \A p, q \in Tcp!Procs : Tcp!Serving(p) /\ Tcp!Serving(q) /\ ret[p] = ret[q] => p = q

TcpInv == TcpTypes /\ TcpTree /\ TcpQueue /\ TcpServed

LEMMA TcpInitInv == ProgramsInit => TcpInv
<1>1. ProgramsInit => Tcp!TcpInit
  BY DEF ProgramsInit
<1>2. Tcp!TcpInit => TcpInv
  <2> SUFFICES ASSUME Tcp!TcpInit PROVE TcpInv
    OBVIOUS
  <2>1. TcpTypes
    BY ProgramsAssumption DEF Tcp!TcpInit, TcpTypes, Tcp!Procs
  <2>2. \A p \in Tcp!Procs : at[p] \in {"start", "none"} /\ parent[p] = 0 /\ open[p] = {}
    BY DEF Tcp!TcpInit
  <2>3. queue = <<>>
    BY DEF Tcp!TcpInit
  <2> QED BY <2>1, <2>2, <2>3 DEF TcpInv, TcpTree, TcpQueue, TcpServed, Tcp!Serving
<1> QED BY <1>1, <1>2

\* A process that does not wait, and that ends, changes its own place only.
LEMMA ExitsAlone ==
  ASSUME TcpInv, NEW p \in Tcp!Procs, at[p] \in {"start", "accept", "fork"}, Tcp!Exits(p)
  PROVE  /\ at' = [at EXCEPT ![p] = IF parent[p] = 0 THEN "none" ELSE "zombie"]
         /\ parent' = parent
         /\ open' = [open EXCEPT ![p] = {}]
<1>1. \A q \in Tcp!Procs : parent[q] # p
  BY SMTT(30), ProgramsAssumption DEF TcpInv, TcpTypes, TcpTree, Tcp!Procs
<1>2. parent' = parent
  BY <1>1 DEF Tcp!Exits, TcpInv, TcpTypes
<1>3. at' = [at EXCEPT ![p] = IF parent[p] = 0 THEN "none" ELSE "zombie"]
  BY <1>1 DEF Tcp!Exits, TcpInv, TcpTypes
<1> QED BY <1>2, <1>3 DEF Tcp!Exits

\* Clients come, speak and quit.
LEMMA ClientsKeepTcpInv ==
  ASSUME TcpInv, NEW c \in Users, Tcp!Arrive(c) \/ Tcp!Send(c) \/ Tcp!Depart(c)
  PROVE  TcpInv'
<1> USE DEF TcpInv, TcpTypes
<1>1. CASE Tcp!Arrive(c)
  <2>1. /\ user[c] = "away" /\ user' = [user EXCEPT ![c] = "here"]
        /\ queue' = Append(queue, c)
        /\ UNCHANGED <<at, parent, ret, open>>
    BY <1>1 DEF Tcp!Arrive
  <2>2. /\ queue' \in Seq(Users) /\ Len(queue') = Len(queue) + 1
        /\ \A n \in 1..Len(queue) : queue'[n] = queue[n]
        /\ queue'[Len(queue) + 1] = c
    BY <2>1
  <2>3. TcpTypes' /\ TcpTree' /\ TcpServed'
    BY <2>1, <2>2 DEF TcpTree, TcpServed, Tcp!Serving
  <2>4. \A n \in 1..Len(queue) : queue[n] # c
    BY <2>1 DEF TcpQueue
  <2>5. \A p \in Tcp!Procs : c \notin open[p]
    BY <2>1 DEF TcpQueue
  <2>6. TcpQueue'
    BY <2>1, <2>2, <2>4, <2>5 DEF TcpQueue
  <2> QED BY <2>3, <2>6
<1>2. CASE Tcp!Send(c)
  BY <1>2 DEF Tcp!Send, TcpTree, TcpQueue, TcpServed, Tcp!Serving
<1>3. CASE Tcp!Depart(c)
  <2>1. /\ user' = [user EXCEPT ![c] = "quit"]
        /\ UNCHANGED <<at, parent, ret, open, queue>>
    BY <1>3 DEF Tcp!Depart
  <2> QED BY <2>1 DEF TcpTree, TcpQueue, TcpServed, Tcp!Serving
<1> QED BY <1>1, <1>2, <1>3

\* A step that only moves p from one place to another, neither of them at a client
\* nor at a child.
LEMMA MoveKeepsTcpInv ==
  ASSUME TcpInv, NEW p \in Tcp!Procs, NEW q \in {"accept", "spin", "read"},
         at[p] \in {"start", "fork2", "read"},
         q = "read" => at[p] = "fork2",
         at' = [at EXCEPT ![p] = q], UNCHANGED <<parent, ret, open, queue, user>>
  PROVE  TcpInv'
BY DEF TcpInv, TcpTypes, TcpTree, TcpQueue, TcpServed, Tcp!Serving

\* A process that ends with nobody to wait for.
LEMMA ExitKeepsTcpInv ==
  ASSUME TcpInv, NEW p \in Tcp!Procs, at[p] \in {"start", "accept", "fork"}, Tcp!Exits(p),
         UNCHANGED <<ret, user>>, queue' = queue \/ (queue # <<>> /\ queue' = Tail(queue))
  PROVE  TcpInv'
<1> USE DEF TcpInv, TcpTypes
<1>1. /\ at' = [at EXCEPT ![p] = IF parent[p] = 0 THEN "none" ELSE "zombie"]
      /\ parent' = parent
      /\ open' = [open EXCEPT ![p] = {}]
  BY ExitsAlone
<1>2. /\ queue' \in Seq(Users)
      /\ \A n \in 1..Len(queue') : \E m \in 1..Len(queue) : queue'[n] = queue[m]
      /\ \A m, n \in 1..Len(queue') : queue'[m] = queue'[n] => m = n
  <2>1. CASE queue' = queue
    BY <2>1 DEF TcpQueue
  <2>2. CASE queue # <<>> /\ queue' = Tail(queue)
    <3>1. /\ queue' \in Seq(Users)
          /\ \A n \in 1..Len(queue') : queue'[n] = queue[n + 1] /\ n + 1 \in 1..Len(queue)
      BY <2>2
    <3> QED BY <3>1 DEF TcpQueue
  <2> QED BY <2>1, <2>2
<1>3. TcpTypes' /\ TcpTree' /\ TcpServed'
  BY <1>1, <1>2 DEF TcpTree, TcpServed, Tcp!Serving
<1>4. TcpQueue'
  <2>1. \A q \in Tcp!Procs : open'[q] \subseteq open[q]
    BY <1>1
  <2>2. \A n \in 1..Len(queue') : user'[queue'[n]] # "away"
    BY <1>2 DEF TcpQueue
  <2>3. \A n \in 1..Len(queue') : \A q \in Tcp!Procs : queue'[n] \notin open'[q]
    BY <1>2, <2>1 DEF TcpQueue
  <2>4. \A q \in Tcp!Procs : \A c \in open'[q] : user'[c] # "away"
    BY <2>1 DEF TcpQueue
  <2> QED BY <1>2, <2>2, <2>3, <2>4 DEF TcpQueue
<1> QED BY <1>3, <1>4

\* accept takes the oldest client; the process goes on to serve it.
LEMMA TakesKeepsTcpInv ==
  ASSUME TcpInv, NEW p \in Tcp!Procs, NEW q \in {"read", "fork"}, at[p] = "accept",
         Tcp!Takes(p), at' = [at EXCEPT ![p] = q], UNCHANGED <<parent, user>>
  PROVE  TcpInv'
<1> USE DEF TcpInv, TcpTypes
<1> DEFINE c == Head(queue)
<1>1. /\ queue # <<>> /\ queue' = Tail(queue)
      /\ ret' = [ret EXCEPT ![p] = c]
      /\ open' = [open EXCEPT ![p] = @ \union {c}]
  BY DEF Tcp!Takes
<1>2. /\ c \in Users /\ c = queue[1] /\ 1 \in 1..Len(queue)
      /\ queue' \in Seq(Users)
      /\ \A n \in 1..Len(queue') : queue'[n] = queue[n + 1] /\ n + 1 \in 1..Len(queue)
  BY <1>1
<1> HIDE DEF c
<1>3. \A r \in Tcp!Procs : c \notin open[r]
  BY <1>2 DEF TcpQueue
<1>4. TcpTypes' /\ TcpTree'
  BY <1>1, <1>2 DEF TcpTree
<1>5. TcpQueue'
  BY <1>1, <1>2, <1>3 DEF TcpQueue
<1>6. TcpServed'
  <2>1. \A r \in Tcp!Procs : Tcp!Serving(r)' /\ r # p => Tcp!Serving(r) /\ ret'[r] = ret[r]
    BY <1>1 DEF Tcp!Serving
  <2>2. \A r \in Tcp!Procs : Tcp!Serving(r)' /\ r # p => ret'[r] \in open[r] /\ ret'[r] # c
    BY <1>3, <2>1 DEF TcpServed
  <2> QED BY <1>1, <2>1, <2>2 DEF TcpServed
<1> QED BY <1>4, <1>5, <1>6

\* The first fork: the child c carries the client on, its parent waits.
LEMMA ForkKeepsTcpInv ==
  ASSUME TcpInv, NEW p \in Tcp!Procs, Tcp!Fork(p)
  PROVE  TcpInv'
<1> USE DEF TcpInv, TcpTypes
<1>1. at[p] = "fork" /\ UNCHANGED <<queue, user>>
  BY DEF Tcp!Fork
<1>2. CASE Tcp!Free # {} /\ Tcp!Child(p, Tcp!NewProc, "fork2", "wait")
  <2>0. PICK c \in Tcp!Procs : c = Tcp!NewProc /\ at[c] = "none"
    BY <1>2, NewProcIsFree
  <2>1. c \in Tcp!Procs /\ at[c] = "none" /\ c # p
    BY <1>1, <2>0
  <2>2. /\ at' = [at EXCEPT ![c] = "fork2", ![p] = "wait"]
        /\ parent' = [parent EXCEPT ![c] = p]
        /\ ret' = [ret EXCEPT ![c] = ret[p]]
        /\ open' = [open EXCEPT ![c] = open[p]]
    BY <1>2, <2>0 DEF Tcp!Child
  <2>3. \A q \in Tcp!Procs : parent[q] # p /\ parent[q] # c
    <3>1. p # 0 /\ c # 0
      BY <2>1, ProgramsAssumption DEF Tcp!Procs
    <3> QED BY <1>1, <2>1, <3>1 DEF TcpTree
  <2>4. parent[c] = 0
    BY <2>1 DEF TcpTree
  <2>5. p \in 1..MaxProcs /\ p # 0 /\ p \in 0..MaxProcs
    BY ProgramsAssumption DEF Tcp!Procs
  <2>6. TcpTypes'
    BY <1>1, <2>1, <2>2, <2>5
  <2>7. TcpTree'
    <3>1. \A q \in Tcp!Procs : parent'[q] = p <=> q = c
      BY <2>1, <2>2, <2>3
    <3>2. \A q \in Tcp!Procs : q # c => parent'[q] = parent[q]
      BY <2>2
    <3>3. \A q \in Tcp!Procs : at'[q] = "wait" => q = p \/ at[q] = "wait"
      BY <2>1, <2>2
    <3>4. \A q \in Tcp!Procs : (parent[q] # 0 => at[parent[q]] = "wait" /\ at[q] # "none")'
      <4> SUFFICES ASSUME NEW q \in Tcp!Procs, parent'[q] # 0
                   PROVE  at'[parent'[q]] = "wait" /\ at'[q] # "none"
        OBVIOUS
      <4>1. CASE q = c
        BY <2>1, <2>2, <4>1
      <4>2. CASE q # c
        <5>1. parent'[q] = parent[q] /\ parent[q] \in Tcp!Procs /\ parent[q] # p /\ parent[q] # c
          BY <2>3, <3>2, <4>2, ProgramsAssumption DEF Tcp!Procs
        <5>2. at[parent[q]] = "wait" /\ at[q] # "none"
          BY <5>1 DEF TcpTree
        <5> QED BY <2>1, <2>2, <4>2, <5>1, <5>2
      <4> QED BY <4>1, <4>2
    <3>5. \A q \in Tcp!Procs : at'[q] = "wait" => \E r \in Tcp!Procs : parent'[r] = q
      <4> SUFFICES ASSUME NEW q \in Tcp!Procs, at'[q] = "wait", q # p
                   PROVE  \E r \in Tcp!Procs : parent'[r] = q
        BY <2>1, <3>1
      <4>1. PICK r \in Tcp!Procs : parent[r] = q
        BY <3>3 DEF TcpTree
      <4>2. r # c
        BY <2>4, <4>1, ProgramsAssumption DEF Tcp!Procs
      <4> QED BY <3>2, <4>1, <4>2
    <3>6. \A q, r \in Tcp!Procs : parent'[q] = parent'[r] /\ parent'[q] # 0 => q = r
      BY <3>1, <3>2 DEF TcpTree
    <3>7. \A q \in Tcp!Procs : at'[q] \in {"none", "zombie"} => open'[q] = {}
      BY <2>1, <2>2 DEF TcpTree
    <3> QED BY <3>4, <3>5, <3>6, <3>7 DEF TcpTree
  <2>8. TcpQueue'
    BY <1>1, <2>1, <2>2 DEF TcpQueue
  <2>9. TcpServed'
    <3>1. \A q \in Tcp!Procs : Tcp!Serving(q)' => q # p
      BY <2>1, <2>2 DEF Tcp!Serving
    <3>2. \A q \in Tcp!Procs : Tcp!Serving(q)' /\ q # c =>
             Tcp!Serving(q) /\ ret'[q] = ret[q] /\ open'[q] = open[q]
      BY <2>1, <2>2, <3>1 DEF Tcp!Serving
    <3>3. Tcp!Serving(c)' => Tcp!Serving(p) /\ ret'[c] = ret[p] /\ open'[c] = open[p]
      BY <1>1, <2>1, <2>2 DEF Tcp!Serving
    <3> QED BY <3>1, <3>2, <3>3 DEF TcpServed
  <2> QED BY <2>6, <2>7, <2>8, <2>9
<1>3. CASE Tcp!Free = {} /\ Tcp!Exits(p) /\ UNCHANGED ret
  BY <1>1, <1>3, ExitKeepsTcpInv
<1> QED BY <1>2, <1>3 DEF Tcp!Fork

\* The second fork: the grandchild c takes the client over, and nobody waits for it.
LEMMA ForkAgainKeepsTcpInv ==
  ASSUME TcpInv, NEW p \in Tcp!Procs, Tcp!ForkAgain(p)
  PROVE  TcpInv'
<1> USE DEF TcpInv, TcpTypes
<1>1. at[p] = "fork2" /\ UNCHANGED <<queue, user>>
  BY DEF Tcp!ForkAgain
<1>2. CASE Tcp!Free # {}
  <2>0. PICK c \in Tcp!Procs : c = Tcp!NewProc /\ at[c] = "none"
    BY <1>2, NewProcIsFree
  <2>1. c # p
    BY <1>1, <2>0
  <2>2. /\ at' = [at EXCEPT ![c] = "read", ![p] = IF parent[p] = 0 THEN "none" ELSE "zombie"]
        /\ parent' = [parent EXCEPT ![c] = 0]
        /\ ret' = [ret EXCEPT ![c] = ret[p]]
        /\ open' = [open EXCEPT ![c] = open[p], ![p] = {}]
    BY <1>2, <2>0 DEF Tcp!ForkAgain
  <2>3. parent[c] = 0 /\ parent' = parent
    BY <2>0, <2>2 DEF TcpTree
  <2>4. TcpTypes'
    BY <1>1, <2>2, <2>3
  <2>5. TcpTree'
    <3>1. \A q \in Tcp!Procs : at'[q] = "wait" <=> at[q] = "wait"
      BY <1>1, <2>0, <2>1, <2>2
    <3>2. \A q \in Tcp!Procs : parent[q] # 0 => parent[q] \in Tcp!Procs
      BY ProgramsAssumption DEF Tcp!Procs
    <3>3. \A q \in Tcp!Procs : parent[q] # 0 => at'[q] # "none"
      BY <2>1, <2>2, <2>3 DEF TcpTree
    <3>4. \A q \in Tcp!Procs : at'[q] \in {"none", "zombie"} => open'[q] = {}
      BY <2>1, <2>2 DEF TcpTree
    <3> QED BY <2>3, <3>1, <3>2, <3>3, <3>4 DEF TcpTree
  <2>6. TcpQueue'
    BY <1>1, <2>1, <2>2 DEF TcpQueue
  <2>7. TcpServed'
    <3>1. \A q \in Tcp!Procs : Tcp!Serving(q)' => q # p
      BY <2>1, <2>2 DEF Tcp!Serving
    <3>2. \A q \in Tcp!Procs : Tcp!Serving(q)' /\ q # c =>
             Tcp!Serving(q) /\ ret'[q] = ret[q] /\ open'[q] = open[q]
      BY <2>2, <3>1 DEF Tcp!Serving
    <3>3. Tcp!Serving(c)' => Tcp!Serving(p) /\ ret'[c] = ret[p] /\ open'[c] = open[p]
      BY <1>1, <2>1, <2>2 DEF Tcp!Serving
    <3> QED BY <3>1, <3>2, <3>3 DEF TcpServed
  <2> QED BY <2>4, <2>5, <2>6, <2>7
<1>3. CASE Tcp!Free = {}
  <2>1. at' = [at EXCEPT ![p] = "read"] /\ UNCHANGED <<parent, ret, open>>
    BY <1>3 DEF Tcp!ForkAgain, Tcp!Goto
  <2> QED BY <1>1, <2>1 DEF TcpTree, TcpQueue, TcpServed, Tcp!Serving
<1> QED BY <1>2, <1>3

\* waitpid: the one child is gone, and its parent accepts again.
LEMMA WaitKeepsTcpInv ==
  ASSUME TcpInv, NEW p \in Tcp!Procs, Tcp!Wait(p)
  PROVE  TcpInv'
<1> USE DEF TcpInv, TcpTypes
<1>1. at[p] = "wait" /\ UNCHANGED <<ret, open, queue, user>>
  BY DEF Tcp!Wait
<1>2. PICK c \in Tcp!Procs :
        /\ parent[c] = p /\ at[c] = "zombie"
        /\ at' = [at EXCEPT ![c] = "none", ![p] = "accept"]
        /\ parent' = [parent EXCEPT ![c] = 0]
  BY DEF Tcp!Wait
<1>3. p # 0
  BY ProgramsAssumption DEF Tcp!Procs
<1>4. \A q \in Tcp!Procs : parent[q] = p => q = c
  BY <1>2, <1>3 DEF TcpTree
<1>5. TcpTypes'
  BY <1>1, <1>2, ProgramsAssumption
<1>6. TcpTree'
  <2>1. \A q \in Tcp!Procs : parent'[q] # 0 => q # c /\ parent'[q] = parent[q] /\ parent[q] # p
    BY <1>2, <1>4
  <2>2. \A q \in Tcp!Procs : parent[q] # 0 => parent[q] \in Tcp!Procs
    BY ProgramsAssumption DEF Tcp!Procs
  <2>3. \A q \in Tcp!Procs : at[q] = "wait" /\ q # p => at'[q] = "wait"
    BY <1>1, <1>2
  <2>4. \A q \in Tcp!Procs : parent'[q] # 0 => at'[parent'[q]] = "wait" /\ at'[q] # "none"
    BY <1>1, <1>2, <2>1, <2>2, <2>3 DEF TcpTree
  <2>5. \A q \in Tcp!Procs : at'[q] = "wait" => at[q] = "wait" /\ q # p
    BY <1>1, <1>2
  <2>6. \A q \in Tcp!Procs : at'[q] = "wait" => \E r \in Tcp!Procs : parent'[r] = q
    <3> SUFFICES ASSUME NEW q \in Tcp!Procs, at'[q] = "wait"
                 PROVE  \E r \in Tcp!Procs : parent'[r] = q
      OBVIOUS
    <3>1. PICK r \in Tcp!Procs : parent[r] = q
      BY <2>5 DEF TcpTree
    <3>2. r # c
      BY <1>2, <2>5, <3>1
    <3> QED BY <1>2, <3>1, <3>2
  <2>7. \A q, r \in Tcp!Procs : parent'[q] = parent'[r] /\ parent'[q] # 0 => q = r
    BY <2>1 DEF TcpTree
  <2>8. \A q \in Tcp!Procs : at'[q] \in {"none", "zombie"} => open'[q] = {}
    BY <1>1, <1>2 DEF TcpTree
  <2> QED BY <2>4, <2>6, <2>7, <2>8 DEF TcpTree
<1>7. TcpQueue'
  BY <1>1 DEF TcpQueue
<1>8. TcpServed'
  <2>1. \A q \in Tcp!Procs : Tcp!Serving(q)' => Tcp!Serving(q)
    BY <1>1, <1>2 DEF Tcp!Serving
  <2> QED BY <1>1, <2>1 DEF TcpServed
<1> QED BY <1>5, <1>6, <1>7, <1>8

\* A read takes a text or, at the end, closes the socket.
LEMMA ReadKeepsTcpInv ==
  ASSUME TcpInv, NEW p \in Tcp!Procs, Tcp!Read(p)
  PROVE  TcpInv'
<1> USE DEF TcpInv, TcpTypes
<1>1. at[p] = "read" /\ UNCHANGED <<parent, ret, queue, user>>
  BY DEF Tcp!Read, Tcp!ReadTurn, Tcp!ReadThread, Tcp!ReadProcess
<1>2. \/ UNCHANGED <<at, open>>
      \/ UNCHANGED open /\ at' = [at EXCEPT ![p] = "spin"]
      \/ open' = [open EXCEPT ![p] = @ \ {ret[p]}] /\ at' = [at EXCEPT ![p] = "accept"]
  BY DEF Tcp!Read, Tcp!ReadTurn, Tcp!ReadThread, Tcp!ReadProcess, Tcp!Text,
         Tcp!CloseAndAccept, Tcp!Goto
<1>3. CASE UNCHANGED <<at, open>>
  BY <1>1, <1>3 DEF TcpTree, TcpQueue, TcpServed, Tcp!Serving
<1>4. CASE UNCHANGED open /\ at' = [at EXCEPT ![p] = "spin"]
  BY <1>1, <1>4, MoveKeepsTcpInv
<1>5. CASE open' = [open EXCEPT ![p] = @ \ {ret[p]}] /\ at' = [at EXCEPT ![p] = "accept"]
  <2>1. TcpTypes' /\ TcpTree'
    BY <1>1, <1>5 DEF TcpTree
  <2>2. TcpQueue'
    BY <1>1, <1>5 DEF TcpQueue
  <2>3. \A q \in Tcp!Procs : Tcp!Serving(q)' => Tcp!Serving(q) /\ q # p
    BY <1>1, <1>5 DEF Tcp!Serving
  <2>4. TcpServed'
    BY <1>1, <1>5, <2>3 DEF TcpServed
  <2> QED BY <2>1, <2>2, <2>4
<1> QED BY <1>2, <1>3, <1>4, <1>5

LEMMA TcpKeepsInv ==
  ASSUME TcpInv, Tcp!TcpNext
  PROVE  TcpInv'
<1> USE DEF TcpInv, TcpTypes
<1>0. 1 \in Tcp!Procs
  BY ProgramsAssumption DEF Tcp!Procs
<1>1. CASE Tcp!Startup
  <2>1. /\ at[1] = "start" /\ UNCHANGED <<ret, queue, user>>
        /\ \/ at' = [at EXCEPT ![1] = "accept"] /\ UNCHANGED <<parent, open>>
           \/ Tcp!Exits(1)
    BY <1>1 DEF Tcp!Startup, Tcp!StartTurn, Tcp!StartThread, Tcp!StartProcess, Tcp!Goto
  <2> QED BY <1>0, <2>1, MoveKeepsTcpInv, ExitKeepsTcpInv
<1>2. ASSUME NEW p \in Tcp!Procs, Tcp!Accept(p)
      PROVE  TcpInv'
  <2>1. /\ at[p] = "accept" /\ UNCHANGED user
        /\ \/ /\ Tcp!Takes(p) /\ UNCHANGED parent
              /\ at' = [at EXCEPT ![p] = "read"] \/ at' = [at EXCEPT ![p] = "fork"]
           \/ /\ Tcp!Exits(p) /\ UNCHANGED ret
              /\ queue' = queue \/ (queue # <<>> /\ queue' = Tail(queue))
           \/ /\ ret' = [ret EXCEPT ![p] = NoSock] /\ at' = [at EXCEPT ![p] = "fork"]
              /\ UNCHANGED <<open, queue, parent>>
    BY <1>2 DEF Tcp!Accept, Tcp!AcceptTurn, Tcp!AcceptThread, Tcp!AcceptProcess, Tcp!Goto
  <2>2. CASE ret' = [ret EXCEPT ![p] = NoSock] /\ at' = [at EXCEPT ![p] = "fork"]
             /\ UNCHANGED <<open, queue, parent>>
    <3>1. \A q \in Tcp!Procs : Tcp!Serving(q)' => Tcp!Serving(q) /\ ret'[q] = ret[q]
      BY <2>1, <2>2 DEF Tcp!Serving
    <3> QED BY <2>1, <2>2, <3>1 DEF TcpTree, TcpQueue, TcpServed
  <2> QED BY <2>1, <2>2, TakesKeepsTcpInv, ExitKeepsTcpInv
<1> QED
  BY <1>1, <1>2, ForkKeepsTcpInv, ForkAgainKeepsTcpInv, WaitKeepsTcpInv, ReadKeepsTcpInv,
     ClientsKeepTcpInv
  DEF Tcp!TcpNext, Tcp!Serves

LEMMA TcpInvHolds == ProgramsSpec => []TcpInv
<1>1. ASSUME TcpInv, [ProgramsNext]_allVars
      PROVE  TcpInv'
  <2>1. Tcp!TcpNext \/ UNCHANGED tcpVars
    BY <1>1 DEF ProgramsNext, allVars, ListRuns, TcpRuns, SemRuns, SleepRuns, CrawlerRuns,
                CtlRuns, PairRuns, SqlRuns
  <2>2. CASE UNCHANGED tcpVars
    BY <1>1, <2>2 DEF tcpVars, TcpInv, TcpTypes, TcpTree, TcpQueue, TcpServed, Tcp!Serving
  <2> QED BY <1>1, <2>1, <2>2, TcpKeepsInv
<1> QED BY TcpInitInv, <1>1, PTL DEF ProgramsSpec

\* The TCP servers: however many processes fork, fail to fork and come back to
\* accept, a client has one reader, whose table has its socket.
THEOREM ReadersAreAlone == ProgramsSpec => []OneReaderEach
<1>1. TcpInv => OneReaderEach
  BY DEF TcpInv, TcpServed, OneReaderEach, Tcp!OneReaderEach
<1> QED BY TcpInvHolds, <1>1, PTL

\* proc_socket: a process has one child while it waits for it, and none otherwise.
THEOREM WaitedFor == ProgramsSpec => []ChildrenAreAwaited
<1>1. ASSUME TcpInv
      PROVE  ChildrenAreAwaited
  <2> USE DEF TcpInv, TcpTypes
  <2>1. ASSUME NEW p \in Tcp!Procs
        PROVE  Cardinality({q \in Tcp!Procs : parent[q] = p}) = IF at[p] = "wait" THEN 1 ELSE 0
    <3>1. p # 0
      BY ProgramsAssumption DEF Tcp!Procs
    <3>2. CASE at[p] = "wait"
      <4>1. PICK c \in Tcp!Procs : parent[c] = p
        BY <1>1, <3>2 DEF TcpTree
      <4>2. {q \in Tcp!Procs : parent[q] = p} = {c}
        BY <1>1, <3>1, <4>1 DEF TcpTree
      <4> QED BY <3>2, <4>2, FS_Singleton
    <3>3. CASE at[p] # "wait"
      <4>1. {q \in Tcp!Procs : parent[q] = p} = {}
        BY <1>1, <3>1, <3>3 DEF TcpTree
      <4> QED BY <3>3, <4>1, FS_EmptySet
    <3> QED BY <3>2, <3>3
  <2>2. \A p \in Tcp!Procs : at[p] = "none" => open[p] = {} /\ parent[p] = 0
    BY <1>1 DEF TcpTree
  <2> QED BY <2>1, <2>2, SameCardinality DEF ChildrenAreAwaited, Tcp!ChildrenAreAwaited
<1> QED BY TcpInvHolds, <1>1, PTL

-----------------------------------------------------------------------------
(* sql_cgi *)

\* How many members of a set of places are at n or before it.
CountTo(S, n) == Cardinality({p \in S : p <= n})

LEMMA CountingOn ==
  ASSUME NEW m \in Nat, NEW S, \A p \in S : p \in 1..m
  PROVE  /\ CountTo(S, 0) = 0
         /\ \A n \in Nat : CountTo(S, n) \in Nat
         /\ \A n \in Nat : \A k \in 0..n : CountTo(S, k) <= CountTo(S, n)
         /\ \A n \in Nat \ {0} :
               CountTo(S, n) = CountTo(S, n - 1) + (IF n \in S THEN 1 ELSE 0)
<1> DEFINE UpTo(n) == {p \in S : p <= n}
<1>1. IsFiniteSet(S)
  <2>1. IsFiniteSet(1..m)
    BY FS_Interval
  <2> QED BY <2>1, FS_Subset
<1>2. \A n \in Nat : IsFiniteSet(UpTo(n)) /\ Cardinality(UpTo(n)) \in Nat
  BY <1>1, FS_Subset, FS_CardinalityType
<1>3. \A n \in Nat : \A k \in 0..n : Cardinality(UpTo(k)) <= Cardinality(UpTo(n))
  <2> SUFFICES ASSUME NEW n \in Nat, NEW k \in 0..n
               PROVE  Cardinality(UpTo(k)) <= Cardinality(UpTo(n))
    OBVIOUS
  <2>1. UpTo(k) \subseteq UpTo(n)
    OBVIOUS
  <2> QED BY <1>2, <2>1, FS_Subset
<1>4. ASSUME NEW n \in Nat \ {0}
      PROVE  Cardinality(UpTo(n)) = Cardinality(UpTo(n - 1)) + (IF n \in S THEN 1 ELSE 0)
  <2>0. n - 1 \in Nat
    OBVIOUS
  <2>1. CASE n \in S
    <3>1. \A p \in S : p <= n <=> p <= n - 1 \/ p = n
      OBVIOUS
    <3>2. n \notin UpTo(n - 1)
      OBVIOUS
    <3>3. UpTo(n) = UpTo(n - 1) \union {n}
      <4>1. \A p : p \in UpTo(n) <=> p \in UpTo(n - 1) \union {n}
        BY <2>1, <3>1
      <4> QED BY <4>1
    <3>4. IsFiniteSet(UpTo(n - 1))
      BY <1>2, <2>0
    <3> HIDE DEF UpTo
    <3> QED BY <2>1, <3>2, <3>3, <3>4, FS_AddElement
  <2>2. CASE n \notin S
    <3>1. UpTo(n) = UpTo(n - 1)
      BY <2>2
    <3>2. Cardinality(UpTo(n - 1)) \in Nat
      BY <1>2, <2>0
    <3> HIDE DEF UpTo
    <3> QED BY <2>2, <3>1, <3>2
  <2> QED BY <2>1, <2>2
<1>5. Cardinality(UpTo(0)) = 0
  <2>1. UpTo(0) = {}
    OBVIOUS
  <2> QED BY <2>1, FS_EmptySet
<1>6. \A n : CountTo(S, n) = Cardinality(UpTo(n))
  BY DEF CountTo
<1> HIDE DEF UpTo
<1> QED BY <1>2, <1>3, <1>4, <1>5, <1>6

LEMMA WrittenCounts ==
  ASSUME query \in Seq(Sql!Chars)
  PROVE  /\ Sql!Written(0) = 0
         /\ \A n \in Nat : Sql!Written(n) \in Nat
         /\ \A n \in Nat : \A k \in 0..n : Sql!Written(k) <= Sql!Written(n)
         /\ \A n \in Nat \ {0} :
               Sql!Written(n) = Sql!Written(n - 1) + (IF n \in Sql!Emitting THEN 1 ELSE 0)
                                                   + (IF n \in Sql!Commas THEN 1 ELSE 0)
<1> DEFINE E == Sql!Emitting
           C == Sql!Commas
           N == Len(query) + 1
<1>1. N \in Nat /\ (\A p \in E : p \in 1..N) /\ (\A p \in C : p \in 1..N)
  BY DEF Sql!Emitting, Sql!Commas
<1>2. \A n \in Nat : Sql!Written(n) = CountTo(E, n) + CountTo(C, n)
  BY SameCardinality DEF Sql!Written, CountTo
<1> HIDE DEF E, C, N
<1>3. /\ CountTo(E, 0) = 0 /\ CountTo(C, 0) = 0
      /\ \A n \in Nat : CountTo(E, n) \in Nat /\ CountTo(C, n) \in Nat
  BY <1>1, CountingOn
<1>4. Sql!Written(0) = 0 /\ \A n \in Nat : Sql!Written(n) \in Nat
  <2>1. Sql!Written(0) = CountTo(E, 0) + CountTo(C, 0)
    BY <1>2
  <2>2. ASSUME NEW n \in Nat
        PROVE  Sql!Written(n) \in Nat
    <3>1. Sql!Written(n) = CountTo(E, n) + CountTo(C, n)
      BY <1>2
    <3>2. CountTo(E, n) \in Nat /\ CountTo(C, n) \in Nat
      BY <1>3
    <3> QED BY <3>1, <3>2
  <2>3. Sql!Written(0) = 0
    BY <1>3, <2>1
  <2> QED BY <2>2, <2>3
<1>5. ASSUME NEW n \in Nat, NEW k \in 0..n
      PROVE  Sql!Written(k) <= Sql!Written(n)
  <2>1. k \in Nat
    OBVIOUS
  <2>2. CountTo(E, k) <= CountTo(E, n) /\ CountTo(C, k) <= CountTo(C, n)
    BY <1>1, CountingOn
  <2> QED BY <1>2, <1>3, <2>1, <2>2
<1>6. ASSUME NEW n \in Nat \ {0}
      PROVE  Sql!Written(n) = Sql!Written(n - 1) + (IF n \in E THEN 1 ELSE 0)
                                                 + (IF n \in C THEN 1 ELSE 0)
  <2>1. n - 1 \in Nat
    OBVIOUS
  <2>2. /\ CountTo(E, n) = CountTo(E, n - 1) + (IF n \in E THEN 1 ELSE 0)
        /\ CountTo(C, n) = CountTo(C, n - 1) + (IF n \in C THEN 1 ELSE 0)
    BY <1>1, CountingOn
  <2>3. /\ Sql!Written(n) = CountTo(E, n) + CountTo(C, n)
        /\ Sql!Written(n - 1) = CountTo(E, n - 1) + CountTo(C, n - 1)
    BY <1>2, <2>1
  <2>4. CountTo(E, n - 1) \in Nat /\ CountTo(C, n - 1) \in Nat
    BY <1>3, <2>1
  <2> QED BY <2>2, <2>3, <2>4
<1> QED BY <1>4, <1>5, <1>6 DEF E, C

\* get_data() has turned the places in front of i into str; it is in its inner loop
\* when a '=' of the part is behind, and a list that such a loop does not end has a
\* comma at its end.
SqlTexts ==
    /\ query \in Seq(Sql!Chars)
    /\ str \in Seq(Sql!Chars \union {"quote", "comma"})
    /\ i \in 1..Len(query) + 1
    /\ inside \in BOOLEAN

SqlParse ==
    line = "parse" => \A p : p = i =>
        /\ method = "GET"
        /\ inside = TRUE <=> Sql!InValue(p)
        /\ Sql!Wrote(p - 1)
        /\ ~Sql!InValue(p) /\ str # <<>> => str[Len(str)] = "comma"

SqlParsed ==
    line # "parse" =>
        /\ IF method = "GET" THEN Sql!Wrote(Len(query) + 1) ELSE str = <<>>
        /\ Len(query) + 1 \notin Sql!Emitting /\ str # <<>> => str[Len(str)] = "comma"

SqlInserts ==
    /\ line = "insert" => str # <<>>
    /\ line # "done" => rows = <<>>
    /\ \/ rows = <<>>
       \/ /\ method = "GET"
          /\ Sql!Marked \/ (rows = <<str>> /\ Len(query) + 1 \in Sql!Emitting)

SqlInv == SqlTexts /\ SqlParse /\ SqlParsed /\ SqlInserts

\* What holds of the query alone stays.
LEMMA QueryStays ==
  ASSUME UNCHANGED query
  PROVE  /\ Sql!Emitting' = Sql!Emitting /\ Sql!Commas' = Sql!Commas
         /\ \A n : Sql!Written(n)' = Sql!Written(n) /\ Sql!Quoted(n)' = Sql!Quoted(n)
         /\ \A n : Sql!InValue(n)' <=> Sql!InValue(n)
         /\ Sql!Marked' <=> Sql!Marked
<1>6. Sql!Marked' <=> Sql!Marked
  BY DEF Sql!Marked
<1>1. \A n : Sql!InValue(n)' <=> Sql!InValue(n)
  BY DEF Sql!InValue
<1>2. Sql!Emitting' = Sql!Emitting
  BY <1>1 DEF Sql!Emitting
<1>3. Sql!Commas' = Sql!Commas
  BY <1>2 DEF Sql!Commas
<1>4. \A n : Sql!Written(n)' = Sql!Written(n)
  BY <1>2, <1>3 DEF Sql!Written
<1>5. \A n : Sql!Quoted(n)' = Sql!Quoted(n)
  BY <1>1 DEF Sql!Quoted
<1> QED BY <1>1, <1>2, <1>3, <1>4, <1>5, <1>6

\* One place more: what is in front of it stays where it was written.
LEMMA WritesOn ==
  ASSUME SqlTexts, query' = query,
         NEW p \in 1..Len(query) + 1, Sql!Wrote(p - 1),
         Len(str') = Sql!Written(p),
         \A n \in 1..Len(str) : str'[n] = str[n],
         p \in Sql!Emitting => str'[Len(str) + 1] = Sql!Quoted(p),
         p \in Sql!Commas => str'[Len(str')] = "comma"
  PROVE  Sql!Wrote(p)'
<1>0. query \in Seq(Sql!Chars)
  BY DEF SqlTexts
<1>1. query \in Seq(Sql!Chars) /\ Len(query) \in Nat
  BY <1>0
<1>2. p - 1 \in Nat /\ p \in Nat /\ p > 0
  BY <1>1
<1>3. Len(str) = Sql!Written(p - 1) /\ Len(str) \in Nat
  BY <1>1, <1>2, WrittenCounts DEF Sql!Wrote
<1>4. Sql!Emitting \subseteq 1..Len(query) + 1 /\ Sql!Commas \subseteq Sql!Emitting
  BY DEF Sql!Emitting, Sql!Commas
<1>5. ASSUME NEW r \in Sql!Emitting, r <= p
      PROVE  str'[Sql!Written(r - 1) + 1] = Sql!Quoted(r)
  <2>1. CASE r = p
    BY <1>3, <2>1
  <2>2. CASE r # p
    <3>1. r \in Nat \ {0} /\ r - 1 \in Nat /\ r \in 0..p - 1
      BY <1>1, <1>2, <1>4, <1>5, <2>2
    <3>2. Sql!Written(r - 1) \in Nat /\ Sql!Written(r) \in Nat /\ Sql!Written(r) <= Sql!Written(p - 1)
      BY <1>1, <1>2, <3>1, WrittenCounts
    <3>3. Sql!Written(r) >= Sql!Written(r - 1) + 1
      <4>1. Sql!Written(r) = Sql!Written(r - 1) + 1 + (IF r \in Sql!Commas THEN 1 ELSE 0)
        BY <1>1, <3>1, WrittenCounts
      <4> QED BY <3>2, <4>1
    <3>4. Sql!Written(r - 1) + 1 \in 1..Len(str)
      BY <1>3, <3>2, <3>3
    <3>5. str[Sql!Written(r - 1) + 1] = Sql!Quoted(r)
      BY <1>2, <3>1 DEF Sql!Wrote
    <3> QED BY <3>4, <3>5
  <2> QED BY <2>1, <2>2
<1>6. ASSUME NEW r \in Sql!Commas, r <= p
      PROVE  str'[Sql!Written(r)] = "comma"
  <2>1. CASE r = p
    BY <2>1
  <2>2. CASE r # p
    <3>1. r \in Nat \ {0} /\ r - 1 \in Nat /\ r \in 0..p - 1
      BY <1>1, <1>2, <1>4, <1>6, <2>2
    <3>2. Sql!Written(r - 1) \in Nat /\ Sql!Written(r) \in Nat /\ Sql!Written(r) <= Sql!Written(p - 1)
      BY <1>1, <1>2, <3>1, WrittenCounts
    <3>3. Sql!Written(r) = Sql!Written(r - 1) + 1 + 1
      BY <1>1, <1>4, <3>1, WrittenCounts
    <3>4. Sql!Written(r) \in 1..Len(str)
      BY <1>3, <3>2, <3>3
    <3>5. str[Sql!Written(r)] = "comma"
      BY <1>2, <3>1 DEF Sql!Wrote
    <3> QED BY <3>4, <3>5
  <2> QED BY <2>1, <2>2
<1> QED BY <1>5, <1>6, QueryStays DEF Sql!Wrote

LEMMA WroteStays ==
  ASSUME query' = query, str' = str
  PROVE  \A n : Sql!Wrote(n)' <=> Sql!Wrote(n)
BY QueryStays DEF Sql!Wrote

\* Behind a place of the query: a '=' is behind it if one was in front of it, or if
\* it is one itself, unless it is a '&'.
LEMMA InValueOn ==
  ASSUME query \in Seq(Sql!Chars), NEW p \in 1..Len(query)
  PROVE  Sql!InValue(p + 1) <=> query[p] # "amp" /\ (Sql!InValue(p) \/ query[p] = "eq")
<1>0. Len(query) \in Nat
  OBVIOUS
<1>1. ASSUME Sql!InValue(p + 1)
      PROVE  query[p] # "amp" /\ (Sql!InValue(p) \/ query[p] = "eq")
  <2>1. PICK f \in 1..p : query[f] = "eq" /\ \A r \in f..p : query[r] # "amp"
    <3>1. p + 1 - 1 = p
      BY <1>0
    <3> QED BY <1>1, <3>1 DEF Sql!InValue
  <2>2. p \in f..p
    BY <1>0
  <2>3. CASE f = p
    BY <2>1, <2>2, <2>3
  <2>4. CASE f # p
    <3>1. f \in 1..p - 1 /\ \A r \in f..p - 1 : r \in f..p
      BY <1>0, <2>4
    <3>2. Sql!InValue(p)
      BY <2>1, <3>1 DEF Sql!InValue
    <3> QED BY <2>1, <2>2, <3>2
  <2> QED BY <2>3, <2>4
<1>2. ASSUME query[p] # "amp", Sql!InValue(p)
      PROVE  Sql!InValue(p + 1)
  <2>1. PICK f \in 1..p - 1 : query[f] = "eq" /\ \A r \in f..p - 1 : query[r] # "amp"
    BY <1>2 DEF Sql!InValue
  <2>2. f \in 1..p + 1 - 1 /\ \A r \in f..p + 1 - 1 : r \in f..p - 1 \/ r = p
    BY <1>0
  <2>3. \A r \in f..p + 1 - 1 : query[r] # "amp"
    BY <1>2, <2>1, <2>2
  <2> QED BY <2>1, <2>2, <2>3 DEF Sql!InValue
<1>3. ASSUME query[p] = "eq"
      PROVE  Sql!InValue(p + 1)
  <2>1. p \in 1..p + 1 - 1 /\ \A r \in p..p + 1 - 1 : r = p
    BY <1>0
  <2>2. \A r \in p..p + 1 - 1 : query[r] # "amp"
    BY <1>3, <2>1
  <2> QED BY <1>3, <2>1, <2>2 DEF Sql!InValue
<1> QED BY <1>1, <1>2, <1>3

LEMMA SqlInitInv == ProgramsInit => SqlInv
<1> SUFFICES ASSUME Sql!SqlInit PROVE SqlInv
  BY DEF ProgramsInit
<1>1. query \in Seq(Sql!Chars)
  BY DEF Sql!SqlInit, Sql!Queries
<1>2. i = 1 /\ str = <<>> /\ rows = <<>>
  BY DEF Sql!SqlInit
<1>3. SqlTexts
  <2>1. Len(query) \in Nat /\ i \in 1..Len(query) + 1
    BY <1>1, <1>2
  <2>2. str \in Seq(Sql!Chars \union {"quote", "comma"})
    BY <1>2
  <2>3. inside \in BOOLEAN
    BY DEF Sql!SqlInit
  <2> QED BY <1>1, <2>1, <2>2, <2>3 DEF SqlTexts
<1>4. ~Sql!InValue(1)
  BY DEF Sql!InValue
<1>5. Sql!Wrote(0)
  <2>1. Len(str) = Sql!Written(0)
    BY <1>1, <1>2, WrittenCounts
  <2>2. \A p \in Sql!Emitting : ~(p <= 0)
    BY DEF Sql!Emitting
  <2>3. \A p \in Sql!Commas : ~(p <= 0)
    BY <2>2 DEF Sql!Commas
  <2> QED BY <2>1, <2>2, <2>3 DEF Sql!Wrote
<1>6. SqlParse
  <2>1. line = "parse" => method = "GET"
    BY DEF Sql!SqlInit
  <2>2. inside # TRUE
    BY DEF Sql!SqlInit
  <2>3. Sql!Wrote(i - 1)
    BY <1>2, <1>5
  <2> QED BY <1>2, <1>4, <2>1, <2>2, <2>3 DEF SqlParse
<1>7. SqlParsed
  <2>1. line # "parse" => method # "GET" \/ query = <<>>
    BY DEF Sql!SqlInit
  <2>2. ASSUME query = <<>>
        PROVE  Sql!Wrote(Len(query) + 1)
    <3>1. Len(query) = 0
      BY <2>2
    <3>2. Sql!Emitting = {}
      <4>1. \A p \in 1..1 : ~Sql!InValue(p)
        BY DEF Sql!InValue
      <4> QED BY <3>1, <4>1 DEF Sql!Emitting
    <3>3. Sql!Commas = {}
      BY <3>2 DEF Sql!Commas
    <3>4. 1 \in Nat \ {0} /\ 1 - 1 = 0
      OBVIOUS
    <3>5. Sql!Written(1) = 0
      BY <1>1, <3>2, <3>3, <3>4, WrittenCounts
    <3>6. Len(str) = Sql!Written(1)
      BY <1>2, <3>5
    <3> QED BY <3>1, <3>2, <3>3, <3>6 DEF Sql!Wrote
  <2> QED BY <1>2, <2>1, <2>2 DEF SqlParsed
<1>8. SqlInserts
  <2>1. line # "insert"
    BY DEF Sql!SqlInit
  <2> QED BY <1>2, <2>1 DEF SqlInserts
<1> QED BY <1>3, <1>6, <1>7, <1>8 DEF SqlInv

\* What the inner and outer loop append.
LEMMA Appends ==
  ASSUME NEW S, NEW s \in Seq(S), NEW e \in S, NEW d \in S
  PROVE  /\ Append(s, e) \in Seq(S) /\ Len(Append(s, e)) = Len(s) + 1
         /\ \A n \in 1..Len(s) : Append(s, e)[n] = s[n]
         /\ Append(s, e)[Len(s) + 1] = e
         /\ s \o <<e>> = Append(s, e)
         /\ s \o <<e, d>> = Append(Append(s, e), d)
OBVIOUS

\* The counts at the place that is next.
LEMMA WrittenHere ==
  ASSUME SqlTexts, Sql!Wrote(i - 1)
  PROVE  /\ Len(str) \in Nat
         /\ i \notin Sql!Emitting => i \notin Sql!Commas /\ Sql!Written(i) = Len(str)
         /\ i \in Sql!Emitting /\ i \notin Sql!Commas => Sql!Written(i) = Len(str) + 1
         /\ i \in Sql!Commas => i \in Sql!Emitting /\ Sql!Written(i) = Len(str) + 1 + 1
<1>0. query \in Seq(Sql!Chars)
  BY DEF SqlTexts
<1>1. Len(query) \in Nat /\ i \in 1..Len(query) + 1
  BY <1>0 DEF SqlTexts
<1>2. i \in Nat \ {0} /\ i - 1 \in Nat
  BY <1>1
<1>3. Len(str) = Sql!Written(i - 1) /\ Len(str) \in Nat
  BY <1>0, <1>2, WrittenCounts DEF Sql!Wrote
<1>4. Sql!Written(i) = Sql!Written(i - 1) + (IF i \in Sql!Emitting THEN 1 ELSE 0)
                                          + (IF i \in Sql!Commas THEN 1 ELSE 0)
  BY <1>0, <1>2, WrittenCounts
<1>5. Sql!Commas \subseteq Sql!Emitting
  BY DEF Sql!Commas
<1> QED BY <1>3, <1>4, <1>5

LEMMA OuterKeepsSqlInv ==
  ASSUME SqlInv, Sql!Outer
  PROVE  SqlInv'
<1>1. /\ line = "parse" /\ inside # TRUE /\ query' = query /\ method' = method /\ rows' = rows
      /\ line' = (IF Sql!Char = "nul" THEN "parsed" ELSE "parse")
      /\ i' = (IF Sql!Char = "nul" THEN i ELSE i + 1)
      /\ str' = (IF Sql!Char = "eq" THEN Append(str, "quote") ELSE str)
  BY DEF Sql!Outer
<1>2. /\ SqlTexts /\ query \in Seq(Sql!Chars) /\ i \in 1..Len(query) + 1
      /\ str \in Seq(Sql!Chars \union {"quote", "comma"})
  BY DEF SqlInv, SqlTexts
<1>3. /\ method = "GET" /\ Sql!Wrote(i - 1) /\ ~Sql!InValue(i)
      /\ str # <<>> => str[Len(str)] = "comma"
  BY <1>1 DEF SqlInv, SqlParse
<1>4. Len(query) \in Nat /\ Len(str) \in Nat /\ i \in Nat
  BY <1>2
<1>5. inside' \in BOOLEAN /\ (inside' = TRUE <=> Sql!Char = "eq")
  BY DEF Sql!Outer
<1>6. rows' = <<>>
  BY <1>1 DEF SqlInv, SqlInserts
<1>7. SqlInserts'
  BY <1>1, <1>6 DEF SqlInserts
<1>8. CASE Sql!Char = "nul"
  <2>1. i = Len(query) + 1
    <3>1. i \notin 1..Len(query)
      BY <1>2, <1>8 DEF Sql!Char, Sql!Chars
    <3> QED BY <1>2, <1>4, <3>1
  <2>2. i \notin Sql!Emitting
    BY <1>3, <1>4, <2>1 DEF Sql!Emitting
  <2>3. str' = str /\ i' = i /\ line' = "parsed"
    BY <1>1, <1>8
  <2>4. Sql!Wrote(i)'
    BY <1>1, <1>2, <1>3, <2>2, <2>3, WrittenHere, WritesOn
  <2>5. SqlTexts'
    BY <1>1, <1>2, <1>5, <2>3 DEF SqlTexts
  <2>6. SqlParsed'
    BY <1>1, <1>3, <2>1, <2>3, <2>4 DEF SqlParsed
  <2>7. SqlParse'
    BY <2>3 DEF SqlParse
  <2> QED BY <1>7, <2>5, <2>6, <2>7 DEF SqlInv
<1>9. ASSUME Sql!Char # "nul", NEW p, p = i
      PROVE  SqlInv'
  <2>1. p \in 1..Len(query) /\ query[p] = Sql!Char /\ i' = p + 1 /\ line' = "parse"
    BY <1>1, <1>2, <1>4, <1>9 DEF Sql!Char
  <2>2. i' - 1 = p /\ i' \in 1..Len(query) + 1
    BY <1>4, <1>9, <2>1
  <2>3. Sql!InValue(p + 1)' <=> query[p] = "eq"
    <3>1. Sql!InValue(p + 1) <=> query[p] = "eq"
      BY <1>2, <1>3, <1>9, <2>1, InValueOn
    <3> QED BY <1>1, <3>1, QueryStays
  <2>4. SqlParsed'
    BY <2>1 DEF SqlParsed
  <2>5. CASE query[p] = "eq"
    <3>1. p \in Sql!Emitting /\ p \notin Sql!Commas /\ Sql!Quoted(p) = "quote"
      BY <1>3, <1>4, <1>9, <2>1, <2>5 DEF Sql!Emitting, Sql!Commas, Sql!Quoted
    <3>2. str' = Append(str, "quote")
      BY <1>1, <2>1, <2>5
    <3>3. /\ str' \in Seq(Sql!Chars \union {"quote", "comma"}) /\ Len(str') = Len(str) + 1
          /\ \A n \in 1..Len(str) : str'[n] = str[n]
          /\ str'[Len(str) + 1] = "quote"
      BY <1>2, <3>2, Appends
    <3>4. Len(str') = Sql!Written(p)
      BY <1>2, <1>3, <1>9, <3>1, <3>3, WrittenHere
    <3>5. Sql!Wrote(p)'
      BY <1>1, <1>2, <1>3, <1>9, <3>1, <3>3, <3>4, WritesOn
    <3>6. SqlTexts'
      BY <1>1, <1>2, <1>5, <2>2, <3>3 DEF SqlTexts
    <3>7. SqlParse'
      BY <1>1, <1>3, <1>5, <2>1, <2>2, <2>3, <2>5, <3>5 DEF SqlParse
    <3> QED BY <1>7, <2>4, <3>6, <3>7 DEF SqlInv
  <2>6. CASE query[p] # "eq"
    <3>1. p \notin Sql!Emitting /\ p \notin Sql!Commas
      BY <1>3, <1>9, <2>6 DEF Sql!Emitting, Sql!Commas
    <3>2. str' = str
      BY <1>1, <2>1, <2>6
    <3>3. Len(str') = Sql!Written(p)
      BY <1>2, <1>3, <1>9, <3>1, <3>2, WrittenHere
    <3>4. Sql!Wrote(p)'
      BY <1>1, <1>2, <1>3, <1>9, <3>1, <3>2, <3>3, WritesOn
    <3>5. SqlTexts'
      BY <1>1, <1>2, <1>5, <2>2, <3>2 DEF SqlTexts
    <3>6. SqlParse'
      BY <1>1, <1>3, <1>5, <2>1, <2>2, <2>3, <2>6, <3>2, <3>4 DEF SqlParse
    <3> QED BY <1>7, <2>4, <3>5, <3>6 DEF SqlInv
  <2> QED BY <2>5, <2>6
<1> QED BY <1>8, <1>9

\* In the inner loop.
LEMMA InnerLoop ==
  ASSUME SqlInv, line = "parse", inside = TRUE
  PROVE  /\ SqlTexts /\ query \in Seq(Sql!Chars) /\ Len(query) \in Nat
         /\ i \in 1..Len(query) + 1 /\ i \in Sql!Emitting
         /\ str \in Seq(Sql!Chars \union {"quote", "comma"}) /\ Len(str) \in Nat
         /\ method = "GET" /\ Sql!Wrote(i - 1) /\ Sql!InValue(i) /\ rows = <<>>
<1>1. /\ SqlTexts /\ query \in Seq(Sql!Chars) /\ i \in 1..Len(query) + 1
      /\ str \in Seq(Sql!Chars \union {"quote", "comma"})
  BY DEF SqlInv, SqlTexts
<1>3. method = "GET" /\ Sql!Wrote(i - 1) /\ Sql!InValue(i) /\ rows = <<>>
  BY DEF SqlInv, SqlParse, SqlInserts
<1>4. Len(query) \in Nat /\ Len(str) \in Nat
  BY <1>1
<1>5. i \in Sql!Emitting
  BY <1>1, <1>3 DEF Sql!Emitting
<1> QED BY <1>1, <1>3, <1>4, <1>5

LEMMA CopyKeepsSqlInv ==
  ASSUME SqlInv, Sql!Copy
  PROVE  SqlInv'
<1> SUFFICES ASSUME NEW p, p = i
             PROVE  SqlInv'
  OBVIOUS
<1>1. /\ line = "parse" /\ Sql!Char # "amp" /\ Sql!Char # "nul"
      /\ str' = Append(str, Sql!Char) /\ i' = p + 1
      /\ query' = query /\ method' = method /\ line' = line /\ rows' = rows
  BY DEF Sql!Copy
<1>2. inside = TRUE /\ inside' = TRUE
  BY DEF Sql!Copy, SqlInv, SqlTexts
<1>3. /\ SqlTexts /\ query \in Seq(Sql!Chars) /\ Len(query) \in Nat
      /\ p \in 1..Len(query) + 1 /\ p \in Sql!Emitting
      /\ str \in Seq(Sql!Chars \union {"quote", "comma"}) /\ Len(str) \in Nat
      /\ method = "GET" /\ Sql!Wrote(p - 1) /\ Sql!InValue(p) /\ rows = <<>>
  BY <1>1, <1>2, InnerLoop
<1>4. p \in 1..Len(query) /\ query[p] = Sql!Char /\ query[p] # "amp"
  BY <1>1, <1>3 DEF Sql!Char
<1>5. p \notin Sql!Commas /\ Sql!Quoted(p) = query[p]
  BY <1>3, <1>4 DEF Sql!Commas, Sql!Quoted
<1>6. query[p] \in Sql!Chars \union {"quote", "comma"}
  BY <1>3, <1>4
<1>7. /\ str' \in Seq(Sql!Chars \union {"quote", "comma"}) /\ Len(str') = Len(str) + 1
      /\ \A n \in 1..Len(str) : str'[n] = str[n]
      /\ str'[Len(str) + 1] = query[p]
  BY <1>1, <1>3, <1>4, <1>6, Appends
<1>8. Len(str') = Sql!Written(p)
  BY <1>3, <1>5, <1>7, WrittenHere
<1>9. Sql!Wrote(p)'
  BY <1>1, <1>3, <1>5, <1>7, <1>8, WritesOn
<1>10. Sql!InValue(p + 1)'
  BY <1>1, <1>3, <1>4, InValueOn, QueryStays
<1>11. i' - 1 = p /\ i' \in 1..Len(query) + 1
  BY <1>1, <1>3, <1>4
<1>12. SqlTexts'
  BY <1>1, <1>2, <1>3, <1>7, <1>11 DEF SqlTexts
<1>13. SqlParse'
  BY <1>1, <1>2, <1>3, <1>9, <1>10, <1>11 DEF SqlParse
<1>14. SqlParsed' /\ SqlInserts'
  BY <1>1, <1>3 DEF SqlParsed, SqlInserts
<1> QED BY <1>12, <1>13, <1>14 DEF SqlInv

LEMMA CloseKeepsSqlInv ==
  ASSUME SqlInv, Sql!Close
  PROVE  SqlInv'
<1> SUFFICES ASSUME NEW p, p = i
             PROVE  SqlInv'
  OBVIOUS
<1> DEFINE S == Sql!Chars \union {"quote", "comma"}
<1>1. /\ line = "parse" /\ Sql!Char \in {"amp", "nul"}
      /\ str' = str \o (IF Sql!Char = "amp" THEN <<"quote", "comma">> ELSE <<"quote">>)
      /\ query' = query /\ method' = method /\ rows' = rows
      /\ IF Sql!Char = "amp" THEN i' = p + 1 /\ line' = line ELSE line' = "parsed" /\ i' = i
  BY DEF Sql!Close
<1>2. inside = TRUE /\ inside' = FALSE
  BY DEF Sql!Close, SqlInv, SqlTexts
<1>3. /\ SqlTexts /\ query \in Seq(Sql!Chars) /\ Len(query) \in Nat
      /\ p \in 1..Len(query) + 1 /\ p \in Sql!Emitting
      /\ str \in Seq(S) /\ Len(str) \in Nat
      /\ method = "GET" /\ Sql!Wrote(p - 1) /\ Sql!InValue(p) /\ rows = <<>>
  BY <1>1, <1>2, InnerLoop
<1>4. SqlInserts'
  BY <1>1, <1>3 DEF SqlInserts
<1>5. "quote" \in S /\ "comma" \in S
  OBVIOUS
<1>6. CASE Sql!Char = "amp"
  <2>1. p \in 1..Len(query) /\ query[p] = "amp" /\ i' = p + 1 /\ line' = "parse"
    BY <1>1, <1>3, <1>6 DEF Sql!Char
  <2>2. p \in Sql!Commas /\ Sql!Quoted(p) = "quote"
    BY <1>3, <2>1 DEF Sql!Commas, Sql!Quoted
  <2>3. PICK s : s = Append(str, "quote")
    OBVIOUS
  <2> HIDE DEF S
  <2>4. /\ s \in Seq(S) /\ Len(s) = Len(str) + 1 /\ s[Len(str) + 1] = "quote"
        /\ \A n \in 1..Len(str) : s[n] = str[n]
    BY <1>3, <1>5, <2>3, Appends
  <2>5. str' = Append(s, "comma")
    <3>1. str' = str \o <<"quote", "comma">>
      BY <1>1, <1>6
    <3> QED BY <1>3, <1>5, <2>3, <3>1, Appends
  <2>6. /\ str' \in Seq(S) /\ Len(str') = Len(s) + 1 /\ str'[Len(s) + 1] = "comma"
        /\ \A n \in 1..Len(s) : str'[n] = s[n]
    BY <1>5, <2>4, <2>5, Appends
  <2>7. /\ Len(str') = Len(str) + 1 + 1 /\ str'[Len(str')] = "comma"
        /\ str'[Len(str) + 1] = "quote" /\ \A n \in 1..Len(str) : str'[n] = str[n]
    <3>1. Len(s) + 1 = Len(str') /\ Len(str) + 1 \in 1..Len(s) /\ \A n \in 1..Len(str) : n \in 1..Len(s)
      BY <1>3, <2>4, <2>6
    <3> QED BY <2>4, <2>6, <3>1
  <2>8. Len(str') = Sql!Written(p)
    BY <1>3, <2>2, <2>7, WrittenHere
  <2>9. Sql!Wrote(p)'
    BY <1>1, <1>3, <2>2, <2>7, <2>8, WritesOn
  <2>10. ~Sql!InValue(p + 1)'
    BY <1>1, <1>3, <2>1, InValueOn, QueryStays
  <2>11. i' - 1 = p /\ i' \in 1..Len(query) + 1
    BY <1>3, <2>1
  <2>12. SqlTexts'
    BY <1>1, <1>2, <1>3, <2>6, <2>11 DEF SqlTexts, S
  <2>13. SqlParse'
    BY <1>1, <1>2, <1>3, <2>1, <2>7, <2>9, <2>10, <2>11 DEF SqlParse
  <2>14. SqlParsed'
    BY <2>1 DEF SqlParsed
  <2> QED BY <1>4, <2>12, <2>13, <2>14 DEF SqlInv
<1>7. CASE Sql!Char = "nul"
  <2>1. p = Len(query) + 1
    <3>1. p \notin 1..Len(query)
      BY <1>3, <1>7 DEF Sql!Char, Sql!Chars
    <3> QED BY <1>3, <3>1
  <2>2. p \notin Sql!Commas /\ Sql!Quoted(p) = "quote"
    BY <1>3, <2>1 DEF Sql!Commas, Sql!Quoted
  <2>3. line' = "parsed" /\ i' = i
    BY <1>1, <1>7
  <2> HIDE DEF S
  <2>4. str' = Append(str, "quote")
    <3>1. str' = str \o <<"quote">>
      BY <1>1, <1>7
    <3> QED BY <1>3, <1>5, <3>1, Appends
  <2>5. /\ str' \in Seq(S) /\ Len(str') = Len(str) + 1 /\ str'[Len(str) + 1] = "quote"
        /\ \A n \in 1..Len(str) : str'[n] = str[n]
    BY <1>3, <1>5, <2>4, Appends
  <2>6. Len(str') = Sql!Written(p)
    BY <1>3, <2>2, <2>5, WrittenHere
  <2>7. Sql!Wrote(p)'
    BY <1>1, <1>3, <2>2, <2>5, <2>6, WritesOn
  <2>8. SqlTexts'
    BY <1>1, <1>2, <1>3, <2>3, <2>5 DEF SqlTexts, S
  <2>9. SqlParsed'
    <3>1. Len(query') + 1 = p /\ Sql!Emitting' = Sql!Emitting
      BY <1>1, <2>1, QueryStays
    <3>2. Sql!Wrote(Len(query) + 1)'
      BY <2>7, <3>1 DEF Sql!Wrote
    <3> QED BY <1>1, <1>3, <3>1, <3>2 DEF SqlParsed
  <2>10. SqlParse'
    BY <2>3 DEF SqlParse
  <2> QED BY <1>4, <2>8, <2>9, <2>10 DEF SqlInv
<1> QED BY <1>1, <1>6, <1>7

\* Behind get_data() neither the query nor str changes.
LEMMA ParsedKeepsSqlInv ==
  ASSUME SqlInv, UNCHANGED <<query, method, i, inside, str>>,
         \/ line # "parse" /\ line' # "parse"
         \/ line = "parse" /\ line' = "parse",
         SqlInserts'
  PROVE  SqlInv'
<1>1. SqlTexts'
  BY DEF SqlInv, SqlTexts
<1>2. /\ Sql!Emitting' = Sql!Emitting
      /\ \A n : Sql!Wrote(n)' <=> Sql!Wrote(n)
      /\ \A n : Sql!InValue(n)' <=> Sql!InValue(n)
  BY QueryStays, WroteStays
<1>3. SqlParse'
  BY <1>2 DEF SqlInv, SqlParse
<1>4. SqlParsed'
  <2>1. Sql!Wrote(Len(query) + 1)' <=> Sql!Wrote(Len(query) + 1)
    <3>1. PICK n : n = Len(query) + 1
      OBVIOUS
    <3>2. n = Len(query') + 1
      BY <3>1
    <3> QED BY <1>2, <3>1, <3>2 DEF Sql!Wrote
  <2> QED BY <1>2, <2>1 DEF SqlInv, SqlParsed
<1> QED BY <1>1, <1>3, <1>4 DEF SqlInv

LEMMA SqlInvHolds == ProgramsSpec => []SqlInv
<1>1. ASSUME SqlInv, [ProgramsNext]_allVars
      PROVE  SqlInv'
  <2>1. CASE Sql!Outer \/ Sql!Copy \/ Sql!Close
    BY <1>1, <2>1, OuterKeepsSqlInv, CopyKeepsSqlInv, CloseKeepsSqlInv
  <2>2. CASE Sql!Parsed
    <3>1. SqlInserts'
      BY <1>1, <2>2 DEF Sql!Parsed, SqlInv, SqlInserts
    <3> QED BY <1>1, <2>2, <3>1, ParsedKeepsSqlInv DEF Sql!Parsed
  <2>3. CASE Sql!Connect
    <3>1. SqlInserts'
      BY <1>1, <2>3 DEF Sql!Connect, SqlInv, SqlInserts
    <3> QED BY <1>1, <2>3, <3>1, ParsedKeepsSqlInv DEF Sql!Connect
  <2>4. CASE Sql!Insert
    <3>1. /\ line = "insert" /\ line' \in {"failed", "done"} /\ str # <<>> /\ rows = <<>>
          /\ UNCHANGED <<query, method, i, inside, str>>
          /\ \/ UNCHANGED rows
             \/ str[Len(str)] # "comma" /\ line' = "done" /\ rows' = Append(rows, str)
             \/ Sql!Marked /\ line' = "done" /\ rows' = Append(rows, <<"unknown">>)
      BY <1>1, <2>4 DEF Sql!Insert, SqlInv, SqlInserts
    <3>2. CASE UNCHANGED rows
      BY <1>1, <3>1, <3>2, ParsedKeepsSqlInv DEF SqlInserts
    <3>3. CASE str[Len(str)] # "comma" /\ line' = "done" /\ rows' = Append(rows, str)
      <4>1. method = "GET" /\ Len(query) + 1 \in Sql!Emitting
        BY <1>1, <3>1, <3>3 DEF SqlInv, SqlParsed
      <4>2. rows' = <<str'>>
        BY <3>1, <3>3
      <4>3. Len(query') + 1 \in Sql!Emitting'
        BY <3>1, <4>1, QueryStays
      <4>4. SqlInserts'
        BY <3>1, <3>3, <4>1, <4>2, <4>3 DEF SqlInserts
      <4> QED BY <1>1, <3>1, <4>4, ParsedKeepsSqlInv
    <3>4. CASE Sql!Marked /\ line' = "done"
      <4>1. method = "GET"
        BY <1>1, <3>1 DEF SqlInv, SqlParsed
      <4>2. SqlInserts'
        BY <3>1, <3>4, <4>1, QueryStays DEF SqlInserts
      <4> QED BY <1>1, <3>1, <3>4, <4>2, ParsedKeepsSqlInv
    <3> QED BY <3>1, <3>2, <3>3, <3>4
  <2>5. CASE Sql!Select
    <3>1. SqlInserts'
      BY <1>1, <2>5, QueryStays DEF Sql!Select, SqlInv, SqlInserts
    <3> QED BY <1>1, <2>5, <3>1, ParsedKeepsSqlInv DEF Sql!Select
  <2>6. CASE UNCHANGED sqlVars
    <3>1. SqlInserts'
      BY <1>1, <2>6, QueryStays DEF sqlVars, SqlInv, SqlInserts
    <3> QED BY <1>1, <2>6, <3>1, ParsedKeepsSqlInv DEF sqlVars
  <2>7. CASE Sql!NoQuery
    <3>1. SqlInserts'
      BY <1>1, <2>7, QueryStays DEF Sql!NoQuery, SqlInv, SqlInserts
    <3> QED BY <1>1, <2>7, <3>1, ParsedKeepsSqlInv DEF Sql!NoQuery
  <2> QED BY <1>1, <2>1, <2>2, <2>3, <2>4, <2>5, <2>6, <2>7, EachStep DEF Sql!SqlNext
<1> QED BY SqlInitInv, <1>1, PTL DEF ProgramsSpec

\* get_data() of the SQL programs: the values of every query are written once and in
\* their order; a row of a query without marked characters is those values, and the
\* last part of such a query has one.
THEOREM EachPartWritten == ProgramsSpec => []EachPartOnce
<1>1. SqlInv => Sql!EachPartOnce
  <2> SUFFICES ASSUME SqlInv PROVE Sql!EachPartOnce
    OBVIOUS
  <2>1. i <= Len(query) + 1
    <3>1. query \in Seq(Sql!Chars) /\ i \in 1..Len(query) + 1
      BY DEF SqlInv, SqlTexts
    <3> QED BY <3>1
  <2>2. line # "parse" =>
           IF method = "GET" THEN Sql!Wrote(Len(query) + 1) ELSE str = <<>>
    BY DEF SqlInv, SqlParsed
  <2>3. ASSUME ~Sql!Marked, NEW n \in 1..Len(rows)
        PROVE  rows[n] = str /\ Len(query) + 1 \in Sql!Emitting
    <3>1. rows # <<>>
      BY <2>3
    <3>2. rows = <<str>> /\ Len(query) + 1 \in Sql!Emitting
      BY <2>3, <3>1 DEF SqlInv, SqlInserts
    <3> QED BY <2>3, <3>2
  <2>4. method # "GET" => rows = <<>>
    BY DEF SqlInv, SqlInserts
  <2> QED BY <2>1, <2>2, <2>3, <2>4 DEF Sql!EachPartOnce
<1> QED BY SqlInvHolds, <1>1, PTL DEF EachPartOnce

-----------------------------------------------------------------------------
(* The types of all programs *)

\* sem: a removed set leaves nothing behind, and is removed Removals times at most.
SemBounds ==
    /\ sets <= Removals + 1
    /\ set = 0 => value = 0 /\ sets <= Removals

LEMMA SemTypesHold == ProgramsSpec => []Sem!SemTypeOK
<1> USE ProgramsAssumption
<1>1. ProgramsInit => SemBounds
  BY DEF ProgramsInit, Sem!SemInit, SemBounds
<1>2. ASSUME SemInv, SemBounds, [ProgramsNext]_allVars
      PROVE  SemBounds'
  <2> USE <1>2 DEF SemInv, SemTypes, SemBounds
  <2>1. ASSUME NEW p \in Starts, Sem!Creat(p) \/ Sem!Set(p) \/ Sem!P(p)
        PROVE  SemBounds'
    BY <2>1 DEF Sem!Creat, Sem!NewSet, Sem!Set, Sem!P, Sem!Valid
  <2>2. ASSUME NEW p \in Starts, Sem!Ends(p)
        PROVE  SemBounds'
    <3>1. set = 0 => undo[p] = 0
      BY DEF SemValue, Inside, Sem!Valid
    <3> QED BY <2>2, <3>1 DEF Sem!Ends
  <2>3. CASE Sem!Remove
    BY <2>3 DEF Sem!Remove
  <2>4. CASE UNCHANGED semVars
    BY <2>4 DEF semVars
  <2> QED BY <2>1, <2>2, <2>3, <2>4, EachStep DEF Sem!SemNext
<1>3. ASSUME SemInv, SemBounds
      PROVE  Sem!SemTypeOK
  <2> USE <1>3 DEF SemInv, SemTypes, SemBounds
  <2>1. value \in 0..1
    <3>1. ready = TRUE \/ ready = FALSE
      OBVIOUS
    <3> QED BY <3>1 DEF SemValue
  <2>2. semid \in [Starts -> 0..sets]
    BY DEF SemMakers
  <2>3. sets \in 0..Removals + 1 /\ set \in 0..sets /\ undo \in [Starts -> 0..1]
    OBVIOUS
  <2>4. ready \in BOOLEAN
    OBVIOUS
  <2> QED BY <2>1, <2>2, <2>3, <2>4 DEF Sem!SemTypeOK
<1> QED BY <1>1, <1>2, <1>3, SemInvHolds, PTL DEF ProgramsSpec

LEMMA SleepTypesHold == ProgramsSpec => []Sleep!SleepTypeOK
<1>1. ProgramsInit => Sleep!SleepTypeOK
  BY DEF ProgramsInit, Sleep!SleepInit, Sleep!SleepTypeOK
<1>2. ASSUME Sleep!SleepTypeOK, [ProgramsNext]_allVars
      PROVE  Sleep!SleepTypeOK'
  <2> USE <1>2 DEF Sleep!SleepTypeOK
  <2>1. CASE Sleep!Sleeper
    BY <2>1 DEF Sleep!Sleeper, Sleep!Block, Sleep!Handle, Sleep!Alarm, Sleep!Suspend,
                Sleep!Cancel, Sleep!Default, Sleep!Restore
  <2>2. CASE Sleep!GoesOff
    BY <2>2 DEF Sleep!GoesOff
  <2>3. CASE UNCHANGED sleepVars
    BY <2>3 DEF sleepVars
  <2> QED BY <2>1, <2>2, <2>3, EachStep DEF Sleep!SleepNext
<1> QED BY <1>1, <1>2, PTL DEF ProgramsSpec

\* crawler: a page that raises may be counted, the others are counted when they are
\* fetched.
CrawlCount == old_url \subseteq Pages /\ count \in 0..MaxCount

LEMMA CrawlTypesHold == ProgramsSpec => []Craw!CrawlTypeOK
<1> USE ProgramsAssumption
<1>1. ProgramsInit => CrawlCount
  BY DEF ProgramsInit, Craw!CrawlInit, CrawlCount
<1>2. ASSUME CrawlInv, CrawlCount, [ProgramsNext]_allVars
      PROVE  CrawlCount'
  <2> USE <1>2 DEF CrawlInv, CrawlTypes, CrawlCount
  <2>1. CASE Craw!Crawl
    BY <2>1 DEF Craw!Crawl
  <2>2. CASE Craw!Finish \/ Craw!Output \/ UNCHANGED crawlVars
    BY <2>2 DEF Craw!Finish, Craw!Output, crawlVars
  <2> QED BY <2>1, <2>2, EachStep DEF Craw!CrawlNext
<1>3. CrawlInv /\ CrawlCount => Craw!CrawlTypeOK
  BY DEF CrawlInv, CrawlTypes, CrawlCount, Craw!CrawlTypeOK
<1> QED BY <1>1, <1>2, <1>3, CrawlInvHolds, PTL DEF ProgramsSpec

LEMMA CtlTypesHold == ProgramsSpec => []Ctl!CtlTypeOK
<1> USE ProgramsAssumption
<1>1. ProgramsInit => Ctl!CtlTypeOK
  <2> SUFFICES ASSUME Ctl!CtlInit PROVE Ctl!CtlTypeOK
    BY DEF ProgramsInit
  <2>1. {daemonized, restarting, held} \subseteq BOOLEAN
    BY DEF Ctl!CtlInit
  <2> QED BY <2>1 DEF Ctl!CtlInit, Ctl!CtlTypeOK
<1>2. ASSUME Ctl!CtlTypeOK, [ProgramsNext]_allVars
      PROVE  Ctl!CtlTypeOK'
  <2> USE <1>2 DEF Ctl!CtlTypeOK, Ctl!Exists, Ctl!Listed, Ctl!AfterStop
  <2>0. pidfile = {} \/ \E S \in SUBSET Ctl!Servers : pidfile = {S}
    OBVIOUS
  <2>1. CASE Ctl!Command \/ Ctl!Start \/ Ctl!Wait \/ Ctl!Kill \/ Ctl!Remove
    BY <2>1 DEF Ctl!Command, Ctl!Start, Ctl!Wait, Ctl!Kill, Ctl!Remove
  <2>2. CASE Ctl!Bin \/ Ctl!ComesUp
    BY <2>2 DEF Ctl!Bin, Ctl!ComesUp, Ctl!Servers
  <2>7. CASE Ctl!Interrupt
    BY <2>7 DEF Ctl!Interrupt, Ctl!Servers
  <2>3. CASE Ctl!Pidof
    BY <2>3 DEF Ctl!Pidof
  <2>4. CASE Ctl!Stop
    <3>1. UNION pidfile \subseteq Ctl!Servers
      BY <2>0
    <3> QED BY <2>4, <3>1 DEF Ctl!Stop
  <2>5. CASE Ctl!ServerEnds \/ Ctl!ProgramEnds
    BY <2>5 DEF Ctl!ServerEnds, Ctl!ProgramEnds
  <2>6. CASE UNCHANGED ctlVars
    BY <2>6 DEF ctlVars
  <2> QED BY <2>1, <2>2, <2>3, <2>4, <2>5, <2>6, <2>7, EachStep DEF Ctl!CtlNext
<1> QED BY <1>1, <1>2, PTL DEF ProgramsSpec

LEMMA PairTypesHold == ProgramsSpec => []Pair!PairTypeOK
<1>1. ProgramsInit => Pair!PairTypeOK
  BY DEF ProgramsInit, Pair!PairInit, Pair!PairTypeOK
<1>2. ASSUME Pair!PairTypeOK, [ProgramsNext]_allVars
      PROVE  Pair!PairTypeOK'
  <2> USE <1>2 DEF Pair!PairTypeOK, Pair!Keep
  <2>1. ASSUME NEW p \in Pair!Both, Pair!CloseOther(p)
        PROVE  Pair!PairTypeOK'
    BY <2>1 DEF Pair!CloseOther
  <2>2. ASSUME NEW p \in Pair!Both, Pair!Write(p)
        PROVE  Pair!PairTypeOK'
    BY ZenonT(60), <2>2 DEF Pair!Write, Pair!Ends, Pair!Other, Pair!Both
  <2>3. ASSUME NEW p \in Pair!Both, Pair!Read(p)
        PROVE  Pair!PairTypeOK'
    BY <2>3 DEF Pair!Read, Pair!Ends
  <2>4. ASSUME NEW p \in Pair!Both, Pair!Killed(p)
        PROVE  Pair!PairTypeOK'
    BY <2>4 DEF Pair!Killed, Pair!Ends
  <2>5. CASE UNCHANGED pairVars
    BY <2>5 DEF pairVars
  <2> QED BY <2>1, <2>2, <2>3, <2>4, <2>5, EachStep DEF Pair!PairNext, Pair!Talks
<1> QED BY <1>1, <1>2, PTL DEF ProgramsSpec

\* sql_cgi: a program inserts one row, and that is the last it does.
SqlRows ==
    /\ Sql!SqlTypeOK
    /\ line # "done" => rows = <<>>

LEMMA SqlTypesHold == ProgramsSpec => []Sql!SqlTypeOK
<1>0. Len(<<>>) = 0 /\ \A e : Len(Append(<<>>, e)) = 1
  OBVIOUS
<1>1. ProgramsInit => SqlRows
  <2> SUFFICES ASSUME Sql!SqlInit PROVE SqlRows
    BY DEF ProgramsInit
  <2>1. rows = <<>> /\ Len(rows) <= 1
    BY <1>0 DEF Sql!SqlInit
  <2>2. inside \in BOOLEAN
    BY DEF Sql!SqlInit
  <2> QED BY <2>1, <2>2 DEF Sql!SqlInit, SqlRows, Sql!SqlTypeOK
<1>2. ASSUME SqlRows, [ProgramsNext]_allVars
      PROVE  SqlRows'
  <2> USE <1>0, <1>2 DEF SqlRows, Sql!SqlTypeOK
  <2>1. CASE Sql!Outer
    <3>1. inside' \in BOOLEAN
      BY <2>1 DEF Sql!Outer
    <3> QED BY <2>1, <3>1 DEF Sql!Outer
  <2>2. CASE Sql!Copy
    BY <2>2 DEF Sql!Copy
  <2>3. CASE Sql!Close
    BY <2>3 DEF Sql!Close
  <2>4. CASE Sql!Parsed
    BY <2>4 DEF Sql!Parsed
  <2>5. CASE Sql!Connect
    BY <2>5 DEF Sql!Connect
  <2>6. CASE Sql!Insert
    <3>1. PICK e : rows = <<>> /\ (rows' = rows \/ rows' = Append(<<>>, e))
      BY <2>6 DEF Sql!Insert
    <3>2. Len(rows') <= 1
      <4>1. CASE rows' = rows
        BY <3>1, <4>1
      <4>2. CASE rows' = Append(<<>>, e)
        <5>1. Len(Append(<<>>, e)) = 1
          BY <1>0
        <5> QED BY <4>2, <5>1
      <4> QED BY <3>1, <4>1, <4>2
    <3> QED BY <2>6, <3>1, <3>2 DEF Sql!Insert
  <2>7. CASE Sql!Select
    BY <2>7 DEF Sql!Select
  <2>8. CASE UNCHANGED sqlVars
    BY <2>8 DEF sqlVars
  <2>9. CASE Sql!NoQuery
    BY <2>9 DEF Sql!NoQuery
  <2> QED BY <2>1, <2>2, <2>3, <2>4, <2>5, <2>6, <2>7, <2>8, <2>9, EachStep DEF Sql!SqlNext
<1>3. SqlRows => Sql!SqlTypeOK
  BY DEF SqlRows
<1> QED BY <1>1, <1>2, <1>3, PTL DEF ProgramsSpec

\* The TCP servers: a table stays finite and within its limit, however often it is
\* copied.
TcpBounds ==
    /\ \A p \in Tcp!Procs : IsFiniteSet(open[p]) /\ Cardinality(open[p]) <= MaxOpen
    /\ unread \in [Users -> 0..1]

\* What a table may become: empty, a part of itself, a copy, or one socket more in a
\* table that is not full.
LEMMA TableKept ==
  ASSUME NEW old, NEW new, IsFiniteSet(old), Cardinality(old) <= MaxOpen,
         \/ new \subseteq old
         \/ \E c : new = old \union {c} /\ Cardinality(old) < MaxOpen
  PROVE  IsFiniteSet(new) /\ Cardinality(new) <= MaxOpen
<1>1. Cardinality(old) \in Nat /\ MaxOpen \in Nat
  BY FS_CardinalityType, ProgramsAssumption
<1>2. CASE new \subseteq old
  <2>1. IsFiniteSet(new) /\ Cardinality(new) <= Cardinality(old) /\ Cardinality(new) \in Nat
    BY <1>2, FS_Subset, FS_CardinalityType
  <2> QED BY <1>1, <2>1
<1>3. ASSUME NEW c, new = old \union {c}, Cardinality(old) < MaxOpen
      PROVE  IsFiniteSet(new) /\ Cardinality(new) <= MaxOpen
  <2>1. IsFiniteSet(new) /\ (Cardinality(new) = Cardinality(old) \/ Cardinality(new) = Cardinality(old) + 1)
    BY <1>3, FS_AddElement
  <2> QED BY <1>1, <1>3, <2>1
<1> QED BY <1>2, <1>3

\* Every step of the TCP servers does one of these to each table.
LEMMA TablesMove ==
  ASSUME TcpInv, Tcp!TcpNext
  PROVE  \A p \in Tcp!Procs :
            \/ open'[p] \subseteq open[p]
            \/ \E c : open'[p] = open[p] \union {c} /\ Cardinality(open[p]) < MaxOpen
            \/ \E q \in Tcp!Procs : open'[p] = open[q]
<1> USE SameCardinality, ProgramsAssumption DEF TcpInv, TcpTypes, Tcp!Procs
<1>0. 1 \in Tcp!Procs
  OBVIOUS
<1>1. ASSUME NEW p \in Tcp!Procs, Tcp!Exits(p)
      PROVE  \A q \in Tcp!Procs : open'[q] \subseteq open[q]
  BY <1>1 DEF Tcp!Exits
<1>2. CASE Tcp!Startup
  BY <1>0, <1>1, <1>2 DEF Tcp!Startup, Tcp!StartTurn, Tcp!StartThread, Tcp!StartProcess
<1>3. ASSUME NEW p \in Tcp!Procs, Tcp!Takes(p)
      PROVE  \A q \in Tcp!Procs :
                \/ open'[q] \subseteq open[q]
                \/ \E c : open'[q] = open[q] \union {c} /\ Cardinality(open[q]) < MaxOpen
  BY <1>3 DEF Tcp!Takes
<1>4. ASSUME NEW p \in Tcp!Procs, Tcp!Accept(p)
      PROVE  Tcp!Takes(p) \/ Tcp!Exits(p) \/ UNCHANGED open
  BY <1>4 DEF Tcp!Accept, Tcp!AcceptTurn, Tcp!AcceptThread, Tcp!AcceptProcess
<1>5. ASSUME NEW p \in Tcp!Procs, NEW c, NEW there, NEW here, Tcp!Child(p, c, there, here)
      PROVE  \A q \in Tcp!Procs : \E r \in Tcp!Procs : open'[q] = open[r]
  BY <1>5 DEF Tcp!Child
<1>6. ASSUME NEW p \in Tcp!Procs, Tcp!Fork(p)
      PROVE  Tcp!Exits(p) \/ \A q \in Tcp!Procs : \E r \in Tcp!Procs : open'[q] = open[r]
  BY <1>5, <1>6 DEF Tcp!Fork
<1>7. ASSUME NEW p \in Tcp!Procs, Tcp!ForkAgain(p)
      PROVE  \A q \in Tcp!Procs :
                open'[q] \subseteq open[q] \/ \E r \in Tcp!Procs : open'[q] = open[r]
  BY <1>7 DEF Tcp!ForkAgain
<1>8. ASSUME NEW p \in Tcp!Procs, Tcp!Wait(p) \/ Tcp!Read(p)
      PROVE  \A q \in Tcp!Procs : open'[q] \subseteq open[q]
  BY <1>8 DEF Tcp!Wait, Tcp!Read, Tcp!ReadTurn, Tcp!ReadThread, Tcp!ReadProcess, Tcp!Text,
              Tcp!CloseAndAccept
<1>9. ASSUME NEW c \in Users, Tcp!Arrive(c) \/ Tcp!Send(c) \/ Tcp!Depart(c)
      PROVE  UNCHANGED open
  BY <1>9 DEF Tcp!Arrive, Tcp!Send, Tcp!Depart
<1> QED
  BY <1>1, <1>2, <1>3, <1>4, <1>6, <1>7, <1>8, <1>9 DEF Tcp!TcpNext, Tcp!Serves

LEMMA TcpTypesHold == ProgramsSpec => []Tcp!TcpTypeOK
<1> USE ProgramsAssumption
<1>1. ProgramsInit => TcpBounds
  <2> SUFFICES ASSUME Tcp!TcpInit PROVE TcpBounds
    BY DEF ProgramsInit
  <2>1. IsFiniteSet({}) /\ Cardinality({}) = 0
    BY FS_EmptySet
  <2> QED BY <2>1 DEF Tcp!TcpInit, TcpBounds
<1>2. ASSUME TcpInv, TcpBounds, [ProgramsNext]_allVars
      PROVE  TcpBounds'
  <2>1. CASE UNCHANGED tcpVars
    BY <1>2, <2>1 DEF tcpVars, TcpBounds
  <2>2. CASE Tcp!TcpNext
    <3>1. ASSUME NEW p \in Tcp!Procs
          PROVE  IsFiniteSet(open'[p]) /\ Cardinality(open'[p]) <= MaxOpen
      <4>1. PICK q \in Tcp!Procs :
               \/ open'[p] \subseteq open[q]
               \/ \E c : open'[p] = open[q] \union {c} /\ Cardinality(open[q]) < MaxOpen
        BY <1>2, <2>2, TablesMove
      <4> QED BY <1>2, <4>1, TableKept DEF TcpBounds
    <3>2. unread' \in [Users -> 0..1]
      <4> USE <1>2 DEF TcpBounds
      <4>1. CASE Tcp!Startup
        BY <4>1 DEF Tcp!Startup, Tcp!StartTurn, Tcp!StartThread, Tcp!StartProcess
      <4>2. ASSUME NEW p \in Tcp!Procs, Tcp!Accept(p) \/ Tcp!Fork(p) \/ Tcp!ForkAgain(p) \/ Tcp!Wait(p)
            PROVE  unread' \in [Users -> 0..1]
        BY <4>2 DEF Tcp!Accept, Tcp!AcceptTurn, Tcp!AcceptThread, Tcp!AcceptProcess, Tcp!Fork,
                    Tcp!ForkAgain, Tcp!Wait
      <4>3. ASSUME NEW p \in Tcp!Procs, Tcp!Read(p)
            PROVE  unread' \in [Users -> 0..1]
        BY <4>3 DEF Tcp!Read, Tcp!ReadTurn, Tcp!ReadThread, Tcp!ReadProcess, Tcp!Text,
                    Tcp!CloseAndAccept
      <4>4. ASSUME NEW c \in Users, Tcp!Arrive(c) \/ Tcp!Send(c) \/ Tcp!Depart(c)
            PROVE  unread' \in [Users -> 0..1]
        BY <4>4 DEF Tcp!Arrive, Tcp!Send, Tcp!Depart
      <4> QED BY <2>2, <4>1, <4>2, <4>3, <4>4 DEF Tcp!TcpNext, Tcp!Serves
    <3> QED BY <3>1, <3>2 DEF TcpBounds
  <2> QED BY <1>2, <2>1, <2>2, EachStep
<1>3. TcpInv /\ TcpBounds => Tcp!TcpTypeOK
  BY SameCardinality DEF TcpInv, TcpTypes, TcpBounds, Tcp!TcpTypeOK
<1> QED BY <1>1, <1>2, <1>3, TcpInvHolds, PTL DEF ProgramsSpec

\* The variables of every program keep their types: the semaphore stays binary, a
\* process's table within its limit, and an insertion makes one row.
THEOREM TypeCorrect == ProgramsSpec => []Types
<1>1. ListInv => TypeOK
  BY DEF ListInv
<1> QED
  BY <1>1, ListInvHolds, TcpTypesHold, SemTypesHold, SleepTypesHold, CrawlTypesHold,
     CtlTypesHold, PairTypesHold, SqlTypesHold, PTL
  DEF Types
=============================================================================
