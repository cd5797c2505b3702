---------------------------- MODULE FdTableProofs ----------------------------
(***************************************************************************)
(* What the lowest free number is, for every table, and that numbers have a *)
(* least and a greatest element: the lemmas the proofs about the servers    *)
(* share.                                                                  *)
(***************************************************************************)
EXTENDS FdTable, TLAPS, WellFoundedInduction

\* A set of numbers that is not empty has a least element.
LEMMA LeastNumber ==
  ASSUME NEW T, T \subseteq Nat, T # {}
  PROVE  \E x \in T : \A y \in T : x <= y
<1>1. PICK x \in T : \A y \in T : ~ (<<y, x>> \in OpToRel(<, Nat))
  BY NatLessThanWellFounded, WFMin
<1>2. \A y \in T : x <= y
  <2>1. SUFFICES ASSUME NEW y \in T, y < x PROVE FALSE
    OBVIOUS
  <2>2. <<y, x>> \in Nat \X Nat /\ <<y, x>>[1] < <<y, x>>[2]
    BY <2>1
  <2>3. <<y, x>> \in OpToRel(<, Nat)
    BY <2>2 DEF OpToRel
  <2> QED BY <1>1, <2>3
<1> QED BY <1>2

\* A set of descriptors that is not empty has a greatest element.
LEMMA GreatestFd ==
  ASSUME NEW S, S \subseteq Fds, S # {}
  PROVE  \E f \in S : \A g \in S : g <= f
<1> USE FdAssumption DEF Fds
<1> DEFINE T == {n \in Nat : \E f \in S : n = LastFd - f}
<1>1. \A f \in S : f \in Nat /\ f <= LastFd /\ LastFd - f \in Nat
  OBVIOUS
<1>2. T \subseteq Nat /\ T # {}
  BY <1>1
<1>3. PICK x \in T : \A y \in T : x <= y
  BY <1>2, LeastNumber
<1>4. PICK f \in S : x = LastFd - f
  OBVIOUS
<1>5. \A g \in S : g <= f
  <2>1. SUFFICES ASSUME NEW g \in S PROVE g <= f
    OBVIOUS
  <2>2. LastFd - g \in T
    BY <1>1
  <2>3. LastFd - f <= LastFd - g
    BY <1>3, <1>4, <2>2
  <2>4. f \in Int /\ g \in Int /\ LastFd \in Int
    BY <1>1, FdAssumption
  <2> QED BY <2>3, <2>4
<1> QED BY <1>5

\* open, accept and pipe get a number that was free.
LEMMA LowestFreeIsFree ==
  ASSUME NEW tab, CanOpen(tab)
  PROVE  LowestFree(tab) \in Fds /\ tab[LowestFree(tab)] = Free
<1> DEFINE T == {f \in Fds : tab[f] = Free}
<1>1. T \subseteq Nat /\ T # {}
  BY FdAssumption DEF CanOpen, Fds
<1>2. PICK x \in T : \A y \in T : x <= y
  BY <1>1, LeastNumber
<1>3. x \in Fds /\ tab[x] = Free /\ \A g \in Fds : tab[g] = Free => x <= g
  BY <1>2
<1> QED
  BY <1>3 DEF LowestFree
=============================================================================
