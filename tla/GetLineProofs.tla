--------------------------- MODULE GetLineProofs ---------------------------
(***************************************************************************)
(* What GetLine promises for every stream and every size of the buffer:     *)
(* the types and the shape of the pieces.                                   *)
(***************************************************************************)
EXTENDS GetLine, FiniteSetTheorems, TLAPS

\* Only the last byte of the buffer can be a line end, and with it the loop is
\* over; a loop that ends with room and without a line end is one whose client
\* has stopped, or one of http3.0 that has read nothing.
AllA(s) == \A i \in 1..Len(s) : s[i] = "a"
ALine(s) == \A i \in 1..Len(s) - 1 : s[i] = "a"
Stopped == closed /\ taken = sent

BufInv ==
    /\ Len(buf) <= Size - 1
    /\ at = "recv" /\ c # LF => AllA(buf)
    /\ at = "recv" /\ c = LF /\ ~Stopped =>
         buf = <<>> \/ (Len(buf) > 0 /\ ALine(buf) /\ buf[Len(buf)] = LF)
    /\ at \in {"recv", "end"} => ALine(buf)
    /\ at \in {"peek", "take"} => Len(buf) < Size - 1 /\ AllA(buf)
    /\ at = "take" => taken < sent
    /\ ends # <<>> /\ \A n \in 1..Len(ends) : ends[n] \in 0..Len(got)

IInv == TypeOK /\ BufInv /\ PiecesFit

LEMMA EmptyIsASeq == \A S : <<>> \in Seq(S)
  OBVIOUS

LEMMA InitIInv == Init => IInv
<1> SUFFICES ASSUME Init PROVE IInv
  OBVIOUS
<1>1. stream \in Seq(Bytes)
  BY GetLineAssumption DEF Init
<1>2. Len(stream) \in Nat
  BY <1>1
<1>3. "a" \in Bytes /\ "a" # LF /\ c \in Bytes
  BY DEF Bytes, LF, First, Init
<1>4. TypeOK
  <2>1. closed \in BOOLEAN
    BY DEF Init
  <2>2. buf \in Seq(Bytes) /\ got \in Seq(Bytes) /\ ends \in Seq(Nat)
    BY EmptyIsASeq DEF Init
  <2>3. loop \in {"clear_header", "echo_cgi", "http3.0"} /\ sent \in 0..Len(stream) /\ taken \in 0..sent
    BY <1>2 DEF Init
  <2> QED BY <1>1, <1>3, <2>1, <2>2, <2>3 DEF Init, TypeOK
<1>5. BufInv
  BY <1>3, GetLineAssumption DEF Init, BufInv, AllA, ALine
<1>6. PiecesFit
  BY DEF Init, PiecesFit
<1> QED BY <1>4, <1>5, <1>6 DEF IInv

\* What is appended keeps what is in front of it.
LEMMA StoreInLine ==
  ASSUME TypeOK, AllA(buf), NEW b \in Bytes, b # CR, Store(b)
  PROVE  /\ buf' \in Seq(Bytes) /\ Len(buf') = Len(buf) + 1 /\ c' \in Bytes
         /\ ALine(buf') /\ buf'[Len(buf')] = b
         /\ b # LF => AllA(buf')
<1>1. buf \in Seq(Bytes) /\ buf' = Append(buf, b) /\ c' = b
  BY DEF TypeOK, Store
<1>2. /\ buf' \in Seq(Bytes) /\ Len(buf') = Len(buf) + 1 /\ Len(buf) \in Nat
      /\ buf'[Len(buf) + 1] = b /\ \A i \in 1..Len(buf) : buf'[i] = buf[i]
  BY <1>1
<1>3. ALine(buf') /\ buf'[Len(buf')] = b
  BY <1>2 DEF AllA, ALine
<1>4. ASSUME b # LF
      PROVE  AllA(buf')
  <2>1. b = "a"
    BY <1>4 DEF Bytes
  <2>2. ASSUME NEW i \in 1..Len(buf')
        PROVE  buf'[i] = "a"
    <3>1. CASE i = Len(buf) + 1
      BY <1>2, <2>1, <3>1
    <3>2. CASE i # Len(buf) + 1
      <4>1. i \in 1..Len(buf)
        BY <1>2, <3>2
      <4> QED BY <1>2, <4>1 DEF AllA
    <3> QED BY <3>1, <3>2
  <2> QED BY <2>2 DEF AllA
<1> QED BY <1>1, <1>2, <1>3, <1>4

LEMMA AllIsALine ==
  ASSUME NEW s \in Seq(Bytes), AllA(s)
  PROVE  ALine(s)
  BY DEF AllA, ALine

\* The client sends or stops; once it has stopped, nothing changes any more.
LEMMA ClientKeepsIInv ==
  ASSUME IInv, Send \/ Leave
  PROVE  IInv'
<1> USE DEF IInv, TypeOK
<1>1. /\ UNCHANGED <<loop, stream, taken, at, c, buf, got, ends>>
      /\ closed' \in BOOLEAN /\ (closed => closed')
      /\ sent' \in 0..Len(stream) /\ sent' >= sent /\ (closed => sent' = sent)
  <2>1. CASE Send
    BY <2>1 DEF Send
  <2>2. CASE Leave
    BY <2>2 DEF Leave, client
  <2> QED BY <2>1, <2>2
<1>2. TypeOK'
  BY <1>1
<1>3. Stopped => Stopped'
  BY <1>1 DEF Stopped
<1>4. BufInv'
  BY <1>1, <1>3 DEF BufInv, AllA, ALine
<1>5. PiecesFit'
  BY <1>1, <1>3 DEF PiecesFit, Stopped
<1> QED BY <1>2, <1>4, <1>5

LEMMA PiecesStay ==
  ASSUME PiecesFit, UNCHANGED <<got, ends, closed, sent>>, closed /\ taken = sent => taken' = taken
  PROVE  PiecesFit'
  BY DEF PiecesFit

LEMMA RecvKeepsIInv ==
  ASSUME IInv, Recv
  PROVE  IInv'
<1> USE DEF IInv, TypeOK
<1>1. /\ at = "recv" /\ Len(buf) < Size - 1 /\ c # LF
      /\ UNCHANGED <<loop, stream, sent, closed, got, ends>>
  BY DEF Recv, Reading, client
<1>2. AllA(buf) /\ Len(buf) \in Nat
  BY <1>1 DEF BufInv
<1>3. CASE HasByte /\ taken' = taken + 1
  <2>1. taken + 1 \in 1..Len(stream) /\ taken' \in 0..sent /\ taken < sent
    BY <1>3 DEF HasByte
  <2>2. NextByte \in Bytes
    BY <2>1 DEF NextByte
  <2>3. PiecesFit'
    BY <1>1, <2>1, PiecesStay
  <2>4. CASE NextByte = CR /\ at' = "peek" /\ c' = CR /\ UNCHANGED buf
    <3>1. TypeOK'
      BY <1>1, <2>1, <2>4 DEF Bytes
    <3>2. BufInv'
      BY <1>1, <1>2, <2>1, <2>4, AllIsALine DEF BufInv, AllA, ALine
    <3> QED BY <2>3, <3>1, <3>2
  <2>5. CASE NextByte # CR /\ at' = "recv" /\ Store(NextByte)
    <3>1. /\ buf' \in Seq(Bytes) /\ Len(buf') = Len(buf) + 1 /\ c' = NextByte /\ c' \in Bytes
          /\ ALine(buf') /\ buf'[Len(buf')] = NextByte
          /\ NextByte # LF => AllA(buf')
      BY <1>2, <2>2, <2>5, StoreInLine DEF Store
    <3>2. TypeOK'
      BY <1>1, <2>1, <2>5, <3>1
    <3>3. BufInv'
      BY <1>1, <1>2, <2>5, <3>1, GetLineAssumption DEF BufInv
    <3> QED BY <2>3, <3>2, <3>3
  <2> QED BY <1>1, <1>3, <2>4, <2>5 DEF Recv, NoByte, HasByte, Ended
<1>4. CASE NoByte
  <2>1. UNCHANGED <<taken, at, buf>> /\ c' = LF /\ Stopped'
    BY <1>1, <1>4 DEF NoByte, Ended, Stopped
  <2>2. TypeOK'
    BY <1>1, <2>1 DEF Bytes
  <2>3. BufInv'
    BY <1>1, <1>2, <2>1 DEF BufInv, AllA, ALine
  <2>4. PiecesFit'
    BY <1>1, <2>1, PiecesStay
  <2> QED BY <2>2, <2>3, <2>4
<1> QED BY <1>3, <1>4 DEF Recv

\* Behind a CR: its LF is looked at, or the line ends without one.
LEMMA PeekKeepsIInv ==
  ASSUME IInv, Peek
  PROVE  IInv'
<1> USE DEF IInv, TypeOK
<1>1. /\ at = "peek" /\ Len(buf) < Size - 1 /\ AllA(buf)
      /\ UNCHANGED <<loop, stream, sent, closed, taken, got, ends>>
  BY DEF Peek, client, BufInv
<1>2. PiecesFit'
  BY <1>1, PiecesStay
<1>3. CASE HasByte /\ at' = "take" /\ UNCHANGED <<c, buf>>
  <2>1. BufInv'
    BY <1>1, <1>3 DEF BufInv, AllA, HasByte
  <2> QED BY <1>1, <1>2, <1>3, <2>1
<1>4. CASE at' = "recv" /\ Store(LF)
  <2>1. /\ buf' \in Seq(Bytes) /\ Len(buf') = Len(buf) + 1 /\ c' = LF /\ c' \in Bytes
        /\ ALine(buf') /\ buf'[Len(buf')] = LF
    BY <1>1, <1>4, StoreInLine DEF Store, Bytes, LF, CR
  <2>2. BufInv'
    BY <1>1, <1>4, <2>1, GetLineAssumption DEF BufInv
  <2> QED BY <1>1, <1>2, <1>4, <2>1, <2>2
<1> QED BY <1>3, <1>4 DEF Peek

\* The LF that was looked at is taken.
LEMMA TakeKeepsIInv ==
  ASSUME IInv, Take
  PROVE  IInv'
<1> USE DEF IInv, TypeOK
<1>1. /\ at = "take" /\ at' = "recv" /\ Len(buf) < Size - 1 /\ AllA(buf) /\ Store(LF)
      /\ UNCHANGED <<loop, stream, sent, closed, got, ends>>
      /\ taken < sent /\ taken' = taken + 1
  BY DEF Take, client, BufInv
<1>2. PiecesFit'
  BY <1>1, PiecesStay
<1>3. /\ buf' \in Seq(Bytes) /\ Len(buf') = Len(buf) + 1 /\ c' = LF /\ c' \in Bytes
      /\ ALine(buf') /\ buf'[Len(buf')] = LF
  BY <1>1, StoreInLine DEF Store, Bytes, LF, CR
<1>4. BufInv'
  BY <1>1, <1>3, GetLineAssumption DEF BufInv
<1> QED BY <1>1, <1>2, <1>3, <1>4

\* A line, or a piece of one, is returned.
LEMMA Returning ==
  ASSUME IInv, Return
  PROVE  /\ at = "recv" /\ (Len(buf) >= Size - 1 \/ c = LF)
         /\ UNCHANGED <<loop, stream, sent, closed, taken>>
         /\ ALine(buf) /\ Len(buf) \in 0..Size - 1 /\ Len(got) \in Nat
         /\ got' = got \o buf /\ got' \in Seq(Bytes) /\ Len(got') = Len(got) + Len(buf)
         /\ \A n \in 1..Len(got) : got'[n] = got[n]
         /\ \A n \in 1..Len(buf) : got'[Len(got) + n] = buf[n]
         /\ ends' = (IF buf = <<>> THEN ends ELSE Append(ends, Len(got')))
         /\ \/ at' = "recv" /\ c' \in First /\ buf' = <<>> /\ buf # <<LF>>
            \/ at' = "end" /\ UNCHANGED <<c, buf>>
         /\ buf # <<>> /\ ~Stopped /\ Len(buf) < Size - 1 => buf[Len(buf)] = LF
<1> USE DEF IInv, TypeOK
<1>1. /\ at = "recv" /\ (Len(buf) >= Size - 1 \/ c = LF)
      /\ UNCHANGED <<loop, stream, sent, closed, taken>> /\ got' = got \o buf
      /\ ends' = (IF buf = <<>> THEN ends ELSE Append(ends, Len(got) + Len(buf)))
      /\ \/ at' = "recv" /\ c' \in First /\ buf' = <<>> /\ buf # <<LF>>
         \/ at' = "end" /\ UNCHANGED <<c, buf>>
  <2>1. at = "recv" /\ (Len(buf) >= Size - 1 \/ c = LF)
    BY GetLineAssumption DEF Return, Reading
  <2>2. GoesOn(Len(buf)) => buf # <<LF>>
    BY DEF GoesOn
  <2> HIDE DEF IInv, TypeOK
  <2>3. \/ at' = "recv" /\ c' \in First /\ buf' = <<>> /\ buf # <<LF>>
        \/ at' = "end" /\ UNCHANGED <<c, buf>>
    BY <2>2 DEF Return
  <2>4. /\ UNCHANGED <<loop, stream, sent, closed, taken>> /\ got' = got \o buf
        /\ ends' = (IF buf = <<>> THEN ends ELSE Append(ends, Len(got) + Len(buf)))
    BY DEF Return, client
  <2> QED BY <2>1, <2>3, <2>4
<1>2. /\ got \in Seq(Bytes) /\ buf \in Seq(Bytes)
      /\ Len(got) \in Nat /\ Len(buf) \in 0..Size - 1 /\ ALine(buf)
  BY <1>1, GetLineAssumption DEF BufInv
<1>3. /\ got' \in Seq(Bytes) /\ Len(got') = Len(got) + Len(buf)
      /\ \A n \in 1..Len(got) : got'[n] = got[n]
      /\ \A n \in 1..Len(buf) : got'[Len(got) + n] = buf[n]
  BY <1>1, <1>2
<1>4. ASSUME buf # <<>>, ~Stopped, Len(buf) < Size - 1
      PROVE  buf[Len(buf)] = LF
  <2>1. c = LF
    BY <1>1, <1>4, GetLineAssumption
  <2> QED BY <1>1, <1>4, <2>1 DEF BufInv
<1> QED BY <1>1, <1>2, <1>3, <1>4

LEMMA ReturnKeepsIInv ==
  ASSUME IInv, Return
  PROVE  IInv'
<1> USE DEF IInv, TypeOK
<1>1. /\ at = "recv" /\ (Len(buf) >= Size - 1 \/ c = LF)
      /\ UNCHANGED <<loop, stream, sent, closed, taken>>
      /\ ALine(buf) /\ Len(buf) \in 0..Size - 1 /\ Len(got) \in Nat
      /\ got' = got \o buf /\ got' \in Seq(Bytes) /\ Len(got') = Len(got) + Len(buf)
      /\ \A n \in 1..Len(got) : got'[n] = got[n]
      /\ \A n \in 1..Len(buf) : got'[Len(got) + n] = buf[n]
      /\ ends' = (IF buf = <<>> THEN ends ELSE Append(ends, Len(got')))
      /\ \/ at' = "recv" /\ c' \in First /\ buf' = <<>>
         \/ at' = "end" /\ UNCHANGED <<c, buf>>
      /\ buf # <<>> /\ ~Stopped /\ Len(buf) < Size - 1 => buf[Len(buf)] = LF
  BY Returning
<1>2. TypeOK'
  <2>1. buf' \in Seq(Bytes) /\ c' \in Bytes
    BY <1>1, EmptyIsASeq DEF Bytes, First
  <2>2. ends' \in Seq(Nat)
    BY <1>1
  <2> QED BY <1>1, <2>1, <2>2
<1>3. BufInv'
  <2>1. ends' # <<>> /\ \A n \in 1..Len(ends') : ends'[n] \in 0..Len(got')
    <3>1. ends # <<>> /\ \A n \in 1..Len(ends) : ends[n] \in 0..Len(got)
      BY DEF BufInv
    <3>2. CASE buf = <<>>
      BY <1>1, <3>1, <3>2
    <3>3. CASE buf # <<>>
      <4>1. ends' = Append(ends, Len(got')) /\ Len(got') \in Nat /\ Len(ends) \in Nat
        BY <1>1, <3>3
      <4>2. /\ Len(ends') = Len(ends) + 1 /\ ends'[Len(ends) + 1] = Len(got')
            /\ \A n \in 1..Len(ends) : ends'[n] = ends[n]
        BY <4>1
      <4>3. \A n \in 1..Len(ends') : n \in 1..Len(ends) \/ n = Len(ends) + 1
        BY <4>1, <4>2
      <4>4. ASSUME NEW n \in 1..Len(ends')
            PROVE  ends'[n] \in 0..Len(got')
        BY <1>1, <3>1, <4>1, <4>2, <4>3
      <4>5. ends' # <<>>
        <5>1. Len(<<>>) = 0 /\ Len(ends') # 0
          BY <4>1, <4>2
        <5> QED BY <5>1
      <4> QED BY <4>4, <4>5
    <3> QED BY <3>2, <3>3
  <2>2. CASE at' = "recv" /\ c' \in First /\ buf' = <<>>
    BY <2>1, <2>2, GetLineAssumption DEF BufInv, AllA, ALine
  <2>3. CASE at' = "end" /\ UNCHANGED <<c, buf>>
    BY <1>1, <2>1, <2>3 DEF BufInv, AllA, ALine
  <2> QED BY <1>1, <2>2, <2>3
<1>4. CASE buf = <<>>
  <2>1. got' = got /\ ends' = ends
    BY <1>1, <1>4
  <2> QED BY <1>1, <1>2, <1>3, <2>1, PiecesStay
<1>5. CASE buf # <<>>
  <2>1. /\ Len(ends') = Len(ends) + 1 /\ Len(ends) \in Nat /\ Len(ends) >= 1
        /\ ends'[Len(ends) + 1] = Len(got')
        /\ \A n \in 1..Len(ends) : ends'[n] = ends[n] /\ ends[n] \in Nat
    BY <1>1, <1>5 DEF BufInv
  <2>2. ends[1] = 0 /\ ends[Len(ends)] = Len(got)
    BY DEF PiecesFit
  <2>3. Len(buf) \in 1..Size - 1
    BY <1>1, <1>5
  <2> DEFINE Fits(n) ==
          /\ ends'[n + 1] - ends'[n] \in 1..Size - 1
          /\ \A i \in ends'[n] + 1..ends'[n + 1] - 1 : got'[i] = "a"
          /\ ends'[n + 1] - ends'[n] < Size - 1 /\ got'[ends'[n + 1]] # LF =>
                closed' /\ taken' = sent'
  <2>4. Fits(Len(ends))
    <3>1. /\ ends'[Len(ends)] = Len(got) /\ ends'[Len(ends) + 1] = Len(got) + Len(buf)
          /\ ends'[Len(ends) + 1] - ends'[Len(ends)] = Len(buf)
      BY <1>1, <2>1, <2>2
    <3>2. \A i \in Len(got) + 1..Len(got) + Len(buf) - 1 : got'[i] = "a"
      <4>1. ASSUME NEW i \in Len(got) + 1..Len(got) + Len(buf) - 1
            PROVE  got'[i] = "a"
        <5>1. i - Len(got) \in 1..Len(buf) - 1 /\ i = Len(got) + (i - Len(got))
          BY <1>1
        <5>2. got'[Len(got) + (i - Len(got))] = buf[i - Len(got)] /\ buf[i - Len(got)] = "a"
          BY <1>1, <5>1 DEF ALine
        <5> QED BY <5>1, <5>2
      <4> QED BY <4>1
    <3>3. got'[Len(got) + Len(buf)] = buf[Len(buf)]
      BY <1>1, <2>3
    <3>4. ~Stopped /\ Len(buf) < Size - 1 => buf[Len(buf)] = LF
      BY <1>1, <1>5
    <3>5. Len(buf) < Size - 1 /\ got'[Len(got) + Len(buf)] # LF => closed' /\ taken' = sent'
      BY <1>1, <3>3, <3>4 DEF Stopped
    <3> QED BY <2>3, <3>1, <3>2, <3>5
  <2>5. ASSUME NEW n \in 1..Len(ends) - 1
        PROVE  Fits(n)
    <3>1. n \in 1..Len(ends) /\ n + 1 \in 1..Len(ends)
      BY <2>1
    <3>2. /\ ends[n + 1] - ends[n] \in 1..Size - 1
          /\ \A i \in ends[n] + 1..ends[n + 1] - 1 : got[i] = "a"
          /\ ends[n + 1] - ends[n] < Size - 1 /\ got[ends[n + 1]] # LF =>
                closed /\ taken = sent
      BY DEF PiecesFit
    <3>3. ends'[n] = ends[n] /\ ends'[n + 1] = ends[n + 1] /\ ends[n] \in Nat /\ ends[n + 1] \in Nat
      BY <2>1, <3>1
    <3>4. ends[n + 1] \in 1..Len(got)
      <4>1. ends[n] \in 0..Len(got) /\ ends[n + 1] \in 0..Len(got)
        BY <3>1 DEF BufInv
      <4> QED BY SMTT(30), <3>2, <4>1
    <3>5. /\ got'[ends[n + 1]] = got[ends[n + 1]]
          /\ \A i \in ends[n] + 1..ends[n + 1] - 1 : got'[i] = got[i]
      <4>1. \A a \in Nat : \A b \in 1..Len(got) : \A i \in a + 1..b - 1 : i \in 1..Len(got)
        BY <1>1
      <4>2. \A i \in ends[n] + 1..ends[n + 1] - 1 : i \in 1..Len(got)
        BY <3>3, <3>4, <4>1
      <4> QED BY <1>1, <3>4, <4>2
    <3> QED BY <1>1, <3>2, <3>3, <3>5
  <2>6. \A n \in 1..Len(ends') - 1 : n = Len(ends) \/ n \in 1..Len(ends) - 1
    BY <2>1
  <2>7. \A n \in 1..Len(ends') - 1 : Fits(n)
    BY <2>4, <2>5, <2>6
  <2>8. ends'[1] = 0 /\ ends'[Len(ends')] = Len(got')
    BY <2>1, <2>2
  <2> QED BY <1>2, <1>3, <2>7, <2>8 DEF PiecesFit
<1> QED BY <1>4, <1>5

LEMMA Inductive == Spec => []IInv
<1>1. IInv /\ UNCHANGED vars => IInv'
  BY DEF vars, client, IInv, TypeOK, BufInv, PiecesFit, AllA, ALine, Stopped
<1>2. IInv /\ [Next]_vars => IInv'
  BY <1>1, ClientKeepsIInv, RecvKeepsIInv, PeekKeepsIInv, TakeKeepsIInv, ReturnKeepsIInv
  DEF Next, Reader
<1> QED BY InitIInv, <1>2, PTL DEF Spec

\* What is kept of the stream.
LEMMA KeptCounts ==
  /\ Kept(0) = 0
  /\ \A n \in Nat : Kept(n) \in Nat
  /\ \A n \in Nat : \A k \in 0..n : Kept(k) <= Kept(n)
  /\ \A n \in Nat \ {0} : Kept(n) = Kept(n - 1) + (IF Keep(n) THEN 1 ELSE 0)
<1> DEFINE UpTo(n) == {i \in 1..n : Keep(i)}
<1>1. \A n \in Nat : IsFiniteSet(UpTo(n)) /\ Cardinality(UpTo(n)) \in Nat
  <2> SUFFICES ASSUME NEW n \in Nat
               PROVE  IsFiniteSet(UpTo(n)) /\ Cardinality(UpTo(n)) \in Nat
    OBVIOUS
  <2>1. IsFiniteSet(1..n)
    BY FS_Interval
  <2>2. UpTo(n) \subseteq 1..n
    OBVIOUS
  <2> QED BY <2>1, <2>2, FS_Subset, FS_CardinalityType
<1>2. ASSUME NEW n \in Nat, NEW k \in 0..n
      PROVE  Cardinality(UpTo(k)) <= Cardinality(UpTo(n))
  <2>1. UpTo(k) \subseteq UpTo(n)
    OBVIOUS
  <2> QED BY <1>1, <2>1, FS_Subset
<1>3. ASSUME NEW n \in Nat \ {0}
      PROVE  Cardinality(UpTo(n)) = Cardinality(UpTo(n - 1)) + (IF Keep(n) THEN 1 ELSE 0)
  <2>0. n - 1 \in Nat
    OBVIOUS
  <2>1. \A i : i \in 1..n <=> i \in 1..n - 1 \/ i = n
    OBVIOUS
  <2>2. n \notin UpTo(n - 1) /\ IsFiniteSet(UpTo(n - 1)) /\ Cardinality(UpTo(n - 1)) \in Nat
    <3>1. n \notin UpTo(n - 1)
      OBVIOUS
    <3> HIDE DEF UpTo
    <3> QED BY <1>1, <2>0, <3>1
  <2>3. CASE Keep(n)
    <3>1. UpTo(n) = UpTo(n - 1) \union {n}
      BY <2>1, <2>3
    <3> HIDE DEF UpTo
    <3> QED BY <2>2, <2>3, <3>1, FS_AddElement
  <2>4. CASE ~Keep(n)
    <3>1. UpTo(n) = UpTo(n - 1)
      BY <2>1, <2>4
    <3> HIDE DEF UpTo
    <3> QED BY <2>2, <2>4, <3>1
  <2> QED BY <2>3, <2>4
<1>4. Cardinality(UpTo(0)) = 0
  <2>1. UpTo(0) = {}
    OBVIOUS
  <2> QED BY <2>1, FS_EmptySet
<1>5. \A n : Kept(n) = Cardinality(UpTo(n))
  BY DEF Kept
<1> HIDE DEF UpTo
<1> QED BY <1>1, <1>2, <1>3, <1>4, <1>5

LEMMA KeptStays ==
  ASSUME stream' = stream
  PROVE  \A n : /\ Keep(n)' <=> Keep(n)
                /\ Kept(n)' = Kept(n) /\ One(n)' = One(n)
<1>1. \A n : Keep(n)' <=> Keep(n)
  BY DEF Keep
<1> QED BY <1>1 DEF Kept, One

\* Behind a CR: its LF is looked at before anything else is read, and only the LF of
\* a CR is not stored.
CrInv ==
    /\ at \in {"peek", "take"} => taken > 0 /\ stream[taken] = CR
    /\ at = "take" => taken < sent /\ stream[taken + 1] = LF
    /\ at = "recv" /\ taken > 0 /\ stream[taken] = CR /\ ~Stopped =>
          taken < sent /\ stream[taken + 1] # LF

LostInv == IInv /\ CrInv /\ NothingLost

LEMMA ReturnedIsASeq ==
  ASSUME IInv
  PROVE  Returned \in Seq(Bytes)
<1>1. got \in Seq(Bytes) /\ buf \in Seq(Bytes) /\ LF \in Bytes
  BY DEF IInv, TypeOK, Bytes
<1>2. Append(buf, LF) \in Seq(Bytes) /\ <<>> \in Seq(Bytes)
  BY <1>1, EmptyIsASeq
<1>3. \A s \in Seq(Bytes) : got \o s \in Seq(Bytes)
  BY <1>1
<1> QED BY <1>1, <1>2, <1>3 DEF Returned

\* A step returns what it takes: nothing, a byte that is kept, or one that is not.
LEMMA ReturnedStays ==
  ASSUME NothingLost, stream' = stream, taken' = taken, Returned' = Returned
  PROVE  NothingLost'
BY KeptStays DEF NothingLost

LEMMA ReturnedGrows ==
  ASSUME LostInv, stream' = stream, taken' = taken + 1,
         IF Keep(taken + 1) THEN Returned' = Append(Returned, One(taken + 1))
                            ELSE Returned' = Returned
  PROVE  NothingLost'
<1> SUFFICES ASSUME NEW p, p = taken + 1
             PROVE  NothingLost'
  OBVIOUS
<1>1. taken \in Nat /\ p \in Nat \ {0} /\ p - 1 = taken
  BY DEF LostInv, IInv, TypeOK
<1>2. /\ Len(Returned) = Kept(taken) /\ Kept(taken) \in Nat
      /\ \A n \in 1..taken : Keep(n) => Returned[Kept(n)] = One(n)
  BY <1>1, KeptCounts DEF LostInv, NothingLost
<1>3. \A n \in 1..taken : Keep(n) => Kept(n) \in 1..Len(Returned)
  <2> SUFFICES ASSUME NEW n \in 1..taken, Keep(n)
               PROVE  Kept(n) \in 1..Kept(taken)
    BY <1>2
  <2>1. n \in Nat \ {0} /\ n - 1 \in Nat /\ n \in 0..taken
    BY <1>1
  <2>2. Kept(n) = Kept(n - 1) + 1 /\ Kept(n - 1) \in Nat /\ Kept(n) <= Kept(taken)
    BY <1>1, <2>1, KeptCounts
  <2> QED BY <1>2, <2>2
<1>4. Kept(p) = Kept(taken) + (IF Keep(p) THEN 1 ELSE 0)
  BY <1>1, KeptCounts
<1>5. \A n \in 1..p : n \in 1..taken \/ n = p
  BY <1>1
<1>6. Returned \in Seq(Bytes)
  BY ReturnedIsASeq DEF LostInv
<1>7. CASE Keep(p)
  <2>1. Returned' = Append(Returned, One(p))
    BY <1>7
  <2>2. /\ Len(Returned') = Len(Returned) + 1 /\ Returned'[Len(Returned) + 1] = One(p)
        /\ \A n \in 1..Len(Returned) : Returned'[n] = Returned[n]
    BY <1>6, <2>1
  <2>3. Len(Returned') = Kept(p)
    BY <1>2, <1>4, <1>7, <2>2
  <2>4. ASSUME NEW n \in 1..p, Keep(n)
        PROVE  Returned'[Kept(n)] = One(n)
    <3>1. CASE n = p
      BY <1>2, <2>2, <2>3, <3>1
    <3>2. CASE n # p
      BY <1>2, <1>3, <1>5, <2>2, <2>4, <3>2
    <3> QED BY <3>1, <3>2
  <2> QED BY <2>3, <2>4, KeptStays DEF NothingLost
<1>8. CASE ~Keep(p)
  <2>1. Returned' = Returned /\ Kept(p) = Kept(taken)
    BY <1>2, <1>4, <1>8
  <2>2. \A n \in 1..p : Keep(n) => Returned'[Kept(n)] = One(n)
    BY <1>2, <1>5, <1>8, <2>1
  <2> QED BY <1>2, <2>1, <2>2, KeptStays DEF NothingLost
<1> QED BY <1>7, <1>8

LEMMA LostInit == Init => LostInv
<1> SUFFICES ASSUME Init PROVE LostInv
  OBVIOUS
<1>1. Returned = <<>> /\ taken = 0 /\ at = "recv"
  BY DEF Init, Returned
<1>2. NothingLost
  BY <1>1, KeptCounts DEF NothingLost
<1>3. CrInv
  BY <1>1 DEF CrInv
<1> QED BY <1>2, <1>3, InitIInv DEF LostInv

\* What is returned, with the line that is being read.
LEMMA Parts ==
  ASSUME IInv
  PROVE  /\ got \in Seq(Bytes) /\ buf \in Seq(Bytes) /\ stream \in Seq(Bytes)
         /\ taken \in Nat /\ sent \in Nat /\ taken <= sent /\ sent <= Len(stream)
         /\ CR # LF /\ LF \in Bytes /\ CR \in Bytes
         /\ at = "recv" => Returned = got \o buf
         /\ at \in {"peek", "take"} => Returned = got \o Append(buf, LF)
         /\ got \o <<>> = got
         /\ \A b \in Bytes : got \o Append(buf, b) = Append(got \o buf, b)
<1>1. /\ got \in Seq(Bytes) /\ buf \in Seq(Bytes) /\ stream \in Seq(Bytes)
      /\ taken \in Nat /\ sent \in Nat /\ taken <= sent /\ sent <= Len(stream)
  BY DEF IInv, TypeOK
<1>2. CR # LF /\ LF \in Bytes /\ CR \in Bytes
  BY DEF CR, LF, Bytes
<1>3. got \o <<>> = got /\ \A b \in Bytes : got \o Append(buf, b) = Append(got \o buf, b)
  BY <1>1
<1>4. /\ at = "recv" => Returned = got \o buf
      /\ at \in {"peek", "take"} => Returned = got \o Append(buf, LF)
  BY DEF Returned
<1> QED BY <1>1, <1>2, <1>3, <1>4

LEMMA ClientKeepsLostInv ==
  ASSUME LostInv, Send \/ Leave
  PROVE  LostInv'
<1>1. /\ UNCHANGED <<loop, stream, taken, at, c, buf, got, ends>>
      /\ (closed => closed') /\ (closed => sent' = sent) /\ sent' >= sent
  <2>1. CASE Send
    BY <2>1 DEF Send, LostInv, IInv, TypeOK
  <2>2. CASE Leave
    BY <2>2 DEF Leave, LostInv, IInv, TypeOK
  <2> QED BY <2>1, <2>2
<1>2. IInv' /\ NothingLost'
  <2>1. Returned' = Returned
    BY <1>1 DEF Returned
  <2> QED BY <1>1, <2>1, ReturnedStays, ClientKeepsIInv DEF LostInv
<1>3. CrInv'
  <2>1. Stopped => Stopped'
    BY <1>1 DEF Stopped
  <2>2. taken \in Nat /\ sent \in Nat /\ sent' \in Nat
    BY <1>2 DEF LostInv, IInv, TypeOK
  <2>3. taken < sent => taken < sent'
    BY <1>1, <2>2
  <2> QED BY <1>1, <2>1, <2>3 DEF LostInv, CrInv
<1> QED BY <1>2, <1>3 DEF LostInv

LEMMA RecvKeepsLostInv ==
  ASSUME LostInv, Recv
  PROVE  LostInv'
<1> SUFFICES ASSUME NEW p, p = taken + 1
             PROVE  NothingLost' /\ CrInv'
  BY RecvKeepsIInv DEF LostInv
<1> USE Parts DEF LostInv
<1>1. at = "recv" /\ UNCHANGED <<loop, stream, sent, closed, got, ends>>
  BY DEF Recv, client
<1>2. CASE HasByte /\ taken' = p /\ NextByte = CR /\ at' = "peek" /\ UNCHANGED buf
  <2>1. taken < sent /\ stream[p] = CR /\ p > 0
    BY <1>2 DEF HasByte, NextByte
  <2>2. Keep(p) /\ One(p) = LF
    BY <2>1 DEF Keep, One
  <2>3. Returned' = Append(Returned, LF)
    BY <1>1, <1>2 DEF Returned
  <2>4. NothingLost'
    BY <1>1, <1>2, <2>2, <2>3, ReturnedGrows
  <2> QED BY <1>1, <1>2, <2>1, <2>4 DEF CrInv
<1>3. CASE HasByte /\ taken' = p /\ NextByte # CR /\ at' = "recv" /\ Store(NextByte)
  <2>1. taken < sent /\ stream[p] # CR /\ stream[p] = NextByte /\ p > 0 /\ p - 1 = taken
    BY <1>3 DEF HasByte, NextByte
  <2>2. NextByte \in Bytes
    BY <2>1
  <2>3. Keep(p) /\ One(p) = NextByte
    <3>1. p > 1 /\ stream[p - 1] = CR => stream[p] # LF
      BY <1>1, <2>1 DEF CrInv, Stopped
    <3> QED BY <2>1, <3>1 DEF Keep, One
  <2>4. Returned' = Append(Returned, NextByte)
    BY <1>1, <1>3, <2>2 DEF Returned, Store
  <2>5. NothingLost'
    BY <1>1, <1>3, <2>3, <2>4, ReturnedGrows
  <2>6. CrInv'
    BY <1>1, <1>3, <2>1 DEF CrInv
  <2> QED BY <2>5, <2>6
<1>4. CASE NoByte
  <2>1. UNCHANGED <<taken, at, buf>> /\ Stopped'
    BY <1>1, <1>4 DEF NoByte, Ended, Stopped
  <2>2. Returned' = Returned
    BY <1>1, <2>1 DEF Returned
  <2>3. NothingLost'
    BY <1>1, <2>1, <2>2, ReturnedStays
  <2> QED BY <1>1, <2>1, <2>3 DEF CrInv
<1> QED BY <1>2, <1>3, <1>4 DEF Recv

LEMMA PeekKeepsLostInv ==
  ASSUME LostInv, Peek
  PROVE  LostInv'
<1> SUFFICES ASSUME TRUE
             PROVE  NothingLost' /\ CrInv'
  BY PeekKeepsIInv DEF LostInv
<1> USE Parts DEF LostInv
<1>1. /\ at = "peek" /\ UNCHANGED <<loop, stream, sent, closed, got, ends, taken>>
      /\ taken > 0 /\ stream[taken] = CR
  BY DEF Peek, client, CrInv
<1>2. CASE HasByte /\ NextByte = LF /\ at' = "take" /\ UNCHANGED <<c, buf>>
  <2>1. Returned' = Returned
    BY <1>1, <1>2 DEF Returned
  <2>2. NothingLost'
    BY <1>1, <2>1, ReturnedStays
  <2> QED BY <1>1, <1>2, <2>2 DEF CrInv, HasByte, NextByte
<1>3. CASE (Ended \/ (HasByte /\ NextByte # LF)) /\ at' = "recv" /\ Store(LF)
  <2>1. Returned' = Returned
    BY <1>1, <1>3 DEF Returned, Store
  <2>2. NothingLost'
    BY <1>1, <2>1, ReturnedStays
  <2>3. CrInv'
    BY <1>1, <1>3 DEF CrInv, HasByte, NextByte, Ended, Stopped
  <2> QED BY <2>2, <2>3
<1> QED BY <1>2, <1>3 DEF Peek

LEMMA TakeKeepsLostInv ==
  ASSUME LostInv, Take
  PROVE  LostInv'
<1> SUFFICES ASSUME NEW p, p = taken + 1
             PROVE  NothingLost' /\ CrInv'
  BY TakeKeepsIInv DEF LostInv
<1> USE Parts DEF LostInv
<1>1. /\ at = "take" /\ at' = "recv" /\ taken' = p /\ Store(LF)
      /\ UNCHANGED <<loop, stream, sent, closed, got, ends>>
      /\ taken > 0 /\ stream[taken] = CR /\ stream[p] = LF /\ p - 1 = taken
  BY DEF Take, client, CrInv
<1>2. ~Keep(p)
  BY <1>1 DEF Keep
<1>3. Returned' = Returned
  BY <1>1 DEF Returned, Store
<1>4. NothingLost'
  BY <1>1, <1>2, <1>3, ReturnedGrows
<1> QED BY <1>1, <1>4 DEF CrInv

LEMMA ReturnKeepsLostInv ==
  ASSUME LostInv, Return
  PROVE  LostInv'
<1> SUFFICES ASSUME TRUE
             PROVE  NothingLost' /\ CrInv'
  BY ReturnKeepsIInv DEF LostInv
<1> USE Parts DEF LostInv
<1>1. /\ at = "recv" /\ UNCHANGED <<loop, stream, sent, closed, taken>>
      /\ got' = got \o buf /\ got' \in Seq(Bytes)
      /\ (at' = "recv" /\ buf' = <<>>) \/ at' = "end"
  BY Returning
<1>2. Returned' = Returned
  <2>1. got' \o <<>> = got'
    BY <1>1
  <2> QED BY <1>1, <2>1 DEF Returned
<1>3. NothingLost'
  BY <1>1, <1>2, ReturnedStays
<1>4. CrInv'
  BY <1>1 DEF CrInv, Stopped
<1> QED BY <1>3, <1>4

LEMMA LostInvHolds == Spec => []LostInv
<1>1. LostInv /\ UNCHANGED vars => LostInv'
  <2> SUFFICES ASSUME LostInv, UNCHANGED vars PROVE LostInv'
    OBVIOUS
  <2>1. UNCHANGED <<loop, stream, sent, closed, taken, at, c, buf, got, ends>>
    BY DEF vars, client
  <2>2. IInv'
    BY <2>1 DEF LostInv, IInv, TypeOK, BufInv, PiecesFit, AllA, ALine, Stopped
  <2>3. Returned' = Returned
    BY <2>1 DEF Returned
  <2>4. NothingLost'
    BY <2>1, <2>3, ReturnedStays DEF LostInv
  <2>5. CrInv'
    BY <2>1 DEF LostInv, CrInv, Stopped
  <2> QED BY <2>2, <2>4, <2>5 DEF LostInv
<1>2. LostInv /\ [Next]_vars => LostInv'
  BY <1>1, ClientKeepsLostInv, RecvKeepsLostInv, PeekKeepsLostInv, TakeKeepsLostInv,
     ReturnKeepsLostInv DEF Next, Reader
<1> QED BY LostInit, <1>2, PTL DEF Spec

-----------------------------------------------------------------------------
(* The end of the header *)

\* While the client goes on: a call starts behind a line end, or behind pieces of its
\* line that filled the buffer; no line so far was empty; and a call reads something.
Aligned(b, m) ==
    /\ LineStart(b) /\ Len(got) - b = m * (Size - 1)
    /\ \A i \in b + 1..Len(got) : got[i] # LF

HeadInv ==
    /\ at # "end" /\ ~Stopped =>
          /\ \E b \in 0..Len(got), m \in Nat : Aligned(b, m)
          /\ AtBoundary \/ \A k \in 1..Len(got) : ~Blank(k)
    /\ at = "recv" /\ buf = <<>> /\ c = LF /\ loop # "http3.0" => Stopped
    /\ HeaderEndsAtEmptyLine

LEMMA Multiples ==
  ASSUME NEW m \in Nat, NEW s \in Nat, s >= 1
  PROVE  /\ m * s \in Nat /\ m * s >= m /\ 0 * s = 0
         /\ (m + 1) * s = m * s + s
OBVIOUS

LEMMA HeadInit == Init => HeadInv
<1> SUFFICES ASSUME Init PROVE HeadInv
  OBVIOUS
<1>1. got = <<>> /\ Len(got) = 0 /\ at = "recv" /\ c \in First
  BY DEF Init
<1>2. Aligned(0, 0)
  <2>1. 0 * (Size - 1) = 0
    BY GetLineAssumption, Multiples
  <2> QED BY <1>1, <2>1 DEF Aligned, LineStart
<1>3. c = LF => loop = "http3.0"
  BY <1>1 DEF First, LF
<1> QED BY <1>1, <1>2, <1>3 DEF HeadInv, HeaderEndsAtEmptyLine

\* Nothing new is returned.
LEMMA GotStays ==
  ASSUME HeadInv, got' = got, at' = "end" <=> at = "end", Stopped => Stopped'
  PROVE  /\ at' # "end" /\ ~Stopped' =>
               /\ \E b \in 0..Len(got'), m \in Nat : Aligned(b, m)'
               /\ AtBoundary' \/ \A k \in 1..Len(got') : ~Blank(k)'
         /\ HeaderEndsAtEmptyLine'
<1>1. \A b, m : Aligned(b, m)' <=> Aligned(b, m)
  BY DEF Aligned, LineStart
<1>2. \A k : Blank(k)' <=> Blank(k)
  BY DEF Blank, LineStart
<1>3. AtBoundary' <=> AtBoundary
  BY DEF AtBoundary, LineStart
<1>4. at' # "end" /\ ~Stopped' =>
         /\ \E b \in 0..Len(got'), m \in Nat : Aligned(b, m)'
         /\ AtBoundary' \/ \A k \in 1..Len(got') : ~Blank(k)'
  BY <1>1, <1>2, <1>3 DEF HeadInv
<1>5. HeaderEndsAtEmptyLine'
  BY <1>2, <1>3 DEF HeadInv, HeaderEndsAtEmptyLine, Stopped
<1> QED BY <1>4, <1>5

LEMMA ReadKeepsHeadInv ==
  ASSUME IInv, HeadInv, Send \/ Leave \/ Recv \/ Peek \/ Take
  PROVE  HeadInv'
<1>0. /\ taken \in Nat /\ sent \in Nat /\ taken <= sent
      /\ \A e \in Bytes : Append(buf, e) # <<>>
  <2>1. buf \in Seq(Bytes) /\ Len(buf) \in Nat /\ Len(<<>>) = 0
    BY DEF IInv, TypeOK
  <2>2. \A e \in Bytes : Len(Append(buf, e)) # 0
    BY <2>1
  <2> QED BY <2>1, <2>2, Parts
<1>1. CASE Send \/ Leave
  <2>1. UNCHANGED <<loop, at, c, buf, got, taken>>
    BY <1>1 DEF Send, Leave
  <2>2. Stopped => Stopped'
    BY <1>0, <1>1 DEF Send, Leave, Stopped
  <2> QED BY <2>1, <2>2, GotStays DEF HeadInv
<1>2. CASE Recv
  <2>1. at = "recv" /\ UNCHANGED <<loop, stream, sent, closed, got>>
    BY <1>2 DEF Recv, client
  <2>2. CASE NoByte
    <3>1. Stopped' /\ at' = "recv"
      BY <2>1, <2>2 DEF NoByte, Ended, Stopped
    <3> QED BY <2>1, <3>1, GotStays DEF HeadInv
  <2>3. CASE HasByte /\ taken' = taken + 1
             /\ \/ NextByte = CR /\ at' = "peek" /\ c' = CR /\ UNCHANGED buf
                \/ NextByte # CR /\ at' = "recv" /\ Store(NextByte)
    <3>1. ~Stopped
      BY <1>0, <2>3 DEF HasByte, Stopped
    <3>2. NextByte \in Bytes
      BY <1>0, <2>3, Parts DEF HasByte, NextByte
    <3>3. at' = "peek" \/ (at' = "recv" /\ buf' # <<>>)
      BY <1>0, <2>3, <3>2 DEF Store
    <3> QED BY <2>1, <3>1, <3>3, GotStays DEF HeadInv
  <2> QED BY <1>2, <2>2, <2>3 DEF Recv
<1>3. CASE Peek \/ Take
  <2>1. /\ at \in {"peek", "take"} /\ UNCHANGED <<loop, stream, sent, closed, got>>
        /\ at' = "take" \/ (at' = "recv" /\ buf' = Append(buf, LF))
    BY <1>3 DEF Peek, Take, client, Store
  <2>2. Stopped => Stopped'
    <3>1. at = "take" => taken < sent
      BY DEF IInv, BufInv
    <3>2. at = "peek" => taken' = taken
      BY <1>3 DEF Peek, Take
    <3> QED BY <1>0, <2>1, <3>1, <3>2 DEF Stopped
  <2>3. at' = "take" \/ (at' = "recv" /\ buf' # <<>>)
    BY <1>0, <2>1, Parts
  <2> QED BY <2>1, <2>2, <2>3, GotStays DEF HeadInv
<1> QED BY <1>1, <1>2, <1>3

\* Before the client stops, only an empty line ends the loop.
LEMMA EndsWithBlank ==
  ASSUME IInv, HeadInv, Return, ~Stopped, at' = "end"
  PROVE  buf = <<LF>>
<1>1. /\ at = "recv" /\ (Len(buf) >= Size - 1 \/ c = LF) /\ Len(buf) \in 0..Size - 1
      /\ buf # <<>> /\ Len(buf) < Size - 1 => buf[Len(buf)] = LF
  BY Returning
<1>2. buf \in Seq(Bytes) /\ Size \in Nat /\ Size >= 3
  BY GetLineAssumption DEF IInv, TypeOK
<1>3. ~GoesOn(Len(buf))
  BY DEF Return
<1>4. Len(buf) = 1 => buf = <<LF>>
  <2> SUFFICES ASSUME Len(buf) = 1
               PROVE  buf = <<LF>>
    OBVIOUS
  <2>1. buf # <<>> /\ Len(buf) < Size - 1
    BY SMTT(30), <1>2
  <2>2. buf[1] = LF
    BY <1>1, <2>1
  <2> QED BY <1>2, <2>2
<1>5. ASSUME buf = <<>>
      PROVE  FALSE
  <2>1. c = LF
    BY <1>1, <1>2, <1>5
  <2>2. loop = "http3.0"
    BY <1>1, <1>5, <2>1 DEF HeadInv
  <2>3. GoesOn(Len(buf))
    BY <1>5, <2>2 DEF GoesOn, EarlyGoesOn
  <2> QED BY <1>3, <2>3
<1>6. Len(buf) # 0
  BY <1>2, <1>5
<1>7. ASSUME Len(buf) > 1
      PROVE  FALSE
  <2>1. buf # <<LF>>
    <3> SUFFICES ASSUME buf = <<LF>>
                 PROVE  FALSE
      OBVIOUS
    <3>1. Len(buf) = 1
      OBVIOUS
    <3> QED BY <1>7, <3>1
  <2>2. Len(buf) > 0 /\ Len(buf) # 1
    BY <1>2, <1>7
  <2>3. loop = "clear_header" \/ loop = "echo_cgi" \/ loop = "http3.0"
    BY DEF IInv, TypeOK
  <2>4. GoesOn(Len(buf))
    BY <1>7, <2>1, <2>2, <2>3 DEF GoesOn, EarlyGoesOn
  <2> QED BY <1>3, <2>4
<1>8. Len(buf) = 1
  BY <1>2, <1>6, <1>7
<1> QED BY <1>4, <1>8

\* What was returned stays what it was when a piece is added.
LEMMA GotGrows ==
  ASSUME IInv, Return
  PROVE  /\ \A b \in 0..Len(got) : LineStart(b)' <=> LineStart(b)
         /\ \A k \in 1..Len(got) : Blank(k)' <=> Blank(k)
         /\ AtBoundary => AtBoundary'
<1>1. /\ Len(got) \in Nat /\ Len(got') \in Nat /\ Len(got') >= Len(got)
      /\ \A n \in 1..Len(got) : got'[n] = got[n]
  BY Returning
<1>2. \A b \in 0..Len(got) : LineStart(b)' <=> LineStart(b)
  <2> SUFFICES ASSUME NEW b \in 0..Len(got)
               PROVE  LineStart(b)' <=> LineStart(b)
    OBVIOUS
  <2>1. b = 0 \/ b \in 1..Len(got)
    BY <1>1
  <2> QED BY <1>1, <2>1 DEF LineStart
<1>3. \A k \in 1..Len(got) : Blank(k)' <=> Blank(k)
  <2> SUFFICES ASSUME NEW k \in 1..Len(got)
               PROVE  Blank(k)' <=> Blank(k)
    OBVIOUS
  <2>1. k - 1 \in 0..Len(got)
    BY <1>1
  <2>2. LineStart(k - 1)' <=> LineStart(k - 1)
    BY <1>2, <2>1
  <2> QED BY <1>1, <2>2 DEF Blank
<1>4. ASSUME AtBoundary
      PROVE  AtBoundary'
  <2>1. PICK b \in 0..Len(got), k \in 1..Len(got), m \in 1..Len(got) :
           /\ LineStart(b)
           /\ k - 1 - b = m * (Size - 1)
           /\ got[k] = LF /\ \A i \in b + 1..k - 1 : got[i] # LF
    BY <1>4 DEF AtBoundary
  <2>2. b \in 0..Len(got') /\ k \in 1..Len(got') /\ m \in 1..Len(got')
    BY <1>1
  <2>3. \A i \in b + 1..k - 1 : i \in 1..Len(got)
    BY <1>1
  <2>4. LineStart(b)' /\ got'[k] = LF /\ \A i \in b + 1..k - 1 : got'[i] # LF
    BY <1>1, <1>2, <2>1, <2>3
  <2> QED BY <2>1, <2>2, <2>4 DEF AtBoundary
<1> QED BY <1>2, <1>3, <1>4

\* A line, or a piece that filled the buffer, is returned and the loop goes on.
LEMMA GoesOnInLine ==
  ASSUME IInv, HeadInv, Return, ~Stopped, at' = "recv", buf # <<>>
  PROVE  /\ \E b \in 0..Len(got'), m \in Nat : Aligned(b, m)'
         /\ AtBoundary' \/ \A k \in 1..Len(got') : ~Blank(k)'
<1> DEFINE L == Len(got)
           B == Len(buf)
<1>1. /\ at = "recv" /\ L \in Nat /\ B \in 1..Size - 1 /\ Len(got') = L + B
      /\ \A n \in 1..L : got'[n] = got[n]
      /\ \A n \in 1..B : got'[L + n] = buf[n]
      /\ B < Size - 1 => buf[B] = LF
      /\ buf # <<LF>> /\ ALine(buf)
  <2>1. /\ at = "recv" /\ L \in Nat /\ B \in 0..Size - 1 /\ Len(got') = L + B
        /\ \A n \in 1..L : got'[n] = got[n]
        /\ \A n \in 1..B : got'[L + n] = buf[n]
        /\ B < Size - 1 => buf[B] = LF
        /\ buf # <<LF>> /\ ALine(buf)
    BY Returning
  <2>2. buf \in Seq(Bytes)
    BY DEF IInv, TypeOK
  <2>3. B # 0
    BY <2>2
  <2> QED BY <2>1, <2>3, GetLineAssumption
<1>2. buf \in Seq(Bytes) /\ Size - 1 \in Nat
  BY GetLineAssumption DEF IInv, TypeOK
<1>3. B = 1 => buf[B] # LF
  BY <1>1, <1>2
<1>4. /\ \A i \in L + 1..L + B - 1 : got'[i] = "a"
      /\ got'[L + B] = buf[B]
  <2>1. ASSUME NEW i \in L + 1..L + B - 1
        PROVE  got'[i] = "a"
    <3>1. i - L \in 1..B - 1 /\ i - L \in 1..B /\ i = L + (i - L)
      BY <1>1
    <3>2. got'[L + (i - L)] = buf[i - L] /\ buf[i - L] = "a"
      BY <1>1, <3>1 DEF ALine
    <3> QED BY <3>1, <3>2
  <2>2. got'[L + B] = buf[B]
    BY <1>1
  <2> QED BY <2>1, <2>2
<1> HIDE DEF B
<1>5. "a" # LF
  BY DEF LF
<1>6. \E b \in 0..Len(got'), m \in Nat : Aligned(b, m)'
  <2>1. CASE buf[B] = LF
    <3>1. PICK b : b = Len(got')
      OBVIOUS
    <3>2. b \in 0..Len(got') /\ LineStart(b)' /\ \A i \in b + 1..Len(got') : got'[i] # LF
      BY <1>1, <1>4, <2>1, <3>1 DEF LineStart
    <3>3. Len(got') - b = 0 * (Size - 1)
      BY <1>1, <1>2, <3>1, GetLineAssumption, Multiples
    <3>4. Aligned(b, 0)'
      BY <3>2, <3>3 DEF Aligned
    <3> QED BY <3>2, <3>4
  <2>2. CASE buf[B] # LF
    <3>1. PICK b \in 0..L, m \in Nat : Aligned(b, m)
      BY <1>1 DEF HeadInv
    <3>2. LineStart(b) /\ L - b = m * (Size - 1) /\ \A i \in b + 1..L : got[i] # LF
      BY <3>1 DEF Aligned
    <3>3. B = Size - 1
      BY <1>1, <1>2, <2>2
    <3>4. b \in 0..Len(got') /\ LineStart(b)'
      BY <1>1, <3>2, GotGrows
    <3>5. Len(got') - b = (m + 1) * (Size - 1)
      <4>1. (m + 1) * (Size - 1) = m * (Size - 1) + (Size - 1) /\ m * (Size - 1) \in Nat
        BY <1>2, GetLineAssumption, Multiples
      <4> QED BY <1>1, <1>2, <3>2, <3>3, <4>1
    <3>6. ASSUME NEW i \in b + 1..Len(got')
          PROVE  got'[i] # LF
      <4>1. (i \in b + 1..L /\ i \in 1..L) \/ i \in L + 1..L + B - 1 \/ i = L + B
        BY <1>1
      <4> QED BY <1>1, <1>4, <1>5, <2>2, <3>2, <4>1
    <3>7. Aligned(b, m + 1)'
      BY <3>4, <3>5, <3>6 DEF Aligned
    <3> QED BY <3>4, <3>7
  <2> QED BY <2>1, <2>2
<1>7. AtBoundary' \/ \A k \in 1..Len(got') : ~Blank(k)'
  <2> SUFFICES ASSUME ~AtBoundary', NEW k \in 1..Len(got')
               PROVE  ~Blank(k)'
    OBVIOUS
  <2>1. \A n \in 1..L : ~Blank(n)
    BY <1>1, GotGrows DEF HeadInv
  <2>2. CASE k \in 1..L
    BY <2>1, <2>2, GotGrows
  <2>3. CASE k \in L + 1..L + B - 1
    BY <1>4, <1>5, <2>3 DEF Blank
  <2>4. CASE k = L + B
    <3>1. CASE buf[B] # LF
      BY <1>4, <2>4, <3>1 DEF Blank
    <3>2. CASE buf[B] = LF
      <4>1. B # 1
        BY <1>3, <3>2
      <4>2. k - 1 \in L + 1..L + B - 1 /\ k - 1 # 0
        BY <1>1, <2>4, <4>1
      <4>3. got'[k - 1] = "a"
        BY <1>4, <4>2
      <4> QED BY <1>5, <4>2, <4>3 DEF Blank, LineStart
    <3> QED BY <3>1, <3>2
  <2> QED BY <1>1, <2>2, <2>3, <2>4
<1> QED BY <1>6, <1>7

\* The empty line ends the loop: it is one of the header, or a line end that did not
\* fit.
LEMMA EndsWithHeader ==
  ASSUME IInv, HeadInv, Return, ~Stopped, at' = "end"
  PROVE  \/ AtBoundary'
         \/ Len(got') > 0 /\ \A k \in 1..Len(got') : Blank(k)' <=> k = Len(got')
<1> SUFFICES ASSUME ~AtBoundary'
             PROVE  Len(got') > 0 /\ \A k \in 1..Len(got') : Blank(k)' <=> k = Len(got')
  OBVIOUS
<1> DEFINE L == Len(got)
<1>1. buf = <<LF>> /\ Len(buf) = 1 /\ buf[1] = LF
  BY EndsWithBlank
<1>2. /\ at = "recv" /\ L \in Nat /\ Len(got') = L + 1 /\ got'[L + 1] = LF
      /\ \A n \in 1..L : got'[n] = got[n]
  BY <1>1, Returning
<1>3. \A n \in 1..L : ~Blank(n)'
  BY <1>2, GotGrows DEF HeadInv
<1>4. PICK b \in 0..L, m \in Nat : Aligned(b, m)
  BY <1>2 DEF HeadInv
<1>5. LineStart(b) /\ L - b = m * (Size - 1) /\ \A i \in b + 1..L : got[i] # LF
  BY <1>4 DEF Aligned
<1>6. LineStart(b)'
  BY <1>5, GotGrows
<1>7. Size - 1 \in Nat /\ Size - 1 >= 1
  BY GetLineAssumption
<1>8. CASE m = 0
  <2>1. PICK k : k = L + 1
    OBVIOUS
  <2>2. b = k - 1
    <3>1. 0 * (Size - 1) = 0
      BY <1>7, Multiples
    <3> QED BY <1>2, <1>5, <1>8, <2>1, <3>1
  <2>3. Blank(k)'
    BY <1>2, <1>6, <2>1, <2>2 DEF Blank
  <2>4. \A n \in 1..Len(got') : n \in 1..L \/ n = k
    BY <1>2, <2>1
  <2>5. k \notin 1..L /\ k = Len(got') /\ Len(got') > 0
    BY <1>2, <2>1
  <2> QED BY <1>3, <2>3, <2>4, <2>5
<1>9. CASE m # 0
  <2>1. m * (Size - 1) \in Nat /\ m * (Size - 1) >= m
    BY <1>7, Multiples
  <2>2. m \in 1..Len(got') /\ b \in 0..Len(got') /\ L + 1 \in 1..Len(got')
    BY <1>2, <1>5, <1>9, <2>1
  <2>3. \A i \in b + 1..L + 1 - 1 : got'[i] # LF
    BY <1>2, <1>5
  <2>4. L + 1 - 1 - b = m * (Size - 1)
    BY <1>2, <1>5
  <2>5. AtBoundary'
    <3>1. PICK k : k = L + 1
      OBVIOUS
    <3>2. k \in 1..Len(got') /\ k - 1 - b = m * (Size - 1) /\ got'[k] = LF
      BY <1>2, <2>2, <2>4, <3>1
    <3>3. \A i \in b + 1..k - 1 : got'[i] # LF
      BY <2>3, <3>1
    <3> QED BY <1>6, <2>2, <3>2, <3>3 DEF AtBoundary
  <2> QED BY <2>5
<1> QED BY <1>8, <1>9

LEMMA ReturnKeepsHeadInv ==
  ASSUME IInv, HeadInv, Return
  PROVE  HeadInv'
<1>1. /\ at = "recv" /\ UNCHANGED <<loop, stream, sent, closed, taken>>
      /\ buf = <<>> => got' = got
      /\ \/ at' = "recv" /\ c' \in First
         \/ at' = "end"
  <2>1. got \o <<>> = got
    BY Parts
  <2> QED BY <2>1, Returning
<1>2. Stopped' <=> Stopped
  BY <1>1 DEF Stopped
<1>3. at' = "recv" /\ c' = LF => loop' = "http3.0"
  BY <1>1 DEF First, LF
<1>4. at' # "end" /\ ~Stopped' =>
         /\ \E b \in 0..Len(got'), m \in Nat : Aligned(b, m)'
         /\ AtBoundary' \/ \A k \in 1..Len(got') : ~Blank(k)'
  <2>1. CASE buf = <<>>
    BY <1>1, <1>2, <2>1, GotStays
  <2>2. CASE buf # <<>>
    BY <1>1, <1>2, <2>2, GoesOnInLine
  <2> QED BY <2>1, <2>2
<1>5. HeaderEndsAtEmptyLine'
  BY <1>2, EndsWithHeader DEF HeaderEndsAtEmptyLine, Stopped
<1> QED BY <1>3, <1>4, <1>5 DEF HeadInv

LEMMA HeadInvHolds == Spec => []HeadInv
<1>1. IInv /\ HeadInv /\ UNCHANGED vars => HeadInv'
  <2> SUFFICES ASSUME HeadInv, UNCHANGED vars PROVE HeadInv'
    OBVIOUS
  <2>1. UNCHANGED <<loop, stream, sent, closed, taken, at, c, buf, got, ends>>
    BY DEF vars, client
  <2>2. Stopped' <=> Stopped
    BY <2>1 DEF Stopped
  <2> QED BY <2>1, <2>2, GotStays DEF HeadInv
<1>2. IInv /\ HeadInv /\ [Next]_vars => HeadInv'
  BY <1>1, ReadKeepsHeadInv, ReturnKeepsHeadInv DEF Next, Reader
<1> QED BY Inductive, HeadInit, <1>2, PTL DEF Spec

\* get_line and the header loops: the variables keep their types; no more is
\* taken than has arrived.
THEOREM TypeCorrect == Spec => []TypeOK
  BY Inductive, PTL DEF IInv

\* get_line: buf[] is never overrun, for any size and any stream, and a piece
\* without a line end fills the buffer or is the client's last.
THEOREM PiecesAlwaysFit == Spec => []PiecesFit
  BY Inductive, PTL DEF IInv

\* get_line: every byte of the client is returned once and in its place, with each line
\* end as one LF, however the bytes arrive and whatever the size of the buffer.
THEOREM BytesAreKept == Spec => []NothingLost
  BY LostInvHolds, PTL DEF LostInv

\* clear_header, echo_cgi and http3.0: the loop stops behind the first empty line, but
\* for a line as long as the buffer and a client that stops.
THEOREM HeaderEnds == Spec => []HeaderEndsAtEmptyLine
  BY HeadInvHolds, PTL DEF HeadInv
=============================================================================
