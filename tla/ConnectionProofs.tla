--------------------------- MODULE ConnectionProofs ---------------------------
(***************************************************************************)
(* Proofs about Connection: each direction of a connection implements      *)
(* LossyFifo, and what it carries is all that was published, for messages  *)
(* of any size, any room in TCP and on the bus, and any number of dropped  *)
(* calls of `receive`.                                                     *)
(*                                                                         *)
(* The invariant follows the pieces on the way.  They are pieces of the    *)
(* messages that were sent, one after the other without a hole, from the   *)
(* message the reader is in up to the piece the writer is at.  A reader    *)
(* that has pieces of a message is exactly behind them.  One whose call    *)
(* was dropped may be anywhere in the message, but then no piece fits,     *)
(* unless it is at its beginning: what it puts together is the next        *)
(* message, whole, or nothing.                                             *)
(*                                                                         *)
(* A second invariant follows the bus: each message on it has its place in *)
(* what is due to the peer, behind what has been sent, unless the bus has  *)
(* dropped some; then the loop takes nothing from it any more.             *)
(***************************************************************************)
EXTENDS Connection, SequenceTheorems, TLAPS

\* The k-th message n sends, after Hello, and its number of pieces.
M(n, k) == IF k = 0 THEN Hello ELSE sent[n][k]
LenOf(n, k) == 2 * M(n, k).size

\* Messages of n, Hello included, that the other end has taken.
Heard(n) == IF stage[Other(n)] = "hello" THEN 0 ELSE Len(delivered[Other(n)]) + 1

\* The piece behind the j-th of the k-th message.
Follows(n, k, j, l, i) ==
  IF j < LenOf(n, k) THEN l = k /\ i = j + 1 ELSE l = k + 1 /\ i = 1

\* The i-th piece on the way from n is the j[i]-th of the k[i]-th message; the last
\* of k and j is where the writer is.
OnWay(n, k, j) ==
  /\ \A i \in 1..Len(tcp[n]) :
       /\ k[i] \in 0..Len(sent[n]) /\ j[i] \in 1..LenOf(n, k[i])
       /\ tcp[n][i] = Pieces(M(n, k[i]))[j[i]]
       /\ Follows(n, k[i], j[i], k[i + 1], j[i + 1])
  /\ k[1] = Heard(n)
  /\ got[Other(n)] # <<>> => j[1] = Len(got[Other(n)]) + 1
  /\ Running(n) =>
       IF writing[n] = <<>>
         THEN k[Len(tcp[n]) + 1] = Len(sent[n]) + 1 /\ j[Len(tcp[n]) + 1] = 1
         ELSE /\ k[Len(tcp[n]) + 1] = Len(sent[n])
              /\ j[Len(tcp[n]) + 1] = LenOf(n, Len(sent[n])) - Len(writing[n]) + 1

\* What is not written is the end of the last message.
Framed(n) ==
  /\ Len(writing[n]) <= LenOf(n, Len(sent[n]))
  /\ \A i \in 1..Len(writing[n]) :
       writing[n][i] =
         Pieces(M(n, Len(sent[n])))[LenOf(n, Len(sent[n])) - Len(writing[n]) + i]

Place == [Nat -> Nat]

InStep(n) == Running(Other(n)) => \E k, j \in Place : OnWay(n, k, j)

StreamInv ==
  /\ TypeOK
  /\ \A n \in End : stage[n] = "hello" => delivered[n] = <<>>
  /\ \A n \in End : ~Running(n) => writing[n] = <<>>
  /\ \A n \in End : Framed(n) /\ InStep(n)

----------------------------------------------------------------------------
(* Messages and their pieces *)

\* Apart from a lemma's own facts, which would only distract the solver.
LEMMA BackAndForth ==
  /\ 1 + 1 = 2 /\ 1 \in Nat
  /\ \A t \in Nat : t - 1 + 1 = t
OBVIOUS

LEMMA Ends ==
  ASSUME NEW n \in End
  PROVE  Other(n) \in End /\ Other(Other(n)) = n /\ Other(n) # n
BY DEF End, Other

LEMMA HelloIsMsg == Hello \in Msg
<1>1. Publishes["left"] \in Nat /\ "left" \in End
  BY BoundsAssumption DEF End
<1>2. 0 \in 0..(Publishes["left"] + 2)
  BY <1>1
<1>3. 0 \in Number
  BY <1>1, <1>2 DEF Number
<1> QED
  BY <1>3 DEF Hello, Msg

LEMMA MsgSize ==
  ASSUME NEW m \in Msg
  PROVE  m.size \in Nat /\ m.size >= 1 /\ m.no \in Number
<1>1. m.size \in Size \cup {1} /\ m.no \in Number
  BY DEF Msg
<1>2. \A z \in Size : z \in Nat /\ z # 0
  BY SizeAssumption
<1>3. m.size \in Nat /\ m.size # 0
  BY <1>1, <1>2
<1> QED
  BY <1>1, <1>3

LEMMA PiecesAre ==
  ASSUME NEW m \in Msg
  PROVE  /\ Pieces(m) \in Seq(Piece) /\ Len(Pieces(m)) = 2 * m.size /\ Pieces(m) # <<>>
         /\ \A i \in 1..(2 * m.size) :
              Pieces(m)[i] = [group |-> m.no, index |-> (i + 1) \div 2, total |-> m.size,
                              part |-> IF i % 2 = 1 THEN "length" ELSE "body"]
<1> DEFINE f(i) == [group |-> m.no, index |-> (i + 1) \div 2, total |-> m.size,
                    part |-> IF i % 2 = 1 THEN "length" ELSE "body"]
<1>1. m.size \in Nat /\ m.size >= 1 /\ m.no \in Number
  BY MsgSize
<1>2. \A i \in 1..(2 * m.size) : (i + 1) \div 2 \in Nat
  BY <1>1
<1>3. \A i \in 1..(2 * m.size) : f(i) \in Piece
  BY <1>1, <1>2 DEF Piece
<1>4. Pieces(m) = [i \in 1..(2 * m.size) |-> f(i)]
  BY DEF Pieces
<1> HIDE DEF f
<1>5. 2 * m.size \in Nat /\ 2 * m.size >= 2
  BY <1>1
<1>6. Pieces(m) \in Seq(Piece) /\ Len(Pieces(m)) = 2 * m.size
  BY <1>3, <1>4, <1>5, IsASeq, LenProperties
<1>7. Pieces(m) # <<>>
  BY <1>5, <1>6, EmptySeq, LenProperties
<1> QED
  BY <1>4, <1>6, <1>7 DEF f

\* The last piece, and the first.
LEMMA PieceIs ==
  ASSUME NEW m \in Msg, NEW i \in 1..(2 * m.size)
  PROVE  /\ Pieces(m)[i].group = m.no /\ Pieces(m)[i].total = m.size
         /\ Last(Pieces(m)[i]) <=> i = 2 * m.size
         /\ Pieces(m)[i].part = "length" /\ Pieces(m)[i].index = 1 => i = 1
         /\ Pieces(m)[i].part = "body" => i % 2 = 0
<1>1. m.size \in Nat /\ m.size >= 1
  BY MsgSize
<1>2. Pieces(m)[i] = [group |-> m.no, index |-> (i + 1) \div 2, total |-> m.size,
                      part |-> IF i % 2 = 1 THEN "length" ELSE "body"]
  BY PiecesAre
<1>3. i \in Nat /\ i >= 1 /\ i <= 2 * m.size /\ (i % 2 = 0 \/ i % 2 = 1)
  BY <1>1
<1>4. i % 2 = 0 /\ (i + 1) \div 2 = m.size <=> i = 2 * m.size
  BY <1>1, <1>3
<1>5. i % 2 = 1 /\ (i + 1) \div 2 = 1 => i = 1
  BY <1>3
<1>6. Pieces(m)[i].part = "body" <=> i % 2 = 0
  BY <1>2, <1>3
<1>7. Pieces(m)[i].part = "length" <=> i % 2 = 1
  BY <1>2, <1>3
<1>8. Last(Pieces(m)[i]) <=> i % 2 = 0 /\ (i + 1) \div 2 = m.size
  BY <1>2, <1>6 DEF Last
<1> QED
  BY <1>2, <1>4, <1>5, <1>6, <1>7, <1>8

LEMMA Types ==
  ASSUME TypeOK, NEW n \in End
  PROVE  /\ tcp[n] \in Seq(Piece) /\ Len(tcp[n]) \in Nat
         /\ writing[n] \in Seq(Piece) /\ Len(writing[n]) \in Nat
         /\ got[n] \in Seq(Piece) /\ Len(got[n]) \in Nat
         /\ sent[n] \in Seq(Msg) /\ Len(sent[n]) \in Nat
         /\ delivered[n] \in Seq(Msg) /\ Len(delivered[n]) \in Nat
         /\ bus[n] \in Seq(Published) /\ due[n] \in Seq(Msg) /\ puts[n] \in Nat
         /\ Heard(n) \in Nat
<1>1. /\ tcp[n] \in Seq(Piece) /\ writing[n] \in Seq(Piece) /\ got[n] \in Seq(Piece)
      /\ sent[n] \in Seq(Msg) /\ delivered[n] \in Seq(Msg)
      /\ delivered[Other(n)] \in Seq(Msg)
      /\ bus[n] \in Seq(Published) /\ due[n] \in Seq(Msg) /\ puts[n] \in Nat
  BY Ends DEF TypeOK
<1>2. Heard(n) \in Nat
  BY <1>1, LenProperties DEF Heard
<1> QED
  BY <1>1, <1>2, LenProperties

LEMMA MessageIs ==
  ASSUME TypeOK, NEW n \in End, NEW k \in 0..Len(sent[n])
  PROVE  M(n, k) \in Msg /\ LenOf(n, k) \in Nat /\ LenOf(n, k) >= 2
<1>1. M(n, k) \in Msg
  BY Types, HelloIsMsg, ElementOfSeq DEF M
<1>2. M(n, k).size \in Nat /\ M(n, k).size >= 1
  BY <1>1, MsgSize
<1> QED
  BY <1>1, <1>2 DEF LenOf

----------------------------------------------------------------------------
(* What a step does to one direction *)

\* Nothing, but for the reader's call being dropped.
LEMMA SameDirection ==
  ASSUME StreamInv, NEW n \in End,
         tcp'[n] = tcp[n], writing'[n] = writing[n], sent'[n] = sent[n],
         Running(n)' => Running(n), Running(Other(n))' => Running(Other(n)),
         Heard(n)' = Heard(n),
         got'[Other(n)] = got[Other(n)] \/ got'[Other(n)] = <<>>
  PROVE  Framed(n)' /\ InStep(n)'
<1>1. \A k : M(n, k)' = M(n, k) /\ LenOf(n, k)' = LenOf(n, k)
  BY DEF M, LenOf
<1>2. Framed(n) /\ InStep(n)
  BY DEF StreamInv
<1>3. Framed(n)'
  BY <1>1, <1>2 DEF Framed
<1>4. ASSUME Running(Other(n))'
      PROVE  \E k, j \in Place : OnWay(n, k, j)'
  <2>1. PICK k \in Place, j \in Place : OnWay(n, k, j)
    BY <1>2, <1>4 DEF InStep
  <2>2. \A i \in 1..Len(tcp[n]) :
          Follows(n, k[i], j[i], k[i + 1], j[i + 1])' = Follows(n, k[i], j[i], k[i + 1], j[i + 1])
    BY <1>1 DEF Follows
  <2>3. OnWay(n, k, j)'
    BY <1>1, <2>1, <2>2 DEF OnWay
  <2> QED
    BY <2>3
<1> QED
  BY <1>3, <1>4 DEF InStep

\* The writer ends: a prefix of what it wrote arrives.
LEMMA ClosedDirection ==
  ASSUME StreamInv, NEW n \in End, NEW why \in Ended, Close(n, why)
  PROVE  Framed(n)' /\ InStep(n)'
<1>1. PICK c \in 0..Len(tcp[n]) :
        tcp' = [tcp EXCEPT ![n] = SubSeq(@, 1, c), ![Other(n)] = <<>>]
  BY DEF Close
<1>2. /\ stage' = [stage EXCEPT ![n] = why] /\ writing' = [writing EXCEPT ![n] = <<>>]
      /\ got' = [got EXCEPT ![n] = <<>>]
      /\ UNCHANGED <<sent, delivered>>
  BY DEF Close
<1>3. /\ TypeOK /\ Framed(n) /\ InStep(n)
  BY DEF StreamInv
<1>4. /\ stage'[n] = why /\ stage'[Other(n)] = stage[Other(n)]
      /\ writing'[n] = <<>> /\ got'[Other(n)] = got[Other(n)]
  BY <1>2, <1>3, Ends DEF TypeOK
<1>5. ~Running(n)' /\ Running(Other(n))' = Running(Other(n)) /\ Heard(n)' = Heard(n)
  BY <1>2, <1>4 DEF Running, Heard
<1>6. /\ tcp'[n] = SubSeq(tcp[n], 1, c) /\ c \in Nat /\ c <= Len(tcp[n])
      /\ Len(tcp[n]) \in Nat
  <2>1. Len(tcp[n]) \in Nat
    BY <1>3, Types
  <2>2. tcp \in [End -> Seq(Piece)] /\ Other(n) # n
    BY <1>3, Ends DEF TypeOK
  <2> QED
    BY <1>1, <2>1, <2>2
<1>7. Len(tcp'[n]) = c /\ \A i \in 1..c : tcp'[n][i] = tcp[n][i]
  <2>1. tcp[n] \in Seq(Piece)
    BY <1>3, Types
  <2>2. \A i \in 1..c : tcp[n][i] \in Piece
    BY <1>6, <2>1, ElementOfSeq
  <2>3. /\ Len(SubSeq(tcp[n], 1, c)) = IF 1 <= c THEN c - 1 + 1 ELSE 0
        /\ \A i \in 1..(c - 1 + 1) : SubSeq(tcp[n], 1, c)[i] = tcp[n][1 + i - 1]
    BY <1>6, <2>2, SubSeqProperties
  <2> QED
    BY <1>6, <2>3
<1>8. \A k : M(n, k)' = M(n, k) /\ LenOf(n, k)' = LenOf(n, k)
  BY <1>2 DEF M, LenOf
<1>9. Framed(n)'
  <2>1. Len(sent[n]) \in 0..Len(sent[n])
    BY <1>3, Types
  <2>2. Len(writing'[n]) = 0 /\ LenOf(n, Len(sent[n])) >= 0 /\ LenOf(n, Len(sent[n])) \in Nat
    BY <1>3, <1>4, <2>1, MessageIs, EmptySeq, LenProperties
  <2> QED
    BY <1>2, <1>8, <2>2 DEF Framed
<1>10. ASSUME Running(Other(n))'
       PROVE  \E k, j \in Place : OnWay(n, k, j)'
  <2>1. PICK k \in Place, j \in Place : OnWay(n, k, j)
    BY <1>3, <1>5, <1>10 DEF InStep
  <2>2. \A i \in 1..c :
          Follows(n, k[i], j[i], k[i + 1], j[i + 1])' = Follows(n, k[i], j[i], k[i + 1], j[i + 1])
    BY <1>8 DEF Follows
  <2>3. \A i \in 1..c : i \in 1..Len(tcp[n])
    BY <1>6
  <2>4. OnWay(n, k, j)'
    BY <1>2, <1>4, <1>5, <1>6, <1>7, <1>8, <2>1, <2>2, <2>3 DEF OnWay
  <2> QED
    BY <2>4
<1> QED
  BY <1>9, <1>10 DEF InStep

\* The reader ends.
LEMMA UnreadDirection ==
  ASSUME StreamInv, NEW n \in End, ~Running(Other(n))',
         writing'[n] = writing[n], sent'[n] = sent[n]
  PROVE  Framed(n)' /\ InStep(n)'
<1>1. \A k : M(n, k)' = M(n, k) /\ LenOf(n, k)' = LenOf(n, k)
  BY DEF M, LenOf
<1> QED
  BY <1>1 DEF StreamInv, Framed, InStep

\* A message begins to be sent: the writer is at its first piece instead of behind
\* the last one.
LEMMA SendDirection ==
  ASSUME StreamInv, NEW n \in End, NEW m \in Msg, send(n, m),
         writing[n] = <<>>, tcp'[n] = tcp[n], Running(n),
         Running(Other(n))' => Running(Other(n)), Heard(n)' = Heard(n),
         got'[Other(n)] = got[Other(n)]
  PROVE  Framed(n)' /\ InStep(n)'
<1>1. /\ TypeOK /\ InStep(n)
  BY DEF StreamInv
<1>2. writing'[n] = Pieces(m) /\ sent'[n] = Append(sent[n], m)
  BY <1>1 DEF send, TypeOK
<1>0. PICK L \in Nat : L = Len(sent[n])
  BY <1>1, Types
<1>3. /\ Len(sent'[n]) = L + 1
      /\ \A k \in 1..L : sent'[n][k] = sent[n][k]
      /\ sent'[n][L + 1] = m
  BY <1>0, <1>1, <1>2, Types, AppendProperties
<1>4. /\ \A k \in 0..L : M(n, k)' = M(n, k) /\ LenOf(n, k)' = LenOf(n, k)
      /\ M(n, L + 1)' = m /\ LenOf(n, L + 1)' = 2 * m.size
  <2>1. ASSUME NEW k \in 0..L PROVE M(n, k)' = M(n, k)
    <3>1. k = 0 \/ k \in 1..L
      OBVIOUS
    <3> QED
      BY <1>3, <3>1 DEF M, Hello
  <2>2. M(n, L + 1)' = m
    BY <1>3 DEF M
  <2> QED
    BY <2>1, <2>2 DEF LenOf
<1>5. /\ m.size \in Nat /\ m.size >= 1 /\ Pieces(m) # <<>>
      /\ Len(Pieces(m)) = 2 * m.size
  BY MsgSize, PiecesAre
<1>6. Framed(n)'
  <2>1. \A i \in 1..Len(Pieces(m)) : 2 * m.size - 2 * m.size + i = i
    BY <1>5
  <2> QED
    BY <1>0, <1>2, <1>3, <1>4, <1>5, <2>1 DEF Framed
<1>7. ASSUME Running(Other(n))'
      PROVE  \E k, j \in Place : OnWay(n, k, j)'
  <2>1. PICK k \in Place, j \in Place : OnWay(n, k, j)
    BY <1>1, <1>7 DEF InStep
  <2>2. ASSUME NEW i \in 1..Len(tcp[n])
        PROVE  /\ k[i] \in 0..Len(sent'[n]) /\ j[i] \in 1..LenOf(n, k[i])'
               /\ tcp'[n][i] = Pieces(M(n, k[i])')[j[i]]
               /\ Follows(n, k[i], j[i], k[i + 1], j[i + 1])'
    <3>1. /\ k[i] \in 0..L /\ j[i] \in 1..LenOf(n, k[i])
          /\ tcp[n][i] = Pieces(M(n, k[i]))[j[i]]
          /\ Follows(n, k[i], j[i], k[i + 1], j[i + 1])
      BY <1>0, <2>1 DEF OnWay
    <3>2. k[i] \in 0..Len(sent'[n])
      BY <1>3, <3>1
    <3> QED
      BY <1>4, <3>1, <3>2 DEF Follows
  <2>3. /\ k[Len(tcp'[n]) + 1] = Len(sent'[n])
        /\ j[Len(tcp'[n]) + 1] = LenOf(n, L + 1)' - Len(writing'[n]) + 1
    BY <1>0, <1>2, <1>3, <1>4, <1>5, <2>1 DEF OnWay
  <2>4. OnWay(n, k, j)'
    BY <1>2, <1>3, <1>5, <2>1, <2>2, <2>3 DEF OnWay
  <2> QED
    BY <2>4
<1> QED
  BY <1>6, <1>7 DEF InStep

\* A piece is written: the one where the writer was is the last on the way.
LEMMA WriteDirection ==
  ASSUME StreamInv, NEW n \in End, Write(n)
  PROVE  Framed(n)' /\ InStep(n)'
<1>1. TypeOK /\ Framed(n) /\ InStep(n)
  BY DEF StreamInv
<1>2. /\ writing[n] # <<>> /\ UNCHANGED <<stage, got, sent, delivered>>
      /\ writing'[n] = Tail(writing[n])
      /\ tcp'[n] = Append(tcp[n], Head(writing[n]))
  BY <1>1 DEF Write, TypeOK
<1>3. PICK L \in Nat, t \in Nat, r \in Nat :
        L = Len(sent[n]) /\ t = Len(tcp[n]) /\ r = Len(writing[n])
  BY <1>1, Types
<1>4. /\ \A k : M(n, k)' = M(n, k) /\ LenOf(n, k)' = LenOf(n, k)
      /\ Running(n)' = Running(n) /\ Running(Other(n))' = Running(Other(n))
      /\ Heard(n)' = Heard(n)
  BY <1>2 DEF M, LenOf, Running, Heard
<1>5. LenOf(n, L) \in Nat /\ r <= LenOf(n, L) /\ L \in 0..L
  BY <1>1, <1>3, MessageIs DEF Framed
<1>6. /\ r > 0 /\ Head(writing[n]) = writing[n][1] /\ Head(writing[n]) \in Piece
      /\ Len(writing'[n]) = r - 1 /\ \A i \in 1..(r - 1) : writing'[n][i] = writing[n][i + 1]
      /\ (writing'[n] = <<>> <=> r = 1)
  <2>1. writing[n] \in Seq(Piece)
    BY <1>1, Types
  <2>2. /\ r > 0 /\ Head(writing[n]) = writing[n][1]
    BY <1>2, <1>3, <2>1, EmptySeq, LenProperties
  <2>3. /\ Head(writing[n]) \in Piece /\ Tail(writing[n]) \in Seq(Piece)
        /\ Len(Tail(writing[n])) = r - 1
        /\ \A i \in 1..(r - 1) : Tail(writing[n])[i] = writing[n][i + 1]
    BY <1>2, <1>3, <2>1, HeadTailProperties
  <2>4. Tail(writing[n]) = <<>> <=> r = 1
    <3> DEFINE tail == Tail(writing[n])
    <3>1. tail \in Seq(Piece) /\ Len(tail) = r - 1
      BY <2>3
    <3> HIDE DEF tail
    <3>2. tail = <<>> <=> Len(tail) = 0
      BY <3>1, EmptySeq
    <3>3. tail = <<>> <=> r = 1
      BY <3>1, <3>2
    <3> QED
      BY <3>3 DEF tail
  <2> QED
    BY <1>2, <2>2, <2>3, <2>4
<1>7. /\ Len(tcp'[n]) = t + 1 /\ \A i \in 1..t : tcp'[n][i] = tcp[n][i]
      /\ tcp'[n][t + 1] = writing[n][1]
  BY <1>1, <1>2, <1>3, <1>6, Types, AppendProperties
<1>8. writing[n][1] = Pieces(M(n, L))[LenOf(n, L) - r + 1]
  BY <1>1, <1>3, <1>6 DEF Framed
<1>9. Framed(n)'
  <2>1. ASSUME NEW i \in 1..(r - 1)
        PROVE  writing'[n][i] = Pieces(M(n, L))[LenOf(n, L) - (r - 1) + i]
    <3>1. i + 1 \in 1..r /\ LenOf(n, L) - r + (i + 1) = LenOf(n, L) - (r - 1) + i
      <4>1. i + 1 \in 1..r
        OBVIOUS
      <4>2. \A a \in Nat : a - r + (i + 1) = a - (r - 1) + i
        OBVIOUS
      <4> QED
        BY <1>5, <4>1, <4>2
    <3>2. writing[n][i + 1] = Pieces(M(n, L))[LenOf(n, L) - r + (i + 1)]
      BY <1>1, <1>3, <3>1 DEF Framed
    <3> QED
      BY <1>6, <3>1, <3>2
  <2>2. r - 1 <= LenOf(n, L)
    BY <1>3, <1>5
  <2> QED
    BY <1>2, <1>3, <1>4, <1>6, <2>1, <2>2 DEF Framed
<1>10. ASSUME Running(Other(n))', Running(n)
       PROVE  \E k, j \in Place : OnWay(n, k, j)'
  <2>1. PICK k \in Place, j \in Place : OnWay(n, k, j)
    BY <1>1, <1>4, <1>10 DEF InStep
  <2>2. k[t + 1] = L /\ j[t + 1] = LenOf(n, L) - r + 1
    BY <1>2, <1>3, <1>10, <2>1 DEF OnWay
  <2>3. LenOf(n, L) - r + 2 \in Nat
    BY <1>5
  <2>4. PICK kk \in Place, jj \in Place :
          /\ \A i \in 1..(t + 1) : kk[i] = k[i] /\ jj[i] = j[i]
          /\ kk[t + 2] = IF r = 1 THEN L + 1 ELSE L
          /\ jj[t + 2] = IF r = 1 THEN 1 ELSE LenOf(n, L) - r + 2
    <3> DEFINE kk == [k EXCEPT ![t + 2] = IF r = 1 THEN L + 1 ELSE L]
               jj == [j EXCEPT ![t + 2] = IF r = 1 THEN 1 ELSE LenOf(n, L) - r + 2]
    <3>1. kk \in Place /\ jj \in Place
      BY <2>3 DEF Place
    <3>2. /\ \A i \in 1..(t + 1) : kk[i] = k[i] /\ jj[i] = j[i]
          /\ kk[t + 2] = IF r = 1 THEN L + 1 ELSE L
          /\ jj[t + 2] = IF r = 1 THEN 1 ELSE LenOf(n, L) - r + 2
      BY DEF Place
    <3> HIDE DEF kk, jj
    <3> QED
      BY <3>1, <3>2
  <2>5. ASSUME NEW i \in 1..(t + 1)
        PROVE  /\ kk[i] \in 0..L /\ jj[i] \in 1..LenOf(n, kk[i])
               /\ tcp'[n][i] = Pieces(M(n, kk[i]))[jj[i]]
               /\ Follows(n, kk[i], jj[i], kk[i + 1], jj[i + 1])
    <3>1. CASE i \in 1..t
      <4>1. i + 1 \in 1..(t + 1)
        BY <1>3, <3>1
      <4>2. /\ k[i] \in 0..L /\ j[i] \in 1..LenOf(n, k[i])
            /\ tcp[n][i] = Pieces(M(n, k[i]))[j[i]]
            /\ Follows(n, k[i], j[i], k[i + 1], j[i + 1])
        BY <1>3, <2>1, <3>1 DEF OnWay
      <4> QED
        BY <1>7, <2>4, <3>1, <4>1, <4>2
    <3>2. CASE i = t + 1
      <4>1. kk[i] = L /\ jj[i] = LenOf(n, L) - r + 1 /\ i + 1 = t + 2
        BY <1>3, <2>2, <2>4, <3>2
      <4>2. jj[i] \in 1..LenOf(n, L)
        <5>1. ASSUME NEW a \in Nat, r <= a
              PROVE  a - r + 1 \in 1..a
          BY <1>6, <5>1
        <5> QED
          BY <1>5, <4>1, <5>1
      <4>3. Follows(n, L, LenOf(n, L) - r + 1, kk[t + 2], jj[t + 2])
        <5>1. CASE r = 1
          BY <1>5, <2>4, <5>1 DEF Follows
        <5>2. CASE r # 1
          <6>1. LenOf(n, L) - r + 1 < LenOf(n, L)
            BY <1>3, <1>5, <1>6, <5>2
          <6>2. LenOf(n, L) - r + 2 = (LenOf(n, L) - r + 1) + 1
            BY <1>3, <1>5
          <6> QED
            BY <2>4, <5>2, <6>1, <6>2 DEF Follows
        <5> QED
          BY <5>1, <5>2
      <4> QED
        BY <1>5, <1>7, <1>8, <3>2, <4>1, <4>2, <4>3
    <3> QED
      BY <1>3, <3>1, <3>2
  <2>6. kk[1] = Heard(n) /\ (got[Other(n)] # <<>> => jj[1] = Len(got[Other(n)]) + 1)
    BY <1>3, <2>1, <2>4 DEF OnWay
  <2>7. IF r = 1 THEN kk[t + 2] = L + 1 /\ jj[t + 2] = 1
        ELSE kk[t + 2] = L /\ jj[t + 2] = LenOf(n, L) - (r - 1) + 1
    BY <1>3, <1>5, <2>4
  <2>8. /\ \A i \in 1..(t + 1) :
             Follows(n, kk[i], jj[i], kk[i + 1], jj[i + 1])'
               = Follows(n, kk[i], jj[i], kk[i + 1], jj[i + 1])
        /\ t + 1 + 1 = t + 2
    BY <1>3, <1>4 DEF Follows
  <2>9. OnWay(n, kk, jj)'
    BY <1>2, <1>3, <1>4, <1>6, <1>7, <2>5, <2>6, <2>7, <2>8 DEF OnWay
  <2> QED
    BY <2>4, <2>9
<1>11. Running(n)
  BY <1>1, <1>2 DEF StreamInv
<1> QED
  BY <1>9, <1>10, <1>11 DEF InStep

\* The piece a reader takes is the next of the message it is in.
LEMMA HeadIs ==
  ASSUME StreamInv, NEW n \in End, NEW k \in Place, NEW j \in Place, OnWay(n, k, j),
         tcp[n] # <<>>, Fits(Other(n), Head(tcp[n]))
  PROVE  /\ k[1] = Heard(n) /\ k[1] \in 0..Len(sent[n])
         /\ j[1] \in 1..LenOf(n, k[1]) /\ j[1] = Len(got[Other(n)]) + 1
         /\ Follows(n, k[1], j[1], k[2], j[2])
         /\ Head(tcp[n]).group = M(n, k[1]).no
         /\ Last(Head(tcp[n])) <=> j[1] = LenOf(n, k[1])
         /\ Last(Head(tcp[n])) => (Len(got[Other(n)]) + 1) \div 2 = M(n, k[1]).size
<1>1. TypeOK
  BY DEF StreamInv
<1>2. 1 \in 1..Len(tcp[n]) /\ Head(tcp[n]) = tcp[n][1]
  BY <1>1, Types, EmptySeq, LenProperties
<1>3. /\ k[1] = Heard(n) /\ k[1] \in 0..Len(sent[n]) /\ j[1] \in 1..LenOf(n, k[1])
      /\ Head(tcp[n]) = Pieces(M(n, k[1]))[j[1]]
      /\ Follows(n, k[1], j[1], k[1 + 1], j[1 + 1])
      /\ got[Other(n)] # <<>> => j[1] = Len(got[Other(n)]) + 1
  BY <1>2 DEF OnWay
<1>4. M(n, k[1]) \in Msg /\ LenOf(n, k[1]) = 2 * M(n, k[1]).size /\ M(n, k[1]).size \in Nat
  BY <1>1, <1>3, MessageIs, MsgSize DEF LenOf
<1>5. /\ Head(tcp[n]).group = M(n, k[1]).no
      /\ Last(Head(tcp[n])) <=> j[1] = LenOf(n, k[1])
      /\ Head(tcp[n]).part = "length" /\ Head(tcp[n]).index = 1 => j[1] = 1
  BY <1>3, <1>4, PieceIs
<1>6. j[1] = Len(got[Other(n)]) + 1
  <2>1. CASE got[Other(n)] # <<>>
    BY <1>3, <2>1
  <2>2. CASE got[Other(n)] = <<>>
    <3>1. Len(got[Other(n)]) = 0
      BY <2>2, EmptySeq
    <3>2. 0 % 2 = 0 /\ 0 \div 2 + 1 = 1
      OBVIOUS
    <3>3. Head(tcp[n]).part = "length" /\ Head(tcp[n]).index = 1
      BY <3>1, <3>2 DEF Fits
    <3> QED
      BY <1>5, <3>1, <3>3
  <2> QED
    BY <2>1, <2>2
<1>7. (\A a \in Nat : (2 * a) \div 2 = a) /\ 1 + 1 = 2
  OBVIOUS
<1>8. Last(Head(tcp[n])) => (Len(got[Other(n)]) + 1) \div 2 = M(n, k[1]).size
  BY <1>4, <1>5, <1>6, <1>7
<1> QED
  BY <1>3, <1>5, <1>6, <1>7, <1>8

LEMMA Shifted ==
  ASSUME NEW f \in Place
  PROVE  \E g \in Place : \A i \in Nat : g[i] = f[i + 1]
<1> DEFINE g == [i \in Nat |-> f[i + 1]]
<1>1. \A i \in Nat : i + 1 \in Nat
  OBVIOUS
<1>2. \A i \in Nat : f[i + 1] \in Nat
  BY <1>1 DEF Place
<1>3. g \in Place
  BY <1>2 DEF Place
<1> QED
  BY <1>3

\* A piece is read: the rest is still behind what the reader has.
LEMMA ReadDirection ==
  ASSUME StreamInv, NEW n \in End, Read(Other(n)),
         writing'[n] = writing[n], sent'[n] = sent[n], Running(n)' => Running(n),
         \/ /\ ~Last(Head(tcp[n])) /\ Heard(n)' = Heard(n)
            /\ got'[Other(n)] = Append(got[Other(n)], Head(tcp[n]))
         \/ /\ Last(Head(tcp[n])) /\ Heard(n)' = Heard(n) + 1
            /\ got'[Other(n)] = <<>>
  PROVE  Framed(n)' /\ InStep(n)'
<1>1. TypeOK /\ Framed(n) /\ InStep(n)
  BY DEF StreamInv
<1>2. /\ tcp[n] # <<>> /\ Fits(Other(n), Head(tcp[n])) /\ tcp'[n] = Tail(tcp[n])
      /\ Running(Other(n))
  <2>1. /\ tcp[Other(Other(n))] # <<>> /\ Fits(Other(n), Head(tcp[Other(Other(n))]))
        /\ tcp' = [tcp EXCEPT ![Other(Other(n))] = Tail(@)]
        /\ stage[Other(n)] \in {"hello", "live"}
    BY DEF Read, Reading
  <2>2. Other(Other(n)) = n
    BY Ends
  <2>3. tcp'[n] = Tail(tcp[n])
    BY <1>1, <2>1, <2>2 DEF TypeOK
  <2> QED
    BY <2>1, <2>2, <2>3 DEF Running, Ended
<1>3. \A k : M(n, k)' = M(n, k) /\ LenOf(n, k)' = LenOf(n, k)
  BY DEF M, LenOf
<1>4. Framed(n)'
  BY <1>1, <1>3 DEF Framed
<1>5. PICK t \in Nat : t = Len(tcp[n])
  BY <1>1, Types
<1>6. t > 0 /\ Len(tcp'[n]) = t - 1 /\ \A i \in 1..(t - 1) : tcp'[n][i] = tcp[n][i + 1]
  <2>1. tcp[n] \in Seq(Piece)
    BY <1>1, Types
  <2>2. t > 0
    BY <1>2, <1>5, <2>1, EmptySeq
  <2> QED
    BY <1>2, <1>5, <2>1, <2>2, HeadTailProperties
<1>7. PICK k \in Place, j \in Place : OnWay(n, k, j)
  BY <1>1, <1>2 DEF InStep
<1>8. PICK kk \in Place, jj \in Place : \A i \in Nat : kk[i] = k[i + 1] /\ jj[i] = j[i + 1]
  <2>1. PICK kk \in Place : \A i \in Nat : kk[i] = k[i + 1]
    BY Shifted
  <2>2. PICK jj \in Place : \A i \in Nat : jj[i] = j[i + 1]
    BY Shifted
  <2> WITNESS kk \in Place, jj \in Place
  <2> QED
    BY <2>1, <2>2
<1>9. kk[1] = k[2] /\ jj[1] = j[2] /\ kk[t] = k[t + 1] /\ jj[t] = j[t + 1] /\ t - 1 + 1 = t
  <2>1. 1 + 1 = 2 /\ 1 \in Nat /\ t - 1 + 1 = t
    BY BackAndForth
  <2>2. kk[1] = k[1 + 1] /\ jj[1] = j[1 + 1]
    BY <1>8, <2>1
  <2>3. kk[t] = k[t + 1] /\ jj[t] = j[t + 1]
    BY <1>8
  <2> QED
    BY <2>1, <2>2, <2>3
<1>10. ASSUME NEW i \in 1..(t - 1)
       PROVE  /\ kk[i] \in 0..Len(sent[n]) /\ jj[i] \in 1..LenOf(n, kk[i])
              /\ tcp'[n][i] = Pieces(M(n, kk[i]))[jj[i]]
              /\ Follows(n, kk[i], jj[i], kk[i + 1], jj[i + 1])
  <2>1. i + 1 \in 1..t /\ i \in Nat /\ i + 1 \in Nat
    OBVIOUS
  <2>2. /\ k[i + 1] \in 0..Len(sent[n]) /\ j[i + 1] \in 1..LenOf(n, k[i + 1])
        /\ tcp[n][i + 1] = Pieces(M(n, k[i + 1]))[j[i + 1]]
        /\ Follows(n, k[i + 1], j[i + 1], k[(i + 1) + 1], j[(i + 1) + 1])
    <3> DEFINE q == i + 1
    <3>1. q \in 1..Len(tcp[n])
      BY <1>5, <2>1
    <3> HIDE DEF q
    <3>2. /\ k[q] \in 0..Len(sent[n]) /\ j[q] \in 1..LenOf(n, k[q])
          /\ tcp[n][q] = Pieces(M(n, k[q]))[j[q]]
          /\ Follows(n, k[q], j[q], k[q + 1], j[q + 1])
      BY <1>7, <3>1 DEF OnWay
    <3> QED
      BY <3>2 DEF q
  <2>3. /\ kk[i] = k[i + 1] /\ jj[i] = j[i + 1]
        /\ kk[i + 1] = k[(i + 1) + 1] /\ jj[i + 1] = j[(i + 1) + 1]
    BY <1>8, <2>1
  <2> QED
    BY <1>6, <2>2, <2>3
<1>11. /\ k[1] = Heard(n) /\ k[1] \in 0..Len(sent[n])
       /\ j[1] \in 1..LenOf(n, k[1]) /\ j[1] = Len(got[Other(n)]) + 1
       /\ Follows(n, k[1], j[1], k[2], j[2])
       /\ Last(Head(tcp[n])) <=> j[1] = LenOf(n, k[1])
  BY <1>2, <1>7, HeadIs
<1>12. LenOf(n, k[1]) \in Nat
  BY <1>1, <1>11, MessageIs
<1>13. kk[1] = Heard(n)' /\ (got'[Other(n)] # <<>> => jj[1] = Len(got'[Other(n)]) + 1)
  <2>1. CASE /\ ~Last(Head(tcp[n])) /\ Heard(n)' = Heard(n)
             /\ got'[Other(n)] = Append(got[Other(n)], Head(tcp[n]))
    <3>1. k[2] = k[1] /\ j[2] = j[1] + 1
      BY <1>11, <1>12, <2>1 DEF Follows
    <3>2. Len(got'[Other(n)]) = Len(got[Other(n)]) + 1
      <4>1. got[Other(n)] \in Seq(Piece) /\ Head(tcp[n]) \in Piece
        BY <1>1, <1>2, Ends, Types, HeadTailProperties
      <4> QED
        BY <2>1, <4>1, AppendProperties
    <3> QED
      BY <1>9, <1>11, <2>1, <3>1, <3>2
  <2>2. CASE Last(Head(tcp[n])) /\ Heard(n)' = Heard(n) + 1 /\ got'[Other(n)] = <<>>
    <3>1. k[2] = k[1] + 1
      BY <1>11, <1>12, <2>2 DEF Follows
    <3> QED
      BY <1>9, <1>11, <2>2, <3>1
  <2> QED
    BY <2>1, <2>2
<1>14. Running(n) =>
         IF writing[n] = <<>>
           THEN kk[t] = Len(sent[n]) + 1 /\ jj[t] = 1
           ELSE kk[t] = Len(sent[n]) /\ jj[t] = LenOf(n, Len(sent[n])) - Len(writing[n]) + 1
  BY <1>5, <1>7, <1>9 DEF OnWay
<1>15. \A i \in 1..(t - 1) :
         Follows(n, kk[i], jj[i], kk[i + 1], jj[i + 1])'
           = Follows(n, kk[i], jj[i], kk[i + 1], jj[i + 1])
  BY <1>3 DEF Follows
<1>16. OnWay(n, kk, jj)'
  BY <1>3, <1>6, <1>9, <1>10, <1>13, <1>14, <1>15 DEF OnWay
<1> QED
  BY <1>4, <1>16 DEF InStep

----------------------------------------------------------------------------
(* The steps *)

\* What a step may do to a direction, in LossyFifo's terms.
SameEnds(n) == Running(n)' = Running(n) /\ Running(Other(n))' = Running(Other(n))

FifoStep(n) ==
  \/ /\ Running(n) /\ \E m \in Msg : sent'[n] = Append(sent[n], m)
     /\ delivered'[Other(n)] = delivered[Other(n)] /\ SameEnds(n)
  \/ /\ Running(Other(n)) /\ Len(delivered[Other(n)]) < Len(sent[n])
     /\ delivered'[Other(n)] =
          Append(delivered[Other(n)], sent[n][Len(delivered[Other(n)]) + 1])
     /\ sent'[n] = sent[n] /\ SameEnds(n)
  \/ /\ sent'[n] = sent[n] /\ delivered'[Other(n)] = delivered[Other(n)]
     /\ \/ ~Running(n)' /\ Running(Other(n))' = Running(Other(n))
        \/ ~Running(Other(n))' /\ Running(n)' = Running(n)
        \/ SameEnds(n)

LEMMA BothEnds ==
  ASSUME NEW n \in End
  PROVE  \A e \in End : e = n \/ e = Other(n)
BY DEF End, Other

LEMMA CloseStep ==
  ASSUME StreamInv, NEW n \in End, NEW why \in Ended, Close(n, why), faults' \in Nat
  PROVE  StreamInv' /\ \A e \in End : FifoStep(e)
<1>1. TypeOK
  BY DEF StreamInv
<1>2. /\ stage' = [stage EXCEPT ![n] = why]
      /\ writing' = [writing EXCEPT ![n] = <<>>]
      /\ got' = [got EXCEPT ![n] = <<>>]
      /\ bus' = [bus EXCEPT ![n] = <<>>]
      /\ UNCHANGED <<trusted, latest, lagged, due, sent, delivered, puts>>
  BY DEF Close
<1>3. PICK c \in 0..Len(tcp[n]) :
        tcp' = [tcp EXCEPT ![n] = SubSeq(@, 1, c), ![Other(n)] = <<>>]
  BY DEF Close
<1>4. /\ Other(n) \in End /\ Other(n) # n /\ \A e \in End : e = n \/ e = Other(n)
      /\ Other(Other(n)) = n
  BY Ends, BothEnds
<1>5. SubSeq(tcp[n], 1, c) \in Seq(Piece) /\ Len(SubSeq(tcp[n], 1, c)) <= Len(tcp[n])
  <2>1. tcp[n] \in Seq(Piece) /\ Len(tcp[n]) \in Nat /\ c \in Nat /\ c <= Len(tcp[n])
    BY <1>1, Types
  <2>2. \A i \in 1..c : tcp[n][i] \in Piece
    BY <2>1, ElementOfSeq
  <2>3. /\ SubSeq(tcp[n], 1, c) \in Seq(Piece)
        /\ Len(SubSeq(tcp[n], 1, c)) = IF 1 <= c THEN c - 1 + 1 ELSE 0
    BY <2>1, <2>2, SubSeqProperties
  <2> QED
    BY <2>1, <2>3
<1>6. /\ <<>> \in Seq(Piece) /\ <<>> \in Seq(Published)
      /\ \A q : q = <<>> => Len(q) = 0
      /\ 0 <= Window /\ 0 <= BusLimit /\ Window \in Nat /\ BusLimit \in Nat
  BY EmptySeq, WindowAssumption, BusLimitAssumption
<1>7. TypeOK'
  <2>1. tcp' \in [End -> Seq(Piece)] /\ \A e \in End : Len(tcp'[e]) <= Window
    <3>1. tcp'[n] = SubSeq(tcp[n], 1, c) /\ tcp'[Other(n)] = <<>>
      BY <1>1, <1>3, <1>4 DEF TypeOK
    <3>2. tcp' \in [End -> Seq(Piece)]
      BY <1>1, <1>3, <1>4, <1>5, <1>6 DEF TypeOK
    <3>3. Len(tcp[n]) <= Window /\ Len(tcp[n]) \in Nat /\ Len(tcp'[n]) \in Nat
      BY <1>1, <1>5, <3>1, Types, LenProperties DEF TypeOK
    <3>4. Len(tcp'[n]) <= Window
      BY <1>5, <1>6, <3>1, <3>3
    <3>5. Len(tcp'[Other(n)]) <= Window
      BY <1>6, <3>1
    <3> QED
      BY <1>4, <3>2, <3>4, <3>5
  <2>2. bus' \in [End -> Seq(Published)] /\ \A e \in End : Len(bus'[e]) <= BusLimit
    BY <1>1, <1>2, <1>4, <1>6 DEF TypeOK
  <2>3. stage' \in [End -> {"hello", "latest", "live"} \cup Ended]
    BY <1>1, <1>2 DEF TypeOK
  <2>4. writing' \in [End -> Seq(Piece)] /\ got' \in [End -> Seq(Piece)]
    BY <1>1, <1>2, <1>6 DEF TypeOK
  <2> QED
    BY <1>1, <1>2, <2>1, <2>2, <2>3, <2>4 DEF TypeOK
<1>8. /\ stage'[n] = why /\ stage'[Other(n)] = stage[Other(n)] /\ writing'[n] = <<>>
      /\ writing'[Other(n)] = writing[Other(n)]
  BY <1>1, <1>2, <1>4 DEF TypeOK
<1>9. /\ ~Running(n)' /\ Running(Other(n))' = Running(Other(n))
      /\ why # "hello"
  BY <1>8 DEF Running, Ended
<1>10. \A e \in End : Framed(e)' /\ InStep(e)'
  <2>1. Framed(n)' /\ InStep(n)'
    BY ClosedDirection
  <2>2. Framed(Other(n))' /\ InStep(Other(n))'
    BY <1>2, <1>4, <1>8, <1>9, UnreadDirection
  <2> QED
    BY <1>4, <2>1, <2>2
<1>11. \A e \in End : stage'[e] = "hello" => delivered'[e] = <<>>
  BY <1>2, <1>4, <1>8, <1>9 DEF StreamInv
<1>12. \A e \in End : ~Running(e)' => writing'[e] = <<>>
  BY <1>4, <1>8, <1>9 DEF StreamInv
<1>13. \A e \in End : FifoStep(e)
  <2>1. FifoStep(n)
    BY <1>2, <1>9 DEF FifoStep
  <2>2. FifoStep(Other(n))
    BY <1>2, <1>4, <1>9 DEF FifoStep
  <2> QED
    BY <1>4, <2>1, <2>2
<1> QED
  BY <1>7, <1>10, <1>11, <1>12, <1>13 DEF StreamInv

\* Steps that leave what is on the way alone, and both loops running or not.
LEMMA QuietStep ==
  ASSUME StreamInv, TypeOK', NEW n \in End,
         UNCHANGED <<tcp, writing, sent, delivered>>,
         \/ UNCHANGED stage
         \/ stage[n] = "latest" /\ stage' = [stage EXCEPT ![n] = "live"],
         \A e \in End : got'[e] = got[e] \/ got'[e] = <<>>
  PROVE  StreamInv' /\ \A e \in End : FifoStep(e)
<1>1. \A e \in End : Running(e)' = Running(e) /\ (stage'[e] = "hello" <=> stage[e] = "hello")
  BY DEF StreamInv, TypeOK, Running, Ended
<1>2. \A e \in End : Heard(e)' = Heard(e)
  BY <1>1, Ends DEF Heard
<1>3. \A e \in End : Framed(e)' /\ InStep(e)'
  BY <1>1, <1>2, Ends, SameDirection
<1>4. \A e \in End : FifoStep(e)
  BY <1>1, Ends DEF FifoStep, SameEnds
<1> QED
  BY <1>1, <1>3, <1>4 DEF StreamInv

LEMMA WriteStep ==
  ASSUME StreamInv, NEW n \in End, Write(n)
  PROVE  StreamInv' /\ \A e \in End : FifoStep(e)
<1>1. TypeOK
  BY DEF StreamInv
<1>2. /\ writing[n] # <<>> /\ Len(tcp[n]) < Window
      /\ writing' = [writing EXCEPT ![n] = Tail(@)]
      /\ tcp' = [tcp EXCEPT ![n] = Append(@, Head(writing[n]))]
      /\ UNCHANGED <<stage, trusted, latest, bus, lagged, got, due, sent, delivered, faults, puts>>
  BY DEF Write
<1>3. /\ Head(writing[n]) \in Piece /\ Tail(writing[n]) \in Seq(Piece)
      /\ Len(tcp[n]) \in Nat /\ Window \in Nat
  BY <1>1, <1>2, Types, HeadTailProperties, WindowAssumption
<1>4. /\ Append(tcp[n], Head(writing[n])) \in Seq(Piece)
      /\ Len(Append(tcp[n], Head(writing[n]))) = Len(tcp[n]) + 1
  BY <1>1, <1>3, Types, AppendProperties
<1>5. TypeOK'
  <2>1. writing' \in [End -> Seq(Piece)] /\ tcp' \in [End -> Seq(Piece)]
    BY <1>1, <1>2, <1>3, <1>4 DEF TypeOK
  <2>2. \A e \in End : Len(tcp'[e]) <= Window
    <3>1. Len(tcp[n]) + 1 <= Window
      BY <1>2, <1>3
    <3>2. \A e \in End : tcp'[e] = IF e = n THEN Append(tcp[n], Head(writing[n])) ELSE tcp[e]
      BY <1>1, <1>2 DEF TypeOK
    <3> QED
      BY <1>1, <1>4, <3>1, <3>2 DEF TypeOK
  <2> QED
    BY <1>1, <1>2, <2>1, <2>2 DEF TypeOK
<1>6. /\ Other(n) \in End /\ Other(n) # n /\ \A e \in End : e = n \/ e = Other(n)
  BY Ends, BothEnds
<1>7. \A e \in End : Running(e)' = Running(e) /\ Heard(e)' = Heard(e)
  BY <1>2 DEF Running, Heard
<1>8. \A e \in End : Framed(e)' /\ InStep(e)'
  <2>1. Framed(n)' /\ InStep(n)'
    BY WriteDirection
  <2>2. tcp'[Other(n)] = tcp[Other(n)] /\ writing'[Other(n)] = writing[Other(n)]
    BY <1>1, <1>2, <1>6 DEF TypeOK
  <2>3. Framed(Other(n))' /\ InStep(Other(n))'
    BY <1>2, <1>6, <1>7, <2>2, Ends, SameDirection
  <2> QED
    BY <1>6, <2>1, <2>3
<1>9. \A e \in End : ~Running(e)' => writing'[e] = <<>>
  <2>1. Running(n)
    BY <1>2 DEF StreamInv
  <2> QED
    BY <1>1, <1>2, <1>6, <1>7, <2>1 DEF StreamInv, TypeOK
<1>10. \A e \in End : FifoStep(e)
  BY <1>2, <1>7, Ends DEF FifoStep, SameEnds
<1> QED
  BY <1>2, <1>5, <1>8, <1>9, <1>10 DEF StreamInv

LEMMA ReadPartStep ==
  ASSUME StreamInv, NEW n \in End, ReadPart(n)
  PROVE  StreamInv' /\ \A e \in End : FifoStep(e)
<1>1. TypeOK
  BY DEF StreamInv
<1>2. /\ Read(n) /\ tcp[Other(n)] # <<>> /\ ~Last(Head(tcp[Other(n)]))
      /\ tcp' = [tcp EXCEPT ![Other(n)] = Tail(@)]
      /\ got' = [got EXCEPT ![n] = Append(@, Head(tcp[Other(n)]))]
      /\ UNCHANGED <<stage, trusted, latest, bus, lagged, writing, due, sent, delivered, faults, puts>>
  BY DEF ReadPart, Read
<1>3. /\ Other(n) \in End /\ Other(n) # n /\ \A e \in End : e = n \/ e = Other(n)
      /\ Other(Other(n)) = n
  BY Ends, BothEnds
<1>4. /\ Head(tcp[Other(n)]) \in Piece /\ Tail(tcp[Other(n)]) \in Seq(Piece)
      /\ Len(Tail(tcp[Other(n)])) = Len(tcp[Other(n)]) - 1 /\ Len(tcp[Other(n)]) \in Nat
  BY <1>1, <1>2, <1>3, Types, HeadTailProperties
<1>5. Append(got[n], Head(tcp[Other(n)])) \in Seq(Piece)
  BY <1>1, <1>4, Types, AppendProperties
<1>6. TypeOK'
  <2>1. got' \in [End -> Seq(Piece)] /\ tcp' \in [End -> Seq(Piece)]
    BY <1>1, <1>2, <1>4, <1>5 DEF TypeOK
  <2>2. \A e \in End : Len(tcp'[e]) <= Window
    <3>1. Len(tcp[Other(n)]) <= Window /\ Window \in Nat
      BY <1>1, <1>3, WindowAssumption DEF TypeOK
    <3>2. Len(Tail(tcp[Other(n)])) <= Window
      BY <1>4, <3>1
    <3>3. \A e \in End : tcp'[e] = IF e = Other(n) THEN Tail(tcp[Other(n)]) ELSE tcp[e]
      BY <1>1, <1>2, <1>3 DEF TypeOK
    <3> QED
      BY <1>1, <3>2, <3>3 DEF TypeOK
  <2> QED
    BY <1>1, <1>2, <2>1, <2>2 DEF TypeOK
<1>7. \A e \in End : Running(e)' = Running(e) /\ Heard(e)' = Heard(e)
  BY <1>2 DEF Running, Heard
<1>8. /\ tcp'[n] = tcp[n] /\ got'[Other(n)] = got[Other(n)]
      /\ got'[n] = Append(got[n], Head(tcp[Other(n)]))
  BY <1>1, <1>2, <1>3 DEF TypeOK
<1>9. Framed(n)' /\ InStep(n)'
  BY <1>2, <1>3, <1>7, <1>8, SameDirection
<1>10. Framed(Other(n))' /\ InStep(Other(n))'
  BY <1>2, <1>3, <1>7, <1>8, ReadDirection
<1>11. \A e \in End : FifoStep(e)
  BY <1>2, <1>7, Ends DEF FifoStep, SameEnds
<1> QED
  BY <1>2, <1>3, <1>6, <1>7, <1>9, <1>10, <1>11 DEF StreamInv

\* What the last piece completes is the next message that was sent.
LEMMA WholeIs ==
  ASSUME StreamInv, NEW n \in End, Read(n), Last(Head(tcp[Other(n)])), stage[n] = "live"
  PROVE  /\ Len(delivered[n]) < Len(sent[Other(n)])
         /\ [no |-> Head(tcp[Other(n)]).group, size |-> (Len(got[n]) + 1) \div 2]
              = sent[Other(n)][Len(delivered[n]) + 1]
         /\ sent[Other(n)][Len(delivered[n]) + 1] \in Msg
<1>1. TypeOK /\ Other(n) \in End /\ Other(Other(n)) = n
  BY Ends DEF StreamInv
<1>2. tcp[Other(n)] # <<>> /\ Fits(n, Head(tcp[Other(n)])) /\ Running(n)
  BY DEF Read, Reading, Running, Ended
<1>3. PICK k \in Place, j \in Place : OnWay(Other(n), k, j)
  BY <1>1, <1>2 DEF StreamInv, InStep
<1>4. /\ k[1] = Heard(Other(n)) /\ k[1] \in 0..Len(sent[Other(n)])
      /\ Head(tcp[Other(n)]).group = M(Other(n), k[1]).no
      /\ (Len(got[n]) + 1) \div 2 = M(Other(n), k[1]).size
  BY <1>1, <1>2, <1>3, HeadIs
<1>5. /\ k[1] = Len(delivered[n]) + 1 /\ Len(delivered[n]) \in Nat
      /\ Len(sent[Other(n)]) \in Nat
  BY <1>1, <1>4, Types DEF Heard
<1>6. k[1] # 0 /\ Len(delivered[n]) < Len(sent[Other(n)])
  BY <1>4, <1>5
<1>7. M(Other(n), k[1]) = sent[Other(n)][k[1]] /\ M(Other(n), k[1]) \in Msg
  BY <1>1, <1>4, <1>6, MessageIs DEF M
<1>8. \A m \in Msg : m = [no |-> m.no, size |-> m.size]
  BY DEF Msg
<1> QED
  BY <1>4, <1>5, <1>6, <1>7, <1>8

LEMMA ReadWholeStep ==
  ASSUME StreamInv, NEW n \in End, ReadWhole(n)
  PROVE  StreamInv' /\ \A e \in End : FifoStep(e)
<1>1. TypeOK
  BY DEF StreamInv
<1> DEFINE m == [no |-> Head(tcp[Other(n)]).group, size |-> (Len(got[n]) + 1) \div 2]
<1>2. /\ Read(n) /\ tcp[Other(n)] # <<>> /\ Last(Head(tcp[Other(n)])) /\ stage[n] = "live"
      /\ tcp' = [tcp EXCEPT ![Other(n)] = Tail(@)]
      /\ got' = [got EXCEPT ![n] = <<>>]
      /\ delivered' = [delivered EXCEPT ![n] = Append(@, m)]
      /\ UNCHANGED <<stage, trusted, latest, bus, lagged, writing, due, sent, faults, puts>>
  BY DEF ReadWhole, Read
<1>3. /\ Other(n) \in End /\ Other(n) # n /\ \A e \in End : e = n \/ e = Other(n)
      /\ Other(Other(n)) = n
  BY Ends, BothEnds
<1>4. /\ Len(delivered[n]) < Len(sent[Other(n)])
      /\ m = sent[Other(n)][Len(delivered[n]) + 1] /\ m \in Msg
  BY <1>2, WholeIs
<1> HIDE DEF m
<1>5. /\ Tail(tcp[Other(n)]) \in Seq(Piece) /\ <<>> \in Seq(Piece)
      /\ Len(Tail(tcp[Other(n)])) = Len(tcp[Other(n)]) - 1 /\ Len(tcp[Other(n)]) \in Nat
  BY <1>1, <1>2, <1>3, Types, HeadTailProperties, EmptySeq
<1>6. /\ Append(delivered[n], m) \in Seq(Msg)
      /\ Len(Append(delivered[n], m)) = Len(delivered[n]) + 1
  BY <1>1, <1>4, Types, AppendProperties
<1>7. TypeOK'
  <2>1. /\ got' \in [End -> Seq(Piece)] /\ tcp' \in [End -> Seq(Piece)]
        /\ delivered' \in [End -> Seq(Msg)]
    BY <1>1, <1>2, <1>5, <1>6 DEF TypeOK
  <2>2. \A e \in End : Len(tcp'[e]) <= Window
    <3>1. Len(tcp[Other(n)]) <= Window /\ Window \in Nat
      BY <1>1, <1>3, WindowAssumption DEF TypeOK
    <3>2. Len(Tail(tcp[Other(n)])) <= Window
      BY <1>5, <3>1
    <3>3. \A e \in End : tcp'[e] = IF e = Other(n) THEN Tail(tcp[Other(n)]) ELSE tcp[e]
      BY <1>1, <1>2, <1>3 DEF TypeOK
    <3> QED
      BY <1>1, <3>2, <3>3 DEF TypeOK
  <2> QED
    BY <1>1, <1>2, <2>1, <2>2 DEF TypeOK
<1>8. /\ tcp'[n] = tcp[n] /\ got'[Other(n)] = got[Other(n)] /\ got'[n] = <<>>
      /\ delivered'[Other(n)] = delivered[Other(n)]
      /\ delivered'[n] = Append(delivered[n], m)
  BY <1>1, <1>2, <1>3 DEF TypeOK
<1>9. /\ \A e \in End : Running(e)' = Running(e)
      /\ Heard(n)' = Heard(n) /\ Heard(Other(n))' = Heard(Other(n)) + 1
  BY <1>2, <1>3, <1>6, <1>8 DEF Running, Heard
<1>10. Framed(n)' /\ InStep(n)'
  BY <1>2, <1>3, <1>8, <1>9, SameDirection
<1>11. Framed(Other(n))' /\ InStep(Other(n))'
  BY <1>2, <1>3, <1>8, <1>9, ReadDirection
<1>12. \A e \in End : FifoStep(e)
  <2>1. FifoStep(n)
    BY <1>2, <1>3, <1>8, <1>9 DEF FifoStep, SameEnds
  <2>2. Running(n)
    BY <1>2 DEF Running, Ended
  <2>3. FifoStep(Other(n))
    BY <1>2, <1>3, <1>4, <1>8, <1>9, <2>2 DEF FifoStep, SameEnds
  <2> QED
    BY <1>3, <2>1, <2>3
<1>13. \A e \in End : stage'[e] = "hello" => delivered'[e] = <<>>
  BY <1>2, <1>3, <1>8 DEF StreamInv
<1> QED
  BY <1>2, <1>3, <1>7, <1>9, <1>10, <1>11, <1>12, <1>13 DEF StreamInv

\* What send does to the types.
LEMMA SendTypes ==
  ASSUME TypeOK, NEW n \in End, NEW m \in Msg, send(n, m)
  PROVE  /\ writing' \in [End -> Seq(Piece)] /\ sent' \in [End -> Seq(Msg)]
         /\ sent'[n] = Append(sent[n], m)
         /\ \A e \in End : e # n => writing'[e] = writing[e] /\ sent'[e] = sent[e]
<1>1. Pieces(m) \in Seq(Piece) /\ Append(sent[n], m) \in Seq(Msg)
  BY Types, PiecesAre, AppendProperties
<1>2. /\ writing' = [writing EXCEPT ![n] = Pieces(m)]
      /\ sent' = [sent EXCEPT ![n] = Append(@, m)]
  BY DEF send
<1> QED
  BY <1>1, <1>2 DEF TypeOK

LEMMA ReadHelloStep ==
  ASSUME StreamInv, NEW n \in End, ReadHello(n)
  PROVE  StreamInv' /\ \A e \in End : FifoStep(e)
<1>1. TypeOK
  BY DEF StreamInv
<1> DEFINE m == [no |-> 1, size |-> latest[n]]
<1>2. /\ Read(n) /\ tcp[Other(n)] # <<>> /\ Last(Head(tcp[Other(n)])) /\ stage[n] = "hello"
      /\ writing[n] = <<>>
      /\ tcp' = [tcp EXCEPT ![Other(n)] = Tail(@)]
      /\ got' = [got EXCEPT ![n] = <<>>]
      /\ stage' = [stage EXCEPT ![n] = "latest"]
      /\ UNCHANGED <<delivered, trusted, latest, bus, lagged, due, faults, puts>>
      /\ IF latest[n] = 0 THEN UNCHANGED <<writing, sent>> ELSE send(n, m)
  BY DEF ReadHello, Read, Reading
<1>3. /\ Other(n) \in End /\ Other(n) # n /\ \A e \in End : e = n \/ e = Other(n)
      /\ Other(Other(n)) = n
  BY Ends, BothEnds
<1>4. latest[n] # 0 => m \in Msg
  <2>1. latest[n] \in Size \cup {0}
    BY <1>1, HeldAssumption DEF TypeOK
  <2>2. Publishes[n] \in Nat
    BY BoundsAssumption
  <2>3. 1 \in 0..(Publishes[n] + 2)
    BY <2>2
  <2>4. 1 \in Number
    BY <2>3 DEF Number
  <2> QED
    BY <2>1, <2>4 DEF Msg
<1> HIDE DEF m
<1>5. /\ Tail(tcp[Other(n)]) \in Seq(Piece) /\ <<>> \in Seq(Piece)
      /\ Len(Tail(tcp[Other(n)])) = Len(tcp[Other(n)]) - 1 /\ Len(tcp[Other(n)]) \in Nat
  BY <1>1, <1>2, <1>3, Types, HeadTailProperties, EmptySeq
<1>6. /\ writing' \in [End -> Seq(Piece)] /\ sent' \in [End -> Seq(Msg)]
      /\ writing'[Other(n)] = writing[Other(n)] /\ sent'[Other(n)] = sent[Other(n)]
  <2>1. CASE latest[n] = 0
    BY <1>1, <1>2, <2>1 DEF TypeOK
  <2>2. CASE latest[n] # 0
    BY <1>1, <1>2, <1>3, <1>4, <2>2, SendTypes
  <2> QED
    BY <2>1, <2>2
<1>7. TypeOK'
  <2>1. /\ got' \in [End -> Seq(Piece)] /\ tcp' \in [End -> Seq(Piece)]
        /\ stage' \in [End -> {"hello", "latest", "live"} \cup Ended]
    BY <1>1, <1>2, <1>5 DEF TypeOK
  <2>2. \A e \in End : Len(tcp'[e]) <= Window
    <3>1. Len(tcp[Other(n)]) <= Window /\ Window \in Nat
      BY <1>1, <1>3, WindowAssumption DEF TypeOK
    <3>2. Len(Tail(tcp[Other(n)])) <= Window
      BY <1>5, <3>1
    <3>3. \A e \in End : tcp'[e] = IF e = Other(n) THEN Tail(tcp[Other(n)]) ELSE tcp[e]
      BY <1>1, <1>2, <1>3 DEF TypeOK
    <3> QED
      BY <1>1, <3>2, <3>3 DEF TypeOK
  <2> QED
    BY <1>1, <1>2, <1>6, <2>1, <2>2 DEF TypeOK
<1>8. /\ tcp'[n] = tcp[n] /\ got'[Other(n)] = got[Other(n)] /\ got'[n] = <<>>
      /\ stage'[n] = "latest" /\ stage'[Other(n)] = stage[Other(n)]
  BY <1>1, <1>2, <1>3 DEF TypeOK
<1>9. /\ Running(n) /\ Running(n)' /\ Running(Other(n))' = Running(Other(n))
      /\ \A e \in End : Running(e)' = Running(e)
  BY <1>2, <1>3, <1>8 DEF Running, Ended
<1>10. Heard(n)' = Heard(n) /\ Heard(Other(n))' = Heard(Other(n)) + 1
  <2>1. delivered[n] = <<>>
    BY <1>2 DEF StreamInv
  <2> QED
    BY <1>2, <1>3, <1>8, <2>1, EmptySeq DEF Heard
<1>11. Framed(n)' /\ InStep(n)'
  <2>1. CASE latest[n] = 0
    BY <1>2, <1>3, <1>8, <1>9, <1>10, <2>1, SameDirection
  <2>2. CASE latest[n] # 0
    BY <1>2, <1>3, <1>4, <1>8, <1>9, <1>10, <2>2, SendDirection
  <2> QED
    BY <2>1, <2>2
<1>12. Framed(Other(n))' /\ InStep(Other(n))'
  BY <1>2, <1>3, <1>6, <1>8, <1>9, <1>10, ReadDirection
<1>13. \A e \in End : FifoStep(e)
  <2>1. FifoStep(n)
    <3>1. CASE latest[n] = 0
      BY <1>2, <1>3, <1>9, <3>1 DEF FifoStep, SameEnds
    <3>2. CASE latest[n] # 0
      <4>1. sent'[n] = Append(sent[n], m) /\ m \in Msg
        BY <1>1, <1>2, <1>4, <3>2, SendTypes
      <4> QED
        BY <1>2, <1>3, <1>9, <4>1 DEF FifoStep, SameEnds
    <3> QED
      BY <3>1, <3>2
  <2>2. FifoStep(Other(n))
    BY <1>2, <1>3, <1>6, <1>9 DEF FifoStep, SameEnds
  <2> QED
    BY <1>3, <2>1, <2>2
<1>14. \A e \in End : ~Running(e)' => writing'[e] = <<>>
  BY <1>3, <1>6, <1>9 DEF StreamInv
<1>15. \A e \in End : stage'[e] = "hello" => delivered'[e] = <<>>
  BY <1>2, <1>3, <1>8 DEF StreamInv
<1> QED
  BY <1>3, <1>7, <1>11, <1>12, <1>13, <1>14, <1>15 DEF StreamInv

----------------------------------------------------------------------------
(* The bus *)

LEMMA BusSentStep ==
  ASSUME StreamInv, NEW n \in End, BusSent(n)
  PROVE  StreamInv' /\ \A e \in End : FifoStep(e)
<1>1. TypeOK
  BY DEF StreamInv
<1> DEFINE m == [no |-> Head(bus[n]).no, size |-> Head(bus[n]).size]
<1>2. /\ stage[n] = "live" /\ writing[n] = <<>> /\ bus[n] # <<>>
      /\ bus' = [bus EXCEPT ![n] = Tail(@)]
      /\ got' = [got EXCEPT ![n] = <<>>]
      /\ send(n, m)
      /\ UNCHANGED <<stage, trusted, latest, lagged, tcp, due, delivered, faults, puts>>
  BY DEF BusSent, TakesFromBus
<1>3. /\ Other(n) \in End /\ Other(n) # n /\ \A e \in End : e = n \/ e = Other(n)
      /\ Other(Other(n)) = n
  BY Ends, BothEnds
<1>4. /\ Head(bus[n]) \in Published /\ Tail(bus[n]) \in Seq(Published)
      /\ Len(Tail(bus[n])) = Len(bus[n]) - 1 /\ Len(bus[n]) \in Nat
  BY <1>1, <1>2, Types, HeadTailProperties, LenProperties
<1>5. m \in Msg
  BY <1>4 DEF Published, Msg
<1> HIDE DEF m
<1>6. /\ writing' \in [End -> Seq(Piece)] /\ sent' \in [End -> Seq(Msg)]
      /\ sent'[n] = Append(sent[n], m)
      /\ writing'[Other(n)] = writing[Other(n)] /\ sent'[Other(n)] = sent[Other(n)]
  BY <1>1, <1>2, <1>3, <1>5, SendTypes
<1>7. TypeOK'
  <2>1. bus' \in [End -> Seq(Published)] /\ got' \in [End -> Seq(Piece)]
    BY <1>1, <1>2, <1>4, EmptySeq DEF TypeOK
  <2>2. \A e \in End : Len(bus'[e]) <= BusLimit
    <3>1. Len(bus[n]) <= BusLimit /\ BusLimit \in Nat
      BY <1>1, BusLimitAssumption DEF TypeOK
    <3>2. Len(Tail(bus[n])) <= BusLimit
      BY <1>4, <3>1
    <3>3. \A e \in End : bus'[e] = IF e = n THEN Tail(bus[n]) ELSE bus[e]
      BY <1>1, <1>2 DEF TypeOK
    <3> QED
      BY <1>1, <3>2, <3>3 DEF TypeOK
  <2> QED
    BY <1>1, <1>2, <1>6, <2>1, <2>2 DEF TypeOK
<1>8. got'[Other(n)] = got[Other(n)] /\ got'[n] = <<>>
  BY <1>1, <1>2, <1>3 DEF TypeOK
<1>9. Running(n) /\ \A e \in End : Running(e)' = Running(e) /\ Heard(e)' = Heard(e)
  BY <1>2 DEF Running, Ended, Heard
<1>10. Framed(n)' /\ InStep(n)'
  BY <1>2, <1>3, <1>5, <1>8, <1>9, SendDirection
<1>11. Framed(Other(n))' /\ InStep(Other(n))'
  BY <1>2, <1>3, <1>6, <1>8, <1>9, SameDirection
<1>12. \A e \in End : FifoStep(e)
  <2>1. FifoStep(n)
    BY <1>2, <1>3, <1>5, <1>6, <1>9 DEF FifoStep, SameEnds
  <2>2. FifoStep(Other(n))
    BY <1>2, <1>3, <1>6, <1>9 DEF FifoStep, SameEnds
  <2> QED
    BY <1>3, <2>1, <2>2
<1>13. \A e \in End : ~Running(e)' => writing'[e] = <<>>
  BY <1>3, <1>6, <1>9 DEF StreamInv
<1> QED
  BY <1>2, <1>3, <1>7, <1>10, <1>11, <1>12, <1>13 DEF StreamInv

LEMMA BusSkippedStep ==
  ASSUME StreamInv, NEW n \in End, BusSkipped(n)
  PROVE  StreamInv' /\ \A e \in End : FifoStep(e)
<1>1. TypeOK
  BY DEF StreamInv
<1>2. /\ bus[n] # <<>>
      /\ bus' = [bus EXCEPT ![n] = Tail(@)]
      /\ got' = [got EXCEPT ![n] = <<>>]
      /\ UNCHANGED <<stage, trusted, latest, lagged, writing, tcp, due, sent, delivered, faults, puts>>
  BY DEF BusSkipped, TakesFromBus
<1>3. /\ Tail(bus[n]) \in Seq(Published)
      /\ Len(Tail(bus[n])) = Len(bus[n]) - 1 /\ Len(bus[n]) \in Nat
  BY <1>1, <1>2, Types, HeadTailProperties, LenProperties
<1>4. bus' \in [End -> Seq(Published)] /\ got' \in [End -> Seq(Piece)]
  BY <1>1, <1>2, <1>3, EmptySeq DEF TypeOK
<1>5. \A e \in End : Len(bus'[e]) <= BusLimit
  <2>1. Len(bus[n]) <= BusLimit /\ BusLimit \in Nat
    BY <1>1, BusLimitAssumption DEF TypeOK
  <2>2. Len(Tail(bus[n])) <= BusLimit
    BY <1>3, <2>1
  <2>3. \A e \in End : bus'[e] = IF e = n THEN Tail(bus[n]) ELSE bus[e]
    BY <1>1, <1>2 DEF TypeOK
  <2> QED
    BY <1>1, <2>2, <2>3 DEF TypeOK
<1>6. TypeOK'
  BY <1>1, <1>2, <1>4, <1>5 DEF TypeOK
<1>7. \A e \in End : got'[e] = got[e] \/ got'[e] = <<>>
  BY <1>1, <1>2 DEF TypeOK
<1> QED
  BY <1>2, <1>6, <1>7, QuietStep

LEMMA PutTypes ==
  ASSUME TypeOK, NEW n \in End, NEW m \in Published, Put(n, m)
  PROVE  /\ bus' \in [End -> Seq(Published)] /\ lagged' \in [End -> BOOLEAN]
         /\ \A e \in End : Len(bus'[e]) <= BusLimit
<1>1. /\ bus[n] \in Seq(Published) /\ Len(bus[n]) \in Nat /\ Len(bus[n]) <= BusLimit
      /\ BusLimit \in Nat /\ BusLimit # 0
  BY Types, LenProperties, BusLimitAssumption DEF TypeOK
<1>2. CASE Len(bus[n]) < BusLimit
  <2>1. bus' = [bus EXCEPT ![n] = Append(@, m)] /\ lagged' = lagged
    BY <1>2 DEF Put
  <2>2. /\ Append(bus[n], m) \in Seq(Published)
        /\ Len(Append(bus[n], m)) = Len(bus[n]) + 1
    BY <1>1, AppendProperties
  <2>3. Len(Append(bus[n], m)) <= BusLimit
    BY <1>1, <1>2, <2>2
  <2>4. \A e \in End : bus'[e] = IF e = n THEN Append(bus[n], m) ELSE bus[e]
    BY <2>1 DEF TypeOK
  <2>5. bus' \in [End -> Seq(Published)]
    BY <2>1, <2>2 DEF TypeOK
  <2> QED
    BY <2>1, <2>3, <2>4, <2>5 DEF TypeOK
<1>3. CASE ~(Len(bus[n]) < BusLimit)
  <2>1. /\ bus' = [bus EXCEPT ![n] = Append(Tail(@), m)]
        /\ lagged' = [lagged EXCEPT ![n] = TRUE]
    BY <1>3 DEF Put
  <2>2. bus[n] # <<>>
    BY <1>1, <1>3, EmptySeq
  <2>3. Tail(bus[n]) \in Seq(Published) /\ Len(Tail(bus[n])) = Len(bus[n]) - 1
    BY <1>1, <2>2, HeadTailProperties
  <2>4. /\ Append(Tail(bus[n]), m) \in Seq(Published)
        /\ Len(Append(Tail(bus[n]), m)) = Len(Tail(bus[n])) + 1
    BY <2>3, AppendProperties
  <2>5. Len(Append(Tail(bus[n]), m)) <= BusLimit
    BY <1>1, <2>3, <2>4
  <2>6. \A e \in End : bus'[e] = IF e = n THEN Append(Tail(bus[n]), m) ELSE bus[e]
    BY <2>1 DEF TypeOK
  <2>7. bus' \in [End -> Seq(Published)] /\ lagged' \in [End -> BOOLEAN]
    BY <2>1, <2>4 DEF TypeOK
  <2> QED
    BY <2>5, <2>6, <2>7 DEF TypeOK
<1> QED
  BY <1>2, <1>3

LEMMA PublishStep ==
  ASSUME StreamInv, NEW n \in End, Publish(n)
  PROVE  StreamInv' /\ \A e \in End : FifoStep(e)
<1>1. TypeOK
  BY DEF StreamInv
<1>2. PICK size \in Size, ours \in BOOLEAN :
        /\ Put(n, [no |-> puts[n] + 2, size |-> size, ours |-> ours])
        /\ due' = [due EXCEPT ![n] =
                     IF ours THEN Append(@, [no |-> puts[n] + 2, size |-> size]) ELSE @]
  BY DEF Publish
<1>3. /\ puts[n] < Publishes[n] /\ puts' = [puts EXCEPT ![n] = @ + 1]
      /\ UNCHANGED <<stage, trusted, latest, writing, got, tcp, sent, delivered, faults>>
  BY DEF Publish
<1>4. puts[n] + 2 \in Number
  <2>1. puts[n] \in Nat /\ Publishes[n] \in Nat
    BY <1>1, Types, BoundsAssumption
  <2>2. puts[n] + 2 \in 0..(Publishes[n] + 2)
    BY <1>3, <2>1
  <2> QED
    BY <2>2 DEF Number
<1>5. /\ [no |-> puts[n] + 2, size |-> size, ours |-> ours] \in Published
      /\ [no |-> puts[n] + 2, size |-> size] \in Msg
  BY <1>4 DEF Published, Msg
<1>6. /\ bus' \in [End -> Seq(Published)] /\ lagged' \in [End -> BOOLEAN]
      /\ \A e \in End : Len(bus'[e]) <= BusLimit
  BY <1>1, <1>2, <1>5, PutTypes
<1>7. due' \in [End -> Seq(Msg)] /\ puts' \in [End -> Nat]
  <2>1. Append(due[n], [no |-> puts[n] + 2, size |-> size]) \in Seq(Msg)
    BY <1>1, <1>5, Types, AppendProperties
  <2>2. due' \in [End -> Seq(Msg)]
    BY <1>1, <1>2, <2>1 DEF TypeOK
  <2>3. puts' \in [End -> Nat]
    BY <1>1, <1>3 DEF TypeOK
  <2> QED
    BY <2>2, <2>3
<1>8. TypeOK'
  BY <1>1, <1>3, <1>6, <1>7 DEF TypeOK
<1> QED
  BY <1>3, <1>8, QuietStep

LEMMA UnpairStep ==
  ASSUME StreamInv, NEW n \in End, Unpair(n)
  PROVE  StreamInv' /\ \A e \in End : FifoStep(e)
<1>1. TypeOK
  BY DEF StreamInv
<1> DEFINE ping == [no |-> Publishes[n] + 2, size |-> 1]
<1>2. /\ faults' = faults + 1 /\ trusted' = [trusted EXCEPT ![n] = FALSE]
      /\ UNCHANGED <<stage, latest, writing, got, tcp, sent, delivered, puts>>
      /\ \/ /\ Put(n, [no |-> ping.no, size |-> ping.size, ours |-> TRUE])
            /\ due' = [due EXCEPT ![n] = Append(@, ping)]
         \/ UNCHANGED <<bus, lagged, due>>
  BY DEF Unpair
<1>3. Publishes[n] + 2 \in Number
  <2>1. Publishes[n] \in Nat
    BY BoundsAssumption
  <2>2. Publishes[n] + 2 \in 0..(Publishes[n] + 2)
    BY <2>1
  <2> QED
    BY <2>2 DEF Number
<1>4. /\ ping \in Msg
      /\ [no |-> ping.no, size |-> ping.size, ours |-> TRUE] \in Published
  BY <1>3 DEF Published, Msg
<1> HIDE DEF ping
<1>5. /\ bus' \in [End -> Seq(Published)] /\ lagged' \in [End -> BOOLEAN]
      /\ \A e \in End : Len(bus'[e]) <= BusLimit
  <2>1. CASE Put(n, [no |-> ping.no, size |-> ping.size, ours |-> TRUE])
    BY <1>1, <1>4, <2>1, PutTypes
  <2>2. CASE UNCHANGED <<bus, lagged, due>>
    BY <1>1, <2>2 DEF TypeOK
  <2> QED
    BY <1>2, <2>1, <2>2
<1>6. due' \in [End -> Seq(Msg)]
  <2>1. Append(due[n], ping) \in Seq(Msg)
    BY <1>1, <1>4, Types, AppendProperties
  <2> QED
    BY <1>1, <1>2, <2>1 DEF TypeOK
<1>7. faults' \in Nat /\ trusted' \in [End -> BOOLEAN]
  BY <1>1, <1>2 DEF TypeOK
<1>8. TypeOK'
  BY <1>1, <1>2, <1>5, <1>6, <1>7 DEF TypeOK
<1> QED
  BY <1>2, <1>8, QuietStep

LEMMA SubscribeStep ==
  ASSUME StreamInv, NEW n \in End, Subscribe(n)
  PROVE  StreamInv' /\ \A e \in End : FifoStep(e)
<1>1. TypeOK
  BY DEF StreamInv
<1>2. /\ stage[n] = "latest" /\ stage' = [stage EXCEPT ![n] = "live"]
      /\ UNCHANGED <<trusted, latest, bus, lagged, writing, got, tcp, due, sent, delivered,
                     faults, puts>>
  BY DEF Subscribe
<1>3. TypeOK'
  BY <1>1, <1>2 DEF TypeOK
<1> QED
  BY <1>2, <1>3, QuietStep

----------------------------------------------------------------------------
(* Theorems *)

LEMMA StreamInit == Init => StreamInv
<1> SUFFICES ASSUME Init PROVE StreamInv
  OBVIOUS
<1>1. /\ Hello \in Msg /\ Pieces(Hello) \in Seq(Piece) /\ Pieces(Hello) # <<>>
      /\ Len(Pieces(Hello)) = 2 /\ Hello.size = 1
  <2>1. Hello.size = 1
    BY DEF Hello
  <2>2. /\ Hello \in Msg /\ Pieces(Hello) \in Seq(Piece) /\ Pieces(Hello) # <<>>
        /\ Len(Pieces(Hello)) = 2 * Hello.size
    BY HelloIsMsg, PiecesAre
  <2> QED
    BY <2>1, <2>2
<1>2. \A n \in End : /\ stage[n] = "hello" /\ writing[n] = Pieces(Hello)
                     /\ got[n] = <<>> /\ tcp[n] = <<>> /\ sent[n] = <<>>
                     /\ delivered[n] = <<>> /\ bus[n] = <<>>
  BY DEF Init
<1>3. /\ \A q : q = <<>> => Len(q) = 0
      /\ 0 <= Window /\ 0 <= BusLimit /\ <<>> \in Seq(Piece) /\ <<>> \in Seq(Published)
      /\ <<>> \in Seq(Msg)
  BY EmptySeq, WindowAssumption, BusLimitAssumption
<1>4. TypeOK
  BY <1>1, <1>2, <1>3 DEF Init, TypeOK
<1>5. ASSUME NEW n \in End
      PROVE  Framed(n) /\ InStep(n)
  <2>1. Len(sent[n]) = 0 /\ Len(tcp[n]) = 0 /\ M(n, 0) = Hello /\ LenOf(n, 0) = 2
    BY <1>1, <1>2, <1>3 DEF M, LenOf
  <2>2. Framed(n)
    <3>1. writing[n] = Pieces(Hello) /\ Len(writing[n]) = 2 /\ Len(Pieces(Hello)) = 2
      BY <1>1, <1>2
    <3>2. \A i \in 1..2 : writing[n][i] = Pieces(Hello)[2 - 2 + i]
      BY <3>1
    <3> QED
      BY <2>1, <3>1, <3>2 DEF Framed
  <2> DEFINE k == [i \in Nat |-> 0]
             j == [i \in Nat |-> 1]
  <2>3. k \in Place /\ j \in Place /\ k[1] = 0 /\ j[1] = 1
    BY DEF Place
  <2> HIDE DEF k, j
  <2>4. Heard(n) = 0 /\ got[Other(n)] = <<>>
    BY <1>2, Ends DEF Heard
  <2>5. OnWay(n, k, j)
    <3>1. Len(writing[n]) = 2 /\ writing[n] # <<>> /\ \A i \in 1..0 : FALSE
      BY <1>1, <1>2
    <3> QED
      BY <1>2, <2>1, <2>3, <2>4, <3>1 DEF OnWay
  <2> QED
    BY <2>2, <2>3, <2>5 DEF InStep
<1>6. \A n \in End : Running(n)
  BY <1>2 DEF Running, Ended
<1> QED
  BY <1>2, <1>4, <1>5, <1>6 DEF StreamInv

LEMMA StreamNext ==
  ASSUME StreamInv, [Next]_vars
  PROVE  StreamInv' /\ \A e \in End : FifoStep(e)
<1>1. CASE UNCHANGED vars
  <2>1. StreamInv'
    BY <1>1 DEF vars, StreamInv, TypeOK, Running, Framed, InStep, OnWay, Follows, M, LenOf, Heard
  <2>2. \A e \in End : FifoStep(e)
    BY <1>1 DEF vars, FifoStep, SameEnds, Running
  <2> QED
    BY <2>1, <2>2
<1>2. ASSUME NEW n \in End, Send(n) \/ Receive(n) \/ Bus(n) \/ Publish(n) \/ Unpair(n) \/ Lose(n)
      PROVE  StreamInv' /\ \A e \in End : FifoStep(e)
  <2>1. faults \in Nat
    BY DEF StreamInv, TypeOK
  <2>2. CASE \/ WriteFails(n) \/ ReadEof(n) \/ Lose(n)
    <3>1. Close(n, "lost") /\ faults' \in Nat /\ "lost" \in Ended
      BY <2>1, <2>2 DEF WriteFails, ReadEof, Lose, Ended
    <3> QED
      BY <3>1, CloseStep
  <2>3. CASE ReadTorn(n)
    <3>1. Close(n, "torn") /\ faults' \in Nat /\ "torn" \in Ended
      BY <2>1, <2>3 DEF ReadTorn, Ended
    <3> QED
      BY <3>1, CloseStep
  <2>4. CASE BusUnpaired(n)
    <3>1. Close(n, "unpaired") /\ faults' \in Nat /\ "unpaired" \in Ended
      BY <2>1, <2>4 DEF BusUnpaired, Ended
    <3> QED
      BY <3>1, CloseStep
  <2>5. CASE BusLagged(n)
    <3>1. Close(n, "lagged") /\ faults' \in Nat /\ "lagged" \in Ended
      BY <2>1, <2>5 DEF BusLagged, Ended
    <3> QED
      BY <3>1, CloseStep
  <2>6. CASE \/ Write(n) \/ Subscribe(n) \/ ReadPart(n) \/ ReadHello(n) \/ ReadWhole(n)
             \/ BusSkipped(n) \/ BusSent(n) \/ Publish(n) \/ Unpair(n)
    BY <2>6, WriteStep, SubscribeStep, ReadPartStep, ReadHelloStep, ReadWholeStep,
       BusSkippedStep, BusSentStep, PublishStep, UnpairStep
  <2> QED
    BY <1>2, <2>2, <2>3, <2>4, <2>5, <2>6 DEF Send, Receive, Bus
<1> QED
  BY <1>1, <1>2 DEF Next

\* What is on the way of either direction are pieces of the messages sent, one after
\* the other, from where the reader is to where the writer is.
THEOREM StreamSound == Spec => []StreamInv
<1>1. StreamInv /\ [Next]_vars => StreamInv'
  BY StreamNext
<1> QED
  BY <1>1, StreamInit, PTL DEF Spec

\* The variables of both peer loops, their sockets and buses stay in their types.
THEOREM TypeCorrect == Spec => []TypeOK
BY StreamSound, PTL DEF StreamInv

\* A step of either end is one of LossyFifo's, or none, in the direction from left to
\* right.
LEMMA LeftStep ==
  ASSUME StreamInv, [Next]_vars
  PROVE  [LeftToRight!Next]_(LeftToRight!fifoVars)
<1>1. FifoStep("left") /\ Other("left") = "right"
  BY StreamNext DEF End, Other
<1> QED
  BY <1>1
     DEF FifoStep, SameEnds, LeftToRight!Next, LeftToRight!Send, LeftToRight!Deliver,
         LeftToRight!StopSending, LeftToRight!StopReceiving, LeftToRight!fifoVars, Running

LEMMA RightStep ==
  ASSUME StreamInv, [Next]_vars
  PROVE  [RightToLeft!Next]_(RightToLeft!fifoVars)
<1>1. FifoStep("right") /\ Other("right") = "left"
  BY StreamNext DEF End, Other
<1> QED
  BY <1>1
     DEF FifoStep, SameEnds, RightToLeft!Next, RightToLeft!Send, RightToLeft!Deliver,
         RightToLeft!StopSending, RightToLeft!StopReceiving, RightToLeft!fifoVars, Running

LEMMA InitMaps == Init => LeftToRight!Init /\ RightToLeft!Init
BY DEF Init, LeftToRight!Init, RightToLeft!Init, Running, Ended, End

\* Each direction of a connection (SecureConnection::send and receive under the
\* select! of peer_loop) implements the channel that ClipboardSync and Transfer take
\* it for: what is handed over is what was sent, whole, in order and without a hole,
\* however often `receive` is dropped half done.
THEOREM ConnectionIsFifo == Spec => Implements
<1>1. StreamInv /\ [Next]_vars => [LeftToRight!Next]_(LeftToRight!fifoVars)
  BY LeftStep
<1>2. StreamInv /\ [Next]_vars => [RightToLeft!Next]_(RightToLeft!fifoVars)
  BY RightStep
<1>3. Spec => LeftToRight!Spec
  BY <1>1, InitMaps, StreamSound, PTL DEF Spec, LeftToRight!Spec
<1>4. Spec => RightToLeft!Spec
  BY <1>2, InitMaps, StreamSound, PTL DEF Spec, RightToLeft!Spec
<1> QED
  BY <1>3, <1>4 DEF Implements

----------------------------------------------------------------------------
(* The bus *)

\* The i-th message on the bus is the at[i]-th that was due, if it is for the peer; n
\* has sent what is before the first, and the last is behind all that was due.
OnBus(n, at) ==
  /\ at[1] = Len(sent[n]) - Ahead(n) + 1
  /\ \A i \in 1..Len(bus[n]) :
       /\ at[i + 1] = IF bus[n][i].ours THEN at[i] + 1 ELSE at[i]
       /\ bus[n][i].ours =>
            /\ at[i] \in 1..Len(due[n])
            /\ due[n][at[i]] = [no |-> bus[n][i].no, size |-> bus[n][i].size]
  /\ at[Len(bus[n]) + 1] = Len(due[n]) + 1

\* Before the loop subscribes nothing is due; then the bus has what is not sent yet,
\* unless it has dropped some.
BusOf(n) ==
  /\ stage[n] = "hello" => sent[n] = <<>>
  /\ stage[n] = "latest" => Len(sent[n]) = Ahead(n)
  /\ stage[n] \in {"hello", "latest"} => bus[n] = <<>> /\ due[n] = <<>> /\ ~lagged[n]
  /\ stage[n] = "live" => Len(sent[n]) >= Ahead(n)
  /\ stage[n] = "live" /\ ~lagged[n] => \E at \in Place : OnBus(n, at)

BusInv == TypeOK /\ \A n \in End : SentIsDue(n) /\ BusOf(n)

LEMMA SameBus ==
  ASSUME BusInv, NEW n \in End,
         sent'[n] = sent[n], due'[n] = due[n], latest'[n] = latest[n],
         \/ stage'[n] \in Ended
         \/ stage'[n] = stage[n] /\ bus'[n] = bus[n] /\ lagged'[n] = lagged[n]
  PROVE  SentIsDue(n)' /\ BusOf(n)'
<1>1. SentIsDue(n) /\ BusOf(n)
  BY DEF BusInv
<1>2. SentIsDue(n)'
  BY <1>1 DEF SentIsDue, Ahead
<1>3. CASE stage'[n] \in Ended
  BY <1>2, <1>3 DEF BusOf, Ended
<1>4. CASE stage'[n] = stage[n] /\ bus'[n] = bus[n] /\ lagged'[n] = lagged[n]
  BY <1>1, <1>2, <1>4 DEF BusOf, OnBus, Ahead
<1> QED
  BY <1>2, <1>3, <1>4

LEMMA AheadIs ==
  ASSUME NEW n \in End
  PROVE  Ahead(n) \in Nat /\ (Ahead(n) = 0 \/ Ahead(n) = 1)
BY DEF Ahead

\* A message is put on the bus, and is due if it is for the peer.
LEMMA PutBus ==
  ASSUME BusInv, NEW n \in End, NEW m \in Published, Put(n, m), stage[n] = "live",
         due'[n] = (IF m.ours THEN Append(due[n], [no |-> m.no, size |-> m.size]) ELSE due[n]),
         [no |-> m.no, size |-> m.size] \in Msg,
         UNCHANGED <<stage, latest, sent>>
  PROVE  SentIsDue(n)' /\ BusOf(n)'
<1>1. TypeOK /\ SentIsDue(n) /\ BusOf(n)
  BY DEF BusInv
<1> DEFINE p == [no |-> m.no, size |-> m.size]
<1>2. PICK D \in Nat, B \in Nat, S \in Nat : D = Len(due[n]) /\ B = Len(bus[n]) /\ S = Len(sent[n])
  BY <1>1, Types, LenProperties
<1>3. /\ Len(due'[n]) = IF m.ours THEN D + 1 ELSE D
      /\ \A i \in 1..D : due'[n][i] = due[n][i]
      /\ m.ours => due'[n][D + 1] = p
  <2>1. due[n] \in Seq(Msg)
    BY <1>1, Types
  <2> QED
    BY <1>2, <2>1, AppendProperties
<1> HIDE DEF p
<1>4. SentIsDue(n)'
  <2>1. ASSUME NEW i \in 1..S, ~(i <= Ahead(n))
        PROVE  /\ i - Ahead(n) <= Len(due'[n])
               /\ sent[n][i] = due'[n][i - Ahead(n)]
    <3>1. i - Ahead(n) <= D /\ sent[n][i] = due[n][i - Ahead(n)]
      BY <1>1, <1>2, <2>1 DEF SentIsDue
    <3>2. i - Ahead(n) \in 1..D
      BY <2>1, <3>1, AheadIs, <1>2
    <3>3. Len(due'[n]) \in Nat /\ Len(due'[n]) >= D
      BY <1>2, <1>3
    <3> QED
      BY <1>3, <3>1, <3>2, <3>3
  <2>2. Ahead(n)' = Ahead(n)
    BY DEF Ahead
  <2> QED
    BY <1>1, <1>2, <2>1, <2>2 DEF SentIsDue
<1>5. CASE Len(bus[n]) < BusLimit
  <2>1. bus'[n] = Append(bus[n], m) /\ lagged' = lagged
    BY <1>1, <1>5 DEF Put, TypeOK
  <2>2. /\ Len(bus'[n]) = B + 1 /\ bus'[n][B + 1] = m
        /\ \A i \in 1..B : bus'[n][i] = bus[n][i]
    BY <1>1, <1>2, <2>1, Types, AppendProperties
  <2>3. ASSUME ~lagged[n]
        PROVE  \E at \in Place : OnBus(n, at)'
    <3>1. PICK at \in Place : OnBus(n, at)
      BY <1>1, <2>3 DEF BusOf
    <3> DEFINE to == [i \in Nat |-> IF i = B + 2 THEN IF m.ours THEN D + 2 ELSE D + 1 ELSE at[i]]
    <3>2. /\ to \in Place
          /\ \A i \in 1..(B + 1) : to[i] = at[i]
          /\ to[B + 2] = IF m.ours THEN D + 2 ELSE D + 1
      <4>1. \A i \in Nat : at[i] \in Nat
        BY DEF Place
      <4>2. \A i \in Nat : to[i] = IF i = B + 2 THEN IF m.ours THEN D + 2 ELSE D + 1 ELSE at[i]
        OBVIOUS
      <4>3. \A i \in Nat : to[i] \in Nat
        <5>1. D + 2 \in Nat /\ D + 1 \in Nat
          OBVIOUS
        <5> QED
          BY <4>1, <4>2, <5>1
      <4>4. to \in Place
        BY <4>3 DEF Place
      <4> QED
        BY <1>2, <4>2, <4>4
    <3> HIDE DEF to
    <3>3. at[B + 1] = D + 1 /\ B + 1 \in 1..(B + 1) /\ 1 \in 1..(B + 1)
      BY <1>2, <3>1 DEF OnBus
    <3>4. ASSUME NEW i \in 1..(B + 1)
          PROVE  /\ to[i + 1] = IF bus'[n][i].ours THEN to[i] + 1 ELSE to[i]
                 /\ bus'[n][i].ours =>
                      /\ to[i] \in 1..Len(due'[n])
                      /\ due'[n][to[i]] = [no |-> bus'[n][i].no, size |-> bus'[n][i].size]
      <4>1. CASE i = B + 1
        <5>1. i + 1 = B + 2 /\ to[i] = D + 1 /\ bus'[n][i] = m
          BY <1>2, <2>2, <3>2, <3>3, <4>1
        <5>2. to[i + 1] = IF m.ours THEN to[i] + 1 ELSE to[i]
          BY <1>2, <3>2, <5>1
        <5>3. m.ours => D + 1 \in 1..Len(due'[n])
          BY <1>2, <1>3
        <5> QED
          BY <1>3, <5>1, <5>2, <5>3 DEF p
      <4>2. CASE i # B + 1
        <5>1. i \in 1..B /\ i + 1 \in 1..(B + 1)
          BY <1>2, <4>2
        <5>2. to[i] = at[i] /\ to[i + 1] = at[i + 1] /\ bus'[n][i] = bus[n][i]
          BY <2>2, <3>2, <5>1
        <5>3. /\ at[i + 1] = IF bus[n][i].ours THEN at[i] + 1 ELSE at[i]
              /\ bus[n][i].ours =>
                   /\ at[i] \in 1..D
                   /\ due[n][at[i]] = [no |-> bus[n][i].no, size |-> bus[n][i].size]
          BY <1>2, <3>1, <5>1 DEF OnBus
        <5>4. \A x \in 1..D : x \in 1..Len(due'[n])
          BY <1>2, <1>3
        <5> QED
          BY <1>3, <5>2, <5>3, <5>4
      <4> QED
        BY <4>1, <4>2
    <3>5. to[Len(bus'[n]) + 1] = Len(due'[n]) + 1
      BY <1>2, <1>3, <2>2, <3>2
    <3>6. to[1] = Len(sent'[n]) - Ahead(n)' + 1
      BY <3>1, <3>2, <3>3 DEF OnBus, Ahead
    <3>7. OnBus(n, to)'
      BY <2>2, <3>4, <3>5, <3>6 DEF OnBus
    <3> QED
      BY <3>2, <3>7
  <2> QED
    BY <1>1, <1>4, <2>1, <2>3 DEF BusOf, Ahead
<1>6. CASE ~(Len(bus[n]) < BusLimit)
  <2>1. lagged'[n]
    BY <1>1, <1>6 DEF Put, TypeOK
  <2> QED
    BY <1>1, <1>4, <2>1 DEF BusOf, Ahead
<1> QED
  BY <1>4, <1>5, <1>6

\* The first message on the bus is taken, and sent if it is for the peer.
LEMMA TakeBus ==
  ASSUME BusInv, NEW n \in End, stage[n] = "live", ~lagged[n], bus[n] # <<>>,
         bus'[n] = Tail(bus[n]), due'[n] = due[n], stage'[n] = stage[n],
         latest'[n] = latest[n], lagged'[n] = lagged[n],
         sent'[n] = (IF Head(bus[n]).ours
                     THEN Append(sent[n], [no |-> Head(bus[n]).no, size |-> Head(bus[n]).size])
                     ELSE sent[n])
  PROVE  SentIsDue(n)' /\ BusOf(n)'
<1>1. TypeOK /\ SentIsDue(n) /\ BusOf(n)
  BY DEF BusInv
<1> DEFINE h == Head(bus[n])
           p == [no |-> h.no, size |-> h.size]
<1>2. PICK D \in Nat, B \in Nat, S \in Nat : D = Len(due[n]) /\ B = Len(bus[n]) /\ S = Len(sent[n])
  BY <1>1, Types, LenProperties
<1>3. /\ Head(bus[n]) \in Published /\ Tail(bus[n]) \in Seq(Published)
      /\ h = bus[n][1] /\ Len(bus'[n]) = B - 1 /\ B >= 1
      /\ \A i \in 1..(B - 1) : bus'[n][i] = bus[n][i + 1]
  <2>1. bus[n] \in Seq(Published)
    BY <1>1, Types
  <2> QED
    BY <1>2, <2>1, HeadTailProperties, EmptySeq, LenProperties
<1>4. p \in Msg
  BY <1>3 DEF Published, Msg
<1> HIDE DEF h, p
<1>5. sent'[n] = IF h.ours THEN Append(sent[n], p) ELSE sent[n]
  BY DEF h, p
<1>6. /\ Len(sent'[n]) = IF h.ours THEN S + 1 ELSE S
      /\ \A i \in 1..S : sent'[n][i] = sent[n][i]
      /\ h.ours => sent'[n][S + 1] = p
  <2>1. sent[n] \in Seq(Msg)
    BY <1>1, Types
  <2>2. CASE h.ours
    <3>1. sent'[n] = Append(sent[n], p)
      BY <1>5, <2>2
    <3> QED
      <4>1. /\ Len(Append(sent[n], p)) = Len(sent[n]) + 1
            /\ \A i \in 1..Len(sent[n]) : Append(sent[n], p)[i] = sent[n][i]
            /\ Append(sent[n], p)[Len(sent[n]) + 1] = p
        BY <1>4, <2>1, AppendProperties
      <4> QED
        BY <1>2, <2>2, <3>1, <4>1
  <2>3. CASE ~h.ours
    BY <1>2, <1>5, <2>3
  <2> QED
    BY <2>2, <2>3
<1>7. PICK at \in Place : OnBus(n, at)
  BY <1>1 DEF BusOf
<1>8. /\ at[1] = S - Ahead(n) + 1 /\ S >= Ahead(n)
      /\ at[2] = IF h.ours THEN at[1] + 1 ELSE at[1]
      /\ h.ours => at[1] \in 1..D /\ due[n][at[1]] = p
  <2>1. 1 \in 1..B /\ 1 + 1 = 2
    BY <1>2, <1>3
  <2> QED
    BY <1>1, <1>2, <1>3, <1>7, <2>1 DEF OnBus, BusOf, p
<1>9. Ahead(n)' = Ahead(n) /\ Ahead(n) \in Nat
  BY AheadIs DEF Ahead
<1>10. SentIsDue(n)'
  <2>1. ASSUME NEW i \in 1..Len(sent'[n])
        PROVE  IF i <= Ahead(n) THEN sent'[n][i] = [no |-> 1, size |-> latest[n]]
               ELSE i - Ahead(n) <= D /\ sent'[n][i] = due[n][i - Ahead(n)]
    <3>1. CASE i \in 1..S
      BY <1>1, <1>2, <1>6, <3>1 DEF SentIsDue
    <3>2. CASE i \notin 1..S
      <4>1. h.ours /\ i = S + 1
        BY <1>2, <1>6, <3>2
      <4>2. ~(i <= Ahead(n)) /\ i - Ahead(n) = at[1]
        <5>1. S \in Nat /\ Ahead(n) \in Nat /\ S >= Ahead(n) /\ at[1] = S - Ahead(n) + 1
          BY <1>2, <1>8, <1>9
        <5> QED
          BY <4>1, <5>1
      <4>3. at[1] <= D
        BY <1>2, <1>8, <4>1
      <4> QED
        BY <1>6, <1>8, <4>1, <4>2, <4>3
    <3> QED
      BY <3>1, <3>2
  <2> QED
    BY <1>2, <1>9, <2>1 DEF SentIsDue
<1>11. PICK to \in Place : \A i \in Nat : to[i] = at[i + 1]
  BY <1>7, Shifted
<1>12. OnBus(n, to)'
  <2>1. to[1] = Len(sent'[n]) - Ahead(n)' + 1
    <3>1. to[1] = at[2]
      BY <1>11
    <3>2. S \in Nat /\ Ahead(n) \in Nat
      BY <1>2, <1>9
    <3>3. CASE h.ours
      BY <1>6, <1>8, <1>9, <3>1, <3>2, <3>3
    <3>4. CASE ~h.ours
      BY <1>6, <1>8, <1>9, <3>1, <3>2, <3>4
    <3> QED
      BY <3>3, <3>4
  <2>2. ASSUME NEW i \in 1..(B - 1)
        PROVE  /\ to[i + 1] = IF bus'[n][i].ours THEN to[i] + 1 ELSE to[i]
               /\ bus'[n][i].ours =>
                    /\ to[i] \in 1..Len(due'[n])
                    /\ due'[n][to[i]] = [no |-> bus'[n][i].no, size |-> bus'[n][i].size]
    <3>1. i + 1 \in 1..B /\ i \in Nat /\ i + 1 \in Nat
      BY <1>2
    <3>2. to[i] = at[i + 1] /\ to[i + 1] = at[i + 1 + 1] /\ bus'[n][i] = bus[n][i + 1]
      BY <1>3, <1>11, <3>1
    <3> QED
      BY <1>2, <1>7, <3>1, <3>2 DEF OnBus
  <2>3. to[Len(bus'[n]) + 1] = Len(due'[n]) + 1
    <3>1. B \in Nat /\ (B - 1) + 1 = B /\ Len(bus'[n]) + 1 = B
      BY <1>2, <1>3
    <3>2. to[B] = at[B + 1]
      BY <1>11, <3>1
    <3>3. at[B + 1] = D + 1
      BY <1>2, <1>7 DEF OnBus
    <3> QED
      BY <1>2, <3>1, <3>2, <3>3
  <2> QED
    BY <1>3, <2>1, <2>2, <2>3 DEF OnBus
<1>13. Len(sent'[n]) >= Ahead(n)'
  BY <1>2, <1>6, <1>8, <1>9
<1> QED
  BY <1>10, <1>11, <1>12, <1>13 DEF BusOf

LEMMA BusInit == Init => BusInv
<1> SUFFICES ASSUME Init PROVE BusInv
  OBVIOUS
<1>1. TypeOK
  BY StreamInit DEF StreamInv
<1>2. \A n \in End : /\ stage[n] = "hello" /\ sent[n] = <<>> /\ bus[n] = <<>>
                     /\ due[n] = <<>> /\ ~lagged[n]
  BY DEF Init
<1>3. \A n \in End : SentIsDue(n)
  <2>1. \A q : q = <<>> => Len(q) = 0
    BY EmptySeq
  <2>2. \A i \in 1..0 : FALSE
    OBVIOUS
  <2> QED
    BY <1>2, <2>1, <2>2 DEF SentIsDue
<1> QED
  BY <1>1, <1>2, <1>3 DEF BusInv, BusOf

\* The first message after Hello is `latest`, if there is one.
LEMMA LatestSent ==
  ASSUME BusInv, NEW n \in End, ReadHello(n)
  PROVE  SentIsDue(n)' /\ BusOf(n)'
<1>1. TypeOK /\ BusOf(n)
  BY DEF BusInv
<1> DEFINE m == [no |-> 1, size |-> latest[n]]
<1>2. /\ stage[n] = "hello" /\ stage'[n] = "latest"
      /\ bus'[n] = bus[n] /\ due'[n] = due[n] /\ lagged'[n] = lagged[n] /\ latest'[n] = latest[n]
      /\ IF latest[n] = 0 THEN UNCHANGED sent ELSE sent' = [sent EXCEPT ![n] = Append(@, m)]
  BY <1>1 DEF ReadHello, Read, send, TypeOK
<1>3. sent[n] = <<>> /\ Len(sent[n]) = 0
  BY <1>1, <1>2, EmptySeq DEF BusOf
<1>4. CASE latest[n] = 0
  <2>1. sent'[n] = <<>> /\ Len(sent'[n]) = 0 /\ \A i \in 1..0 : FALSE
    BY <1>2, <1>3, <1>4
  <2> QED
    BY <1>1, <1>2, <1>4, <2>1 DEF SentIsDue, BusOf, Ahead
<1>5. CASE latest[n] # 0
  <2>1. m \in Msg
    <3>1. latest[n] \in Size
      BY <1>1, <1>5, HeldAssumption DEF TypeOK
    <3>2. 1 \in 0..(Publishes["left"] + 2) /\ "left" \in End
      BY BoundsAssumption DEF End
    <3> QED
      BY <3>1, <3>2 DEF Msg, Number
  <2> HIDE DEF m
  <2>2. sent'[n] = Append(sent[n], m)
    BY <1>1, <1>2, <1>5 DEF TypeOK
  <2>3. Len(sent'[n]) = 1 /\ sent'[n][1] = m
    BY <1>1, <1>3, <2>1, <2>2, Types, AppendProperties
  <2>4. Ahead(n)' = 1 /\ \A i \in 1..1 : i = 1 /\ i <= 1
    BY <1>2, <1>5 DEF Ahead
  <2> QED
    BY <1>1, <1>2, <2>3, <2>4 DEF SentIsDue, BusOf, m
<1> QED
  BY <1>4, <1>5

LEMMA SubscribedBus ==
  ASSUME BusInv, NEW n \in End, Subscribe(n)
  PROVE  SentIsDue(n)' /\ BusOf(n)'
<1>1. TypeOK /\ BusOf(n) /\ SentIsDue(n)
  BY DEF BusInv
<1>2. /\ stage[n] = "latest" /\ stage'[n] = "live"
      /\ UNCHANGED <<latest, bus, lagged, due, sent>>
  BY <1>1 DEF Subscribe, TypeOK
<1>3. /\ Len(sent[n]) = Ahead(n) /\ Ahead(n) \in Nat
      /\ Len(bus[n]) = 0 /\ Len(due[n]) = 0
  BY <1>1, <1>2, EmptySeq, AheadIs DEF BusOf
<1> DEFINE at == [i \in Nat |-> 1]
<1>4. at \in Place /\ at[1] = 1
  BY DEF Place
<1> HIDE DEF at
<1>5. OnBus(n, at)'
  <2>1. Ahead(n) - Ahead(n) + 1 = 1 /\ 0 + 1 = 1 /\ \A i \in 1..0 : FALSE
    BY <1>3
  <2> QED
    BY <1>2, <1>3, <1>4, <2>1 DEF OnBus, Ahead
<1>6. Len(sent'[n]) >= Ahead(n)'
  BY <1>2, <1>3 DEF Ahead
<1> QED
  BY <1>1, <1>2, <1>4, <1>5, <1>6 DEF SentIsDue, BusOf, Ahead

LEMMA BusNext ==
  ASSUME StreamInv, BusInv, [Next]_vars
  PROVE  BusInv'
<1>1. TypeOK /\ TypeOK'
  BY StreamNext DEF BusInv, StreamInv
<1>2. CASE UNCHANGED vars
  BY <1>1, <1>2, SameBus DEF vars, BusInv
<1>3. ASSUME NEW n \in End, Send(n) \/ Receive(n) \/ Bus(n) \/ Publish(n) \/ Unpair(n) \/ Lose(n)
      PROVE  \A e \in End : SentIsDue(e)' /\ BusOf(e)'
  <2>1. SUFFICES /\ SentIsDue(n)' /\ BusOf(n)'
                 /\ /\ sent'[Other(n)] = sent[Other(n)] /\ due'[Other(n)] = due[Other(n)]
                    /\ bus'[Other(n)] = bus[Other(n)] /\ lagged'[Other(n)] = lagged[Other(n)]
                    /\ stage'[Other(n)] = stage[Other(n)] /\ latest'[Other(n)] = latest[Other(n)]
    BY BothEnds, Ends, SameBus
  <2>2. Other(n) \in End /\ Other(n) # n
    BY Ends
  <2>3. ASSUME NEW why \in Ended, Close(n, why)
        PROVE  /\ SentIsDue(n)' /\ BusOf(n)'
               /\ UNCHANGED <<sent, due, latest, lagged>>
               /\ bus'[Other(n)] = bus[Other(n)] /\ stage'[Other(n)] = stage[Other(n)]
    <3>1. /\ stage'[n] \in Ended /\ UNCHANGED <<sent, due, latest, lagged>>
          /\ bus'[Other(n)] = bus[Other(n)] /\ stage'[Other(n)] = stage[Other(n)]
      BY <1>1, <2>2, <2>3 DEF Close, TypeOK
    <3> QED
      BY <3>1, SameBus
  <2>4. CASE \/ WriteFails(n) \/ ReadEof(n) \/ Lose(n) \/ ReadTorn(n) \/ BusUnpaired(n) \/ BusLagged(n)
    <3>1. \E why \in Ended : Close(n, why)
      BY <2>4 DEF WriteFails, ReadEof, Lose, ReadTorn, BusUnpaired, BusLagged, Ended
    <3> QED
      BY <2>3, <3>1
  <2>5. CASE Write(n) \/ ReadPart(n) \/ ReadWhole(n)
    <3>1. UNCHANGED <<stage, latest, bus, lagged, due, sent>>
      BY <2>5 DEF Write, ReadPart, ReadWhole, Read
    <3> QED
      BY <3>1, SameBus
  <2>6. CASE Subscribe(n)
    <3>1. /\ UNCHANGED <<latest, bus, lagged, due, sent>>
          /\ stage'[Other(n)] = stage[Other(n)]
      BY <1>1, <2>2, <2>6 DEF Subscribe, TypeOK
    <3> QED
      BY <2>6, <3>1, SubscribedBus
  <2>7. CASE ReadHello(n)
    <3>1. /\ UNCHANGED <<latest, bus, lagged, due>>
          /\ stage'[Other(n)] = stage[Other(n)] /\ sent'[Other(n)] = sent[Other(n)]
      <4>1. \/ sent' = sent
            \/ \E m : sent' = [sent EXCEPT ![n] = m]
        BY <2>7 DEF ReadHello, send
      <4>2. sent'[Other(n)] = sent[Other(n)]
        BY <1>1, <2>2, <4>1 DEF TypeOK
      <4> QED
        BY <1>1, <2>2, <2>7, <4>2 DEF ReadHello, Read, TypeOK
    <3> QED
      BY <2>7, <3>1, LatestSent
  <2>8. CASE BusSkipped(n) \/ BusSent(n)
    <3>1. /\ stage[n] = "live" /\ ~lagged[n] /\ bus[n] # <<>>
          /\ bus'[n] = Tail(bus[n]) /\ bus'[Other(n)] = bus[Other(n)]
          /\ UNCHANGED <<stage, latest, lagged, due>>
      BY <1>1, <2>2, <2>8 DEF BusSkipped, BusSent, TakesFromBus, HasLagged, TypeOK
    <3>2. /\ sent'[Other(n)] = sent[Other(n)]
          /\ sent'[n] = IF Head(bus[n]).ours
                        THEN Append(sent[n], [no |-> Head(bus[n]).no, size |-> Head(bus[n]).size])
                        ELSE sent[n]
      BY <1>1, <2>2, <2>8 DEF BusSkipped, BusSent, TakesFromBus, send, TypeOK
    <3> QED
      BY <3>1, <3>2, TakeBus
  <2>9. ASSUME NEW m \in Published, Put(n, m), stage[n] = "live",
               due' = [due EXCEPT ![n] =
                         IF m.ours THEN Append(@, [no |-> m.no, size |-> m.size]) ELSE @],
               UNCHANGED <<stage, latest, sent>>
        PROVE  /\ SentIsDue(n)' /\ BusOf(n)'
               /\ bus'[Other(n)] = bus[Other(n)] /\ lagged'[Other(n)] = lagged[Other(n)]
               /\ due'[Other(n)] = due[Other(n)]
    <3>1. /\ bus'[Other(n)] = bus[Other(n)] /\ lagged'[Other(n)] = lagged[Other(n)]
          /\ due'[Other(n)] = due[Other(n)]
          /\ due'[n] = IF m.ours THEN Append(due[n], [no |-> m.no, size |-> m.size]) ELSE due[n]
      <4>1. bus'[Other(n)] = bus[Other(n)] /\ lagged'[Other(n)] = lagged[Other(n)]
        <5>1. /\ \E q : bus' = [bus EXCEPT ![n] = q]
              /\ lagged' = lagged \/ lagged' = [lagged EXCEPT ![n] = TRUE]
          BY <2>9 DEF Put
        <5> QED
          BY <1>1, <2>2, <5>1 DEF TypeOK
      <4>2. due \in [End -> Seq(Msg)]
        BY <1>1 DEF TypeOK
      <4> QED
        BY <2>2, <2>9, <4>1, <4>2
    <3>2. [no |-> m.no, size |-> m.size] \in Msg
      BY DEF Published, Msg
    <3> QED
      BY <2>9, <3>1, <3>2, PutBus
  <2>10. CASE Publish(n)
    <3>1. PICK size \in Size, ours \in BOOLEAN :
            /\ Put(n, [no |-> puts[n] + 2, size |-> size, ours |-> ours])
            /\ due' = [due EXCEPT ![n] =
                         IF ours THEN Append(@, [no |-> puts[n] + 2, size |-> size]) ELSE @]
      BY <2>10 DEF Publish
    <3>2. /\ stage[n] = "live" /\ puts[n] < Publishes[n]
          /\ UNCHANGED <<stage, latest, sent>>
      BY <2>10 DEF Publish
    <3>3. puts[n] \in Nat /\ Publishes[n] \in Nat
      BY <1>1, Types, BoundsAssumption
    <3>4. puts[n] + 2 \in 0..(Publishes[n] + 2)
      BY <3>2, <3>3
    <3>5. [no |-> puts[n] + 2, size |-> size, ours |-> ours] \in Published
      BY <3>4 DEF Published, Number
    <3> QED
      BY <2>9, <3>1, <3>2, <3>5
  <2>11. CASE Unpair(n)
    <3> DEFINE ping == [no |-> Publishes[n] + 2, size |-> 1, ours |-> TRUE]
    <3>1. UNCHANGED <<stage, latest, sent>>
      BY <2>11 DEF Unpair
    <3>2. CASE stage[n] = "live"
      <4>1. Publishes[n] \in Nat
        BY BoundsAssumption
      <4>2. Publishes[n] + 2 \in 0..(Publishes[n] + 2)
        BY <4>1
      <4>3. ping \in Published
        BY <4>2 DEF Published, Number
      <4>4. /\ Put(n, ping)
            /\ due' = [due EXCEPT ![n] = Append(@, [no |-> ping.no, size |-> ping.size])]
        BY <2>11, <3>2 DEF Unpair
      <4> QED
        BY <2>9, <3>1, <3>2, <4>3, <4>4
    <3>3. CASE stage[n] # "live"
      <4>1. UNCHANGED <<bus, lagged, due>>
        BY <2>11, <3>3 DEF Unpair
      <4> QED
        BY <3>1, <4>1, SameBus
    <3> QED
      BY <3>2, <3>3
  <2> QED
    BY <1>3, <2>4, <2>5, <2>6, <2>7, <2>8, <2>10, <2>11 DEF Send, Receive, Bus
<1> QED
  BY <1>1, <1>2, <1>3 DEF Next, BusInv

\* A peer is sent what it is due, without a hole (peer_loop's `subscribe` after
\* `latest`, and its RecvError::Lagged): whatever the bus dropped, nothing published
\* later goes out.
THEOREM NothingIsSkipped == Spec => []NothingSkipped
<1>1. StreamInv /\ BusInv /\ [Next]_vars => BusInv'
  BY BusNext
<1>2. Spec => []BusInv
  BY <1>1, BusInit, StreamSound, PTL DEF Spec
<1>3. BusInv => NothingSkipped
  BY DEF BusInv, NothingSkipped
<1> QED
  BY <1>2, <1>3, PTL

\* What n's main loop has been handed is what the other end began to send.
HandedIsSent(n) ==
  /\ Len(delivered[n]) <= Len(sent[Other(n)])
  /\ \A i \in 1..Len(delivered[n]) : delivered[n][i] = sent[Other(n)][i]

LEMMA HandedNext ==
  ASSUME StreamInv, StreamInv', [Next]_vars, NEW n \in End, HandedIsSent(n)
  PROVE  HandedIsSent(n)'
<1>1. FifoStep(Other(n)) /\ Other(n) \in End /\ Other(Other(n)) = n
  BY StreamNext, Ends
<1>2. PICK q \in Seq(Msg), r \in Seq(Msg), A \in Nat, B \in Nat :
        q = delivered[n] /\ r = sent[Other(n)] /\ A = Len(q) /\ B = Len(r)
  BY <1>1, Types DEF StreamInv
<1>3. CASE \E m \in Msg : sent'[Other(n)] = Append(r, m) /\ delivered'[n] = q
  <2>1. PICK m \in Msg : sent'[Other(n)] = Append(r, m) /\ delivered'[n] = q
    BY <1>3
  <2>2. /\ Len(sent'[Other(n)]) = B + 1
        /\ \A i \in 1..B : sent'[Other(n)][i] = r[i]
    BY <1>2, <2>1, AppendProperties
  <2>3. A <= B /\ \A i \in 1..A : q[i] = r[i]
    BY <1>2 DEF HandedIsSent
  <2>4. \A i \in 1..A : i \in 1..B
    BY <2>3
  <2> QED
    BY <1>2, <2>1, <2>2, <2>3, <2>4 DEF HandedIsSent
<1>4. CASE A < B /\ delivered'[n] = Append(q, r[A + 1]) /\ sent'[Other(n)] = r
  <2>1. r[A + 1] \in Msg
    BY <1>2, <1>4, ElementOfSeq
  <2>2. /\ Len(delivered'[n]) = A + 1 /\ delivered'[n][A + 1] = r[A + 1]
        /\ \A i \in 1..A : delivered'[n][i] = q[i]
    BY <1>2, <1>4, <2>1, AppendProperties
  <2>3. \A i \in 1..A : q[i] = r[i]
    BY <1>2 DEF HandedIsSent
  <2>4. \A i \in 1..(A + 1) : delivered'[n][i] = r[i]
    <3>1. \A i \in 1..(A + 1) : i \in 1..A \/ i = A + 1
      OBVIOUS
    <3> QED
      BY <2>2, <2>3, <3>1
  <2> QED
    BY <1>2, <1>4, <2>2, <2>4 DEF HandedIsSent
<1>5. CASE sent'[Other(n)] = r /\ delivered'[n] = q
  BY <1>2, <1>5 DEF HandedIsSent
<1> QED
  BY <1>1, <1>2, <1>3, <1>4, <1>5 DEF FifoStep

\* From end to end: what a daemon's main loop is handed is `latest` of its peer, if there
\* was an event, and then what was published for it since, in that order and without
\* a hole, whichever loop was slow, dropped its `receive` or ended.
HandedIsDue(n) ==
  \A i \in 1..Len(delivered[n]) :
    IF i <= Ahead(Other(n)) THEN delivered[n][i] = [no |-> 1, size |-> latest[Other(n)]]
    ELSE /\ i - Ahead(Other(n)) <= Len(due[Other(n)])
         /\ delivered[n][i] = due[Other(n)][i - Ahead(Other(n))]

THEOREM HandedAsPublished == Spec => [](\A n \in End : HandedIsDue(n))
<1> DEFINE Handed == \A n \in End : HandedIsSent(n)
           Due == \A n \in End : HandedIsDue(n)
<1>1. Init => Handed
  <2>1. ASSUME Init, NEW n \in End PROVE HandedIsSent(n)
    <3>1. Len(delivered[n]) = 0 /\ Len(sent[Other(n)]) = 0
      BY <2>1, Ends, EmptySeq DEF Init
    <3>2. \A i \in 1..0 : FALSE
      OBVIOUS
    <3> QED
      BY <3>1, <3>2 DEF HandedIsSent
  <2> QED
    BY <2>1
<1>2. StreamInv /\ StreamInv' /\ Handed /\ [Next]_vars => Handed'
  BY HandedNext
<1>3. TypeOK /\ NothingSkipped /\ Handed => Due
  <2>1. ASSUME TypeOK, NothingSkipped, Handed, NEW n \in End
        PROVE  HandedIsDue(n)
    <3>1. Len(delivered[n]) \in Nat /\ Len(sent[Other(n)]) \in Nat /\ Other(n) \in End
      BY <2>1, Types, Ends
    <3>2. \A i \in 1..Len(delivered[n]) : i \in 1..Len(sent[Other(n)])
      BY <2>1, <3>1 DEF HandedIsSent
    <3> QED
      BY <2>1, <3>1, <3>2 DEF HandedIsDue, HandedIsSent, NothingSkipped, SentIsDue
  <2> QED
    BY <2>1
<1> HIDE DEF Handed, Due
<1>4. Spec => []Handed
  BY <1>1, <1>2, StreamSound, PTL DEF Spec
<1>5. Spec => []Due
  BY <1>3, <1>4, TypeCorrect, NothingIsSkipped, PTL
<1> QED
  BY <1>5 DEF Due

=============================================================================
