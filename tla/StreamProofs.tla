---------------------------- MODULE StreamProofs ----------------------------
(***************************************************************************)
(* Proof that a link implements PacketStream, over WSS or over TCP and       *)
(* whoever writes, and that an orderly end loses nothing that was written.   *)
(* While frames line up, what is written and not yet used spells frames P:   *)
(* the frame P[k] ends at cell e[k], counted from the first cell that the    *)
(* receive thread has not yet used.  The packets under way are W: the frame  *)
(* P[at[i]] completes the message that is W[i].                             *)
(***************************************************************************)
EXTENDS LinkProofs

-----------------------------------------------------------------------------
(* Sequences *)

(* A sequence is what comes up to a place and what comes after it.         *)
LEMMA SplitSeq ==
  ASSUME NEW S, NEW s \in Seq(S), NEW k \in 0..Len(s)
  PROVE  SubSeq(s, 1, k) \o SubSeq(s, k + 1, Len(s)) = s
<1>1. Len(s) \in Nat BY LenProperties
<1>2. 1 \in 1..Len(s) + 1 /\ k \in (1 - 1)..Len(s) /\ Len(s) \in k..Len(s) BY <1>1
<1>3. SubSeq(s, 1, k) \o SubSeq(s, k + 1, Len(s)) = SubSeq(s, 1, Len(s))
  BY <1>2, ConcatAdjacentSubSeq
<1>. QED BY <1>3, SubSeqFull

(* All but the last element.                                               *)
LEMMA FrontOf ==
  ASSUME NEW S, NEW s \in Seq(S), s # <<>>
  PROVE  /\ Front(s) \in Seq(S) /\ Len(s) \in Nat \ {0} /\ Len(Front(s)) = Len(s) - 1
         /\ \A i \in 1..(Len(s) - 1) : Front(s)[i] = s[i]
<1>1. Len(s) \in Nat \ {0} BY EmptySeq
<1>2. Front(s) = SubSeq(s, 1, Len(s) - 1) BY DEF Front
<1>3. \A i \in 1..(Len(s) - 1) : s[i] \in S BY <1>1, ElementOfSeq
<1>4. /\ Front(s) \in Seq(S) /\ Len(Front(s)) = IF 1 <= Len(s) - 1 THEN (Len(s) - 1) - 1 + 1 ELSE 0
      /\ \A i \in 1..((Len(s) - 1) - 1 + 1) : Front(s)[i] = s[1 + i - 1]
  BY <1>1, <1>2, <1>3, SubSeqProperties
<1>5. \A n \in Nat \ {0} : (n - 1) - 1 + 1 = n - 1 /\ (~(1 <= n - 1) => n - 1 = 0) OBVIOUS
<1>6. \A i \in Nat : 1 + i - 1 = i OBVIOUS
<1>7. (Len(s) - 1) - 1 + 1 = Len(s) - 1 /\ Len(Front(s)) = Len(s) - 1 BY <1>1, <1>4, <1>5
<1>8. ASSUME NEW i \in 1..(Len(s) - 1) PROVE Front(s)[i] = s[i]
  <2>1. i \in 1..((Len(s) - 1) - 1 + 1) BY <1>7
  <2>2. Front(s)[i] = s[1 + i - 1] BY <1>4, <2>1
  <2>3. i \in Nat BY <1>1
  <2>. QED BY <1>6, <2>2, <2>3
<1>. QED BY <1>1, <1>4, <1>7, <1>8

(* Append and Front undo each other.                                       *)
LEMMA FrontOfAppend ==
  ASSUME NEW S, NEW s \in Seq(S), NEW x \in S
  PROVE  Front(Append(s, x)) = s /\ Last(Append(s, x)) = x
<1> DEFINE t == Append(s, x)
<1>1. t \in Seq(S) /\ t # <<>> /\ Len(t) = Len(s) + 1 /\ t[Len(s) + 1] = x
      /\ \A i \in 1..Len(s) : t[i] = s[i]
  BY AppendProperties
<1>2. Len(s) \in Nat /\ Len(t) - 1 = Len(s) BY <1>1, LenProperties
<1> HIDE DEF t
<1>3. Front(t) \in Seq(S) /\ Len(Front(t)) = Len(s) /\ \A i \in 1..Len(s) : Front(t)[i] = t[i]
  BY <1>1, <1>2, FrontOf
<1>4. Front(t) = s BY <1>1, <1>3, SeqEqual
<1>5. Last(t) = x BY <1>1 DEF Last
<1>. QED BY <1>4, <1>5 DEF t

(* Without its first and its last element, in either order.                *)
LEMMA FrontAndTail ==
  ASSUME NEW S, NEW s \in Seq(S), Len(s) > 1
  PROVE  /\ Tail(s) \in Seq(S) /\ Tail(s) # <<>> /\ Last(Tail(s)) = Last(s)
         /\ Front(s) # <<>> /\ Front(s) \in Seq(S)
         /\ Front(Tail(s)) = Tail(Front(s))
<1> DEFINE n == Len(s)
<1>1. n \in Nat /\ n > 1 /\ s # <<>> BY LenProperties, EmptySeq
<1>2. Tail(s) \in Seq(S) /\ Len(Tail(s)) = n - 1 /\ \A i \in 1..(n - 1) : Tail(s)[i] = s[i + 1]
  BY <1>1, HeadTailProperties
<1>3. Front(s) \in Seq(S) /\ Len(Front(s)) = n - 1 /\ \A i \in 1..(n - 1) : Front(s)[i] = s[i]
  BY <1>1, FrontOf
<1>4. Tail(s) # <<>> /\ Front(s) # <<>>
  <2>1. Len(Tail(s)) # 0 /\ Len(Front(s)) # 0 BY <1>1, <1>2, <1>3
  <2>2. Len(<<>>) = 0 BY EmptySeq
  <2>. QED BY <2>1, <2>2
<1>5. Last(Tail(s)) = Last(s)
  <2>1. n - 1 \in 1..(n - 1) /\ (n - 1) + 1 = n BY <1>1
  <2>. QED BY <1>2, <2>1 DEF Last
<1> HIDE DEF n
<1>6. /\ Front(Tail(s)) \in Seq(S) /\ Len(Front(Tail(s))) = (n - 1) - 1
      /\ \A i \in 1..((n - 1) - 1) : Front(Tail(s))[i] = Tail(s)[i]
  BY <1>2, <1>4, FrontOf
<1>7. /\ Tail(Front(s)) \in Seq(S) /\ Len(Tail(Front(s))) = (n - 1) - 1
      /\ \A i \in 1..((n - 1) - 1) : Tail(Front(s))[i] = Front(s)[i + 1]
  BY <1>3, <1>4, HeadTailProperties
<1>8. \A i \in 1..((n - 1) - 1) : i \in 1..(n - 1) /\ i + 1 \in 1..(n - 1) BY <1>1
<1>9. \A i \in 1..((n - 1) - 1) : Front(Tail(s))[i] = Tail(Front(s))[i] BY <1>2, <1>3, <1>6, <1>7, <1>8
<1>10. Front(Tail(s)) = Tail(Front(s)) BY <1>6, <1>7, <1>9, SeqEqual
<1>. QED BY <1>2, <1>3, <1>4, <1>5, <1>10

-----------------------------------------------------------------------------
(* Frames, cell by cell *)

(* A frame, and what the receive thread holds of a message before it.         *)
Assembly == [inside : BOOLEAN, parts : Seq(Cell)]
Sent == [final : BOOLEAN, op : Ops, cells : Seq(Cell), before : Assembly]
Idle == [inside |-> FALSE, parts |-> <<>>]
Size(fr) == Len(fr.cells)
Kind(fr) == [final |-> fr.final, op |-> fr.op]
Plain(fr) == fr.final /\ fr.op = "binary" /\ fr.before = Idle
Completes(fr) == fr.final /\ fr.op \notin Control
After(fr) ==
  IF fr.op \in Control THEN fr.before
  ELSE IF fr.final THEN Idle
  ELSE [inside |-> TRUE, parts |-> fr.before.parts \o fr.cells]

HeadLen(w, fr) == IF w = "tcp" \/ Size(fr) < Short THEN 1 ELSE 2
FrameLen(w, fr) == HeadLen(w, fr) + Size(fr)
FrameOf(w, fr) == IF w = "tcp" THEN TcpFrame(fr.cells) ELSE WssFrame(fr.final, fr.op, fr.cells)
Code(w, fr) ==
  IF HeadLen(w, fr) = 1 THEN Size(fr) ELSE IF Size(fr) < Word THEN Short ELSE Long
Width(fr) == IF Size(fr) < Word THEN "word" ELSE "long"
CellOf(w, fr, i) ==
  IF i = 1 THEN HeadCell(fr.final, fr.op, Code(w, fr))
  ELSE IF i <= HeadLen(w, fr) THEN LengthCell(Width(fr), Size(fr))
  ELSE fr.cells[i - HeadLen(w, fr)]

(* Every frame has a cell, its head.                                       *)
LEMMA SentSize ==
  ASSUME NEW w, NEW fr \in Sent
  PROVE  Size(fr) \in Nat /\ HeadLen(w, fr) \in {1, 2} /\ FrameLen(w, fr) \in Nat \ {0}
<1>1. fr.cells \in Seq(Cell) BY DEF Sent
<1>2. Size(fr) \in Nat BY <1>1, LenProperties DEF Size
<1>3. HeadLen(w, fr) \in {1, 2} BY DEF HeadLen
<1>. QED BY <1>2, <1>3 DEF FrameLen

(* What WssFrame and TcpFrame make, cell by cell.                          *)
LEMMA FrameSpelled ==
  ASSUME NEW w, NEW fr \in Sent, w = "tcp" => Plain(fr)
  PROVE  /\ FrameOf(w, fr) \in Seq(Cell) /\ Len(FrameOf(w, fr)) = FrameLen(w, fr)
         /\ \A i \in 1..FrameLen(w, fr) : FrameOf(w, fr)[i] = CellOf(w, fr, i)
<1> DEFINE s == fr.cells
<1>1. s \in Seq(Cell) /\ Len(s) = Size(fr) /\ Size(fr) \in Nat BY SentSize DEF Sent, Size
<1>2. Short \in Nat /\ Word \in Nat /\ Short < Word BY LinkAssumption
<1> HIDE DEF s
<1> DEFINE h == IF w = "tcp" THEN <<HeadCell(fr.final, fr.op, Size(fr))>> ELSE WssHead(fr.final, fr.op, Size(fr))
<1>3. FrameOf(w, fr) = h \o s BY <1>1 DEF FrameOf, TcpFrame, WssFrame, Plain, s
<1>4. h \in Seq(Cell)
  <2>1. fr.final \in BOOLEAN /\ fr.op \in Ops BY DEF Sent
  <2>. QED BY <1>1, <2>1, HeadCells
<1>5. Len(h) = HeadLen(w, fr) /\ \A i \in 1..HeadLen(w, fr) : h[i] = CellOf(w, fr, i)
  <2>1. CASE HeadLen(w, fr) = 1
    <3>1. w = "tcp" \/ (w # "tcp" /\ Size(fr) < Short) BY <2>1 DEF HeadLen
    <3>2. Size(fr) < Short => WssHead(fr.final, fr.op, Size(fr)) = <<HeadCell(fr.final, fr.op, Size(fr))>>
      BY DEF WssHead
    <3>3. h = <<HeadCell(fr.final, fr.op, Size(fr))>> BY <3>1, <3>2
    <3>4. CellOf(w, fr, 1) = HeadCell(fr.final, fr.op, Size(fr)) BY <2>1 DEF CellOf, Code
    <3> HIDE DEF h
    <3>5. Len(h) = 1 /\ h[1] = HeadCell(fr.final, fr.op, Size(fr)) BY <3>3
    <3>6. \A i \in 1..1 : i = 1 OBVIOUS
    <3>. QED BY <2>1, <3>4, <3>5, <3>6
  <2>2. CASE HeadLen(w, fr) = 2
    <3>1. w # "tcp" /\ ~(Size(fr) < Short) BY <2>2 DEF HeadLen
    <3>2. Size(fr) < Word => Size(fr) % Word = Size(fr) BY <1>1, <1>2
    <3> DEFINE two == <<HeadCell(fr.final, fr.op, Code(w, fr)), LengthCell(Width(fr), Size(fr))>>
    <3>3. Size(fr) < Word => WssHead(fr.final, fr.op, Size(fr)) = two
      <4> SUFFICES ASSUME Size(fr) < Word PROVE WssHead(fr.final, fr.op, Size(fr)) = two OBVIOUS
      <4>1. Code(w, fr) = Short /\ Width(fr) = "word" BY <2>2 DEF Code, Width
      <4>. QED BY <3>1, <3>2, <4>1 DEF WssHead
    <3>4. ~(Size(fr) < Word) => WssHead(fr.final, fr.op, Size(fr)) = two
      <4> SUFFICES ASSUME ~(Size(fr) < Word) PROVE WssHead(fr.final, fr.op, Size(fr)) = two OBVIOUS
      <4>1. Code(w, fr) = Long /\ Width(fr) = "long" BY <2>2 DEF Code, Width
      <4>. QED BY <3>1, <4>1 DEF WssHead
    <3>5. h = two BY <3>1, <3>3, <3>4
    <3> HIDE DEF h
    <3>6. Len(h) = 2 /\ h[1] = HeadCell(fr.final, fr.op, Code(w, fr)) /\ h[2] = LengthCell(Width(fr), Size(fr))
      BY <3>5
    <3>7. CellOf(w, fr, 1) = h[1] /\ CellOf(w, fr, 2) = h[2] BY <2>2, <3>6 DEF CellOf
    <3>8. \A i \in 1..2 : i = 1 \/ i = 2 OBVIOUS
    <3>. QED BY <2>2, <3>6, <3>7, <3>8
  <2>. QED BY <2>1, <2>2, SentSize
<1> HIDE DEF h
<1>6. /\ h \o s \in Seq(Cell) /\ Len(h \o s) = Len(h) + Len(s)
      /\ \A i \in 1..(Len(h) + Len(s)) : (h \o s)[i] = IF i <= Len(h) THEN h[i] ELSE s[i - Len(h)]
  BY <1>1, <1>4, ConcatProperties
<1>7. Len(h \o s) = FrameLen(w, fr) BY <1>1, <1>5, <1>6 DEF FrameLen
<1>8. ASSUME NEW i \in 1..FrameLen(w, fr) PROVE (h \o s)[i] = CellOf(w, fr, i)
  <2>1. HeadLen(w, fr) \in {1, 2} BY SentSize
  <2>2. CASE i <= HeadLen(w, fr)
    <3>1. i \in 1..HeadLen(w, fr) BY <2>1, <2>2
    <3>. QED BY <1>5, <1>6, <1>7, <2>2, <3>1
  <2>3. CASE ~(i <= HeadLen(w, fr))
    <3>1. i # 1 BY <2>1, <2>3
    <3>. QED BY <1>5, <1>6, <1>7, <2>3, <3>1 DEF CellOf, s
  <2>. QED BY <2>2, <2>3
<1>. QED BY <1>3, <1>6, <1>7, <1>8

-----------------------------------------------------------------------------
(* Frames one after the other *)

(* The cells s spell the frames of P, except for what was used of the first   *)
(* and what is not there of the last.                                       *)
EndsOf(P) == [0..Len(P) -> Int]
Laid(w, P, e) ==
  /\ \A k \in 1..Len(P) : e[k] = e[k - 1] + FrameLen(w, P[k])
  /\ \A j, k \in 0..Len(P) : j <= k => e[j] <= e[k]
ReadsAs(w, P, e, s) ==
  \A k \in 1..Len(P) : \A i \in 1..FrameLen(w, P[k]) :
    e[k - 1] + i \in 1..Len(s) => s[e[k - 1] + i] = CellOf(w, P[k], i)
Spells(w, P, e, s) == Laid(w, P, e) /\ ReadsAs(w, P, e, s) /\ Len(s) <= e[Len(P)]

(* Without its first cells.                                                 *)
LEMMA SpellsRest ==
  ASSUME NEW w, NEW P \in Seq(Sent), NEW e \in EndsOf(P), NEW s \in Seq(Cell), NEW t \in Seq(Cell),
         NEW m \in Nat, Spells(w, P, e, s), Len(s) = m + Len(t), \A i \in 1..Len(t) : t[i] = s[m + i]
  PROVE  LET f == [k \in 0..Len(P) |-> e[k] - m] IN f \in EndsOf(P) /\ Spells(w, P, f, t)
<1> DEFINE f == [k \in 0..Len(P) |-> e[k] - m]
<1>1. Len(P) \in Nat /\ Len(s) \in Nat /\ Len(t) \in Nat BY LenProperties
<1>2. \A k \in 0..Len(P) : e[k] \in Int /\ f[k] = e[k] - m BY DEF EndsOf
<1>3. f \in EndsOf(P) BY <1>2 DEF EndsOf
<1> HIDE DEF f
<1>4. \A k \in 1..Len(P) : k \in 0..Len(P) /\ k - 1 \in 0..Len(P) /\ FrameLen(w, P[k]) \in Nat
  BY <1>1, ElementOfSeq, SentSize
<1>5. Laid(w, P, f)
  <2>1. ASSUME NEW k \in 1..Len(P) PROVE f[k] = f[k - 1] + FrameLen(w, P[k])
    <3>1. e[k] = e[k - 1] + FrameLen(w, P[k]) BY DEF Laid, Spells
    <3>2. k \in 0..Len(P) /\ k - 1 \in 0..Len(P) /\ FrameLen(w, P[k]) \in Nat BY <1>4
    <3>3. f[k] = e[k] - m /\ f[k - 1] = e[k - 1] - m /\ e[k - 1] \in Int BY <1>2, <3>2
    <3>. QED BY <3>1, <3>2, <3>3
  <2>2. ASSUME NEW j \in 0..Len(P), NEW k \in 0..Len(P), j <= k PROVE f[j] <= f[k]
    <3>1. e[j] <= e[k] BY <2>2 DEF Laid, Spells
    <3>. QED BY <1>2, <3>1
  <2>. QED BY <2>1, <2>2 DEF Laid
<1>6. ASSUME NEW k \in 1..Len(P), NEW i \in 1..FrameLen(w, P[k]), f[k - 1] + i \in 1..Len(t)
      PROVE t[f[k - 1] + i] = CellOf(w, P[k], i)
  <2>1. i \in Nat /\ e[k - 1] \in Int /\ f[k - 1] = e[k - 1] - m BY <1>2, <1>4
  <2>2. e[k - 1] + i = m + (f[k - 1] + i) BY <2>1
  <2>3. e[k - 1] + i \in 1..Len(s) BY <1>1, <1>6, <2>2
  <2>. QED BY <1>6, <2>2, <2>3 DEF Spells, ReadsAs
<1>7. Len(t) <= f[Len(P)] BY <1>1, <1>2 DEF Spells
<1>. QED BY <1>3, <1>5, <1>6, <1>7 DEF f, Spells, ReadsAs

(* Cut short.                                                               *)
LEMMA SpellsPrefix ==
  ASSUME NEW w, NEW P \in Seq(Sent), NEW e \in EndsOf(P), NEW s \in Seq(Cell), NEW t \in Seq(Cell),
         Spells(w, P, e, s), Len(t) <= Len(s), \A i \in 1..Len(t) : t[i] = s[i]
  PROVE  Spells(w, P, e, t)
<1>1. Len(P) \in Nat /\ Len(s) \in Nat /\ Len(t) \in Nat BY LenProperties
<1>2. e[Len(P)] \in Int BY <1>1 DEF EndsOf
<1>3. \A i \in 1..Len(t) : i \in 1..Len(s) /\ t[i] = s[i] BY <1>1
<1>4. ReadsAs(w, P, e, t) BY <1>3 DEF Spells, ReadsAs
<1>. QED BY <1>1, <1>2, <1>4 DEF Spells

(* Without a first frame that is used up.                                    *)
LEMMA SpellsTail ==
  ASSUME NEW w, NEW P \in Seq(Sent), NEW e \in EndsOf(P), NEW s \in Seq(Cell),
         Spells(w, P, e, s), P # <<>>
  PROVE  LET f == [k \in 0..Len(Tail(P)) |-> e[k + 1]] IN
         /\ Tail(P) \in Seq(Sent) /\ Len(Tail(P)) = Len(P) - 1
         /\ f \in EndsOf(Tail(P)) /\ Spells(w, Tail(P), f, s)
<1> DEFINE Q == Tail(P)
           f == [k \in 0..Len(Q) |-> e[k + 1]]
<1>1. /\ Len(P) \in Nat \ {0} /\ Q \in Seq(Sent) /\ Len(Q) = Len(P) - 1
      /\ \A i \in 1..Len(Q) : Q[i] = P[i + 1]
  BY EmptySeq, HeadTailProperties
<1> HIDE DEF Q
<1>2. \A k \in 0..Len(P) : e[k] \in Int BY DEF EndsOf
<1>3. \A k \in 0..Len(Q) : k + 1 \in 0..Len(P) /\ f[k] = e[k + 1] BY <1>1
<1>4. f \in EndsOf(Q) BY <1>2, <1>3 DEF EndsOf
<1> HIDE DEF f
<1>5. \A k \in 1..Len(Q) : k + 1 \in 1..Len(P) /\ f[k] = e[k + 1] /\ f[k - 1] = e[k]
  <2> SUFFICES ASSUME NEW k \in 1..Len(Q) PROVE k + 1 \in 1..Len(P) /\ f[k] = e[k + 1] /\ f[k - 1] = e[k]
    OBVIOUS
  <2>1. k \in 0..Len(Q) /\ k - 1 \in 0..Len(Q) /\ (k - 1) + 1 = k BY <1>1
  <2>2. f[k - 1] = e[(k - 1) + 1] BY <1>3, <2>1
  <2>. QED BY <1>1, <1>3, <2>1, <2>2
<1>6. Laid(w, Q, f)
  <2>1. \A k \in 1..Len(Q) : f[k] = f[k - 1] + FrameLen(w, Q[k])
    <3> SUFFICES ASSUME NEW k \in 1..Len(Q) PROVE f[k] = f[k - 1] + FrameLen(w, Q[k]) OBVIOUS
    <3>1. e[k + 1] = e[(k + 1) - 1] + FrameLen(w, P[k + 1]) BY <1>5 DEF Spells, Laid
    <3>2. (k + 1) - 1 = k BY <1>1
    <3>. QED BY <1>1, <1>5, <3>1, <3>2
  <2>2. \A j, k \in 0..Len(Q) : j <= k => f[j] <= f[k]
    <3> SUFFICES ASSUME NEW j \in 0..Len(Q), NEW k \in 0..Len(Q), j <= k PROVE f[j] <= f[k] OBVIOUS
    <3>1. j + 1 \in 0..Len(P) /\ k + 1 \in 0..Len(P) /\ j + 1 <= k + 1 BY <1>1
    <3>2. e[j + 1] <= e[k + 1] BY <3>1 DEF Spells, Laid
    <3>. QED BY <1>3, <3>2
  <2>. QED BY <2>1, <2>2 DEF Laid
<1>7. ReadsAs(w, Q, f, s)
  <2> SUFFICES ASSUME NEW k \in 1..Len(Q), NEW i \in 1..FrameLen(w, Q[k]), f[k - 1] + i \in 1..Len(s)
               PROVE s[f[k - 1] + i] = CellOf(w, Q[k], i)
    BY DEF ReadsAs
  <2>1. Q[k] = P[k + 1] /\ f[k - 1] = e[(k + 1) - 1]
    <3>1. (k + 1) - 1 = k BY <1>1
    <3>. QED BY <1>1, <1>5, <3>1
  <2>. QED BY <1>5, <2>1 DEF Spells, ReadsAs
<1>8. Len(s) <= f[Len(Q)]
  <2>1. f[Len(Q)] = e[Len(Q) + 1] /\ Len(Q) + 1 = Len(P) BY <1>1, <1>3
  <2>. QED BY <2>1 DEF Spells
<1>. QED BY <1>1, <1>4, <1>6, <1>7, <1>8 DEF f, Q, Spells

(* Without a last frame of which no cell is there.                           *)
LEMMA SpellsFront ==
  ASSUME NEW w, NEW P \in Seq(Sent), NEW e \in EndsOf(P), NEW s \in Seq(Cell),
         Spells(w, P, e, s), P # <<>>, Len(s) <= e[Len(P) - 1]
  PROVE  LET f == [k \in 0..Len(Front(P)) |-> e[k]] IN
         /\ Front(P) \in Seq(Sent) /\ Len(Front(P)) = Len(P) - 1
         /\ f \in EndsOf(Front(P)) /\ Spells(w, Front(P), f, s)
<1> DEFINE Q == Front(P)
           f == [k \in 0..Len(Q) |-> e[k]]
<1>1. Len(P) \in Nat \ {0} BY EmptySeq
<1>2. Q \in Seq(Sent) /\ Len(Q) = Len(P) - 1 /\ \A i \in 1..Len(Q) : Q[i] = P[i]
  BY FrontOf
<1> HIDE DEF Q
<1>3. \A k \in 0..Len(P) : e[k] \in Int BY DEF EndsOf
<1>4. \A k \in 0..Len(Q) : k \in 0..Len(P) /\ f[k] = e[k] BY <1>1, <1>2
<1>5. f \in EndsOf(Q) BY <1>3, <1>4 DEF EndsOf
<1> HIDE DEF f
<1>6. \A k \in 1..Len(Q) : k \in 1..Len(P) /\ k \in 0..Len(Q) /\ k - 1 \in 0..Len(Q) BY <1>1, <1>2
<1>7. Laid(w, Q, f) BY <1>2, <1>4, <1>6 DEF Spells, Laid
<1>8. ReadsAs(w, Q, f, s) BY <1>2, <1>4, <1>6 DEF Spells, ReadsAs
<1>9. Len(s) <= f[Len(Q)] BY <1>1, <1>2, <1>4
<1>. QED BY <1>2, <1>5, <1>7, <1>8, <1>9 DEF f, Q, Spells

(* With one more frame.                                                     *)
Extends(w, P, e, fr, t) ==
  /\ Append(P, fr) \in Seq(Sent) /\ t \in Seq(Cell)
  /\ \E f \in EndsOf(Append(P, fr)) :
       /\ (\A k \in 0..Len(P) : f[k] = e[k]) /\ Spells(w, Append(P, fr), f, t)
       /\ Len(t) = f[Len(Append(P, fr))]

LEMMA SpellsMore ==
  ASSUME NEW w, NEW P \in Seq(Sent), NEW e \in EndsOf(P), NEW s \in Seq(Cell),
         NEW fr \in Sent, w = "tcp" => Plain(fr), Spells(w, P, e, s), Len(s) = e[Len(P)]
  PROVE  Extends(w, P, e, fr, s \o FrameOf(w, fr))
<1> DEFINE Q == Append(P, fr)
           f == [k \in 0..Len(Q) |-> IF k = Len(Q) THEN e[Len(P)] + FrameLen(w, fr) ELSE e[k]]
           F == FrameOf(w, fr)
           t == s \o F
<1>1. Len(P) \in Nat /\ Len(s) \in Nat BY LenProperties
<1>2. /\ Q \in Seq(Sent) /\ Len(Q) = Len(P) + 1 /\ Q[Len(Q)] = fr
      /\ \A i \in 1..Len(P) : Q[i] = P[i]
  BY AppendProperties, <1>1
<1>3. F \in Seq(Cell) /\ Len(F) = FrameLen(w, fr) /\ FrameLen(w, fr) \in Nat
      /\ \A i \in 1..FrameLen(w, fr) : F[i] = CellOf(w, fr, i)
  BY FrameSpelled, SentSize
<1> HIDE DEF Q, F
<1>4. /\ t \in Seq(Cell) /\ Len(t) = Len(s) + FrameLen(w, fr)
      /\ \A i \in 1..(Len(s) + FrameLen(w, fr)) : t[i] = IF i <= Len(s) THEN s[i] ELSE F[i - Len(s)]
  <2>1. /\ s \o F \in Seq(Cell) /\ Len(s \o F) = Len(s) + Len(F)
        /\ \A i \in 1..(Len(s) + Len(F)) : (s \o F)[i] = IF i <= Len(s) THEN s[i] ELSE F[i - Len(s)]
    BY <1>3, ConcatProperties
  <2>. QED BY <1>3, <2>1
<1> HIDE DEF t
<1>5. \A k \in 0..Len(P) : e[k] \in Int /\ k \in 0..Len(Q) /\ k # Len(Q) /\ f[k] = e[k]
  <2>1. \A k \in 0..Len(P) : e[k] \in Int BY DEF EndsOf
  <2>2. \A k \in 0..Len(P) : k \in 0..Len(Q) /\ k # Len(Q) BY <1>1, <1>2
  <2>. QED BY <2>1, <2>2
<1>6. f[Len(Q)] = e[Len(P)] + FrameLen(w, fr) BY <1>1, <1>2
<1>7. f \in EndsOf(Q)
  <2>1. e[Len(P)] + FrameLen(w, fr) \in Int BY <1>1, <1>3, <1>5
  <2>2. \A k \in 0..Len(Q) : k = Len(Q) \/ k \in 0..Len(P) BY <1>1, <1>2
  <2>. QED BY <1>5, <2>1, <2>2 DEF EndsOf
<1> HIDE DEF f
<1>8. \A k \in 0..Len(Q) : k = Len(Q) \/ k \in 0..Len(P) BY <1>1, <1>2
<1>9. \A k \in 1..Len(Q) : \/ k = Len(Q) /\ k - 1 = Len(P)
                           \/ k \in 1..Len(P) /\ k \in 0..Len(P) /\ k - 1 \in 0..Len(P)
  BY <1>1, <1>2
<1>10. Len(P) \in 0..Len(P) BY <1>1
<1>11. Laid(w, Q, f)
  <2>1. ASSUME NEW k \in 1..Len(Q) PROVE f[k] = f[k - 1] + FrameLen(w, Q[k])
    <3>1. CASE k = Len(Q) /\ k - 1 = Len(P) BY <1>2, <1>5, <1>6, <1>10, <3>1
    <3>2. CASE k \in 1..Len(P) /\ k \in 0..Len(P) /\ k - 1 \in 0..Len(P)
      BY <1>2, <1>5, <3>2 DEF Spells, Laid
    <3>. QED BY <1>9, <3>1, <3>2
  <2>2. ASSUME NEW j \in 0..Len(Q), NEW k \in 0..Len(Q), j <= k PROVE f[j] <= f[k]
    <3>1. CASE k = Len(Q)
      <4>1. CASE j = Len(Q) BY <1>1, <1>3, <1>5, <1>6, <1>10, <3>1, <4>1
      <4>2. CASE j \in 0..Len(P)
        <5>1. e[j] <= e[Len(P)] BY <1>10, <4>2 DEF Spells, Laid
        <5>. QED BY <1>3, <1>5, <1>6, <1>10, <3>1, <4>2, <5>1
      <4>. QED BY <1>8, <4>1, <4>2
    <3>2. CASE k \in 0..Len(P) /\ k # Len(Q)
      <4>1. j \in 0..Len(P) BY <1>1, <1>2, <2>2, <3>2
      <4>. QED BY <1>5, <2>2, <3>2, <4>1 DEF Spells, Laid
    <3>. QED BY <1>8, <3>1, <3>2
  <2>. QED BY <2>1, <2>2 DEF Laid
<1>12. ReadsAs(w, Q, f, t)
  <2> SUFFICES ASSUME NEW k \in 1..Len(Q), NEW i \in 1..FrameLen(w, Q[k]), f[k - 1] + i \in 1..Len(t)
               PROVE t[f[k - 1] + i] = CellOf(w, Q[k], i)
    BY DEF ReadsAs
  <2>1. CASE k = Len(Q) /\ k - 1 = Len(P)
    <3>1. f[k - 1] = Len(s) /\ Q[k] = fr BY <1>2, <1>5, <1>10, <2>1
    <3>2. i \in Nat /\ ~(Len(s) + i <= Len(s)) /\ (Len(s) + i) - Len(s) = i /\ i \in 1..FrameLen(w, fr)
      BY <1>1, <1>3, <3>1
    <3>. QED BY <1>3, <1>4, <3>1, <3>2
  <2>2. CASE k \in 1..Len(P) /\ k \in 0..Len(P) /\ k - 1 \in 0..Len(P)
    <3>1. Q[k] = P[k] /\ f[k - 1] = e[k - 1] /\ e[k - 1] \in Int BY <1>2, <1>5, <2>2
    <3>2. FrameLen(w, P[k]) \in Nat BY <2>2, ElementOfSeq, SentSize
    <3>3. e[k] = e[k - 1] + FrameLen(w, P[k]) /\ e[k] <= e[Len(P)] BY <1>10, <2>2 DEF Spells, Laid
    <3>4. e[k - 1] + i \in 1..Len(s)
      <4>1. i \in Nat /\ i <= FrameLen(w, P[k]) /\ e[k] \in Int BY <1>5, <2>2, <3>1, <3>2
      <4>2. e[k - 1] + i <= Len(s) BY <1>1, <3>1, <3>2, <3>3, <4>1
      <4>3. f[k - 1] + i >= 1 BY <1>1, <1>3, <1>4, <3>1, <4>1
      <4>. QED BY <1>1, <3>1, <4>1, <4>2, <4>3
    <3>5. t[e[k - 1] + i] = s[e[k - 1] + i]
      <4>1. \A x \in 1..Len(s), m \in Nat : x \in 1..(Len(s) + m) /\ x <= Len(s) BY <1>1
      <4>2. e[k - 1] + i \in 1..(Len(s) + FrameLen(w, fr)) /\ e[k - 1] + i <= Len(s)
        BY <1>3, <3>4, <4>1
      <4>. QED BY <1>4, <4>2
    <3>. QED BY <3>1, <3>4, <3>5, <2>2 DEF Spells, ReadsAs
  <2>. QED BY <1>9, <2>1, <2>2
<1>13. Len(t) = f[Len(Q)] BY <1>4, <1>6
<1>14. \A k \in 0..Len(P) : f[k] = e[k] BY <1>1, <1>5
<1>15. Len(t) <= f[Len(Q)] BY <1>1, <1>3, <1>4, <1>13
<1>16. Spells(w, Q, f, t) BY <1>11, <1>12, <1>15 DEF Spells
<1>. QED BY <1>2, <1>4, <1>7, <1>13, <1>14, <1>16 DEF t, F, Q, Extends

-----------------------------------------------------------------------------
(* Messages of frames *)

(* From what is held before the first frame to what is held after the last.   *)
Linked(P, held, end) ==
  /\ \A k \in 1..(Len(P) - 1) : P[k + 1].before = After(P[k])
  /\ IF P = <<>> THEN held = end ELSE P[1].before = held /\ After(P[Len(P)]) = end
(* Each frame that completes a message completes the next packet of W.        *)
Message(fr) == fr.before.parts \o fr.cells
Marks(P, W) == [1..Len(W) -> 1..Len(P)]
Carries(P, W, at) ==
  /\ at \in Marks(P, W)
  /\ \A i, j \in 1..Len(W) : i < j => at[i] < at[j]
  /\ \A i \in 1..Len(W) : Completes(P[at[i]]) /\ Message(P[at[i]]) = PayloadOf(W[i])
  /\ \A k \in 1..Len(P) : Completes(P[k]) => \E i \in 1..Len(W) : at[i] = k

(* Without the first frame.                                                *)
LEMMA LinkedTail ==
  ASSUME NEW P \in Seq(Sent), P # <<>>, NEW held, NEW end, Linked(P, held, end)
  PROVE  Linked(Tail(P), After(P[1]), end)
<1>1. /\ Len(P) \in Nat \ {0} /\ Tail(P) \in Seq(Sent) /\ Len(Tail(P)) = Len(P) - 1
      /\ \A i \in 1..(Len(P) - 1) : Tail(P)[i] = P[i + 1]
  BY EmptySeq, HeadTailProperties
<1>2. ASSUME NEW k \in 1..(Len(Tail(P)) - 1) PROVE Tail(P)[k + 1].before = After(Tail(P)[k])
  <2>1. k \in 1..(Len(P) - 1) /\ k + 1 \in 1..(Len(P) - 1) BY <1>1
  <2>. QED BY <1>1, <2>1 DEF Linked
<1>3. CASE Tail(P) = <<>>
  <2>1. Len(P) = 1
    <3>1. Len(P) - 1 = 0 BY <1>1, <1>3, EmptySeq
    <3>2. \A n \in Nat : n - 1 = 0 => n = 1 OBVIOUS
    <3>. QED BY <1>1, <3>1, <3>2
  <2>. QED BY <1>2, <1>3, <2>1 DEF Linked
<1>4. CASE Tail(P) # <<>>
  <2>1. Len(Tail(P)) # 0 BY <1>1, <1>4, EmptySeq
  <2>2. /\ 1 \in 1..(Len(P) - 1) /\ Len(P) - 1 \in 1..(Len(P) - 1) /\ (Len(P) - 1) + 1 = Len(P)
    BY <1>1, <2>1
  <2>3. Tail(P)[1] = P[1 + 1] /\ Tail(P)[Len(Tail(P))] = P[Len(P)] BY <1>1, <2>2
  <2>4. P[1 + 1].before = After(P[1]) BY <2>2 DEF Linked
  <2>. QED BY <1>2, <1>4, <2>3, <2>4 DEF Linked
<1>. QED BY <1>3, <1>4

(* With one more frame.                                                    *)
LEMMA LinkedMore ==
  ASSUME NEW P \in Seq(Sent), NEW fr \in Sent, NEW held, Linked(P, held, fr.before)
  PROVE  Linked(Append(P, fr), held, After(fr))
<1> DEFINE Q == Append(P, fr)
<1>1. /\ Len(P) \in Nat /\ Q \in Seq(Sent) /\ Len(Q) = Len(P) + 1 /\ Q[Len(P) + 1] = fr /\ Q # <<>>
      /\ \A i \in 1..Len(P) : Q[i] = P[i]
  BY LenProperties, AppendProperties
<1> HIDE DEF Q
<1>2. CASE P = <<>>
  <2>1. Len(P) = 0 BY <1>2, EmptySeq
  <2>2. \A k \in 1..(Len(Q) - 1) : FALSE BY <1>1, <2>1
  <2>. QED BY <1>1, <1>2, <2>1, <2>2 DEF Linked, Q
<1>3. CASE P # <<>>
  <2>1. Len(P) \in Nat \ {0} BY <1>3, EmptySeq
  <2>2. 1 \in 1..Len(P) /\ Len(P) \in 1..Len(P) BY <2>1
  <2>3. ASSUME NEW k \in 1..(Len(Q) - 1) PROVE Q[k + 1].before = After(Q[k])
    <3>1. k \in 1..Len(P) BY <1>1
    <3>2. CASE k = Len(P) BY <1>1, <1>3, <2>2, <3>2 DEF Linked
    <3>3. CASE k # Len(P)
      <4>1. k \in 1..(Len(P) - 1) /\ k + 1 \in 1..Len(P) BY <2>1, <3>1, <3>3
      <4>. QED BY <1>1, <3>1, <4>1 DEF Linked
    <3>. QED BY <3>2, <3>3
  <2>. QED BY <1>1, <1>3, <2>2, <2>3 DEF Linked, Q
<1>. QED BY <1>2, <1>3

(* The first frame is used, and it completed no message.                     *)
LEMMA CarriesOn ==
  ASSUME NEW P \in Seq(Sent), P # <<>>, NEW W \in Seq(Packet), NEW at, Carries(P, W, at),
         ~Completes(P[1])
  PROVE  /\ \A i \in 1..Len(W) : at[i] \in 1..Len(P) /\ at[i] # 1
         /\ Carries(Tail(P), W, [i \in 1..Len(W) |-> at[i] - 1])
<1> DEFINE Q == Tail(P)
           to == [i \in 1..Len(W) |-> at[i] - 1]
<1>1. /\ Len(P) \in Nat \ {0} /\ Q \in Seq(Sent) /\ Len(Q) = Len(P) - 1
      /\ \A i \in 1..(Len(P) - 1) : Q[i] = P[i + 1]
  BY EmptySeq, HeadTailProperties
<1> HIDE DEF Q
<1>2. \A i \in 1..Len(W) : at[i] \in 1..Len(P) /\ at[i] # 1 BY DEF Carries, Marks
<1>3. ASSUME NEW i \in 1..Len(W)
      PROVE to[i] \in 1..Len(Q) /\ to[i] + 1 = at[i] /\ Q[to[i]] = P[at[i]] /\ at[i] \in Int
  <2>1. to[i] = at[i] - 1 OBVIOUS
  <2>2. at[i] \in 1..Len(P) /\ at[i] # 1 BY <1>2
  <2> HIDE DEF to
  <2>. QED BY <1>1, <2>1, <2>2
<1>4. to \in Marks(Q, W) BY <1>3 DEF Marks
<1> HIDE DEF to
<1>5. \A i, j \in 1..Len(W) : i < j => to[i] < to[j]
  <2> SUFFICES ASSUME NEW i \in 1..Len(W), NEW j \in 1..Len(W), i < j PROVE to[i] < to[j] OBVIOUS
  <2>1. at[i] < at[j] BY DEF Carries
  <2>2. to[i] + 1 = at[i] /\ to[j] + 1 = at[j] /\ to[i] \in Int /\ to[j] \in Int BY <1>3
  <2>. QED BY <2>1, <2>2
<1>6. \A i \in 1..Len(W) : Completes(Q[to[i]]) /\ Message(Q[to[i]]) = PayloadOf(W[i])
  BY <1>3 DEF Carries
<1>7. ASSUME NEW k \in 1..Len(Q), Completes(Q[k]) PROVE \E i \in 1..Len(W) : to[i] = k
  <2>1. k + 1 \in 1..Len(P) /\ Q[k] = P[k + 1] BY <1>1
  <2>2. PICK i \in 1..Len(W) : at[i] = k + 1 BY <1>7, <2>1 DEF Carries
  <2>3. to[i] = k
    <3>1. to[i] + 1 = k + 1 /\ to[i] \in Int /\ k \in Int BY <1>3, <2>2
    <3>. QED BY <3>1
  <2>. QED BY <2>3
<1>. QED BY <1>2, <1>4, <1>5, <1>6, <1>7 DEF Carries, Q, to

(* The first frame is used, and it completed the first packet.                *)
LEMMA CarriesRest ==
  ASSUME NEW P \in Seq(Sent), P # <<>>, NEW W \in Seq(Packet), NEW at, Carries(P, W, at),
         Completes(P[1])
  PROVE  /\ W # <<>> /\ Len(W) \in Nat \ {0} /\ at[1] = 1 /\ Message(P[1]) = PayloadOf(W[1])
         /\ \A i \in 1..(Len(W) - 1) : at[i + 1] \in 1..Len(P) /\ at[i + 1] # 1
         /\ Carries(Tail(P), Tail(W), [i \in 1..(Len(W) - 1) |-> at[i + 1] - 1])
<1> DEFINE Q == Tail(P)
           V == Tail(W)
           to == [i \in 1..(Len(W) - 1) |-> at[i + 1] - 1]
<1>1. /\ Len(P) \in Nat \ {0} /\ Q \in Seq(Sent) /\ Len(Q) = Len(P) - 1
      /\ \A i \in 1..(Len(P) - 1) : Q[i] = P[i + 1]
  BY EmptySeq, HeadTailProperties
<1>2. at[1] = 1 /\ Len(W) \in Nat \ {0}
  <2>1. 1 \in 1..Len(P) BY <1>1
  <2>2. PICK i \in 1..Len(W) : at[i] = 1 BY <2>1 DEF Carries
  <2>3. Len(W) \in Nat /\ i \in Nat BY LenProperties
  <2>4. Len(W) \in Nat \ {0} /\ 1 \in 1..Len(W) BY <2>3
  <2>5. at[1] \in 1..Len(P) BY <2>4 DEF Carries, Marks
  <2>6. 1 < i => at[1] < at[i] BY <2>4 DEF Carries
  <2>7. i = 1 \/ 1 < i BY <2>3
  <2>. QED BY <2>2, <2>4, <2>5, <2>6, <2>7
<1>3. W # <<>> /\ V \in Seq(Packet) /\ Len(V) = Len(W) - 1 /\ \A i \in 1..(Len(W) - 1) : V[i] = W[i + 1]
  <2>1. W # <<>> BY <1>2, EmptySeq
  <2>. QED BY <2>1, HeadTailProperties
<1> HIDE DEF Q, V
<1>4. Message(P[1]) = PayloadOf(W[1])
  <2>1. 1 \in 1..Len(W) BY <1>2
  <2>. QED BY <1>2, <2>1 DEF Carries
<1>5. ASSUME NEW i \in 1..(Len(W) - 1)
      PROVE /\ i + 1 \in 1..Len(W) /\ at[i + 1] \in 1..Len(P) /\ at[i + 1] # 1
            /\ to[i] \in 1..Len(Q) /\ to[i] + 1 = at[i + 1] /\ Q[to[i]] = P[at[i + 1]]
  <2>1. i + 1 \in 1..Len(W) /\ 1 \in 1..Len(W) /\ 1 < i + 1 BY <1>2
  <2>2. at[i + 1] \in 1..Len(P) /\ at[1] < at[i + 1] BY <2>1 DEF Carries, Marks
  <2>3. to[i] = at[i + 1] - 1 OBVIOUS
  <2> HIDE DEF to
  <2>4. at[i + 1] # 1 BY <1>2, <2>2
  <2>5. to[i] \in 1..Len(Q) /\ to[i] + 1 = at[i + 1] BY <1>1, <2>2, <2>3, <2>4
  <2>. QED BY <1>1, <2>1, <2>2, <2>4, <2>5
<1>6. to \in Marks(Q, V) BY <1>3, <1>5 DEF Marks
<1> HIDE DEF to
<1>7. \A i, j \in 1..Len(V) : i < j => to[i] < to[j]
  <2> SUFFICES ASSUME NEW i \in 1..Len(V), NEW j \in 1..Len(V), i < j PROVE to[i] < to[j] OBVIOUS
  <2>1. i \in 1..(Len(W) - 1) /\ j \in 1..(Len(W) - 1) /\ i + 1 < j + 1 BY <1>2, <1>3
  <2>2. at[i + 1] < at[j + 1] BY <1>5, <2>1 DEF Carries
  <2>3. to[i] + 1 = at[i + 1] /\ to[j] + 1 = at[j + 1] /\ to[i] \in Int /\ to[j] \in Int BY <1>5, <2>1
  <2>. QED BY <2>2, <2>3
<1>8. ASSUME NEW i \in 1..Len(V) PROVE Completes(Q[to[i]]) /\ Message(Q[to[i]]) = PayloadOf(V[i])
  <2>1. i \in 1..(Len(W) - 1) /\ V[i] = W[i + 1] BY <1>3
  <2>2. i + 1 \in 1..Len(W) /\ Q[to[i]] = P[at[i + 1]] BY <1>5, <2>1
  <2>3. Completes(P[at[i + 1]]) /\ Message(P[at[i + 1]]) = PayloadOf(W[i + 1]) BY <2>2 DEF Carries
  <2>. QED BY <2>1, <2>2, <2>3
<1>9. ASSUME NEW k \in 1..Len(Q), Completes(Q[k]) PROVE \E i \in 1..Len(V) : to[i] = k
  <2>1. k + 1 \in 1..Len(P) /\ Q[k] = P[k + 1] /\ k + 1 # 1 BY <1>1
  <2>2. PICK j \in 1..Len(W) : at[j] = k + 1 BY <1>9, <2>1 DEF Carries
  <2>3. j # 1 BY <1>2, <2>1, <2>2
  <2>4. j - 1 \in 1..(Len(W) - 1) /\ (j - 1) + 1 = j BY <1>2, <2>3
  <2>5. to[j - 1] + 1 = k + 1 /\ to[j - 1] \in Int /\ k \in Int BY <1>5, <2>2, <2>4
  <2>6. to[j - 1] = k BY <2>5
  <2>. QED BY <1>3, <2>4, <2>6
<1>. QED BY <1>2, <1>3, <1>4, <1>5, <1>6, <1>7, <1>8, <1>9 DEF Carries, Q, V, to

(* One more frame, which completes no message.                               *)
LEMMA CarriesPart ==
  ASSUME NEW P \in Seq(Sent), NEW W \in Seq(Packet), NEW at, Carries(P, W, at),
         NEW fr \in Sent, ~Completes(fr)
  PROVE  Carries(Append(P, fr), W, at)
<1> DEFINE Q == Append(P, fr)
<1>1. /\ Len(P) \in Nat /\ Q \in Seq(Sent) /\ Len(Q) = Len(P) + 1 /\ Q[Len(P) + 1] = fr
      /\ \A i \in 1..Len(P) : Q[i] = P[i]
  BY LenProperties, AppendProperties
<1> HIDE DEF Q
<1>2. \A k \in 1..Len(P) : k \in 1..Len(Q) BY <1>1
<1>3. \A i \in 1..Len(W) : at[i] \in 1..Len(P) BY DEF Carries, Marks
<1>4. at \in Marks(Q, W) BY <1>2, <1>3 DEF Carries, Marks
<1>5. \A i \in 1..Len(W) : Completes(Q[at[i]]) /\ Message(Q[at[i]]) = PayloadOf(W[i])
  BY <1>1, <1>3 DEF Carries
<1>6. ASSUME NEW k \in 1..Len(Q), Completes(Q[k]) PROVE \E i \in 1..Len(W) : at[i] = k
  <2>1. k \in 1..Len(P) \/ k = Len(P) + 1 BY <1>1
  <2>. QED BY <1>1, <1>6, <2>1 DEF Carries
<1>. QED BY <1>4, <1>5, <1>6 DEF Carries, Q

(* One more frame, which completes one more packet.                          *)
LEMMA CarriesMore ==
  ASSUME NEW P \in Seq(Sent), NEW W \in Seq(Packet), NEW at, Carries(P, W, at),
         NEW fr \in Sent, Completes(fr), NEW p \in Packet, Message(fr) = PayloadOf(p)
  PROVE  LET to == [i \in 1..(Len(W) + 1) |-> IF i = Len(W) + 1 THEN Len(P) + 1 ELSE at[i]] IN
         Carries(Append(P, fr), Append(W, p), to)
<1> DEFINE Q == Append(P, fr)
           V == Append(W, p)
           to == [i \in 1..(Len(W) + 1) |-> IF i = Len(W) + 1 THEN Len(P) + 1 ELSE at[i]]
<1>1. /\ Len(P) \in Nat /\ Q \in Seq(Sent) /\ Len(Q) = Len(P) + 1 /\ Q[Len(P) + 1] = fr
      /\ \A i \in 1..Len(P) : Q[i] = P[i]
  BY LenProperties, AppendProperties
<1>2. /\ Len(W) \in Nat /\ V \in Seq(Packet) /\ Len(V) = Len(W) + 1 /\ V[Len(W) + 1] = p
      /\ \A i \in 1..Len(W) : V[i] = W[i]
  BY LenProperties, AppendProperties
<1> HIDE DEF Q, V
<1>3. /\ Len(W) + 1 \in 1..Len(V) /\ to[Len(W) + 1] = Len(P) + 1
      /\ Len(P) + 1 \in 1..Len(Q)
  BY <1>1, <1>2
<1>4. ASSUME NEW i \in 1..Len(W) PROVE to[i] = at[i] /\ at[i] \in 1..Len(P) /\ at[i] \in 1..Len(Q)
  <2>1. i \in 1..(Len(W) + 1) /\ i # Len(W) + 1 BY <1>2
  <2>2. to[i] = at[i] BY <2>1
  <2>3. at[i] \in 1..Len(P) BY DEF Carries, Marks
  <2>. QED BY <1>1, <2>2, <2>3
<1>5. \A i \in 1..Len(V) : i = Len(W) + 1 \/ i \in 1..Len(W) BY <1>2
<1>6. to \in Marks(Q, V) BY <1>2, <1>3, <1>4, <1>5 DEF Marks
<1> HIDE DEF to
<1>7. ASSUME NEW i \in 1..Len(V), NEW j \in 1..Len(V), i < j PROVE to[i] < to[j]
  <2>1. i \in 1..Len(W) BY <1>2, <1>7
  <2>2. CASE j \in 1..Len(W) BY <1>4, <1>7, <2>1, <2>2 DEF Carries
  <2>3. CASE j = Len(W) + 1 BY <1>1, <1>3, <1>4, <2>1, <2>3
  <2>. QED BY <1>5, <2>2, <2>3
<1>8. ASSUME NEW i \in 1..Len(V) PROVE Completes(Q[to[i]]) /\ Message(Q[to[i]]) = PayloadOf(V[i])
  <2>1. CASE i = Len(W) + 1 BY <1>1, <1>2, <1>3, <2>1
  <2>2. CASE i \in 1..Len(W) BY <1>1, <1>2, <1>4, <2>2 DEF Carries
  <2>. QED BY <1>5, <2>1, <2>2
<1>9. ASSUME NEW k \in 1..Len(Q), Completes(Q[k]) PROVE \E i \in 1..Len(V) : to[i] = k
  <2>1. CASE k = Len(P) + 1 BY <1>3, <2>1
  <2>2. CASE k \in 1..Len(P)
    <3>1. PICK i \in 1..Len(W) : at[i] = k BY <1>1, <1>9, <2>2 DEF Carries
    <3>2. i \in 1..Len(V) BY <1>2
    <3>. QED BY <1>4, <3>1, <3>2
  <2>. QED BY <1>1, <2>1, <2>2
<1>. QED BY <1>6, <1>7, <1>8, <1>9 DEF Carries, Q, V, to

(* Without a last frame that completes the last packet.                      *)
LEMMA CarriesFront ==
  ASSUME NEW P \in Seq(Sent), P # <<>>, NEW W \in Seq(Packet), NEW at, Carries(P, W, at),
         Completes(P[Len(P)])
  PROVE  /\ W # <<>> /\ Len(W) \in Nat \ {0} /\ at[Len(W)] = Len(P)
         /\ \A i \in 1..(Len(W) - 1) : at[i] \in 1..(Len(P) - 1)
         /\ Carries(Front(P), Front(W), [i \in 1..(Len(W) - 1) |-> at[i]])
<1> DEFINE Q == Front(P)
           V == Front(W)
           to == [i \in 1..(Len(W) - 1) |-> at[i]]
<1>1. /\ Len(P) \in Nat \ {0} /\ Q \in Seq(Sent) /\ Len(Q) = Len(P) - 1
      /\ \A i \in 1..(Len(P) - 1) : Q[i] = P[i]
  BY FrontOf
<1>2. at[Len(W)] = Len(P) /\ Len(W) \in Nat \ {0}
  <2>1. Len(P) \in 1..Len(P) BY <1>1
  <2>2. PICK i \in 1..Len(W) : at[i] = Len(P) BY <2>1 DEF Carries
  <2>3. Len(W) \in Nat /\ i \in Nat BY LenProperties
  <2>4. Len(W) \in Nat \ {0} /\ Len(W) \in 1..Len(W) BY <2>3
  <2>5. at[Len(W)] \in 1..Len(P) BY <2>4 DEF Carries, Marks
  <2>6. i < Len(W) => at[i] < at[Len(W)] BY <2>4 DEF Carries
  <2>7. i = Len(W) \/ i < Len(W) BY <2>3
  <2>. QED BY <1>1, <2>2, <2>4, <2>5, <2>6, <2>7
<1>3. W # <<>> /\ V \in Seq(Packet) /\ Len(V) = Len(W) - 1 /\ \A i \in 1..(Len(W) - 1) : V[i] = W[i]
  <2>1. W # <<>> BY <1>2, EmptySeq
  <2>. QED BY <2>1, FrontOf
<1> HIDE DEF Q, V
<1>4. ASSUME NEW i \in 1..(Len(W) - 1)
      PROVE i \in 1..Len(W) /\ to[i] = at[i] /\ at[i] \in 1..(Len(P) - 1)
  <2>1. i \in 1..Len(W) /\ Len(W) \in 1..Len(W) /\ i < Len(W) BY <1>2
  <2>2. at[i] \in 1..Len(P) /\ at[i] < at[Len(W)] BY <2>1 DEF Carries, Marks
  <2>3. to[i] = at[i] OBVIOUS
  <2>. QED BY <1>1, <1>2, <2>1, <2>2, <2>3
<1>5. to \in Marks(Q, V) BY <1>1, <1>3, <1>4 DEF Marks
<1> HIDE DEF to
<1>6. \A i, j \in 1..Len(V) : i < j => to[i] < to[j] BY <1>3, <1>4 DEF Carries
<1>7. \A i \in 1..Len(V) : Completes(Q[to[i]]) /\ Message(Q[to[i]]) = PayloadOf(V[i])
  BY <1>1, <1>3, <1>4 DEF Carries
<1>8. ASSUME NEW k \in 1..Len(Q), Completes(Q[k]) PROVE \E i \in 1..Len(V) : to[i] = k
  <2>1. k \in 1..Len(P) /\ k \in 1..(Len(P) - 1) /\ k # Len(P) /\ Q[k] = P[k] BY <1>1
  <2>2. PICK j \in 1..Len(W) : at[j] = k BY <1>8, <2>1 DEF Carries
  <2>3. j # Len(W) BY <1>2, <2>1, <2>2
  <2>4. j \in 1..(Len(W) - 1) BY <1>2, <2>3
  <2>. QED BY <1>3, <1>4, <2>2, <2>4
<1>. QED BY <1>2, <1>3, <1>4, <1>5, <1>6, <1>7, <1>8 DEF Carries, Q, V, to

-----------------------------------------------------------------------------
(* The invariant *)

(* What is written and not yet used, and then what is still to be written.    *)
Ahead ==
  IF reader # "http" THEN data \o buffer \o wire
  ELSE IF wire = <<>> THEN <<>> ELSE Tail(wire)
ToWrite == IF conn = "open" THEN out ELSE <<>>
Spelled == Ahead \o ToWrite
(* The packets whose frames are written, or will be.                         *)
InFlight == IF conn # "open" /\ out # <<>> /\ Undelivered THEN Front(queue) ELSE queue
Held == [inside |-> inside, parts |-> parts]

(* How much of the first frame is used.                                      *)
Start(P, e) ==
  /\ reader \in {"http", "head"} => e[0] = 0
  /\ reader \in {"word", "long"} =>
       P # <<>> /\ e[0] = -1 /\ HeadLen(writer, P[1]) = 2 /\ reader = Width(P[1]) /\ frame = Kind(P[1])
  /\ reader = "body" =>
       P # <<>> /\ e[0] = -HeadLen(writer, P[1]) /\ want = Size(P[1]) /\ frame = Kind(P[1])
(* The last packet may be lost in the middle of its frames.                  *)
Reaches(P, e, W, at) ==
  /\ \/ InFlight = W
     \/ conn # "open" /\ W # <<>> /\ InFlight = Front(W) /\ Len(Spelled) < e[at[Len(W)]]
  /\ conn # "reset" => \A i \in 1..Len(InFlight) : e[at[i]] <= Len(Spelled)
  /\ conn = "open" => Len(Spelled) = e[Len(P)]
(* What is being written is the rest of the last packet, or of none.          *)
Writes(P, e, W, at) ==
  conn = "open" /\ out # <<>> =>
    \A i \in 1..Len(W) :
      IF Undelivered /\ i = Len(W) THEN at[i] = Len(P) ELSE e[at[i]] <= Len(Ahead)
Ours(P) == writer # "other" => \A k \in 1..Len(P) : Plain(P[k])

Layout(P, e, W, at) ==
  /\ P \in Seq(Sent) /\ e \in EndsOf(P) /\ W \in Seq(Packet)
  /\ Spells(writer, P, e, Spelled) /\ Start(P, e)
  /\ Linked(P, Held, Idle) /\ Carries(P, W, at) /\ Ours(P)
  /\ Reaches(P, e, W, at) /\ Writes(P, e, W, at)

Going == Whole /\ reader \notin Ended
Lined == \E P, e, W, at : Layout(P, e, W, at)
Http == reader = "http" => data = <<>> /\ buffer = <<>> /\ (conn # "reset" => wire # <<>>)
AtEnd == reader = "eof" => conn # "open" /\ (Whole /\ conn # "reset" => InFlight = <<>>)
Listed == queue \in Seq(Packet) /\ \A i \in 1..Len(queue) : queue[i].n <= drained
SInv == Listed /\ Http /\ AtEnd /\ (Going => Lined)

-----------------------------------------------------------------------------
(* What the invariant says of the state *)

(* The types of what is spelled.                                           *)
LEMMA SFacts ==
  ASSUME IInv, SInv
  PROVE  /\ Ahead \in Seq(Cell) /\ ToWrite \in Seq(Cell) /\ Spelled \in Seq(Cell)
         /\ Len(Spelled) = Len(Ahead) + Len(ToWrite)
         /\ Len(Ahead) \in Nat /\ Len(ToWrite) \in Nat /\ Len(Spelled) \in Nat
         /\ InFlight \in Seq(Packet) /\ queue \in Seq(Packet)
<1>1. <<>> \in Seq(Cell) /\ wire \in Seq(Cell) /\ buffer \in Seq(Cell) /\ data \in Seq(Cell)
      /\ out \in Seq(Cell)
  BY Facts
<1>2. data \o buffer \o wire \in Seq(Cell)
  <2>1. data \o buffer \in Seq(Cell) BY <1>1, ConcatProperties
  <2>. QED BY <1>1, <2>1, ConcatProperties
<1>3. wire # <<>> => Tail(wire) \in Seq(Cell) BY <1>1, HeadTailProperties
<1>4. Ahead \in Seq(Cell) BY <1>1, <1>2, <1>3 DEF Ahead
<1>5. ToWrite \in Seq(Cell) BY <1>1 DEF ToWrite
<1>6. Spelled \in Seq(Cell) /\ Len(Spelled) = Len(Ahead) + Len(ToWrite)
  BY <1>4, <1>5, ConcatProperties DEF Spelled
<1>7. Len(Ahead) \in Nat /\ Len(ToWrite) \in Nat /\ Len(Spelled) \in Nat
  BY <1>4, <1>5, <1>6, LenProperties
<1>8. queue \in Seq(Packet) BY DEF SInv, Listed
<1>9. InFlight \in Seq(Packet)
  <2>1. CASE queue = <<>>
    <3>1. InFlight = queue BY <2>1 DEF InFlight, Undelivered
    <3>. QED BY <1>8, <3>1
  <2>2. CASE queue # <<>>
    <3>1. Front(queue) \in Seq(Packet) BY <1>8, <2>2, FrontOf
    <3>. QED BY <1>8, <3>1 DEF InFlight
  <2>. QED BY <2>1, <2>2
<1>. QED BY <1>4, <1>5, <1>6, <1>7, <1>8, <1>9

(* What a layout says of its parts.                                         *)
LEMMA LayoutFacts ==
  ASSUME NEW P, NEW e, NEW W, NEW at, Layout(P, e, W, at)
  PROVE  /\ P \in Seq(Sent) /\ e \in EndsOf(P) /\ W \in Seq(Packet)
         /\ Len(P) \in Nat /\ Len(W) \in Nat
         /\ Spells(writer, P, e, Spelled) /\ Start(P, e)
         /\ Linked(P, Held, Idle) /\ Carries(P, W, at) /\ Ours(P)
         /\ Reaches(P, e, W, at) /\ Writes(P, e, W, at)
         /\ \A k \in 0..Len(P) : e[k] \in Int
         /\ \A j, k \in 0..Len(P) : j <= k => e[j] <= e[k]
         /\ \A i \in 1..Len(W) : at[i] \in 1..Len(P) /\ at[i] \in 0..Len(P)
         /\ Len(P) \in 0..Len(P) /\ 0 \in 0..Len(P)
<1>1. P \in Seq(Sent) /\ e \in EndsOf(P) /\ W \in Seq(Packet) BY DEF Layout
<1>2. Len(P) \in Nat /\ Len(W) \in Nat BY <1>1, LenProperties
<1>3. \A k \in 0..Len(P) : e[k] \in Int BY <1>1 DEF EndsOf
<1>4. \A j, k \in 0..Len(P) : j <= k => e[j] <= e[k] BY DEF Layout, Spells, Laid
<1>5. \A i \in 1..Len(W) : at[i] \in 1..Len(P) BY DEF Layout, Carries, Marks
<1>6. \A k \in 1..Len(P) : k \in 0..Len(P) BY <1>2
<1>. QED BY <1>1, <1>2, <1>3, <1>4, <1>5, <1>6 DEF Layout

(* Every packet in flight is one of W.                                     *)
LEMMA InFlightLength ==
  ASSUME IInv, SInv, NEW P, NEW e, NEW W, NEW at, Layout(P, e, W, at)
  PROVE  /\ Len(InFlight) \in 0..Len(W) /\ \A i \in 1..Len(InFlight) : i \in 1..Len(W)
         /\ W # <<>> => Len(W) \in 1..Len(W)
<1>1. W \in Seq(Packet) /\ Len(W) \in Nat BY LayoutFacts
<1>2. W # <<>> => Len(Front(W)) = Len(W) - 1 /\ Len(W) \in Nat \ {0} BY <1>1, FrontOf
<1>3. InFlight = W \/ (W # <<>> /\ InFlight = Front(W)) BY LayoutFacts DEF Reaches
<1>4. Len(InFlight) \in 0..Len(W) BY <1>1, <1>2, <1>3
<1>5. \A i \in 1..Len(InFlight) : i \in 1..Len(W) BY <1>1, <1>4
<1>6. W # <<>> => Len(W) \in 1..Len(W) BY <1>2
<1>. QED BY <1>4, <1>5, <1>6

(* The data of a full read are the first cells, and the rest comes after.     *)
LEMMA DataFirst ==
  ASSUME IInv, SInv, reader # "http"
  PROVE  LET t == ((<<>> \o buffer) \o wire) \o ToWrite IN
         /\ t \in Seq(Cell) /\ Len(data) \in Nat /\ Len(t) \in Nat
         /\ Len(Spelled) = Len(data) + Len(t)
         /\ \A i \in 1..Len(t) : t[i] = Spelled[Len(data) + i]
         /\ \A i \in 1..Len(data) : i \in 1..Len(Spelled) /\ Spelled[i] = data[i]
<1> DEFINE b == <<>> \o buffer
           t == (b \o wire) \o ToWrite
<1>1. data \in Seq(Cell) /\ buffer \in Seq(Cell) /\ wire \in Seq(Cell) /\ ToWrite \in Seq(Cell)
  BY Facts, SFacts
<1>2. b = buffer BY <1>1, ConcatEmptySeq
<1>3. Spelled = ((data \o buffer) \o wire) \o ToWrite BY DEF Spelled, Ahead
<1> HIDE DEF b
<1>4. buffer \o wire \in Seq(Cell) /\ data \o buffer \in Seq(Cell) BY <1>1, ConcatProperties
<1>5. t \in Seq(Cell) BY <1>1, <1>2, <1>4, ConcatProperties
<1>6. Spelled = data \o t
  <2>0. \A s, u, v \in Seq(Cell) : (s \o u) \o v = s \o (u \o v) BY ConcatAssociative
  <2>1. (data \o buffer) \o wire = data \o (buffer \o wire) BY <1>1, <2>0
  <2>2. (data \o (buffer \o wire)) \o ToWrite = data \o ((buffer \o wire) \o ToWrite)
    BY <1>1, <1>4, <2>0
  <2>. QED BY <1>2, <1>3, <2>1, <2>2
<1> HIDE DEF t
<1>7. Len(data) \in Nat /\ Len(t) \in Nat BY <1>1, <1>5, LenProperties
<1>8. /\ Len(Spelled) = Len(data) + Len(t)
      /\ \A i \in 1..(Len(data) + Len(t)) : Spelled[i] = IF i <= Len(data) THEN data[i] ELSE t[i - Len(data)]
  BY <1>1, <1>5, <1>6, ConcatProperties
<1>9. ASSUME NEW i \in 1..Len(t) PROVE t[i] = Spelled[Len(data) + i]
  <2>1. Len(data) + i \in 1..(Len(data) + Len(t)) /\ ~(Len(data) + i <= Len(data))
        /\ (Len(data) + i) - Len(data) = i
    BY <1>7
  <2>. QED BY <1>8, <2>1
<1>10. ASSUME NEW i \in 1..Len(data) PROVE i \in 1..Len(Spelled) /\ Spelled[i] = data[i]
  <2>1. i \in 1..(Len(data) + Len(t)) /\ i <= Len(data) BY <1>7
  <2>. QED BY <1>8, <2>1
<1>. QED BY <1>5, <1>7, <1>8, <1>9, <1>10 DEF t, b

(* A full read of a head, a length or a payload is what the writer wrote.     *)
LEMMA FullRead ==
  ASSUME IInv, SInv, Going, reader # "http", Len(data) = want,
         NEW P, NEW e, NEW W, NEW at, Layout(P, e, W, at)
  PROVE  /\ P # <<>> /\ P[1] \in Sent /\ 0 \in 0..Len(P) /\ 1 \in 0..Len(P) /\ 1 \in 1..Len(P)
         /\ e[0] \in Int /\ e[1] = e[0] + HeadLen(writer, P[1]) + Size(P[1])
         /\ reader = "head" => want = 1 /\ data[1] = CellOf(writer, P[1], 1)
         /\ reader \in {"word", "long"} => want = 1 /\ data[1] = LengthCell(Width(P[1]), Size(P[1]))
         /\ reader = "body" => data = P[1].cells
<1>1. /\ P \in Seq(Sent) /\ e \in EndsOf(P) /\ Len(P) \in Nat
      /\ Spells(writer, P, e, Spelled) /\ Start(P, e)
  BY LayoutFacts
<1>2. /\ Len(data) \in Nat /\ Len(data) <= Len(Spelled)
      /\ \A i \in 1..Len(data) : i \in 1..Len(Spelled) /\ Spelled[i] = data[i]
  BY DataFirst
<1>3. reader \in {"head", "word", "long", "body"} BY DEF Going, IInv, TypeOK
<1>4. reader # "body" => want = 1 BY <1>3 DEF IInv, Shape
<1>5. P # <<>>
  <2>1. SUFFICES ASSUME reader = "head" PROVE P # <<>> BY <1>1, <1>3 DEF Start
  <2>2. 1 <= Len(Spelled) BY <1>2, <1>4, <2>1
  <2>3. e[0] = 0 BY <1>1, <2>1 DEF Start
  <2>4. Len(Spelled) <= e[Len(P)] BY <1>1 DEF Spells
  <2>5. P = <<>> => Len(P) = 0 BY EmptySeq
  <2>6. Len(Spelled) \in Nat BY SFacts
  <2>. QED BY <2>2, <2>3, <2>4, <2>5, <2>6
<1>6. Len(P) \in Nat \ {0} BY <1>1, <1>5, EmptySeq
<1>7. 1 \in 1..Len(P) /\ 0 \in 0..Len(P) /\ 1 \in 0..Len(P) BY <1>6
<1>8. P[1] \in Sent BY <1>1, <1>7, ElementOfSeq
<1>9. Size(P[1]) \in Nat /\ HeadLen(writer, P[1]) \in {1, 2} BY <1>8, SentSize
<1>10. e[0] \in Int BY <1>1, <1>7 DEF EndsOf
<1>11. /\ e[1] = e[0] + FrameLen(writer, P[1])
       /\ \A i \in 1..FrameLen(writer, P[1]) :
            e[0] + i \in 1..Len(Spelled) => Spelled[e[0] + i] = CellOf(writer, P[1], i)
  <2>1. 1 - 1 = 0 OBVIOUS
  <2>. QED BY <1>1, <1>7, <2>1 DEF Spells, Laid, ReadsAs
<1>12. e[1] = e[0] + HeadLen(writer, P[1]) + Size(P[1])
  <2>1. \A x \in Int, h \in {1, 2}, n \in Nat : x + (h + n) = x + h + n OBVIOUS
  <2>. QED BY <1>9, <1>10, <1>11, <2>1 DEF FrameLen
<1>13. reader = "head" => want = 1 /\ data[1] = CellOf(writer, P[1], 1)
  <2>1. SUFFICES ASSUME reader = "head" PROVE data[1] = CellOf(writer, P[1], 1) BY <1>4
  <2>2. e[0] + 1 = 1 /\ 1 \in 1..Len(data) /\ 1 \in 1..FrameLen(writer, P[1])
    BY <1>1, <1>4, <1>9, <2>1 DEF Start, FrameLen
  <2>. QED BY <1>2, <1>11, <2>2
<1>14. reader \in {"word", "long"} => want = 1 /\ data[1] = LengthCell(Width(P[1]), Size(P[1]))
  <2>1. SUFFICES ASSUME reader \in {"word", "long"} PROVE data[1] = LengthCell(Width(P[1]), Size(P[1]))
    BY <1>4
  <2>2. e[0] + 2 = 1 /\ HeadLen(writer, P[1]) = 2 BY <1>1, <2>1 DEF Start
  <2>3. 1 \in 1..Len(data) /\ 2 \in 1..FrameLen(writer, P[1]) BY <1>4, <1>9, <2>1, <2>2 DEF FrameLen
  <2>4. Spelled[1] = CellOf(writer, P[1], 2) BY <1>2, <1>11, <2>2, <2>3
  <2>5. CellOf(writer, P[1], 2) = LengthCell(Width(P[1]), Size(P[1])) BY <2>2 DEF CellOf
  <2>. QED BY <1>2, <2>3, <2>4, <2>5
<1>15. reader = "body" => data = P[1].cells
  <2>1. SUFFICES ASSUME reader = "body" PROVE data = P[1].cells OBVIOUS
  <2> DEFINE h == HeadLen(writer, P[1])
             q == P[1].cells
  <2>2. e[0] = -h /\ want = Size(P[1]) BY <1>1, <2>1 DEF Start
  <2>3. data \in Seq(Cell) /\ q \in Seq(Cell) /\ Len(q) = Len(data)
    BY <1>8, <2>2, Facts DEF Sent, Size
  <2>4. ASSUME NEW i \in 1..Len(data) PROVE data[i] = q[i]
    <3>1. h + i \in 1..FrameLen(writer, P[1]) /\ e[0] + (h + i) = i /\ i \in Nat
      BY <1>2, <1>9, <2>2 DEF FrameLen
    <3>2. Spelled[i] = CellOf(writer, P[1], h + i) BY <1>2, <1>11, <3>1
    <3>3. h + i # 1 /\ ~(h + i <= h) /\ (h + i) - h = i BY <1>2, <1>9, <3>1
    <3>4. CellOf(writer, P[1], h + i) = q[i] BY <3>3 DEF CellOf
    <3>. QED BY <1>2, <3>2, <3>4
  <2>. QED BY <2>3, <2>4, SeqEqual
<1>. QED BY <1>5, <1>7, <1>8, <1>10, <1>12, <1>13, <1>14, <1>15

-----------------------------------------------------------------------------
(* Steps of the receive thread *)

(* Whatever became of a link that is no longer whole or no longer read, or    *)
(* closed without an end of stream.                                         *)
LEMMA GoneKeeps ==
  ASSUME SInv, Listed', ~Going', Http', AtEnd'
  PROVE  SInv'
BY DEF SInv

(* A step that moves cells from one place to the next.                       *)
LEMMA MovedKeeps ==
  ASSUME IInv, SInv, Going, Spelled' = Spelled, InFlight' = InFlight,
         UNCHANGED <<conn, writer, inside, parts>>,
         conn = "open" /\ out' # <<>> =>
           out # <<>> /\ Undelivered' = Undelivered /\ Len(Ahead') \in Nat /\ Len(Ahead) <= Len(Ahead'),
         \A P, e : Start(P, e) => Start(P, e)'
  PROVE  Lined'
<1>1. PICK P, e, W, at : Layout(P, e, W, at) BY DEF SInv, Lined
<1>2. /\ P \in Seq(Sent) /\ e \in EndsOf(P) /\ W \in Seq(Packet)
      /\ Spells(writer, P, e, Spelled) /\ Start(P, e)
      /\ Linked(P, Held, Idle) /\ Carries(P, W, at) /\ Ours(P)
      /\ Reaches(P, e, W, at) /\ Writes(P, e, W, at)
      /\ \A k \in 0..Len(P) : e[k] \in Int
      /\ \A i \in 1..Len(W) : at[i] \in 1..Len(P) /\ at[i] \in 0..Len(P)
  BY <1>1, LayoutFacts
<1>3. Reaches(P, e, W, at)' BY <1>2 DEF Reaches
<1>4. Writes(P, e, W, at)'
  <2>1. SUFFICES ASSUME conn = "open", out' # <<>>, NEW i \in 1..Len(W)
                 PROVE IF Undelivered' /\ i = Len(W) THEN at[i] = Len(P) ELSE e[at[i]] <= Len(Ahead')
    BY DEF Writes
  <2>2. out # <<>> /\ Undelivered' = Undelivered /\ Len(Ahead') \in Nat /\ Len(Ahead) <= Len(Ahead')
    BY <2>1
  <2>3. IF Undelivered /\ i = Len(W) THEN at[i] = Len(P) ELSE e[at[i]] <= Len(Ahead)
    BY <1>2, <2>1, <2>2 DEF Writes
  <2>4. e[at[i]] \in Int /\ Len(Ahead) \in Nat BY <1>2, SFacts
  <2>5. e[at[i]] <= Len(Ahead) => e[at[i]] <= Len(Ahead') BY <2>2, <2>4
  <2>. QED BY <2>2, <2>3, <2>5
<1>5. Start(P, e)' BY <1>2
<1>6. Spells(writer', P, e, Spelled') BY <1>2
<1>7. Held' = Held BY DEF Held
<1>8. Ours(P)' BY <1>2 DEF Ours
<1>9. Layout(P, e, W, at)' BY <1>2, <1>3, <1>4, <1>5, <1>6, <1>7, <1>8 DEF Layout
<1>. QED BY <1>9 DEF Lined

(* What was read is used.                                                   *)
LEMMA Used ==
  ASSUME IInv, SInv, Going, reader # "http", Len(data) = want, data' = <<>>, reader' # "http",
         UNCHANGED <<writer, buffer, wire, out, conn>>,
         NEW P \in Seq(Sent), NEW e \in EndsOf(P), Spells(writer, P, e, Spelled)
  PROVE  LET f == [k \in 0..Len(P) |-> e[k] - want] IN
         /\ f \in EndsOf(P) /\ Spells(writer', P, f, Spelled')
         /\ Spelled' \in Seq(Cell) /\ Len(Spelled) = want + Len(Spelled')
         /\ Len(Ahead) = want + Len(Ahead') /\ Len(Spelled') \in Nat /\ Len(Ahead') \in Nat
<1> DEFINE b == <<>> \o buffer
           t == (b \o wire) \o ToWrite
           f == [k \in 0..Len(P) |-> e[k] - want]
<1>1. /\ t \in Seq(Cell) /\ Len(data) \in Nat /\ Len(Spelled) = Len(data) + Len(t)
      /\ \A i \in 1..Len(t) : t[i] = Spelled[Len(data) + i]
  BY DataFirst
<1>2. Spelled' = t /\ Ahead' = b \o wire
  <2>1. ToWrite' = ToWrite BY DEF ToWrite
  <2>. QED BY <2>1 DEF Spelled, Ahead
<1>3. Spelled \in Seq(Cell) BY SFacts
<1>4. want \in Nat /\ Len(Spelled) = want + Len(t) /\ \A i \in 1..Len(t) : t[i] = Spelled[want + i]
  BY <1>1
<1>5. b \o wire \in Seq(Cell) /\ ToWrite \in Seq(Cell)
  <2>1. buffer \in Seq(Cell) /\ wire \in Seq(Cell) /\ <<>> \in Seq(Cell) /\ ToWrite \in Seq(Cell)
    BY Facts, SFacts
  <2>2. b \in Seq(Cell) BY <2>1, ConcatProperties
  <2> HIDE DEF b
  <2>. QED BY <2>1, <2>2, ConcatProperties
<1> HIDE DEF b
<1>6. Len(t) = Len(b \o wire) + Len(ToWrite) /\ Len(b \o wire) \in Nat /\ Len(ToWrite) \in Nat
  BY <1>5, ConcatProperties, LenProperties
<1>7. Len(Ahead) = want + Len(Ahead')
  <2>1. Len(Spelled) = Len(Ahead) + Len(ToWrite) /\ Len(Ahead) \in Nat BY SFacts
  <2>2. Len(Ahead') = Len(b \o wire) BY <1>2
  <2> HIDE DEF t
  <2>. QED BY <1>4, <1>6, <2>1, <2>2
<1> HIDE DEF t
<1>8. f \in EndsOf(P) /\ Spells(writer, P, f, t) BY <1>1, <1>3, <1>4, SpellsRest
<1>. QED BY <1>1, <1>2, <1>4, <1>6, <1>7, <1>8

(* The same frame goes on, with its next part.                               *)
LEMMA NextPartKeeps ==
  ASSUME IInv, SInv, Listed', Going, Going', reader # "http", Len(data) = want, data' = <<>>,
         reader' \notin {"http", "eof"},
         UNCHANGED <<writer, buffer, wire, out, conn, queue, drained, inside, parts>>,
         \A P, e, W, at : Layout(P, e, W, at) =>
           \A f \in EndsOf(P) : f[0] = e[0] - want => Start(P, f)'
  PROVE  SInv'
<1>1. PICK P, e, W, at : Layout(P, e, W, at) BY DEF SInv, Lined
<1>2. /\ P \in Seq(Sent) /\ e \in EndsOf(P) /\ W \in Seq(Packet)
      /\ Spells(writer, P, e, Spelled)
      /\ Linked(P, Held, Idle) /\ Carries(P, W, at) /\ Ours(P)
      /\ Reaches(P, e, W, at) /\ Writes(P, e, W, at)
      /\ \A i \in 1..Len(W) : at[i] \in 1..Len(P) /\ at[i] \in 0..Len(P)
      /\ Len(P) \in 0..Len(P) /\ 0 \in 0..Len(P)
  BY <1>1, LayoutFacts
<1>3. PICK f \in EndsOf(P) : f = [k \in 0..Len(P) |-> e[k] - want]
  BY <1>2, Used
<1>4. /\ Spells(writer', P, f, Spelled') /\ Spelled' \in Seq(Cell)
      /\ Len(Spelled) = want + Len(Spelled') /\ Len(Ahead) = want + Len(Ahead')
      /\ Len(Spelled') \in Nat /\ Len(Ahead') \in Nat /\ want \in Nat
  BY <1>2, <1>3, Used, Facts
<1>5. \A k \in 0..Len(P) : e[k] \in Int /\ f[k] = e[k] - want BY <1>2, <1>3 DEF EndsOf
<1>6. Start(P, f)' BY <1>1, <1>2, <1>5
<1>7. InFlight' = InFlight /\ Undelivered' = Undelivered BY DEF InFlight, Undelivered
<1>8. \A k \in 0..Len(P) :
        /\ Len(Spelled) < e[k] <=> Len(Spelled') < f[k]
        /\ e[k] <= Len(Spelled) <=> f[k] <= Len(Spelled')
        /\ e[k] = Len(Spelled) <=> f[k] = Len(Spelled')
        /\ e[k] <= Len(Ahead) <=> f[k] <= Len(Ahead')
  <2>1. \A x \in Int, m \in Nat, s \in Nat, t \in Nat :
          t = m + s => /\ t < x <=> s < x - m
                       /\ x <= t <=> x - m <= s
                       /\ x = t <=> x - m = s
    OBVIOUS
  <2>2. ASSUME NEW k \in 0..Len(P)
        PROVE /\ Len(Spelled) < e[k] <=> Len(Spelled') < f[k]
              /\ e[k] <= Len(Spelled) <=> f[k] <= Len(Spelled')
              /\ e[k] = Len(Spelled) <=> f[k] = Len(Spelled')
              /\ e[k] <= Len(Ahead) <=> f[k] <= Len(Ahead')
    <3>1. e[k] \in Int /\ f[k] = e[k] - want /\ Len(Spelled) \in Nat /\ Len(Ahead) \in Nat
      BY <1>5, SFacts
    <3>2. Len(Spelled) < e[k] <=> Len(Spelled') < e[k] - want BY <1>4, <2>1, <3>1
    <3>4. e[k] <= Len(Spelled) <=> e[k] - want <= Len(Spelled') BY <1>4, <2>1, <3>1
    <3>5. e[k] = Len(Spelled) <=> e[k] - want = Len(Spelled') BY <1>4, <2>1, <3>1
    <3>3. e[k] <= Len(Ahead) <=> e[k] - want <= Len(Ahead')
      BY <1>4, <2>1, <3>1
    <3>. QED BY <3>1, <3>2, <3>3, <3>4, <3>5
  <2>. QED BY <2>2
<1>9. Reaches(P, f, W, at)'
  <2>1. \A i \in 1..Len(InFlight) : i \in 1..Len(W) BY <1>1, InFlightLength
  <2>2. W # <<>> => Len(W) \in 1..Len(W) BY <1>1, InFlightLength
  <2>3. \/ InFlight = W
        \/ conn # "open" /\ W # <<>> /\ InFlight = Front(W) /\ Len(Spelled') < f[at[Len(W)]]
    BY <1>2, <1>8, <2>2 DEF Reaches
  <2>4. conn # "reset" => \A i \in 1..Len(InFlight) : f[at[i]] <= Len(Spelled')
    BY <1>2, <1>8, <2>1 DEF Reaches
  <2>5. conn = "open" => Len(Spelled') = f[Len(P)] BY <1>2, <1>8 DEF Reaches
  <2>. QED BY <1>7, <2>3, <2>4, <2>5 DEF Reaches
<1>10. Writes(P, f, W, at)' BY <1>2, <1>7, <1>8 DEF Writes
<1>11. Held' = Held /\ Ours(P)' BY <1>2 DEF Held, Ours
<1>12. Layout(P, f, W, at)' BY <1>2, <1>4, <1>6, <1>9, <1>10, <1>11 DEF Layout
<1>13. Lined' BY <1>12 DEF Lined
<1>. QED BY <1>13 DEF SInv, Http, AtEnd

(* The thread reads the HTTP head, and what it read past its end is kept.  *)
LEMMA ReadHeadKeeps ==
  ASSUME IInv, SInv, Listed', ReadHead
  PROVE  SInv'
<1>1. /\ reader = "http" /\ wire # <<>> /\ wire' = <<>> /\ buffer' = Tail(wire)
      /\ reader' = "head" /\ data' = <<>> /\ frame' = Fresh
      /\ UNCHANGED <<writer, out, conn, queue, drained, broken, inside, parts>>
  BY DEF ReadHead, NextHead, Goto, sending, Rest
<1>2. CASE ~Going'
  <2>1. Http' /\ AtEnd' BY <1>1 DEF Http, AtEnd, SInv
  <2>. QED BY <1>1, <1>2, <2>1, GoneKeeps
<1>3. CASE Going'
  <2>1. Going BY <1>1, <1>3 DEF Going, Whole, Ended
  <2>2. Tail(wire) \in Seq(Cell) BY <1>1, Facts, HeadTailProperties
  <2>3. Ahead' = Ahead
    <3>1. Ahead = Tail(wire) BY <1>1 DEF Ahead
    <3>2. Ahead' = (<<>> \o Tail(wire)) \o <<>> BY <1>1 DEF Ahead
    <3>. QED BY <2>2, <3>1, <3>2, ConcatEmptySeq
  <2>4. Spelled' = Spelled BY <1>1, <2>3 DEF Spelled, ToWrite
  <2>5. InFlight' = InFlight /\ Undelivered' = Undelivered BY <1>1 DEF InFlight, Undelivered
  <2>6. \A P, e : Start(P, e) => Start(P, e)' BY <1>1 DEF Start
  <2>7. Len(Ahead) \in Nat BY SFacts
  <2>8. Lined' BY <1>1, <2>1, <2>3, <2>4, <2>5, <2>6, <2>7, MovedKeeps
  <2>. QED BY <1>1, <2>8 DEF SInv, Http, AtEnd
<1>. QED BY <1>2, <1>3

(* A round of read_exact moves cells and loses none.                       *)
LEMMA ReadSomeKeeps ==
  ASSUME IInv, SInv, Listed', ReadSome
  PROVE  SInv'
<1>1. /\ reader # "http" /\ reader \notin Ended
      /\ UNCHANGED <<writer, out, conn, queue, drained, broken, inside, parts, frame, reader, want>>
  BY DEF ReadSome, sending
<1>2. CASE ~Going'
  <2>1. Http' /\ AtEnd' BY <1>1 DEF Http, AtEnd, SInv, Ended
  <2>. QED BY <1>1, <1>2, <2>1, GoneKeeps
<1>3. CASE Going'
  <2>1. Going BY <1>1, <1>3 DEF Going, Whole
  <2>2. data \in Seq(Cell) /\ buffer \in Seq(Cell) /\ wire \in Seq(Cell) /\ <<>> \in Seq(Cell)
        /\ want \in Nat /\ Len(data) \in Nat /\ Len(data) < want
    BY Facts DEF ReadSome
  <2>3. \A s \in Seq(Cell) : From(s) \in 0..Len(s)
    <3> SUFFICES ASSUME NEW s \in Seq(Cell) PROVE From(s) \in 0..Len(s) OBVIOUS
    <3>1. Len(s) \in Nat BY LenProperties
    <3>. QED BY <2>2, <3>1 DEF From, Least, Missing
  <2>4. \A s, t, u \in Seq(Cell) : (s \o t) \o u = s \o (t \o u) BY ConcatAssociative
  <2>5. \A s \in Seq(Cell) : s \o <<>> = s BY ConcatEmptySeq
  <2>6. ASSUME NEW s \in Seq(Cell)
        PROVE LET k == From(s) IN
              /\ SubSeq(s, 1, k) \in Seq(Cell) /\ SubSeq(s, k + 1, Len(s)) \in Seq(Cell)
              /\ SubSeq(s, 1, k) \o SubSeq(s, k + 1, Len(s)) = s
    <3>1. From(s) \in 0..Len(s) /\ Len(s) \in Nat BY <2>3, LenProperties
    <3>2. From(s) \in Nat /\ From(s) <= Len(s) BY <3>1
    <3>. QED BY <3>1, <3>2, Piece, SplitSeq
  <2>7. Ahead' = Ahead
    <3>1. Ahead = (data \o buffer) \o wire /\ Ahead' = (data' \o buffer') \o wire' BY <1>1 DEF Ahead
    <3>2. CASE buffer # <<>>
      <4> DEFINE a == SubSeq(buffer, 1, From(buffer))
                 b == SubSeq(buffer, From(buffer) + 1, Len(buffer))
      <4>1. data' = data \o a /\ buffer' = b /\ wire' = wire BY <3>2 DEF ReadSome, Taken, Left
      <4>2. a \in Seq(Cell) /\ b \in Seq(Cell) /\ a \o b = buffer BY <2>2, <2>6
      <4> HIDE DEF a, b
      <4>0. data \in Seq(Cell) /\ a \in Seq(Cell) /\ b \in Seq(Cell) BY <2>2, <4>2
      <4>3. (data \o a) \o b = data \o (a \o b) BY <2>4, <4>0
      <4>4. data' \o buffer' = data \o buffer BY <4>1, <4>2, <4>3
      <4>. QED BY <3>1, <4>1, <4>4
    <3>3. CASE buffer = <<>>
      <4> DEFINE a == SubSeq(wire, 1, From(wire))
                 b == SubSeq(wire, From(wire) + 1, Len(wire))
      <4>1. data' = data \o a /\ wire' = b /\ buffer' = <<>> BY <3>3 DEF ReadSome, Taken, Left
      <4>2. a \in Seq(Cell) /\ b \in Seq(Cell) /\ a \o b = wire BY <2>2, <2>6
      <4> HIDE DEF a, b
      <4>3. data \o a \in Seq(Cell) BY <2>2, <4>2, ConcatProperties
      <4>4. data' \o buffer' = data \o a /\ data \o buffer = data BY <2>2, <2>5, <3>3, <4>1, <4>3
      <4>0. data \in Seq(Cell) /\ a \in Seq(Cell) /\ b \in Seq(Cell) BY <2>2, <4>2
      <4>5. (data \o a) \o b = data \o (a \o b) BY <2>4, <4>0
      <4>. QED BY <3>1, <4>1, <4>2, <4>4, <4>5
    <3>. QED BY <3>2, <3>3
  <2>8. Spelled' = Spelled BY <1>1, <2>7 DEF Spelled, ToWrite
  <2>9. InFlight' = InFlight /\ Undelivered' = Undelivered BY <1>1 DEF InFlight, Undelivered
  <2>10. \A P, e : Start(P, e) => Start(P, e)' BY <1>1 DEF Start
  <2>11. Len(Ahead) \in Nat BY SFacts
  <2>12. Lined' BY <1>1, <2>1, <2>7, <2>8, <2>9, <2>10, <2>11, MovedKeeps
  <2>. QED BY <1>1, <2>12 DEF SInv, Http, AtEnd, Ended
<1>. QED BY <1>2, <1>3


(* A head says what was written, and so does a length.                       *)
LEMMA HeadSaid ==
  ASSUME IInv, SInv, Going, Reads("head"), NEW h \in Said("head", Headers),
         NEW P, NEW e, NEW W, NEW at, Layout(P, e, W, at)
  PROVE  /\ P # <<>> /\ P[1] \in Sent /\ 1 \in 1..Len(P) /\ e[0] = 0 /\ want = 1
         /\ h.frame = Kind(P[1]) /\ h.len = Code(writer, P[1])
<1>1. reader = "head" /\ Len(data) = want BY DEF Reads
<1>2. P # <<>> /\ P[1] \in Sent /\ 1 \in 1..Len(P) /\ want = 1 /\ data[1] = CellOf(writer, P[1], 1)
  <2>1. reader # "http" BY <1>1
  <2>. QED BY <1>1, <2>1, FullRead
<1>3. data[1] = HeadCell(P[1].final, P[1].op, Code(writer, P[1])) BY <1>2 DEF CellOf
<1>4. data[1].kind = "head" /\ data[1].is = [frame |-> Kind(P[1]), len |-> Code(writer, P[1])]
  BY <1>3 DEF HeadCell, Kind
<1>5. h = data[1].is BY <1>4 DEF Said
<1>6. e[0] = 0 BY <1>1, LayoutFacts DEF Start
<1>. QED BY <1>2, <1>4, <1>5, <1>6

(* A length that follows the head is that of the first frame.              *)
LEMMA LengthSaid ==
  ASSUME IInv, SInv, Going, NEW kind \in {"word", "long"}, Reads(kind), NEW len \in Said(kind, Lengths),
         NEW P, NEW e, NEW W, NEW at, Layout(P, e, W, at)
  PROVE  /\ P # <<>> /\ e[0] = -1 /\ HeadLen(writer, P[1]) = 2 /\ want = 1
         /\ len = Size(P[1]) /\ frame = Kind(P[1])
<1>1. reader = kind /\ Len(data) = want BY DEF Reads
<1>2. /\ P # <<>> /\ e[0] = -1 /\ HeadLen(writer, P[1]) = 2 /\ kind = Width(P[1])
      /\ frame = Kind(P[1])
  BY <1>1, LayoutFacts DEF Start
<1>3. want = 1 /\ data[1] = LengthCell(kind, Size(P[1]))
  <2>1. reader # "http" /\ reader \in {"word", "long"} BY <1>1
  <2>. QED BY <1>1, <1>2, <2>1, FullRead
<1>4. len = Size(P[1]) BY <1>3 DEF Said, LengthCell
<1>. QED BY <1>2, <1>3, <1>4

(* The length is known: the payload comes next, unless it is refused.         *)
LEMMA BodyGoesOn ==
  ASSUME IInv, SInv, Listed', Going, reader # "http", Len(data) = want, NEW g, NEW len, Body(g, len),
         UNCHANGED <<writer, sending, queue, got, broken>>,
         \A P, e, W, at : Layout(P, e, W, at) =>
           P # <<>> /\ len = Size(P[1]) /\ g = Kind(P[1]) /\ e[0] - want = -HeadLen(writer, P[1])
  PROVE  SInv'
<1>1. CASE Ends("rejected")
  <2>1. reader' = "rejected" BY <1>1 DEF Ends, Goto
  <2>2. ~Going' /\ Http' /\ AtEnd' BY <2>1 DEF Going, Ended, Http, AtEnd
  <2>. QED BY <2>2, GoneKeeps
<1>2. CASE ~Ends("rejected")
  <2>1. /\ reader' = "body" /\ want' = len /\ data' = <<>> /\ frame' = g
        /\ UNCHANGED <<inside, parts, buffer, wire, writer, out, conn, queue, drained, broken>>
    BY <1>2 DEF Body, Goto, sending
  <2>2. Going' BY <2>1 DEF Going, Ended, Whole
  <2>3. ASSUME NEW P, NEW e, NEW W, NEW at, Layout(P, e, W, at),
               NEW f \in EndsOf(P), f[0] = e[0] - want
        PROVE Start(P, f)'
    <3>1. P # <<>> /\ len = Size(P[1]) /\ g = Kind(P[1]) /\ f[0] = -HeadLen(writer, P[1]) BY <2>3
    <3>. QED BY <2>1, <3>1 DEF Start
  <2>4. reader' \notin {"http", "eof"} BY <2>1
  <2>. QED BY <2>1, <2>2, <2>3, <2>4, NextPartKeeps
<1>. QED BY <1>1, <1>2

(* The checks of a length let the first frame go on, or end the thread.    *)
LEMMA LengthKeeps ==
  ASSUME IInv, SInv, Listed', TcpLength \/ WssLength \/ WordLength \/ LongLength
  PROVE  SInv'
<1>1. /\ UNCHANGED <<writer, sending, queue, got>> /\ broken \subseteq broken'
      /\ Len(data) = want /\ reader \in {"head", "word", "long"} /\ reader # "http"
      /\ reader' \in {"rejected", "word", "long", "body"}
  BY DEF TcpLength, WssLength, WordLength, LongLength, Reads, Body, Length, Ends, Goto
<1>2. Http' /\ AtEnd' BY <1>1 DEF SInv, Http, AtEnd
<1>3. CASE ~Going \/ ~Going'
  <2>1. ~Going' BY <1>1, <1>3 DEF Going, Whole, Ended
  <2>. QED BY <1>1, <1>2, <2>1, GoneKeeps
<1>4. CASE Going /\ Going'
  <2>2. CASE TcpLength
    <3>1. writer = "tcp" /\ Reads("head") BY <2>2 DEF TcpLength
    <3>2. PICK h \in Said("head", Headers) : Body(Fresh, h.len) BY <2>2 DEF TcpLength
    <3>4. UNCHANGED <<writer, sending, queue, got, broken>> BY <2>2 DEF TcpLength
    <3>5. ASSUME NEW P, NEW e, NEW W, NEW at, Layout(P, e, W, at)
          PROVE P # <<>> /\ h.len = Size(P[1]) /\ Fresh = Kind(P[1]) /\ e[0] - want = -HeadLen(writer, P[1])
      <4>1. P # <<>> /\ e[0] = 0 /\ want = 1 /\ h.len = Code(writer, P[1]) /\ 1 \in 1..Len(P)
        BY <1>4, <3>1, <3>5, HeadSaid
      <4>2. Plain(P[1]) BY <3>1, <3>5, <4>1, LayoutFacts DEF Ours
      <4>3. Fresh = Kind(P[1]) BY <4>2 DEF Plain, Kind, Fresh
      <4>4. HeadLen(writer, P[1]) = 1 BY <3>1 DEF HeadLen
      <4>5. e[0] - want = -HeadLen(writer, P[1]) BY <4>1, <4>4
      <4>. QED BY <4>1, <4>3, <4>4, <4>5 DEF Code
    <3>. QED BY <1>1, <1>4, <3>2, <3>4, <3>5, BodyGoesOn
  <2>3. CASE WssLength
    <3>1. writer # "tcp" /\ Reads("head") BY <2>3 DEF WssLength
    <3>2. PICK h \in Said("head", Headers) :
            \/ h.len = Short /\ Length("word", h.frame)
            \/ h.len = Long /\ Length("long", h.frame)
            \/ h.len \notin {Short, Long} /\ Body(h.frame, h.len)
      BY <2>3 DEF WssLength
    <3>4. UNCHANGED <<writer, sending, queue, got, broken>> BY <2>3 DEF WssLength
    <3>5. Short \in Nat /\ Word \in Nat /\ Long = Short + 1 BY LinkAssumption DEF Long
    <3>7. ASSUME NEW P, NEW e, NEW W, NEW at, Layout(P, e, W, at)
          PROVE /\ P # <<>> /\ e[0] = 0 /\ want = 1 /\ h.len = Code(writer, P[1])
                /\ h.frame = Kind(P[1]) /\ Size(P[1]) \in Nat /\ HeadLen(writer, P[1]) \in {1, 2}
                /\ HeadLen(writer, P[1]) = 1 => Size(P[1]) < Short
      <4>1. /\ P # <<>> /\ P[1] \in Sent /\ e[0] = 0 /\ want = 1 /\ h.len = Code(writer, P[1])
            /\ h.frame = Kind(P[1])
        BY <1>4, <3>1, <3>7, HeadSaid
      <4>2. Size(P[1]) \in Nat /\ HeadLen(writer, P[1]) \in {1, 2} BY <4>1, SentSize
      <4>. QED BY <3>1, <4>1, <4>2 DEF HeadLen
    <3>8. CASE h.len \notin {Short, Long} /\ Body(h.frame, h.len)
      <4>1. ASSUME NEW P, NEW e, NEW W, NEW at, Layout(P, e, W, at)
            PROVE /\ P # <<>> /\ h.len = Size(P[1]) /\ h.frame = Kind(P[1])
                  /\ e[0] - want = -HeadLen(writer, P[1])
        <5>1. /\ P # <<>> /\ e[0] = 0 /\ want = 1 /\ h.len = Code(writer, P[1])
              /\ HeadLen(writer, P[1]) \in {1, 2} /\ h.frame = Kind(P[1])
          BY <3>7, <4>1
        <5>2. HeadLen(writer, P[1]) = 1 /\ h.len = Size(P[1]) BY <3>8, <5>1 DEF Code
        <5>. QED BY <5>1, <5>2
      <4>. QED BY <1>1, <1>4, <3>4, <3>8, <4>1, BodyGoesOn
    <3>9. ASSUME NEW kind \in {"word", "long"}, Length(kind, h.frame),
                 kind = "word" => h.len = Short, kind = "long" => h.len = Long
          PROVE SInv'
      <4>1. /\ reader' = kind /\ data' = <<>> /\ frame' = h.frame
            /\ UNCHANGED <<inside, parts, buffer, wire, writer, out, conn, queue, drained, broken>>
        BY <3>4, <3>9 DEF Length, Goto, sending
      <4>2. ASSUME NEW P, NEW e, NEW W, NEW at, Layout(P, e, W, at),
                   NEW f \in EndsOf(P), f[0] = e[0] - want
            PROVE Start(P, f)'
        <5>1. /\ P # <<>> /\ e[0] = 0 /\ want = 1 /\ h.len = Code(writer, P[1])
              /\ h.frame = Kind(P[1]) /\ Size(P[1]) \in Nat /\ HeadLen(writer, P[1]) \in {1, 2}
              /\ HeadLen(writer, P[1]) = 1 => Size(P[1]) < Short
          BY <3>7, <4>2
        <5>2. f[0] = -1 BY <4>2, <5>1
        <5>3. h.len \in {Short, Long} BY <3>9
        <5>4. HeadLen(writer, P[1]) = 2
          <6>1. HeadLen(writer, P[1]) = 1 => h.len = Size(P[1]) BY <5>1 DEF Code
          <6>. QED BY <3>5, <5>1, <5>3, <6>1
        <5>5. kind = Width(P[1])
          <6>1. h.len = IF Size(P[1]) < Word THEN Short ELSE Long BY <5>1, <5>4 DEF Code
          <6>2. Short # Long BY <3>5
          <6>3. Size(P[1]) < Word => kind = "word" BY <3>9, <6>1, <6>2
          <6>4. ~(Size(P[1]) < Word) => kind = "long" BY <3>9, <6>1, <6>2
          <6>. QED BY <6>3, <6>4 DEF Width
        <5>. QED BY <4>1, <5>1, <5>2, <5>4, <5>5 DEF Start
      <4>3. reader' \notin {"http", "eof"} BY <4>1
      <4>. QED BY <1>1, <1>4, <4>1, <4>2, <4>3, NextPartKeeps
    <3>10. CASE h.len = Short /\ Length("word", h.frame) BY <3>9, <3>10
    <3>11. CASE h.len = Long /\ Length("long", h.frame) BY <3>9, <3>11
    <3>. QED BY <3>2, <3>8, <3>10, <3>11
  <2>4. CASE WordLength \/ LongLength
    <3>1. PICK kind \in {"word", "long"} : Reads(kind) /\ \E len \in Said(kind, Lengths) :
            Body(frame, len) /\ UNCHANGED broken
      <4>1. "misread" \notin broken' BY <1>4 DEF Going, Whole
      <4>. QED BY <2>4, <4>1 DEF WordLength, LongLength
    <3>2. PICK len \in Said(kind, Lengths) : Body(frame, len) /\ UNCHANGED broken BY <3>1
    <3>4. ASSUME NEW P, NEW e, NEW W, NEW at, Layout(P, e, W, at)
          PROVE P # <<>> /\ len = Size(P[1]) /\ frame = Kind(P[1]) /\ e[0] - want = -HeadLen(writer, P[1])
      <4>1. /\ P # <<>> /\ e[0] = -1 /\ HeadLen(writer, P[1]) = 2 /\ want = 1 /\ len = Size(P[1])
            /\ frame = Kind(P[1])
        BY <1>4, <3>1, <3>4, LengthSaid
      <4>. QED BY <4>1
    <3>. QED BY <1>1, <1>4, <3>2, <3>4, BodyGoesOn
  <2>. QED BY <2>2, <2>3, <2>4
<1>. QED BY <1>3, <1>4

-----------------------------------------------------------------------------
(* A frame is used *)

(* A payload that is all read is that of the first frame.                    *)
LEMMA FrameFacts ==
  ASSUME IInv, SInv, Going, Reads("body"), NEW P, NEW e, NEW W, NEW at, Layout(P, e, W, at)
  PROVE  /\ P # <<>> /\ P[1] \in Sent /\ 1 \in 1..Len(P) /\ 1 \in 0..Len(P) /\ e[1] = want
         /\ reader = "body" /\ Len(data) = want /\ data = P[1].cells /\ frame = Kind(P[1])
         /\ Held = P[1].before /\ want \in Nat /\ want <= Len(Spelled)
<1>1. reader = "body" /\ reader # "http" /\ Len(data) = want BY DEF Reads
<1>2. /\ P # <<>> /\ P[1] \in Sent /\ 1 \in 0..Len(P) /\ 1 \in 1..Len(P) /\ data = P[1].cells
      /\ e[1] = e[0] + HeadLen(writer, P[1]) + Size(P[1])
  BY <1>1, FullRead
<1>3. Size(P[1]) \in Nat /\ HeadLen(writer, P[1]) \in {1, 2} BY <1>2, SentSize
<1>4. e[0] = -HeadLen(writer, P[1]) /\ want = Size(P[1]) /\ frame = Kind(P[1])
  BY <1>1, LayoutFacts DEF Start
<1>5. e[1] = want BY <1>2, <1>3, <1>4
<1>6. Held = P[1].before BY <1>2, LayoutFacts DEF Linked
<1>7. want \in Nat /\ want <= Len(Spelled)
  <2>1. \A m, n, l \in Nat : l = m + n => m <= l OBVIOUS
  <2>2. /\ Len(data) \in Nat /\ Len(((<<>> \o buffer) \o wire) \o ToWrite) \in Nat
        /\ Len(Spelled) = Len(data) + Len(((<<>> \o buffer) \o wire) \o ToWrite)
    BY <1>1, DataFirst
  <2>3. Len(Spelled) \in Nat BY SFacts
  <2>. QED BY <1>1, <2>1, <2>2, <2>3
<1>. QED BY <1>1, <1>2, <1>4, <1>5, <1>6, <1>7

(* The frame that completes a message completes the first packet under way.   *)
LEMMA Delivers ==
  ASSUME IInv, SInv, Going, Reads("body"), NEW P, NEW e, NEW W, NEW at, Layout(P, e, W, at),
         Completes(P[1])
  PROVE  /\ W # <<>> /\ queue # <<>> /\ InFlight # <<>> /\ parts \o data = PayloadOf(queue[1])
         /\ InFlight # W => Len(W) > 1
<1>1. /\ P \in Seq(Sent) /\ P # <<>> /\ e[1] = want /\ want <= Len(Spelled) /\ want \in Nat
      /\ data = P[1].cells /\ parts = P[1].before.parts
  BY FrameFacts, LayoutFacts DEF Held
<1>2. W \in Seq(Packet) /\ Carries(P, W, at) /\ Reaches(P, e, W, at) BY LayoutFacts
<1>3. W # <<>> /\ Len(W) \in Nat \ {0} /\ at[1] = 1 /\ Message(P[1]) = PayloadOf(W[1])
  BY <1>1, <1>2, CarriesRest
<1>4. parts \o data = PayloadOf(W[1]) BY <1>1, <1>3 DEF Message
<1>5. InFlight # W => Len(W) > 1 /\ InFlight = Front(W)
  <2>1. SUFFICES ASSUME InFlight # W PROVE Len(W) > 1 /\ InFlight = Front(W) OBVIOUS
  <2>2. InFlight = Front(W) /\ Len(Spelled) < e[at[Len(W)]] BY <1>2, <2>1 DEF Reaches
  <2>3. Len(W) # 1
    <3>1. SUFFICES ASSUME Len(W) = 1 PROVE FALSE OBVIOUS
    <3>2. Len(Spelled) < want BY <1>1, <1>3, <2>2, <3>1
    <3>3. Len(Spelled) \in Nat BY SFacts
    <3>. QED BY <1>1, <3>2, <3>3
  <2>4. \A n \in Nat \ {0} : n # 1 => n > 1 OBVIOUS
  <2>. QED BY <1>3, <2>2, <2>3, <2>4
<1>6. InFlight # <<>> /\ InFlight[1] = W[1]
  <2>1. CASE InFlight = W BY <1>3, <2>1
  <2>2. CASE InFlight # W
    <3>1. Len(W) > 1 /\ InFlight = Front(W) BY <1>5, <2>2
    <3>2. Front(W) # <<>> BY <1>2, <3>1, FrontAndTail
    <3>3. 1 \in 1..(Len(W) - 1) BY <1>3, <3>1
    <3>4. Front(W)[1] = W[1] BY <1>2, <1>3, <3>3, FrontOf
    <3>. QED BY <3>1, <3>2, <3>4
  <2>. QED BY <2>1, <2>2
<1>7. queue # <<>> /\ queue[1] = W[1]
  <2>1. CASE InFlight = queue BY <1>6, <2>1
  <2>2. CASE InFlight # queue
    <3>1. queue # <<>> /\ InFlight = Front(queue) BY <2>2 DEF InFlight, Undelivered
    <3>2. queue \in Seq(Packet) BY SFacts
    <3>3. /\ Front(queue) \in Seq(Packet) /\ Len(queue) \in Nat \ {0}
          /\ Len(Front(queue)) = Len(queue) - 1
          /\ \A i \in 1..(Len(queue) - 1) : Front(queue)[i] = queue[i]
      BY <3>1, <3>2, FrontOf
    <3>4. Len(Front(queue)) # 0 BY <1>6, <3>1, <3>3, EmptySeq
    <3>5. 1 \in 1..(Len(queue) - 1) BY <3>3, <3>4
    <3>. QED BY <1>6, <3>1, <3>3, <3>5
  <2>. QED BY <2>1, <2>2
<1>. QED BY <1>3, <1>4, <1>5, <1>6, <1>7

(* Without its first packet, what is under way is without its first packet.   *)
LEMMA FlightPops ==
  ASSUME SInv, queue # <<>>, InFlight # <<>>, queue' = Tail(queue), UNCHANGED <<conn, out, drained>>
  PROVE  /\ InFlight' = Tail(InFlight)
         /\ Tail(queue) # <<>> => Undelivered' = Undelivered
<1>1. queue \in Seq(Packet) /\ Len(queue) \in Nat \ {0} BY EmptySeq DEF SInv, Listed
<1>2. Tail(queue) \in Seq(Packet) /\ Len(Tail(queue)) = Len(queue) - 1 BY <1>1, HeadTailProperties
<1>3. Len(queue) > 1 => /\ Tail(queue) # <<>> /\ Last(Tail(queue)) = Last(queue)
                        /\ Front(Tail(queue)) = Tail(Front(queue))
  BY <1>1, FrontAndTail
<1>4. Len(queue) = 1 => Tail(queue) = <<>> BY <1>2, EmptySeq
<1>5. Tail(queue) # <<>> => Undelivered' = Undelivered
  <2>1. SUFFICES ASSUME Tail(queue) # <<>> PROVE Undelivered' = Undelivered OBVIOUS
  <2>2. \A n \in Nat \ {0} : n # 1 => n > 1 OBVIOUS
  <2>3. Len(queue) > 1 BY <1>1, <1>4, <2>1, <2>2
  <2>. QED BY <1>3, <2>3 DEF Undelivered
<1>6. CASE conn # "open" /\ out # <<>> /\ Undelivered
  <2>1. InFlight = Front(queue) BY <1>6 DEF InFlight
  <2>2. Len(queue) # 1
    <3>1. Len(Front(queue)) = Len(queue) - 1 /\ Front(queue) \in Seq(Packet) BY <1>1, FrontOf
    <3>. QED BY <1>1, <2>1, <3>1, EmptySeq
  <2>0. \A n \in Nat \ {0} : n # 1 => n > 1 OBVIOUS
  <2>3. Len(queue) > 1 BY <1>1, <2>0, <2>2
  <2>4. Undelivered' BY <1>3, <1>6, <2>3 DEF Undelivered
  <2>. QED BY <1>3, <1>5, <1>6, <2>1, <2>3, <2>4 DEF InFlight
<1>7. CASE ~(conn # "open" /\ out # <<>> /\ Undelivered)
  <2>1. InFlight = queue BY <1>7 DEF InFlight
  <2>2. Undelivered' => Undelivered
    <3>1. SUFFICES ASSUME Undelivered' PROVE Undelivered OBVIOUS
    <3>2. Tail(queue) # <<>> /\ Last(Tail(queue)).n = drained BY <3>1 DEF Undelivered
    <3>3. Len(queue) > 1 BY <1>1, <1>4, <3>2
    <3>. QED BY <1>3, <3>2, <3>3 DEF Undelivered
  <2>. QED BY <1>5, <1>7, <2>1, <2>2 DEF InFlight
<1>. QED BY <1>6, <1>7

(* The marks to are those of at, without the first frame and s packets of W.  *)
Shifted(P, W, at, s, V, to) ==
  /\ V \in Seq(Packet) /\ Carries(Tail(P), V, to) /\ Len(W) = Len(V) + s
  /\ \A i \in 1..Len(V) : to[i] = at[i + s] - 1 /\ at[i + s] \in 1..Len(P) /\ at[i + s] # 1
  /\ Len(InFlight') \in Nat /\ Len(InFlight) = Len(InFlight') + s
  /\ InFlight' = V \/ (InFlight # W /\ V # <<>> /\ InFlight' = Front(V))
  /\ conn = "open" /\ V # <<>> => Undelivered' = Undelivered

(* Without its first frame, and s of the packets under way.                   *)
LEMMA PopLined ==
  ASSUME IInv, SInv, Going, Reads("body"), NextHead, UNCHANGED <<writer, sending, buffer, wire>>,
         NEW P, NEW e, NEW W, NEW at, Layout(P, e, W, at), Held' = After(P[1]),
         NEW s \in {0, 1}, NEW V, NEW to, Shifted(P, W, at, s, V, to)
  PROVE  Lined'
<1> DEFINE Q == Tail(P)
<1>0. /\ V \in Seq(Packet) /\ Carries(Q, V, to) /\ Len(W) = Len(V) + s
      /\ \A i \in 1..Len(V) : to[i] = at[i + s] - 1 /\ at[i + s] \in 1..Len(P) /\ at[i + s] # 1
      /\ Len(InFlight') \in Nat /\ Len(InFlight) = Len(InFlight') + s
      /\ InFlight' = V \/ (InFlight # W /\ V # <<>> /\ InFlight' = Front(V))
      /\ conn = "open" /\ V # <<>> => Undelivered' = Undelivered
  BY DEF Shifted
<1>1. /\ P # <<>> /\ 1 \in 0..Len(P) /\ e[1] = want /\ want \in Nat
      /\ reader = "body" /\ Len(data) = want
  BY FrameFacts
<1>2. /\ P \in Seq(Sent) /\ e \in EndsOf(P) /\ Len(P) \in Nat /\ Len(W) \in Nat
      /\ Spells(writer, P, e, Spelled)
      /\ Linked(P, Held, Idle) /\ Carries(P, W, at) /\ Ours(P)
      /\ Reaches(P, e, W, at) /\ Writes(P, e, W, at)
      /\ \A k \in 0..Len(P) : e[k] \in Int
      /\ Len(P) \in 0..Len(P)
  BY LayoutFacts
<1>3. /\ reader' = "head" /\ data' = <<>> /\ reader # "http" /\ reader' # "http"
      /\ UNCHANGED <<writer, out, conn, drained, buffer, wire>>
  BY <1>1 DEF NextHead, Goto, sending
<1>4. PICK f \in EndsOf(P) : f = [k \in 0..Len(P) |-> e[k] - want]
  BY <1>1, <1>2, <1>3, Used
<1>5. /\ Spells(writer', P, f, Spelled') /\ Spelled' \in Seq(Cell)
      /\ Len(Spelled) = want + Len(Spelled') /\ Len(Ahead) = want + Len(Ahead')
      /\ Len(Spelled') \in Nat /\ Len(Ahead') \in Nat
  BY <1>1, <1>2, <1>3, <1>4, Used
<1>6. /\ Q \in Seq(Sent) /\ Len(Q) = Len(P) - 1 /\ Len(P) \in Nat \ {0}
      /\ \A k \in 1..Len(Q) : Q[k] = P[k + 1]
  BY <1>1, <1>2, EmptySeq, HeadTailProperties
<1>7. PICK g \in EndsOf(Q) : g = [k \in 0..Len(Q) |-> f[k + 1]] /\ Spells(writer', Q, g, Spelled')
  BY <1>1, <1>2, <1>5, SpellsTail
<1>8. Linked(Q, Held', Idle) BY <1>1, <1>2, LinkedTail
<1>9. Carries(Q, V, to) BY <1>0
<1> HIDE DEF Q
<1>10. \A k \in 0..Len(Q) : k + 1 \in 0..Len(P) /\ g[k] = e[k + 1] - want
  <2>1. \A k \in 0..Len(Q) : k + 1 \in 0..Len(P) BY <1>6
  <2>. QED BY <1>4, <1>7, <2>1
<1>11. Len(V) \in Nat BY <1>0, LenProperties
<1>12. ASSUME NEW i \in 1..Len(V)
       PROVE /\ i + s \in 1..Len(W) /\ at[i + s] \in 0..Len(P) /\ e[at[i + s]] \in Int
             /\ g[to[i]] = e[at[i + s]] - want /\ at[i + s] = to[i] + 1 /\ to[i] \in Nat
  <2>1. i + s \in 1..Len(W) BY <1>0, <1>11
  <2>2. to[i] = at[i + s] - 1 /\ at[i + s] \in 1..Len(P) /\ at[i + s] # 1 BY <1>0
  <2>3. to[i] \in 0..Len(Q) /\ to[i] + 1 = at[i + s] /\ at[i + s] \in 0..Len(P) BY <1>6, <2>2
  <2>4. g[to[i]] = e[at[i + s]] - want BY <1>10, <2>3
  <2>. QED BY <1>2, <2>1, <2>3, <2>4
<1>13. \A x \in Int, m \in Nat, n \in Nat, t \in Nat :
         t = m + n => (t < x => n < x - m) /\ (x <= t => x - m <= n) /\ (t = x => n = x - m)
  OBVIOUS
<1>14. Len(Spelled) \in Nat /\ Len(Ahead) \in Nat BY SFacts
<1>15. Start(Q, g)'
  <2>1. 0 \in 0..Len(Q) /\ 0 + 1 = 1 BY <1>6
  <2>2. g[0] = e[1] - want BY <1>10, <2>1
  <2>3. g[0] = 0 BY <1>1, <2>2
  <2>. QED BY <1>3, <2>3 DEF Start
<1>16. Ours(Q)'
  <2>1. SUFFICES ASSUME writer # "other", NEW k \in 1..Len(Q) PROVE Plain(Q[k]) BY <1>3 DEF Ours
  <2>2. k + 1 \in 1..Len(P) BY <1>6
  <2>. QED BY <1>2, <1>6, <2>1, <2>2 DEF Ours
<1>17. Reaches(Q, g, V, to)'
  <2>1. \/ InFlight' = V
        \/ conn # "open" /\ V # <<>> /\ InFlight' = Front(V) /\ Len(Spelled') < g[to[Len(V)]]
    <3>1. SUFFICES ASSUME InFlight # W, V # <<>>, InFlight' = Front(V)
                   PROVE conn # "open" /\ Len(Spelled') < g[to[Len(V)]]
      BY <1>0
    <3>2. conn # "open" /\ Len(Spelled) < e[at[Len(W)]] BY <1>2, <3>1 DEF Reaches
    <3>3. Len(V) \in 1..Len(V)
      <4>1. Len(V) # 0 BY <1>0, <3>1, EmptySeq
      <4>. QED BY <1>11, <4>1
    <3>4. g[to[Len(V)]] = e[at[Len(W)]] - want /\ e[at[Len(W)]] \in Int BY <1>0, <1>12, <3>3
    <3>. QED BY <1>1, <1>5, <1>13, <1>14, <3>2, <3>4
  <2>2. ASSUME conn # "reset", NEW i \in 1..Len(InFlight') PROVE g[to[i]] <= Len(Spelled')
    <3>1. Len(InFlight) \in 0..Len(W) BY InFlightLength
    <3>2. i \in 1..Len(V) /\ i + s \in 1..Len(InFlight) BY <1>0, <1>2, <1>11, <3>1
    <3>3. e[at[i + s]] <= Len(Spelled) BY <1>2, <2>2, <3>2 DEF Reaches
    <3>4. e[at[i + s]] \in Int /\ g[to[i]] = e[at[i + s]] - want BY <1>12, <3>2
    <3>5. e[at[i + s]] - want <= Len(Spelled') BY <1>1, <1>5, <1>13, <1>14, <3>3, <3>4
    <3>. QED BY <3>4, <3>5
  <2>3. conn = "open" => Len(Spelled') = g[Len(Q)]
    <3>1. SUFFICES ASSUME conn = "open" PROVE Len(Spelled') = g[Len(Q)] OBVIOUS
    <3>2. Len(Spelled) = e[Len(P)] BY <1>2, <3>1 DEF Reaches
    <3>3. Len(Q) \in 0..Len(Q) /\ Len(Q) + 1 = Len(P) BY <1>6
    <3>4. g[Len(Q)] = e[Len(P)] - want BY <1>10, <3>3
    <3>. QED BY <1>1, <1>2, <1>5, <1>13, <1>14, <3>2, <3>4
  <2>. QED BY <1>3, <2>1, <2>2, <2>3 DEF Reaches
<1>18. Writes(Q, g, V, to)'
  <2>1. SUFFICES ASSUME conn = "open", out # <<>>, NEW i \in 1..Len(V)
                 PROVE IF Undelivered' /\ i = Len(V) THEN to[i] = Len(Q) ELSE g[to[i]] <= Len(Ahead')
    BY <1>3 DEF Writes
  <2>2. V # <<>>
    <3>1. Len(V) # 0 BY <1>11
    <3>. QED BY <1>0, <3>1, EmptySeq
  <2>3. Undelivered' = Undelivered BY <1>0, <2>1, <2>2
  <2>4. IF Undelivered /\ i + s = Len(W) THEN at[i + s] = Len(P) ELSE e[at[i + s]] <= Len(Ahead)
    <3>1. i + s \in 1..Len(W) BY <1>12
    <3>. QED BY <1>2, <2>1, <3>1 DEF Writes
  <2>5. i + s = Len(W) <=> i = Len(V)
    <3>1. i \in Nat /\ s \in Nat BY <1>11
    <3>. QED BY <1>0, <1>11, <3>1
  <2>6. at[i + s] = Len(P) => to[i] = Len(Q)
    <3>1. at[i + s] = to[i] + 1 /\ to[i] \in Nat BY <1>12
    <3>. QED BY <1>6, <3>1
  <2>7. e[at[i + s]] <= Len(Ahead) => g[to[i]] <= Len(Ahead')
    <3>1. e[at[i + s]] \in Int /\ g[to[i]] = e[at[i + s]] - want BY <1>12
    <3>2. e[at[i + s]] <= Len(Ahead) => e[at[i + s]] - want <= Len(Ahead')
      BY <1>1, <1>5, <1>13, <1>14, <3>1
    <3>. QED BY <3>1, <3>2
  <2>. QED BY <2>3, <2>4, <2>5, <2>6, <2>7
<1>19. Layout(Q, g, V, to)'
  BY <1>0, <1>6, <1>7, <1>8, <1>9, <1>15, <1>16, <1>17, <1>18 DEF Layout
<1>. QED BY <1>19 DEF Lined

(* The first frame is used, with the packet that it completes.             *)
LEMMA PopKeeps ==
  ASSUME IInv, SInv, Listed', Going, Reads("body"), NextHead,
         UNCHANGED <<writer, sending, buffer, wire, broken>>,
         \A P, e, W, at : Layout(P, e, W, at) =>
           Held' = After(P[1]) /\ queue' = IF Completes(P[1]) THEN Tail(queue) ELSE queue
  PROVE  SInv'
<1>1. PICK P, e, W, at : Layout(P, e, W, at) BY DEF SInv, Lined
<1>2. P \in Seq(Sent) /\ W \in Seq(Packet) /\ Carries(P, W, at) /\ Len(W) \in Nat /\ Reaches(P, e, W, at)
  BY <1>1, LayoutFacts
<1>3. P # <<>> BY <1>1, FrameFacts
<1>4. Held' = After(P[1]) /\ queue' = IF Completes(P[1]) THEN Tail(queue) ELSE queue BY <1>1
<1>5. InFlight \in Seq(Packet) /\ Len(InFlight) \in Nat BY SFacts, LenProperties
<1>6. UNCHANGED <<conn, out, drained>> BY DEF sending
<1>7. Lined'
  <2>1. CASE ~Completes(P[1])
    <3> DEFINE to == [i \in 1..Len(W) |-> at[i] - 1]
    <3>1. /\ Carries(Tail(P), W, to) /\ \A i \in 1..Len(W) : at[i] \in 1..Len(P) /\ at[i] # 1
      BY <1>2, <1>3, <2>1, CarriesOn
    <3>2. InFlight' = InFlight /\ Undelivered' = Undelivered
      BY <1>4, <1>6, <2>1 DEF InFlight, Undelivered
    <3>3. PICK s \in {0, 1} : s = 0 OBVIOUS
    <3>4. \A i \in 1..Len(W) : i + s = i /\ to[i] = at[i] - 1 BY <1>2, <3>3
    <3> HIDE DEF to
    <3>5. \A i \in 1..Len(W) : to[i] = at[i + s] - 1 /\ at[i + s] \in 1..Len(P) /\ at[i + s] # 1
      BY <3>1, <3>4
    <3>6. Len(W) = Len(W) + s /\ Len(InFlight) = Len(InFlight') + s /\ Len(InFlight') \in Nat
      BY <1>2, <1>5, <3>2, <3>3
    <3>7. InFlight' = W \/ (InFlight # W /\ W # <<>> /\ InFlight' = Front(W))
      BY <1>2, <3>2 DEF Reaches
    <3>8. conn = "open" /\ W # <<>> => Undelivered' = Undelivered BY <3>2
    <3>9. Shifted(P, W, at, s, W, to) BY <1>2, <3>1, <3>5, <3>6, <3>7, <3>8 DEF Shifted
    <3>. QED BY <1>1, <1>4, <3>9, PopLined
  <2>2. CASE Completes(P[1])
    <3> DEFINE to == [i \in 1..(Len(W) - 1) |-> at[i + 1] - 1]
               V == Tail(W)
    <3>1. /\ Carries(Tail(P), V, to) /\ W # <<>> /\ Len(W) \in Nat \ {0}
          /\ \A i \in 1..(Len(W) - 1) : at[i + 1] \in 1..Len(P) /\ at[i + 1] # 1
      BY <1>2, <1>3, <2>2, CarriesRest
    <3>2. queue # <<>> /\ InFlight # <<>> /\ (InFlight # W => Len(W) > 1) BY <1>1, <2>2, Delivers
    <3>3. V \in Seq(Packet) /\ Len(V) = Len(W) - 1 BY <1>2, <3>1, HeadTailProperties
    <3>4. InFlight' = Tail(InFlight) /\ (Tail(queue) # <<>> => Undelivered' = Undelivered)
      BY <1>4, <1>6, <2>2, <3>2, FlightPops
    <3>5. \A i \in 1..(Len(W) - 1) : to[i] = at[i + 1] - 1 OBVIOUS
    <3>6. Len(InFlight') = Len(InFlight) - 1 /\ Len(InFlight) \in Nat \ {0}
      BY <1>5, <3>2, <3>4, EmptySeq, HeadTailProperties
    <3>7. InFlight' = V \/ (InFlight # W /\ V # <<>> /\ InFlight' = Front(V))
      <4>1. CASE InFlight = W BY <3>4, <4>1
      <4>2. CASE InFlight # W
        <5>1. InFlight = Front(W) /\ Len(W) > 1 BY <1>2, <3>2, <4>2 DEF Reaches
        <5>2. Tail(W) # <<>> /\ Front(Tail(W)) = Tail(Front(W)) BY <1>2, <5>1, FrontAndTail
        <5>. QED BY <3>4, <4>2, <5>1, <5>2
      <4>. QED BY <4>1, <4>2
    <3>8. conn = "open" /\ V # <<>> => Undelivered' = Undelivered
      <4>1. conn = "open" => InFlight = W BY <1>2 DEF Reaches
      <4>2. conn = "open" => InFlight = queue BY DEF InFlight
      <4>. QED BY <3>4, <4>1, <4>2
    <3> HIDE DEF to, V
    <3>9. Len(W) = Len(V) + 1 /\ Len(InFlight) = Len(InFlight') + 1 /\ Len(InFlight') \in Nat
      BY <3>1, <3>3, <3>6
    <3>10. \A i \in 1..Len(V) : to[i] = at[i + 1] - 1 /\ at[i + 1] \in 1..Len(P) /\ at[i + 1] # 1
      BY <3>1, <3>3, <3>5
    <3>11. 1 \in {0, 1} OBVIOUS
    <3>12. Shifted(P, W, at, 1, V, to) BY <3>1, <3>3, <3>7, <3>8, <3>9, <3>10 DEF Shifted
    <3>. QED BY <1>1, <1>4, <3>11, <3>12, PopLined
  <2>. QED BY <2>1, <2>2
<1>8. Going' /\ reader' = "head" BY DEF Going, Whole, Ended, NextHead, Goto
<1>. QED BY <1>7, <1>8 DEF SInv, Http, AtEnd

(* read_message goes on with the next frame, or the thread ends.           *)
LEMMA FrameKeeps ==
  ASSUME IInv, SInv, Listed', FirstFrame \/ LaterFrame
  PROVE  SInv'
<1>1. /\ UNCHANGED <<writer, sending, broken>> /\ Reads("body") /\ reader = "body"
      /\ reader' \in {"head", "closed", "rejected"}
  BY DEF FirstFrame, LaterFrame, Reads, Complete, Refuse, Collect, NextHead, Ends, Goto
<1>2. Http' /\ AtEnd' BY <1>1 DEF Http, AtEnd
<1>3. CASE ~Going' BY <1>1, <1>2, <1>3, GoneKeeps
<1>4. CASE Going'
  <2>1. Going /\ Whole BY <1>1, <1>4 DEF Going, Whole, Ended
  <2>2. reader' = "head" BY <1>1, <1>4 DEF Going, Ended
  <2>3. /\ ~inside => parts = <<>>
        /\ data \in Seq(Cell) /\ parts \in Seq(Cell) /\ inside \in BOOLEAN
    BY Facts
  <2>4. ASSUME NEW P, NEW e, NEW W, NEW at, Layout(P, e, W, at)
        PROVE /\ frame = Kind(P[1]) /\ P[1].cells = data /\ P[1].before = Held
              /\ Completes(P[1]) => queue # <<>>
    BY <1>1, <2>1, <2>4, FrameFacts, Delivers
  <2>5. CASE FirstFrame /\ frame.op \in Control /\ Complete(frame.op, data)
    <3>1. frame.op # "close" BY <2>2, <2>5 DEF Complete, Ends, Goto
    <3>2. /\ NextHead /\ inside' = FALSE /\ parts' = <<>> /\ UNCHANGED <<buffer, wire, queue>>
      BY <2>5, <3>1 DEF Complete, Control
    <3>3. Held' = Held BY <2>3, <2>5, <3>2 DEF Held, FirstFrame
    <3>4. ASSUME NEW P, NEW e, NEW W, NEW at, Layout(P, e, W, at)
          PROVE Held' = After(P[1]) /\ queue' = IF Completes(P[1]) THEN Tail(queue) ELSE queue
      <4>1. P[1].op \in Control /\ P[1].before = Held BY <2>4, <2>5, <3>4 DEF Kind
      <4>. QED BY <3>2, <3>3, <4>1 DEF After, Completes
    <3>. QED BY <1>1, <2>1, <3>2, <3>4, PopKeeps
  <2>6. ASSUME NEW m, frame.op \notin Control, frame.final, Complete("binary", m) PROVE SInv'
    <3>1. /\ NextHead /\ inside' = FALSE /\ parts' = <<>> /\ UNCHANGED <<buffer, wire>>
          /\ queue' = IF queue # <<>> THEN Tail(queue) ELSE queue
      BY <2>1, <2>6 DEF Complete
    <3>2. ASSUME NEW P, NEW e, NEW W, NEW at, Layout(P, e, W, at)
          PROVE Held' = After(P[1]) /\ queue' = IF Completes(P[1]) THEN Tail(queue) ELSE queue
      <4>1. Completes(P[1]) /\ queue # <<>> BY <2>4, <2>6, <3>2 DEF Kind, Completes
      <4>2. Held' = Idle /\ After(P[1]) = Idle BY <3>1, <4>1 DEF Held, Idle, After, Completes
      <4>. QED BY <3>1, <4>1, <4>2
    <3>. QED BY <1>1, <2>1, <3>1, <3>2, PopKeeps
  <2>7. ASSUME frame.op \notin Control, ~frame.final, Collect(parts \o data) PROVE SInv'
    <3>1. NextHead /\ inside' = TRUE /\ parts' = parts \o data /\ UNCHANGED <<buffer, wire, queue>>
      BY <2>7 DEF Collect
    <3>2. ASSUME NEW P, NEW e, NEW W, NEW at, Layout(P, e, W, at)
          PROVE Held' = After(P[1]) /\ queue' = IF Completes(P[1]) THEN Tail(queue) ELSE queue
      <4>1. P[1].op \notin Control /\ ~P[1].final /\ P[1].cells = data /\ P[1].before = Held
        BY <2>4, <2>7, <3>2 DEF Kind
      <4>2. After(P[1]) = Held' BY <3>1, <4>1 DEF Held, After
      <4>. QED BY <3>1, <4>1, <4>2 DEF Completes
    <3>. QED BY <1>1, <2>1, <3>1, <3>2, PopKeeps
  <2>8. CASE Refuse BY <2>2, <2>8 DEF Refuse, Ends, Goto
  <2>9. FirstFrame /\ Collect(data) => Collect(parts \o data)
    <3>1. <<>> \o data = data BY <2>3, ConcatEmptySeq
    <3>. QED BY <2>3, <3>1 DEF FirstFrame
  <2>10. "binary" \notin Control /\ "continue" \notin Control BY DEF Control
  <2>11. CASE FirstFrame BY <2>5, <2>6, <2>7, <2>8, <2>9, <2>10, <2>11 DEF FirstFrame
  <2>12. CASE LaterFrame BY <2>6, <2>7, <2>8, <2>10, <2>12 DEF LaterFrame, OpOfFirst
  <2>. QED BY <2>11, <2>12
<1>. QED BY <1>3, <1>4

-----------------------------------------------------------------------------
(* Frames are added *)

(* The cells s are those ahead and then whole frames, up to what the receive  *)
(* thread will then hold; the last packet is new, or none is.                *)
Opens(P, e, W, at, s, end, new) ==
  /\ P \in Seq(Sent) /\ e \in EndsOf(P) /\ W \in Seq(Packet) /\ s \in Seq(Cell)
  /\ Spells(writer, P, e, s) /\ Len(s) = e[Len(P)] /\ Start(P, e)
  /\ Linked(P, Held, end) /\ Carries(P, W, at) /\ Ours(P)
  /\ \A i \in 1..Len(W) : IF new /\ i = Len(W) THEN at[i] = Len(P) ELSE e[at[i]] <= Len(Ahead)

(* Between packets, what is spelled is what is ahead.                      *)
LEMMA OpensAtRest ==
  ASSUME IInv, SInv, Going, conn = "open", out = <<>>
  PROVE  \E P, e, at : Opens(P, e, queue, at, Ahead, Idle, FALSE)
<1>1. PICK P, e, W, at : Layout(P, e, W, at) BY DEF SInv, Lined
<1>2. /\ P \in Seq(Sent) /\ e \in EndsOf(P) /\ W \in Seq(Packet)
      /\ Spells(writer, P, e, Spelled) /\ Start(P, e)
      /\ Linked(P, Held, Idle) /\ Carries(P, W, at) /\ Ours(P)
      /\ Reaches(P, e, W, at)
      /\ \A j, k \in 0..Len(P) : j <= k => e[j] <= e[k]
      /\ \A i \in 1..Len(W) : at[i] \in 1..Len(P) /\ at[i] \in 0..Len(P)
      /\ Len(P) \in 0..Len(P)
  BY <1>1, LayoutFacts
<1>3. W = queue /\ Len(Spelled) = e[Len(P)] BY <1>2 DEF Reaches, InFlight
<1>4. Ahead \in Seq(Cell) BY SFacts
<1>5. Spelled = Ahead BY <1>4, ConcatEmptySeq DEF Spelled, ToWrite
<1>6. \A i \in 1..Len(W) : at[i] <= Len(P) BY <1>2
<1>7. \A i \in 1..Len(W) : e[at[i]] <= Len(Ahead) BY <1>2, <1>3, <1>5, <1>6
<1>8. Opens(P, e, W, at, Ahead, Idle, FALSE) BY <1>2, <1>3, <1>4, <1>5, <1>7 DEF Opens
<1>. QED BY <1>3, <1>8

(* The first frame stays the first.                                         *)
LEMMA FirstStays ==
  ASSUME NEW P \in Seq(Sent), NEW fr \in Sent, NEW e, NEW f, f[0] = e[0], Start(P, e),
         Ours(P), writer # "other" => Plain(fr)
  PROVE  /\ Start(Append(P, fr), f) /\ Ours(Append(P, fr))
         /\ Append(P, fr) \in Seq(Sent) /\ Len(Append(P, fr)) = Len(P) + 1 /\ Len(P) \in Nat
<1> DEFINE Q == Append(P, fr)
<1>1. /\ Len(P) \in Nat /\ Q \in Seq(Sent) /\ Len(Q) = Len(P) + 1 /\ Q[Len(P) + 1] = fr /\ Q # <<>>
      /\ \A i \in 1..Len(P) : Q[i] = P[i]
  BY LenProperties, AppendProperties
<1> HIDE DEF Q
<1>2. P # <<>> => Q[1] = P[1]
  <2>1. P # <<>> => Len(P) \in Nat \ {0} BY EmptySeq
  <2>2. P # <<>> => 1 \in 1..Len(P) BY <2>1
  <2>. QED BY <1>1, <2>2
<1>3. Start(Q, f) BY <1>1, <1>2 DEF Start
<1>4. Ours(Q)
  <2>1. SUFFICES ASSUME writer # "other", NEW k \in 1..Len(Q) PROVE Plain(Q[k]) BY DEF Ours
  <2>2. k \in 1..Len(P) \/ k = Len(P) + 1 BY <1>1
  <2>. QED BY <1>1, <2>1, <2>2 DEF Ours
<1>. QED BY <1>1, <1>3, <1>4 DEF Q

(* One more frame, which completes no message.                               *)
LEMMA FrameMore ==
  ASSUME NEW P, NEW e, NEW W, NEW at, NEW s, NEW fr \in Sent,
         Opens(P, e, W, at, s, fr.before, FALSE), ~Completes(fr), writer # "other" => Plain(fr)
  PROVE  \E Q, f : Opens(Q, f, W, at, s \o FrameOf(writer, fr), After(fr), FALSE)
<1> DEFINE Q == Append(P, fr)
<1>1. /\ P \in Seq(Sent) /\ e \in EndsOf(P) /\ W \in Seq(Packet) /\ s \in Seq(Cell)
      /\ Spells(writer, P, e, s) /\ Len(s) = e[Len(P)] /\ Start(P, e)
      /\ Linked(P, Held, fr.before) /\ Carries(P, W, at) /\ Ours(P)
      /\ \A i \in 1..Len(W) : e[at[i]] <= Len(Ahead)
  BY DEF Opens
<1>2. writer = "tcp" => Plain(fr) OBVIOUS
<1>3. /\ s \o FrameOf(writer, fr) \in Seq(Cell)
      /\ \E f \in EndsOf(Q) :
           /\ (\A k \in 0..Len(P) : f[k] = e[k]) /\ Spells(writer, Q, f, s \o FrameOf(writer, fr))
           /\ Len(s \o FrameOf(writer, fr)) = f[Len(Q)]
  <2>1. /\ P \in Seq(Sent) /\ e \in EndsOf(P) /\ s \in Seq(Cell)
        /\ Spells(writer, P, e, s) /\ Len(s) = e[Len(P)]
    BY <1>1
  <2>2. Extends(writer, P, e, fr, s \o FrameOf(writer, fr)) BY <1>2, <2>1, SpellsMore
  <2>. QED BY <2>2 DEF Extends
<1>4. Linked(Q, Held, After(fr)) BY <1>1, LinkedMore
<1>5. Carries(Q, W, at) BY <1>1, CarriesPart
<1> HIDE DEF Q
<1>6. PICK f \in EndsOf(Q) :
        /\ (\A k \in 0..Len(P) : f[k] = e[k]) /\ Spells(writer, Q, f, s \o FrameOf(writer, fr))
        /\ Len(s \o FrameOf(writer, fr)) = f[Len(Q)]
  BY <1>3
<1>7. Len(P) \in Nat /\ 0 \in 0..Len(P)
  <2>1. Len(P) \in Nat BY <1>1, LenProperties
  <2>. QED BY <2>1
<1>8. Start(Q, f) /\ Ours(Q) /\ Q \in Seq(Sent)
  <2>1. f[0] = e[0] BY <1>6, <1>7
  <2>. QED BY <1>1, <2>1, FirstStays DEF Q
<1>9. \A i \in 1..Len(W) : at[i] \in 0..Len(P)
  <2>1. \A i \in 1..Len(W) : at[i] \in 1..Len(P) BY <1>1 DEF Carries, Marks
  <2>. QED BY <1>7, <2>1
<1>10. \A i \in 1..Len(W) : f[at[i]] <= Len(Ahead) BY <1>1, <1>6, <1>9
<1>11. Opens(Q, f, W, at, s \o FrameOf(writer, fr), After(fr), FALSE)
  BY <1>1, <1>3, <1>4, <1>5, <1>6, <1>8, <1>10 DEF Opens
<1>. QED BY <1>11

(* One more frame, which completes one more packet.                          *)
LEMMA FrameLast ==
  ASSUME NEW P, NEW e, NEW W, NEW at, NEW s, NEW fr \in Sent,
         Opens(P, e, W, at, s, fr.before, FALSE), Completes(fr), writer # "other" => Plain(fr),
         NEW p \in Packet, Message(fr) = PayloadOf(p)
  PROVE  \E Q, f, to : Opens(Q, f, Append(W, p), to, s \o FrameOf(writer, fr), Idle, TRUE)
<1> DEFINE Q == Append(P, fr)
           V == Append(W, p)
           to == [i \in 1..(Len(W) + 1) |-> IF i = Len(W) + 1 THEN Len(P) + 1 ELSE at[i]]
<1>1. /\ P \in Seq(Sent) /\ e \in EndsOf(P) /\ W \in Seq(Packet) /\ s \in Seq(Cell)
      /\ Spells(writer, P, e, s) /\ Len(s) = e[Len(P)] /\ Start(P, e)
      /\ Linked(P, Held, fr.before) /\ Carries(P, W, at) /\ Ours(P)
      /\ \A i \in 1..Len(W) : e[at[i]] <= Len(Ahead)
  BY DEF Opens
<1>2. writer = "tcp" => Plain(fr) OBVIOUS
<1>3. /\ s \o FrameOf(writer, fr) \in Seq(Cell)
      /\ \E f \in EndsOf(Q) :
           /\ (\A k \in 0..Len(P) : f[k] = e[k]) /\ Spells(writer, Q, f, s \o FrameOf(writer, fr))
           /\ Len(s \o FrameOf(writer, fr)) = f[Len(Q)]
  <2>1. /\ P \in Seq(Sent) /\ e \in EndsOf(P) /\ s \in Seq(Cell)
        /\ Spells(writer, P, e, s) /\ Len(s) = e[Len(P)]
    BY <1>1
  <2>2. Extends(writer, P, e, fr, s \o FrameOf(writer, fr)) BY <1>2, <2>1, SpellsMore
  <2>. QED BY <2>2 DEF Extends
<1>4. After(fr) = Idle BY DEF After, Completes
<1>5. Linked(Q, Held, Idle) BY <1>1, <1>4, LinkedMore
<1>6. Carries(Q, V, to) BY <1>1, CarriesMore
<1>7. V \in Seq(Packet) /\ Len(V) = Len(W) + 1 /\ Len(W) \in Nat
  BY <1>1, AppendProperties, LenProperties
<1> HIDE DEF Q, V
<1>8. PICK f \in EndsOf(Q) :
        /\ (\A k \in 0..Len(P) : f[k] = e[k]) /\ Spells(writer, Q, f, s \o FrameOf(writer, fr))
        /\ Len(s \o FrameOf(writer, fr)) = f[Len(Q)]
  BY <1>3
<1>9. Len(P) \in Nat /\ 0 \in 0..Len(P)
  <2>1. Len(P) \in Nat BY <1>1, LenProperties
  <2>. QED BY <2>1
<1>10. Start(Q, f) /\ Ours(Q) /\ Q \in Seq(Sent) /\ Len(Q) = Len(P) + 1
  <2>1. f[0] = e[0] BY <1>8, <1>9
  <2>. QED BY <1>1, <2>1, FirstStays DEF Q
<1>11. ASSUME NEW i \in 1..Len(V)
       PROVE IF TRUE /\ i = Len(V) THEN to[i] = Len(Q) ELSE f[to[i]] <= Len(Ahead)
  <2>1. CASE i = Len(V) BY <1>7, <1>10, <2>1
  <2>2. CASE i # Len(V)
    <3>1. i \in 1..Len(W) /\ i \in 1..(Len(W) + 1) /\ i # Len(W) + 1 BY <1>7, <2>2
    <3>2. to[i] = at[i] BY <3>1
    <3>3. at[i] \in 1..Len(P) BY <1>1, <3>1 DEF Carries, Marks
    <3>4. at[i] \in 0..Len(P) BY <1>9, <3>3
    <3> HIDE DEF to
    <3>5. f[to[i]] <= Len(Ahead) BY <1>1, <1>8, <3>1, <3>2, <3>4
    <3>. QED BY <2>2, <3>5
  <2>. QED BY <2>1, <2>2
<1> HIDE DEF to
<1>12. Opens(Q, f, V, to, s \o FrameOf(writer, fr), Idle, TRUE)
  BY <1>3, <1>5, <1>6, <1>7, <1>8, <1>10, <1>11 DEF Opens
<1>. QED BY <1>12 DEF V

(* What is written next is what opens.                                      *)
LEMMA OpensLined ==
  ASSUME conn = "open", UNCHANGED <<conn, writer, reader, want, frame, inside, parts>>,
         Ahead' = Ahead, NEW P, NEW e, NEW W, NEW at,
         Opens(P, e, W, at, Spelled', Idle, Undelivered'), InFlight' = W
  PROVE  Lined'
<1>1. /\ P \in Seq(Sent) /\ e \in EndsOf(P) /\ W \in Seq(Packet) /\ Spelled' \in Seq(Cell)
      /\ Spells(writer, P, e, Spelled') /\ Len(Spelled') = e[Len(P)] /\ Start(P, e)
      /\ Linked(P, Held, Idle) /\ Carries(P, W, at) /\ Ours(P)
      /\ \A i \in 1..Len(W) : IF Undelivered' /\ i = Len(W) THEN at[i] = Len(P) ELSE e[at[i]] <= Len(Ahead)
  BY DEF Opens
<1>2. Start(P, e)' BY <1>1 DEF Start
<1>3. Held' = Held /\ Ours(P)' BY <1>1 DEF Held, Ours
<1>4. \A i \in 1..Len(W) : e[at[i]] <= Len(Spelled')
  <2>1. SUFFICES ASSUME NEW i \in 1..Len(W) PROVE e[at[i]] <= e[Len(P)] BY <1>1
  <2>2. at[i] \in 1..Len(P) BY <1>1 DEF Carries, Marks
  <2>3. Len(P) \in Nat BY <1>1, LenProperties
  <2>4. at[i] \in 0..Len(P) /\ Len(P) \in 0..Len(P) /\ at[i] <= Len(P) BY <2>2, <2>3
  <2>. QED BY <1>1, <2>4 DEF Spells, Laid
<1>5. Reaches(P, e, W, at)' BY <1>1, <1>4 DEF Reaches
<1>6. Writes(P, e, W, at)' BY <1>1 DEF Writes
<1>7. Layout(P, e, W, at)' BY <1>1, <1>2, <1>3, <1>5, <1>6 DEF Layout
<1>. QED BY <1>7 DEF Lined

-----------------------------------------------------------------------------
(* Steps of the writer and of the network *)

(* A packet that is drained is last of those under way while there is a link.  *)
LEMMA SendFlight ==
  ASSUME SInv, NEW p \in Packet, out = <<>>, out' # <<>>, queue' = Append(queue, p),
         drained' = p.n, conn' = conn
  PROVE  /\ Undelivered' /\ InFlight = queue
         /\ InFlight' = IF conn = "open" THEN Append(queue, p) ELSE queue
<1>1. queue \in Seq(Packet) BY DEF SInv, Listed
<1>2. /\ queue' \in Seq(Packet) /\ queue' # <<>> /\ Last(queue') = p /\ Front(queue') = queue
  BY <1>1, AppendProperties, FrontOfAppend
<1>3. Undelivered' BY <1>2 DEF Undelivered
<1>. QED BY <1>2, <1>3 DEF InFlight

(* A packet is drained, and its frames open after those that are there.       *)
LEMMA SendsKeep ==
  ASSUME IInv, SInv, Listed', NEW p \in Packet, Drains(p), Queued(p), out' # <<>>,
         \A P, e, at : Opens(P, e, queue, at, Ahead, Idle, FALSE) =>
           \E Q, f, to : Opens(Q, f, Append(queue, p), to, Ahead \o out', Idle, TRUE)
  PROVE  SInv'
<1>1. /\ out = <<>> /\ queue' = Append(queue, p) /\ drained' = p.n
      /\ UNCHANGED <<writer, wire, conn, reader, buffer, data, want, frame, inside, parts, broken>>
  BY DEF Drains, Queued, reading
<1>2. /\ Undelivered' /\ InFlight = queue
      /\ InFlight' = IF conn = "open" THEN Append(queue, p) ELSE queue
  BY <1>1, SendFlight
<1>3. Http' BY <1>1 DEF SInv, Http
<1>4. AtEnd' BY <1>1, <1>2 DEF SInv, AtEnd, Whole
<1>5. CASE ~Going
  <2>1. ~Going' BY <1>1, <1>5 DEF Going, Whole
  <2>. QED BY <1>3, <1>4, <2>1, GoneKeeps
<1>6. CASE Going
  <2>1. Ahead' = Ahead BY <1>1 DEF Ahead
  <2>2. CASE conn # "open"
    <3>1. ToWrite' = ToWrite BY <1>1, <2>2 DEF ToWrite
    <3>2. Spelled' = Spelled BY <2>1, <3>1 DEF Spelled
    <3>3. \A P, e : Start(P, e) => Start(P, e)' BY <1>1 DEF Start
    <3>4. InFlight' = InFlight BY <1>2, <2>2
    <3>5. Lined' BY <1>1, <1>6, <2>2, <3>2, <3>3, <3>4, MovedKeeps
    <3>. QED BY <1>3, <1>4, <3>5 DEF SInv
  <2>3. CASE conn = "open"
    <3>1. PICK P, e, at : Opens(P, e, queue, at, Ahead, Idle, FALSE)
      BY <1>1, <1>6, <2>3, OpensAtRest
    <3>2. PICK Q, f, to : Opens(Q, f, Append(queue, p), to, Ahead \o out', Idle, TRUE) BY <3>1
    <3>3. Spelled' = Ahead \o out' BY <1>1, <2>1, <2>3 DEF Spelled, ToWrite
    <3>4. Undelivered' = TRUE
      <4>1. Undelivered' \in BOOLEAN BY DEF Undelivered
      <4>. QED BY <1>2, <4>1
    <3>5. Opens(Q, f, Append(queue, p), to, Spelled', Idle, Undelivered') BY <3>2, <3>3, <3>4
    <3>6. InFlight' = Append(queue, p) BY <1>2, <2>3
    <3>7. Lined' BY <1>1, <2>1, <2>3, <3>5, <3>6, OpensLined
    <3>. QED BY <1>3, <1>4, <3>7 DEF SInv
  <2>. QED BY <2>2, <2>3
<1>. QED BY <1>5, <1>6

(* A frame is not empty.                                                    *)
LEMMA FrameThere ==
  ASSUME NEW fr \in Sent, writer # "other" => Plain(fr)
  PROVE  FrameOf(writer, fr) \in Seq(Cell) /\ FrameOf(writer, fr) # <<>>
<1>1. writer = "tcp" => Plain(fr) OBVIOUS
<1>2. FrameOf(writer, fr) \in Seq(Cell) /\ Len(FrameOf(writer, fr)) = FrameLen(writer, fr)
  BY <1>1, FrameSpelled
<1>3. FrameLen(writer, fr) \in Nat \ {0} BY SentSize
<1>. QED BY <1>2, <1>3, EmptySeq

(* The frame of a packet that this SDK sends.                                *)
LEMMA SdkSendKeeps ==
  ASSUME IInv, SInv, Listed', NEW p \in Packet, WssSend(p) \/ TcpSend(p)
  PROVE  SInv'
<1> DEFINE fr == [final |-> TRUE, op |-> "binary", cells |-> PayloadOf(p), before |-> Idle]
<1>1. PayloadOf(p) \in Seq(Cell) /\ <<>> \in Seq(Cell) BY PayloadCells, EmptySeq
<1>2. fr \in Sent BY <1>1 DEF Sent, Ops, Assembly, Idle
<1>3. /\ fr.before = Idle /\ Plain(fr) /\ Completes(fr)
      /\ Message(fr) = <<>> \o PayloadOf(p)
  BY DEF Plain, Completes, Message, Idle, Control
<1>4. Message(fr) = PayloadOf(p) BY <1>1, <1>3, ConcatEmptySeq
<1>5. Drains(p) /\ Queued(p) /\ out' = FrameOf(writer, fr)
  BY DEF WssSend, TcpSend, FrameOf
<1> HIDE DEF fr
<1>6. out' # <<>> BY <1>2, <1>3, <1>5, FrameThere
<1>7. ASSUME NEW P, NEW e, NEW at, Opens(P, e, queue, at, Ahead, Idle, FALSE)
      PROVE \E Q, f, to : Opens(Q, f, Append(queue, p), to, Ahead \o out', Idle, TRUE)
  BY <1>2, <1>3, <1>4, <1>5, <1>7, FrameLast
<1>. QED BY <1>5, <1>6, <1>7, SendsKeep

(* The two or three frames of another implementation.                        *)
LEMMA OtherSendKeeps ==
  ASSUME IInv, SInv, Listed', NEW p \in Packet, NEW cut \in 0..p.size, NEW ping \in BOOLEAN,
         OtherSends(p, cut, ping)
  PROVE  SInv'
<1> DEFINE a == SubSeq(PayloadOf(p), 1, cut)
           c == SubSeq(PayloadOf(p), cut + 1, p.size)
           mid == [inside |-> TRUE, parts |-> a]
           one == [final |-> FALSE, op |-> "binary", cells |-> a, before |-> Idle]
           two == [final |-> TRUE, op |-> "ping", cells |-> <<>>, before |-> mid]
           three == [final |-> TRUE, op |-> "continue", cells |-> c, before |-> mid]
<1>1. PayloadOf(p) \in Seq(Cell) /\ Len(PayloadOf(p)) = p.size /\ p.size \in Nat /\ <<>> \in Seq(Cell)
  BY PayloadCells, EmptySeq, LenProperties
<1>2. a \in Seq(Cell) /\ c \in Seq(Cell) /\ a \o c = PayloadOf(p)
  <2>1. cut \in Nat /\ cut <= Len(PayloadOf(p)) /\ cut \in 0..Len(PayloadOf(p)) BY <1>1
  <2>. QED BY <1>1, <2>1, Piece, SplitSeq
<1> HIDE DEF a, c
<1>3. mid \in Assembly /\ Idle \in Assembly BY <1>1, <1>2 DEF Assembly, Idle
<1>4. one \in Sent /\ two \in Sent /\ three \in Sent BY <1>1, <1>2, <1>3 DEF Sent, Ops
<1>5. /\ one.before = Idle /\ two.before = mid /\ three.before = mid
      /\ ~Completes(one) /\ ~Completes(two) /\ Completes(three) /\ After(two) = mid
      /\ Message(three) = a \o c
  BY DEF Completes, After, Message, Control
<1>6. After(one) = mid
  <2>1. <<>> \o a = a BY <1>2, ConcatEmptySeq
  <2>2. After(one) = [inside |-> TRUE, parts |-> <<>> \o a] BY DEF After, Idle, Control
  <2>. QED BY <2>1, <2>2
<1>7. writer = "other" /\ Drains(p) /\ Queued(p) BY DEF OtherSends
<1>8. /\ FrameOf(writer, one) = WssFrame(FALSE, "binary", a)
      /\ FrameOf(writer, two) = WssHead(TRUE, "ping", 0)
      /\ FrameOf(writer, three) = WssFrame(TRUE, "continue", c)
  <2>1. Len(<<>>) = 0 BY EmptySeq
  <2>2. WssHead(TRUE, "ping", 0) \in Seq(Cell) BY HeadCells DEF Ops
  <2>3. WssFrame(TRUE, "ping", <<>>) = WssHead(TRUE, "ping", 0)
    BY <2>1, <2>2, ConcatEmptySeq DEF WssFrame
  <2>. QED BY <1>7, <2>3 DEF FrameOf
<1> DEFINE f1 == FrameOf(writer, one)
           f2 == FrameOf(writer, two)
           f3 == FrameOf(writer, three)
<1>9. /\ f1 \in Seq(Cell) /\ f2 \in Seq(Cell) /\ f3 \in Seq(Cell) /\ f3 # <<>>
  BY <1>4, <1>7, FrameThere
<1>10. out' = (f1 \o (IF ping THEN f2 ELSE <<>>)) \o f3
  BY <1>8 DEF OtherSends, a, c
<1> HIDE DEF one, two, three, mid, f1, f2, f3
<1>11. Ahead \in Seq(Cell) BY SFacts
<1>12. ASSUME NEW P, NEW e, NEW at, Opens(P, e, queue, at, Ahead, Idle, FALSE)
       PROVE \E Q, f, to : Opens(Q, f, Append(queue, p), to, Ahead \o out', Idle, TRUE)
  <2>1. \A s, t, u \in Seq(Cell) : (s \o t) \o u = s \o (t \o u) BY ConcatAssociative
  <2>2. PICK P1, e1 : Opens(P1, e1, queue, at, Ahead \o f1, mid, FALSE)
    BY <1>4, <1>5, <1>6, <1>7, <1>12, FrameMore DEF f1
  <2>3. CASE ping
    <3>1. PICK P2, e2 : Opens(P2, e2, queue, at, (Ahead \o f1) \o f2, mid, FALSE)
      BY <1>4, <1>5, <1>7, <2>2, FrameMore DEF f2
    <3>2. PICK Q, f, to : Opens(Q, f, Append(queue, p), to, ((Ahead \o f1) \o f2) \o f3, Idle, TRUE)
      BY <1>2, <1>4, <1>5, <1>7, <3>1, FrameLast DEF f3
    <3>3. out' = (f1 \o f2) \o f3 BY <1>10, <2>3
    <3>4. f1 \o f2 \in Seq(Cell) BY <1>9, ConcatProperties
    <3>5. (Ahead \o f1) \o f2 = Ahead \o (f1 \o f2) BY <1>9, <1>11, <2>1
    <3>6. (Ahead \o (f1 \o f2)) \o f3 = Ahead \o ((f1 \o f2) \o f3) BY <1>9, <1>11, <2>1, <3>4
    <3>7. ((Ahead \o f1) \o f2) \o f3 = Ahead \o out' BY <3>3, <3>5, <3>6
    <3>. QED BY <3>2, <3>7
  <2>4. CASE ~ping
    <3>1. PICK Q, f, to : Opens(Q, f, Append(queue, p), to, (Ahead \o f1) \o f3, Idle, TRUE)
      BY <1>2, <1>4, <1>5, <1>7, <2>2, FrameLast DEF f3
    <3>2. f1 \o <<>> = f1 BY <1>9, ConcatEmptySeq
    <3>3. out' = f1 \o f3 BY <1>10, <2>4, <3>2
    <3>4. (Ahead \o f1) \o f3 = Ahead \o (f1 \o f3) BY <1>9, <1>11, <2>1
    <3>. QED BY <3>1, <3>3, <3>4
  <2>. QED BY <2>3, <2>4
<1>13. out' # <<>>
  <2> DEFINE g == f1 \o (IF ping THEN f2 ELSE <<>>)
  <2>1. g \in Seq(Cell) BY <1>1, <1>9, ConcatProperties
  <2>2. out' = g \o f3 BY <1>10
  <2> HIDE DEF g
  <2>3. Len(out') = Len(g) + Len(f3) BY <1>9, <2>1, <2>2, ConcatProperties
  <2>4. Len(g) \in Nat /\ Len(f3) \in Nat \ {0} BY <1>9, <2>1, LenProperties, EmptySeq
  <2>5. Len(out') # 0 BY <2>3, <2>4
  <2>6. Len(<<>>) = 0 BY EmptySeq
  <2>. QED BY <2>5, <2>6
<1>. QED BY <1>7, <1>12, <1>13, SendsKeep

(* A packet that encode_frame refuses changes nothing of what is under way.   *)
LEMMA OversizedKeeps ==
  ASSUME IInv, SInv, Listed', NEW p \in Packet, WssOversized(p)
  PROVE  SInv'
<1>1. /\ out = <<>> /\ UNCHANGED <<writer, out, wire, conn, queue, broken>>
      /\ UNCHANGED <<reader, buffer, data, want, frame, inside, parts>>
  BY DEF WssOversized, Drains, reading
<1>2. InFlight' = InFlight BY <1>1 DEF InFlight
<1>3. Http' /\ AtEnd' BY <1>1, <1>2 DEF SInv, Http, AtEnd, Whole
<1>4. CASE ~Going
  <2>1. ~Going' BY <1>1, <1>4 DEF Going, Whole
  <2>. QED BY <1>3, <2>1, GoneKeeps
<1>5. CASE Going
  <2>1. Spelled' = Spelled BY <1>1 DEF Spelled, Ahead, ToWrite
  <2>2. \A P, e : Start(P, e) => Start(P, e)' BY <1>1 DEF Start
  <2>3. Lined' BY <1>1, <1>2, <1>5, <2>1, <2>2, MovedKeeps
  <2>. QED BY <1>3, <2>3 DEF SInv
<1>. QED BY <1>4, <1>5

(* A ping or a close of another implementation is a frame between messages.   *)
LEMMA ControlKeeps ==
  ASSUME IInv, SInv, Listed', NEW op \in Control, OtherControls(op)
  PROVE  SInv'
<1> DEFINE fr == [final |-> TRUE, op |-> op, cells |-> <<>>, before |-> Idle]
<1>1. /\ writer = "other" /\ out = <<>> /\ drained' = drained + 1 /\ out' = WssHead(TRUE, op, 0)
      /\ UNCHANGED <<writer, wire, conn, queue, broken>>
      /\ UNCHANGED <<reader, buffer, data, want, frame, inside, parts>>
  BY DEF OtherControls, reading
<1>2. <<>> \in Seq(Cell) /\ Len(<<>>) = 0 /\ op \in Ops BY EmptySeq DEF Control, Ops
<1>3. fr \in Sent BY <1>2 DEF Sent, Assembly, Idle
<1>4. fr.before = Idle /\ ~Completes(fr) /\ After(fr) = Idle BY DEF Completes, After
<1>5. out' = FrameOf(writer, fr)
  <2>1. WssHead(TRUE, op, 0) \in Seq(Cell) BY <1>2, HeadCells
  <2>2. WssFrame(TRUE, op, <<>>) = WssHead(TRUE, op, 0) BY <1>2, <2>1, ConcatEmptySeq DEF WssFrame
  <2>. QED BY <1>1, <2>2 DEF FrameOf
<1> HIDE DEF fr
<1>6. Undelivered' = FALSE
  <2>1. Undelivered' \in BOOLEAN BY DEF Undelivered
  <2>2. SUFFICES ASSUME queue # <<>>, Last(queue).n = drained + 1 PROVE FALSE
    BY <1>1, <2>1 DEF Undelivered
  <2>3. queue \in Seq(Packet) /\ \A i \in 1..Len(queue) : queue[i].n <= drained
    BY DEF SInv, Listed
  <2>4. Len(queue) \in Nat \ {0} BY <2>2, <2>3, EmptySeq
  <2>5. Len(queue) \in 1..Len(queue) BY <2>4
  <2>6. Last(queue).n <= drained BY <2>3, <2>5 DEF Last
  <2>7. drained \in Nat BY LinkAssumption DEF IInv, TypeOK
  <2>. QED BY <2>2, <2>6, <2>7
<1>7. InFlight = queue /\ InFlight' = queue BY <1>1, <1>6 DEF InFlight
<1>8. Http' /\ AtEnd' BY <1>1, <1>7 DEF SInv, Http, AtEnd, Whole
<1>9. CASE ~Going
  <2>1. ~Going' BY <1>1, <1>9 DEF Going, Whole
  <2>. QED BY <1>8, <2>1, GoneKeeps
<1>10. CASE Going
  <2>1. Ahead' = Ahead BY <1>1 DEF Ahead
  <2>2. CASE conn # "open"
    <3>1. ToWrite' = ToWrite BY <1>1, <2>2 DEF ToWrite
    <3>2. Spelled' = Spelled BY <2>1, <3>1 DEF Spelled
    <3>3. \A P, e : Start(P, e) => Start(P, e)' BY <1>1 DEF Start
    <3>4. Lined' BY <1>1, <1>7, <1>10, <2>2, <3>2, <3>3, MovedKeeps
    <3>. QED BY <1>8, <3>4 DEF SInv
  <2>3. CASE conn = "open"
    <3>1. PICK P, e, at : Opens(P, e, queue, at, Ahead, Idle, FALSE)
      BY <1>1, <1>10, <2>3, OpensAtRest
    <3>2. PICK Q, f : Opens(Q, f, queue, at, Ahead \o out', Idle, FALSE)
      BY <1>1, <1>3, <1>4, <1>5, <3>1, FrameMore
    <3>3. Spelled' = Ahead \o out' BY <1>1, <2>1, <2>3 DEF Spelled, ToWrite
    <3>4. Opens(Q, f, queue, at, Spelled', Idle, Undelivered') BY <1>6, <3>2, <3>3
    <3>5. Lined' BY <1>1, <1>7, <2>1, <2>3, <3>4, OpensLined
    <3>. QED BY <1>8, <3>5 DEF SInv
  <2>. QED BY <2>2, <2>3
<1>. QED BY <1>9, <1>10

(* The first element of s \o t is that of s.                               *)
LEMMA TailOfConcat ==
  ASSUME NEW S, NEW s \in Seq(S), NEW t \in Seq(S), s # <<>>
  PROVE  s \o t # <<>> /\ Tail(s \o t) = Tail(s) \o t
<1> DEFINE n == Len(s)
           m == Len(t)
<1>1. n \in Nat \ {0} /\ m \in Nat BY EmptySeq, LenProperties
<1>2. /\ s \o t \in Seq(S) /\ Len(s \o t) = n + m
      /\ \A i \in 1..(n + m) : (s \o t)[i] = IF i <= n THEN s[i] ELSE t[i - n]
  BY ConcatProperties
<1>3. Tail(s) \in Seq(S) /\ Len(Tail(s)) = n - 1 /\ \A i \in 1..(n - 1) : Tail(s)[i] = s[i + 1]
  BY HeadTailProperties
<1> HIDE DEF n, m
<1>4. s \o t # <<>>
  <2>1. Len(s \o t) # 0 BY <1>1, <1>2
  <2>. QED BY <2>1, EmptySeq
<1>5. /\ Tail(s \o t) \in Seq(S) /\ Len(Tail(s \o t)) = (n + m) - 1
      /\ \A i \in 1..((n + m) - 1) : Tail(s \o t)[i] = (s \o t)[i + 1]
  BY <1>2, <1>4, HeadTailProperties
<1>6. /\ Tail(s) \o t \in Seq(S) /\ Len(Tail(s) \o t) = (n - 1) + m
      /\ \A i \in 1..((n - 1) + m) :
           (Tail(s) \o t)[i] = IF i <= n - 1 THEN Tail(s)[i] ELSE t[i - (n - 1)]
  <2>1. Len(t) = m BY DEF m
  <2> DEFINE r == Tail(s)
  <2>2. r \in Seq(S) /\ Len(r) = n - 1 BY <1>3
  <2> HIDE DEF r
  <2>3. /\ r \o t \in Seq(S) /\ Len(r \o t) = Len(r) + Len(t)
        /\ \A i \in 1..(Len(r) + Len(t)) : (r \o t)[i] = IF i <= Len(r) THEN r[i] ELSE t[i - Len(r)]
    BY <2>2, ConcatProperties
  <2>4. /\ r \o t \in Seq(S) /\ Len(r \o t) = (n - 1) + m
        /\ \A i \in 1..((n - 1) + m) : (r \o t)[i] = IF i <= n - 1 THEN r[i] ELSE t[i - (n - 1)]
    BY <2>1, <2>2, <2>3
  <2>. QED BY <2>4 DEF r
<1>7. (n + m) - 1 = (n - 1) + m BY <1>1
<1>8. ASSUME NEW i \in 1..((n + m) - 1) PROVE Tail(s \o t)[i] = (Tail(s) \o t)[i]
  <2>1. i \in Nat /\ i + 1 \in 1..(n + m) /\ i \in 1..((n - 1) + m) BY <1>1
  <2>2. Tail(s \o t)[i] = IF i + 1 <= n THEN s[i + 1] ELSE t[(i + 1) - n] BY <1>2, <1>5, <2>1
  <2>3. CASE i <= n - 1
    <3>1. i + 1 <= n /\ i \in 1..(n - 1) BY <1>1, <2>1, <2>3
    <3>. QED BY <1>3, <1>6, <2>1, <2>2, <2>3, <3>1
  <2>4. CASE ~(i <= n - 1)
    <3>1. ~(i + 1 <= n) /\ (i + 1) - n = i - (n - 1) BY <1>1, <2>1, <2>4
    <3>. QED BY <1>6, <2>1, <2>2, <2>4, <3>1
  <2>. QED BY <2>3, <2>4
<1>. QED BY <1>4, <1>5, <1>6, <1>7, <1>8, SeqEqual

(* write_nonblock moves cells to the wire and loses none.                  *)
LEMMA WriteKeeps ==
  ASSUME IInv, SInv, Listed', WriteSome
  PROVE  SInv'
<1> DEFINE k == Least(Len(out), Room - Len(wire))
           a == SubSeq(out, 1, k)
           b == SubSeq(out, k + 1, Len(out))
<1>1. /\ conn = "open" /\ reader \notin Ended /\ wire' = wire \o a /\ out' = b /\ k > 0
      /\ UNCHANGED <<writer, drained, conn, queue, broken>>
      /\ UNCHANGED <<reader, buffer, data, want, frame, inside, parts>>
  BY DEF WriteSome, Connected, reading
<1>2. /\ out \in Seq(Cell) /\ wire \in Seq(Cell) /\ data \in Seq(Cell) /\ buffer \in Seq(Cell)
      /\ Len(out) \in Nat /\ Len(wire) \in Nat /\ Room \in Nat
  BY Facts, LenProperties, LinkAssumption
<1>3. k \in 0..Len(out) /\ k \in Nat /\ k <= Len(out) BY <1>1, <1>2 DEF Least
<1> HIDE DEF k
<1>4. a \in Seq(Cell) /\ b \in Seq(Cell) /\ a \o b = out BY <1>2, <1>3, Piece, SplitSeq
<1>5. Len(a) \in Nat /\ Len(b) \in Nat /\ Len(out) = Len(a) + Len(b)
  BY <1>4, LenProperties, ConcatProperties
<1> HIDE DEF a, b
<1>6. Http'
  <2>1. SUFFICES ASSUME reader = "http" PROVE data = <<>> /\ buffer = <<>> /\ wire' # <<>>
    BY <1>1 DEF Http
  <2>2. data = <<>> /\ buffer = <<>> /\ wire # <<>> BY <1>1, <2>1 DEF SInv, Http
  <2>. QED BY <1>1, <1>2, <1>4, <2>2, TailOfConcat
<1>7. AtEnd' BY <1>1 DEF SInv, AtEnd, Ended
<1>8. CASE ~Going
  <2>1. ~Going' BY <1>1, <1>8 DEF Going, Whole
  <2>. QED BY <1>1, <1>6, <1>7, <2>1, GoneKeeps
<1>9. CASE Going
  <2>1. Going' BY <1>1, <1>9 DEF Going, Whole
  <2>2. Ahead' = Ahead \o a /\ Ahead \in Seq(Cell)
    <3>1. CASE reader # "http"
      <4>1. Ahead = (data \o buffer) \o wire /\ Ahead' = (data \o buffer) \o (wire \o a)
        BY <1>1, <3>1 DEF Ahead
      <4>2. data \o buffer \in Seq(Cell) BY <1>2, ConcatProperties
      <4>3. \A s, t, u \in Seq(Cell) : (s \o t) \o u = s \o (t \o u) BY ConcatAssociative
      <4>4. wire \in Seq(Cell) /\ a \in Seq(Cell) BY <1>2, <1>4
      <4>5. ((data \o buffer) \o wire) \o a = (data \o buffer) \o (wire \o a) BY <4>2, <4>3, <4>4
      <4>. QED BY <4>1, <4>5, SFacts
    <3>2. CASE reader = "http"
      <4>1. wire # <<>> BY <1>1, <3>2 DEF SInv, Http
      <4>2. wire \o a # <<>> /\ Tail(wire \o a) = Tail(wire) \o a BY <1>2, <1>4, <4>1, TailOfConcat
      <4>3. Ahead = Tail(wire) /\ Ahead' = Tail(wire \o a) BY <1>1, <3>2, <4>1, <4>2 DEF Ahead
      <4>. QED BY <4>2, <4>3, SFacts
    <3>. QED BY <3>1, <3>2
  <2>3. Spelled' = Spelled
    <3>1. Spelled = Ahead \o out /\ Spelled' = (Ahead \o a) \o b
      BY <1>1, <2>2 DEF Spelled, ToWrite
    <3>2. \A s, t, u \in Seq(Cell) : (s \o t) \o u = s \o (t \o u) BY ConcatAssociative
    <3>3. Ahead \in Seq(Cell) /\ a \in Seq(Cell) /\ b \in Seq(Cell) BY <1>4, <2>2
    <3>4. (Ahead \o a) \o b = Ahead \o (a \o b) BY <3>2, <3>3
    <3>. QED BY <1>4, <3>1, <3>4
  <2>4. InFlight' = InFlight /\ Undelivered' = Undelivered BY <1>1 DEF InFlight, Undelivered
  <2>5. \A P, e : Start(P, e) => Start(P, e)' BY <1>1 DEF Start
  <2>6. Len(Ahead) \in Nat /\ Len(Ahead') = Len(Ahead) + Len(a)
    BY <1>4, <2>2, SFacts, ConcatProperties
  <2>7. Len(Ahead') \in Nat /\ Len(Ahead) <= Len(Ahead') BY <1>5, <2>6
  <2>8. out' # <<>> => out # <<>>
    <3>1. SUFFICES ASSUME b # <<>> PROVE out # <<>> BY <1>1
    <3>2. Len(b) # 0 BY <1>4, <3>1, EmptySeq
    <3>3. Len(out) # 0 BY <1>5, <3>2
    <3>. QED BY <3>3, EmptySeq
  <2>9. Lined' BY <1>1, <1>9, <2>3, <2>4, <2>5, <2>7, <2>8, MovedKeeps
  <2>. QED BY <1>6, <1>7, <2>9 DEF SInv
<1>. QED BY <1>8, <1>9

(* A packet of which nothing is written is dropped, and the link goes on.     *)
LEMMA DropKeeps ==
  ASSUME IInv, SInv, Going, conn = "open", out # <<>>, out' = <<>>, Undelivered,
         out = WssFrame(TRUE, "binary", PayloadOf(Last(queue))), writer = "wss", queue' = Front(queue),
         UNCHANGED <<writer, conn, reader, buffer, data, want, frame, inside, parts, wire>>
  PROVE  Lined'
<1>1. PICK P, e, W, at : Layout(P, e, W, at) BY DEF SInv, Lined
<1>2. /\ P \in Seq(Sent) /\ e \in EndsOf(P) /\ W \in Seq(Packet) /\ Len(P) \in Nat
      /\ Spells(writer, P, e, Spelled) /\ Start(P, e)
      /\ Linked(P, Held, Idle) /\ Carries(P, W, at) /\ Ours(P)
      /\ Reaches(P, e, W, at) /\ Writes(P, e, W, at)
      /\ \A k \in 0..Len(P) : e[k] \in Int
      /\ \A i \in 1..Len(W) : at[i] \in 1..Len(P)
  BY <1>1, LayoutFacts
<1>3. queue = W /\ InFlight = W /\ Len(Spelled) = e[Len(P)]
  <2>1. InFlight = queue BY DEF InFlight
  <2>. QED BY <1>2, <2>1 DEF Reaches
<1>4. W # <<>> /\ Len(W) \in Nat \ {0} BY <1>2, <1>3, EmptySeq DEF Undelivered
<1>5. Len(W) \in 1..Len(W) /\ at[Len(W)] = Len(P) /\ Len(P) \in 1..Len(P)
  <2>1. Len(W) \in 1..Len(W) BY <1>4
  <2>2. at[Len(W)] = Len(P) BY <1>2, <2>1 DEF Writes
  <2>. QED BY <1>2, <2>1, <2>2
<1>6. P # <<>> /\ Len(P) \in Nat \ {0} /\ Len(P) \in 0..Len(P) /\ Len(P) - 1 \in 0..Len(P)
  <2>1. Len(P) \in Nat \ {0} BY <1>2, <1>5
  <2>2. P # <<>> BY <2>1, EmptySeq
  <2>. QED BY <2>1, <2>2
<1>7. P[Len(P)] \in Sent /\ \A k \in 1..Len(P) : Plain(P[k])
  BY <1>2, <1>5, ElementOfSeq DEF Ours
<1>8. out = FrameOf(writer, P[Len(P)])
  <2> DEFINE fr == P[Len(P)]
  <2>1. Completes(fr) /\ Message(fr) = PayloadOf(Last(queue)) BY <1>2, <1>3, <1>5 DEF Carries, Last
  <2>2. Plain(fr) /\ fr \in Sent BY <1>5, <1>7
  <2>3. fr.cells \in Seq(Cell) /\ fr.final /\ fr.op = "binary" BY <2>2 DEF Sent, Plain
  <2>4. Message(fr) = <<>> \o fr.cells BY <2>2 DEF Message, Plain, Idle
  <2>5. fr.cells = PayloadOf(Last(queue)) BY <2>1, <2>3, <2>4, ConcatEmptySeq
  <2>6. fr.final = TRUE BY <2>2, <2>3 DEF Sent
  <2> HIDE DEF fr
  <2>7. FrameOf(writer, fr) = WssFrame(TRUE, "binary", PayloadOf(Last(queue)))
    BY <2>3, <2>5, <2>6 DEF FrameOf
  <2>. QED BY <2>7 DEF fr
<1>9. Len(out) = FrameLen(writer, P[Len(P)]) /\ FrameLen(writer, P[Len(P)]) \in Nat \ {0}
  BY <1>7, <1>8, FrameSpelled, SentSize
<1>10. e[Len(P)] = e[Len(P) - 1] + FrameLen(writer, P[Len(P)]) BY <1>2, <1>5 DEF Spells, Laid
<1>11. e[Len(P)] \in Int /\ e[Len(P) - 1] \in Int BY <1>2, <1>6
<1>12. ToWrite = out /\ ToWrite' = <<>> BY DEF ToWrite
<1>13. /\ Ahead \in Seq(Cell) /\ Len(Ahead) \in Nat /\ Len(Spelled) = Len(Ahead) + Len(out)
       /\ out \in Seq(Cell)
  BY <1>12, SFacts
<1>14. Len(Ahead) = e[Len(P) - 1]
  <2> DEFINE x == e[Len(P) - 1]
             y == e[Len(P)]
             n == FrameLen(writer, P[Len(P)])
             a == Len(Ahead)
  <2>1. y = x + n /\ a + Len(out) = y /\ Len(out) = n BY <1>3, <1>9, <1>10, <1>13
  <2>2. x \in Int /\ y \in Int /\ n \in Nat /\ a \in Nat BY <1>9, <1>11, <1>13
  <2> HIDE DEF x, y, n, a
  <2>3. a + n = x + n BY <2>1
  <2>4. a = x BY <2>2, <2>3
  <2>. QED BY <2>4 DEF a, x
<1>15. Ahead' = Ahead /\ Spelled' = Ahead
  <2>1. Ahead' = Ahead BY DEF Ahead
  <2>. QED BY <1>12, <1>13, <2>1, ConcatEmptySeq DEF Spelled
<1>16. Spells(writer, P, e, Ahead)
  <2>1. Spelled = Ahead \o out BY <1>12 DEF Spelled
  <2>2. /\ Len(Ahead) <= Len(Spelled) /\ \A i \in 1..Len(Ahead) : Ahead[i] = Spelled[i]
    <3>1. /\ Len(Ahead \o out) = Len(Ahead) + Len(out)
          /\ \A i \in 1..(Len(Ahead) + Len(out)) :
               (Ahead \o out)[i] = IF i <= Len(Ahead) THEN Ahead[i] ELSE out[i - Len(Ahead)]
      BY <1>13, ConcatProperties
    <3>2. Len(out) \in Nat /\ Len(Ahead) \in Nat /\ Len(Spelled) = Len(Ahead) + Len(out)
      BY <1>13, LenProperties
    <3>3. \A m, n \in Nat : m <= m + n /\ \A i \in 1..m : i \in 1..(m + n) /\ i <= m OBVIOUS
    <3>4. /\ Len(Ahead) <= Len(Spelled)
          /\ \A i \in 1..Len(Ahead) : i \in 1..(Len(Ahead) + Len(out)) /\ i <= Len(Ahead)
      BY <3>2, <3>3
    <3>. QED BY <2>1, <3>1, <3>4
  <2>3. Spelled \in Seq(Cell) /\ Ahead \in Seq(Cell) BY SFacts
  <2>. QED BY <1>2, <2>2, <2>3, SpellsPrefix
<1> DEFINE Q == Front(P)
           V == Front(W)
           to == [i \in 1..(Len(W) - 1) |-> at[i]]
<1>17. PICK f \in EndsOf(Q) : /\ f = [k \in 0..Len(Q) |-> e[k]] /\ Q \in Seq(Sent)
                              /\ Len(Q) = Len(P) - 1 /\ Spells(writer, Q, f, Ahead)
  <2>1. Len(Ahead) <= e[Len(P) - 1] BY <1>11, <1>14
  <2>2. Ahead \in Seq(Cell) BY <1>13
  <2>. QED BY <1>2, <1>6, <1>16, <2>1, <2>2, SpellsFront
<1>18. /\ Carries(Q, V, to) /\ \A i \in 1..(Len(W) - 1) : at[i] \in 1..(Len(P) - 1) /\ to[i] = at[i]
  <2>1. Completes(P[Len(P)]) BY <1>5, <1>7 DEF Plain, Completes, Control
  <2>. QED BY <1>2, <1>6, <2>1, CarriesFront
<1>19. \A k \in 1..(Len(P) - 1) : Q[k] = P[k] /\ k \in 1..Len(P)
  <2>1. \A k \in 1..(Len(P) - 1) : k \in 1..Len(P) BY <1>6
  <2>. QED BY <1>2, <1>6, <2>1, FrontOf
<1>20. V \in Seq(Packet) /\ Len(V) = Len(W) - 1 BY <1>2, <1>4, FrontOf
<1>21. InFlight' = V BY <1>3 DEF InFlight, V
<1> HIDE DEF Q, V, to
<1>22. f[0] = e[0] /\ f[Len(Q)] = Len(Ahead)
  <2>1. 0 \in 0..Len(Q) /\ Len(Q) \in 0..Len(Q) BY <1>6, <1>17
  <2>. QED BY <1>14, <1>17, <2>1
<1>23. e[0] < 0 => Q # <<>> /\ Q[1] = P[1]
  <2>1. SUFFICES ASSUME e[0] < 0 PROVE Q # <<>> /\ Q[1] = P[1] OBVIOUS
  <2>2. Len(P) # 1
    <3>1. SUFFICES ASSUME Len(P) = 1 PROVE FALSE OBVIOUS
    <3>2. Len(P) - 1 = 0 BY <3>1
    <3>3. Len(Ahead) = e[0] BY <1>14, <3>2
    <3>. QED BY <1>13, <2>1, <3>3
  <2>3. 1 \in 1..(Len(P) - 1) /\ Len(Q) # 0 BY <1>6, <1>17, <2>2
  <2>. QED BY <1>17, <1>19, <2>3, EmptySeq
<1>24. Start(Q, f)'
  <2>1. P[1] \in Sent
    <3>1. 1 \in 1..Len(P) BY <1>6
    <3>. QED BY <1>2, <3>1, ElementOfSeq
  <2>2. HeadLen(writer, P[1]) \in {1, 2} BY <2>1, SentSize
  <2>3. reader \in {"word", "long", "body"} => e[0] < 0 BY <1>2, <2>2 DEF Start
  <2>. QED BY <1>2, <1>22, <1>23, <2>3 DEF Start
<1>25. Linked(Q, Held', Idle)
  <2>1. Held' = Held BY DEF Held
  <2>2. \A k \in 1..(Len(Q) - 1) : Q[k + 1].before = After(Q[k])
    <3> SUFFICES ASSUME NEW k \in 1..(Len(Q) - 1) PROVE Q[k + 1].before = After(Q[k]) OBVIOUS
    <3>1. k \in 1..(Len(P) - 1) /\ k + 1 \in 1..(Len(P) - 1) BY <1>6, <1>17
    <3>. QED BY <1>2, <1>19, <3>1 DEF Linked
  <2>3. P[1].before = Held /\ Plain(P[1])
    <3>1. 1 \in 1..Len(P) BY <1>6
    <3>. QED BY <1>2, <1>6, <1>7, <3>1 DEF Linked
  <2>4. CASE Q = <<>> BY <2>1, <2>2, <2>3, <2>4 DEF Linked, Plain
  <2>5. CASE Q # <<>>
    <3>1. Len(Q) # 0 BY <1>17, <2>5, EmptySeq
    <3>2. 1 \in 1..(Len(P) - 1) /\ Len(Q) \in 1..(Len(P) - 1) BY <1>6, <1>17, <3>1
    <3>3. Q[1] = P[1] /\ Plain(Q[Len(Q)]) BY <1>7, <1>19, <3>2
    <3>4. After(Q[Len(Q)]) = Idle BY <3>3 DEF Plain, After, Control
    <3>. QED BY <2>1, <2>2, <2>3, <2>5, <3>3, <3>4 DEF Linked
  <2>. QED BY <2>4, <2>5
<1>26. Ours(Q)'
  <2>1. SUFFICES ASSUME NEW k \in 1..Len(Q) PROVE Plain(Q[k]) BY DEF Ours
  <2>2. k \in 1..(Len(P) - 1) BY <1>17
  <2>. QED BY <1>7, <1>19, <2>2
<1>27. ASSUME NEW i \in 1..Len(V) PROVE f[to[i]] <= Len(Ahead)
  <2>1. i \in 1..(Len(W) - 1) /\ i \in 1..Len(W) /\ i # Len(W) BY <1>4, <1>20
  <2>2. e[at[i]] <= Len(Ahead) BY <1>2, <2>1 DEF Writes
  <2>3. to[i] = at[i] /\ at[i] \in 1..(Len(P) - 1) BY <1>18, <2>1
  <2>4. at[i] \in 0..Len(Q) BY <1>6, <1>17, <2>3
  <2>. QED BY <1>17, <2>2, <2>3, <2>4
<1>28. Reaches(Q, f, V, to)' BY <1>15, <1>21, <1>22, <1>27 DEF Reaches
<1>29. Writes(Q, f, V, to)' BY DEF Writes
<1>30. Layout(Q, f, V, to)'
  BY <1>15, <1>17, <1>18, <1>20, <1>24, <1>25, <1>26, <1>28, <1>29 DEF Layout
<1>. QED BY <1>30 DEF Lined

(* A write that gives up drops a packet, or tears the stream.              *)
LEMMA TimeoutKeeps ==
  ASSUME IInv, SInv, Listed', WriteTimeout
  PROVE  SInv'
<1>1. /\ writer = "wss" /\ out # <<>> /\ out' = <<>> /\ DropUnwritten
      /\ conn = "open" /\ reader \notin Ended
      /\ UNCHANGED <<writer, drained, wire, conn>>
      /\ UNCHANGED <<reader, buffer, data, want, frame, inside, parts>>
      /\ broken' = IF Begun THEN broken \cup {"torn"} ELSE broken
  BY DEF WriteTimeout, Connected, reading
<1>2. Http' /\ AtEnd' BY <1>1 DEF SInv, Http, AtEnd, Ended
<1>3. CASE ~Going' BY <1>2, <1>3, GoneKeeps
<1>4. CASE Going'
  <2>1. ~Begun /\ broken' = broken BY <1>1, <1>4 DEF Going, Whole
  <2>2. Going BY <1>1, <1>4, <2>1 DEF Going, Whole
  <2>3. Undelivered /\ out = WssFrame(TRUE, "binary", PayloadOf(Last(queue))) BY <2>1 DEF Begun
  <2>4. queue' = Front(queue) BY <1>1, <2>3 DEF DropUnwritten
  <2>5. Lined' BY <1>1, <2>2, <2>3, <2>4, DropKeeps
  <2>. QED BY <1>2, <2>5 DEF SInv
<1>. QED BY <1>3, <1>4

(* What a closed socket does not take was lost when it closed.             *)
LEMMA WriteFailsKeeps ==
  ASSUME IInv, SInv, Listed', WriteFails
  PROVE  SInv'
<1>1. /\ out # <<>> /\ out' = <<>> /\ DropUnwritten /\ ~Connected
      /\ UNCHANGED <<writer, drained, wire, conn, broken>>
      /\ UNCHANGED <<reader, buffer, data, want, frame, inside, parts>>
  BY DEF WriteFails, reading
<1>2. conn # "open" => InFlight' = InFlight
  <2>1. SUFFICES ASSUME conn # "open" PROVE InFlight' = InFlight OBVIOUS
  <2>2. InFlight' = queue' BY <1>1 DEF InFlight
  <2>3. InFlight = IF Undelivered THEN Front(queue) ELSE queue BY <1>1, <2>1 DEF InFlight
  <2>. QED BY <1>1, <2>2, <2>3 DEF DropUnwritten
<1>3. Http' /\ AtEnd' BY <1>1, <1>2 DEF SInv, Http, AtEnd, Whole
<1>4. CASE ~Going' BY <1>3, <1>4, GoneKeeps
<1>5. CASE Going'
  <2>1. Going BY <1>1, <1>5 DEF Going, Whole
  <2>2. conn # "open" BY <1>1, <2>1 DEF Connected, Going
  <2>3. Spelled' = Spelled BY <1>1, <2>2 DEF Spelled, Ahead, ToWrite
  <2>4. \A P, e : Start(P, e) => Start(P, e)' BY <1>1 DEF Start
  <2>5. Lined' BY <1>1, <1>2, <2>1, <2>2, <2>3, <2>4, MovedKeeps
  <2>. QED BY <1>3, <2>5 DEF SInv
<1>. QED BY <1>4, <1>5

(* The connection ends: the packet that is being written is lost.             *)
LEMMA CutKeeps ==
  ASSUME IInv, SInv, Going, conn # "reset", conn' # "open", conn' # "closed" => conn' = "reset",
         conn' = "closed" => conn = "open" /\ Len(Spelled') = Len(Ahead),
         UNCHANGED <<writer, drained, out, queue, reader, buffer, data, want, frame, inside, parts>>,
         Spelled' \in Seq(Cell), Len(Spelled') <= Len(Ahead),
         \A i \in 1..Len(Spelled') : Spelled'[i] = Ahead[i]
  PROVE  Lined'
<1>1. PICK P, e, W, at : Layout(P, e, W, at) BY DEF SInv, Lined
<1>2. /\ P \in Seq(Sent) /\ e \in EndsOf(P) /\ W \in Seq(Packet)
      /\ Spells(writer, P, e, Spelled) /\ Start(P, e)
      /\ Linked(P, Held, Idle) /\ Carries(P, W, at) /\ Ours(P)
      /\ Reaches(P, e, W, at) /\ Writes(P, e, W, at)
      /\ \A k \in 0..Len(P) : e[k] \in Int
      /\ \A i \in 1..Len(W) : at[i] \in 1..Len(P) /\ at[i] \in 0..Len(P)
      /\ Len(P) \in 0..Len(P)
  BY <1>1, LayoutFacts
<1>3. /\ Ahead \in Seq(Cell) /\ Len(Ahead) \in Nat /\ Len(Spelled) = Len(Ahead) + Len(ToWrite)
      /\ Len(ToWrite) \in Nat /\ Spelled \in Seq(Cell) /\ ToWrite \in Seq(Cell)
      /\ Len(Spelled) \in Nat
  BY SFacts, LenProperties
<1>4. Len(Spelled') \in Nat BY LenProperties
<1>5. Len(Spelled') <= Len(Spelled) /\ \A i \in 1..Len(Spelled') : Spelled'[i] = Spelled[i]
  <2>1. Spelled = Ahead \o ToWrite BY DEF Spelled
  <2>2. \A i \in 1..(Len(Ahead) + Len(ToWrite)) :
          (Ahead \o ToWrite)[i] = IF i <= Len(Ahead) THEN Ahead[i] ELSE ToWrite[i - Len(Ahead)]
    BY <1>3, ConcatProperties
  <2>3. \A i \in 1..Len(Spelled') : i \in 1..(Len(Ahead) + Len(ToWrite)) /\ i <= Len(Ahead)
    BY <1>3, <1>4
  <2>. QED BY <1>3, <1>4, <2>1, <2>2, <2>3
<1>6. Spells(writer', P, e, Spelled') BY <1>2, <1>3, <1>5, SpellsPrefix
<1>7. Start(P, e)' BY <1>2 DEF Start
<1>8. /\ Len(InFlight) \in 0..Len(W) /\ (W # <<>> => Len(W) \in 1..Len(W))
      /\ \A i \in 1..Len(InFlight) : i \in 1..Len(W)
  BY <1>1, InFlightLength
<1>9. Reaches(P, e, W, at)'
  <2>1. CASE conn = "open"
    <3>1. queue = W /\ InFlight = W /\ Len(Spelled) = e[Len(P)]
      <4>1. InFlight = queue BY <2>1 DEF InFlight
      <4>. QED BY <1>2, <2>1, <4>1 DEF Reaches
    <3>2. CASE out # <<>> /\ Undelivered
      <4>1. W # <<>> BY <3>1, <3>2 DEF Undelivered
      <4>2. InFlight' = Front(W) BY <2>1, <3>1, <3>2 DEF InFlight, Undelivered
      <4>3. at[Len(W)] = Len(P) BY <1>2, <1>8, <2>1, <3>2, <4>1 DEF Writes
      <4>4. Len(ToWrite) # 0
        <5>1. ToWrite = out BY <2>1 DEF ToWrite
        <5>. QED BY <1>3, <3>2, <5>1, EmptySeq
      <4>5. Len(Spelled') < e[at[Len(W)]] BY <1>3, <1>4, <3>1, <4>3, <4>4
      <4>6. conn' # "reset" => \A i \in 1..Len(InFlight') : e[at[i]] <= Len(Spelled')
        <5>1. SUFFICES ASSUME conn' # "reset", NEW i \in 1..Len(InFlight')
                       PROVE e[at[i]] <= Len(Spelled')
          OBVIOUS
        <5>2. Len(InFlight') = Len(W) - 1 /\ Len(W) \in Nat BY <1>2, <4>1, <4>2, FrontOf
        <5>3. i \in 1..Len(W) /\ i # Len(W) BY <5>2
        <5>4. e[at[i]] <= Len(Ahead) BY <1>2, <2>1, <3>2, <5>3 DEF Writes
        <5>. QED BY <5>1, <5>4
      <4>. QED BY <4>1, <4>2, <4>5, <4>6 DEF Reaches
    <3>3. CASE ~(out # <<>> /\ Undelivered)
      <4>1. InFlight' = W BY <3>1, <3>3 DEF InFlight, Undelivered
      <4>2. conn' # "reset" => \A i \in 1..Len(InFlight') : e[at[i]] <= Len(Spelled')
        <5>1. SUFFICES ASSUME conn' # "reset", NEW i \in 1..Len(W) PROVE e[at[i]] <= Len(Ahead)
          BY <4>1
        <5>2. CASE out # <<>> BY <1>2, <2>1, <3>3, <5>2 DEF Writes
        <5>3. CASE out = <<>>
          <6>1. ToWrite = <<>> BY <5>3 DEF ToWrite
          <6>2. Len(Spelled) = Len(Ahead)
            <7>1. Len(ToWrite) = 0 BY <6>1, EmptySeq
            <7>. QED BY <1>3, <7>1
          <6>3. e[at[i]] <= Len(Spelled) BY <1>2, <2>1, <3>1 DEF Reaches
          <6>. QED BY <6>2, <6>3
        <5>. QED BY <5>2, <5>3
      <4>. QED BY <4>1, <4>2 DEF Reaches
    <3>. QED BY <3>2, <3>3
  <2>2. CASE conn # "open"
    <3>1. InFlight' = InFlight /\ conn' = "reset" BY <2>2 DEF InFlight, Undelivered
    <3>2. InFlight = W \/ (W # <<>> /\ InFlight = Front(W) /\ Len(Spelled) < e[at[Len(W)]])
      BY <1>2 DEF Reaches
    <3>3. W # <<>> /\ Len(Spelled) < e[at[Len(W)]] => Len(Spelled') < e[at[Len(W)]]
      <4>1. W # <<>> => e[at[Len(W)]] \in Int BY <1>2, <1>8
      <4>. QED BY <1>3, <1>4, <1>5, <4>1
    <3>. QED BY <3>1, <3>2, <3>3 DEF Reaches
  <2>. QED BY <2>1, <2>2
<1>10. Writes(P, e, W, at)' BY DEF Writes
<1>11. Held' = Held /\ Ours(P)' BY <1>2 DEF Held, Ours
<1>12. Layout(P, e, W, at)' BY <1>2, <1>6, <1>7, <1>9, <1>10, <1>11 DEF Layout
<1>. QED BY <1>12 DEF Lined

(* A close leaves what is on the wire, a reset does not.                   *)
LEMMA CloseKeeps ==
  ASSUME IInv, SInv, Listed', Close \/ Reset
  PROVE  SInv'
<1>1. /\ UNCHANGED <<writer, drained, out, queue, broken>>
      /\ UNCHANGED <<reader, buffer, data, want, frame, inside, parts>>
      /\ reader \notin Ended /\ conn # "reset" /\ conn' \in {"closed", "reset"}
      /\ conn' = "closed" => conn = "open" /\ wire' = wire
      /\ conn' = "reset" => wire' = <<>>
  BY DEF Close, Reset, reading
<1>2. Http' /\ AtEnd' BY <1>1 DEF SInv, Http, AtEnd, Ended
<1>3. CASE ~Going'
  BY <1>1, <1>2, <1>3, GoneKeeps
<1>4. CASE Going'
  <2>1. Going BY <1>1, <1>4 DEF Going, Whole
  <2>2. /\ data \in Seq(Cell) /\ buffer \in Seq(Cell) /\ wire \in Seq(Cell) /\ <<>> \in Seq(Cell)
        /\ Ahead \in Seq(Cell)
    BY Facts, SFacts
  <2>3. Spelled' = Ahead' \o <<>> BY <1>1 DEF Spelled, ToWrite
  <2>4. /\ Ahead' \in Seq(Cell) /\ Len(Ahead') <= Len(Ahead)
        /\ \A i \in 1..Len(Ahead') : Ahead'[i] = Ahead[i]
        /\ conn' = "closed" => Ahead' = Ahead
    <3>1. CASE wire' = wire
      <4>1. Ahead' = Ahead BY <1>1, <3>1 DEF Ahead
      <4>2. Len(Ahead) \in Nat BY <2>2, LenProperties
      <4>. QED BY <2>2, <4>1, <4>2
    <3>2. CASE wire' = <<>> /\ conn' = "reset" /\ reader # "http"
      <4> DEFINE d == data \o buffer
      <4>1. d \in Seq(Cell) BY <2>2, ConcatProperties
      <4>2. Ahead = d \o wire /\ Ahead' = d \o <<>> BY <1>1, <3>2 DEF Ahead
      <4> HIDE DEF d
      <4>3. Ahead' = d BY <4>1, <4>2, ConcatEmptySeq
      <4>4. Len(d) \in Nat /\ Len(wire) \in Nat BY <2>2, <4>1, LenProperties
      <4>5. /\ Len(d \o wire) = Len(d) + Len(wire)
            /\ \A i \in 1..(Len(d) + Len(wire)) :
                 (d \o wire)[i] = IF i <= Len(d) THEN d[i] ELSE wire[i - Len(d)]
        BY <2>2, <4>1, ConcatProperties
      <4>6. \A i \in 1..Len(d) : i \in 1..(Len(d) + Len(wire)) /\ i <= Len(d) BY <4>4
      <4>7. \A i \in 1..Len(d) : d[i] = (d \o wire)[i] BY <4>5, <4>6
      <4>8. Len(d) <= Len(d \o wire) BY <4>4, <4>5
      <4>. QED BY <3>2, <4>1, <4>2, <4>3, <4>7, <4>8
    <3>3. CASE wire' = <<>> /\ conn' = "reset" /\ reader = "http"
      <4>1. Ahead' = <<>> BY <1>1, <3>3 DEF Ahead
      <4>2. Len(Ahead') = 0 /\ Len(Ahead) \in Nat BY <2>2, <4>1, EmptySeq, LenProperties
      <4>3. \A i \in 1..0 : FALSE OBVIOUS
      <4>. QED BY <2>2, <3>3, <4>1, <4>2, <4>3
    <3>. QED BY <1>1, <3>1, <3>2, <3>3
  <2>5. Spelled' = Ahead' BY <2>3, <2>4, ConcatEmptySeq
  <2>6. Lined' BY <1>1, <2>1, <2>4, <2>5, CutKeeps
  <2>. QED BY <1>2, <2>6 DEF SInv
<1>. QED BY <1>3, <1>4

-----------------------------------------------------------------------------
(* The thread stops *)

(* At an orderly end of the stream nothing is under way any more.            *)
LEMMA NothingLeft ==
  ASSUME IInv, SInv, Whole, AtEof, conn # "reset"
  PROVE  InFlight = <<>>
<1>1. /\ reader \notin Ended /\ buffer = <<>> /\ wire = <<>> /\ conn # "open"
      /\ reader # "http" => Len(data) < want
  BY DEF AtEof, Starved
<1>2. Going BY <1>1 DEF Going
<1>3. PICK P, e, W, at : Layout(P, e, W, at) BY <1>2 DEF SInv, Lined
<1>4. /\ P \in Seq(Sent) /\ Spells(writer, P, e, Spelled) /\ Start(P, e) /\ Reaches(P, e, W, at)
      /\ \A k \in 0..Len(P) : e[k] \in Int
      /\ \A j, k \in 0..Len(P) : j <= k => e[j] <= e[k]
      /\ \A i \in 1..Len(W) : at[i] \in 1..Len(P) /\ at[i] \in 0..Len(P)
      /\ Len(P) \in Nat
  BY <1>3, LayoutFacts
<1>5. reader # "http" BY <1>1 DEF SInv, Http
<1>6. Len(Spelled) < want
  <2>1. data \in Seq(Cell) /\ <<>> \in Seq(Cell) BY Facts
  <2>2. ToWrite = <<>> /\ Ahead = (data \o <<>>) \o <<>> BY <1>1, <1>5 DEF ToWrite, Ahead
  <2>3. Spelled = data BY <2>1, <2>2, ConcatEmptySeq DEF Spelled
  <2>. QED BY <1>1, <1>5, <2>3
<1>7. SUFFICES ASSUME InFlight # <<>> PROVE FALSE OBVIOUS
<1>8. 1 \in 1..Len(InFlight) /\ 1 \in 1..Len(W)
  <2>1. InFlight \in Seq(Packet) BY SFacts
  <2>2. Len(InFlight) \in Nat \ {0} BY <1>7, <2>1, EmptySeq
  <2>3. 1 \in 1..Len(InFlight) BY <2>2
  <2>. QED BY <1>3, <2>3, InFlightLength
<1>9. at[1] \in 1..Len(P) /\ at[1] \in 0..Len(P) /\ e[at[1]] \in Int BY <1>4, <1>8
<1>10. 1 \in 1..Len(P) /\ 0 \in 0..Len(P) /\ 1 \in 0..Len(P) /\ 1 <= at[1] BY <1>4, <1>9
<1>11. e[1] <= e[at[1]] BY <1>4, <1>9, <1>10
<1>12. e[at[1]] <= Len(Spelled) BY <1>4, <1>8 DEF Reaches
<1>13. e[0] \in Int /\ e[1] \in Int BY <1>4, <1>10
<1>14. e[1] = e[0] + (HeadLen(writer, P[1]) + Size(P[1]))
  <2>1. 1 - 1 = 0 OBVIOUS
  <2>. QED BY <1>4, <1>10, <2>1 DEF Spells, Laid, FrameLen
<1>15. Size(P[1]) \in Nat /\ HeadLen(writer, P[1]) \in {1, 2}
  <2>1. P[1] \in Sent BY <1>4, <1>10, ElementOfSeq
  <2>. QED BY <2>1, SentSize
<1>16. Len(Spelled) \in Nat /\ want \in Nat BY SFacts, Facts
<1>17. e[1] < want BY <1>6, <1>9, <1>11, <1>12, <1>13, <1>16
<1>18. reader \in {"head", "word", "long", "body"} BY <1>1, <1>5 DEF IInv, TypeOK
<1>19. CASE reader = "head"
  <2>1. e[0] = 0 /\ want = 1 BY <1>4, <1>19 DEF Start, IInv, Shape
  <2>. QED BY <1>14, <1>15, <1>17, <2>1
<1>20. CASE reader \in {"word", "long"}
  <2>1. e[0] = -1 /\ want = 1 /\ HeadLen(writer, P[1]) = 2 BY <1>4, <1>20 DEF Start, IInv, Shape
  <2>. QED BY <1>14, <1>15, <1>17, <2>1
<1>21. CASE reader = "body"
  <2>1. e[0] = -HeadLen(writer, P[1]) /\ want = Size(P[1]) BY <1>4, <1>21 DEF Start
  <2>. QED BY <1>14, <1>15, <1>17, <2>1
<1>. QED BY <1>18, <1>19, <1>20, <1>21

(* However the thread ends, nothing is read after it.                      *)
LEMMA StopKeeps ==
  ASSUME IInv, SInv, Listed', Eof \/ ReadTimeout \/ ReaderCloses
  PROVE  SInv'
<1>1. PICK how \in {"eof", "closed"} : Stops(how) /\ (how = "eof" => AtEof)
  BY DEF Eof, ReadTimeout, ReaderCloses
<1>2. reader' = how /\ UNCHANGED <<writer, drained, out, conn, queue, broken>>
  BY <1>1 DEF Stops, Ends, Goto, sending
<1>3. ~Going' /\ Http' BY <1>2 DEF Going, Ended, Http
<1>4. InFlight' = InFlight BY <1>2 DEF InFlight, Undelivered
<1>5. AtEnd'
  <2>1. SUFFICES ASSUME how = "eof" PROVE conn # "open" /\ (Whole /\ conn # "reset" => InFlight = <<>>)
    BY <1>2, <1>4 DEF AtEnd, Whole
  <2>2. AtEof BY <1>1, <2>1
  <2>. QED BY <2>2, NothingLeft DEF AtEof
<1>. QED BY <1>3, <1>5, GoneKeeps

-----------------------------------------------------------------------------
(* The invariant holds at first and is kept. *)

(* No frame, no packet.                                                    *)
LEMMA SInvInit ==
  ASSUME Init
  PROVE  SInv
<1> USE DEF Init
<1>1. <<>> \in Seq(Packet) /\ <<>> \in Seq(Cell) /\ <<>> \in Seq(Sent) /\ Len(<<>>) = 0 BY EmptySeq
<1>2. InFlight = <<>> BY DEF InFlight
<1>3. Spelled = <<>>
  <2>1. Tail(<<Crlf>>) = <<>>
    <3>1. <<Crlf>> \in Seq(Cell) /\ <<Crlf>> # <<>> /\ Len(<<Crlf>>) = 1 BY DEF Cell
    <3>2. Tail(<<Crlf>>) \in Seq(Cell) /\ Len(Tail(<<Crlf>>)) = 0 BY <3>1, HeadTailProperties
    <3>. QED BY <3>2, EmptySeq
  <2>2. <<>> \o <<>> = <<>> BY <1>1, ConcatEmptySeq
  <2>3. Ahead = <<>> BY <2>1, <2>2 DEF Ahead
  <2>. QED BY <2>2, <2>3 DEF Spelled, ToWrite
<1>4. \A i \in 1..0 : FALSE OBVIOUS
<1>5. Lined
  <2> DEFINE P == <<>>
             e == [k \in 0..0 |-> 0]
             W == <<>>
             at == [i \in 1..0 |-> 0]
  <2>1. P \in Seq(Sent) /\ Len(P) = 0 /\ W \in Seq(Packet) /\ Len(W) = 0 BY <1>1
  <2>2. e \in EndsOf(P) /\ e[0] = 0 BY <2>1 DEF EndsOf
  <2>3. at \in Marks(P, W) BY <2>1, <1>4 DEF Marks
  <2>4. P = <<>> /\ W = <<>> OBVIOUS
  <2> HIDE DEF P, e, W, at
  <2>5. \A j, k \in 0..0 : j = 0 /\ k = 0 OBVIOUS
  <2>6. Spells(writer, P, e, Spelled) BY <1>1, <1>3, <1>4, <2>1, <2>2, <2>5 DEF Spells, Laid, ReadsAs
  <2>7. reader \in {"http", "head"} OBVIOUS
  <2>8. Start(P, e) BY <2>2, <2>7 DEF Start
  <2>9. Linked(P, Held, Idle)
    <3>1. Held = Idle BY DEF Held, Idle
    <3>2. \A k \in 1..(Len(P) - 1) : FALSE BY <2>1
    <3>. QED BY <2>4, <3>1, <3>2 DEF Linked
  <2>10. Carries(P, W, at) BY <1>4, <2>1, <2>3 DEF Carries
  <2>11. Ours(P) BY <1>4, <2>1 DEF Ours
  <2>12. Reaches(P, e, W, at) BY <1>1, <1>2, <1>3, <1>4, <2>1, <2>2, <2>4 DEF Reaches
  <2>13. Writes(P, e, W, at) BY DEF Writes
  <2>14. Layout(P, e, W, at)
    BY <2>1, <2>2, <2>6, <2>8, <2>9, <2>10, <2>11, <2>12, <2>13 DEF Layout
  <2>. QED BY <2>14 DEF Lined
<1>6. Http /\ AtEnd
  <2>1. <<Crlf>> # <<>> OBVIOUS
  <2>. QED BY <2>1 DEF Http, AtEnd
<1>7. Listed BY <1>1, <1>4 DEF Listed
<1>. QED BY <1>5, <1>6, <1>7 DEF SInv

(* The packets under way are none that is still to be drained.               *)
LEMMA ListedStep ==
  ASSUME IInv, Listed, [Next]_vars
  PROVE  Listed'
<1>1. queue \in Seq(Packet) /\ Len(queue) \in Nat /\ \A i \in 1..Len(queue) : queue[i].n <= drained
  BY LenProperties DEF Listed
<1>2. drained \in Nat BY LinkAssumption DEF IInv, TypeOK
<1>3. \A i \in 1..Len(queue) : queue[i].n \in Nat
  <2>1. \A p \in Packet : p.n \in Nat BY LinkAssumption DEF Packet
  <2>. QED BY <1>1, <2>1, ElementOfSeq
<1>4. CASE queue' = queue /\ drained' \in {drained, drained + 1}
  <2>1. \A m, n \in Nat : m <= n => m <= n + 1 OBVIOUS
  <2>2. \A i \in 1..Len(queue) : queue[i].n <= drained + 1 BY <1>1, <1>2, <1>3, <2>1
  <2>. QED BY <1>1, <1>4, <2>2 DEF Listed
<1>5. ASSUME NEW p \in Packet, Drains(p), Queued(p) PROVE Listed'
  <2>1. queue' = Append(queue, p) /\ drained' = p.n /\ p.n = drained + 1
    BY <1>5 DEF Drains, Queued
  <2>2. /\ Append(queue, p) \in Seq(Packet) /\ Len(Append(queue, p)) = Len(queue) + 1
        /\ Append(queue, p)[Len(queue) + 1] = p
        /\ \A i \in 1..Len(queue) : Append(queue, p)[i] = queue[i]
    BY <1>1, AppendProperties
  <2>3. ASSUME NEW i \in 1..(Len(queue) + 1) PROVE Append(queue, p)[i].n <= drained + 1
    <3>1. CASE i = Len(queue) + 1 BY <1>2, <2>1, <2>2, <3>1
    <3>2. CASE i \in 1..Len(queue) BY <1>1, <1>2, <1>3, <2>2, <3>2
    <3>. QED BY <1>1, <3>1, <3>2
  <2>. QED BY <2>1, <2>2, <2>3 DEF Listed
<1>6. CASE queue # <<>> /\ queue' = Tail(queue) /\ drained' = drained
  <2>1. /\ Tail(queue) \in Seq(Packet) /\ Len(Tail(queue)) = Len(queue) - 1
        /\ \A i \in 1..(Len(queue) - 1) : Tail(queue)[i] = queue[i + 1]
    BY <1>1, <1>6, HeadTailProperties
  <2>2. \A i \in 1..(Len(queue) - 1) : i + 1 \in 1..Len(queue) BY <1>1
  <2>. QED BY <1>1, <1>6, <2>1, <2>2 DEF Listed
<1>7. CASE queue # <<>> /\ queue' = Front(queue) /\ drained' = drained
  <2>1. /\ Front(queue) \in Seq(Packet) /\ Len(Front(queue)) = Len(queue) - 1
        /\ \A i \in 1..(Len(queue) - 1) : Front(queue)[i] = queue[i]
    BY <1>1, <1>7, FrontOf
  <2>2. \A i \in 1..(Len(queue) - 1) : i \in 1..Len(queue) BY <1>1
  <2>. QED BY <1>1, <1>7, <2>1, <2>2 DEF Listed
<1>8. CASE UNCHANGED vars BY <1>4, <1>8 DEF vars, sending
<1>9. ASSUME NEW p \in Packet,
             \/ WssSend(p) \/ WssOversized(p) \/ TcpSend(p)
             \/ \E cut \in 0..p.size, ping \in BOOLEAN : OtherSends(p, cut, ping)
      PROVE Listed'
  <2>1. CASE WssOversized(p) BY <1>4, <2>1 DEF WssOversized, Drains
  <2>2. CASE WssSend(p) \/ TcpSend(p) BY <1>5, <2>2 DEF WssSend, TcpSend
  <2>3. CASE \E cut \in 0..p.size, ping \in BOOLEAN : OtherSends(p, cut, ping)
    BY <1>5, <2>3 DEF OtherSends
  <2>. QED BY <1>9, <2>1, <2>2, <2>3
<1>10. ASSUME NEW op \in Control, OtherControls(op) PROVE Listed'
  BY <1>4, <1>10 DEF OtherControls
<1>11. CASE WriteTimeout \/ WriteFails
  <2>1. DropUnwritten /\ drained' = drained BY <1>11 DEF WriteTimeout, WriteFails
  <2>. QED BY <1>4, <1>7, <2>1 DEF DropUnwritten, Undelivered
<1>12. CASE WriteSome \/ Close \/ Reset \/ ReadHead \/ ReadSome
  BY <1>4, <1>12 DEF WriteSome, Close, Reset, ReadHead, ReadSome, sending
<1>13. CASE Eof \/ ReadTimeout \/ ReaderCloses
  BY <1>4, <1>13 DEF Eof, ReadTimeout, ReaderCloses, Stops, sending
<1>14. CASE TcpLength \/ WssLength \/ WordLength \/ LongLength
  BY <1>4, <1>14 DEF TcpLength, WssLength, WordLength, LongLength, sending
<1>15. CASE FirstFrame \/ LaterFrame
  <2>1. drained' = drained BY <1>15 DEF FirstFrame, LaterFrame, sending
  <2>2. queue' = queue \/ (queue # <<>> /\ queue' = Tail(queue))
    BY <1>15 DEF FirstFrame, LaterFrame, Complete, Collect, Refuse
  <2>. QED BY <1>4, <1>6, <2>1, <2>2
<1>16. CASE Write \/ WriteTimeout \/ Close \/ Reset BY <1>11, <1>12, <1>16 DEF Write
<1>17. CASE Read \/ ReadTimeout \/ ReaderCloses BY <1>12, <1>13, <1>14, <1>15, <1>17 DEF Read
<1>. QED BY <1>8, <1>9, <1>10, <1>16, <1>17 DEF Next

(* One lemma per action.                                                   *)
LEMMA SInvStep ==
  ASSUME IInv, SInv, [Next]_vars
  PROVE  SInv'
<1>1. Listed' BY ListedStep DEF SInv
<1>2. CASE UNCHANGED vars
  <2>1. /\ UNCHANGED <<writer, drained, out, conn, wire, queue, broken>>
        /\ UNCHANGED <<reader, buffer, data, want, frame, inside, parts>>
    BY <1>2 DEF vars, sending, reading
  <2>2. InFlight' = InFlight /\ Undelivered' = Undelivered BY <2>1 DEF InFlight, Undelivered
  <2>3. Http' /\ AtEnd' BY <2>1, <2>2 DEF SInv, Http, AtEnd, Whole
  <2>4. CASE ~Going' BY <1>1, <2>3, <2>4, GoneKeeps
  <2>5. CASE Going'
    <3>1. Going BY <2>1, <2>5 DEF Going, Whole
    <3>2. Spelled' = Spelled /\ Ahead' = Ahead BY <2>1 DEF Spelled, Ahead, ToWrite
    <3>3. \A P, e : Start(P, e) => Start(P, e)' BY <2>1 DEF Start
    <3>4. Len(Ahead) \in Nat BY SFacts
    <3>5. Len(Ahead') \in Nat /\ Len(Ahead) <= Len(Ahead') BY <3>2, <3>4
    <3>6. Lined' BY <2>1, <2>2, <3>1, <3>2, <3>3, <3>5, MovedKeeps
    <3>. QED BY <1>1, <2>3, <3>6 DEF SInv
  <2>. QED BY <2>4, <2>5
<1>3. ASSUME NEW p \in Packet,
             \/ WssSend(p) \/ WssOversized(p) \/ TcpSend(p)
             \/ \E cut \in 0..p.size, ping \in BOOLEAN : OtherSends(p, cut, ping)
      PROVE SInv'
  BY <1>1, <1>3, SdkSendKeeps, OversizedKeeps, OtherSendKeeps
<1>4. ASSUME NEW op \in Control, OtherControls(op) PROVE SInv'
  BY <1>1, <1>4, ControlKeeps
<1>5. CASE Write \/ WriteTimeout \/ Close \/ Reset
  BY <1>1, <1>5, WriteKeeps, WriteFailsKeeps, TimeoutKeeps, CloseKeeps DEF Write
<1>6. CASE Read \/ ReadTimeout \/ ReaderCloses
  BY <1>1, <1>6, ReadHeadKeeps, ReadSomeKeeps, StopKeeps, LengthKeeps, FrameKeeps DEF Read
<1>. QED BY <1>2, <1>3, <1>4, <1>5, <1>6 DEF Next

(* The invariant holds for every writer, size, room and boundary of lengths.*)
LEMMA SInvHolds == Spec => [](IInv /\ SInv)
<1>1. Init => IInv /\ SInv BY InitialInv, SInvInit
<1>2. ASSUME IInv /\ SInv, [Next]_vars PROVE SInv' BY <1>2, SInvStep
<1>3. Spec => []IInv BY Inductive
<1>. QED BY <1>1, <1>2, <1>3, PTL DEF Spec

-----------------------------------------------------------------------------
(* Every step is one of the abstract stream, or none. *)

(* What a frame completes is, while frames line up, the next packet.          *)
LEMMA CompletesNext ==
  ASSUME IInv, SInv, Whole, Reads("body"), frame.final, frame.op \notin Control
  PROVE  queue # <<>> /\ parts \o data = PayloadOf(queue[1])
<1>1. Going BY DEF Going, Ended, Reads
<1>2. PICK P, e, W, at : Layout(P, e, W, at) BY <1>1 DEF SInv, Lined
<1>3. frame = Kind(P[1]) BY <1>1, <1>2, FrameFacts
<1>4. Completes(P[1]) BY <1>3 DEF Kind, Completes
<1>. QED BY <1>1, <1>2, <1>4, Delivers

(* The end of a frame receives a packet, garbles, or changes nothing.      *)
LEMMA FrameIsStream ==
  ASSUME IInv, SInv, FirstFrame \/ LaterFrame
  PROVE  [Stream!Next]_<<queue, got, Whole>>
<1>1. broken' = broken /\ Reads("body") BY DEF FirstFrame, LaterFrame
<1>2. /\ data \in Seq(Cell) /\ parts \in Seq(Cell) /\ got \in Seq(Seq(Cell))
      /\ ~inside => parts = <<>>
  BY Facts DEF IInv, Shape
<1>3. CASE UNCHANGED <<got, queue>> BY <1>1, <1>3 DEF Whole
<1>4. ASSUME frame.final, frame.op \notin Control, Complete("binary", parts \o data)
      PROVE [Stream!Next]_<<queue, got, Whole>>
  <2> DEFINE m == parts \o data
  <2>1. /\ got' = Append(got, m) /\ queue' = IF Whole /\ queue # <<>> THEN Tail(queue) ELSE queue
    BY <1>4 DEF Complete
  <2>2. m \in Seq(Cell) BY <1>2, ConcatProperties
  <2>3. CASE Whole
    <3>1. queue # <<>> /\ m = PayloadOf(queue[1]) BY <1>1, <1>4, <2>3, CompletesNext
    <3> HIDE DEF m
    <3>2. Stream!Receive BY <1>1, <2>1, <2>3, <3>1 DEF Stream!Receive, Whole
    <3>. QED BY <3>2 DEF Stream!Next
  <2> HIDE DEF m
  <2>4. CASE ~Whole
    <3>1. got' # <<>> /\ Front(got') = got
      <4>1. \A s \in Seq(Seq(Cell)) : Append(s, m) # <<>> BY <2>2, AppendProperties
      <4>2. \A s \in Seq(Seq(Cell)) : Front(Append(s, m)) = s BY <2>2, FrontOfAppend
      <4>. QED BY <1>2, <2>1, <4>1, <4>2
    <3>2. queue' = queue /\ Whole' = Whole BY <1>1, <2>1, <2>4 DEF Whole
    <3>3. Stream!Garble BY <2>4, <3>1, <3>2 DEF Stream!Garble, Stream!Front, Front
    <3>. QED BY <3>3 DEF Stream!Next
  <2>. QED BY <2>3, <2>4
<1>5. Refuse \/ Collect(data) \/ Collect(parts \o data) => UNCHANGED <<got, queue>>
  BY DEF Refuse, Collect
<1>6. "binary" \notin Control /\ "continue" \notin Control BY DEF Control
<1>7. CASE FirstFrame
  <2>1. parts \o data = data
    <3>1. <<>> \o data = data BY <1>2, ConcatEmptySeq
    <3>. QED BY <1>2, <1>7, <3>1 DEF FirstFrame
  <2>2. CASE frame.op \in Control /\ Complete(frame.op, data)
    <3>1. UNCHANGED <<got, queue>> BY <1>6, <2>2 DEF Complete
    <3>. QED BY <1>3, <3>1
  <2>. QED BY <1>3, <1>4, <1>5, <1>6, <1>7, <2>1, <2>2 DEF FirstFrame
<1>8. CASE LaterFrame BY <1>3, <1>4, <1>5, <1>6, <1>8 DEF LaterFrame, OpOfFirst
<1>. QED BY <1>7, <1>8

(* One case per action.                                                    *)
LEMMA StepIsStream ==
  ASSUME IInv, SInv, [Next]_vars
  PROVE  [Stream!Next]_<<queue, got, Whole>>
<1>1. CASE UNCHANGED <<queue, got, broken>> BY <1>1 DEF Whole
<1>2. CASE UNCHANGED vars BY <1>1, <1>2 DEF vars
<1>3. ASSUME NEW p \in Packet, Queued(p) PROVE [Stream!Next]_<<queue, got, Whole>>
  <2>1. queue' = Append(queue, p) /\ UNCHANGED <<got, broken>> BY <1>3 DEF Queued
  <2>2. Stream!Send BY <2>1 DEF Stream!Send, Whole
  <2>. QED BY <2>2 DEF Stream!Next
<1>4. ASSUME NEW p \in Packet,
             \/ WssSend(p) \/ WssOversized(p) \/ TcpSend(p)
             \/ \E cut \in 0..p.size, ping \in BOOLEAN : OtherSends(p, cut, ping)
      PROVE [Stream!Next]_<<queue, got, Whole>>
  <2>1. Queued(p) \/ UNCHANGED <<queue, got, broken>>
    BY <1>4 DEF WssSend, TcpSend, OtherSends, WssOversized
  <2>. QED BY <1>1, <1>3, <2>1
<1>5. ASSUME NEW op \in Control, OtherControls(op) PROVE [Stream!Next]_<<queue, got, Whole>>
  BY <1>1, <1>5 DEF OtherControls
<1>6. CASE WriteTimeout \/ WriteFails
  <2>1. DropUnwritten /\ got' = got /\ (broken' = broken \/ broken' # {})
    BY <1>6 DEF WriteTimeout, WriteFails
  <2>2. CASE Undelivered
    <3>1. queue # <<>> /\ queue' = Front(queue) BY <2>1, <2>2 DEF Undelivered, DropUnwritten
    <3>2. Whole' \in {Whole, FALSE} BY <2>1 DEF Whole
    <3>3. Stream!Lose BY <2>1, <3>1, <3>2 DEF Stream!Lose, Stream!Front, Front
    <3>. QED BY <3>3 DEF Stream!Next
  <2>3. CASE ~Undelivered
    <3>1. queue' = queue BY <2>1, <2>3 DEF DropUnwritten
    <3>2. CASE broken' = broken BY <1>1, <2>1, <3>1, <3>2
    <3>3. CASE broken' # {}
      <4>1. Stream!Break BY <2>1, <3>1, <3>3 DEF Stream!Break, Whole
      <4>. QED BY <4>1 DEF Stream!Next
    <3>. QED BY <2>1, <3>2, <3>3
  <2>. QED BY <2>2, <2>3
<1>7. CASE WriteSome \/ Close \/ Reset \/ ReadHead \/ ReadSome
  BY <1>1, <1>7 DEF WriteSome, Close, Reset, ReadHead, ReadSome
<1>8. CASE Eof \/ ReadTimeout \/ ReaderCloses
  BY <1>1, <1>8 DEF Eof, ReadTimeout, ReaderCloses, Stops
<1>9. CASE TcpLength \/ WssLength \/ WordLength \/ LongLength
  <2>1. UNCHANGED <<queue, got>> /\ (broken' = broken \/ broken' # {})
    BY <1>9 DEF TcpLength, WssLength, WordLength, LongLength
  <2>2. CASE broken' = broken BY <1>1, <2>1, <2>2
  <2>3. CASE broken' # {}
    <3>1. Stream!Break BY <2>1, <2>3 DEF Stream!Break, Whole
    <3>. QED BY <3>1 DEF Stream!Next
  <2>. QED BY <2>1, <2>2, <2>3
<1>10. CASE FirstFrame \/ LaterFrame BY <1>10, FrameIsStream
<1>11. CASE Write \/ WriteTimeout \/ Close \/ Reset BY <1>6, <1>7, <1>11 DEF Write
<1>12. CASE Read \/ ReadTimeout \/ ReaderCloses BY <1>7, <1>8, <1>9, <1>10, <1>12 DEF Read
<1>. QED BY <1>2, <1>4, <1>5, <1>11, <1>12 DEF Next

(* A link is a stream of packets, over WSS or TCP and from this SDK or from   *)
(* an implementation that fragments and pings: what it delivers are the       *)
(* packets drained, whole and in order, but for those that a failing write     *)
(* lost, until a write is torn or a length misread (wss_bearer.rb:32-178,     *)
(* tcp_bearer.rb:14-52).                                                   *)
THEOREM LinkIsStream == Spec => ImplementsStream
<1>1. Init => Stream!Init BY DEF Init, Stream!Init, Whole
<1>2. ASSUME IInv /\ SInv, [Next]_vars PROVE [Stream!Next]_<<queue, got, Whole>>
  BY <1>2, StepIsStream
<1>. QED BY <1>1, <1>2, SInvHolds, PTL DEF Spec, ImplementsStream, Stream!Spec

(* A receive thread that ends at an orderly end of the stream has delivered   *)
(* all but the packet whose write was cut, whatever the sizes, the room, the   *)
(* fragments and the pings.                                                 *)
THEOREM EofLosesNothing == Spec => []EofMeansAll
<1>1. ASSUME IInv, SInv PROVE EofMeansAll
  <2>1. SUFFICES ASSUME reader = "eof", Whole, conn # "reset"
                 PROVE Len(queue) <= (IF out = <<>> THEN 0 ELSE 1)
    BY DEF EofMeansAll
  <2>2. conn # "open" /\ InFlight = <<>> BY <1>1, <2>1 DEF SInv, AtEnd
  <2>3. queue \in Seq(Packet) BY <1>1 DEF SInv, Listed
  <2>4. CASE out # <<>> /\ Undelivered
    <3>1. queue # <<>> /\ Front(queue) = <<>> BY <2>2, <2>4 DEF InFlight, Undelivered
    <3>2. Len(queue) \in Nat \ {0} /\ Len(Front(queue)) = Len(queue) - 1 BY <2>3, <3>1, FrontOf
    <3>3. Len(<<>>) = 0 BY EmptySeq
    <3>4. \A n \in Nat : n - 1 = 0 => n <= 1 OBVIOUS
    <3>5. Len(queue) <= 1 BY <3>1, <3>2, <3>3, <3>4
    <3>. QED BY <2>4, <3>5
  <2>5. CASE ~(out # <<>> /\ Undelivered)
    <3>1. queue = <<>> BY <2>2, <2>5 DEF InFlight
    <3>. QED BY <3>1, EmptySeq
  <2>. QED BY <2>4, <2>5
<1>. QED BY <1>1, SInvHolds, PTL
=============================================================================
