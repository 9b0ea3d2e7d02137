------------------------------ MODULE LinkProofs ------------------------------
(***************************************************************************)
(* Proofs about Link, for every size of packets, cap, room and boundary of  *)
(* the length codes: the types, and the cap on what is read and delivered,  *)
(* however the stream was cut, fragmented or torn.                          *)
(***************************************************************************)
EXTENDS Link, SequenceTheorems, TLAPS

Cell == [kind : {"head"}, is : [frame : Frames, len : Nat]]
  \cup [kind : {"word", "long"}, is : Nat]
  \cup [kind : {"byte"}, is : Nat \X Nat] \cup {Crlf}

(* What flows is cells.                                                     *)
Cells ==
  /\ out \in Seq(Cell) /\ wire \in Seq(Cell) /\ buffer \in Seq(Cell)
  /\ data \in Seq(Cell) /\ parts \in Seq(Cell) /\ got \in Seq(Seq(Cell))
(* Heads and lengths are one cell; a message has earlier parts only inside;  *)
(* a TCP frame is a whole message.                                          *)
Shape ==
  /\ reader \in {"head", "word", "long"} => want = 1
  /\ reader \in {"word", "long"} => writer # "tcp"
  /\ ~inside => parts = <<>>
  /\ writer = "tcp" => ~inside /\ frame = Fresh

IInv == TypeOK /\ Cells /\ Shape /\ WithinCap

-----------------------------------------------------------------------------
(* Sequences of cells *)

(* Without its first or last elements, a sequence is one of the same kind.   *)
LEMMA Piece ==
  ASSUME NEW S, NEW s \in Seq(S), NEW k \in Nat, k <= Len(s)
  PROVE  /\ SubSeq(s, 1, k) \in Seq(S) /\ Len(SubSeq(s, 1, k)) = k
         /\ SubSeq(s, k + 1, Len(s)) \in Seq(S)
<1>1. Len(s) \in Nat BY LenProperties
<1>2. \A i \in 1..k : s[i] \in S BY <1>1, ElementOfSeq
<1>3. \A i \in (k + 1)..Len(s) : s[i] \in S BY <1>1, ElementOfSeq
<1>4. SubSeq(s, 1, k) \in Seq(S) /\ Len(SubSeq(s, 1, k)) = k
  BY <1>1, <1>2, SubSeqProperties
<1>5. SubSeq(s, k + 1, Len(s)) \in Seq(S) BY <1>1, <1>3, SubSeqProperties
<1>. QED BY <1>4, <1>5

(* A payload is a sequence of cells as long as its packet.                   *)
LEMMA PayloadCells ==
  ASSUME NEW p \in Packet
  PROVE  PayloadOf(p) \in Seq(Cell) /\ Len(PayloadOf(p)) = p.size
<1>1. p.size \in Nat /\ p.n \in Nat
  <2>1. p.size \in Sizes /\ p.n \in 1..MaxPackets BY DEF Packet
  <2>2. MaxPackets \in Nat /\ Sizes \subseteq Nat BY LinkAssumption
  <2>3. p.size \in Nat BY <2>1, <2>2
  <2>4. p.n \in Nat BY <2>1, <2>2
  <2>. QED BY <2>3, <2>4
<1>2. \A i \in 1..p.size : [kind |-> "byte", is |-> <<p.n, i>>] \in Cell
  BY <1>1 DEF Cell
<1>. QED BY <1>1, <1>2 DEF PayloadOf

(* Heads are sequences of cells, and so are frames.                         *)
LEMMA HeadCells ==
  ASSUME NEW final \in BOOLEAN, NEW op \in Ops, NEW n \in Nat
  PROVE  WssHead(final, op, n) \in Seq(Cell) /\ <<HeadCell(final, op, n)>> \in Seq(Cell)
<1>1. Short \in Nat /\ Long \in Nat /\ Word \in Nat /\ 0 < Word BY LinkAssumption DEF Long
<1>2. n % Word \in Nat BY <1>1
<1>3. \A m \in Nat : HeadCell(final, op, m) \in Cell BY DEF HeadCell, Cell, Frames
<1>4. \A m \in Nat : LengthCell("word", m) \in Cell /\ LengthCell("long", m) \in Cell
  BY DEF LengthCell, Cell
<1>. QED BY <1>1, <1>2, <1>3, <1>4 DEF WssHead

LEMMA FrameCells ==
  ASSUME NEW final \in BOOLEAN, NEW op \in Ops, NEW s \in Seq(Cell)
  PROVE  WssFrame(final, op, s) \in Seq(Cell) /\ TcpFrame(s) \in Seq(Cell)
<1>1. Len(s) \in Nat BY LenProperties
<1>2. "binary" \in Ops BY DEF Ops
<1>. QED BY <1>1, <1>2, HeadCells, ConcatProperties DEF WssFrame, TcpFrame

-----------------------------------------------------------------------------
(* Steps of the receive thread *)

(* A thread that ended has nothing left of a message.                        *)
LEMMA EndsKeeps ==
  ASSUME IInv, NEW how \in Ended, Ends(how),
         UNCHANGED <<writer, drained, conn, got, broken>>, out' \in Seq(Cell)
  PROVE  IInv'
<1> USE DEF Ends, Goto
<1>1. TypeOK'
  <2>1. Fresh \in Frames BY DEF Fresh, Frames, Ops
  <2>2. Len(<<>>) <= 0 BY EmptySeq
  <2>. QED BY <2>1, <2>2 DEF IInv, TypeOK
<1>2. Cells' BY DEF IInv, Cells
<1>3. Shape' BY DEF IInv, Shape, Ended
<1>4. WithinCap' BY LinkAssumption DEF IInv, WithinCap, Ended
<1>. QED BY <1>1, <1>2, <1>3, <1>4 DEF IInv

(* A read goes on with the next cell of a head, or with the next head.       *)
LEMMA NextCellKeeps ==
  ASSUME IInv, NEW state \in {"head", "word", "long"}, NEW f \in Frames,
         Goto(state, 1, f), state # "head" => writer # "tcp",
         UNCHANGED <<writer, drained, conn, out>>,
         broken' \subseteq {"torn", "misread"}, wire' \in Seq(Cell),
         parts' \in Seq(Cell), buffer' \in Seq(Cell), got' \in Seq(Seq(Cell)),
         inside' \in BOOLEAN, ~inside' => parts' = <<>>,
         writer = "tcp" => ~inside' /\ f = Fresh,
         Len(parts') <= MaxMessage,
         \A i \in DOMAIN got' : Len(got'[i]) <= MaxMessage
  PROVE  IInv'
<1> USE DEF Goto
<1>1. TypeOK' BY DEF IInv, TypeOK
<1>2. Cells' BY DEF IInv, Cells
<1>3. Shape' BY DEF IInv, Shape
<1>4. WithinCap'
  <2>1. Len(parts') \in Nat BY LenProperties
  <2>2. reader' # "body" OBVIOUS
  <2>. QED BY <2>1, <2>2, LinkAssumption DEF WithinCap
<1>. QED BY <1>1, <1>2, <1>3, <1>4 DEF IInv

(* The payload is read only if it fits with the parts before it.             *)
LEMMA BodyKeeps ==
  ASSUME IInv, NEW f \in Frames, NEW len \in Nat, Body(f, len),
         writer = "tcp" => f = Fresh,
         UNCHANGED <<writer, drained, conn, out, queue, got, broken>>
  PROVE  IInv'
<1>1. CASE Ends("rejected") 
  <2>1. out' \in Seq(Cell) BY DEF IInv, Cells
  <2>. QED BY <1>1, <2>1, EndsKeeps DEF Ended
<1>2. CASE ~Ends("rejected")
  <2>1. /\ Goto("body", len, f) /\ UNCHANGED <<inside, parts, buffer, wire>>
        /\ len <= (IF writer = "tcp" THEN MaxMessage ELSE Remaining)
    <3>1. Remaining \in Int BY LenProperties, LinkAssumption DEF Remaining, IInv, Cells
    <3>. QED BY <1>2, <3>1, LinkAssumption DEF Body
  <2>2. TypeOK' BY <2>1 DEF Goto, IInv, TypeOK
  <2>3. Cells' BY <2>1 DEF Goto, IInv, Cells
  <2>4. Shape' BY <2>1 DEF Goto, IInv, Shape
  <2>5. WithinCap'
    <3>1. Len(parts) \in Nat /\ MaxMessage \in Nat
      BY LenProperties, LinkAssumption DEF IInv, Cells
    <3>2. writer = "tcp" => Len(parts) = 0 BY DEF IInv, Shape
    <3>3. Len(parts) + len <= MaxMessage BY <2>1, <3>1, <3>2 DEF Remaining
    <3>. QED BY <2>1, <3>1, <3>3 DEF Goto, WithinCap, IInv
  <2>. QED BY <2>2, <2>3, <2>4, <2>5 DEF IInv
<1>. QED BY <1>1, <1>2

-----------------------------------------------------------------------------
(* Every step preserves the invariant. *)

(* A step of the writer or of the network moves cells and nothing else.      *)
LEMMA WriterKeeps ==
  ASSUME IInv, UNCHANGED <<writer, reading, got>>,
         drained' \in 0..MaxPackets, conn' \in {"open", "closed", "reset"},
         broken' \subseteq {"torn", "misread"},
         out' \in Seq(Cell), wire' \in Seq(Cell)
  PROVE  IInv'
<1> USE DEF IInv, reading
<1>1. TypeOK' BY DEF TypeOK
<1>2. Cells' BY DEF Cells
<1>3. Shape' BY DEF Shape
<1>4. WithinCap' BY DEF WithinCap
<1>. QED BY <1>1, <1>2, <1>3, <1>4

LEMMA WriterStep ==
  ASSUME IInv, NEW p \in Packet,
         \/ WssSend(p) \/ WssOversized(p) \/ TcpSend(p)
         \/ \E cut \in 0..p.size, ping \in BOOLEAN : OtherSends(p, cut, ping)
  PROVE  IInv'
<1> DEFINE s == PayloadOf(p)
<1>1. s \in Seq(Cell) /\ Len(s) = p.size /\ p.size \in Nat
  BY PayloadCells, LenProperties
<1>2. "binary" \in Ops /\ "continue" \in Ops /\ "ping" \in Ops BY DEF Ops
<1>3. p.n \in 0..MaxPackets BY LinkAssumption DEF Packet
<1>4. wire \in Seq(Cell) /\ out \in Seq(Cell) /\ broken \subseteq {"torn", "misread"}
      /\ conn \in {"open", "closed", "reset"}
  BY DEF IInv, TypeOK, Cells
<1> HIDE DEF s
<1>5. CASE WssSend(p)
  <2>1. out' = WssFrame(TRUE, "binary", s) BY <1>5 DEF WssSend, s
  <2>2. out' \in Seq(Cell) BY <1>1, <1>2, <2>1, FrameCells
  <2>3. UNCHANGED <<writer, reading, got, wire, conn, broken>> /\ drained' = p.n
    BY <1>5 DEF WssSend, Drains, Queued
  <2>. QED BY <1>3, <1>4, <2>2, <2>3, WriterKeeps
<1>6. CASE WssOversized(p)
  <2>1. UNCHANGED <<writer, reading, got, wire, out, conn, broken>> /\ drained' = p.n
    BY <1>6 DEF WssOversized, Drains
  <2>. QED BY <1>3, <1>4, <2>1, WriterKeeps
<1>7. CASE TcpSend(p)
  <2>1. out' = TcpFrame(s) BY <1>7 DEF TcpSend, s
  <2>2. out' \in Seq(Cell) BY <1>1, <1>2, <2>1, FrameCells
  <2>3. UNCHANGED <<writer, reading, got, wire, conn, broken>> /\ drained' = p.n
    BY <1>7 DEF TcpSend, Drains, Queued
  <2>. QED BY <1>3, <1>4, <2>2, <2>3, WriterKeeps
<1>8. ASSUME NEW cut \in 0..p.size, NEW ping \in BOOLEAN, OtherSends(p, cut, ping)
      PROVE IInv'
  <2> DEFINE a == WssFrame(FALSE, "binary", SubSeq(s, 1, cut))
             b == IF ping THEN WssHead(TRUE, "ping", 0) ELSE <<>>
             c == WssFrame(TRUE, "continue", SubSeq(s, cut + 1, p.size))
  <2>1. out' = a \o b \o c BY <1>8 DEF OtherSends, s
  <2>2. cut \in Nat /\ cut <= Len(s) BY <1>1
  <2>3. SubSeq(s, 1, cut) \in Seq(Cell) /\ SubSeq(s, cut + 1, p.size) \in Seq(Cell)
    BY <1>1, <2>2, Piece
  <2>4. a \in Seq(Cell) /\ c \in Seq(Cell) BY <1>2, <2>3, FrameCells
  <2>5. b \in Seq(Cell) BY <1>2, HeadCells, EmptySeq
  <2> HIDE DEF a, b, c
  <2>6. out' \in Seq(Cell) BY <2>1, <2>4, <2>5, ConcatProperties
  <2>7. UNCHANGED <<writer, reading, got, wire, conn, broken>> /\ drained' = p.n
    BY <1>8 DEF OtherSends, Drains, Queued
  <2>. QED BY <1>3, <1>4, <2>6, <2>7, WriterKeeps
<1>. QED BY <1>5, <1>6, <1>7, <1>8

LEMMA NetworkStep ==
  ASSUME IInv,
         \/ \E op \in Control : OtherControls(op)
         \/ WriteSome \/ WriteTimeout \/ WriteFails \/ Close \/ Reset
  PROVE  IInv'
<1>1. /\ wire \in Seq(Cell) /\ out \in Seq(Cell) /\ <<>> \in Seq(Cell)
      /\ broken \subseteq {"torn", "misread"} /\ drained \in 0..MaxPackets
      /\ conn \in {"open", "closed", "reset"}
  BY EmptySeq DEF IInv, TypeOK, Cells
<1>2. ASSUME NEW op \in Control, OtherControls(op) PROVE IInv'
  <2>1. out' \in Seq(Cell) BY <1>2, HeadCells DEF OtherControls, Control, Ops
  <2>2. drained' \in 0..MaxPackets BY <1>1, <1>2, LinkAssumption DEF OtherControls
  <2>3. UNCHANGED <<writer, reading, got, wire, conn, broken>> BY <1>2 DEF OtherControls
  <2>. QED BY <1>1, <2>1, <2>2, <2>3, WriterKeeps
<1>3. CASE WriteSome
  <2> DEFINE k == Least(Len(out), Room - Len(wire))
  <2>1. Len(out) \in Nat /\ Len(wire) \in Nat /\ Room \in Nat
    BY <1>1, LenProperties, LinkAssumption
  <2>2. k \in Nat /\ k <= Len(out) BY <1>3, <2>1 DEF WriteSome, Least
  <2>3. wire' = wire \o SubSeq(out, 1, k) /\ out' = SubSeq(out, k + 1, Len(out))
    BY <1>3 DEF WriteSome
  <2> HIDE DEF k
  <2>4. SubSeq(out, 1, k) \in Seq(Cell) /\ out' \in Seq(Cell)
    BY <1>1, <2>2, <2>3, Piece
  <2>5. wire' \in Seq(Cell) BY <1>1, <2>3, <2>4, ConcatProperties
  <2>6. UNCHANGED <<writer, reading, got, drained, conn, broken>> BY <1>3 DEF WriteSome
  <2>. QED BY <1>1, <2>4, <2>5, <2>6, WriterKeeps
<1>4. CASE WriteTimeout
  <2>1. UNCHANGED <<writer, reading, got, drained, wire, conn>> /\ out' = <<>>
        /\ broken' \subseteq {"torn", "misread"}
    BY <1>1, <1>4 DEF WriteTimeout
  <2>. QED BY <1>1, <2>1, WriterKeeps
<1>5. CASE WriteFails
  <2>1. UNCHANGED <<writer, reading, got, drained, wire, conn, broken>> /\ out' = <<>>
    BY <1>5 DEF WriteFails
  <2>. QED BY <1>1, <2>1, WriterKeeps
<1>6. CASE Close BY <1>1, <1>6, WriterKeeps DEF Close
<1>7. CASE Reset BY <1>1, <1>7, WriterKeeps DEF Reset
<1>. QED BY <1>2, <1>3, <1>4, <1>5, <1>6, <1>7

(* What the invariant says in every step of the receive thread.              *)
LEMMA Facts ==
  ASSUME IInv
  PROVE  /\ out \in Seq(Cell) /\ wire \in Seq(Cell) /\ buffer \in Seq(Cell)
         /\ data \in Seq(Cell) /\ parts \in Seq(Cell) /\ got \in Seq(Seq(Cell))
         /\ <<>> \in Seq(Cell) /\ Len(data) \in Nat /\ Len(parts) \in Nat
         /\ want \in Nat /\ MaxMessage \in Nat /\ Len(data) <= want
         /\ frame \in Frames /\ Fresh \in Frames /\ inside \in BOOLEAN
         /\ broken \subseteq {"torn", "misread"} /\ Len(parts) <= MaxMessage
         /\ \A i \in DOMAIN got : Len(got[i]) <= MaxMessage
         /\ ~inside => parts = <<>>
         /\ writer = "tcp" => ~inside /\ frame = Fresh
<1> USE DEF IInv
<1>1. /\ out \in Seq(Cell) /\ wire \in Seq(Cell) /\ buffer \in Seq(Cell)
      /\ data \in Seq(Cell) /\ parts \in Seq(Cell) /\ got \in Seq(Seq(Cell))
  BY DEF Cells
<1>2. /\ want \in Nat /\ frame \in Frames /\ inside \in BOOLEAN /\ Len(data) <= want
      /\ broken \subseteq {"torn", "misread"}
  BY DEF TypeOK
<1>3. MaxMessage \in Nat BY LinkAssumption
<1>4. <<>> \in Seq(Cell) /\ Len(data) \in Nat /\ Len(parts) \in Nat
  BY <1>1, EmptySeq, LenProperties
<1>5. Len(parts) <= MaxMessage /\ \A i \in DOMAIN got : Len(got[i]) <= MaxMessage
  BY <1>2, <1>3, <1>4 DEF WithinCap
<1>6. Fresh \in Frames BY DEF Fresh, Frames, Ops
<1>7. (~inside => parts = <<>>) /\ (writer = "tcp" => ~inside /\ frame = Fresh)
  BY DEF Shape
<1>. QED BY <1>1, <1>2, <1>3, <1>4, <1>5, <1>6, <1>7

(* A full read of a head or a length says a length, and a head a frame.      *)
LEMMA SaidLength ==
  ASSUME IInv, NEW kind \in {"word", "long"}, Reads(kind), NEW len \in Said(kind, Lengths)
  PROVE  len \in Nat
<1>1. want = 1 /\ Len(data) = 1 BY DEF IInv, Shape, Reads
<1>2. data[1] \in Cell
  <2>1. data \in Seq(Cell) /\ 1 \in 1..Len(data) BY <1>1, Facts
  <2>. QED BY <2>1, ElementOfSeq
<1>3. data[1].kind = kind => data[1].is \in Nat BY <1>2 DEF Cell, Crlf
<1>4. Lengths \subseteq Nat BY LinkAssumption DEF Lengths
<1>. QED BY <1>3, <1>4 DEF Said

LEMMA SaidHead ==
  ASSUME IInv, Reads("head"), NEW h \in Said("head", Headers)
  PROVE  h.frame \in Frames /\ h.len \in Nat
<1>1. want = 1 /\ Len(data) = 1 BY DEF IInv, Shape, Reads
<1>2. data[1] \in Cell
  <2>1. data \in Seq(Cell) /\ 1 \in 1..Len(data) BY <1>1, Facts
  <2>. QED BY <2>1, ElementOfSeq
<1>3. data[1].kind = "head" => data[1].is \in [frame : Frames, len : Nat]
  BY <1>2 DEF Cell, Crlf
<1>4. Headers \subseteq [frame : Frames, len : Nat] BY LinkAssumption DEF Headers, Lengths
<1>. QED BY <1>3, <1>4 DEF Said

LEMMA ReadStep ==
  ASSUME IInv, ReadHead \/ ReadSome \/ Eof \/ ReadTimeout \/ ReaderCloses
  PROVE  IInv'
<1>1. CASE ReadHead
  <2>1. buffer' \in Seq(Cell)
    <3>1. wire # <<>> /\ buffer' = Tail(wire) BY <1>1 DEF ReadHead, Rest
    <3>. QED BY <3>1, Facts, HeadTailProperties
  <2>2. /\ Goto("head", 1, Fresh) /\ wire' = <<>>
        /\ UNCHANGED <<writer, drained, conn, out, inside, parts, got, broken>>
    BY <1>1 DEF ReadHead, NextHead, sending
  <2>. QED BY <2>1, <2>2, Facts, NextCellKeeps
<1>2. CASE ReadSome
  <2>1. PICK cells \in {buffer, wire} :
          /\ data' = data \o SubSeq(cells, 1, From(cells))
          /\ buffer' = SubSeq(cells, From(cells) + 1, Len(cells)) \/ buffer' = buffer
          /\ wire' = SubSeq(cells, From(cells) + 1, Len(cells)) \/ wire' = wire
    BY <1>2 DEF ReadSome, Taken, Left
  <2>2. cells \in Seq(Cell) BY Facts
  <2>3. Len(cells) \in Nat BY <2>2, LenProperties
  <2>4. From(cells) \in Nat /\ From(cells) <= Len(cells) /\ From(cells) <= want - Len(data)
    <3>1. Len(data) < want BY <1>2 DEF ReadSome
    <3>2. Len(data) \in Nat /\ want \in Nat BY Facts
    <3>. QED BY <2>3, <3>1, <3>2 DEF From, Least, Missing
  <2> HIDE DEF From
  <2>5. /\ SubSeq(cells, 1, From(cells)) \in Seq(Cell)
        /\ Len(SubSeq(cells, 1, From(cells))) = From(cells)
        /\ SubSeq(cells, From(cells) + 1, Len(cells)) \in Seq(Cell)
    BY <2>2, <2>4, Piece
  <2>6. data' \in Seq(Cell) /\ Len(data') = Len(data) + From(cells)
    BY <2>1, <2>5, Facts, ConcatProperties
  <2>7. Len(data') <= want BY <2>4, <2>6, Facts
  <2>8. UNCHANGED <<writer, drained, conn, out, reader, want, frame, inside, parts, got, broken>>
    BY <1>2 DEF ReadSome, sending
  <2>9. TypeOK' BY <2>7, <2>8 DEF IInv, TypeOK
  <2>10. Cells' BY <2>1, <2>5, <2>6, <2>8, Facts DEF Cells
  <2>11. Shape' /\ WithinCap' BY <2>8 DEF IInv, Shape, WithinCap
  <2>. QED BY <2>9, <2>10, <2>11 DEF IInv
<1>3. ASSUME NEW how \in Ended, Stops(how) PROVE IInv'
  <2>1. /\ Ends(how) /\ UNCHANGED <<writer, drained, conn, got, broken, out>>
    BY <1>3 DEF Stops, sending
  <2>. QED BY <2>1, Facts, EndsKeeps
<1>. QED BY <1>1, <1>2, <1>3 DEF Eof, ReadTimeout, ReaderCloses, Ended

LEMMA LengthStep ==
  ASSUME IInv, TcpLength \/ WssLength \/ WordLength \/ LongLength
  PROVE  IInv'
<1>1. CASE TcpLength
  <2>1. PICK h \in Said("head", Headers) : Body(Fresh, h.len)
    BY <1>1 DEF TcpLength
  <2>2. h.len \in Nat BY <1>1, <2>1, SaidHead DEF TcpLength
  <2>3. UNCHANGED <<writer, drained, conn, out, queue, got, broken>>
    BY <1>1 DEF TcpLength, sending
  <2>. QED BY <2>1, <2>2, <2>3, Facts, BodyKeeps
<1>2. CASE WssLength
  <2>1. PICK h \in Said("head", Headers) :
          \/ Length("word", h.frame) \/ Length("long", h.frame) \/ Body(h.frame, h.len)
    BY <1>2 DEF WssLength
  <2>2. h.frame \in Frames /\ h.len \in Nat BY <1>2, <2>1, SaidHead DEF WssLength
  <2>3. UNCHANGED <<writer, drained, conn, out, queue, got, broken>> /\ writer # "tcp"
    BY <1>2 DEF WssLength, sending
  <2>4. CASE Body(h.frame, h.len) BY <2>2, <2>3, <2>4, BodyKeeps
  <2>5. ASSUME NEW kind \in {"word", "long"}, Length(kind, h.frame) PROVE IInv'
    <3>1. Goto(kind, 1, h.frame) /\ UNCHANGED <<inside, parts, buffer, wire>>
      BY <2>5 DEF Length
    <3>. QED BY <2>2, <2>3, <3>1, Facts, NextCellKeeps
  <2>. QED BY <2>1, <2>4, <2>5
<1>3. CASE WordLength
  <2>1. PICK len \in Said("word", Lengths) :
          \/ Length("long", frame) /\ broken' = broken \cup {"misread"}
          \/ Body(frame, len) /\ UNCHANGED broken
    BY <1>3 DEF WordLength
  <2>2. len \in Nat BY <1>3, <2>1, SaidLength DEF WordLength
  <2>3. UNCHANGED <<writer, drained, conn, out, queue, got>> /\ writer # "tcp"
    BY <1>3 DEF WordLength, sending, IInv, Shape, Reads
  <2>4. CASE Body(frame, len) /\ UNCHANGED broken BY <2>2, <2>3, <2>4, Facts, BodyKeeps
  <2>5. CASE Length("long", frame) /\ broken' = broken \cup {"misread"}
    <3>1. Goto("long", 1, frame) /\ UNCHANGED <<inside, parts, buffer, wire>>
      BY <2>5 DEF Length
    <3>2. broken' \subseteq {"torn", "misread"} BY <2>5, Facts
    <3>. QED BY <2>3, <3>1, <3>2, Facts, NextCellKeeps
  <2>. QED BY <2>1, <2>4, <2>5
<1>4. CASE LongLength
  <2>1. PICK len \in Said("long", Lengths) : Body(frame, len) BY <1>4 DEF LongLength
  <2>2. len \in Nat BY <1>4, <2>1, SaidLength DEF LongLength
  <2>3. UNCHANGED <<writer, drained, conn, out, queue, got, broken>> /\ writer # "tcp"
    BY <1>4 DEF LongLength, sending, IInv, Shape, Reads
  <2>. QED BY <2>1, <2>2, <2>3, Facts, BodyKeeps
<1>. QED BY <1>1, <1>2, <1>3, <1>4

LEMMA CompleteKeeps ==
  ASSUME IInv, NEW op, NEW m \in Seq(Cell), Len(m) <= MaxMessage, Complete(op, m),
         UNCHANGED <<writer, drained, conn, out, broken>>
  PROVE  IInv'
<1>1. got' \in Seq(Seq(Cell)) /\ \A i \in DOMAIN got' : Len(got'[i]) <= MaxMessage
  <2>1. CASE got' = got BY <2>1, Facts
  <2>2. CASE got' = Append(got, m)
    <3>1. got \in Seq(Seq(Cell)) BY Facts
    <3>2. /\ got' \in Seq(Seq(Cell)) /\ Len(got') = Len(got) + 1
          /\ \A i \in 1..Len(got) : got'[i] = got[i]
          /\ got'[Len(got) + 1] = m
      BY <2>2, <3>1, AppendProperties
    <3>3. DOMAIN got' = 1..(Len(got) + 1) /\ DOMAIN got = 1..Len(got) /\ Len(got) \in Nat
      BY <3>1, <3>2, LenProperties
    <3>4. \A i \in 1..Len(got) : Len(got[i]) <= MaxMessage BY <3>3, Facts
    <3>. QED BY <3>2, <3>3, <3>4
  <2>. QED BY <2>1, <2>2 DEF Complete
<1>2. CASE op = "close"
  <2>1. Ends("closed") /\ UNCHANGED got BY <1>2 DEF Complete
  <2>. QED BY <2>1, Facts, EndsKeeps DEF Ended
<1>3. CASE op # "close"
  <2>1. /\ Goto("head", 1, Fresh) /\ inside' = FALSE /\ parts' = <<>>
        /\ UNCHANGED <<buffer, wire>>
    BY <1>3 DEF Complete, NextHead
  <2>2. Len(<<>>) <= MaxMessage BY LinkAssumption, EmptySeq
  <2>. QED BY <1>1, <2>1, <2>2, Facts, NextCellKeeps
<1>. QED BY <1>2, <1>3

LEMMA CollectKeeps ==
  ASSUME IInv, NEW cells \in Seq(Cell), Len(cells) <= MaxMessage, Collect(cells),
         writer # "tcp", UNCHANGED <<writer, drained, conn, out, broken>>
  PROVE  IInv'
<1>1. /\ Goto("head", 1, Fresh) /\ inside' = TRUE /\ parts' = cells
      /\ UNCHANGED <<buffer, wire, got>>
  BY DEF Collect, NextHead
<1>. QED BY <1>1, Facts, NextCellKeeps

LEMMA FrameStep ==
  ASSUME IInv, FirstFrame \/ LaterFrame
  PROVE  IInv'
<1>1. UNCHANGED <<writer, drained, conn, out, broken>> BY DEF FirstFrame, LaterFrame, sending
<1>2. Len(data) <= MaxMessage /\ Len(parts) + Len(data) <= MaxMessage
  <2>1. reader = "body" /\ Len(data) = want BY DEF FirstFrame, LaterFrame, Reads
  <2>2. Len(parts) + want <= MaxMessage BY <2>1 DEF IInv, WithinCap
  <2>. QED BY <2>1, <2>2, Facts
<1>3. ASSUME NEW op, Complete(op, data) PROVE IInv' BY <1>1, <1>2, <1>3, Facts, CompleteKeeps
<1>4. CASE Refuse
  <2>1. Ends("rejected") /\ UNCHANGED got BY <1>4 DEF Refuse
  <2>. QED BY <1>1, <2>1, Facts, EndsKeeps DEF Ended
<1>5. CASE FirstFrame /\ frame.op = "binary" /\ ~frame.final /\ Collect(data)
  <2>1. writer # "tcp" BY <1>5, Facts DEF Fresh
  <2>. QED BY <1>1, <1>2, <1>5, <2>1, Facts, CollectKeeps
<1>6. ASSUME LaterFrame PROVE IInv'
  <2>1. parts \o data \in Seq(Cell) /\ Len(parts \o data) <= MaxMessage
    BY <1>2, Facts, ConcatProperties
  <2>2. writer # "tcp" BY <1>6, Facts DEF LaterFrame
  <2>3. CASE Collect(parts \o data) BY <1>1, <2>1, <2>2, <2>3, CollectKeeps
  <2>4. CASE Complete(OpOfFirst, parts \o data) BY <1>1, <2>1, <2>4, CompleteKeeps
  <2>. QED BY <1>4, <1>6, <2>3, <2>4 DEF LaterFrame
<1>. QED BY <1>3, <1>4, <1>5, <1>6 DEF FirstFrame

-----------------------------------------------------------------------------
(* The invariant holds at first: nothing was read.                          *)
LEMMA InitialInv == ASSUME Init PROVE IInv
<1> USE DEF Init
<1>1. <<>> \in Seq(Cell) /\ Len(<<>>) = 0 /\ <<>> \in Seq(Seq(Cell)) BY EmptySeq
<1>2. <<Crlf>> \in Seq(Cell) BY DEF Cell
<1>3. Fresh \in Frames BY DEF Fresh, Frames, Ops
<1>4. TypeOK
  <2>1. want \in {0, 1} /\ reader \in {"http", "head"} OBVIOUS
  <2>2. want \in Nat /\ Len(data) <= want BY <1>1, <2>1
  <2>3. drained \in 0..MaxPackets BY LinkAssumption
  <2>4. broken \subseteq {"torn", "misread"} /\ conn \in {"open", "closed", "reset"}
        /\ inside \in BOOLEAN /\ frame \in Frames /\ writer \in Writers
    BY <1>3
  <2>. QED BY <2>1, <2>2, <2>3, <2>4 DEF TypeOK
<1>5. Cells BY <1>1, <1>2 DEF Cells
<1>6. Shape BY DEF Shape
<1>7. WithinCap BY <1>1, LinkAssumption DEF WithinCap
<1>. QED BY <1>4, <1>5, <1>6, <1>7 DEF IInv

(* The conjunction is an inductive invariant.                               *)
LEMMA Inductive == Spec => []IInv
<1>1. Init => IInv BY InitialInv
<1>2. ASSUME IInv, [Next]_vars PROVE IInv'
  <2>1. CASE UNCHANGED vars
    <3>1. UNCHANGED <<writer, reading, got, drained, conn, broken, out, wire>>
      BY <2>1 DEF vars, sending
    <3>. QED BY <1>2, <3>1, Facts, WriterKeeps DEF IInv, TypeOK
  <2>2. CASE Next
    BY <1>2, <2>2, WriterStep, NetworkStep, ReadStep, LengthStep, FrameStep
    DEF Next, Read, Write
  <2>. QED BY <1>2, <2>1, <2>2
<1>. QED BY <1>1, <1>2, PTL DEF Spec

(* The two ends of a link keep their types.                                 *)
THEOREM TypeCorrect == Spec => []TypeOK
BY Inductive, PTL DEF IInv

(* No message, delivered or being read, is longer than MAX_MESSAGE_BYTES,    *)
(* also when a write was given up in the middle of a frame.                 *)
THEOREM CapHolds == Spec => []WithinCap
BY Inductive, PTL DEF IInv
=============================================================================
