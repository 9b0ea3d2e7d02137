--------------------------------- MODULE Link ---------------------------------
(***************************************************************************)
(* One direction of a link: the pump of one endpoint drains packets into    *)
(* send_fn, which frames them and writes them bit by bit; the receive       *)
(* thread of the other reads frames bit by bit and delivers messages.       *)
(* "wss" and "tcp" are the writers of this code, "other" is a WebSocket     *)
(* implementation that fragments and pings.  The stream is one of cells: a  *)
(* head, an extended length, a byte of payload.  A cell that is read in the *)
(* place of another kind may say anything.                                  *)
(***************************************************************************)
EXTENDS Naturals, Sequences, FiniteSets, SequencesExt

CONSTANTS
  Writers,     (* Subset of {"wss", "tcp", "other"}.                          *)
  Sizes,       (* Sizes of drained packets.                                  *)
  MaxMessage,  (* MAX_MESSAGE_BYTES and MAX_FRAME_BYTES, 1 MiB.              *)
  Short, Word, (* First lengths that need 16 bits and 64 bits: 126, 65536.   *)
  Room,        (* Cells that the socket buffers hold.                        *)
  MaxPackets   (* Bound on drained packets.                                  *)

Long == Short + 1     (* The 7-bit length that announces 64 bits: 127.       *)
ASSUME LinkAssumption ==
  /\ Writers \subseteq {"wss", "tcp", "other"} /\ Sizes \subseteq Nat
  /\ MaxMessage \in Nat /\ Room \in Nat \ {0} /\ MaxPackets \in Nat \ {0}
  /\ Short \in Nat \ {0} /\ Word \in Nat /\ Short < Word

VARIABLES
  writer,             (* Who writes.                                         *)
  drained, out,       (* Packets drained; the rest of the one being written. *)
  wire,               (* Cells in the socket buffers.                        *)
  conn,               (* The writer's socket: "open", "closed" or "reset".   *)
  reader,             (* What the receive thread reads, or how it ended.     *)
  buffer, data, want, (* Read ahead; bytes of read_exact; how many it wants. *)
  frame, inside, parts, (* The frame; is it a later fragment; the earlier.   *)
  queue, got, broken  (* Of the packets; why frames no longer line up.       *)

sending == <<drained, out, conn>>
reading == <<reader, buffer, data, want, frame, inside, parts>>
vars == <<writer, sending, wire, reading, queue, got, broken>>

Packet == [n : 1..MaxPackets, size : Sizes]
Ops == {"binary", "continue", "ping", "close"}
Control == {"ping", "close"}
Lengths == 0..(MaxMessage + 1)
Frames == [final : BOOLEAN, op : Ops]
Headers == [frame : Frames, len : Lengths]
Fresh == [final |-> TRUE, op |-> "binary"]
Ended == {"eof", "closed", "rejected"}

HeadCell(final, op, len) == 
  [kind |-> "head", is |-> [frame |-> [final |-> final, op |-> op], len |-> len]]
LengthCell(kind, len) == [kind |-> kind, is |-> len]
PayloadOf(p) == [i \in 1..p.size |-> [kind |-> "byte", is |-> <<p.n, i>>]]
Crlf == [kind |-> "crlf", is |-> 0]

Whole == broken = {}

-----------------------------------------------------------------------------
(* Framing *)

UpToShort(final, op, n) ==                                        (* mutant *)
  IF n <= Short THEN <<HeadCell(final, op, n)>>
  ELSE IF n < Word THEN <<HeadCell(final, op, Short), LengthCell("word", n % Word)>>
  ELSE <<HeadCell(final, op, Long), LengthCell("long", n)>>
(* The head of a frame: 7 bits of length, or 16 or 64 bits after them.       *)
WssHead(final, op, n) ==
  IF n < Short THEN <<HeadCell(final, op, n)>>
  ELSE IF n < Word THEN <<HeadCell(final, op, Short), LengthCell("word", n % Word)>>
  ELSE <<HeadCell(final, op, Long), LengthCell("long", n)>>
WssFrame(final, op, cells) == WssHead(final, op, Len(cells)) \o cells
TcpFrame(cells) == <<HeadCell(TRUE, "binary", Len(cells))>> \o cells

-----------------------------------------------------------------------------
(* The writer *)

Drains(p) == drained < MaxPackets /\ p.n = drained + 1 /\ drained' = p.n /\ out = <<>>
Queued(p) == queue' = Append(queue, p)
          /\ UNCHANGED <<writer, wire, conn, reading, got, broken>>

WssSend(p) ==
  /\ writer = "wss" /\ Drains(p) /\ p.size <= MaxMessage
  /\ out' = WssFrame(TRUE, "binary", PayloadOf(p)) /\ Queued(p)
(* encode_frame raises, and send_fn rescues that too.                        *)
WssOversized(p) ==
  /\ writer = "wss" /\ Drains(p) /\ p.size > MaxMessage
  /\ UNCHANGED <<writer, out, wire, conn, reading, queue, got, broken>>
TcpSend(p) == writer = "tcp" /\ Drains(p) /\ out' = TcpFrame(PayloadOf(p)) /\ Queued(p)

(* Another implementation sends two fragments, with or without a ping       *)
(* between them; a ping; a close.  Bound: what follows a length of Long is   *)
(* explored with the writer "wss" only.                                     *)
OtherSends(p, cut, ping) ==
  /\ writer = "other" /\ Drains(p) /\ cut <= p.size /\ Long \notin {cut, p.size - cut}
  /\ out' = WssFrame(FALSE, "binary", SubSeq(PayloadOf(p), 1, cut))
         \o (IF ping THEN WssHead(TRUE, "ping", 0) ELSE <<>>)
         \o WssFrame(TRUE, "continue", SubSeq(PayloadOf(p), cut + 1, p.size))
  /\ Queued(p)
OtherControls(op) ==
  /\ writer = "other" /\ drained < MaxPackets /\ drained' = drained + 1 /\ out = <<>>
  /\ out' = WssHead(TRUE, op, 0)
  /\ UNCHANGED <<writer, wire, conn, reading, queue, got, broken>>

Connected == conn = "open" /\ reader \notin Ended
Least(a, b) == IF a < b THEN a ELSE b
(* write_nonblock takes what fits into the socket buffers.                   *)
WriteSome ==
  LET k == Least(Len(out), Room - Len(wire)) IN
  /\ Connected /\ k > 0
  /\ wire' = wire \o SubSeq(out, 1, k) /\ out' = SubSeq(out, k + 1, Len(out))
  /\ UNCHANGED <<writer, drained, conn, reading, queue, got, broken>>

Undelivered == queue # <<>> /\ Last(queue).n = drained
Begun == Undelivered => out # WssFrame(TRUE, "binary", PayloadOf(Last(queue)))
DropUnwritten == queue' = IF Undelivered THEN Front(queue) ELSE queue
(* write_all gives up after 15 s; send_fn rescues that and keeps the link.    *)
WriteTimeout ==
  /\ writer = "wss" /\ out # <<>> /\ Len(wire) = Room /\ Connected
  /\ out' = <<>> /\ DropUnwritten
  /\ broken' = IF Begun THEN broken \cup {"torn"} ELSE broken
  /\ UNCHANGED <<writer, drained, wire, conn, reading, got>>
(* The socket is closed at one of its ends.                                 *)
WriteFails ==
  /\ out # <<>> /\ ~Connected /\ out' = <<>> /\ DropUnwritten
  /\ UNCHANGED <<writer, drained, wire, conn, reading, got, broken>>

(* The writer's endpoint or its receive thread closes; or the network does. *)
Close ==
  /\ conn = "open" /\ reader \notin Ended /\ conn' = "closed"
  /\ UNCHANGED <<writer, drained, out, wire, reading, queue, got, broken>>
Reset ==
  /\ conn # "reset" /\ reader \notin Ended /\ conn' = "reset" /\ wire' = <<>>
  /\ UNCHANGED <<writer, drained, out, reading, queue, got, broken>>

-----------------------------------------------------------------------------
(* The receive thread *)

Goto(state, n, f) == reader' = state /\ want' = n /\ data' = <<>> /\ frame' = f
NextHead == Goto("head", 1, Fresh)
(* The link is taken down and the socket closed, with what is still in it.   *)
Ends(how) ==
  Goto(how, 0, Fresh) /\ inside' = FALSE /\ parts' = <<>> /\ buffer' = <<>> /\ wire' = <<>>
Stops(how) == Ends(how) /\ UNCHANGED <<writer, sending, queue, got, broken>>
Reads(state) == reader = state /\ Len(data) = want

NoRest(chunk) == <<>>                                             (* mutant *)
Rest(chunk) == Tail(chunk)
(* read_http_response: what it reads past the end of the head is kept.       *)
ReadHead ==
  /\ reader = "http" /\ wire # <<>> /\ wire' = <<>>
  /\ buffer' = Rest(wire) /\ NextHead
  /\ UNCHANGED <<writer, sending, inside, parts, queue, got, broken>>

AsksAll == want                                                   (* mutant *)
Missing == want - Len(data)
(* One round of read_exact: from the buffer while it lasts, else from the    *)
(* socket, never more than is missing.                                      *)
From(cells) == Least(Missing, Len(cells))
Taken(cells, k) == data' = data \o SubSeq(cells, 1, k)
Left(cells, k) == SubSeq(cells, k + 1, Len(cells))
ReadSome ==
  /\ reader \notin Ended \cup {"http"} /\ Len(data) < want
  /\ IF buffer # <<>>
     THEN LET k == From(buffer) IN
          Taken(buffer, k) /\ buffer' = Left(buffer, k) /\ UNCHANGED wire
     ELSE LET k == From(wire) IN
          k > 0 /\ Taken(wire, k) /\ wire' = Left(wire, k) /\ UNCHANGED buffer
  /\ UNCHANGED <<writer, sending, reader, want, frame, inside, parts, queue, got, broken>>

Starved == reader \notin Ended /\ buffer = <<>> /\ wire = <<>>
           /\ (reader # "http" => Len(data) < want)
EofBetween == Starved /\ conn # "open" /\ data = <<>>             (* mutant *)
AtEof == Starved /\ conn # "open"
Eof == AtEof /\ Stops("eof")
ReadTimeout == writer # "tcp" /\ Starved /\ Stops("closed")
(* The reader's endpoint closes the socket.                                  *)
ReaderCloses == reader \notin Ended /\ Stops("closed")

(* What a cell says that is read as a head or as a length.                   *)
Said(kind, any) == IF data[1].kind = kind THEN {data[1].is} ELSE any

TotalCap == MaxMessage                                            (* mutant *)
Remaining == MaxMessage - Len(parts)
(* The checks of the length of a frame, before its payload is read.          *)
Body(f, len) ==
  IF \/ len > (IF writer = "tcp" THEN MaxMessage ELSE Remaining)
     \/ f.op \in Control /\ (~f.final \/ len >= Short)
  THEN Ends("rejected")
  ELSE Goto("body", len, f) /\ UNCHANGED <<inside, parts, buffer, wire>>
Length(kind, f) == Goto(kind, 1, f) /\ UNCHANGED <<inside, parts, buffer, wire>>

TcpLength ==
  /\ writer = "tcp" /\ Reads("head")
  /\ \E h \in Said("head", Headers) : Body(Fresh, h.len)
  /\ UNCHANGED <<writer, sending, queue, got, broken>>
WssLength ==
  /\ writer # "tcp" /\ Reads("head")
  /\ \E h \in Said("head", Headers) :
       \/ h.len = Short /\ Length("word", h.frame)
       \/ h.len = Long /\ Length("long", h.frame)
       \/ h.len \notin {Short, Long} /\ Body(h.frame, h.len)
  /\ UNCHANGED <<writer, sending, queue, got, broken>>
(* `if len == 127' comes after the 16 bits were read into len.                *)
WordLength ==
  /\ Reads("word")
  /\ \E len \in Said("word", Lengths) :
       \/ len = Long /\ Length("long", frame) /\ broken' = broken \cup {"misread"}
       \/ len # Long /\ Body(frame, len) /\ UNCHANGED broken
  /\ UNCHANGED <<writer, sending, queue, got>>
LongLength ==
  /\ Reads("long") /\ \E len \in Said("long", Lengths) : Body(frame, len)
  /\ UNCHANGED <<writer, sending, queue, got, broken>>

(* run_link and recv_loop deliver a binary message and ignore a ping.        *)
Complete(op, m) ==
  /\ IF op = "close" THEN Ends("closed")
     ELSE NextHead /\ inside' = FALSE /\ parts' = <<>> /\ UNCHANGED <<buffer, wire>>
  /\ IF op = "binary"
     THEN got' = Append(got, m) /\ queue' = IF Whole /\ queue # <<>> THEN Tail(queue) ELSE queue
     ELSE UNCHANGED <<got, queue>>
Collect(cells) ==
  NextHead /\ inside' = TRUE /\ parts' = cells /\ UNCHANGED <<buffer, wire, queue, got>>
Refuse == Ends("rejected") /\ UNCHANGED <<queue, got>>

OpOfLast == frame.op                                              (* mutant *)
OpOfFirst == "binary"
(* read_message: the first frame of a message, and the ones after it.        *)
FirstFrame ==
  /\ Reads("body") /\ ~inside
  /\ \/ frame.op \in Control /\ Complete(frame.op, data)
     \/ frame.op \notin Control \cup {"binary"} /\ Refuse
     \/ frame.op = "binary" /\ frame.final /\ Complete("binary", data)
     \/ frame.op = "binary" /\ ~frame.final /\ Collect(data)
  /\ UNCHANGED <<writer, sending, broken>>
LaterFrame ==
  /\ Reads("body") /\ inside
  /\ \/ frame.op # "continue" /\ Refuse
     \/ frame.op = "continue" /\ frame.final /\ Complete(OpOfFirst, parts \o data)
     \/ frame.op = "continue" /\ ~frame.final /\ Collect(parts \o data)
  /\ UNCHANGED <<writer, sending, broken>>

-----------------------------------------------------------------------------
Init ==
  /\ writer \in Writers /\ drained = 0 /\ out = <<>> /\ conn = "open"
  /\ wire = IF writer = "tcp" THEN <<>> ELSE <<Crlf>>
  /\ reader = IF writer = "tcp" THEN "head" ELSE "http"
  /\ want = IF writer = "tcp" THEN 1 ELSE 0
  /\ buffer = <<>> /\ data = <<>> /\ inside = FALSE /\ parts = <<>>
  /\ frame = Fresh
  /\ queue = <<>> /\ got = <<>> /\ broken = {}

Read ==
  \/ ReadHead \/ ReadSome \/ Eof \/ TcpLength \/ WssLength \/ WordLength \/ LongLength \/ FirstFrame \/ LaterFrame
Write == WriteSome \/ WriteFails
Next ==
  \/ \E p \in Packet :
       \/ WssSend(p) \/ WssOversized(p) \/ TcpSend(p)
       \/ \E cut \in 0..p.size, ping \in BOOLEAN : OtherSends(p, cut, ping)
  \/ \E op \in Control : OtherControls(op)
  \/ Write \/ WriteTimeout \/ Close \/ Reset
  \/ Read \/ ReadTimeout \/ ReaderCloses

Spec == Init /\ [][Next]_vars
(* A thread in read_exact or write_all goes on when the socket lets it.      *)
FairSpec == Spec /\ WF_vars(Read) /\ WF_vars(Write)

-----------------------------------------------------------------------------
(* Properties *)

(* Types; read_exact never has more than it asked for.                      *)
TypeOK ==
  /\ writer \in Writers /\ drained \in 0..MaxPackets /\ conn \in {"open", "closed", "reset"}
  /\ reader \in Ended \cup {"http", "head", "word", "long", "body"}
  /\ want \in Nat /\ Len(data) <= want
  /\ frame \in Frames /\ inside \in BOOLEAN
  /\ broken \subseteq {"torn", "misread"}

(* Nothing longer than MAX_MESSAGE_BYTES is delivered, assembled or even     *)
(* begun to be read, whatever the fragments and however the stream is torn   *)
(* (test_hop.rb:46-63).                                                     *)
WithinCap ==
  /\ \A i \in DOMAIN got : Len(got[i]) <= MaxMessage
  /\ Len(parts) + (IF reader = "body" THEN want ELSE 0) <= MaxMessage

(* Until a write is torn or a length misread, the packets that no failing    *)
(* write lost are delivered whole and in order: through the cuts of writes,  *)
(* reads and fragments, the read-ahead of the HTTP head and pings.           *)
Stream == INSTANCE PacketStream WITH whole <- Whole
ImplementsStream == Stream!Spec

(* An orderly end of the stream loses nothing that was written.             *)
EofMeansAll ==
  reader = "eof" /\ Whole /\ conn # "reset" => Len(queue) <= (IF out = <<>> THEN 0 ELSE 1)

(* A packet that is written arrives, unless the receive thread ends or the   *)
(* stream is no longer whole.                                               *)
Under(n, last) == \E i \in 1..(Len(queue) - last) : queue[i].n = n
Written(n) == Under(n, IF out = <<>> THEN 0 ELSE 1)
WrittenArrives ==
  \A n \in 1..MaxPackets :
    Written(n) ~> (~Under(n, 0) \/ reader \in Ended \/ ~Whole)

(* The receive thread ends after the connection does, wherever in a frame.   *)
ReaderEnds == conn # "open" ~> reader \in Ended

(* `One drained packet is one binary WS message' (wss_bearer.rb:5-6): while   *)
(* no write was torn, the reader takes what send_fn writes.                  *)
OnePacketOneMessage ==
  writer = "wss" /\ "torn" \notin broken => reader # "rejected"
=============================================================================
