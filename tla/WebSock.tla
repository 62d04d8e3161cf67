------------------------------ MODULE WebSock ------------------------------
(***************************************************************************)
(* websock.c and web_websocket.c: the WebSocket side of one connection.    *)
(* Bytes of the peer's frames arrive cut in any way; lwIP calls back on    *)
(* every arrival and on every acknowledgement, and either callback runs    *)
(* websock_rx_data over what the receive buffer holds.  That loop is taken *)
(* one turn a step: nothing else happens until the callback has returned,  *)
(* because all of it runs in the lwIP thread.                              *)
(*                                                                         *)
(* A byte is known by the frame it belongs to and its place in it.  Heads  *)
(* have one length of each direction here; the mask is that of the frame   *)
(* whose head was read last.                                               *)
(***************************************************************************)
EXTENDS Integers, Sequences

CONSTANTS
  Frames,      (* Frames the peer may send: [op, len, fin].                *)
  Patient,     (* Those after which the peer waits until the server is     *)
               (* done with everything before it sends again.              *)
  MaxFrames,   (* Bound of the model: frames the peer sends.               *)
  MaxParts,    (* Bound of the model: parts of one answer to a text.       *)
  EmptyParts,  (* Whether a part of an answer that is not the last may     *)
               (* be empty: some page variables begin with such a part.    *)
  InHead,      (* Length of the head of a received frame (2 to 14).        *)
  OutHead,     (* Length of the head of a sent frame (2 or 4).             *)
  SndBuf,      (* TCP_SND_BUF.                                             *)
  Reserve,     (* The 8 of MAX_WS_DATA_BLK_SIZE.                           *)
  MinSend,     (* MIN_SEND_SIZE.                                           *)
  TextReserve, (* The 16 kept back when an answer is prepared.             *)
  MaxRx        (* MAX_RX_BUF_SIZE.                                         *)

Ops == {"text", "wsping", "binary", "continue", "ping", "pong", "close", "away", "bad"}

ASSUME WebSockAssumption ==
  /\ Frames \subseteq [op : Ops, len : Nat, fin : BOOLEAN]
  /\ Patient \subseteq Frames /\ EmptyParts \in BOOLEAN
  /\ {MaxFrames, MaxParts, SndBuf, MaxRx} \subseteq Nat
  /\ InHead \in Nat \ {0} /\ OutHead \in Nat \ {0}
  /\ Reserve \in Nat /\ OutHead <= Reserve
  /\ TextReserve \in Nat /\ MinSend \in Nat /\ TextReserve < MinSend

VARIABLES
  peer,     (* Frames the peer has sent, in order.                         *)
  wire,     (* Their bytes that have not arrived.                          *)
  pbufi,    (* The receive buffer, sizei bytes.                            *)
  cntri,    (* Bytes of it that are processed.                             *)
  ws,       (* WS_FRSTAT of the connection.                                *)
  scb,      (* The webflag bits that matter here.                          *)
  sndbuf,   (* tcp_sndbuf: room in lwIP's send buffer.                     *)
  last,     (* The last frame sent; n changes with every frame.            *)
  at, by,   (* Where in websock_rx_data, and the callback that runs it.    *)
  parts,    (* Parts sent of the answer in progress.                       *)
  heads,    (* History: frames whose head was read, 0 for other bytes.     *)
  echo,     (* History: payload sent back.                                 *)
  taken,    (* History: texts handed to the page variables.                *)
  cramped   (* History: a block did not fit the send buffer.               *)

vars == <<peer, wire, pbufi, cntri, ws, scb, sndbuf, last, at, by, parts,
          heads, echo, taken, cramped>>
input   == <<peer, wire>>
buffer  == <<pbufi, cntri>>
output  == <<sndbuf, last>>
history == <<heads, echo, taken, cramped>>

---------------------------------------------------------------------------
(* Bytes.                                                                  *)
Byte(f, k, x) == [f |-> f, k |-> k, x |-> x]
Junk          == Byte(0, 0, "wrong")
Bytes(f, n)   == [k \in 1..(InHead + f.len) |-> Byte(n, k, "sent")]
After(s, n)   == SubSeq(s, n + 1, Len(s))

(* A payload byte is right only under the mask of its own frame, at the    *)
(* place of the mask its own place in the frame gives (x & 3); masking it  *)
(* again undoes it.                                                        *)
Masked(b, f, x) ==
  IF b.f = f /\ b.k > InHead /\ (b.k - InHead - 1) % 4 = x % 4 /\ b.x # "wrong"
  THEN [b EXCEPT !.x = IF b.x = "sent" THEN "plain" ELSE "sent"]
  ELSE [b EXCEPT !.x = "wrong"]

(* Mutant: every block is masked from the start of the mask.               *)
WebsocketMask_FromZero(n) ==
  [i \in 1..Len(pbufi) |-> IF i <= n THEN Masked(pbufi[i], ws.mask, i - 1) ELSE pbufi[i]]

(* WebsocketMask over the first n bytes of the buffer.                     *)
WebsocketMask(n) ==
  [i \in 1..Len(pbufi) |->
     IF i <= n THEN Masked(pbufi[i], ws.mask, ws.cur_len + i - 1) ELSE pbufi[i]]

(* The n bytes at the start of the buffer, once masked, and whatever is in *)
(* memory after it when n is more than the buffer holds.                   *)
Payload(n) ==
  [i \in 1..n |-> IF i <= Len(pbufi) THEN WebsocketMask(n)[i] ELSE Junk]

None == [op |-> "none", fin |-> FALSE, re |-> 0, load |-> "whole", n |-> 0]

Init ==
  /\ peer = <<>> /\ wire = <<>>
  /\ pbufi = <<>> /\ cntri = 0
  /\ ws = [frame_len |-> 0, cur_len |-> 0, status |-> "none",
           flg |-> {}, mask |-> 0]
  /\ scb = {} /\ sndbuf = SndBuf /\ last = None
  /\ at = "idle" /\ by = "recv" /\ parts = 0
  /\ heads = <<>> /\ echo = <<>> /\ taken = <<>> /\ cramped = FALSE

---------------------------------------------------------------------------
(* The peer and lwIP.                                                      *)
Closed == "CLOSED" \in scb
Quiet  == /\ wire = <<>> /\ at = "idle" /\ cntri >= Len(pbufi)
          /\ "FIN" \notin ws.flg /\ "RETRYCB" \notin scb

(* The peer sends a frame.  Its messages are not fragmented: a CONTINUE    *)
(* comes only where it continues nothing.                                  *)
PeerSend(f) ==
  /\ Len(peer) < MaxFrames
  /\ f.op = "continue" => peer = <<>>
  /\ IF peer # <<>> /\ peer[Len(peer)] \in Patient THEN Quiet ELSE TRUE
  /\ peer' = Append(peer, f)
  /\ wire' = wire \o Bytes(f, Len(peer) + 1)
  /\ UNCHANGED <<buffer, ws, scb, output, at, by, parts, history>>

(* Mutant: the bytes that are processed stay in the buffer.                *)
Recv_Untrimmed(n) ==
  /\ at = "idle" /\ ~Closed /\ n <= Len(wire)
  /\ wire' = After(wire, n)
  /\ pbufi' = pbufi \o SubSeq(wire, 1, n)
  /\ at' = "enter" /\ by' = "recv"
  /\ UNCHANGED <<peer, cntri, ws, scb, output, parts, history>>

(* tcpsrv_server_recv: n bytes arrive.  recv_trim_bufi drops what is       *)
(* processed and makes room, and the callback of the server is called.     *)
Recv(n) ==
  /\ at = "idle" /\ ~Closed /\ n <= Len(wire)
  /\ wire' = After(wire, n)
  /\ pbufi' = After(pbufi, cntri) \o SubSeq(wire, 1, n)
  /\ cntri' = 0
  /\ at' = "enter" /\ by' = "recv"
  /\ UNCHANGED <<peer, ws, scb, output, parts, history>>

(* A connection that is given up takes data to no use.                     *)
RecvNull ==
  /\ at = "idle" /\ Closed /\ wire # <<>>
  /\ wire' = <<>>
  /\ UNCHANGED <<peer, buffer, ws, scb, output, at, by, parts, history>>

(* tcpsrv_server_sent, webserver_sent_callback: n bytes are acknowledged.  *)
Sent(n) ==
  /\ at = "idle" /\ n <= SndBuf - sndbuf
  /\ sndbuf' = sndbuf + n
  /\ IF Closed THEN UNCHANGED <<at, by>> ELSE at' = "enter" /\ by' = "sent"
  /\ UNCHANGED <<input, buffer, ws, scb, last, parts, history>>

---------------------------------------------------------------------------
(* Sending.                                                                *)
FrameOf(op, fin, re) ==
  [op |-> op, fin |-> fin, re |-> re, load |-> "whole", n |-> 1 - last.n]
Frame(op, fin) == FrameOf(op, fin, heads[Len(heads)])
Close == FrameOf("close", TRUE, 0)
Cut(fr) == [fr EXCEPT !.load = "cut"]

(* WebsocketTxFrame with n bytes of payload: what becomes of the send      *)
(* buffer.  lwIP may refuse the head, or the payload after the head, for   *)
(* want of room or of memory.  In the latter case tcpsrv_int_sent_data     *)
(* closes the connection within the call, which may free it; the callback  *)
(* goes on through it to its end and gives it up.  Here it is given up at  *)
(* that end: memory that nobody took over meanwhile shows no difference.   *)
WebsocketTxFrame(fr, n) ==
  {[last |-> last, sndbuf |-> sndbuf, err |-> "ERR"]} \cup
  IF OutHead + n > sndbuf THEN {} ELSE
    {[last |-> fr, sndbuf |-> sndbuf - OutHead - n, err |-> "OK"],
     [last |-> Cut(fr), sndbuf |-> sndbuf - OutHead, err |-> "ERR"]}

(* websock_tx_frame, with the outcome r of WebsocketTxFrame: a failure     *)
(* ends the connection, and a close that went out is remembered.           *)
websock_tx_frame(fr, r, ws1, scb1) ==
  /\ last' = r.last /\ sndbuf' = r.sndbuf
  /\ ws' = IF r.err = "OK" /\ fr.op = "close"
           THEN [ws1 EXCEPT !.flg = @ \cup {"CLOSE"}] ELSE ws1
  /\ scb' = scb1 \cup IF r.err = "OK" THEN {} ELSE {"DISCONNECT"}

(* websock_tx_close_err: the code takes two bytes.                         *)
websock_tx_close_err(ws1, scb1) ==
  \E r \in WebsocketTxFrame(Close, 2) : websock_tx_frame(Close, r, ws1, scb1)

---------------------------------------------------------------------------
(* websock_rx_data up to its loop.                                         *)
FreeBuf == pbufi' = <<>> /\ cntri' = 0      \* web_feee_bufi

(* Mutant: a connection that has sent a close reads on.                    *)
Enter_Closing ==
  /\ at = "enter" /\ Len(pbufi) \in 1..MaxRx
  /\ at' = "loop"
  /\ UNCHANGED <<input, buffer, ws, scb, output, by, parts, history>>

Enter ==
  /\ at = "enter" /\ Len(pbufi) \in 1..MaxRx /\ "CLOSE" \notin ws.flg
  /\ at' = "loop"
  /\ UNCHANGED <<input, buffer, ws, scb, output, by, parts, history>>

EnterEmpty ==
  /\ at = "enter" /\ pbufi = <<>>
  /\ at' = "return"
  /\ UNCHANGED <<input, buffer, ws, scb, output, by, parts, history>>

(* Mutant: what comes after a close was sent is dropped and no more.       *)
EnterClosing_Waits ==
  /\ at = "enter" /\ pbufi # <<>> /\ "CLOSE" \in ws.flg
  /\ FreeBuf
  /\ at' = "return"
  /\ UNCHANGED <<input, ws, scb, output, by, parts, history>>

(* A close has been sent: what still comes ends the connection.            *)
EnterClosing ==
  /\ at = "enter" /\ pbufi # <<>> /\ "CLOSE" \in ws.flg
  /\ FreeBuf
  /\ scb' = scb \cup {"DISCONNECT"}
  /\ at' = "return"
  /\ UNCHANGED <<input, ws, output, by, parts, history>>

EnterFull ==
  /\ at = "enter" /\ Len(pbufi) > MaxRx /\ "CLOSE" \notin ws.flg
  /\ FreeBuf
  /\ websock_tx_close_err(ws, scb \cup {"DISCONNECT"})
  /\ at' = "return"
  /\ UNCHANGED <<input, by, parts, history>>

---------------------------------------------------------------------------
(* The loop.  A turn reads a head or handles a block, then trims.          *)
More == cntri < Len(pbufi) \/ "FIN" \in ws.flg
InFrame == "FIN" \in ws.flg \/ ws.frame_len > ws.cur_len

Drained ==
  /\ at = "loop" /\ ~More
  /\ at' = "return"
  /\ UNCHANGED <<input, buffer, ws, scb, output, by, parts, history>>

(* What WebsocketHead finds at the start of the buffer, wherever cntri is. *)
(* A first byte that was overwritten with 0 reads as CONTINUE without FIN, *)
(* and bytes that are no head may read as anything.                        *)
AtHead ==
  /\ pbufi[1].k = 1 /\ pbufi[1].x \in {"sent", "zero"}
  /\ \A i \in 2..InHead : pbufi[i] = Byte(pbufi[1].f, i, "sent")
Read ==
  IF ~AtHead THEN Frames
  ELSE IF pbufi[1].x = "sent" THEN {peer[pbufi[1].f]}
  ELSE {[op |-> "continue", len |-> peer[pbufi[1].f].len, fin |-> FALSE]}

(* The status a frame sets: PING and PONG are exchanged here, and CONTINUE *)
(* leaves the status of the frame before.  A PING loses its FIN on the way,*)
(* so that an empty one is done with its head.                             *)
Status(f) ==
  CASE f.op \in {"text", "wsping"} -> "text"
    [] f.op \in {"close", "away"}  -> "close"
    [] f.op = "binary"             -> "binary"
    [] f.op = "ping"               -> "pong"
    [] f.op = "pong"               -> "ping"
    [] f.op = "continue"           -> ws.status
    [] f.op = "bad"                -> "close"

WebsocketHead(f) ==
  [frame_len |-> CASE f.op = "bad" -> 0
                   [] f.op = "continue" /\ ws.status # "pong" -> ws.frame_len + f.len
                   [] OTHER -> f.len,
   cur_len |-> 0, status |-> Status(f), flg |-> IF f.fin /\ f.op \notin {"bad", "ping"} THEN {"FIN"} ELSE {},
   mask |-> IF AtHead THEN pbufi[1].f ELSE 0]

HeadRead == heads' = Append(heads, IF AtHead /\ pbufi[1].x = "sent" THEN pbufi[1].f ELSE 0)

HeadGood ==
  /\ at = "loop" /\ More /\ ~InFrame /\ InHead <= Len(pbufi)
  /\ \E f \in Read : f.op # "bad" /\ ws' = WebsocketHead(f)
  /\ cntri' = cntri + InHead
  /\ HeadRead
  /\ at' = "trim"
  /\ UNCHANGED <<input, pbufi, scb, output, by, parts, echo, taken, cramped>>

HeadShort ==
  /\ at = "loop" /\ More /\ ~InFrame /\ Len(pbufi) < InHead
  /\ at' = "return"
  /\ UNCHANGED <<input, buffer, ws, scb, output, by, parts, history>>

(* An unknown operation, or a length of more than 32 bits: the close goes  *)
(* out, and the connection is left to the callbacks that follow.           *)
HeadBad ==
  /\ at = "loop" /\ More /\ ~InFrame /\ InHead <= Len(pbufi)
  /\ \E f \in Read : f.op = "bad" /\ websock_tx_close_err(WebsocketHead(f), scb)
  /\ HeadRead
  /\ at' = "return"
  /\ UNCHANGED <<input, buffer, by, parts, echo, taken, cramped>>

(* The block a turn handles.  With less room than the reserve the          *)
(* difference is negative, and next to an unsigned remainder it is huge.   *)
Smaller(a, b) == IF a < b THEN a ELSE b
Remainder == ws.frame_len - ws.cur_len
Block == IF sndbuf < Reserve THEN Remainder
         ELSE Smaller(Remainder, Smaller(sndbuf - Reserve, Len(pbufi)))
Complete == ws.frame_len = ws.cur_len + Block

ws_taken == [ws EXCEPT !.flg = @ \ {"FIN"}]
ws_done  == [ws EXCEPT !.flg = @ \ {"FIN"}, !.cur_len = @ + Block]
Processing(status) == at = "loop" /\ More /\ InFrame /\ ws.status = status
Consume == pbufi' = WebsocketMask(Block) /\ cntri' = cntri + Block

(* After a block was sent: a failure leaves it where it is.                *)
ws_after(r) == IF r.err = "OK" THEN ws_done ELSE ws_taken
ConsumeAfter(r) ==
  pbufi' = WebsocketMask(Block) /\ cntri' = IF r.err = "OK" THEN cntri + Block ELSE cntri

(* History.                                                                *)
Cramp   == cramped' = (cramped \/ sndbuf < Reserve + Smaller(Remainder, Len(pbufi)))

(* The frame that carries a block of a frame with operation op back.       *)
EchoFrame(op) == Frame(IF ws.cur_len # 0 THEN "continue" ELSE op, Complete)

(* A binary block goes back to the peer.  An empty frame is only counted.  *)
Binary ==
  /\ Processing("binary")
  /\ \E r \in WebsocketTxFrame(EchoFrame("binary"), Block) :
       /\ ws.frame_len # 0
       /\ websock_tx_frame(EchoFrame("binary"), r, ws_after(r), scb)
       /\ echo' = IF r.err = "OK" THEN echo \o Payload(Block) ELSE echo
       /\ ConsumeAfter(r)
       /\ at' = IF r.err = "OK" THEN "trim" ELSE "return"
  /\ Cramp
  /\ UNCHANGED <<input, by, parts, heads, taken>>

BinaryEmpty ==
  /\ Processing("binary") /\ ws.frame_len = 0
  /\ Consume /\ ws' = ws_done
  /\ at' = "trim"
  /\ UNCHANGED <<input, scb, output, by, parts, history>>

(* The payload of a PONG goes back in a PONG, and the callback returns.    *)
Ping ==
  /\ Processing("ping")
  /\ \E r \in WebsocketTxFrame(EchoFrame("pong"), Block) :
       /\ websock_tx_frame(EchoFrame("pong"), r, ws_after(r), scb)
       /\ echo' = IF r.err = "OK" THEN echo \o Payload(Block) ELSE echo
       /\ ConsumeAfter(r)
  /\ Cramp
  /\ at' = "return"
  /\ UNCHANGED <<input, by, parts, heads, taken>>

(* The payload of a PING is dropped.                                       *)
Pong ==
  /\ Processing("pong")
  /\ Consume /\ ws' = ws_done /\ Cramp
  /\ at' = "trim"
  /\ UNCHANGED <<input, scb, output, by, parts, heads, echo, taken>>

---------------------------------------------------------------------------
(* A text.  Only its last block is acted on: it is taken for the message.  *)
Whole == Complete /\ ws.frame_len # 0
Room  == sndbuf >= MinSend
IsPing ==
  /\ Block = ws.frame_len /\ ws.mask # 0
  /\ peer[ws.mask].op = "wsping"
  /\ \A i \in 1..Block : Payload(Block)[i].x = "plain"

TextPart ==
  /\ Processing("text") /\ ~Whole
  /\ Consume /\ ws' = ws_done /\ Cramp
  /\ at' = "return"
  /\ UNCHANGED <<input, scb, output, by, parts, heads, echo, taken>>

(* No room for an answer, or no memory for it.                             *)
TextNoRoom ==
  /\ Processing("text") /\ Whole
  /\ Room => ~IsPing
  /\ pbufi' = WebsocketMask(Block)
  /\ websock_tx_close_err(ws_taken, scb \cup {"FCLOSE", "DISCONNECT"})
  /\ Cramp
  /\ at' = "return"
  /\ UNCHANGED <<input, cntri, by, parts, heads, echo, taken>>

(* "ws:ping" is answered in place.                                         *)
TextPing ==
  /\ Processing("text") /\ Whole /\ Room /\ IsPing
  /\ \E r \in WebsocketTxFrame(Frame("text", TRUE), Block) :
       /\ websock_tx_frame(Frame("text", TRUE), r, ws_after(r), scb)
       /\ ConsumeAfter(r)
  /\ Cramp
  /\ at' = "return"
  /\ UNCHANGED <<input, by, parts, heads, echo, taken>>

(* The text is ended with a 0, over the byte that follows it, and handed   *)
(* to web_int_vars or web_int_callback; when the answer is to go on        *)
(* (SCB_RETRYCB) the next callback comes here again, masks the text again  *)
(* and asks func_web_cb for the next part, until the last.                 *)
Again == "RETRYCB" \in scb
EndText ==
  [i \in 1..Len(pbufi) |->
     IF i = Block + 1 THEN [pbufi[i] EXCEPT !.x = "zero"] ELSE WebsocketMask(Block)[i]]

(* Mutant: every part of an answer is marked the last.                     *)
AnswerFrame_Final(more) == Frame(IF Again THEN "continue" ELSE "text", TRUE)
AnswerFrame(more) == Frame(IF Again THEN "continue" ELSE "text", ~more)

(* Mutant: the text is handed over again for every part.                   *)
Handed_Again == Append(taken, Payload(Block))
Handed == IF Again THEN taken ELSE Append(taken, Payload(Block))

(* Whether the text stays in the buffer.  Mutant: it counts as processed   *)
(* while its answer goes on.                                               *)
Stays_Never(r, more) == r.err # "OK"
Stays(r, more) == r.err # "OK" \/ more

(* No frame goes out for an empty part.                                    *)
SendPart(n, more) ==
  IF n = 0 THEN {[last |-> last, sndbuf |-> sndbuf, err |-> "OK"]}
  ELSE WebsocketTxFrame(AnswerFrame(more), n)

TextAnswer(n, more) ==
  /\ Processing("text") /\ Whole /\ Room /\ ~IsPing
  /\ taken' = Handed
  /\ pbufi' = IF Again THEN WebsocketMask(Block) ELSE EndText
  /\ \E r \in SendPart(n, more) :
       /\ websock_tx_frame(AnswerFrame(more), r,
                           IF Stays(r, more) THEN ws_taken ELSE ws_done,
                           IF more THEN scb \cup {"RETRYCB"} ELSE scb \ {"RETRYCB"})
       /\ cntri' = IF Stays(r, more) THEN cntri ELSE cntri + Block
  /\ parts' = IF more THEN parts + 1 ELSE 0
  /\ Cramp
  /\ at' = "return"
  /\ UNCHANGED <<input, by, heads, echo>>

(* A page variable may have nothing to say, a little or all there is room  *)
(* for; it goes on only when it has filled its room.                       *)
Text ==
  \E n \in {0, 1, sndbuf - TextReserve}, more \in BOOLEAN :
    /\ more => parts < MaxParts /\ (n = sndbuf - TextReserve \/ (EmptyParts /\ n = 0))
    /\ TextAnswer(n, more)

---------------------------------------------------------------------------
(* CLOSE: answered when it is normal or gives no reason.                   *)
CloseNormal == Block < 2 \/ (ws.mask # 0 /\ peer[ws.mask].op = "close")

CloseFrame ==
  /\ Processing("close")
  /\ pbufi' = WebsocketMask(Block)
  /\ IF CloseNormal
     THEN websock_tx_close_err(ws_taken, scb \cup {"DISCONNECT"})
     ELSE ws' = ws_taken /\ scb' = scb \cup {"DISCONNECT"} /\ UNCHANGED output
  /\ Cramp
  /\ at' = "return"
  /\ UNCHANGED <<input, cntri, by, parts, heads, echo, taken>>

(* A continuation of nothing.                                              *)
NoStatus ==
  /\ Processing("none")
  /\ pbufi' = WebsocketMask(Block)
  /\ websock_tx_close_err(ws_taken, scb \cup {"DISCONNECT"})
  /\ Cramp
  /\ at' = "return"
  /\ UNCHANGED <<input, cntri, by, parts, heads, echo, taken>>

(* Mutant: a last byte that is not processed is freed with the buffer.     *)
Trim_LastByte ==
  /\ at = "trim"
  /\ pbufi' = IF cntri \in 1..(Len(pbufi) - 2) THEN After(pbufi, cntri) ELSE <<>>
  /\ cntri' = 0
  /\ at' = "loop"
  /\ UNCHANGED <<input, ws, scb, output, by, parts, history>>

(* web_trim_bufi at the end of a turn.  When nothing was processed, or     *)
(* everything, the buffer is freed.                                        *)
Trim ==
  /\ at = "trim"
  /\ pbufi' = IF cntri \in 1..(Len(pbufi) - 1) THEN After(pbufi, cntri) ELSE <<>>
  /\ cntri' = 0
  /\ at' = "loop"
  /\ UNCHANGED <<input, ws, scb, output, by, parts, history>>

TrimNoMemory ==
  /\ at = "trim" /\ cntri \in 1..(Len(pbufi) - 1)
  /\ websock_tx_close_err(ws, scb \cup {"DISCONNECT"})
  /\ at' = "return"
  /\ UNCHANGED <<input, buffer, by, parts, history>>

(* The end of webserver_received_data and of webserver_sent_callback: with *)
(* FCLOSE or DISCONNECT the connection is given up (web_int_disconnect).   *)
(* After the former recv_trim_bufi drops what is processed.                *)
Return ==
  /\ at = "return"
  /\ scb' = IF scb \cap {"FCLOSE", "DISCONNECT"} = {} THEN scb
            ELSE scb \cup {"DISCONNECT", "CLOSED"}
  /\ IF by = "recv" THEN pbufi' = After(pbufi, cntri) /\ cntri' = 0 ELSE UNCHANGED buffer
  /\ at' = "idle"
  /\ UNCHANGED <<input, ws, output, by, parts, history>>

Turn ==
  \/ Enter \/ EnterEmpty \/ EnterClosing \/ EnterFull
  \/ Drained \/ HeadGood \/ HeadShort \/ HeadBad
  \/ Binary \/ BinaryEmpty \/ Ping \/ Pong
  \/ TextPart \/ TextNoRoom \/ TextPing \/ Text
  \/ CloseFrame \/ NoStatus
  \/ Trim \/ TrimNoMemory \/ Return

Arrive == \E n \in 1..Len(wire) : Recv(n)
Ack    == \E n \in 1..(SndBuf - sndbuf) : Sent(n)

Next ==
  \/ \E f \in Frames : PeerSend(f)
  \/ Arrive \/ RecvNull \/ Ack \/ Turn

Spec == Init /\ [][Next]_vars

(* lwIP delivers what the peer sent and what it acknowledged, and a        *)
(* callback returns.                                                       *)
FairSpec == Spec /\ WF_vars(Turn) /\ WF_vars(Arrive) /\ WF_vars(Ack)

---------------------------------------------------------------------------
(* Properties.                                                             *)
Sort == {"sent", "plain", "wrong", "zero"}
BytesOf(fs, x) == [f : fs, k : Nat, x : x]
WsType ==
  [frame_len : Nat, cur_len : Nat,
   status : {"none", "text", "binary", "close", "ping", "pong"},
   flg : SUBSET {"FIN", "CLOSE"}, mask : 0..MaxFrames]
SentType ==
  [op : {"none", "text", "binary", "continue", "pong", "close"}, fin : BOOLEAN,
   re : 0..MaxFrames, load : {"whole", "cut"}, n : 0..1]
Bits == {"DISCONNECT", "FCLOSE", "CLOSED", "RETRYCB"}

(* The types of the variables.                                             *)
TypeOK ==
  /\ peer \in Seq(Frames) /\ Len(peer) <= MaxFrames
  /\ wire \in Seq(BytesOf(1..MaxFrames, {"sent"}))
  /\ pbufi \in Seq(BytesOf(1..MaxFrames, Sort)) /\ cntri \in Nat
  /\ ws \in WsType /\ scb \in SUBSET Bits
  /\ sndbuf \in 0..SndBuf /\ last \in SentType
  /\ at \in {"idle", "enter", "loop", "trim", "return"} /\ by \in {"recv", "sent"}
  /\ parts \in 0..MaxParts
  /\ heads \in Seq(0..MaxFrames) /\ cramped \in BOOLEAN
  /\ echo \in Seq(BytesOf(0..MaxFrames, Sort))
  /\ taken \in Seq(Seq(BytesOf(0..MaxFrames, Sort)))

(* The server reads the head of every frame, in order, and nothing else as *)
(* a head, however the bytes are cut and whichever callback reads them, as *)
(* long as no block of it was too long for the send buffer.                *)
HeadsAreFrames == ~cramped => \A i \in 1..Len(heads) : heads[i] = i

(* What goes back is the payload of the binary and PONG frames, unmasked   *)
(* and in order, without a byte lost or repeated, with that exception.     *)
Payloads[n \in Nat] ==
  IF n = 0 THEN <<>>
  ELSE Payloads[n - 1] \o
       IF peer[n].op \notin {"binary", "pong"} THEN <<>>
       ELSE [k \in 1..peer[n].len |-> Byte(n, k + InHead, "plain")]
EchoInOrder ==
  ~cramped => /\ Len(echo) <= Len(Payloads[Len(peer)])
              /\ echo = SubSeq(Payloads[Len(peer)], 1, Len(echo))

(* Answers go out in the order of the frames they answer, those of one     *)
(* frame are not mixed with others, and nothing follows the final one.     *)
AnswersInOrder ==
  [][last' # last /\ last'.re # 0 =>
       last.re <= last'.re /\ (last.fin => last.re < last'.re)]_vars

(* A text is handed over once, unmasked, and up to its last byte, with the *)
(* exception of HeadsAreFrames.                                            *)
TextsTaken == ~cramped =>
  /\ \A i \in 1..Len(taken) :
       LET t == taken[i] IN
         \A j \in 1..Len(t) :
           t[j] = Byte(t[1].f, InHead + peer[t[1].f].len - Len(t) + j, "plain")
  /\ \A i, j \in 1..Len(taken) : i < j => taken[i][1].f < taken[j][1].f

(* Nothing is sent after a close, nor after a frame that was cut short.    *)
NothingAfterEnd == [][last' # last => last.op # "close" /\ last.load = "whole"]_vars

(* An answer that goes on is finished, or the connection is given up.      *)
AnswerEnds == ("RETRYCB" \in scb) ~> ("RETRYCB" \notin scb \/ Closed)

(* A connection on which a close was sent is given up.                     *)
CloseCompletes == ("CLOSE" \in ws.flg) ~> Closed

(* All that the peer sent to be echoed goes back, or the connection is     *)
(* given up, with the exception of HeadsAreFrames.                          *)
EchoCompletes ==
  []<>(Closed \/ cramped \/ Len(echo) = Len(Payloads[Len(peer)]))
==============================================================================
