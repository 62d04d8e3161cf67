--------------------------- MODULE WebSockProofs ---------------------------
(***************************************************************************)
(* Proofs about WebSock for frames of any kind and length, cut in any way, *)
(* and buffers of any size: the types; that nothing is sent after a close  *)
(* or a frame that was cut short; that answers go out in the order of the  *)
(* frames; and, for a peer that waits where PeerWaits says, that every     *)
(* head is read where it is, that what goes back is what was sent, and     *)
(* that a text is handed over once and whole.                              *)
(***************************************************************************)
EXTENDS WebSock, SeqFacts, SequenceTheorems, TLAPS

(* What the types rest on: the bytes in the buffer and on the wire are of  *)
(* frames the peer has sent, a frame is never processed past its end, and  *)
(* one is in progress only when a head was read.                           *)
Sent1 == 1..Len(peer)
Known == BytesOf(Sent1, Sort)
Sound ==
  /\ pbufi \in Seq(Known)
  /\ wire \in Seq(BytesOf(Sent1, {"sent"}))
  /\ ws.cur_len <= ws.frame_len
  /\ heads = <<>> => ws.frame_len = ws.cur_len /\ "FIN" \notin ws.flg

(* A connection whose last frame ends it has a mark of that: the close is  *)
(* remembered in ws, or DISCONNECT is set.  With DISCONNECT a callback is  *)
(* about to return or has returned and closed the connection; with a close *)
(* remembered no callback gets into the loop.                              *)
Ended == last.op = "close" \/ last.load = "cut"
EndInv ==
  /\ Ended => "CLOSE" \in ws.flg \/ "DISCONNECT" \in scb
  /\ "DISCONNECT" \in scb => at = "return" \/ (at = "idle" /\ "CLOSED" \in scb)
  /\ "CLOSE" \in ws.flg => at \in {"idle", "enter", "return"}

IInv == TypeOK /\ Sound /\ EndInv

(* What a step may do to the last frame sent.                              *)
EndStep == last' # last => last.op # "close" /\ last.load = "whole"

LEMMA Initially == Init => IInv
<1> USE WebSockAssumption
<1> SUFFICES ASSUME Init PROVE IInv
  OBVIOUS
<1>1. ws \in WsType /\ last \in SentType
  BY DEF Init, WsType, SentType, None
<1>2. scb \in SUBSET Bits /\ sndbuf \in 0..SndBuf /\ parts \in 0..MaxParts /\ Len(peer) <= MaxFrames
  BY DEF Init
<1>3. /\ peer \in Seq(Frames)
      /\ wire \in Seq(BytesOf(1..MaxFrames, {"sent"}))
      /\ pbufi \in Seq(BytesOf(1..MaxFrames, Sort))
      /\ heads \in Seq(0..MaxFrames)
      /\ echo \in Seq(BytesOf(0..MaxFrames, Sort))
      /\ taken \in Seq(Seq(BytesOf(0..MaxFrames, Sort)))
  BY EmptySeq DEF Init
<1>4. TypeOK
  BY <1>1, <1>2, <1>3 DEF Init, TypeOK
<1>5. Sound
  BY EmptySeq DEF Init, Sound
<1>6. EndInv
  BY DEF Init, EndInv, Ended, None
<1> QED BY <1>4, <1>5, <1>6 DEF IInv

---------------------------------------------------------------------------
(* What the helpers return.                                                *)
LEMMA AfterType ==
  ASSUME NEW S, NEW s \in Seq(S), NEW n \in Nat
  PROVE  After(s, n) \in Seq(S)
<1>1. Len(s) \in Nat /\ \A i \in (n + 1)..Len(s) : s[i] \in S
  BY LenProperties, ElementOfSeq
<1> QED BY <1>1, SubSeqProperties DEF After

LEMMA MaskedType ==
  ASSUME NEW fs, NEW b \in BytesOf(fs, Sort), NEW f, NEW x \in Nat
  PROVE  Masked(b, f, x) \in BytesOf(fs, Sort)
BY DEF Masked, BytesOf, Sort

LEMMA MaskType ==
  ASSUME IInv, NEW n \in Nat
  PROVE  WebsocketMask(n) \in Seq(Known) /\ Len(WebsocketMask(n)) = Len(pbufi)
<1>1. Len(pbufi) \in Nat /\ \A i \in 1..Len(pbufi) : pbufi[i] \in Known
  BY LenProperties, ElementOfSeq DEF IInv, Sound
<1>2. ws.cur_len \in Nat
  BY DEF IInv, TypeOK, WsType
<1>3. \A i \in 1..Len(pbufi) : Masked(pbufi[i], ws.mask, ws.cur_len + i - 1) \in Known
  BY <1>1, <1>2, MaskedType DEF Known
<1> DEFINE m(i) == IF i <= n THEN Masked(pbufi[i], ws.mask, ws.cur_len + i - 1) ELSE pbufi[i]
<1>4. \A i \in 1..Len(pbufi) : m(i) \in Known
  BY <1>1, <1>3
<1>5. WebsocketMask(n) = [i \in 1..Len(pbufi) |-> m(i)]
  BY DEF WebsocketMask
<1> HIDE DEF m
<1>6. WebsocketMask(n) \in [1..Len(pbufi) -> Known]
  BY <1>4, <1>5
<1> QED BY <1>1, <1>6, SeqDef, LenProperties

(* The bytes of frames the peer has sent are bytes of frames it may send.  *)
LEMMA KnownBytes ==
  ASSUME IInv
  PROVE  /\ Len(peer) \in Nat /\ Known \subseteq BytesOf(1..MaxFrames, Sort)
         /\ BytesOf(Sent1, {"sent"}) \subseteq BytesOf(1..MaxFrames, {"sent"})
         /\ BytesOf(Sent1, {"sent"}) \subseteq Known
<1>1. Len(peer) \in Nat /\ Len(peer) <= MaxFrames /\ MaxFrames \in Nat
  BY LenProperties, WebSockAssumption DEF IInv, TypeOK
<1> QED BY <1>1 DEF Known, Sent1, BytesOf, Sort

LEMMA PayloadType ==
  ASSUME IInv, NEW n \in Nat
  PROVE  Payload(n) \in Seq(BytesOf(0..MaxFrames, Sort))
<1> DEFINE B == BytesOf(0..MaxFrames, Sort)
           p(i) == IF i <= Len(pbufi) THEN WebsocketMask(n)[i] ELSE Junk
<1>1. Len(pbufi) \in Nat
  BY LenProperties DEF IInv, Sound
<1>2. \A i \in 1..Len(pbufi) : WebsocketMask(n)[i] \in Known
  BY MaskType, ElementOfSeq
<1>3. Known \subseteq B /\ Junk \in B
  BY KnownBytes, WebSockAssumption DEF BytesOf, Junk, Byte, Sort
<1>4. \A i \in 1..n : p(i) \in B
  BY <1>1, <1>2, <1>3
<1>5. Payload(n) = [i \in 1..n |-> p(i)]
  BY DEF Payload
<1> HIDE DEF p, B
<1>6. Payload(n) \in [1..n -> B]
  BY <1>4, <1>5
<1> QED BY <1>6, SeqDef DEF B

(* A block is never longer than what is left of its frame.                 *)
LEMMA BlockType ==
  ASSUME IInv
  PROVE  Remainder \in Nat /\ Block \in 0..Remainder /\ Complete \in BOOLEAN
<1>1. ws.frame_len \in Nat /\ ws.cur_len \in Nat /\ ws.cur_len <= ws.frame_len
  BY DEF IInv, TypeOK, WsType, Sound
<1>2. Len(pbufi) \in Nat /\ sndbuf \in Nat /\ Reserve \in Nat
  BY LenProperties, WebSockAssumption DEF IInv, TypeOK, Sound
<1> QED BY <1>1, <1>2 DEF Remainder, Block, Smaller, Complete

(* Nothing has ended the connection while a callback is at work.           *)
LEMMA NotEnded ==
  ASSUME IInv, at \notin {"idle", "return"}
  PROVE  "DISCONNECT" \notin scb /\ (at # "enter" \/ "CLOSE" \notin ws.flg => ~Ended)
BY DEF IInv, EndInv

LEMMA FrameType ==
  ASSUME IInv, NEW op \in {"text", "binary", "continue", "pong", "close"},
         NEW fin \in BOOLEAN, NEW re \in 0..MaxFrames
  PROVE  /\ FrameOf(op, fin, re) \in SentType
         /\ FrameOf(op, fin, re).op = op /\ FrameOf(op, fin, re).load = "whole"
BY DEF FrameOf, SentType, IInv, TypeOK

(* A frame goes out, or fails, where nothing has ended the connection.     *)
LEMMA FrameSent ==
  ASSUME IInv, NEW fr \in SentType, fr.load = "whole", NEW n \in Nat,
         NEW r \in WebsocketTxFrame(fr, n), NEW ws1 \in WsType, NEW scb1 \in SUBSET Bits,
         websock_tx_frame(fr, r, ws1, scb1), ~Ended, "CLOSE" \notin ws1.flg
  PROVE  /\ r.err \in {"OK", "ERR"}
         /\ last' \in SentType /\ sndbuf' \in 0..SndBuf
         /\ ws' \in WsType /\ scb' \in SUBSET Bits
         /\ ws'.frame_len = ws1.frame_len /\ ws'.cur_len = ws1.cur_len
         /\ "FIN" \in ws'.flg <=> "FIN" \in ws1.flg
         /\ EndStep
         /\ Ended' => "CLOSE" \in ws'.flg \/ "DISCONNECT" \in scb'
         /\ "CLOSE" \in ws'.flg => fr.op = "close"
         /\ scb' = scb1 \/ (r.err = "ERR" /\ scb' = scb1 \cup {"DISCONNECT"})
<1> USE WebSockAssumption
<1>0. last \in SentType /\ sndbuf \in 0..SndBuf /\ last.op # "close" /\ last.load = "whole"
  BY DEF IInv, TypeOK, Ended, SentType
<1>1. CASE r = [last |-> last, sndbuf |-> sndbuf, err |-> "ERR"]
  <2>1. /\ last' = last /\ sndbuf' = sndbuf /\ ws' = ws1
        /\ scb' = scb1 \cup {"DISCONNECT"} /\ r.err = "ERR"
    BY <1>1 DEF websock_tx_frame
  <2> QED BY <1>0, <2>1 DEF EndStep, Ended, Bits
<1>2. CASE /\ r = [last |-> fr, sndbuf |-> sndbuf - OutHead - n, err |-> "OK"]
           /\ OutHead + n <= sndbuf
  <2>1. last' = fr /\ sndbuf' = sndbuf - OutHead - n /\ r.err = "OK" /\ scb' = scb1
    BY <1>2 DEF websock_tx_frame
  <2>2. sndbuf' \in 0..SndBuf
    BY <1>0, <1>2, <2>1
  <2>3. CASE fr.op = "close"
    <3>1. ws' = [ws1 EXCEPT !.flg = @ \cup {"CLOSE"}]
      BY <2>1, <2>3 DEF websock_tx_frame
    <3> QED BY <1>0, <2>1, <2>2, <2>3, <3>1 DEF EndStep, Ended, WsType
  <2>4. CASE fr.op # "close"
    <3>1. ws' = ws1
      BY <2>1, <2>4 DEF websock_tx_frame
    <3> QED BY <1>0, <2>1, <2>2, <2>4, <3>1 DEF EndStep, Ended
  <2> QED BY <2>3, <2>4
<1>3. CASE /\ r = [last |-> Cut(fr), sndbuf |-> sndbuf - OutHead, err |-> "ERR"]
           /\ OutHead + n <= sndbuf
  <2>1. /\ last' = Cut(fr) /\ sndbuf' = sndbuf - OutHead
        /\ ws' = ws1 /\ scb' = scb1 \cup {"DISCONNECT"} /\ r.err = "ERR"
    BY <1>3 DEF websock_tx_frame
  <2>2. sndbuf' \in 0..SndBuf /\ last' \in SentType
        /\ last'.load = "cut"
    BY <1>0, <1>3, <2>1 DEF SentType, Cut
  <2> QED BY <1>0, <2>1, <2>2 DEF EndStep, Ended, Bits
<1>4. OutHead + n > sndbuf \/ OutHead + n <= sndbuf
  BY <1>0
<1> QED BY <1>1, <1>2, <1>3, <1>4 DEF WebsocketTxFrame

LEMMA CloseSent ==
  ASSUME IInv, NEW ws1 \in WsType, NEW scb1 \in SUBSET Bits,
         websock_tx_close_err(ws1, scb1), ~Ended, "CLOSE" \notin ws1.flg
  PROVE  /\ last' \in SentType /\ sndbuf' \in 0..SndBuf
         /\ ws' \in WsType /\ scb' \in SUBSET Bits
         /\ ws'.frame_len = ws1.frame_len /\ ws'.cur_len = ws1.cur_len
         /\ "FIN" \in ws'.flg <=> "FIN" \in ws1.flg
         /\ EndStep
         /\ Ended' => "CLOSE" \in ws'.flg \/ "DISCONNECT" \in scb'
<1>0. 0 \in 0..MaxFrames
  BY WebSockAssumption
<1>1. Close \in SentType /\ Close.load = "whole"
  BY <1>0, FrameType DEF Close
<1>2. PICK r \in WebsocketTxFrame(Close, 2) : websock_tx_frame(Close, r, ws1, scb1)
  BY DEF websock_tx_close_err
<1> QED BY <1>1, <1>2, FrameSent

---------------------------------------------------------------------------
(* The steps.  Each of these lemmas is about steps of one kind.            *)

(* Steps of the peer and of lwIP.                                          *)
LEMMA PeerStep ==
  ASSUME IInv, NEW f \in Frames, PeerSend(f)
  PROVE  IInv' /\ EndStep
<1> USE DEF PeerSend, IInv, buffer, output, history
<1>1. f.len \in Nat /\ InHead \in Nat /\ Len(peer) \in Nat
  BY LenProperties, WebSockAssumption DEF TypeOK
<1>2. peer' \in Seq(Frames) /\ Len(peer') = Len(peer) + 1 /\ Len(peer') <= MaxFrames
  BY <1>1, WebSockAssumption DEF TypeOK
<1>3. Bytes(f, Len(peer) + 1) \in Seq(BytesOf(Sent1', {"sent"}))
  <2> DEFINE n == InHead + f.len
             b(k) == Byte(Len(peer) + 1, k, "sent")
  <2>1. n \in Nat /\ \A k \in 1..n : b(k) \in BytesOf(Sent1', {"sent"})
    BY <1>1, <1>2 DEF BytesOf, Byte, Sent1
  <2>2. Bytes(f, Len(peer) + 1) = [k \in 1..n |-> b(k)]
    BY DEF Bytes
  <2> HIDE DEF n, b
  <2>3. Bytes(f, Len(peer) + 1) \in [1..n -> BytesOf(Sent1', {"sent"})]
    BY <2>1, <2>2
  <2> QED BY <2>1, <2>3, SeqDef
<1>4. Sent1 \subseteq Sent1' /\ Sent1' \subseteq 1..MaxFrames
  BY <1>1, <1>2, WebSockAssumption DEF Sent1
<1>5. Known \subseteq Known' /\ BytesOf(Sent1, {"sent"}) \subseteq BytesOf(Sent1', {"sent"})
      /\ BytesOf(Sent1', {"sent"}) \subseteq BytesOf(1..MaxFrames, {"sent"})
  BY <1>4 DEF Known, BytesOf
<1>6. pbufi' \in Seq(Known')
  BY <1>5, SeqMonotonic DEF Sound
<1>7. wire' \in Seq(BytesOf(Sent1', {"sent"}))
  <2>1. wire \in Seq(BytesOf(Sent1', {"sent"}))
    BY <1>5, SeqMonotonic DEF Sound
  <2> QED BY <1>3, <2>1, ConcatProperties
<1>8. wire' \in Seq(BytesOf(1..MaxFrames, {"sent"}))
  BY <1>5, <1>7, SeqMonotonic
<1>9. TypeOK'
  BY <1>2, <1>8 DEF TypeOK
<1>10. Sound'
  BY <1>6, <1>7 DEF Sound
<1>11. EndInv' /\ EndStep
  BY DEF EndInv, Ended, EndStep
<1> QED BY <1>9, <1>10, <1>11

LEMMA ArriveStep ==
  ASSUME IInv, NEW n \in 1..Len(wire), Recv(n)
  PROVE  IInv' /\ EndStep
<1> USE DEF Recv, IInv, output, history
<1>1. n \in Nat /\ cntri \in Nat /\ Len(wire) \in Nat
  BY LenProperties DEF TypeOK, Sound
<1>2. wire' \in Seq(BytesOf(Sent1, {"sent"}))
  BY <1>1, AfterType DEF Sound
<1>3. SubSeq(wire, 1, n) \in Seq(BytesOf(Sent1, {"sent"}))
  <2>1. \A i \in 1..n : wire[i] \in BytesOf(Sent1, {"sent"})
    BY <1>1, ElementOfSeq DEF Sound
  <2> QED BY <1>1, <2>1, SubSeqProperties
<1>4. SubSeq(wire, 1, n) \in Seq(Known)
  BY <1>3, KnownBytes, SeqMonotonic
<1>5. After(pbufi, cntri) \in Seq(Known)
  BY <1>1, AfterType DEF Sound
<1>6. pbufi' \in Seq(Known)
  BY <1>4, <1>5, ConcatProperties
<1>7. /\ wire' \in Seq(BytesOf(1..MaxFrames, {"sent"}))
      /\ pbufi' \in Seq(BytesOf(1..MaxFrames, Sort))
  BY <1>2, <1>6, KnownBytes, SeqMonotonic
<1>8. TypeOK'
  BY <1>7 DEF TypeOK
<1>9. Sound'
  BY <1>2, <1>6 DEF Sound, Known, Sent1
<1>10. EndInv' /\ EndStep
  BY DEF EndInv, Ended, EndStep, Closed
<1> QED BY <1>8, <1>9, <1>10

LEMMA OtherStep ==
  ASSUME IInv, RecvNull \/ Ack
  PROVE  IInv' /\ EndStep
<1> USE DEF IInv
<1>1. CASE RecvNull
  <2>1. wire' \in Seq(BytesOf(1..MaxFrames, {"sent"})) /\ wire' \in Seq(BytesOf(Sent1, {"sent"}))
    BY <1>1, EmptySeq DEF RecvNull
  <2>2. TypeOK'
    BY <1>1, <2>1 DEF RecvNull, TypeOK, buffer, output, history
  <2>3. Sound'
    BY <1>1, <2>1 DEF RecvNull, Sound, Known, Sent1, buffer, output, history
  <2>4. EndInv' /\ EndStep
    BY <1>1 DEF RecvNull, EndInv, Ended, EndStep, output
  <2> QED BY <2>2, <2>3, <2>4
<1>2. CASE Ack
  <2>1. PICK n \in 1..(SndBuf - sndbuf) : Sent(n)
    BY <1>2 DEF Ack
  <2>2. sndbuf' \in 0..SndBuf
    BY <2>1, WebSockAssumption DEF Sent, TypeOK
  <2>3. at' \in {at, "enter"} /\ by' \in {by, "sent"} /\ (at' # at => ~Closed) /\ at = "idle"
    BY <2>1 DEF Sent
  <2>4. UNCHANGED <<input, buffer, ws, scb, last, parts, history>>
    BY <2>1 DEF Sent
  <2>5. TypeOK'
    BY <2>2, <2>3, <2>4 DEF TypeOK, input, buffer, history
  <2>6. Sound'
    BY <2>4 DEF Sound, Known, Sent1, input, buffer, history
  <2>7. EndInv' /\ EndStep
    BY <2>3, <2>4 DEF EndInv, Ended, EndStep, Closed
  <2> QED BY <2>5, <2>6, <2>7
<1> QED BY <1>1, <1>2

---------------------------------------------------------------------------
(* Steps of websock_rx_data.                                               *)
Places == {"idle", "enter", "loop", "trim", "return"}

(* The types and Sound are preserved by a step of the callback whose       *)
(* changed variables have their types.                                     *)
LEMMA TurnTypes ==
  ASSUME IInv, UNCHANGED <<input, by>>,
         pbufi' \in Seq(Known), cntri' \in Nat,
         ws' \in WsType, ws'.cur_len <= ws'.frame_len,
         heads' = <<>> => ws'.frame_len = ws'.cur_len /\ "FIN" \notin ws'.flg,
         scb' \in SUBSET Bits, sndbuf' \in 0..SndBuf, last' \in SentType,
         at' \in Places, parts' \in 0..MaxParts, heads' \in Seq(0..MaxFrames),
         cramped' \in BOOLEAN, echo' \in Seq(BytesOf(0..MaxFrames, Sort)),
         taken' \in Seq(Seq(BytesOf(0..MaxFrames, Sort)))
  PROVE  TypeOK' /\ Sound'
<1>1. peer' = peer /\ wire' = wire /\ by' = by
  BY DEF input
<1>2. pbufi' \in Seq(BytesOf(1..MaxFrames, Sort))
  BY KnownBytes, SeqMonotonic
<1>3. TypeOK'
  BY <1>1, <1>2 DEF IInv, TypeOK, Places
<1>4. Sound'
  BY <1>1 DEF IInv, Sound, Known, Sent1
<1> QED BY <1>3, <1>4

(* The types as they are, for the variables a step leaves alone.           *)
LEMMA TypesNow ==
  ASSUME IInv
  PROVE  /\ pbufi \in Seq(Known) /\ Len(pbufi) \in Nat /\ cntri \in Nat
         /\ ws \in WsType /\ ws.cur_len <= ws.frame_len
         /\ heads = <<>> => ws.frame_len = ws.cur_len /\ "FIN" \notin ws.flg
         /\ scb \in SUBSET Bits /\ sndbuf \in 0..SndBuf /\ last \in SentType
         /\ parts \in 0..MaxParts /\ heads \in Seq(0..MaxFrames)
         /\ cramped \in BOOLEAN /\ echo \in Seq(BytesOf(0..MaxFrames, Sort))
         /\ taken \in Seq(Seq(BytesOf(0..MaxFrames, Sort)))
BY LenProperties DEF IInv, TypeOK, Sound

(* Steps that leave the sending side and the frame in progress alone.      *)
LEMMA QuietTurn ==
  ASSUME IInv, Enter \/ EnterEmpty \/ Drained \/ HeadShort \/ Trim
  PROVE  IInv' /\ EndStep
<1>1. /\ UNCHANGED <<input, by, ws, scb, output, parts, history>>
      /\ at \in {"enter", "loop", "trim"} /\ at' \in {"loop", "return"}
      /\ at = "enter" /\ at' = "loop" => "CLOSE" \notin ws.flg
  BY DEF Enter, EnterEmpty, Drained, HeadShort, Trim
<1>2. pbufi' \in Seq(Known) /\ cntri' \in Nat
  <2>1. CASE Trim
    <3>1. <<>> \in Seq(Known)
      BY EmptySeq
    <3>2. After(pbufi, cntri) \in Seq(Known)
      BY TypesNow, AfterType
    <3> QED BY <2>1, <3>1, <3>2 DEF Trim
  <2>2. CASE UNCHANGED <<pbufi, cntri>>
    BY <2>2, TypesNow
  <2> QED BY <2>1, <2>2 DEF Enter, EnterEmpty, Drained, HeadShort, buffer
<1>3. UNCHANGED <<ws, scb, sndbuf, last, parts, heads, cramped, echo, taken>>
  BY <1>1 DEF output, history
<1>4. UNCHANGED <<input, by>> /\ at' \in Places
  BY <1>1 DEF Places
<1>5. TypeOK' /\ Sound'
  BY <1>2, <1>3, <1>4, TypesNow, TurnTypes
<1>6. EndInv' /\ EndStep
  BY <1>1, <1>3, NotEnded DEF IInv, EndInv, Ended, EndStep
<1> QED BY <1>5, <1>6 DEF IInv

(* Steps of a connection that is closing, or whose buffer is too full.     *)
LEMMA EndingTurn ==
  ASSUME IInv, EnterClosing \/ EnterFull \/ TrimNoMemory
  PROVE  IInv' /\ EndStep
<1>1. /\ UNCHANGED <<input, by, parts, history>>
      /\ at \in {"enter", "trim"} /\ at' = "return"
  BY DEF EnterClosing, EnterFull, TrimNoMemory
<1>2. pbufi' \in Seq(Known) /\ cntri' \in Nat
  <2>1. <<>> \in Seq(Known)
    BY EmptySeq
  <2>2. FreeBuf \/ UNCHANGED <<pbufi, cntri>>
    BY DEF EnterClosing, EnterFull, TrimNoMemory, buffer
  <2>3. CASE FreeBuf
    BY <2>1, <2>3 DEF FreeBuf
  <2>4. CASE UNCHANGED <<pbufi, cntri>>
    BY <2>4, TypesNow
  <2> QED BY <2>2, <2>3, <2>4
<1>3. UNCHANGED <<parts, heads, cramped, echo, taken>>
  BY <1>1 DEF history
<1>4. UNCHANGED <<input, by>> /\ at' \in Places
  BY <1>1 DEF Places
<1>5. CASE EnterClosing
  <2>1. UNCHANGED <<ws, sndbuf, last>> /\ scb' = scb \cup {"DISCONNECT"}
    BY <1>5 DEF EnterClosing, output
  <2>2. scb' \in SUBSET Bits
    BY <2>1, TypesNow DEF Bits
  <2>3. TypeOK' /\ Sound'
    BY <1>2, <1>3, <1>4, <2>1, <2>2, TypesNow, TurnTypes
  <2>4. EndInv' /\ EndStep
    BY <1>1, <2>1 DEF IInv, EndInv, Ended, EndStep
  <2> QED BY <2>3, <2>4 DEF IInv
<1>6. CASE EnterFull \/ TrimNoMemory
  <2>1. websock_tx_close_err(ws, scb \cup {"DISCONNECT"})
    BY <1>6 DEF EnterFull, TrimNoMemory
  <2>2. ~Ended /\ "CLOSE" \notin ws.flg
    BY <1>6, <1>1, NotEnded DEF EnterFull, TrimNoMemory, IInv, EndInv
  <2>3. ws \in WsType /\ scb \cup {"DISCONNECT"} \in SUBSET Bits
    BY TypesNow DEF Bits
  <2>4. /\ last' \in SentType /\ sndbuf' \in 0..SndBuf
        /\ ws' \in WsType /\ scb' \in SUBSET Bits
        /\ ws'.frame_len = ws.frame_len /\ ws'.cur_len = ws.cur_len
        /\ "FIN" \in ws'.flg <=> "FIN" \in ws.flg
        /\ EndStep
        /\ Ended' => "CLOSE" \in ws'.flg \/ "DISCONNECT" \in scb'
    BY <2>1, <2>2, <2>3, CloseSent
  <2>5. TypeOK' /\ Sound'
    BY <1>2, <1>3, <1>4, <2>4, TypesNow, TurnTypes
  <2>6. EndInv'
    BY <1>1, <2>4 DEF EndInv
  <2> QED BY <2>4, <2>5, <2>6 DEF IInv
<1> QED BY <1>5, <1>6

(* A callback has returned.                                                *)
LEMMA ReturnStep ==
  ASSUME IInv, Return
  PROVE  IInv' /\ EndStep
<1>1. /\ UNCHANGED <<input, by, ws, sndbuf, last, parts, heads, cramped, echo, taken>>
      /\ at = "return" /\ at' = "idle"
      /\ scb' = IF scb \cap {"FCLOSE", "DISCONNECT"} = {} THEN scb
                ELSE scb \cup {"DISCONNECT", "CLOSED"}
  BY DEF Return, output, history
<1>2. pbufi' \in Seq(Known) /\ cntri' \in Nat
  <2>1. pbufi \in Seq(Known) /\ cntri \in Nat
    BY TypesNow
  <2>2. After(pbufi, cntri) \in Seq(Known)
    BY <2>1, AfterType
  <2> QED BY <2>1, <2>2 DEF Return, buffer
<1>3. scb' \in SUBSET Bits
  BY <1>1, TypesNow DEF Bits
<1>4. UNCHANGED <<input, by>> /\ at' \in Places
  BY <1>1 DEF Places
<1>5. TypeOK' /\ Sound'
  BY <1>1, <1>2, <1>3, <1>4, TypesNow, TurnTypes
<1>6. EndInv' /\ EndStep
  BY <1>1 DEF IInv, EndInv, Ended, EndStep
<1> QED BY <1>5, <1>6 DEF IInv

(* A head.                                                                 *)
LEMMA HeadType ==
  ASSUME IInv, at = "loop", InHead <= Len(pbufi), NEW f \in Read
  PROVE  /\ f.len \in Nat /\ f.fin \in BOOLEAN /\ f.op \in Ops
         /\ AtHead => pbufi[1].f \in 0..MaxFrames
<1>1. AtHead => pbufi[1].f \in Sent1
  <2>1. 1 \in 1..Len(pbufi)
    BY TypesNow, WebSockAssumption
  <2>2. pbufi[1] \in Known
    BY <2>1, TypesNow, ElementOfSeq
  <2> QED BY <2>2 DEF Known, BytesOf
<1>2. AtHead => pbufi[1].f \in 0..MaxFrames /\ peer[pbufi[1].f] \in Frames
  <2>1. peer \in Seq(Frames) /\ Len(peer) <= MaxFrames /\ MaxFrames \in Nat
    BY WebSockAssumption DEF IInv, TypeOK
  <2> QED BY <1>1, <2>1, KnownBytes, ElementOfSeq DEF Sent1
<1>3. Frames \subseteq [op : Ops, len : Nat, fin : BOOLEAN]
  BY WebSockAssumption
<1>4. f \in [op : Ops, len : Nat, fin : BOOLEAN]
  <2>1. CASE f \in Frames
    BY <1>3, <2>1
  <2>2. CASE AtHead /\ f = [op |-> "continue", len |-> peer[pbufi[1].f].len, fin |-> FALSE]
    <3>1. peer[pbufi[1].f].len \in Nat
      BY <1>2, <1>3, <2>2
    <3> QED BY <2>2, <3>1 DEF Ops
  <2> QED BY <1>2, <2>1, <2>2 DEF Read
<1> QED BY <1>2, <1>4

LEMMA WebsocketHeadType ==
  ASSUME IInv, at = "loop", InHead <= Len(pbufi), NEW f \in Read
  PROVE  /\ WebsocketHead(f) \in WsType
         /\ WebsocketHead(f).cur_len <= WebsocketHead(f).frame_len
         /\ "CLOSE" \notin WebsocketHead(f).flg
<1> DEFINE h == WebsocketHead(f)
<1>1. f.len \in Nat /\ f.op \in Ops /\ (AtHead => pbufi[1].f \in 0..MaxFrames)
  BY HeadType
<1>2. ws.frame_len \in Nat /\ ws.status \in {"none", "text", "binary", "close", "ping", "pong"}
  BY TypesNow DEF WsType
<1>3. h.frame_len \in Nat /\ h.cur_len = 0
  BY <1>1, <1>2 DEF WebsocketHead
<1>4. h.status \in {"none", "text", "binary", "close", "ping", "pong"}
  BY <1>1, <1>2 DEF WebsocketHead, Status, Ops
<1>5. h.flg \in SUBSET {"FIN", "CLOSE"} /\ "CLOSE" \notin h.flg
  BY DEF WebsocketHead
<1>6. h.mask \in 0..MaxFrames
  BY <1>1, WebSockAssumption DEF WebsocketHead
<1>7. h = [frame_len |-> h.frame_len, cur_len |-> h.cur_len, status |-> h.status,
           flg |-> h.flg, mask |-> h.mask]
  BY DEF WebsocketHead
<1>8. h \in WsType
  BY <1>3, <1>4, <1>5, <1>6, <1>7 DEF WsType
<1> QED BY <1>3, <1>5, <1>8

LEMMA HeadsType ==
  ASSUME IInv, at = "loop", InHead <= Len(pbufi), NEW f \in Read, HeadRead
  PROVE  heads' \in Seq(0..MaxFrames) /\ heads' # <<>>
<1>1. (IF AtHead /\ pbufi[1].x = "sent" THEN pbufi[1].f ELSE 0) \in 0..MaxFrames
  BY HeadType, WebSockAssumption
<1> QED BY <1>1, TypesNow, AppendProperties DEF HeadRead

LEMMA HeadStep ==
  ASSUME IInv, HeadGood \/ HeadBad
  PROVE  IInv' /\ EndStep
<1>1. /\ UNCHANGED <<input, by, pbufi, parts, echo, taken, cramped>>
      /\ at = "loop" /\ at' \in Places /\ InHead <= Len(pbufi) /\ HeadRead
  BY DEF HeadGood, HeadBad, Places, buffer
<1>2. PICK f \in Read : TRUE
  BY DEF HeadGood, HeadBad
<1>3. heads' \in Seq(0..MaxFrames) /\ heads' # <<>>
  BY <1>1, <1>2, HeadsType
<1>4. ~Ended /\ "DISCONNECT" \notin scb
  BY <1>1, NotEnded
<1>5. CASE HeadGood
  <2>1. PICK g \in Read : ws' = WebsocketHead(g)
    BY <1>5 DEF HeadGood
  <2>2. /\ UNCHANGED <<scb, sndbuf, last>> /\ at' = "trim" /\ cntri' = cntri + InHead
    BY <1>5 DEF HeadGood, output
  <2>3. cntri' \in Nat
    <3>1. cntri \in Nat /\ InHead \in Nat
      BY TypesNow, WebSockAssumption
    <3> QED BY <2>2, <3>1
  <2>4. ws' \in WsType /\ ws'.cur_len <= ws'.frame_len /\ "CLOSE" \notin ws'.flg
    BY <1>1, <2>1, WebsocketHeadType
  <2>5. TypeOK' /\ Sound'
    BY <1>1, <1>3, <2>2, <2>3, <2>4, TypesNow, TurnTypes
  <2>6. EndInv' /\ EndStep
    BY <1>4, <2>2, <2>4 DEF EndInv, Ended, EndStep
  <2> QED BY <2>5, <2>6 DEF IInv
<1>6. CASE HeadBad
  <2>1. PICK g \in Read : websock_tx_close_err(WebsocketHead(g), scb)
    BY <1>6 DEF HeadBad
  <2>2. cntri' = cntri /\ at' = "return"
    BY <1>6 DEF HeadBad, buffer
  <2> DEFINE h == WebsocketHead(g)
  <2>3. h \in WsType /\ h.cur_len <= h.frame_len /\ "CLOSE" \notin h.flg
    BY <1>1, WebsocketHeadType
  <2> HIDE DEF h
  <2>4. /\ last' \in SentType /\ sndbuf' \in 0..SndBuf
        /\ ws' \in WsType /\ scb' \in SUBSET Bits
        /\ ws'.frame_len = h.frame_len /\ ws'.cur_len = h.cur_len
        /\ EndStep
        /\ Ended' => "CLOSE" \in ws'.flg \/ "DISCONNECT" \in scb'
    BY <1>4, <2>1, <2>3, TypesNow, CloseSent DEF h
  <2>5. TypeOK' /\ Sound'
    BY <1>1, <1>3, <2>2, <2>3, <2>4, TypesNow, TurnTypes
  <2>6. EndInv'
    BY <2>2, <2>4 DEF EndInv
  <2> QED BY <2>4, <2>5, <2>6 DEF IInv
<1> QED BY <1>5, <1>6

(* A block of the frame in progress.                                       *)
LEMMA InProgress ==
  ASSUME IInv, at = "loop", InFrame
  PROVE  /\ heads # <<>> /\ heads[Len(heads)] \in 0..MaxFrames
         /\ ~Ended /\ "DISCONNECT" \notin scb /\ "CLOSE" \notin ws.flg
<1>1. ws.frame_len \in Nat /\ ws.cur_len \in Nat
  BY TypesNow DEF WsType
<1>2. heads # <<>>
  BY <1>1, TypesNow DEF InFrame
<1>3. Len(heads) \in 1..Len(heads)
  BY <1>2, TypesNow, LenProperties, EmptySeq
<1>4. heads[Len(heads)] \in 0..MaxFrames
  BY <1>3, TypesNow, ElementOfSeq
<1>5. "CLOSE" \notin ws.flg
  BY DEF IInv, EndInv
<1> QED BY <1>2, <1>4, <1>5, NotEnded

LEMMA TakenType ==
  ASSUME IInv, at = "loop", InFrame, NEW w \in {ws_taken, ws_done}
  PROVE  /\ w \in WsType /\ w.cur_len <= w.frame_len
         /\ "CLOSE" \notin w.flg /\ "FIN" \notin w.flg
<1>1. ws \in WsType /\ "CLOSE" \notin ws.flg
  BY TypesNow, InProgress
<1>2. ws.frame_len \in Nat /\ ws.cur_len \in Nat /\ ws.cur_len <= ws.frame_len
  BY TypesNow DEF WsType
<1>3. Block \in Nat /\ ws.cur_len + Block <= ws.frame_len
  <2>1. Block \in 0..Remainder /\ Remainder \in Nat
    BY BlockType
  <2>2. Remainder = ws.frame_len - ws.cur_len
    BY DEF Remainder
  <2> QED BY <1>2, <2>1, <2>2
<1>4. CASE w = ws_taken
  BY <1>1, <1>2, <1>4 DEF ws_taken, WsType
<1>5. CASE w = ws_done
  <2>1. ws_done = [ws EXCEPT !.flg = @ \ {"FIN"}, !.cur_len = ws.cur_len + Block]
    BY <1>1 DEF ws_done, WsType
  <2>2. ws.cur_len + Block \in Nat
    BY <1>2, <1>3
  <2> QED BY <1>1, <1>2, <1>3, <1>5, <2>1, <2>2 DEF WsType
<1> QED BY <1>4, <1>5

(* What the steps of a block have in common: the block is unmasked, and    *)
(* history is of its type.                                                 *)
BlockTurn ==
  /\ at = "loop" /\ InFrame
  /\ UNCHANGED <<input, by, heads>>
  /\ pbufi' \in Seq(Known) /\ cntri' \in {cntri, cntri + Block}
  /\ at' \in {"trim", "return"} /\ parts' \in 0..MaxParts
  /\ cramped' \in BOOLEAN /\ echo' \in Seq(BytesOf(0..MaxFrames, Sort))
  /\ taken' \in Seq(Seq(BytesOf(0..MaxFrames, Sort)))

LEMMA BlockTypes ==
  ASSUME IInv, BlockTurn, ws' \in WsType, ws'.cur_len <= ws'.frame_len,
         scb' \in SUBSET Bits, sndbuf' \in 0..SndBuf, last' \in SentType
  PROVE  TypeOK' /\ Sound'
<1>1. cntri' \in Nat
  <2>1. cntri \in Nat /\ Block \in Nat
    BY TypesNow, BlockType
  <2> QED BY <2>1 DEF BlockTurn
<1>2. heads' = heads /\ heads' # <<>> /\ heads \in Seq(0..MaxFrames)
  BY InProgress, TypesNow DEF BlockTurn
<1>3. at' \in Places /\ UNCHANGED <<input, by>>
  BY DEF BlockTurn, Places
<1>4. /\ pbufi' \in Seq(Known) /\ parts' \in 0..MaxParts
      /\ cramped' \in BOOLEAN /\ echo' \in Seq(BytesOf(0..MaxFrames, Sort))
      /\ taken' \in Seq(Seq(BytesOf(0..MaxFrames, Sort)))
  BY DEF BlockTurn
<1> QED BY <1>1, <1>2, <1>3, <1>4, TurnTypes

(* Nothing is sent for the block.                                          *)
LEMMA BlockDropped ==
  ASSUME IInv, BlockTurn, NEW w \in {ws_taken, ws_done}, ws' = w,
         UNCHANGED output, \/ scb' = scb
                           \/ scb' = scb \cup {"DISCONNECT"} /\ at' = "return"
  PROVE  IInv' /\ EndStep
<1>1. sndbuf' = sndbuf /\ last' = last
  BY DEF output
<1>2. /\ w \in WsType /\ w.cur_len <= w.frame_len /\ "CLOSE" \notin w.flg
      /\ ~Ended /\ "DISCONNECT" \notin scb
  BY TakenType, InProgress DEF BlockTurn
<1>3. scb' \in SUBSET Bits
  BY TypesNow DEF Bits
<1>4. TypeOK' /\ Sound'
  BY <1>1, <1>2, <1>3, TypesNow, BlockTypes
<1>5. EndInv' /\ EndStep
  BY <1>1, <1>2 DEF EndInv, Ended, EndStep
<1> QED BY <1>4, <1>5 DEF IInv

(* A frame is sent for it, or is not; the loop goes on only when it was.   *)
LEMMA BlockSent ==
  ASSUME IInv, BlockTurn, NEW w \in {ws_taken, ws_done},
         NEW fr \in SentType, fr.load = "whole", fr.op # "close", NEW n \in Nat,
         NEW r \in WebsocketTxFrame(fr, n),
         NEW scb1 \in SUBSET Bits, "DISCONNECT" \notin scb1,
         websock_tx_frame(fr, r, w, scb1),
         r.err = "OK" \/ at' = "return"
  PROVE  IInv' /\ EndStep
<1>1. /\ w \in WsType /\ w.cur_len <= w.frame_len /\ "CLOSE" \notin w.flg /\ ~Ended
  BY TakenType, InProgress DEF BlockTurn
<1>2. /\ r.err \in {"OK", "ERR"}
      /\ last' \in SentType /\ sndbuf' \in 0..SndBuf
      /\ ws' \in WsType /\ scb' \in SUBSET Bits
      /\ ws'.frame_len = w.frame_len /\ ws'.cur_len = w.cur_len
      /\ EndStep
      /\ Ended' => "CLOSE" \in ws'.flg \/ "DISCONNECT" \in scb'
      /\ "CLOSE" \in ws'.flg => fr.op = "close"
      /\ scb' = scb1 \/ (r.err = "ERR" /\ scb' = scb1 \cup {"DISCONNECT"})
  BY <1>1, FrameSent
<1>3. TypeOK' /\ Sound'
  BY <1>1, <1>2, BlockTypes
<1>4. EndInv'
  BY <1>2 DEF EndInv
<1> QED BY <1>2, <1>3, <1>4 DEF IInv

(* A close is sent for it.                                                 *)
LEMMA BlockCloses ==
  ASSUME IInv, BlockTurn, at' = "return", NEW w \in {ws_taken, ws_done},
         NEW scb1 \in SUBSET Bits, websock_tx_close_err(w, scb1)
  PROVE  IInv' /\ EndStep
<1>1. /\ w \in WsType /\ w.cur_len <= w.frame_len /\ "CLOSE" \notin w.flg /\ ~Ended
  BY TakenType, InProgress DEF BlockTurn
<1>2. /\ last' \in SentType /\ sndbuf' \in 0..SndBuf
      /\ ws' \in WsType /\ scb' \in SUBSET Bits
      /\ ws'.frame_len = w.frame_len /\ ws'.cur_len = w.cur_len
      /\ EndStep
      /\ Ended' => "CLOSE" \in ws'.flg \/ "DISCONNECT" \in scb'
  BY <1>1, CloseSent
<1>3. TypeOK' /\ Sound'
  BY <1>1, <1>2, BlockTypes
<1>4. EndInv'
  BY <1>2 DEF EndInv
<1> QED BY <1>2, <1>3, <1>4 DEF IInv

---------------------------------------------------------------------------
(* The blocks of each status.                                              *)
LEMMA EchoFrameType ==
  ASSUME IInv, at = "loop", InFrame, NEW op \in {"binary", "pong"}
  PROVE  /\ EchoFrame(op) \in SentType
         /\ EchoFrame(op).load = "whole" /\ EchoFrame(op).op # "close"
<1> DEFINE o == IF ws.cur_len # 0 THEN "continue" ELSE op
<1>1. o \in {"text", "binary", "continue", "pong", "close"} /\ o # "close"
  OBVIOUS
<1>2. EchoFrame(op) = FrameOf(o, Complete, heads[Len(heads)])
  BY DEF EchoFrame, Frame
<1> HIDE DEF o
<1>3. Complete \in BOOLEAN /\ heads[Len(heads)] \in 0..MaxFrames
  BY BlockType, InProgress
<1> QED BY <1>1, <1>2, <1>3, FrameType

LEMMA TextFrameType ==
  ASSUME IInv, at = "loop", InFrame, NEW op \in {"text", "continue"}, NEW fin \in BOOLEAN
  PROVE  /\ Frame(op, fin) \in SentType
         /\ Frame(op, fin).load = "whole" /\ Frame(op, fin).op # "close"
<1>1. heads[Len(heads)] \in 0..MaxFrames
  BY InProgress
<1>2. Frame(op, fin) = FrameOf(op, fin, heads[Len(heads)])
  BY DEF Frame
<1>3. op \in {"text", "binary", "continue", "pong", "close"}
  OBVIOUS
<1> QED BY <1>1, <1>2, <1>3, FrameType

LEMMA CrampType ==
  ASSUME IInv, Cramp
  PROVE  cramped' \in BOOLEAN
BY DEF Cramp

LEMMA EchoStep ==
  ASSUME IInv, Binary \/ Ping
  PROVE  IInv' /\ EndStep
<1>1. /\ at = "loop" /\ InFrame /\ Cramp
      /\ UNCHANGED <<input, by, parts, heads, taken>>
  BY DEF Binary, Ping, Processing
<1>2. PICK op \in {"binary", "pong"} : \E r \in WebsocketTxFrame(EchoFrame(op), Block) :
        /\ websock_tx_frame(EchoFrame(op), r, ws_after(r), scb)
        /\ echo' = IF r.err = "OK" THEN echo \o Payload(Block) ELSE echo
        /\ ConsumeAfter(r)
        /\ at' \in {"trim", "return"} /\ (r.err = "OK" \/ at' = "return")
  BY DEF Binary, Ping
<1>3. PICK r \in WebsocketTxFrame(EchoFrame(op), Block) :
        /\ websock_tx_frame(EchoFrame(op), r, ws_after(r), scb)
        /\ echo' = IF r.err = "OK" THEN echo \o Payload(Block) ELSE echo
        /\ ConsumeAfter(r)
        /\ at' \in {"trim", "return"} /\ (r.err = "OK" \/ at' = "return")
  BY <1>2
<1>4. Block \in Nat
  BY BlockType
<1>5. pbufi' \in Seq(Known) /\ cntri' \in {cntri, cntri + Block}
  BY <1>3, <1>4, MaskType DEF ConsumeAfter
<1>6. echo' \in Seq(BytesOf(0..MaxFrames, Sort))
  BY <1>3, <1>4, PayloadType, TypesNow, ConcatProperties
<1>7. BlockTurn
  BY <1>1, <1>3, <1>5, <1>6, CrampType, TypesNow DEF BlockTurn
<1>8. ws_after(r) \in {ws_taken, ws_done}
  BY DEF ws_after
<1>9. scb \in SUBSET Bits /\ "DISCONNECT" \notin scb
  BY <1>1, TypesNow, InProgress
<1> QED BY <1>1, <1>3, <1>4, <1>7, <1>8, <1>9, EchoFrameType, BlockSent

LEMMA DropStep ==
  ASSUME IInv, BinaryEmpty \/ Pong \/ TextPart
  PROVE  IInv' /\ EndStep
<1>1. /\ at = "loop" /\ InFrame /\ at' \in {"trim", "return"}
      /\ UNCHANGED <<input, by, scb, output, parts, heads, echo, taken>>
      /\ Consume /\ ws' = ws_done
  BY DEF BinaryEmpty, Pong, TextPart, Processing, history
<1>2. cramped' \in BOOLEAN
  BY CrampType, TypesNow DEF BinaryEmpty, Pong, TextPart, history
<1>3. pbufi' \in Seq(Known) /\ cntri' \in {cntri, cntri + Block}
  BY <1>1, BlockType, MaskType DEF Consume
<1>4. BlockTurn
  BY <1>1, <1>2, <1>3, TypesNow DEF BlockTurn
<1> QED BY <1>1, <1>4, BlockDropped

LEMMA RefuseStep ==
  ASSUME IInv, TextNoRoom \/ CloseFrame \/ NoStatus
  PROVE  IInv' /\ EndStep
<1>1. /\ at = "loop" /\ InFrame /\ at' = "return" /\ Cramp
      /\ UNCHANGED <<input, cntri, by, parts, heads, echo, taken>>
      /\ pbufi' = WebsocketMask(Block)
  BY DEF TextNoRoom, CloseFrame, NoStatus, Processing
<1>2. pbufi' \in Seq(Known)
  BY <1>1, BlockType, MaskType
<1>3. BlockTurn
  BY <1>1, <1>2, CrampType, TypesNow DEF BlockTurn
<1>4. CASE \E scb1 \in SUBSET Bits : websock_tx_close_err(ws_taken, scb1)
  BY <1>1, <1>3, <1>4, BlockCloses
<1>5. CASE ws' = ws_taken /\ scb' = scb \cup {"DISCONNECT"} /\ UNCHANGED output
  BY <1>1, <1>3, <1>5, BlockDropped
<1>6. /\ scb \cup {"DISCONNECT"} \in SUBSET Bits
      /\ scb \cup {"FCLOSE", "DISCONNECT"} \in SUBSET Bits
  BY TypesNow DEF Bits
<1> QED BY <1>4, <1>5, <1>6 DEF TextNoRoom, CloseFrame, NoStatus

LEMMA TextPingStep ==
  ASSUME IInv, TextPing
  PROVE  IInv' /\ EndStep
<1>1. /\ at = "loop" /\ InFrame /\ at' = "return" /\ Cramp
      /\ UNCHANGED <<input, by, parts, heads, echo, taken>>
  BY DEF TextPing, Processing
<1>2. PICK r \in WebsocketTxFrame(Frame("text", TRUE), Block) :
        websock_tx_frame(Frame("text", TRUE), r, ws_after(r), scb) /\ ConsumeAfter(r)
  BY DEF TextPing
<1>3. Block \in Nat
  BY BlockType
<1>4. pbufi' \in Seq(Known) /\ cntri' \in {cntri, cntri + Block}
  BY <1>2, <1>3, MaskType DEF ConsumeAfter
<1>5. BlockTurn
  BY <1>1, <1>4, CrampType, TypesNow DEF BlockTurn
<1>6. ws_after(r) \in {ws_taken, ws_done}
  BY DEF ws_after
<1>7. scb \in SUBSET Bits /\ "DISCONNECT" \notin scb
  BY <1>1, TypesNow, InProgress
<1> QED BY <1>1, <1>2, <1>3, <1>5, <1>6, <1>7, TextFrameType, BlockSent

(* The byte behind a text is overwritten.                                  *)
LEMMA EndTextType ==
  ASSUME IInv
  PROVE  EndText \in Seq(Known)
<1> DEFINE e(i) == IF i = Block + 1 THEN [pbufi[i] EXCEPT !.x = "zero"]
                   ELSE WebsocketMask(Block)[i]
<1>1. Block \in Nat
  BY BlockType
<1>2. \A i \in 1..Len(pbufi) : WebsocketMask(Block)[i] \in Known
  BY <1>1, MaskType, ElementOfSeq
<1>3. \A i \in 1..Len(pbufi) : [pbufi[i] EXCEPT !.x = "zero"] \in Known
  <2>1. \A i \in 1..Len(pbufi) : pbufi[i] \in Known
    BY TypesNow, ElementOfSeq
  <2> QED BY <2>1 DEF Known, BytesOf, Sort
<1>4. \A i \in 1..Len(pbufi) : e(i) \in Known
  BY <1>2, <1>3
<1>5. EndText = [i \in 1..Len(pbufi) |-> e(i)]
  BY DEF EndText
<1> HIDE DEF e
<1>6. EndText \in [1..Len(pbufi) -> Known]
  BY <1>4, <1>5
<1>7. Len(pbufi) \in Nat
  BY TypesNow
<1> QED BY <1>6, <1>7, SeqDef

LEMMA TextStep ==
  ASSUME IInv, Text
  PROVE  IInv' /\ EndStep
<1>1. PICK n \in {0, 1, sndbuf - TextReserve}, more \in BOOLEAN :
        (more => parts < MaxParts) /\ TextAnswer(n, more)
  BY DEF Text
<1>2. /\ at = "loop" /\ InFrame /\ at' = "return" /\ Cramp /\ Room
      /\ UNCHANGED <<input, by, heads, echo>>
      /\ taken' = Handed
      /\ pbufi' = IF Again THEN WebsocketMask(Block) ELSE EndText
      /\ parts' = IF more THEN parts + 1 ELSE 0
  BY <1>1 DEF TextAnswer, Processing
<1> DEFINE scb1 == IF more THEN scb \cup {"RETRYCB"} ELSE scb \ {"RETRYCB"}
           w(r) == IF Stays(r, more) THEN ws_taken ELSE ws_done
<1>3. PICK r \in SendPart(n, more) :
        /\ websock_tx_frame(AnswerFrame(more), r, w(r), scb1)
        /\ cntri' = IF Stays(r, more) THEN cntri ELSE cntri + Block
  BY <1>1 DEF TextAnswer
<1>4. w(r) \in {ws_taken, ws_done}
  OBVIOUS
<1>5. scb1 \in SUBSET Bits /\ "DISCONNECT" \notin scb1
  BY <1>2, TypesNow, InProgress DEF Bits
<1> HIDE DEF scb1, w
<1>6. n \in Nat
  BY <1>2, TypesNow, WebSockAssumption DEF Room
<1>7. Block \in Nat
  BY BlockType
<1>8. pbufi' \in Seq(Known)
  BY <1>2, <1>7, MaskType, EndTextType
<1>9. taken' \in Seq(Seq(BytesOf(0..MaxFrames, Sort)))
  BY <1>2, <1>7, PayloadType, TypesNow, AppendProperties DEF Handed
<1>10. parts' \in 0..MaxParts
  BY <1>1, <1>2, TypesNow, WebSockAssumption
<1>11. cntri' \in {cntri, cntri + Block} /\ cramped' \in BOOLEAN
  BY <1>2, <1>3, CrampType
<1>12. BlockTurn
  BY <1>2, <1>8, <1>9, <1>10, <1>11, TypesNow DEF BlockTurn
<1>13. /\ AnswerFrame(more) \in SentType
       /\ AnswerFrame(more).load = "whole" /\ AnswerFrame(more).op # "close"
  <2> DEFINE o == IF Again THEN "continue" ELSE "text"
  <2>1. AnswerFrame(more) = Frame(o, ~more) /\ o \in {"text", "continue"}
    BY DEF AnswerFrame
  <2> HIDE DEF o
  <2> QED BY <1>2, <2>1, TextFrameType
<1>14. CASE r \in WebsocketTxFrame(AnswerFrame(more), n)
  BY <1>2, <1>3, <1>4, <1>5, <1>6, <1>12, <1>13, <1>14, BlockSent
<1>15. CASE r = [last |-> last, sndbuf |-> sndbuf, err |-> "OK"]
  <2>1. /\ last' = last /\ sndbuf' = sndbuf /\ ws' = w(r) /\ scb' = scb1
    BY <1>3, <1>13, <1>15 DEF websock_tx_frame
  <2>2. /\ w(r) \in WsType /\ w(r).cur_len <= w(r).frame_len
        /\ "CLOSE" \notin w(r).flg /\ ~Ended
    BY <1>2, <1>4, TakenType, InProgress
  <2>3. TypeOK' /\ Sound'
    BY <1>5, <1>12, <2>1, <2>2, TypesNow, BlockTypes
  <2>4. EndInv' /\ EndStep
    BY <1>2, <1>5, <2>1, <2>2 DEF EndInv, Ended, EndStep
  <2> QED BY <2>3, <2>4 DEF IInv
<1> QED BY <1>3, <1>14, <1>15 DEF SendPart

---------------------------------------------------------------------------
LEMMA Stutter ==
  ASSUME IInv, UNCHANGED vars
  PROVE  IInv' /\ EndStep
<1>1. UNCHANGED <<peer, wire, pbufi, cntri, ws, scb, sndbuf, last, at, by, parts,
                  heads, echo, taken, cramped>>
  BY DEF vars
<1>2. TypeOK'
  BY <1>1 DEF IInv, TypeOK
<1>3. Sound' /\ EndInv' /\ EndStep
  BY <1>1 DEF IInv, Sound, Known, Sent1, EndInv, Ended, EndStep
<1> QED BY <1>2, <1>3 DEF IInv

LEMMA EveryStep ==
  ASSUME IInv, [Next]_vars
  PROVE  IInv' /\ EndStep
<1>1. CASE Turn
  BY <1>1, QuietTurn, EndingTurn, ReturnStep, HeadStep, EchoStep, DropStep,
     RefuseStep, TextPingStep, TextStep DEF Turn
<1>2. CASE Arrive
  BY <1>2, ArriveStep DEF Arrive
<1>3. CASE RecvNull \/ Ack
  BY <1>3, OtherStep
<1>4. CASE \E f \in Frames : PeerSend(f)
  BY <1>4, PeerStep
<1>5. CASE UNCHANGED vars
  BY <1>5, Stutter
<1> QED BY <1>1, <1>2, <1>3, <1>4, <1>5 DEF Next

LEMMA Inductive == Spec => []IInv
<1>1. Init => IInv
  BY Initially
<1>2. IInv /\ [Next]_vars => IInv'
  BY EveryStep
<1> QED BY <1>1, <1>2, PTL DEF Spec

(* Whatever the frames, the cuts and the room to send, every variable      *)
(* keeps its type: no index leaves the buffer of what the peer sent, and   *)
(* the room in lwIP's buffer is never below 0 or above its size.           *)
THEOREM TypeCorrect == Spec => []TypeOK
<1>1. IInv => TypeOK
  BY DEF IInv
<1> QED BY <1>1, Inductive, PTL

(* After a close, or after a head without its payload, websock_tx_frame is *)
(* not reached again on that connection, from either callback.             *)
THEOREM NothingSentAfterEnd == Spec => NothingAfterEnd
<1>1. IInv /\ [Next]_vars =>
        [last' # last => last.op # "close" /\ last.load = "whole"]_vars
  BY EveryStep DEF EndStep
<1> QED BY <1>1, Inductive, PTL DEF Spec, NothingAfterEnd

---------------------------------------------------------------------------
(* The bytes of the frames, one after the other.                           *)
(* Bytes of the frames p.                                                  *)
Of(p) == BytesOf(1..Len(p), Sort)

(* The last byte of a frame, and the byte that comes after byte k of f.    *)
EndOf(p, f) == IF f = 0 THEN 0 ELSE InHead + p[f].len
IsNext(p, b, f, k) ==
  IF k = EndOf(p, f) THEN b.f = f + 1 /\ b.k = 1 ELSE b.f = f /\ b.k = k + 1

(* s is all that comes after byte k of frame f, to the end of the last one.*)
Follows(p, s, f, k) ==
  /\ Len(s) # 0 => IsNext(p, s[1], f, k)
  /\ \A i \in 1..Len(s) - 1 : IsNext(p, s[i + 1], s[i].f, s[i].k)
  /\ IF Len(s) = 0 THEN f = Len(p) /\ k = EndOf(p, f)
     ELSE s[Len(s)].f = Len(p) /\ s[Len(s)].k = EndOf(p, Len(p))

LEMMA EndFacts ==
  ASSUME NEW p \in Seq(Frames), NEW f \in 1..Len(p)
  PROVE  p[f] \in Frames /\ p[f].len \in Nat /\ EndOf(p, f) = InHead + p[f].len /\ EndOf(p, f) \in Nat
         /\ InHead \in Nat /\ InHead > 0
<1>1. p[f] \in Frames
  OBVIOUS
<1>2. p[f].len \in Nat
  BY <1>1, WebSockAssumption
<1> QED BY <1>1, <1>2, WebSockAssumption DEF EndOf

(* Within a frame the bytes are in their order.                            *)
LEMMA FollowsRun ==
  ASSUME NEW p \in Seq(Frames), NEW s \in Seq(Of(p)), NEW f, NEW k, Follows(p, s, f, k),
         NEW g \in 0..Len(p), NEW j \in Nat, s[1].f = g, s[1].k = j + 1,
         NEW n \in 1..Len(s), j + n <= EndOf(p, g)
  PROVE  s[n].f = g /\ s[n].k = j + n
<1> DEFINE bad == {m \in 1..n : ~(s[m].f = g /\ s[m].k = j + m)}
<1>1. ASSUME bad # {} PROVE FALSE
  <2>0. bad \in SUBSET Nat
    OBVIOUS
  <2> HIDE DEF bad
  <2>1. PICK m \in bad : \A l \in bad : m <= l
    BY <1>1, <2>0, LeastElement
  <2>2. m \in 1..n /\ ~(s[m].f = g /\ s[m].k = j + m)
    BY DEF bad
  <2>3. m # 1
    BY <2>2
  <2>4. m - 1 \in 1..Len(s) - 1 /\ m - 1 \in 1..n /\ (m - 1) + 1 = m
    BY <2>2, <2>3
  <2>5. s[m - 1].f = g /\ s[m - 1].k = j + (m - 1)
    BY <2>1, <2>4 DEF bad
  <2>6. IsNext(p, s[m], g, j + (m - 1))
    BY <2>4, <2>5 DEF Follows
  <2>7. EndOf(p, g) \in Nat
    BY EndFacts, WebSockAssumption DEF EndOf
  <2>8. j + (m - 1) # EndOf(p, g)
    BY <2>2, <2>7
  <2>9. s[m].f = g /\ s[m].k = j + (m - 1) + 1
    BY <2>6, <2>8 DEF IsNext
  <2> QED BY <2>2, <2>9
<1>2. n \in 1..n /\ n \notin bad
  BY <1>1
<1> QED BY <1>2

(* The rest of the frame in progress.                                      *)
LEMMA FollowsFrame ==
  ASSUME NEW p \in Seq(Frames), NEW s \in Seq(Of(p)), NEW f \in 0..Len(p), NEW k \in Nat,
         Follows(p, s, f, k), NEW n \in 1..Len(s), k + n <= EndOf(p, f)
  PROVE  s[n].f = f /\ s[n].k = k + n
<1>1. EndOf(p, f) \in Nat
  BY EndFacts, WebSockAssumption DEF EndOf
<1>2. k # EndOf(p, f) /\ Len(s) # 0
  BY <1>1
<1>3. s[1].f = f /\ s[1].k = k + 1
  BY <1>2 DEF Follows, IsNext
<1> QED BY <1>3, FollowsRun

(* The frame that comes next.                                              *)
LEMMA FollowsHead ==
  ASSUME NEW p \in Seq(Frames), NEW s \in Seq(Of(p)), NEW f \in 0..Len(p), NEW k \in Nat,
         Follows(p, s, f, k), k = EndOf(p, f), NEW n \in 1..Len(s)
  PROVE  /\ f + 1 \in 1..Len(p)
         /\ n <= EndOf(p, f + 1) => s[n].f = f + 1 /\ s[n].k = n
<1>1. s[1].f = f + 1 /\ s[1].k = 0 + 1
  BY DEF Follows, IsNext
<1>2. s[1] \in Of(p)
  OBVIOUS
<1>3. f + 1 \in 1..Len(p)
  BY <1>1, <1>2 DEF Of, BytesOf
<1>4. ASSUME n <= EndOf(p, f + 1) PROVE s[n].f = f + 1 /\ s[n].k = 0 + n
  <2>1. f + 1 \in 0..Len(p) /\ 0 \in Nat /\ 0 + n <= EndOf(p, f + 1)
    BY <1>3, <1>4
  <2> QED BY <1>1, <2>1, FollowsRun
<1> QED BY <1>3, <1>4

LEMMA FollowsDrop ==
  ASSUME NEW p, NEW s \in Seq(Of(p)), NEW f, NEW k, Follows(p, s, f, k),
         NEW n \in 1..Len(s), NEW t \in Seq(Of(p)), Len(t) = Len(s) - n,
         \A i \in 1..Len(t) : t[i] = s[n + i]
  PROVE  Follows(p, t, s[n].f, s[n].k)
<1>1. CASE Len(t) = 0
  BY <1>1 DEF Follows
<1>2. CASE Len(t) # 0
  <2>1. n \in 1..Len(s) - 1 /\ 1 \in 1..Len(t) /\ Len(t) \in 1..Len(t) /\ n + Len(t) = Len(s)
    BY <1>2
  <2>2. IsNext(p, t[1], s[n].f, s[n].k)
    BY <2>1 DEF Follows
  <2>3. ASSUME NEW i \in 1..Len(t) - 1 PROVE IsNext(p, t[i + 1], t[i].f, t[i].k)
    <3>1. n + i \in 1..Len(s) - 1 /\ i \in 1..Len(t) /\ i + 1 \in 1..Len(t) /\ (n + i) + 1 = n + (i + 1)
      OBVIOUS
    <3>2. t[i] = s[n + i] /\ t[i + 1] = s[(n + i) + 1]
      BY <3>1
    <3> QED BY <3>1, <3>2 DEF Follows
  <2>4. t[Len(t)] = s[Len(s)]
    BY <2>1
  <2> QED BY <1>2, <2>2, <2>3, <2>4 DEF Follows
<1> QED BY <1>1, <1>2

(* Nothing but its rest comes after a frame that is the last.              *)
LEMMA FollowsLast ==
  ASSUME NEW p \in Seq(Frames), NEW s \in Seq(Of(p)), NEW k \in Nat,
         Follows(p, s, Len(p), k), k <= EndOf(p, Len(p))
  PROVE  Len(s) = EndOf(p, Len(p)) - k
<1> DEFINE e == EndOf(p, Len(p))
<1>0. e \in Nat /\ Len(p) \in Nat /\ Len(s) \in Nat
  <2>1. Len(p) \in Nat /\ Len(s) \in Nat
    OBVIOUS
  <2> QED BY <2>1, EndFacts, WebSockAssumption DEF EndOf
<1> HIDE DEF e
<1>1. ASSUME Len(s) > e - k PROVE FALSE
  <2>1. CASE e = k
    <3>1. 1 \in 1..Len(s)
      BY <1>0, <1>1, <2>1
    <3> QED BY <1>0, <2>1, <3>1, FollowsHead DEF e
  <2>2. CASE e # k
    <3> DEFINE n == e - k
    <3>1. n \in 1..Len(s) - 1 /\ n \in 1..Len(s) /\ k + n = e /\ n + 1 \in 1..Len(s)
      BY <1>0, <1>1, <2>2 DEF e
    <3> HIDE DEF n
    <3>2. s[n].f = Len(p) /\ s[n].k = k + n
      <4>1. Len(p) \in 0..Len(p) /\ k + n <= EndOf(p, Len(p))
        BY <1>0, <3>1 DEF e
      <4> QED BY <3>1, <4>1, FollowsFrame
    <3>3. IsNext(p, s[n + 1], Len(p), e)
      BY <1>0, <3>1, <3>2 DEF Follows
    <3>4. s[n + 1].f = Len(p) + 1
      BY <3>3 DEF IsNext, e
    <3>5. s[n + 1] \in Of(p)
      BY <3>1
    <3> QED BY <1>0, <3>4, <3>5 DEF Of, BytesOf
  <2> QED BY <2>1, <2>2
<1>2. CASE Len(s) = 0
  BY <1>0, <1>2 DEF Follows, e
<1>3. CASE Len(s) # 0
  <2>1. Len(s) \in 1..Len(s) /\ k + Len(s) <= e
    BY <1>0, <1>1, <1>3
  <2>2. s[Len(s)].k = k + Len(s)
    BY <1>0, <2>1, FollowsFrame DEF e
  <2> QED BY <1>0, <1>3, <2>2 DEF Follows, e
<1> QED BY <1>2, <1>3 DEF e

LEMMA FollowsAlike ==
  ASSUME NEW p, NEW s \in Seq(Of(p)), NEW t \in Seq(Of(p)), NEW f, NEW k, Follows(p, s, f, k),
         Len(t) = Len(s), \A i \in 1..Len(s) : t[i].f = s[i].f /\ t[i].k = s[i].k
  PROVE  Follows(p, t, f, k)
<1>1. Len(s) \in Nat
  OBVIOUS
<1>2. Len(s) # 0 => IsNext(p, t[1], f, k)
  <2>1. Len(s) # 0 => 1 \in 1..Len(s)
    BY <1>1
  <2> QED BY <2>1 DEF Follows, IsNext
<1>3. ASSUME NEW i \in 1..Len(t) - 1 PROVE IsNext(p, t[i + 1], t[i].f, t[i].k)
  <2>1. i \in 1..Len(s) - 1 /\ i \in 1..Len(s) /\ i + 1 \in 1..Len(s)
    BY <1>1
  <2>2. IsNext(p, s[i + 1], s[i].f, s[i].k)
    BY <2>1 DEF Follows
  <2> QED BY <2>1, <2>2 DEF IsNext
<1>4. Len(s) # 0 => t[Len(s)].f = s[Len(s)].f /\ t[Len(s)].k = s[Len(s)].k
  BY <1>1
<1> QED BY <1>2, <1>3, <1>4 DEF Follows

(* The peer sends another frame.                                           *)
LEMMA FollowsMore ==
  ASSUME NEW p \in Seq(Frames), NEW s \in Seq(Of(p)), NEW f \in 0..Len(p), NEW k \in Nat,
         Follows(p, s, f, k), NEW x \in Frames
  PROVE  Follows(Append(p, x), s \o Bytes(x, Len(p) + 1), f, k)
<1> DEFINE q == Append(p, x)
           n == Len(p) + 1
           b == Bytes(x, n)
           m == InHead + x.len
           t == s \o b
<1>1. m \in Nat /\ m > 0 /\ x.len \in Nat /\ Len(s) \in Nat /\ n \in Nat /\ Len(p) \in Nat
  BY WebSockAssumption, LenProperties
<1>2. /\ q \in Seq(Frames) /\ Len(q) = n /\ q[n] = x /\ \A i \in 1..Len(p) : q[i] = p[i]
  OBVIOUS
<1>3. EndOf(q, n) = m /\ \A i \in 0..Len(p) : EndOf(q, i) = EndOf(p, i)
  BY <1>1, <1>2 DEF EndOf
<1>4. b \in Seq(Of(q)) /\ Len(b) = m /\ \A i \in 1..m : b[i].f = n /\ b[i].k = i
  <2>1. b = [i \in 1..m |-> Byte(n, i, "sent")]
    BY DEF Bytes
  <2>2. \A i \in 1..m : Byte(n, i, "sent") \in Of(q)
    BY <1>1, <1>2 DEF Byte, Of, BytesOf, Sort
  <2> HIDE DEF b, m, q, n
  <2>3. b \in [1..m -> Of(q)]
    BY <2>1, <2>2
  <2>4. b \in Seq(Of(q)) /\ Len(b) = m
    BY <1>1, <2>3, SeqDef, LenProperties
  <2> QED BY <2>1, <2>4 DEF Byte
<1> HIDE DEF b, m, q, n
<1>5. s \in Seq(Of(q))
  <2>1. Of(p) \subseteq Of(q)
    BY <1>1, <1>2 DEF Of, BytesOf, n
  <2> QED BY <2>1, SeqMonotonic
<1>6. t \in Seq(Of(q)) /\ Len(t) = Len(s) + m
      /\ (\A i \in 1..Len(s) : t[i] = s[i]) /\ \A i \in 1..m : t[Len(s) + i] = b[i]
  <2>1. Joins(Of(q), s, b, t)
    BY <1>4, <1>5, ConcatFacts
  <2> HIDE DEF t
  <2> QED BY <1>4, <2>1 DEF Joins
<1> HIDE DEF t
<1>7. \A i \in 1..Len(s) : s[i].f \in 1..Len(p)
  <2>1. \A i \in 1..Len(s) : s[i] \in Of(p)
    OBVIOUS
  <2> QED BY <2>1 DEF Of, BytesOf
<1>8. IsNext(q, t[1], f, k)
  <2>1. CASE Len(s) = 0
    <3>1. f = Len(p) /\ k = EndOf(p, f)
      BY <2>1 DEF Follows
    <3>2. t[1] = b[1] /\ b[1].f = n /\ b[1].k = 1
      BY <1>1, <1>4, <1>6, <2>1
    <3> QED BY <1>3, <3>1, <3>2 DEF IsNext, n
  <2>2. CASE Len(s) # 0
    <3>1. IsNext(p, s[1], f, k) /\ t[1] = s[1]
      BY <1>1, <1>6, <2>2 DEF Follows
    <3> QED BY <1>3, <3>1 DEF IsNext
  <2> QED BY <2>1, <2>2
<1>9. ASSUME NEW i \in 1..Len(t) - 1 PROVE IsNext(q, t[i + 1], t[i].f, t[i].k)
  <2>1. CASE i < Len(s)
    <3>1. i \in 1..Len(s) - 1 /\ i \in 1..Len(s) /\ i + 1 \in 1..Len(s)
      BY <1>1, <2>1
    <3>2. IsNext(p, s[i + 1], s[i].f, s[i].k) /\ t[i] = s[i] /\ t[i + 1] = s[i + 1]
      BY <1>6, <3>1 DEF Follows
    <3>3. EndOf(q, s[i].f) = EndOf(p, s[i].f)
      BY <1>1, <1>3, <1>7, <3>1
    <3> QED BY <3>2, <3>3 DEF IsNext
  <2>2. CASE i = Len(s)
    <3>1. s[i].f = Len(p) /\ s[i].k = EndOf(p, Len(p)) /\ t[i] = s[i]
      BY <1>1, <1>6, <2>2 DEF Follows
    <3>2. t[i + 1] = b[1] /\ b[1].f = n /\ b[1].k = 1
      BY <1>1, <1>4, <1>6, <2>2
    <3>3. EndOf(q, Len(p)) = EndOf(p, Len(p)) /\ n = Len(p) + 1
      BY <1>1, <1>3 DEF n
    <3> QED BY <3>1, <3>2, <3>3 DEF IsNext
  <2>3. CASE i > Len(s)
    <3> DEFINE j == i - Len(s)
    <3>1. j \in 1..m - 1 /\ j \in 1..m /\ j + 1 \in 1..m /\ i = Len(s) + j /\ i + 1 = Len(s) + (j + 1)
      BY <1>1, <1>6, <2>3
    <3> HIDE DEF j
    <3>2. t[i] = b[j] /\ t[i + 1] = b[j + 1]
      BY <1>6, <3>1
    <3>3. t[i].f = n /\ t[i].k = j /\ t[i + 1].f = n /\ t[i + 1].k = j + 1
      BY <1>4, <3>1, <3>2
    <3>4. j # EndOf(q, n)
      BY <1>1, <1>3, <3>1
    <3> QED BY <3>3, <3>4 DEF IsNext
  <2> QED BY <1>1, <2>1, <2>2, <2>3
<1>10. t[Len(t)].f = Len(q) /\ t[Len(t)].k = EndOf(q, Len(q)) /\ Len(t) # 0
  <2>1. t[Len(t)] = b[m] /\ m \in 1..m
    BY <1>1, <1>6
  <2> QED BY <1>1, <1>2, <1>3, <1>4, <1>6, <2>1
<1> QED BY <1>8, <1>9, <1>10 DEF Follows, t, b, q, n

---------------------------------------------------------------------------
(* The payload that goes back.  Payloads is a recursive function: Echoes   *)
(* is the same for any frames p, and what is needed of both is that each   *)
(* value is the one before with the payload of one more frame.             *)
(* The first k bytes of frame n that go back, and all that do of the first *)
(* frames of p.                                                            *)
Part(p, n, k) ==
  IF n = 0 \/ p[n].op \notin {"binary", "pong"} THEN <<>>
  ELSE [i \in 1..k |-> Byte(n, i + InHead, "plain")]
Echoes(p) ==
  CHOOSE g : g = [n \in Nat |->
    IF n = 0 THEN <<>>
    ELSE g[n - 1] \o
         IF p[n].op \notin {"binary", "pong"} THEN <<>>
         ELSE [k \in 1..p[n].len |-> Byte(n, k + InHead, "plain")]]

(* The first n of a sequence of joins.                                     *)
Upto(p, n, F) ==
  /\ F = [i \in 0..n |-> F[i]] /\ F[0] = <<>>
  /\ \A i \in 1..n : F[i] = F[i - 1] \o Part(p, i, p[i].len)

LEMMA UptoExists ==
  ASSUME NEW p, NEW n \in Nat
  PROVE  \E F : Upto(p, n, F)
<1> DEFINE bad == {m \in Nat : ~\E F : Upto(p, m, F)}
<1>1. ASSUME bad # {} PROVE FALSE
  <2>1. PICK m \in bad : \A l \in bad : m <= l
    BY <1>1, LeastElement
  <2>2. m \in Nat /\ ~\E F : Upto(p, m, F)
    OBVIOUS
  <2>3. CASE m = 0
    <3>1. Upto(p, 0, [i \in 0..0 |-> <<>>])
      BY DEF Upto
    <3> QED BY <2>2, <2>3, <3>1
  <2>4. CASE m # 0
    <3>1. m - 1 \in Nat /\ m - 1 \notin bad
      BY <2>1, <2>2, <2>4
    <3>2. PICK F : Upto(p, m - 1, F)
      BY <3>1
    <3> DEFINE last1 == F[m - 1] \o Part(p, m, p[m].len)
               G == [i \in 0..m |-> IF i = m THEN last1 ELSE F[i]]
    <3> HIDE DEF last1
    <3>3. \A i \in 0..m : G[i] = IF i = m THEN last1 ELSE F[i]
      OBVIOUS
    <3>4. G = [i \in 0..m |-> G[i]]
      OBVIOUS
    <3> HIDE DEF G
    <3>5. G[0] = <<>>
      BY <2>2, <2>4, <3>2, <3>3 DEF Upto
    <3>6. ASSUME NEW i \in 1..m PROVE G[i] = G[i - 1] \o Part(p, i, p[i].len)
      <4>1. i \in 0..m /\ i - 1 \in 0..m /\ i - 1 # m
        BY <2>2
      <4>2. G[i - 1] = F[i - 1]
        BY <3>3, <4>1
      <4>3. CASE i = m
        BY <3>3, <4>1, <4>2, <4>3 DEF last1
      <4>4. CASE i # m
        <5>1. i \in 1..m - 1
          BY <2>2, <4>4
        <5>2. F[i] = F[i - 1] \o Part(p, i, p[i].len)
          BY <3>2, <5>1 DEF Upto
        <5> QED BY <3>3, <4>1, <4>2, <4>4, <5>2
      <4> QED BY <4>3, <4>4
    <3>7. Upto(p, m, G)
      BY <3>4, <3>5, <3>6 DEF Upto
    <3> QED BY <2>2, <3>7
  <2> QED BY <2>3, <2>4
<1> QED BY <1>1

(* Two of them agree, and so they do over frames that begin alike.         *)
LEMMA UptoSame ==
  ASSUME NEW p, NEW q, NEW m \in Nat, NEW n \in Nat, NEW F, NEW G,
         Upto(p, m, F), Upto(q, n, G), NEW j \in Nat, j <= m, j <= n,
         \A i \in 1..j : q[i] = p[i]
  PROVE  F[j] = G[j]
<1> DEFINE bad == {i \in 0..j : F[i] # G[i]}
<1>1. ASSUME bad # {} PROVE FALSE
  <2>0. bad \in SUBSET Nat
    OBVIOUS
  <2> HIDE DEF bad
  <2>1. PICK i \in bad : \A l \in bad : i <= l
    BY <1>1, <2>0, LeastElement
  <2>2. i \in 0..j /\ F[i] # G[i]
    BY DEF bad
  <2>3. i # 0
    BY <2>2 DEF Upto
  <2>4. i \in 1..j /\ i \in 1..m /\ i \in 1..n /\ i - 1 \in 0..j /\ i - 1 < i
    BY <2>2, <2>3
  <2>5. F[i - 1] = G[i - 1]
    <3>1. i - 1 \notin bad
      BY <2>1, <2>4
    <3> QED BY <2>4, <3>1 DEF bad
  <2>6. Part(q, i, q[i].len) = Part(p, i, p[i].len)
    BY <2>4 DEF Part
  <2>7. F[i] = F[i - 1] \o Part(p, i, p[i].len) /\ G[i] = G[i - 1] \o Part(q, i, q[i].len)
    BY <2>4 DEF Upto
  <2> QED BY <2>2, <2>5, <2>6, <2>7
<1>2. j \in 0..j
  OBVIOUS
<1> QED BY <1>1, <1>2

LEMMA EchoesAre ==
  ASSUME NEW p
  PROVE  /\ Echoes(p)[0] = <<>>
         /\ \A n \in Nat \ {0} : Echoes(p)[n] = Echoes(p)[n - 1] \o Part(p, n, p[n].len)
<1> DEFINE Def(g) == [n \in Nat |->
             IF n = 0 THEN <<>>
             ELSE g[n - 1] \o
                  IF p[n].op \notin {"binary", "pong"} THEN <<>>
                  ELSE [k \in 1..p[n].len |-> Byte(n, k + InHead, "plain")]]
           some(n) == CHOOSE F : Upto(p, n, F)
           all == [n \in Nat |-> some(n)[n]]
           it == CHOOSE g : g = Def(g)
<1>1. \A n \in Nat : Upto(p, n, some(n))
  BY UptoExists
<1> HIDE DEF some
<1>2. all = Def(all)
  <2>1. all[0] = <<>>
    BY <1>1 DEF Upto
  <2>2. ASSUME NEW n \in Nat, n # 0
        PROVE  all[n] = all[n - 1] \o Part(p, n, p[n].len)
    <3>1. n - 1 \in Nat /\ n \in 1..n /\ n - 1 <= n
      BY <2>2
    <3>2. some(n)[n] = some(n)[n - 1] \o Part(p, n, p[n].len)
      BY <1>1, <3>1 DEF Upto
    <3>3. some(n)[n - 1] = some(n - 1)[n - 1]
      <4>1. Upto(p, n, some(n)) /\ Upto(p, n - 1, some(n - 1)) /\ \A i \in 1..n - 1 : p[i] = p[i]
        BY <1>1, <3>1
      <4>2. n - 1 <= n - 1
        BY <3>1
      <4> QED BY <3>1, <4>1, <4>2, UptoSame
    <3>4. all[n] = some(n)[n] /\ all[n - 1] = some(n - 1)[n - 1]
      BY <3>1
    <3> QED BY <3>2, <3>3, <3>4
  <2>3. all = [n \in Nat |-> all[n]]
    OBVIOUS
  <2> HIDE DEF all
  <2>4. ASSUME NEW n \in Nat
        PROVE  all[n] = IF n = 0 THEN <<>>
                        ELSE all[n - 1] \o
                             IF p[n].op \notin {"binary", "pong"} THEN <<>>
                             ELSE [k \in 1..p[n].len |-> Byte(n, k + InHead, "plain")]
    BY <2>1, <2>2 DEF Part
  <2> QED BY <2>3, <2>4
<1>3. it = Def(it)
  <2> HIDE DEF all, Def
  <2> QED BY <1>2
<1>4. Echoes(p) = it
  BY DEF Echoes
<1>5. /\ it[0] = <<>>
      /\ \A n \in Nat \ {0} : it[n] = it[n - 1] \o
           IF p[n].op \notin {"binary", "pong"} THEN <<>>
           ELSE [k \in 1..p[n].len |-> Byte(n, k + InHead, "plain")]
  <2> HIDE DEF it
  <2> QED BY <1>3
<1> HIDE DEF it
<1> QED BY <1>4, <1>5 DEF Part

AnyByte == BytesOf(Nat, Sort)

LEMMA PartType ==
  ASSUME NEW p, NEW n \in Nat, NEW k \in Nat
  PROVE  Part(p, n, k) \in Seq(AnyByte)
<1>1. CASE n = 0 \/ p[n].op \notin {"binary", "pong"}
  <2>1. <<>> \in Seq(AnyByte)
    OBVIOUS
  <2> QED BY <1>1, <2>1 DEF Part
<1>2. CASE ~(n = 0 \/ p[n].op \notin {"binary", "pong"})
  <2>1. Part(p, n, k) = [i \in 1..k |-> Byte(n, i + InHead, "plain")]
    BY <1>2 DEF Part
  <2>2. \A i \in 1..k : Byte(n, i + InHead, "plain") \in AnyByte
    BY WebSockAssumption DEF Byte, AnyByte, BytesOf, Sort
  <2>3. Part(p, n, k) \in [1..k -> AnyByte]
    BY <2>1, <2>2
  <2> QED BY <2>3, SeqDef
<1> QED BY <1>1, <1>2

(* They are sequences, and each begins the next.                           *)
LEMMA EchoesGrow ==
  ASSUME NEW p \in Seq(Frames)
  PROVE  /\ \A n \in 0..Len(p) : Echoes(p)[n] \in Seq(AnyByte)
         /\ \A n \in 0..Len(p) : \A i \in 0..n : Begins(Echoes(p)[i], Echoes(p)[n])
<1> DEFINE E == Echoes(p)
<1>0. \A n \in 1..Len(p) : p[n].len \in Nat
  BY EndFacts
<1>1. E[0] = <<>> /\ \A n \in 1..Len(p) : E[n] = E[n - 1] \o Part(p, n, p[n].len)
  <2>1. \A n \in 1..Len(p) : n \in Nat \ {0}
    OBVIOUS
  <2> QED BY <2>1, EchoesAre
<1>2. \A n \in 1..Len(p) : Part(p, n, p[n].len) \in Seq(AnyByte)
  BY <1>0, PartType
<1>3. Len(p) \in Nat
  OBVIOUS
<1> HIDE DEF E
<1> DEFINE bad == {n \in 0..Len(p) : ~(E[n] \in Seq(AnyByte) /\ \A i \in 0..n : Begins(E[i], E[n]))}
<1>4. ASSUME bad # {} PROVE FALSE
  <2>0. bad \in SUBSET Nat
    BY <1>3
  <2> HIDE DEF bad
  <2>1. PICK n \in bad : \A l \in bad : n <= l
    BY <1>4, <2>0, LeastElement
  <2>2. n \in 0..Len(p) /\ ~(E[n] \in Seq(AnyByte) /\ \A i \in 0..n : Begins(E[i], E[n]))
    BY DEF bad
  <2>3. n # 0
    <3>1. <<>> \in Seq(AnyByte) /\ Begins(<<>>, <<>>)
      BY DEF Begins
    <3>2. \A i \in 0..0 : i = 0
      OBVIOUS
    <3> QED BY <1>1, <2>2, <3>1, <3>2
  <2>4. n \in 1..Len(p) /\ n - 1 \in 0..Len(p) /\ n - 1 \notin bad
    BY <1>3, <2>0, <2>1, <2>2, <2>3
  <2>5. E[n - 1] \in Seq(AnyByte) /\ \A i \in 0..n - 1 : Begins(E[i], E[n - 1])
    BY <2>4 DEF bad
  <2> DEFINE a == E[n - 1]
             b == Part(p, n, p[n].len)
  <2>6. a \in Seq(AnyByte) /\ b \in Seq(AnyByte) /\ E[n] = a \o b
    BY <1>1, <1>2, <2>4, <2>5
  <2>7. a \o b \in Seq(AnyByte)
    <3> HIDE DEF a, b
    <3> QED BY <2>6
  <2>8. Begins(a, E[n]) /\ Begins(E[n], E[n])
    <3> HIDE DEF a, b
    <3>1. Begins(a, a \o b)
      BY <2>6, BeginsFacts
    <3>2. Begins(a \o b, a \o b)
      BY <2>7, BeginsFacts
    <3> QED BY <2>6, <3>1, <3>2
  <2>9. \A i \in 0..n - 1 : E[i] \in Seq(AnyByte)
    <3> SUFFICES ASSUME NEW i \in 0..n - 1 PROVE E[i] \in Seq(AnyByte)
      OBVIOUS
    <3>1. i \in 0..Len(p) /\ i < n
      BY <2>4
    <3> QED BY <2>1, <3>1 DEF bad
  <2>10. ASSUME NEW i \in 0..n PROVE Begins(E[i], E[n])
    <3>1. CASE i = n
      BY <2>8, <3>1
    <3>2. CASE i # n
      <4>1. i \in 0..n - 1
        BY <3>2, <2>4
      <4>2. Begins(E[i], a) /\ E[i] \in Seq(AnyByte)
        BY <2>5, <2>9, <4>1
      <4> HIDE DEF a, b
      <4> QED BY <2>6, <2>7, <2>8, <4>2, BeginsOn
    <3> QED BY <3>1, <3>2
  <2> QED BY <2>2, <2>6, <2>7, <2>10
<1> QED BY <1>3, <1>4 DEF E

(* Another frame changes nothing of those before it.                       *)
LEMMA EchoesKept ==
  ASSUME NEW p, NEW q, NEW n \in Nat, \A i \in 1..n : q[i] = p[i]
  PROVE  Echoes(q)[n] = Echoes(p)[n]
<1> DEFINE F == [i \in 0..n |-> Echoes(p)[i]]
           G == [i \in 0..n |-> Echoes(q)[i]]
<1>1. Upto(p, n, F)
  <2>1. \A i \in 0..n : F[i] = Echoes(p)[i]
    OBVIOUS
  <2>2. F = [i \in 0..n |-> F[i]]
    OBVIOUS
  <2> HIDE DEF F
  <2>3. F[0] = <<>>
    <3>1. 0 \in 0..n
      OBVIOUS
    <3> QED BY <2>1, <3>1, EchoesAre
  <2>4. ASSUME NEW i \in 1..n PROVE F[i] = F[i - 1] \o Part(p, i, p[i].len)
    <3>1. i \in 0..n /\ i - 1 \in 0..n /\ i \in Nat \ {0}
      OBVIOUS
    <3> QED BY <2>1, <3>1, EchoesAre
  <2> QED BY <2>2, <2>3, <2>4 DEF Upto
<1>2. Upto(q, n, G)
  <2>1. \A i \in 0..n : G[i] = Echoes(q)[i]
    OBVIOUS
  <2>2. G = [i \in 0..n |-> G[i]]
    OBVIOUS
  <2> HIDE DEF G
  <2>3. G[0] = <<>>
    <3>1. 0 \in 0..n
      OBVIOUS
    <3> QED BY <2>1, <3>1, EchoesAre
  <2>4. ASSUME NEW i \in 1..n PROVE G[i] = G[i - 1] \o Part(q, i, q[i].len)
    <3>1. i \in 0..n /\ i - 1 \in 0..n /\ i \in Nat \ {0}
      OBVIOUS
    <3> QED BY <2>1, <3>1, EchoesAre
  <2> QED BY <2>2, <2>3, <2>4 DEF Upto
<1>3. F[n] = Echoes(p)[n] /\ G[n] = Echoes(q)[n]
  OBVIOUS
<1> HIDE DEF F, G
<1>4. F[n] = G[n]
  <2>1. n <= n
    OBVIOUS
  <2>2. \A j \in Nat : j <= n => F[j] = G[j]
    <3> SUFFICES ASSUME NEW j \in Nat, j <= n PROVE F[j] = G[j]
      OBVIOUS
    <3>1. \A i \in 1..j : q[i] = p[i]
      OBVIOUS
    <3> QED BY <1>1, <1>2, <3>1, UptoSame
  <2> QED BY <2>1, <2>2
<1> QED BY <1>3, <1>4

LEMMA PayloadsAre ==
  Payloads = Echoes(peer) /\ Payloads' = Echoes(peer')
BY DEF Payloads, Echoes

---------------------------------------------------------------------------
(* The invariant behind HeadsAreFrames, EchoInOrder and TextsTaken.  While *)
(* no block was too long for the send buffer, what is in the buffer and on *)
(* the wire goes on exactly where the last head and the processed part of  *)
(* its frame end; so the next head is read at the first byte of the next   *)
(* frame, each payload byte is unmasked at its own place, and what went    *)
(* back and what was handed over is all up to that place.  It needs a peer *)
(* that waits behind a frame whose callback drops what comes after it.     *)
(* The frames that leave their successor to chance when a byte of it has   *)
(* arrived: a text that is answered and a PONG end their callback with the *)
(* buffer not trimmed, and an empty binary message frees it.               *)
MustWait(f) ==
  \/ f.op \in {"text", "wsping", "pong"} /\ f.len > 0
  \/ f.op = "binary" /\ f.len = 0 /\ f.fin
PeerWaits == \A f \in Frames : MustWait(f) => f \in Patient

Alive == "DISCONNECT" \notin scb /\ "CLOSE" \notin ws.flg

(* What has not been processed is what the peer has sent after the place   *)
(* the last head and cur_len say.                                          *)
Rest == After(pbufi, cntri) \o wire
Here == IF heads = <<>> THEN 0 ELSE InHead + ws.cur_len
Placed == cntri <= Len(pbufi) /\ Follows(peer, Rest, Len(heads), Here)

(* Where cntri may stand between the turns.                                *)
Trimmed ==
  /\ (at \in {"idle", "enter", "loop"} \/ (at = "return" /\ by = "sent")) =>
        cntri = 0 \/ cntri = Len(pbufi)
  /\ (at = "trim" /\ cntri = 0) => Len(pbufi) = 0
  /\ (at = "loop" /\ "FIN" \in ws.flg) => cntri = 0

(* What the head of a frame says of it.                                    *)
StatusOf(f) ==
  CASE f.op \in {"text", "wsping"} -> "text"
    [] f.op \in {"close", "away"}  -> "close"
    [] f.op = "binary"             -> "binary"
    [] f.op = "ping"               -> "pong"
    [] f.op = "pong"               -> "ping"
    [] f.op = "continue"           -> "none"
Reading ==
  IF heads = <<>>
  THEN ws.status = "none" /\ ws.frame_len = 0 /\ ws.cur_len = 0 /\ ws.flg = {}
  ELSE LET f == peer[Len(heads)]
       IN  /\ f.op # "bad" /\ ws.mask = Len(heads)
           /\ ws.frame_len = f.len /\ ws.status = StatusOf(f)
           /\ "FIN" \in ws.flg => ws.cur_len = 0 /\ f.fin /\ f.op # "ping"

(* A text whose answer goes on is the last of the frames; otherwise what   *)
(* is not processed is as it was sent.                                     *)
Answering ==
  /\ "RETRYCB" \in scb =>
       /\ heads # <<>> /\ Len(heads) = Len(peer) /\ peer[Len(heads)] \in Patient
       /\ ws.status = "text"
  /\ "RETRYCB" \notin scb => \A i \in cntri + 1..Len(pbufi) : pbufi[i].x = "sent"

(* The peer has waited where it waits.                                     *)
Waited ==
  \A n \in 1..Len(peer) - 1 :
    peer[n] \in Patient => n < Len(heads) \/ (n = Len(heads) /\ ~InFrame)

(* What has gone back.                                                     *)
Echoed ==
  IF heads = <<>> THEN echo = <<>>
  ELSE echo = Echoes(peer)[Len(heads) - 1] \o Part(peer, Len(heads), ws.cur_len)

(* What was handed over.                                                   *)
Told ==
  /\ \A i \in 1..Len(taken) : taken[i][1].f <= Len(heads)
  /\ (InFrame /\ "RETRYCB" \notin scb) => \A i \in 1..Len(taken) : taken[i][1].f < Len(heads)

Stream == Placed /\ Trimmed /\ Reading /\ Answering /\ Waited /\ Echoed /\ Told
          /\ ("FIN" \in ws.flg => at \in {"trim", "loop"})

(* What stays true of a connection that is given up.                       *)
Texts ==
  /\ \A i \in 1..Len(taken) :
       LET t == taken[i] IN
         /\ Len(t) > 0 /\ t[1].f \in 1..Len(peer)
         /\ \A j \in 1..Len(t) :
              t[j] = Byte(t[1].f, InHead + peer[t[1].f].len - Len(t) + j, "plain")
  /\ \A i, j \in 1..Len(taken) : i < j => taken[i][1].f < taken[j][1].f
InOrder == Len(heads) <= Len(peer) /\ \A i \in 1..Len(heads) : heads[i] = i
Past == InOrder /\ Begins(echo, Echoes(peer)[Len(peer)]) /\ Texts

RInv ==
  /\ IInv
  /\ "CLOSED" \in scb => "DISCONNECT" \in scb
  /\ \A n \in 2..Len(peer) : peer[n].op # "continue"
  /\ ~cramped => Past /\ (Alive => Stream)

(* Types, as these proofs need them.                                       *)
LEMMA Types ==
  ASSUME IInv
  PROVE  /\ peer \in Seq(Frames) /\ Len(peer) \in Nat /\ Known = Of(peer)
         /\ pbufi \in Seq(Known) /\ Len(pbufi) \in Nat /\ cntri \in Nat
         /\ wire \in Seq(Known) /\ Len(wire) \in Nat
         /\ \A i \in 1..Len(wire) : wire[i].x = "sent"
         /\ heads \in Seq(0..MaxFrames) /\ Len(heads) \in Nat
         /\ heads = <<>> <=> Len(heads) = 0
         /\ ws \in WsType /\ ws.cur_len \in Nat /\ ws.frame_len \in Nat /\ ws.cur_len <= ws.frame_len
<1>1. peer \in Seq(Frames)
  BY DEF IInv, TypeOK
<1>2. wire \in Seq(BytesOf(Sent1, {"sent"}))
  BY DEF IInv, Sound
<1>3. wire \in Seq(Known)
  BY <1>2, KnownBytes, SeqMonotonic
<1>4. \A i \in 1..Len(wire) : wire[i].x = "sent"
  <2>1. \A i \in 1..Len(wire) : wire[i] \in BytesOf(Sent1, {"sent"})
    BY <1>2, ElementOfSeq
  <2> QED BY <2>1 DEF BytesOf
<1>5. Known = Of(peer)
  BY DEF Known, Of, Sent1
<1>6. heads = <<>> <=> Len(heads) = 0
  BY TypesNow, EmptySeq
<1>7. Len(peer) \in Nat /\ Len(wire) \in Nat /\ Len(heads) \in Nat
  BY <1>1, <1>3, TypesNow, LenProperties
<1>8. ws \in WsType /\ ws.cur_len \in Nat /\ ws.frame_len \in Nat /\ ws.cur_len <= ws.frame_len
  BY TypesNow DEF WsType
<1> QED BY <1>1, <1>3, <1>4, <1>5, <1>6, <1>7, <1>8, TypesNow

(* A sequence without its first elements.                                  *)
LEMMA AfterFacts ==
  ASSUME NEW S, NEW s \in Seq(S), NEW n \in 0..Len(s)
  PROVE  /\ After(s, n) \in Seq(S) /\ Len(After(s, n)) = Len(s) - n
         /\ \A i \in 1..Len(s) - n : After(s, n)[i] = s[n + i]
         /\ n = 0 => After(s, n) = s
         /\ n = Len(s) => After(s, n) = <<>>
<1>1. Len(s) \in Nat
  OBVIOUS
<1>2. After(s, n) = SubSeq(s, n + 1, Len(s))
  BY DEF After
<1>3. After(s, n) \in Seq(S)
  BY <1>1, AfterType
<1>4. Len(After(s, n)) = Len(s) - n /\ \A i \in 1..Len(s) - n : After(s, n)[i] = s[n + i]
  BY <1>1, <1>2
<1>5. n = 0 => After(s, n) = s
  BY <1>2
<1>6. n = Len(s) => After(s, n) = <<>>
  BY <1>1, <1>3, <1>4, EmptySeq
<1> QED BY <1>3, <1>4, <1>5, <1>6

LEMMA SplitAt ==
  ASSUME NEW S, NEW s \in Seq(S), NEW n \in 0..Len(s)
  PROVE  /\ SubSeq(s, 1, n) \in Seq(S) /\ Len(SubSeq(s, 1, n)) = n
         /\ \A i \in 1..n : SubSeq(s, 1, n)[i] = s[i]
         /\ SubSeq(s, 1, n) \o After(s, n) = s
<1>1. Len(s) \in Nat /\ SubSeq(s, 1, n) \in Seq(S) /\ Len(SubSeq(s, 1, n)) = n
      /\ \A i \in 1..n : SubSeq(s, 1, n)[i] = s[i]
  OBVIOUS
<1> DEFINE a == SubSeq(s, 1, n)
           b == After(s, n)
           t == a \o b
<1>2. b \in Seq(S) /\ Len(b) = Len(s) - n /\ \A i \in 1..Len(s) - n : b[i] = s[n + i]
  BY AfterFacts
<1>3. a \in Seq(S) /\ Len(a) = n /\ \A i \in 1..n : a[i] = s[i]
  BY <1>1
<1> HIDE DEF a, b
<1>4. Joins(S, a, b, t)
  BY <1>2, <1>3, ConcatFacts
<1> HIDE DEF t
<1>5. t \in Seq(S) /\ Len(t) = Len(s)
  BY <1>1, <1>2, <1>3, <1>4 DEF Joins
<1>6. \A i \in 1..Len(s) : t[i] = s[i]
  <2> SUFFICES ASSUME NEW i \in 1..Len(s) PROVE t[i] = s[i]
    OBVIOUS
  <2>1. CASE i <= n
    BY <1>3, <1>4, <2>1 DEF Joins
  <2>2. CASE i > n
    <3>1. i - n \in 1..Len(s) - n /\ n + (i - n) = i
      BY <1>1, <2>2
    <3>2. t[n + (i - n)] = b[i - n] /\ b[i - n] = s[n + (i - n)]
      BY <1>2, <1>3, <1>4, <3>1 DEF Joins
    <3> QED BY <3>1, <3>2
  <2> QED BY <1>1, <2>1, <2>2
<1>7. t = s
  BY <1>5, <1>6
<1> QED BY <1>1, <1>7 DEF t, a, b

(* What has not been processed.                                            *)
LEMMA RestFacts ==
  ASSUME IInv, cntri <= Len(pbufi)
  PROVE  /\ Rest \in Seq(Of(peer)) /\ Len(Rest) = Len(pbufi) - cntri + Len(wire)
         /\ \A i \in 1..Len(pbufi) - cntri : Rest[i] = pbufi[cntri + i]
<1> DEFINE a == After(pbufi, cntri)
<1>1. a \in Seq(Known) /\ Len(a) = Len(pbufi) - cntri
      /\ \A i \in 1..Len(pbufi) - cntri : a[i] = pbufi[cntri + i]
  <2>1. pbufi \in Seq(Known) /\ cntri \in 0..Len(pbufi)
    BY Types
  <2> QED BY <2>1, AfterFacts
<1> HIDE DEF a
<1>2. Joins(Known, a, wire, a \o wire)
  BY <1>1, Types, ConcatFacts
<1>3. Rest = a \o wire
  BY DEF Rest, a
<1> QED BY <1>1, <1>2, <1>3, Types DEF Joins

(* Steps that read no head and process nothing.                            *)
LEMMA Passing ==
  ASSUME RInv, IInv', UNCHANGED <<peer, ws, heads, echo, taken, cramped>>,
         "CLOSED" \in scb' => "DISCONNECT" \in scb',
         "DISCONNECT" \in scb => "DISCONNECT" \in scb',
         "RETRYCB" \in scb' <=> "RETRYCB" \in scb,
         (Alive' /\ Stream) =>
            /\ Placed' /\ Trimmed'
            /\ "FIN" \in ws.flg => at' \in {"trim", "loop"}
            /\ "RETRYCB" \notin scb => \A i \in cntri' + 1..Len(pbufi') : pbufi'[i].x = "sent"
  PROVE  RInv'
<1>1. Alive' => Alive
  BY DEF Alive
<1>2. ASSUME ~cramped PROVE Past'
  BY <1>2 DEF RInv, Past, InOrder, Texts
<1>3. ASSUME ~cramped, Alive' PROVE Stream'
  <2>1. Stream
    BY <1>1, <1>3 DEF RInv
  <2>2. Placed' /\ Trimmed' /\ ("FIN" \in ws'.flg => at' \in {"trim", "loop"})
    BY <1>3, <2>1
  <2>3. Reading'
    BY <2>1 DEF Stream, Reading
  <2>4. Answering'
    BY <1>3, <2>1 DEF Stream, Answering
  <2>5. Waited' /\ Echoed' /\ Told'
    BY <2>1 DEF Stream, Waited, Echoed, Told, InFrame
  <2> QED BY <2>2, <2>3, <2>4, <2>5 DEF Stream
<1> QED BY <1>2, <1>3 DEF RInv

(* Steps after which the connection is given up.                           *)
LEMMA GivingUp ==
  ASSUME RInv, IInv', UNCHANGED <<peer, echo, taken>>, ~cramped' => ~cramped,
         "CLOSED" \in scb' => "DISCONNECT" \in scb', ~Alive',
         ~cramped => InOrder'
  PROVE  RInv'
<1>1. ASSUME ~cramped PROVE Past'
  BY <1>1 DEF RInv, Past, Texts
<1> QED BY <1>1 DEF RInv

---------------------------------------------------------------------------
(* Steps that process nothing: bytes arrive, the buffer is trimmed, the    *)
(* connection ends.                                                        *)
(* The buffer is trimmed of what is processed, with bytes behind it or not.*)
LEMMA Shifted ==
  ASSUME IInv, cntri <= Len(pbufi), NEW b \in Seq(Known), NEW w \in Seq(Known), wire = b \o w,
         pbufi' = After(pbufi, cntri) \o b, cntri' = 0, wire' = w,
         UNCHANGED <<peer, heads, ws>>, Placed
  PROVE  /\ Placed' /\ Len(pbufi') = Len(pbufi) - cntri + Len(b)
         /\ \A i \in 1..Len(pbufi') :
              \/ i + cntri \in cntri + 1..Len(pbufi) /\ pbufi'[i] = pbufi[i + cntri]
              \/ \E j \in 1..Len(b) : pbufi'[i] = b[j]
<1> DEFINE a == After(pbufi, cntri)
           t == a \o b
<1>1. /\ a \in Seq(Known) /\ Len(a) = Len(pbufi) - cntri
      /\ \A i \in 1..Len(pbufi) - cntri : a[i] = pbufi[cntri + i]
  <2>1. pbufi \in Seq(Known) /\ cntri \in 0..Len(pbufi)
    BY Types
  <2> QED BY <2>1, AfterFacts
<1>2. Len(pbufi) \in Nat /\ cntri \in Nat
  BY Types
<1>3. Rest = a \o wire
  BY DEF Rest
<1> HIDE DEF a
<1>4. Joins(Known, a, b, t)
  BY <1>1, ConcatFacts
<1> HIDE DEF t
<1>5. t \in Seq(Known) /\ Len(t) = Len(a) + Len(b) /\ Len(b) \in Nat
  BY <1>4, LenProperties DEF Joins
<1>6. pbufi' = t
  BY DEF a, t
<1>7. After(t, 0) = t
  <2>1. 0 \in 0..Len(t)
    BY <1>1, <1>2, <1>5
  <2> QED BY <1>5, <2>1, AfterFacts
<1>8. Rest' = Rest
  <2>1. Rest' = t \o w
    BY <1>6, <1>7 DEF Rest
  <2>2. a \in Seq(Known) /\ b \in Seq(Known) /\ w \in Seq(Known)
    BY <1>1
  <2>3. (a \o b) \o w = a \o (b \o w)
    BY <2>2, Regroup
  <2> QED BY <1>3, <2>1, <2>3 DEF t
<1>9. Here' = Here
  BY DEF Here
<1>10. Placed'
  BY <1>1, <1>2, <1>5, <1>6, <1>8, <1>9 DEF Placed
<1>11. ASSUME NEW i \in 1..Len(t)
       PROVE  \/ i + cntri \in cntri + 1..Len(pbufi) /\ t[i] = pbufi[i + cntri]
              \/ \E j \in 1..Len(b) : t[i] = b[j]
  <2>1. CASE i <= Len(a)
    <3>1. i \in 1..Len(a) /\ i + cntri \in cntri + 1..Len(pbufi) /\ cntri + i = i + cntri
      BY <1>1, <1>2, <2>1
    <3>2. t[i] = a[i] /\ a[i] = pbufi[cntri + i]
      BY <1>1, <1>4, <3>1 DEF Joins
    <3> QED BY <3>1, <3>2
  <2>2. CASE i > Len(a)
    <3>1. i - Len(a) \in 1..Len(b) /\ Len(a) + (i - Len(a)) = i
      BY <1>1, <1>2, <1>5, <2>2
    <3>2. t[Len(a) + (i - Len(a))] = b[i - Len(a)]
      BY <1>4, <3>1 DEF Joins
    <3> QED BY <3>1, <3>2
  <2> QED BY <1>1, <1>2, <2>1, <2>2
<1> QED BY <1>1, <1>5, <1>6, <1>10, <1>11

LEMMA ArriveKeeps ==
  ASSUME RInv, IInv', NEW n \in 1..Len(wire), Recv(n)
  PROVE  RInv'
<1>1. /\ UNCHANGED <<peer, ws, scb, heads, echo, taken, cramped>> /\ cntri' = 0 /\ at' = "enter"
      /\ at = "idle" /\ wire' = After(wire, n) /\ pbufi' = After(pbufi, cntri) \o SubSeq(wire, 1, n)
  BY DEF Recv, history
<1>2. IInv
  BY DEF RInv
<1> DEFINE b == SubSeq(wire, 1, n)
           w == After(wire, n)
<1>3. b \in Seq(Known) /\ w \in Seq(Known) /\ wire = b \o w /\ \A j \in 1..Len(b) : b[j].x = "sent"
  <2>1. wire \in Seq(Known) /\ n \in 0..Len(wire) /\ \A i \in 1..Len(wire) : wire[i].x = "sent"
    BY <1>2, Types
  <2>2. b \in Seq(Known) /\ Len(b) = n /\ (\A i \in 1..n : b[i] = wire[i]) /\ b \o w = wire
    BY <2>1, SplitAt
  <2>3. w \in Seq(Known)
    BY <2>1, AfterFacts
  <2> HIDE DEF b, w
  <2> QED BY <2>1, <2>2, <2>3
<1> HIDE DEF b, w
<1>4. ASSUME Stream
      PROVE  /\ Placed' /\ Trimmed' /\ "FIN" \notin ws.flg
             /\ "RETRYCB" \notin scb => \A i \in cntri' + 1..Len(pbufi') : pbufi'[i].x = "sent"
  <2>1. Placed /\ cntri <= Len(pbufi)
    BY <1>4 DEF Stream, Placed
  <2>2. /\ Placed'
        /\ \A i \in 1..Len(pbufi') :
              \/ i + cntri \in cntri + 1..Len(pbufi) /\ pbufi'[i] = pbufi[i + cntri]
              \/ \E j \in 1..Len(b) : pbufi'[i] = b[j]
    BY <1>1, <1>2, <1>3, <2>1, Shifted DEF b, w
  <2>3. "FIN" \notin ws.flg
    BY <1>1, <1>4 DEF Stream
  <2>4. Trimmed'
    BY <1>1 DEF Trimmed
  <2>5. ASSUME "RETRYCB" \notin scb, NEW i \in cntri' + 1..Len(pbufi') PROVE pbufi'[i].x = "sent"
    <3>1. \A l \in cntri + 1..Len(pbufi) : pbufi[l].x = "sent"
      BY <1>4, <2>5 DEF Stream, Answering
    <3>2. i \in 1..Len(pbufi')
      BY <1>1, <2>5
    <3> QED BY <1>3, <2>2, <3>1, <3>2
  <2> QED BY <2>2, <2>3, <2>4, <2>5
<1>5. "CLOSED" \in scb => "DISCONNECT" \in scb
  BY DEF RInv
<1> QED BY <1>1, <1>4, <1>5, Passing

LEMMA OtherKeeps ==
  ASSUME RInv, IInv', RecvNull \/ Ack
  PROVE  RInv'
<1>0. IInv /\ ("CLOSED" \in scb => "DISCONNECT" \in scb)
  BY DEF RInv
<1>1. CASE RecvNull
  <2>1. UNCHANGED <<peer, ws, scb, heads, echo, taken, cramped>> /\ ~Alive'
    BY <1>0, <1>1 DEF RecvNull, Closed, history, Alive
  <2> QED BY <1>0, <2>1, Passing
<1>2. CASE Ack
  <2>1. PICK n \in 1..(SndBuf - sndbuf) : Sent(n)
    BY <1>2 DEF Ack
  <2>2. UNCHANGED <<peer, wire, pbufi, cntri, ws, scb, heads, echo, taken, cramped>>
        /\ at = "idle" /\ at' \in {"idle", "enter"}
    BY <2>1 DEF Sent, input, buffer, history
  <2>3. ASSUME Stream PROVE
          /\ Placed' /\ Trimmed' /\ "FIN" \notin ws.flg
          /\ "RETRYCB" \notin scb => \A i \in cntri' + 1..Len(pbufi') : pbufi'[i].x = "sent"
    <3>1. Placed'
      BY <2>2, <2>3 DEF Stream, Placed, Rest, Here
    <3> QED BY <2>2, <2>3, <3>1 DEF Stream, Trimmed, Answering
  <2> QED BY <1>0, <2>2, <2>3, Passing
<1> QED BY <1>1, <1>2

LEMMA QuietKeeps ==
  ASSUME RInv, IInv', Enter \/ EnterEmpty \/ Drained \/ HeadShort
  PROVE  RInv'
<1>0. IInv /\ ("CLOSED" \in scb => "DISCONNECT" \in scb)
  BY DEF RInv
<1>1. /\ UNCHANGED <<peer, wire, pbufi, cntri, ws, scb, heads, echo, taken, cramped>>
      /\ at \in {"enter", "loop"} /\ at' \in {"loop", "return"}
      /\ at = "loop" => "FIN" \notin ws.flg /\ at' = "return"
  BY DEF Enter, EnterEmpty, Drained, HeadShort, input, buffer, history, More, InFrame
<1>2. ASSUME Stream PROVE
          /\ Placed' /\ Trimmed' /\ "FIN" \notin ws.flg
          /\ "RETRYCB" \notin scb => \A i \in cntri' + 1..Len(pbufi') : pbufi'[i].x = "sent"
  <2>1. Placed'
    BY <1>1, <1>2 DEF Stream, Placed, Rest, Here
  <2>2. "FIN" \notin ws.flg
    BY <1>1, <1>2 DEF Stream
  <2>3. Trimmed'
    BY <1>1, <1>2, <2>2 DEF Stream, Trimmed
  <2> QED BY <1>1, <1>2, <2>1, <2>2, <2>3 DEF Stream, Answering
<1> QED BY <1>0, <1>1, <1>2, Passing

LEMMA CloseEnds ==
  ASSUME NEW w, "flg" \in DOMAIN w, NEW s, websock_tx_close_err(w, s)
  PROVE  ~Alive' /\ s \subseteq scb' /\ scb' \subseteq s \cup {"DISCONNECT"}
<1>1. PICK r \in WebsocketTxFrame(Close, 2) : websock_tx_frame(Close, r, w, s)
  BY DEF websock_tx_close_err
<1>2. r.err \in {"OK", "ERR"}
  BY DEF WebsocketTxFrame
<1>3. Close.op = "close"
  BY DEF Close, FrameOf
<1>4. CASE r.err = "OK"
  BY <1>1, <1>3, <1>4 DEF websock_tx_frame, Alive
<1>5. CASE r.err = "ERR"
  BY <1>1, <1>5 DEF websock_tx_frame, Alive
<1> QED BY <1>2, <1>4, <1>5

LEMMA EndingKeeps ==
  ASSUME RInv, IInv', EnterClosing \/ EnterFull \/ TrimNoMemory
  PROVE  RInv'
<1>1. UNCHANGED <<peer, heads, echo, taken, cramped>>
  BY DEF EnterClosing, EnterFull, TrimNoMemory, input, history
<1>2. "DISCONNECT" \in scb'
  <2>1. CASE EnterClosing
    BY <2>1 DEF EnterClosing
  <2>2. CASE EnterFull \/ TrimNoMemory
    <3>1. websock_tx_close_err(ws, scb \cup {"DISCONNECT"})
      BY <2>2 DEF EnterFull, TrimNoMemory
    <3>2. "flg" \in DOMAIN ws
      BY Types DEF RInv, WsType
    <3> QED BY <3>1, <3>2, CloseEnds
  <2> QED BY <2>1, <2>2
<1>3. ~cramped => InOrder'
  BY <1>1 DEF RInv, Past, InOrder
<1> QED BY <1>1, <1>2, <1>3, GivingUp DEF Alive

LEMMA TrimKeeps ==
  ASSUME RInv, IInv', Trim
  PROVE  RInv'
<1>0. IInv /\ ("CLOSED" \in scb => "DISCONNECT" \in scb)
  BY DEF RInv
<1>1. /\ UNCHANGED <<peer, wire, ws, scb, heads, echo, taken, cramped>>
      /\ at = "trim" /\ at' = "loop" /\ cntri' = 0
      /\ pbufi' = IF cntri \in 1..(Len(pbufi) - 1) THEN After(pbufi, cntri) ELSE <<>>
  BY DEF Trim, input, history
<1>2. ASSUME Stream PROVE
          /\ Placed' /\ Trimmed'
          /\ "RETRYCB" \notin scb => \A i \in cntri' + 1..Len(pbufi') : pbufi'[i].x = "sent"
  <2>1. Placed /\ cntri <= Len(pbufi)
    BY <1>2 DEF Stream, Placed
  <2>2. pbufi \in Seq(Known) /\ Len(pbufi) \in Nat /\ cntri \in Nat /\ cntri \in 0..Len(pbufi) /\ wire \in Seq(Known)
    BY <1>0, <2>1, Types
  <2>3. After(pbufi, cntri) \in Seq(Known) /\ (cntri = Len(pbufi) => After(pbufi, cntri) = <<>>)
    BY <2>2, AfterFacts
  <2>4. cntri = 0 => cntri = Len(pbufi)
    BY <1>1, <1>2 DEF Stream, Trimmed
  <2>5. pbufi' = After(pbufi, cntri)
    BY <1>1, <2>2, <2>3, <2>4
  <2>6. pbufi' = After(pbufi, cntri) \o <<>> /\ <<>> \in Seq(Known) /\ wire = <<>> \o wire /\ Len(<<>>) = 0
    BY <2>2, <2>3, <2>5
  <2>7. /\ Placed'
        /\ \A i \in 1..Len(pbufi') :
              \/ i + cntri \in cntri + 1..Len(pbufi) /\ pbufi'[i] = pbufi[i + cntri]
              \/ \E j \in 1..Len(<<>>) : pbufi'[i] = <<>>[j]
    BY <1>0, <1>1, <2>1, <2>2, <2>6, Shifted
  <2>8. Trimmed'
    BY <1>1 DEF Trimmed
  <2> QED BY <1>1, <1>2, <2>6, <2>7, <2>8 DEF Stream, Answering
<1> QED BY <1>0, <1>1, <1>2, Passing

LEMMA ReturnKeeps ==
  ASSUME RInv, IInv', Return
  PROVE  RInv'
<1>0. IInv /\ ("CLOSED" \in scb => "DISCONNECT" \in scb)
  BY DEF RInv
<1>1. /\ UNCHANGED <<peer, wire, ws, by, heads, echo, taken, cramped>>
      /\ at = "return" /\ at' = "idle"
      /\ scb' = IF scb \cap {"FCLOSE", "DISCONNECT"} = {} THEN scb
                ELSE scb \cup {"DISCONNECT", "CLOSED"}
      /\ IF by = "recv" THEN pbufi' = After(pbufi, cntri) /\ cntri' = 0 ELSE UNCHANGED buffer
  BY DEF Return, input, history
<1>2. ASSUME Stream PROVE
          /\ Placed' /\ Trimmed' /\ "FIN" \notin ws.flg
          /\ "RETRYCB" \notin scb => \A i \in cntri' + 1..Len(pbufi') : pbufi'[i].x = "sent"
  <2>1. "FIN" \notin ws.flg
    BY <1>1, <1>2 DEF Stream
  <2>2. CASE by # "recv"
    <3>1. UNCHANGED <<pbufi, cntri>> /\ by = "sent"
      BY <1>0, <1>1, <2>2 DEF buffer, IInv, TypeOK
    <3>2. Placed'
      BY <1>1, <1>2, <3>1 DEF Stream, Placed, Rest, Here
    <3> QED BY <1>1, <1>2, <2>1, <3>1, <3>2 DEF Stream, Trimmed, Answering
  <2>3. CASE by = "recv"
    <3>1. Placed /\ cntri <= Len(pbufi)
      BY <1>2 DEF Stream, Placed
    <3>2. pbufi \in Seq(Known) /\ Len(pbufi) \in Nat /\ cntri \in Nat /\ cntri \in 0..Len(pbufi) /\ wire \in Seq(Known)
      BY <1>0, <3>1, Types
    <3>3. After(pbufi, cntri) \in Seq(Known)
      BY <3>2, AfterFacts
    <3>4. pbufi' = After(pbufi, cntri) \o <<>> /\ <<>> \in Seq(Known) /\ wire = <<>> \o wire /\ Len(<<>>) = 0
      BY <1>1, <2>3, <3>2, <3>3
    <3>5. /\ Placed'
          /\ \A i \in 1..Len(pbufi') :
                \/ i + cntri \in cntri + 1..Len(pbufi) /\ pbufi'[i] = pbufi[i + cntri]
                \/ \E j \in 1..Len(<<>>) : pbufi'[i] = <<>>[j]
      BY <1>0, <1>1, <2>3, <3>1, <3>2, <3>4, Shifted
    <3>6. Trimmed' /\ cntri' = 0
      BY <1>1, <2>3 DEF Trimmed
    <3> QED BY <1>2, <2>1, <3>4, <3>5, <3>6 DEF Stream, Answering
  <2> QED BY <2>2, <2>3
<1>3. /\ "CLOSED" \in scb' => "DISCONNECT" \in scb'
      /\ "DISCONNECT" \in scb => "DISCONNECT" \in scb'
      /\ "RETRYCB" \in scb' <=> "RETRYCB" \in scb
  BY <1>0, <1>1
<1> QED BY <1>1, <1>2, <1>3, Passing

---------------------------------------------------------------------------
(* The peer sends a frame.                                                 *)
LEMMA PeerKeeps ==
  ASSUME RInv, IInv', NEW f \in Frames, PeerSend(f)
  PROVE  RInv'
<1>0. /\ IInv /\ ("CLOSED" \in scb => "DISCONNECT" \in scb)
      /\ (\A n \in 2..Len(peer) : peer[n].op # "continue")
      /\ ~cramped => Past /\ (Alive => Stream)
  BY DEF RInv
<1>1. /\ UNCHANGED <<pbufi, cntri, ws, scb, at, by, heads, echo, taken, cramped>>
      /\ peer' = Append(peer, f) /\ wire' = wire \o Bytes(f, Len(peer) + 1)
      /\ f.op = "continue" => peer = <<>>
      /\ peer # <<>> /\ peer[Len(peer)] \in Patient => Quiet
  BY DEF PeerSend, buffer, history
<1>2. /\ peer \in Seq(Frames) /\ Len(peer) \in Nat /\ peer' \in Seq(Frames) /\ Len(peer') = Len(peer) + 1
      /\ peer'[Len(peer) + 1] = f /\ \A i \in 1..Len(peer) : peer'[i] = peer[i]
  <2>1. peer \in Seq(Frames)
    BY <1>0, Types
  <2> QED BY <1>1, <2>1, LenProperties
<1>3. \A n \in 2..Len(peer') : peer'[n].op # "continue"
  <2> SUFFICES ASSUME NEW n \in 2..Len(peer') PROVE peer'[n].op # "continue"
    OBVIOUS
  <2>1. CASE n \in 2..Len(peer)
    <3>1. n \in 1..Len(peer)
      BY <1>2, <2>1
    <3> QED BY <1>0, <1>2, <2>1, <3>1
  <2>2. CASE n \notin 2..Len(peer)
    <3>1. n = Len(peer) + 1 /\ Len(peer) # 0
      BY <1>2, <2>2
    <3>2. peer # <<>>
      BY <3>1
    <3> QED BY <1>1, <1>2, <3>1, <3>2
  <2> QED BY <2>1, <2>2
<1>4. \A n \in 0..Len(peer) : Echoes(peer')[n] = Echoes(peer)[n]
  <2> SUFFICES ASSUME NEW n \in 0..Len(peer) PROVE Echoes(peer')[n] = Echoes(peer)[n]
    OBVIOUS
  <2>1. n \in Nat /\ \A i \in 1..n : peer'[i] = peer[i]
    BY <1>2
  <2> QED BY <2>1, EchoesKept
<1>5. ASSUME ~cramped PROVE Past'
  <2>1. InOrder'
    BY <1>0, <1>1, <1>2, <1>5 DEF Past, InOrder
  <2>2. Texts'
    <3>1. Texts
      BY <1>0, <1>5 DEF Past
    <3>2. \A i \in 1..Len(taken) :
            /\ Len(taken[i]) > 0 /\ taken[i][1].f \in 1..Len(peer)
            /\ taken[i][1].f \in 1..Len(peer') /\ peer'[taken[i][1].f] = peer[taken[i][1].f]
      <4>1. \A i \in 1..Len(taken) : Len(taken[i]) > 0 /\ taken[i][1].f \in 1..Len(peer)
        BY <3>1 DEF Texts
      <4>2. 1..Len(peer) \subseteq 1..Len(peer')
        BY <1>2
      <4> QED BY <1>2, <4>1, <4>2
    <3> QED BY <1>1, <3>1, <3>2 DEF Texts
  <2>3. Begins(echo, Echoes(peer')[Len(peer')])
    <3>1. Begins(echo, Echoes(peer)[Len(peer)])
      BY <1>0, <1>5 DEF Past
    <3>2. Len(peer) \in 0..Len(peer) /\ Len(peer) \in 0..Len(peer') /\ Len(peer') \in 0..Len(peer')
      BY <1>2
    <3>3. Echoes(peer')[Len(peer)] = Echoes(peer)[Len(peer)]
      BY <1>4, <3>2
    <3>4. /\ Echoes(peer')[Len(peer)] \in Seq(AnyByte) /\ Echoes(peer')[Len(peer')] \in Seq(AnyByte)
          /\ Begins(Echoes(peer')[Len(peer)], Echoes(peer')[Len(peer')])
      BY <1>2, <3>2, EchoesGrow
    <3>5. echo \in Seq(AnyByte)
      <4>1. echo \in Seq(BytesOf(0..MaxFrames, Sort))
        BY <1>0, TypesNow
      <4>2. BytesOf(0..MaxFrames, Sort) \subseteq AnyByte
        BY DEF BytesOf, AnyByte
      <4> QED BY <4>1, <4>2, SeqMonotonic
    <3> DEFINE s == Echoes(peer')[Len(peer)]
               t == Echoes(peer')[Len(peer')]
    <3>6. s \in Seq(AnyByte) /\ t \in Seq(AnyByte) /\ Begins(echo, s) /\ Begins(s, t)
      BY <3>1, <3>3, <3>4
    <3> HIDE DEF s, t
    <3>7. Begins(echo, t)
      BY <3>5, <3>6, BeginsOn
    <3> QED BY <3>7 DEF t
  <2> QED BY <1>1, <2>1, <2>2, <2>3 DEF Past
<1>6. ASSUME ~cramped, Alive' PROVE Stream'
  <2>1. Stream /\ InOrder
    BY <1>0, <1>1, <1>6 DEF Past, Alive
  <2>2. /\ Placed /\ cntri <= Len(pbufi) /\ Follows(peer, Rest, Len(heads), Here)
        /\ Reading /\ Answering /\ Waited /\ Echoed /\ Told /\ Len(heads) <= Len(peer)
    BY <2>1 DEF Stream, Placed, InOrder
  <2>3. /\ Len(heads) \in Nat /\ Len(heads) \in 0..Len(peer) /\ (heads = <<>> <=> Len(heads) = 0)
        /\ ws.cur_len \in Nat /\ ws.frame_len \in Nat /\ Here \in Nat /\ InHead \in Nat
        /\ heads # <<>> => Len(heads) \in 1..Len(peer) /\ peer'[Len(heads)] = peer[Len(heads)]
                           /\ Len(heads) - 1 \in 0..Len(peer)
    <3>1. /\ Len(heads) \in Nat /\ (heads = <<>> <=> Len(heads) = 0)
          /\ ws.cur_len \in Nat /\ ws.frame_len \in Nat
      BY <1>0, Types
    <3>2. Here \in Nat /\ InHead \in Nat
      BY <3>1, WebSockAssumption DEF Here
    <3>3. Len(heads) \in 0..Len(peer)
      BY <1>2, <2>2, <3>1
    <3>4. ASSUME heads # <<>> PROVE Len(heads) \in 1..Len(peer) /\ Len(heads) - 1 \in 0..Len(peer)
      BY <1>2, <3>1, <3>3, <3>4
    <3> QED BY <1>2, <3>1, <3>2, <3>3, <3>4
  <2>4. Placed'
    <3> DEFINE a == After(pbufi, cntri)
               b == Bytes(f, Len(peer) + 1)
    <3>1. a \in Seq(Known) /\ wire \in Seq(Known)
      <4>1. pbufi \in Seq(Known) /\ cntri \in 0..Len(pbufi) /\ wire \in Seq(Known)
        BY <1>0, <2>2, Types
      <4> QED BY <4>1, AfterFacts
    <3> DEFINE U == Of(peer')
    <3>2. a \in Seq(U) /\ wire \in Seq(U)
      <4>1. Known = Of(peer)
        BY <1>0, Types
      <4>2. Of(peer) \subseteq U
        BY <1>2 DEF Of, BytesOf
      <4> HIDE DEF a, U
      <4> QED BY <3>1, <4>1, <4>2, SeqMonotonic
    <3>3. b \in Seq(U)
      <4> DEFINE m == InHead + f.len
      <4>1. f.len \in Nat /\ m \in Nat
        BY WebSockAssumption
      <4>2. b = [i \in 1..m |-> Byte(Len(peer) + 1, i, "sent")]
        BY DEF Bytes
      <4>3. \A i \in 1..m : Byte(Len(peer) + 1, i, "sent") \in U
        BY <1>2, <4>1 DEF Byte, Of, BytesOf, Sort
      <4> HIDE DEF b, m, U
      <4>4. b \in [1..m -> U]
        BY <4>2, <4>3
      <4> QED BY <4>1, <4>4, SeqDef
    <3>4. Rest' = a \o (wire \o b)
      BY <1>1 DEF Rest
    <3> HIDE DEF a, b, U
    <3>5. (a \o wire) \o b = a \o (wire \o b)
      BY <3>2, <3>3, Regroup
    <3>6. Rest = a \o wire
      BY DEF Rest, a
    <3>7. Rest \in Seq(Of(peer))
      BY <1>0, <2>2, RestFacts
    <3>8. Follows(Append(peer, f), Rest \o Bytes(f, Len(peer) + 1), Len(heads), Here)
      BY <1>2, <2>2, <2>3, <3>7, FollowsMore
    <3>9. Here' = Here
      BY <1>1 DEF Here
    <3> QED BY <1>1, <2>2, <3>4, <3>5, <3>6, <3>8, <3>9 DEF Placed, b
  <2>5. Trimmed' /\ ("FIN" \in ws'.flg => at' \in {"trim", "loop"})
    BY <1>1, <2>1 DEF Stream, Trimmed
  <2>6. Reading'
    BY <1>1, <2>2, <2>3 DEF Reading
  <2>7. Answering'
    <3>1. "RETRYCB" \notin scb
      <4>1. ASSUME "RETRYCB" \in scb PROVE FALSE
        <5>1. heads # <<>> /\ Len(heads) = Len(peer) /\ peer[Len(peer)] \in Patient
          BY <2>2, <4>1 DEF Answering
        <5>2. peer # <<>>
          BY <2>3, <5>1
        <5> QED BY <1>1, <4>1, <5>1, <5>2 DEF Quiet
      <4> QED BY <4>1
    <3> QED BY <1>1, <2>2, <3>1 DEF Answering
  <2>8. Waited'
    <3> SUFFICES ASSUME NEW n \in 1..Len(peer') - 1, peer'[n] \in Patient
                 PROVE  n < Len(heads) \/ (n = Len(heads) /\ ~InFrame)
      BY <1>1 DEF Waited, InFrame
    <3>1. n \in 1..Len(peer) /\ peer'[n] = peer[n]
      BY <1>2
    <3>2. CASE n \in 1..Len(peer) - 1
      BY <2>2, <3>1, <3>2 DEF Waited
    <3>3. CASE n \notin 1..Len(peer) - 1
      <4>1. n = Len(peer) /\ Len(peer) # 0
        BY <1>2, <3>1, <3>3
      <4>2. peer # <<>>
        BY <4>1
      <4>3. Quiet
        BY <1>1, <3>1, <4>1, <4>2
      <4>4. Len(wire) = 0 /\ cntri = Len(pbufi) /\ "FIN" \notin ws.flg
        <5>1. wire = <<>> /\ cntri >= Len(pbufi) /\ Len(pbufi) \in Nat /\ cntri \in Nat /\ "FIN" \notin ws.flg
          BY <1>0, <4>3, Types DEF Quiet
        <5> QED BY <2>2, <5>1
      <4>5. Len(Rest) = 0
        <5>1. Len(Rest) = Len(pbufi) - cntri + Len(wire) /\ Len(pbufi) \in Nat
          BY <1>0, <2>2, RestFacts, Types
        <5> QED BY <4>4, <5>1
      <4>6. Len(heads) = Len(peer) /\ Here = EndOf(peer, Len(heads))
        BY <2>2, <4>5 DEF Follows
      <4>7. heads # <<>> /\ ws.frame_len = peer[Len(heads)].len
        BY <2>2, <2>3, <4>1, <4>6 DEF Reading
      <4>8. InHead + ws.cur_len = InHead + ws.frame_len
        BY <4>1, <4>6, <4>7 DEF Here, EndOf
      <4>9. ~InFrame
        BY <2>3, <4>4, <4>8 DEF InFrame
      <4> QED BY <4>1, <4>6, <4>9
    <3> QED BY <3>2, <3>3
  <2>9. Echoed'
    <3>1. CASE heads = <<>>
      BY <1>1, <2>2, <3>1 DEF Echoed
    <3>2. CASE heads # <<>>
      <4>1. Part(peer', Len(heads), ws.cur_len) = Part(peer, Len(heads), ws.cur_len)
        BY <2>3, <3>2 DEF Part
      <4>2. Echoes(peer')[Len(heads) - 1] = Echoes(peer)[Len(heads) - 1]
        BY <1>4, <2>3, <3>2
      <4> QED BY <1>1, <2>2, <3>2, <4>1, <4>2 DEF Echoed
    <3> QED BY <3>1, <3>2
  <2>10. Told'
    BY <1>1, <2>2 DEF Told, InFrame
  <2> QED BY <2>4, <2>5, <2>6, <2>7, <2>8, <2>9, <2>10 DEF Stream
<1> QED BY <1>0, <1>1, <1>3, <1>5, <1>6 DEF RInv

---------------------------------------------------------------------------
(* A turn at work in the buffer, and the reading of heads.                 *)
(* Bytes are worked on where they are, and n of them are then processed.   *)
LEMMA Worked ==
  ASSUME IInv, IInv', UNCHANGED <<peer, wire>>, Len(pbufi') = Len(pbufi),
         \A i \in 1..Len(pbufi) : pbufi'[i].f = pbufi[i].f /\ pbufi'[i].k = pbufi[i].k,
         NEW n \in Nat, cntri' = cntri + n, cntri + n <= Len(pbufi),
         NEW f, NEW k, Follows(peer, Rest, f, k)
  PROVE  /\ n = 0 => Follows(peer, Rest', f, k)
         /\ n > 0 => Follows(peer, Rest', pbufi[cntri + n].f, pbufi[cntri + n].k)
<1> DEFINE a == After(pbufi, cntri)
           b == After(pbufi', cntri)
           c == After(pbufi', cntri')
           s == b \o wire
           l == Len(pbufi) - cntri
<1>1. /\ pbufi \in Seq(Known) /\ pbufi' \in Seq(Known) /\ wire \in Seq(Known)
      /\ Len(pbufi) \in Nat /\ cntri \in Nat /\ Len(wire) \in Nat /\ l \in Nat
      /\ cntri \in 0..Len(pbufi) /\ cntri \in 0..Len(pbufi') /\ cntri' \in 0..Len(pbufi')
      /\ Known = Of(peer)
  <2>1. /\ pbufi \in Seq(Known) /\ wire \in Seq(Known) /\ Known = Of(peer)
        /\ Len(pbufi) \in Nat /\ cntri \in Nat /\ Len(wire) \in Nat
    BY Types
  <2>2. pbufi' \in Seq(Known)
    BY DEF IInv, Sound, Known, Sent1
  <2> QED BY <2>1, <2>2
<1>2. /\ a \in Seq(Known) /\ Len(a) = l
      /\ \A i \in 1..Len(pbufi) - cntri : a[i] = pbufi[cntri + i]
  BY <1>1, AfterFacts
<1>3. /\ b \in Seq(Known) /\ Len(b) = l
      /\ \A i \in 1..Len(pbufi') - cntri : b[i] = pbufi'[cntri + i]
  BY <1>1, AfterFacts
<1>4. /\ c \in Seq(Known) /\ Len(c) = Len(pbufi') - cntri'
      /\ \A i \in 1..Len(pbufi') - cntri' : c[i] = pbufi'[cntri' + i]
  <2>1. pbufi' \in Seq(Known) /\ cntri' \in 0..Len(pbufi')
    BY <1>1
  <2> DEFINE q == pbufi'
             m == cntri'
  <2>2. q \in Seq(Known) /\ m \in 0..Len(q)
    BY <2>1
  <2> HIDE DEF q, m
  <2>3. /\ After(q, m) \in Seq(Known) /\ Len(After(q, m)) = Len(q) - m
        /\ \A i \in 1..Len(q) - m : After(q, m)[i] = q[m + i]
    BY <2>2, AfterFacts
  <2> QED BY <2>3 DEF q, m
<1>5. Rest = a \o wire /\ Rest' = c \o wire
  BY DEF Rest
<1> HIDE DEF a, b, c
<1>6. Joins(Known, a, wire, Rest) /\ Joins(Known, b, wire, s) /\ Joins(Known, c, wire, Rest')
  BY <1>1, <1>2, <1>3, <1>4, <1>5, ConcatFacts
<1> HIDE DEF s
<1>7. s \in Seq(Known) /\ Len(s) = l + Len(wire)
      /\ (\A i \in 1..l : s[i] = pbufi'[cntri + i])
      /\ (\A i \in 1..Len(wire) : s[l + i] = wire[i])
  BY <1>3, <1>6 DEF Joins
<1>8. Rest \in Seq(Known) /\ Len(Rest) = l + Len(wire)
      /\ (\A i \in 1..l : Rest[i] = pbufi[cntri + i])
      /\ (\A i \in 1..Len(wire) : Rest[l + i] = wire[i])
  BY <1>2, <1>6 DEF Joins
<1>9. Rest' \in Seq(Known) /\ Len(Rest') = l - n + Len(wire)
      /\ (\A i \in 1..l - n : Rest'[i] = pbufi'[cntri + n + i])
      /\ (\A i \in 1..Len(wire) : Rest'[l - n + i] = wire[i])
  <2>1. Len(c) = l - n
    BY <1>1, <1>4
  <2> QED BY <1>4, <1>6, <2>1 DEF Joins
<1>10. Follows(peer, s, f, k)
  <2>1. \A i \in 1..Len(Rest) : s[i].f = Rest[i].f /\ s[i].k = Rest[i].k
    <3> SUFFICES ASSUME NEW i \in 1..Len(Rest) PROVE s[i].f = Rest[i].f /\ s[i].k = Rest[i].k
      OBVIOUS
    <3>1. CASE i <= l
      <4>1. i \in 1..l /\ cntri + i \in 1..Len(pbufi)
        BY <1>1, <3>1
      <4> QED BY <1>7, <1>8, <4>1
    <3>2. CASE i > l
      <4>1. i - l \in 1..Len(wire) /\ l + (i - l) = i
        BY <1>1, <1>8, <3>2
      <4>2. s[l + (i - l)] = Rest[l + (i - l)]
        BY <1>7, <1>8, <4>1
      <4> QED BY <4>1, <4>2
    <3> QED BY <1>1, <3>1, <3>2
  <2> QED BY <1>1, <1>7, <1>8, <2>1, FollowsAlike
<1>11. \A i \in 1..Len(Rest') : Rest'[i] = s[n + i]
  <2> SUFFICES ASSUME NEW i \in 1..Len(Rest') PROVE Rest'[i] = s[n + i]
    OBVIOUS
  <2>1. CASE i <= l - n
    <3>1. i \in 1..l - n /\ n + i \in 1..l /\ cntri + n + i = cntri + (n + i)
      BY <1>1, <2>1
    <3> QED BY <1>7, <1>9, <3>1
  <2>2. CASE i > l - n
    <3>1. i - (l - n) \in 1..Len(wire) /\ (l - n) + (i - (l - n)) = i /\ l + (i - (l - n)) = n + i
      BY <1>1, <1>9, <2>2
    <3>2. Rest'[(l - n) + (i - (l - n))] = wire[i - (l - n)] /\ s[l + (i - (l - n))] = wire[i - (l - n)]
      BY <1>7, <1>9, <3>1
    <3> QED BY <3>1, <3>2
  <2> QED BY <1>1, <1>9, <2>1, <2>2
<1>12. CASE n = 0
  <2>1. \A i \in 1..Len(s) : Rest'[i].f = s[i].f /\ Rest'[i].k = s[i].k
    BY <1>1, <1>7, <1>9, <1>11, <1>12
  <2>2. Len(Rest') = Len(s)
    BY <1>1, <1>7, <1>9, <1>12
  <2>3. Follows(peer, Rest', f, k)
    BY <1>1, <1>7, <1>9, <1>10, <2>1, <2>2, FollowsAlike
  <2> QED BY <1>12, <2>3
<1>13. CASE n > 0
  <2>1. n \in 1..Len(s) /\ n \in 1..l /\ Len(Rest') = Len(s) - n
    BY <1>1, <1>7, <1>9, <1>13
  <2>2. Follows(peer, Rest', s[n].f, s[n].k)
    BY <1>1, <1>7, <1>9, <1>10, <1>11, <2>1, FollowsDrop
  <2>3. s[n] = pbufi'[cntri + n] /\ cntri + n \in 1..Len(pbufi)
    BY <1>1, <1>7, <2>1
  <2> QED BY <1>13, <2>2, <2>3
<1> QED BY <1>12, <1>13

(* A turn of the loop begins with the connection alive.                    *)
LEMMA AtWork ==
  ASSUME RInv, at = "loop"
  PROVE  /\ IInv /\ ("CLOSED" \in scb => "DISCONNECT" \in scb) /\ Alive
         /\ \A n \in 2..Len(peer) : peer[n].op # "continue"
         /\ ~cramped => Past /\ Stream
BY DEF RInv, IInv, EndInv, Alive

(* Where a head is read, the next frame begins.                            *)
LEMMA NextHead ==
  ASSUME RInv, ~cramped, at = "loop", More, ~InFrame, InHead <= Len(pbufi)
  PROVE  /\ Stream /\ Past /\ cntri = 0 /\ "FIN" \notin ws.flg /\ ws.frame_len = ws.cur_len
         /\ Len(heads) + 1 \in 1..Len(peer) /\ "RETRYCB" \notin scb
         /\ \A i \in 1..InHead : pbufi[i] = Byte(Len(heads) + 1, i, "sent")
         /\ AtHead /\ Read = {peer[Len(heads) + 1]} /\ pbufi[1].f = Len(heads) + 1
         /\ pbufi[1].x = "sent"
         /\ Follows(peer, Rest, Len(heads), Here)
<1> DEFINE h == Len(heads)
<1>1. IInv /\ Past /\ Stream
  BY AtWork
<1>2. /\ peer \in Seq(Frames) /\ Len(peer) \in Nat /\ pbufi \in Seq(Known) /\ Len(pbufi) \in Nat /\ cntri \in Nat
      /\ h \in Nat /\ (heads = <<>> <=> h = 0) /\ Known = Of(peer)
      /\ ws.cur_len \in Nat /\ ws.frame_len \in Nat /\ ws.cur_len <= ws.frame_len
      /\ InHead \in Nat /\ InHead > 0
  BY <1>1, Types, WebSockAssumption
<1>3. "FIN" \notin ws.flg /\ ws.frame_len = ws.cur_len
  BY <1>2 DEF InFrame
<1>4. cntri = 0
  BY <1>1, <1>2, <1>3 DEF More, Stream, Trimmed
<1>5. h <= Len(peer) /\ Placed /\ cntri <= Len(pbufi) /\ Follows(peer, Rest, h, Here)
  BY <1>1 DEF Past, InOrder, Stream, Placed
<1>6. Here \in Nat /\ Here = EndOf(peer, h)
  <2>1. CASE heads = <<>>
    BY <1>2, <2>1 DEF Here, EndOf
  <2>2. CASE heads # <<>>
    BY <1>1, <1>2, <1>3, <2>2 DEF Here, EndOf, Stream, Reading
  <2> QED BY <2>1, <2>2
<1>7. Rest \in Seq(Of(peer)) /\ InHead <= Len(Rest) /\ \A i \in 1..InHead : Rest[i] = pbufi[i]
  <2>1. /\ Rest \in Seq(Of(peer)) /\ Len(Rest) = Len(pbufi) - cntri + Len(wire) /\ Len(wire) \in Nat
        /\ \A i \in 1..Len(pbufi) - cntri : Rest[i] = pbufi[cntri + i]
    BY <1>1, <1>5, RestFacts, Types
  <2>2. InHead <= Len(Rest)
    BY <1>2, <1>4, <2>1
  <2>3. \A i \in 1..InHead : i \in 1..Len(pbufi) - cntri /\ cntri + i = i
    BY <1>2, <1>4
  <2> QED BY <2>1, <2>2, <2>3
<1>8. ASSUME NEW i \in 1..InHead PROVE h + 1 \in 1..Len(peer) /\ pbufi[i].f = h + 1 /\ pbufi[i].k = i
  <2>1. i \in 1..Len(Rest) /\ h \in 0..Len(peer)
    BY <1>2, <1>5, <1>7
  <2>2. h + 1 \in 1..Len(peer) /\ (i <= EndOf(peer, h + 1) => Rest[i].f = h + 1 /\ Rest[i].k = i)
    BY <1>2, <1>5, <1>6, <1>7, <2>1, FollowsHead
  <2>3. i <= EndOf(peer, h + 1)
    <3>1. EndOf(peer, h + 1) = InHead + peer[h + 1].len /\ peer[h + 1].len \in Nat
      BY <1>2, <2>2, EndFacts
    <3> QED BY <1>2, <3>1
  <2> QED BY <1>7, <2>2, <2>3
<1>9. h + 1 \in 1..Len(peer)
  <2>1. 1 \in 1..InHead
    BY <1>2
  <2> QED BY <1>8, <2>1
<1>10. "RETRYCB" \notin scb
  BY <1>1, <1>2, <1>9 DEF Stream, Answering
<1>11. \A i \in 1..InHead : pbufi[i] = Byte(h + 1, i, "sent")
  <2> SUFFICES ASSUME NEW i \in 1..InHead PROVE pbufi[i] = Byte(h + 1, i, "sent")
    OBVIOUS
  <2>1. i \in 1..Len(pbufi) /\ i \in cntri + 1..Len(pbufi)
    BY <1>2, <1>4
  <2>2. pbufi[i] \in Known
    BY <1>2, <2>1, ElementOfSeq
  <2>3. pbufi[i].x = "sent"
    BY <1>1, <1>10, <2>1 DEF Stream, Answering
  <2>4. pbufi[i].f = h + 1 /\ pbufi[i].k = i
    BY <1>8
  <2> QED BY <2>2, <2>3, <2>4 DEF Known, BytesOf, Byte
<1>12. pbufi[1] = Byte(h + 1, 1, "sent")
  BY <1>2, <1>11
<1>13. pbufi[1].f = h + 1 /\ pbufi[1].k = 1 /\ pbufi[1].x = "sent"
  BY <1>12 DEF Byte
<1>14. AtHead
  <2>1. \A i \in 2..InHead : pbufi[i] = Byte(pbufi[1].f, i, "sent")
    BY <1>2, <1>11, <1>13
  <2> QED BY <1>13, <2>1 DEF AtHead
<1>15. Read = {peer[h + 1]}
  BY <1>13, <1>14 DEF Read
<1> QED BY <1>1, <1>3, <1>4, <1>5, <1>9, <1>10, <1>11, <1>13, <1>14, <1>15

(* The payload that goes back with the head of the next frame.             *)
LEMMA EchoNext ==
  ASSUME IInv, Echoed, Reading, Len(heads) <= Len(peer), ws.frame_len = ws.cur_len
  PROVE  echo = Echoes(peer)[Len(heads)] \o Part(peer, Len(heads) + 1, 0)
<1> DEFINE h == Len(heads)
<1>1. /\ peer \in Seq(Frames) /\ Len(peer) \in Nat /\ h \in Nat /\ (heads = <<>> <=> h = 0)
      /\ h \in 0..Len(peer)
  BY Types
<1>2. echo = Echoes(peer)[h]
  <2>1. CASE heads = <<>>
    BY <1>1, <2>1, EchoesAre DEF Echoed
  <2>2. CASE heads # <<>>
    <3>1. h \in Nat \ {0} /\ ws.cur_len = peer[h].len
      BY <1>1, <2>2 DEF Reading
    <3>2. Echoes(peer)[h] = Echoes(peer)[h - 1] \o Part(peer, h, peer[h].len)
      BY <3>1, EchoesAre
    <3> QED BY <2>2, <3>1, <3>2 DEF Echoed
  <2> QED BY <2>1, <2>2
<1>3. Part(peer, h + 1, 0) = <<>>
  <2>1. CASE peer[h + 1].op \notin {"binary", "pong"}
    BY <2>1 DEF Part
  <2>2. CASE peer[h + 1].op \in {"binary", "pong"}
    <3>1. Part(peer, h + 1, 0) = [i \in 1..0 |-> Byte(h + 1, i + InHead, "plain")]
      BY <1>1, <2>2 DEF Part
    <3>2. 1..0 = {}
      OBVIOUS
    <3> QED BY <3>1, <3>2
  <2> QED BY <2>1, <2>2
<1>4. Echoes(peer)[h] \in Seq(AnyByte)
  BY <1>1, EchoesGrow
<1> DEFINE e == Echoes(peer)[h]
<1>5. e \in Seq(AnyByte)
  BY <1>4
<1> HIDE DEF e
<1>6. e \o <<>> = e
  BY <1>5
<1> QED BY <1>2, <1>3, <1>6 DEF e

(* A head is read: it is that of the next frame.                           *)
LEMMA HeadsInOrder ==
  ASSUME RInv, ~cramped, at = "loop", More, ~InFrame, InHead <= Len(pbufi), HeadRead
  PROVE  /\ heads' = Append(heads, Len(heads) + 1) /\ Len(heads') = Len(heads) + 1 /\ heads' # <<>>
         /\ Len(heads') <= Len(peer) /\ \A i \in 1..Len(heads') : heads'[i] = i
<1>1. /\ AtHead /\ pbufi[1].x = "sent" /\ pbufi[1].f = Len(heads) + 1
      /\ Len(heads) + 1 \in 1..Len(peer) /\ Past
  BY NextHead
<1>2. heads \in Seq(0..MaxFrames) /\ Len(heads) \in Nat
  BY Types DEF RInv
<1>3. heads' = Append(heads, Len(heads) + 1)
  BY <1>1 DEF HeadRead
<1>4. \A i \in 1..Len(heads) : heads[i] = i
  BY <1>1 DEF Past, InOrder
<1> DEFINE h == heads
           g == heads'
<1>5. h \in Seq(Nat) /\ g = Append(h, Len(h) + 1) /\ Len(h) \in Nat /\ \A i \in 1..Len(h) : h[i] = i
  <2>1. 0..MaxFrames \subseteq Nat
    OBVIOUS
  <2> QED BY <1>2, <1>3, <1>4, <2>1, SeqMonotonic
<1> HIDE DEF h, g
<1>6. Len(g) = Len(h) + 1 /\ g[Len(h) + 1] = Len(h) + 1 /\ \A i \in 1..Len(h) : g[i] = h[i]
  BY <1>5
<1>7. g # <<>>
  BY <1>5, <1>6
<1>8. \A i \in 1..Len(g) : g[i] = i
  BY <1>5, <1>6
<1> QED BY <1>1, <1>3, <1>6, <1>7, <1>8 DEF h, g

LEMMA HeadGoodKeeps ==
  ASSUME RInv, IInv', HeadGood
  PROVE  RInv'
<1>1. PICK f \in Read : f.op # "bad" /\ ws' = WebsocketHead(f)
  BY DEF HeadGood
<1>2. /\ UNCHANGED <<peer, wire, pbufi, scb, by, echo, taken, cramped>>
      /\ at = "loop" /\ More /\ ~InFrame /\ InHead <= Len(pbufi)
      /\ cntri' = cntri + InHead /\ HeadRead /\ at' = "trim"
  BY DEF HeadGood, input
<1>3. /\ IInv /\ ("CLOSED" \in scb => "DISCONNECT" \in scb)
      /\ \A n \in 2..Len(peer) : peer[n].op # "continue"
  BY DEF RInv
<1> DEFINE h == Len(heads)
<1>4. ASSUME ~cramped PROVE Past' /\ Stream'
  <2>1. /\ Stream /\ Past /\ cntri = 0 /\ "FIN" \notin ws.flg /\ ws.frame_len = ws.cur_len
        /\ h + 1 \in 1..Len(peer) /\ "RETRYCB" \notin scb
        /\ (\A i \in 1..InHead : pbufi[i] = Byte(h + 1, i, "sent"))
        /\ AtHead /\ Read = {peer[h + 1]} /\ pbufi[1].f = h + 1
        /\ Follows(peer, Rest, h, Here)
    BY <1>2, <1>4, NextHead
  <2>2. /\ Len(heads') = h + 1 /\ heads' # <<>>
        /\ Len(heads') <= Len(peer) /\ \A i \in 1..Len(heads') : heads'[i] = i
    BY <1>2, <1>4, HeadsInOrder
  <2>3. /\ peer \in Seq(Frames) /\ Len(peer) \in Nat /\ h \in Nat /\ (heads = <<>> <=> h = 0)
        /\ Len(pbufi) \in Nat /\ InHead \in Nat /\ InHead > 0
        /\ ws.cur_len \in Nat /\ ws.frame_len \in Nat
    BY <1>3, Types, WebSockAssumption
  <2>4. f = peer[h + 1]
    BY <2>1
  <2>5. f \in Frames /\ f.len \in Nat /\ f.op \in Ops
    BY <2>1, <2>3, <2>4, WebSockAssumption
  <2>6. f.op = "continue" => h = 0
    <3>1. h # 0 => h + 1 \in 2..Len(peer)
      BY <2>1, <2>3
    <3> QED BY <1>3, <2>3, <2>4, <3>1
  <2>7. f.op = "continue" => ws.status = "none" /\ ws.frame_len = 0
    BY <2>1, <2>3, <2>6 DEF Stream, Reading
  <2>8. /\ ws'.frame_len = f.len /\ ws'.cur_len = 0 /\ ws'.mask = h + 1
        /\ "FIN" \in ws'.flg => f.fin /\ f.op # "ping"
    <3>1. ws'.cur_len = 0 /\ ws'.mask = h + 1 /\ ("FIN" \in ws'.flg => f.fin /\ f.op # "ping")
      BY <1>1, <2>1 DEF WebsocketHead
    <3>2. ws'.frame_len = f.len
      BY <1>1, <2>5, <2>7 DEF WebsocketHead
    <3> QED BY <3>1, <3>2
  <2>9. ws'.status = StatusOf(f)
    <3>1. ws'.status = Status(f)
      BY <1>1 DEF WebsocketHead
    <3>2. Status(f) = StatusOf(f)
      BY <1>1, <2>5, <2>7 DEF Status, StatusOf, Ops
    <3> QED BY <3>1, <3>2
  <2>10. Placed' /\ Trimmed'
    <3>1. cntri' = InHead /\ cntri + InHead = InHead /\ InHead \in 1..InHead
      BY <1>2, <2>1, <2>3
    <3>2. pbufi[InHead].f = h + 1 /\ pbufi[InHead].k = InHead
      <4>1. pbufi[InHead] = Byte(h + 1, InHead, "sent")
        BY <2>1, <3>1
      <4> QED BY <4>1 DEF Byte
    <3>3. Follows(peer, Rest', pbufi[cntri + InHead].f, pbufi[cntri + InHead].k)
      BY <1>2, <1>3, <2>1, <2>3, <3>1, Worked
    <3>4. Here' = InHead
      BY <2>2, <2>3, <2>8 DEF Here
    <3> QED BY <1>2, <2>2, <2>3, <3>1, <3>2, <3>3, <3>4 DEF Placed, Trimmed
  <2>11. Reading'
    BY <1>1, <1>2, <2>2, <2>4, <2>8, <2>9 DEF Reading
  <2>12. Answering'
    <3>1. \A i \in cntri' + 1..Len(pbufi) : i \in cntri + 1..Len(pbufi)
      BY <1>2, <2>1, <2>3
    <3> QED BY <1>2, <2>1, <3>1 DEF Stream, Answering
  <2>13. Waited'
    <3>1. \A n \in 1..Len(peer) - 1 : peer[n] \in Patient => n < h + 1
      BY <2>1, <2>3 DEF Stream, Waited
    <3> QED BY <1>2, <2>2, <3>1 DEF Waited
  <2>14. Echoed'
    <3>1. echo = Echoes(peer)[h] \o Part(peer, h + 1, 0)
      BY <1>3, <2>1, EchoNext DEF Stream, Past, InOrder
    <3>2. h = h + 1 - 1
      BY <2>3
    <3> QED BY <1>2, <2>2, <2>8, <3>1, <3>2 DEF Echoed
  <2>15. Told'
    <3>1. \A i \in 1..Len(taken) : taken[i][1].f < h + 1
      <4>1. \A i \in 1..Len(taken) : taken[i][1].f <= h
        BY <2>1 DEF Stream, Told
      <4>2. \A i \in 1..Len(taken) : taken[i][1].f \in 1..Len(peer)
        BY <2>1 DEF Past, Texts
      <4> QED BY <2>3, <4>1, <4>2
    <3>2. \A i \in 1..Len(taken) : taken[i][1].f \in 1..Len(peer)
      BY <2>1 DEF Past, Texts
    <3> QED BY <1>2, <2>2, <2>3, <3>1, <3>2 DEF Told
  <2>16. Past'
    BY <1>2, <2>1, <2>2 DEF Past, InOrder, Texts
  <2> QED BY <1>2, <2>10, <2>11, <2>12, <2>13, <2>14, <2>15, <2>16 DEF Stream
<1> QED BY <1>2, <1>3, <1>4 DEF RInv

LEMMA HeadBadKeeps ==
  ASSUME RInv, IInv', HeadBad
  PROVE  RInv'
<1>1. PICK f \in Read : websock_tx_close_err(WebsocketHead(f), scb)
  BY DEF HeadBad
<1>2. /\ UNCHANGED <<peer, echo, taken, cramped>>
      /\ at = "loop" /\ More /\ ~InFrame /\ InHead <= Len(pbufi) /\ HeadRead
  BY DEF HeadBad, input
<1>3. "flg" \in DOMAIN WebsocketHead(f)
  BY DEF WebsocketHead
<1>4. ~Alive' /\ scb \subseteq scb' /\ scb' \subseteq scb \cup {"DISCONNECT"}
  BY <1>1, <1>3, CloseEnds
<1>5. "CLOSED" \in scb' => "DISCONNECT" \in scb'
  BY <1>4 DEF RInv
<1>6. ~cramped => InOrder'
  BY <1>2, HeadsInOrder DEF InOrder
<1> QED BY <1>2, <1>4, <1>5, <1>6, GivingUp

---------------------------------------------------------------------------
(* The block of a turn.                                                    *)
(* What masking leaves of the places of the bytes.                         *)
LEMMA MaskPlaces ==
  ASSUME IInv, NEW n \in Nat
  PROVE  /\ WebsocketMask(n) \in Seq(Known) /\ Len(WebsocketMask(n)) = Len(pbufi)
         /\ \A i \in 1..Len(pbufi) :
              /\ WebsocketMask(n)[i].f = pbufi[i].f /\ WebsocketMask(n)[i].k = pbufi[i].k
              /\ i > n => WebsocketMask(n)[i] = pbufi[i]
              /\ i <= n => WebsocketMask(n)[i] = Masked(pbufi[i], ws.mask, ws.cur_len + i - 1)
<1>1. WebsocketMask(n) \in Seq(Known) /\ Len(WebsocketMask(n)) = Len(pbufi)
  BY MaskType
<1>2. \A i \in 1..Len(pbufi) : pbufi[i] \in Known
  BY TypesNow, ElementOfSeq
<1> SUFFICES ASSUME NEW i \in 1..Len(pbufi)
             PROVE  /\ WebsocketMask(n)[i].f = pbufi[i].f /\ WebsocketMask(n)[i].k = pbufi[i].k
                    /\ i > n => WebsocketMask(n)[i] = pbufi[i]
                    /\ i <= n => WebsocketMask(n)[i] = Masked(pbufi[i], ws.mask, ws.cur_len + i - 1)
  BY <1>1
<1>3. WebsocketMask(n)[i] =
        IF i <= n THEN Masked(pbufi[i], ws.mask, ws.cur_len + i - 1) ELSE pbufi[i]
  BY DEF WebsocketMask
<1>4. i \in Nat
  OBVIOUS
<1>5. CASE i > n
  BY <1>3, <1>4, <1>5
<1>6. CASE i <= n
  <2> DEFINE b == pbufi[i]
             x == ws.cur_len + i - 1
  <2>1. b \in [f : Sent1, k : Nat, x : Sort]
    BY <1>2 DEF Known, BytesOf
  <2>2. WebsocketMask(n)[i] = Masked(b, ws.mask, x)
    BY <1>3, <1>6
  <2> HIDE DEF b, x
  <2>3. Masked(b, ws.mask, x).f = b.f /\ Masked(b, ws.mask, x).k = b.k
    BY <2>1 DEF Masked
  <2> QED BY <1>4, <1>6, <2>2, <2>3 DEF b, x
<1> QED BY <1>4, <1>5, <1>6

(* A payload byte of the frame in progress comes out plain.                *)
LEMMA Unmasked ==
  ASSUME NEW b, NEW fs, b \in BytesOf(fs, Sort), NEW x \in Nat,
         b.k = InHead + x + 1, b.x = "sent"
  PROVE  Masked(b, b.f, x) = Byte(b.f, InHead + x + 1, "plain")
<1>1. InHead \in Nat
  BY WebSockAssumption
<1>2. b.k > InHead /\ b.k - InHead - 1 = x
  BY <1>1
<1>3. (b.k - InHead - 1) % 4 = x % 4
  BY <1>2
<1>4. Masked(b, b.f, x) = [b EXCEPT !.x = "plain"]
  BY <1>2, <1>3 DEF Masked
<1>5. b \in [f : fs, k : Nat, x : Sort]
  BY DEF BytesOf
<1> QED BY <1>4, <1>5 DEF Byte

(* The block of a turn with room for it.                                   *)
Fits == Block = Smaller(Remainder, Len(pbufi))

LEMMA NotCramped ==
  ASSUME IInv, Cramp, ~cramped'
  PROVE  ~cramped /\ Fits
<1>1. ~cramped /\ ~(sndbuf < Reserve + Smaller(Remainder, Len(pbufi)))
  BY DEF Cramp
<1>2. /\ Remainder \in Nat /\ Len(pbufi) \in Nat /\ Reserve \in Nat
      /\ sndbuf \in 0..SndBuf /\ SndBuf \in Nat
  BY BlockType, TypesNow, WebSockAssumption
<1>3. sndbuf \in Nat
  BY <1>2
<1> DEFINE R == Remainder
           L == Len(pbufi)
<1>4. R \in Nat /\ L \in Nat /\ ~(sndbuf < Reserve + Smaller(R, L))
      /\ Block = IF sndbuf < Reserve THEN R ELSE Smaller(R, Smaller(sndbuf - Reserve, L))
  BY <1>1, <1>2 DEF Block
<1> HIDE DEF R, L
<1>5. Block = Smaller(R, L)
  BY <1>2, <1>3, <1>4 DEF Smaller
<1> QED BY <1>1, <1>5 DEF Fits, R, L

LEMMA EmptyFits ==
  ASSUME IInv, ws.frame_len = 0
  PROVE  Fits /\ Block = 0
<1>1. Remainder = 0 /\ Len(pbufi) \in Nat /\ Block \in 0..Remainder
  BY BlockType, Types DEF Remainder
<1> QED BY <1>1 DEF Fits, Smaller

LEMMA AtBlock ==
  ASSUME RInv, ~cramped, at = "loop", More, InFrame, Fits
  PROVE  /\ IInv /\ Stream /\ Past /\ cntri = 0 /\ heads # <<>> /\ Len(heads) \in 1..Len(peer)
         /\ peer[Len(heads)] \in Frames /\ ws.frame_len = peer[Len(heads)].len
         /\ ws.status = StatusOf(peer[Len(heads)]) /\ ws.mask = Len(heads)
         /\ peer[Len(heads)].op # "bad"
         /\ Here = InHead + ws.cur_len /\ Follows(peer, Rest, Len(heads), Here)
         /\ Block \in 0..Len(pbufi) /\ Block \in 0..Remainder
         /\ \A i \in 1..Block : pbufi[i].f = Len(heads) /\ pbufi[i].k = InHead + ws.cur_len + i
         /\ ~Complete => Block = Len(pbufi)
         /\ (Block = 0 /\ Remainder > 0) => Len(pbufi) = 0
         /\ peer[Len(heads)] \in Patient => Len(heads) = Len(peer) /\ Block = Len(pbufi)
         /\ "FIN" \in ws.flg => ws.cur_len = 0 /\ peer[Len(heads)].fin /\ peer[Len(heads)].op # "ping"
<1> DEFINE h == Len(heads)
           f == peer[h]
<1>1. IInv /\ Past /\ Stream
  BY AtWork
<1>2. /\ peer \in Seq(Frames) /\ Len(peer) \in Nat /\ pbufi \in Seq(Known) /\ Len(pbufi) \in Nat /\ cntri \in Nat
      /\ h \in Nat /\ (heads = <<>> <=> h = 0) /\ Known = Of(peer)
      /\ ws.cur_len \in Nat /\ ws.frame_len \in Nat /\ ws.cur_len <= ws.frame_len
      /\ InHead \in Nat /\ InHead > 0
  BY <1>1, Types, WebSockAssumption
<1>3. heads # <<>>
  BY <1>1, InProgress
<1>4. h \in 1..Len(peer)
  BY <1>1, <1>2, <1>3 DEF Past, InOrder
<1>5. /\ f.op # "bad" /\ ws.mask = h /\ ws.frame_len = f.len /\ ws.status = StatusOf(f)
      /\ "FIN" \in ws.flg => ws.cur_len = 0 /\ f.fin /\ f.op # "ping"
  BY <1>1, <1>3 DEF Stream, Reading
<1>6. cntri = 0
  BY <1>1, <1>2 DEF Stream, Trimmed, More
<1>7. Here = InHead + ws.cur_len /\ Follows(peer, Rest, h, Here) /\ cntri <= Len(pbufi)
  BY <1>1, <1>3 DEF Here, Stream, Placed
<1>8. Remainder = ws.frame_len - ws.cur_len /\ Remainder \in Nat
  BY <1>2 DEF Remainder
<1>9. /\ Block \in 0..Len(pbufi) /\ Block \in 0..Remainder /\ Block \in Nat
      /\ ~Complete => Block = Len(pbufi)
      /\ (Block = 0 /\ Remainder > 0) => Len(pbufi) = 0
      /\ Len(pbufi) <= Remainder => Block = Len(pbufi)
  BY <1>2, <1>8 DEF Fits, Smaller, Complete
<1>10. f \in Frames /\ EndOf(peer, h) = InHead + ws.frame_len
  BY <1>2, <1>4, <1>5, EndFacts
<1>11. /\ Rest \in Seq(Of(peer)) /\ Len(Rest) = Len(pbufi) - cntri + Len(wire) /\ Len(wire) \in Nat
       /\ \A i \in 1..Len(pbufi) - cntri : Rest[i] = pbufi[cntri + i]
  BY <1>1, <1>7, RestFacts, Types
<1>12. ASSUME NEW i \in 1..Block PROVE pbufi[i].f = h /\ pbufi[i].k = InHead + ws.cur_len + i
  <2>1. i \in 1..Len(pbufi) - cntri /\ cntri + i = i /\ i \in 1..Len(Rest)
    BY <1>2, <1>6, <1>9, <1>11
  <2>2. Here \in Nat /\ h \in 0..Len(peer) /\ Here + i <= EndOf(peer, h)
    <3>1. i \in Nat /\ i <= Remainder /\ Remainder = ws.frame_len - ws.cur_len
      BY <1>8, <1>9
    <3>2. Here \in Nat /\ Here + i <= InHead + ws.frame_len
      <4>1. Here = InHead + ws.cur_len /\ ws.cur_len + i <= ws.frame_len
        BY <1>2, <1>7, <3>1
      <4>2. InHead \in Nat /\ ws.cur_len \in Nat /\ ws.frame_len \in Nat /\ i \in Nat
        BY <1>2, <3>1
      <4> QED BY <4>1, <4>2
    <3> QED BY <1>2, <1>4, <1>10, <3>2
  <2> DEFINE k == Here
             s == Rest
  <2>3. s[i].f = h /\ s[i].k = k + i
    <3>1. /\ s \in Seq(Of(peer)) /\ k \in Nat /\ Follows(peer, s, h, k)
          /\ i \in 1..Len(s) /\ k + i <= EndOf(peer, h) /\ h \in 0..Len(peer)
      BY <1>7, <1>11, <2>1, <2>2
    <3> HIDE DEF k, s, h
    <3> QED BY <1>2, <3>1, FollowsFrame
  <2> QED BY <1>7, <1>11, <2>1, <2>3
<1>13. ASSUME f \in Patient PROVE h = Len(peer) /\ Block = Len(pbufi)
  <2>1. h = Len(peer)
    <3>1. h \notin 1..Len(peer) - 1
      BY <1>1, <1>2, <1>13 DEF Stream, Waited
    <3> QED BY <1>2, <1>4, <3>1
  <2>2. Here \in Nat /\ Here <= EndOf(peer, Len(peer))
    BY <1>2, <1>7, <1>10, <2>1
  <2>3. Len(Rest) = EndOf(peer, Len(peer)) - Here
    BY <1>2, <1>7, <1>11, <2>1, <2>2, FollowsLast
  <2>4. Len(pbufi) <= Remainder
    BY <1>2, <1>6, <1>7, <1>8, <1>10, <1>11, <2>1, <2>3
  <2> QED BY <1>9, <2>1, <2>4
<1> QED BY <1>1, <1>3, <1>4, <1>5, <1>6, <1>7, <1>9, <1>10, <1>12, <1>13

(* What a block says when its bytes are as they were sent.                 *)
LEMMA PlainBlock ==
  ASSUME RInv, ~cramped, at = "loop", More, InFrame, Fits, "RETRYCB" \notin scb
  PROVE  /\ Payload(Block) = [i \in 1..Block |-> Byte(Len(heads), InHead + ws.cur_len + i, "plain")]
         /\ \A i \in Block + 1..Len(pbufi) : WebsocketMask(Block)[i].x = "sent"
<1> DEFINE h == Len(heads)
           B == Block
<1>1. /\ IInv /\ Stream /\ cntri = 0 /\ ws.mask = h
      /\ B \in 0..Len(pbufi)
      /\ \A i \in 1..B : pbufi[i].f = h /\ pbufi[i].k = InHead + ws.cur_len + i
  BY AtBlock
<1>2. /\ pbufi \in Seq(Known) /\ Len(pbufi) \in Nat /\ ws.cur_len \in Nat /\ h \in Nat
      /\ B \in Nat /\ InHead \in Nat
  BY <1>1, Types, WebSockAssumption
<1>3. \A i \in 1..Len(pbufi) : pbufi[i].x = "sent"
  BY <1>1, <1>2 DEF Stream, Answering
<1>4. \A i \in 1..Len(pbufi) :
         /\ i > B => WebsocketMask(B)[i] = pbufi[i]
         /\ i <= B => WebsocketMask(B)[i] = Masked(pbufi[i], ws.mask, ws.cur_len + i - 1)
  BY <1>1, <1>2, MaskPlaces
<1>5. \A i \in B + 1..Len(pbufi) : WebsocketMask(B)[i].x = "sent"
  <2>1. \A i \in B + 1..Len(pbufi) : i \in 1..Len(pbufi) /\ i > B
    BY <1>2
  <2> QED BY <1>3, <1>4, <2>1
<1>6. ASSUME NEW i \in 1..B PROVE i <= Len(pbufi) /\ WebsocketMask(B)[i] = Byte(h, InHead + ws.cur_len + i, "plain")
  <2>1. i \in 1..Len(pbufi) /\ i <= B
    BY <1>1, <1>2
  <2> DEFINE x == ws.cur_len + i - 1
             b == pbufi[i]
  <2>2. b \in BytesOf(Sent1, Sort)
    BY <1>2, <2>1, ElementOfSeq DEF Known
  <2>3. x \in Nat /\ InHead + x + 1 = InHead + ws.cur_len + i
    BY <1>2, <2>1
  <2>4. b.k = InHead + x + 1 /\ b.f = h /\ b.x = "sent"
    BY <1>1, <1>3, <2>1, <2>3
  <2>5. WebsocketMask(B)[i] = Masked(b, b.f, x)
    BY <1>1, <1>4, <2>1, <2>4
  <2> HIDE DEF x, b
  <2>6. Masked(b, b.f, x) = Byte(b.f, InHead + x + 1, "plain")
    BY <2>2, <2>3, <2>4, Unmasked
  <2> QED BY <2>1, <2>3, <2>4, <2>5, <2>6
<1> HIDE DEF B, h
<1>7. Payload(B) = [i \in 1..B |-> Byte(h, InHead + ws.cur_len + i, "plain")]
  BY <1>6 DEF Payload
<1> QED BY <1>5, <1>7 DEF B, h

---------------------------------------------------------------------------
(* What has gone back grows by the block.                                  *)
LEMMA PartJoin ==
  ASSUME NEW p, NEW n \in Nat \ {0}, NEW k \in Nat, NEW m \in Nat, p[n].op \in {"binary", "pong"}
  PROVE  Part(p, n, k) \o [i \in 1..m |-> Byte(n, InHead + k + i, "plain")] = Part(p, n, k + m)
<1> DEFINE a == Part(p, n, k)
           b == [i \in 1..m |-> Byte(n, InHead + k + i, "plain")]
           c == Part(p, n, k + m)
           t == a \o b
<1>0. InHead \in Nat /\ k + m \in Nat
  BY WebSockAssumption
<1>1. /\ a = [i \in 1..k |-> Byte(n, i + InHead, "plain")]
      /\ c = [i \in 1..k + m |-> Byte(n, i + InHead, "plain")]
  BY DEF Part
<1>2. a \in Seq(AnyByte) /\ c \in Seq(AnyByte)
  BY <1>0, PartType
<1>3. b \in Seq(AnyByte)
  <2>1. \A i \in 1..m : Byte(n, InHead + k + i, "plain") \in AnyByte
    BY <1>0 DEF Byte, AnyByte, BytesOf, Sort
  <2>2. b \in [1..m -> AnyByte]
    BY <2>1
  <2> QED BY <2>2, SeqDef
<1>4. Len(a) = k /\ Len(b) = m /\ Len(c) = k + m
  <2>1. DOMAIN a = 1..k /\ DOMAIN b = 1..m /\ DOMAIN c = 1..k + m
    BY <1>1
  <2> HIDE DEF a, b, c
  <2> QED BY <1>0, <1>2, <1>3, <2>1, LenProperties
<1>5. \A i \in 1..k : a[i] = c[i]
  <2>1. \A i \in 1..k : i \in 1..k + m
    OBVIOUS
  <2> HIDE DEF a, b, c
  <2> QED BY <1>1, <2>1
<1>6. \A i \in 1..m : b[i] = c[k + i]
  <2> SUFFICES ASSUME NEW i \in 1..m PROVE b[i] = c[k + i]
    OBVIOUS
  <2>1. k + i \in 1..k + m /\ (k + i) + InHead = InHead + k + i
    BY <1>0
  <2>2. b[i] = Byte(n, InHead + k + i, "plain")
    OBVIOUS
  <2>3. c[k + i] = Byte(n, (k + i) + InHead, "plain")
    <3> HIDE DEF a, b, c
    <3> QED BY <1>1, <2>1
  <2> QED BY <2>1, <2>2, <2>3
<1> HIDE DEF a, b, c
<1>7. Joins(AnyByte, a, b, t)
  BY <1>2, <1>3, ConcatFacts
<1> HIDE DEF t
<1>8. t \in Seq(AnyByte) /\ Len(t) = Len(c)
  BY <1>4, <1>7 DEF Joins
<1>9. \A i \in 1..Len(c) : t[i] = c[i]
  <2> SUFFICES ASSUME NEW i \in 1..Len(c) PROVE t[i] = c[i]
    OBVIOUS
  <2>1. CASE i <= k
    <3>1. i \in 1..k
      BY <2>1
    <3> QED BY <1>4, <1>5, <1>7, <3>1 DEF Joins
  <2>2. CASE i > k
    <3>1. i - k \in 1..m /\ k + (i - k) = i
      BY <1>4, <2>2
    <3>2. t[k + (i - k)] = b[i - k] /\ b[i - k] = c[k + (i - k)]
      BY <1>4, <1>6, <1>7, <3>1 DEF Joins
    <3> QED BY <3>1, <3>2
  <2> QED BY <2>1, <2>2
<1>10. t = c
  BY <1>2, <1>8, <1>9
<1> QED BY <1>10 DEF t, a, b, c

(* t is m bytes of frame n, after the first k of its payload.              *)
Carried(t, n, k, m) == t = [i \in 1..m |-> Byte(n, InHead + k + i, "plain")]

AreJoined(a, b, c)  == a \o b = c

(* More of a frame goes back.                                              *)
LEMMA PartMore ==
  ASSUME NEW p, NEW n \in Nat, n # 0, NEW k \in Nat, NEW m \in Nat, p[n].op \in {"binary", "pong"},
         NEW e \in Seq(AnyByte), NEW t, Carried(t, n, k, m)
  PROVE  AreJoined(e \o Part(p, n, k), t, e \o Part(p, n, k + m))
<1> DEFINE s == Part(p, n, k)
<1>1. s \in Seq(AnyByte)
  BY PartType
<1>2. t \in Seq(AnyByte)
  <2>1. \A i \in 1..m : Byte(n, InHead + k + i, "plain") \in AnyByte
    BY WebSockAssumption DEF Byte, AnyByte, BytesOf, Sort
  <2>2. t \in [1..m -> AnyByte]
    BY <2>1 DEF Carried
  <2> QED BY <2>2, SeqDef
<1>3. s \o t = Part(p, n, k + m)
  BY PartJoin DEF Carried
<1> HIDE DEF s
<1>4. (e \o s) \o t = e \o (s \o t)
  BY <1>1, <1>2, SMTT(20)
<1> QED BY <1>3, <1>4 DEF s, AreJoined

LEMMA EchoOn ==
  ASSUME NEW p \in Seq(Frames), NEW h \in 1..Len(p), NEW k \in Nat, NEW m \in Nat,
         p[h].op \in {"binary", "pong"}, NEW e, e = Echoes(p)[h - 1] \o Part(p, h, k),
         NEW t, Carried(t, h, k, m)
  PROVE  AreJoined(e, t, Echoes(p)[h - 1] \o Part(p, h, k + m))
<1> DEFINE u == Echoes(p)[h - 1]
<1>1. h \in Nat /\ h # 0 /\ h - 1 \in 0..Len(p)
  <2>1. Len(p) \in Nat
    OBVIOUS
  <2> QED BY <2>1
<1>2. u \in Seq(AnyByte)
  BY <1>1, EchoesGrow
<1> HIDE DEF u
<1>3. AreJoined(u \o Part(p, h, k), t, u \o Part(p, h, k + m))
  BY <1>1, <1>2, PartMore
<1> QED BY <1>3 DEF u

(* Part of what a frame sends back begins what all of them do.             *)
LEMMA EchoBegins ==
  ASSUME NEW p \in Seq(Frames), NEW h \in 1..Len(p), NEW k \in 0..p[h].len, NEW e,
         e = Echoes(p)[h - 1] \o Part(p, h, k)
  PROVE  Begins(e, Echoes(p)[Len(p)]) /\ e \in Seq(AnyByte)
<1> DEFINE u == Echoes(p)[h - 1]
           s == Part(p, h, k)
           t == Part(p, h, p[h].len)
           v == Echoes(p)[h]
           w == Echoes(p)[Len(p)]
<1>1. p[h].len \in Nat /\ Len(p) \in Nat /\ k \in Nat /\ k <= p[h].len
  <2>1. p[h].len \in Nat
    BY EndFacts
  <2> QED BY <2>1
<1>2. h \in Nat \ {0} /\ h - 1 \in 0..Len(p) /\ h \in 0..Len(p) /\ Len(p) \in 0..Len(p)
  BY <1>1
<1>3. v = u \o t
  BY <1>2, EchoesAre
<1>4. u \in Seq(AnyByte) /\ v \in Seq(AnyByte) /\ w \in Seq(AnyByte) /\ Begins(v, w)
  BY <1>2, EchoesGrow
<1>5. s \in Seq(AnyByte) /\ t \in Seq(AnyByte)
  BY <1>1, <1>2, PartType
<1>6. Begins(s, t)
  <2>1. CASE p[h].op \notin {"binary", "pong"}
    <3>1. s = <<>> /\ t = <<>>
      BY <2>1 DEF Part
    <3> QED BY <3>1 DEF Begins
  <2>2. CASE p[h].op \in {"binary", "pong"}
    <3>1. /\ s = [i \in 1..k |-> Byte(h, i + InHead, "plain")]
          /\ t = [i \in 1..p[h].len |-> Byte(h, i + InHead, "plain")]
      BY <1>2, <2>2 DEF Part
    <3>2. DOMAIN s = 1..k /\ DOMAIN t = 1..p[h].len
      BY <3>1
    <3> HIDE DEF s, t
    <3>3. Len(s) = k /\ Len(t) = p[h].len
      BY <1>1, <1>5, <3>2, LenProperties
    <3>4. \A i \in 1..k : i \in 1..p[h].len
      BY <1>1
    <3>5. \A i \in 1..k : t[i] = s[i]
      BY <3>1, <3>4
    <3> QED BY <1>1, <3>3, <3>5 DEF Begins
  <2> QED BY <2>1, <2>2
<1> HIDE DEF u, s, t, v, w
<1>7. Begins(u \o s, u \o t)
  BY <1>4, <1>5, <1>6, BeginsOn
<1>8. u \o s \in Seq(AnyByte)
  BY <1>4, <1>5
<1>9. Begins(u \o s, w)
  <2> DEFINE x == u \o s
  <2>1. x \in Seq(AnyByte) /\ Begins(x, v) /\ Begins(v, w)
    BY <1>3, <1>4, <1>7, <1>8
  <2> HIDE DEF x
  <2>2. Begins(x, w)
    BY <1>4, <2>1, BeginsOn
  <2> QED BY <2>2 DEF x
<1> QED BY <1>8, <1>9 DEF u, s, w

---------------------------------------------------------------------------
(* The turns that handle a block.                                          *)
(* A block is processed.                                                   *)
LEMMA Consumed ==
  ASSUME RInv, IInv', ~cramped, at = "loop", More, InFrame, Fits,
         UNCHANGED <<peer, wire, heads>>, ws' = ws_done, cntri' = cntri + Block,
         Len(pbufi') = Len(pbufi),
         \A i \in 1..Len(pbufi) : pbufi'[i].f = pbufi[i].f /\ pbufi'[i].k = pbufi[i].k,
         \A i \in Block + 1..Len(pbufi) : pbufi'[i].x = "sent",
         "RETRYCB" \in scb' => "RETRYCB" \in scb,
         \/ at' = "trim" /\ (Block = 0 => Len(pbufi) = 0)
         \/ at' = "return" /\ Block \in {0, Len(pbufi)},
         IF peer[Len(heads)].op \in {"binary", "pong"}
         THEN "RETRYCB" \notin scb /\ echo' = echo \o Payload(Block)
         ELSE UNCHANGED echo,
         Told', Texts'
  PROVE  Past' /\ Stream'
<1> DEFINE h == Len(heads)
           f == peer[h]
<1>1. /\ IInv /\ Stream /\ Past /\ cntri = 0 /\ heads # <<>> /\ h \in 1..Len(peer)
      /\ f \in Frames /\ ws.frame_len = f.len
      /\ ws.status = StatusOf(f) /\ ws.mask = h /\ f.op # "bad"
      /\ Here = InHead + ws.cur_len /\ Follows(peer, Rest, h, Here)
      /\ Block \in 0..Len(pbufi) /\ Block \in 0..Remainder
      /\ \A i \in 1..Block : pbufi[i].f = h /\ pbufi[i].k = InHead + ws.cur_len + i
  BY AtBlock
<1>2. /\ peer \in Seq(Frames) /\ Len(peer) \in Nat /\ Len(pbufi) \in Nat /\ h \in Nat
      /\ ws \in WsType /\ ws.cur_len \in Nat /\ ws.frame_len \in Nat /\ ws.cur_len <= ws.frame_len
      /\ InHead \in Nat /\ Block \in Nat /\ Remainder = ws.frame_len - ws.cur_len
  BY <1>1, Types, WebSockAssumption DEF Remainder
<1>3. /\ ws'.frame_len = ws.frame_len /\ ws'.cur_len = ws.cur_len + Block /\ ws'.status = ws.status
      /\ ws'.mask = ws.mask /\ "FIN" \notin ws'.flg /\ ws.cur_len + Block <= ws.frame_len
  <2>1. /\ ws'.frame_len = ws.frame_len /\ ws'.cur_len = ws.cur_len + Block /\ ws'.status = ws.status
        /\ ws'.mask = ws.mask /\ "FIN" \notin ws'.flg
    BY <1>2 DEF ws_done, WsType
  <2>2. Block <= ws.frame_len - ws.cur_len
    BY <1>1, <1>2
  <2> QED BY <1>2, <2>1, <2>2
<1>4. Placed'
  <2>1. cntri + Block <= Len(pbufi) /\ cntri' = Block
    BY <1>1, <1>2
  <2>2. /\ Block = 0 => Follows(peer, Rest', h, Here)
        /\ Block > 0 => Follows(peer, Rest', pbufi[cntri + Block].f, pbufi[cntri + Block].k)
    BY <1>1, <1>2, <2>1, Worked
  <2>3. Here' = InHead + ws.cur_len + Block
    BY <1>1, <1>2, <1>3 DEF Here
  <2>4. Follows(peer, Rest', h, InHead + ws.cur_len + Block)
    <3>1. CASE Block = 0
      <4>1. InHead + ws.cur_len + Block = Here
        BY <1>1, <1>2, <3>1
      <4> QED BY <2>2, <3>1, <4>1
    <3>2. CASE Block > 0
      <4>1. cntri + Block = Block /\ Block \in 1..Block
        BY <1>1, <1>2, <3>2
      <4> QED BY <1>1, <2>2, <3>2, <4>1
    <3> QED BY <1>2, <3>1, <3>2
  <2> QED BY <2>1, <2>3, <2>4, <1>1, <1>2 DEF Placed
<1>5. Trimmed' /\ ("FIN" \in ws'.flg => at' \in {"trim", "loop"})
  <2>1. "FIN" \notin ws'.flg /\ cntri' = Block
    BY <1>1, <1>2, <1>3
  <2>2. CASE at' = "trim" /\ (Block = 0 => Len(pbufi) = 0)
    BY <2>1, <2>2 DEF Trimmed
  <2>3. CASE at' = "return" /\ Block \in {0, Len(pbufi)}
    BY <2>1, <2>3 DEF Trimmed
  <2> QED BY <2>1, <2>2, <2>3
<1>6. Reading'
  BY <1>1, <1>3 DEF Reading
<1>7. Answering'
  <2>1. \A i \in cntri' + 1..Len(pbufi') : i \in Block + 1..Len(pbufi)
    BY <1>1, <1>2
  <2> QED BY <1>1, <1>3, <2>1 DEF Stream, Answering
<1>8. Waited'
  BY <1>1 DEF Stream, Waited
<1>9. echo' = Echoes(peer)[h - 1] \o Part(peer, h, ws.cur_len + Block)
  <2>1. echo = Echoes(peer)[h - 1] \o Part(peer, h, ws.cur_len)
    BY <1>1 DEF Stream, Echoed
  <2>2. CASE f.op \in {"binary", "pong"}
    <3>1. "RETRYCB" \notin scb /\ echo' = echo \o Payload(Block)
      BY <2>2
    <3>2. Payload(Block) = [i \in 1..Block |-> Byte(h, InHead + ws.cur_len + i, "plain")]
      BY <3>1, PlainBlock
    <3> DEFINE k == ws.cur_len
               t == Payload(Block)
               m == Block
    <3>3. /\ peer \in Seq(Frames) /\ h \in 1..Len(peer) /\ k \in Nat /\ m \in Nat
          /\ peer[h].op \in {"binary", "pong"} /\ Carried(t, h, k, m)
          /\ echo = Echoes(peer)[h - 1] \o Part(peer, h, k)
      BY <1>1, <1>2, <2>1, <2>2, <3>2 DEF Carried
    <3> HIDE DEF k, t, m, h
    <3>4. AreJoined(echo, t, Echoes(peer)[h - 1] \o Part(peer, h, k + m))
      BY <3>3, EchoOn
    <3> QED BY <3>1, <3>4 DEF k, t, m, AreJoined
  <2>3. CASE f.op \notin {"binary", "pong"}
    <3>1. Part(peer, h, ws.cur_len + Block) = Part(peer, h, ws.cur_len)
      BY <2>3 DEF Part
    <3> QED BY <2>1, <2>3, <3>1
  <2> QED BY <2>2, <2>3
<1>10. Echoed'
  BY <1>1, <1>3, <1>9 DEF Echoed
<1>11. Begins(echo, Echoes(peer)[Len(peer)])'
  <2>1. ws.cur_len + Block \in 0..peer[h].len
    <3>1. ws.cur_len \in Nat /\ Block \in Nat /\ ws.frame_len \in Nat
          /\ ws.cur_len + Block <= ws.frame_len /\ ws.frame_len = peer[h].len
      BY <1>1, <1>2, <1>3
    <3> HIDE DEF h
    <3> QED BY <3>1
  <2> DEFINE e == echo'
             k == ws.cur_len + Block
  <2>2. e = Echoes(peer)[h - 1] \o Part(peer, h, k) /\ k \in 0..peer[h].len
    BY <1>9, <2>1
  <2> HIDE DEF e, k
  <2>3. Begins(e, Echoes(peer)[Len(peer)])
    BY <1>1, <1>2, <2>2, EchoBegins
  <2> QED BY <2>3 DEF e
<1>12. InOrder'
  BY <1>1 DEF Past, InOrder
<1> QED BY <1>4, <1>5, <1>6, <1>7, <1>8, <1>10, <1>11, <1>12 DEF Past, Stream

(* The text of a block is answered and stays.                              *)
LEMMA Staying ==
  ASSUME RInv, IInv', ~cramped, at = "loop", More, InFrame, Fits,
         UNCHANGED <<peer, wire, heads, echo, cntri>>, ws' = ws_taken,
         Len(pbufi') = Len(pbufi),
         \A i \in 1..Len(pbufi) : pbufi'[i].f = pbufi[i].f /\ pbufi'[i].k = pbufi[i].k,
         "RETRYCB" \in scb', at' = "return",
         peer[Len(heads)] \in Patient, ws.status = "text",
         Told', Texts'
  PROVE  Past' /\ Stream'
<1> DEFINE h == Len(heads)
           f == peer[h]
<1>1. /\ IInv /\ Stream /\ Past /\ cntri = 0 /\ heads # <<>> /\ h \in 1..Len(peer)
      /\ ws.frame_len = f.len /\ ws.status = StatusOf(f) /\ ws.mask = h /\ f.op # "bad"
      /\ Follows(peer, Rest, h, Here) /\ h = Len(peer)
  BY AtBlock
<1>2. Len(pbufi) \in Nat /\ cntri = cntri + 0 /\ cntri + 0 <= Len(pbufi) /\ 0 \in Nat
  BY <1>1, Types
<1>3. /\ ws'.frame_len = ws.frame_len /\ ws'.cur_len = ws.cur_len /\ ws'.status = ws.status
      /\ ws'.mask = ws.mask /\ "FIN" \notin ws'.flg
  BY <1>1, Types DEF ws_taken, WsType
<1>4. Placed'
  <2>1. Follows(peer, Rest', h, Here)
    BY <1>1, <1>2, Worked
  <2>2. Here' = Here
    BY <1>3 DEF Here
  <2> QED BY <1>1, <1>2, <2>1, <2>2 DEF Placed
<1>5. Trimmed' /\ Reading' /\ Answering'
  BY <1>1, <1>3 DEF Trimmed, Reading, Answering
<1>6. Waited'
  BY <1>1 DEF Stream, Waited
<1>7. Echoed'
  BY <1>1, <1>3 DEF Stream, Echoed
<1>8. InOrder' /\ Begins(echo, Echoes(peer)[Len(peer)])'
  BY <1>1 DEF Past, InOrder
<1> QED BY <1>3, <1>4, <1>5, <1>6, <1>7, <1>8 DEF Past, Stream

LEMMA Living ==
  ASSUME RInv, IInv', UNCHANGED peer, "CLOSED" \in scb' => "DISCONNECT" \in scb',
         ~cramped' => Past' /\ Stream'
  PROVE  RInv'
BY DEF RInv

(* Texts and what is told of them, where no text is handed over.           *)
LEMMA NothingTold ==
  ASSUME Past, Stream, InFrame, UNCHANGED <<peer, heads, taken>>, "RETRYCB" \in scb' => "RETRYCB" \in scb,
         "RETRYCB" \in scb => "RETRYCB" \in scb'
  PROVE  Told' /\ Texts'
BY DEF Past, Stream, Told, Texts

(* What a frame that is sent leaves of the flags.                          *)
LEMMA TxFrame ==
  ASSUME NEW fr, fr.op # "close", NEW r, NEW w, NEW s, r.err \in {"OK", "ERR"},
         websock_tx_frame(fr, r, w, s)
  PROVE  /\ ws' = w
         /\ r.err = "OK" => scb' = s
         /\ r.err = "ERR" => "DISCONNECT" \in scb'
BY DEF websock_tx_frame

LEMMA TxOutcome ==
  ASSUME NEW fr, NEW n, NEW r, r \in WebsocketTxFrame(fr, n) \/ (\E m, more : r \in SendPart(m, more))
  PROVE  r.err \in {"OK", "ERR"}
BY DEF WebsocketTxFrame, SendPart

(* The operation of the frame in progress, from its status.                *)
LEMMA OpOf ==
  ASSUME NEW f \in Frames, f.op # "bad", ws.status = StatusOf(f)
  PROVE  /\ ws.status = "text" => f.op \in {"text", "wsping"}
         /\ ws.status = "binary" => f.op = "binary"
         /\ ws.status = "ping" => f.op = "pong"
         /\ ws.status = "pong" => f.op = "ping"
         /\ f.len \in Nat /\ f.fin \in BOOLEAN
<1>1. f.op \in Ops /\ f.len \in Nat /\ f.fin \in BOOLEAN
  BY WebSockAssumption
<1> QED BY <1>1 DEF StatusOf, Ops

(* A PONG, a binary block, or the connection is given up.                  *)
LEMMA EchoKeeps ==
  ASSUME PeerWaits, RInv, IInv', Binary \/ Ping
  PROVE  RInv'
<1>1. /\ at = "loop" /\ More /\ InFrame /\ Cramp
      /\ UNCHANGED <<peer, wire, heads, taken>>
  BY DEF Binary, Ping, Processing, input
<1>a. \E op \in {"binary", "pong"} : \E r \in WebsocketTxFrame(EchoFrame(op), Block) :
        /\ websock_tx_frame(EchoFrame(op), r, ws_after(r), scb)
        /\ echo' = IF r.err = "OK" THEN echo \o Payload(Block) ELSE echo
        /\ ConsumeAfter(r)
        /\ \/ ws.status = "binary" /\ ws.frame_len # 0 /\ (r.err = "OK" => at' = "trim")
           \/ ws.status = "ping" /\ at' = "return"
  BY DEF Binary, Ping, Processing
<1>b. PICK op \in {"binary", "pong"} : \E r \in WebsocketTxFrame(EchoFrame(op), Block) :
        /\ websock_tx_frame(EchoFrame(op), r, ws_after(r), scb)
        /\ echo' = IF r.err = "OK" THEN echo \o Payload(Block) ELSE echo
        /\ ConsumeAfter(r)
        /\ \/ ws.status = "binary" /\ ws.frame_len # 0 /\ (r.err = "OK" => at' = "trim")
           \/ ws.status = "ping" /\ at' = "return"
  BY <1>a
<1>2. PICK r \in WebsocketTxFrame(EchoFrame(op), Block) :
        /\ websock_tx_frame(EchoFrame(op), r, ws_after(r), scb)
        /\ echo' = IF r.err = "OK" THEN echo \o Payload(Block) ELSE echo
        /\ ConsumeAfter(r)
        /\ \/ ws.status = "binary" /\ ws.frame_len # 0 /\ (r.err = "OK" => at' = "trim")
           \/ ws.status = "ping" /\ at' = "return"
  BY <1>b
<1>3. IInv /\ ("CLOSED" \in scb => "DISCONNECT" \in scb) /\ Block \in Nat /\ (~cramped => Past)
  BY BlockType DEF RInv
<1>4. EchoFrame(op).op # "close"
  BY DEF EchoFrame, Frame, FrameOf
<1>5. r.err \in {"OK", "ERR"}
  BY <1>2, TxOutcome
<1>6. /\ ws' = ws_after(r)
      /\ r.err = "OK" => scb' = scb
      /\ r.err = "ERR" => "DISCONNECT" \in scb'
  BY <1>2, <1>4, <1>5, TxFrame
<1>7. CASE r.err = "ERR"
  <2>1. UNCHANGED <<peer, echo, taken>> /\ ~Alive' /\ "DISCONNECT" \in scb'
    BY <1>1, <1>2, <1>6, <1>7 DEF Alive
  <2>2. ~cramped' => ~cramped
    BY <1>1 DEF Cramp
  <2>3. ~cramped => InOrder'
    BY <1>1, <1>3 DEF Past, InOrder
  <2> QED BY <2>1, <2>2, <2>3, GivingUp
<1>8. CASE r.err = "OK"
  <2>1. scb' = scb /\ ws' = ws_done /\ echo' = echo \o Payload(Block)
        /\ pbufi' = WebsocketMask(Block) /\ cntri' = cntri + Block
    BY <1>2, <1>6, <1>8 DEF ws_after, ConsumeAfter
  <2>2. ASSUME ~cramped' PROVE Past' /\ Stream'
    <3>1. ~cramped /\ Fits
      BY <1>1, <1>3, <2>2, NotCramped
    <3> DEFINE f == peer[Len(heads)]
    <3>2. /\ Stream /\ Past /\ heads # <<>> /\ f \in Frames /\ ws.frame_len = f.len
          /\ ws.status = StatusOf(f) /\ f.op # "bad"
          /\ Block \in 0..Len(pbufi) /\ Block \in 0..Remainder
          /\ (Block = 0 /\ Remainder > 0) => Len(pbufi) = 0
          /\ f \in Patient => Block = Len(pbufi)
          /\ "FIN" \in ws.flg => ws.cur_len = 0
      BY <1>1, <3>1, AtBlock
    <3>3. f.op \in {"binary", "pong"} /\ (ws.status = "ping" => f.op = "pong") /\ f.len \in Nat
      BY <1>2, <3>2, OpOf
    <3>4. "RETRYCB" \notin scb
      BY <1>2, <3>2 DEF Stream, Answering
    <3>5. /\ Len(pbufi') = Len(pbufi)
          /\ \A i \in 1..Len(pbufi) : pbufi'[i].f = pbufi[i].f /\ pbufi'[i].k = pbufi[i].k
      BY <1>3, <2>1, MaskPlaces
    <3>6. \A i \in Block + 1..Len(pbufi) : pbufi'[i].x = "sent"
      BY <1>1, <2>1, <3>1, <3>4, PlainBlock
    <3>7. Told' /\ Texts'
      BY <1>1, <2>1, <3>2, NothingTold
    <3>8. Remainder = ws.frame_len - ws.cur_len /\ ws.cur_len \in Nat /\ ws.frame_len \in Nat
      BY <1>3, Types DEF Remainder
    <3>9. \/ at' = "trim" /\ (Block = 0 => Len(pbufi) = 0)
          \/ at' = "return" /\ Block \in {0, Len(pbufi)}
      <4>1. CASE ws.status = "binary" /\ ws.frame_len # 0 /\ at' = "trim"
        <5>1. Remainder > 0
          BY <1>1, <3>2, <3>8, <4>1 DEF InFrame
        <5> QED BY <3>2, <4>1, <5>1
      <4>2. CASE ws.status = "ping" /\ at' = "return"
        <5>1. CASE f.len = 0
          <6>1. Remainder = 0 - ws.cur_len
            BY <3>2, <3>8, <5>1
          <6>2. Block = 0
            BY <1>3, <3>2, <3>8, <6>1
          <6> QED BY <4>2, <6>2
        <5>2. CASE f.len # 0
          <6>1. f.len > 0
            BY <3>3, <5>2
          <6>2. f \in Patient
            BY <3>2, <3>3, <4>2, <6>1 DEF PeerWaits, MustWait
          <6> QED BY <3>2, <4>2, <6>2
        <5> QED BY <5>1, <5>2
      <4> QED BY <1>2, <1>8, <4>1, <4>2
    <3>10. "RETRYCB" \notin scb'
      BY <2>1, <3>4
    <3>11. UNCHANGED <<peer, wire, heads>>
      BY <1>1
    <3> QED BY <1>1, <2>1, <3>1, <3>3, <3>4, <3>5, <3>6, <3>7, <3>9, <3>10, <3>11, Consumed
  <2> QED BY <1>1, <1>3, <2>1, <2>2, Living
<1> QED BY <1>5, <1>7, <1>8

(* Blocks that are dropped.                                                *)
LEMMA DropKeeps ==
  ASSUME PeerWaits, RInv, IInv', BinaryEmpty \/ Pong \/ TextPart
  PROVE  RInv'
<1>1. /\ at = "loop" /\ More /\ InFrame
      /\ UNCHANGED <<peer, wire, scb, heads, echo, taken>>
      /\ pbufi' = WebsocketMask(Block) /\ cntri' = cntri + Block /\ ws' = ws_done
      /\ \/ Cramp
         \/ UNCHANGED cramped /\ ws.frame_len = 0
      /\ \/ ws.status = "binary" /\ ws.frame_len = 0 /\ at' = "trim"
         \/ ws.status = "pong" /\ at' = "trim"
         \/ ws.status = "text" /\ ~Whole /\ at' = "return"
  BY DEF BinaryEmpty, Pong, TextPart, Processing, input, history, Consume
<1>2. IInv /\ ("CLOSED" \in scb => "DISCONNECT" \in scb) /\ Block \in Nat
  BY BlockType DEF RInv
<1>3. ASSUME ~cramped' PROVE Past' /\ Stream'
  <2>1. ~cramped /\ Fits
    BY <1>1, <1>2, <1>3, NotCramped, EmptyFits
  <2> DEFINE f == peer[Len(heads)]
  <2>2. /\ Stream /\ Past /\ heads # <<>> /\ f \in Frames /\ ws.frame_len = f.len
        /\ ws.status = StatusOf(f) /\ f.op # "bad"
        /\ Block \in 0..Len(pbufi) /\ Block \in 0..Remainder
        /\ (Block = 0 /\ Remainder > 0) => Len(pbufi) = 0
        /\ ~Complete => Block = Len(pbufi)
        /\ f \in Patient => Block = Len(pbufi)
        /\ "FIN" \in ws.flg => ws.cur_len = 0 /\ f.fin /\ f.op # "ping"
    BY <1>1, <2>1, AtBlock
  <2>3. /\ ws.status = "text" => f.op \in {"text", "wsping"}
        /\ ws.status = "binary" => f.op = "binary"
        /\ ws.status = "pong" => f.op = "ping"
    BY <2>2, OpOf
  <2>4. Remainder = ws.frame_len - ws.cur_len /\ ws.cur_len \in Nat /\ ws.frame_len \in Nat
        /\ ws.cur_len <= ws.frame_len
    BY <1>2, Types DEF Remainder
  <2>5. "RETRYCB" \in scb => Block = Len(pbufi)
    BY <2>2 DEF Stream, Answering
  <2>6. /\ Len(pbufi') = Len(pbufi)
        /\ \A i \in 1..Len(pbufi) : pbufi'[i].f = pbufi[i].f /\ pbufi'[i].k = pbufi[i].k
    BY <1>1, <1>2, MaskPlaces
  <2>7. \A i \in Block + 1..Len(pbufi) : pbufi'[i].x = "sent"
    <3>1. CASE "RETRYCB" \in scb
      <4>1. Block + 1..Len(pbufi) = {}
        BY <1>2, <2>2, <2>5, <3>1
      <4> QED BY <4>1
    <3>2. CASE "RETRYCB" \notin scb
      BY <1>1, <2>1, <3>2, PlainBlock
    <3> QED BY <3>1, <3>2
  <2>8. Told' /\ Texts'
    BY <1>1, <2>2, NothingTold
  <2>9. \/ at' = "trim" /\ (Block = 0 => Len(pbufi) = 0)
        \/ at' = "return" /\ Block \in {0, Len(pbufi)}
    <3>1. CASE ws.status = "binary" /\ ws.frame_len = 0 /\ at' = "trim"
      <4>1. "FIN" \in ws.flg
        BY <1>1, <2>4, <3>1 DEF InFrame
      <4>2. f \in Patient
        BY <2>2, <2>3, <3>1, <4>1 DEF PeerWaits, MustWait
      <4> QED BY <2>2, <3>1, <4>2
    <3>2. CASE ws.status = "pong" /\ at' = "trim"
      <4>1. ws.frame_len > ws.cur_len
        BY <1>1, <2>2, <2>3, <3>2 DEF InFrame
      <4>2. Remainder > 0
        BY <2>4, <4>1
      <4> QED BY <2>2, <3>2, <4>2
    <3>3. CASE ws.status = "text" /\ ~Whole /\ at' = "return"
      <4>1. CASE ~Complete
        BY <2>2, <3>3, <4>1
      <4>2. CASE ws.frame_len = 0
        <5>1. Remainder = 0 - ws.cur_len
          BY <2>4, <4>2
        <5>2. Block = 0
          BY <1>2, <2>2, <2>4, <5>1
        <5> QED BY <3>3, <5>2
      <4> QED BY <3>3, <4>1, <4>2 DEF Whole
    <3> QED BY <1>1, <3>1, <3>2, <3>3
  <2>10. UNCHANGED <<peer, wire, heads>> /\ UNCHANGED echo /\ "RETRYCB" \in scb' => "RETRYCB" \in scb
    BY <1>1
  <2>11. IF f.op \in {"binary", "pong"}
         THEN "RETRYCB" \notin scb /\ echo' = echo \o Payload(Block)
         ELSE UNCHANGED echo
    <3>1. CASE ws.status = "binary" /\ ws.frame_len = 0
      <4>1. "RETRYCB" \notin scb
        BY <2>2, <3>1 DEF Stream, Answering
      <4>2. Block = 0
        BY <1>2, <3>1, EmptyFits
      <4>3. Payload(Block) = <<>>
        <5>1. 1..0 = {}
          OBVIOUS
        <5> QED BY <4>2, <5>1 DEF Payload
      <4>4. echo \o <<>> = echo
        <5>1. echo \in Seq(BytesOf(0..MaxFrames, Sort))
          BY <1>2, TypesNow
        <5> QED BY <5>1
      <4> QED BY <1>1, <4>1, <4>3, <4>4
    <3>2. CASE ws.status # "binary"
      BY <1>1, <2>3, <3>2
    <3> QED BY <1>1, <3>1, <3>2
  <2> QED BY <1>1, <2>1, <2>6, <2>7, <2>8, <2>9, <2>10, <2>11, Consumed
<1> QED BY <1>1, <1>2, <1>3, Living

(* The connection is given up: CLOSE, no room, a block of no frame.        *)
LEMMA RefuseKeeps ==
  ASSUME RInv, IInv', TextNoRoom \/ CloseFrame \/ NoStatus
  PROVE  RInv'
<1>1. UNCHANGED <<peer, heads, echo, taken>> /\ Cramp
  BY DEF TextNoRoom, CloseFrame, NoStatus, input
<1>2. "flg" \in DOMAIN ws_taken
  BY Types DEF RInv, ws_taken, WsType
<1>3. "DISCONNECT" \in scb'
  <2>1. ASSUME NEW s, "DISCONNECT" \in s, websock_tx_close_err(ws_taken, s) PROVE "DISCONNECT" \in scb'
    BY <1>2, <2>1, CloseEnds
  <2>2. \/ \E s : "DISCONNECT" \in s /\ websock_tx_close_err(ws_taken, s)
        \/ scb' = scb \cup {"DISCONNECT"}
    <3>1. CASE TextNoRoom
      <4>1. websock_tx_close_err(ws_taken, scb \cup {"FCLOSE", "DISCONNECT"})
            /\ "DISCONNECT" \in scb \cup {"FCLOSE", "DISCONNECT"}
        BY <3>1 DEF TextNoRoom
      <4> QED BY <4>1
    <3>2. CASE CloseFrame \/ NoStatus
      <4>1. \/ websock_tx_close_err(ws_taken, scb \cup {"DISCONNECT"})
            \/ scb' = scb \cup {"DISCONNECT"}
        BY <3>2 DEF CloseFrame, NoStatus
      <4>2. "DISCONNECT" \in scb \cup {"DISCONNECT"}
        OBVIOUS
      <4> QED BY <4>1, <4>2
    <3> QED BY <3>1, <3>2
  <2> QED BY <2>1, <2>2
<1>4. ~cramped' => ~cramped
  BY <1>1 DEF Cramp
<1>5. ~cramped => InOrder'
  BY <1>1 DEF RInv, Past, InOrder
<1> QED BY <1>1, <1>3, <1>4, <1>5, GivingUp DEF Alive

(* A whole text, at its last block: the buffer holds nothing behind it.    *)
LEMMA WholeText ==
  ASSUME PeerWaits, RInv, ~cramped, at = "loop", More, InFrame, Fits, Whole, ws.status = "text"
  PROVE  /\ Stream /\ Past /\ peer[Len(heads)] \in Patient /\ Block = Len(pbufi) /\ Block > 0
         /\ Block + 1..Len(pbufi) = {} /\ Len(pbufi) \in Nat
         /\ peer[Len(heads)].op \notin {"binary", "pong"} /\ cntri = 0
         /\ ws.frame_len = peer[Len(heads)].len /\ ws.frame_len = ws.cur_len + Block
         /\ Len(heads) \in 1..Len(peer) /\ EndText = WebsocketMask(Block)
<1> DEFINE f == peer[Len(heads)]
<1>1. /\ IInv /\ Stream /\ Past /\ heads # <<>> /\ f \in Frames /\ ws.frame_len = f.len
      /\ ws.status = StatusOf(f) /\ f.op # "bad" /\ cntri = 0
      /\ Block \in 0..Len(pbufi) /\ Block \in 0..Remainder
      /\ f \in Patient => Block = Len(pbufi)
      /\ "FIN" \in ws.flg => ws.cur_len = 0
      /\ Len(heads) \in 1..Len(peer)
  BY AtBlock
<1>2. /\ ws.frame_len = ws.cur_len + Block /\ ws.frame_len # 0
      /\ ws.cur_len \in Nat /\ ws.frame_len \in Nat /\ Len(pbufi) \in Nat
  BY <1>1, Types DEF Whole, Complete
<1>3. f.op \in {"text", "wsping"} /\ f.len > 0
  <2>1. f.op \in {"text", "wsping"}
    BY <1>1, OpOf
  <2> QED BY <1>1, <1>2, <2>1
<1>4. f \in Patient /\ Block = Len(pbufi)
  BY <1>1, <1>3 DEF PeerWaits, MustWait
<1>5. Block > 0
  BY <1>1, <1>2 DEF InFrame
<1>6. Block + 1..Len(pbufi) = {}
  BY <1>2, <1>4
<1>7. EndText = WebsocketMask(Block)
  <2>1. EndText = [i \in 1..Len(pbufi) |->
                     IF i = Block + 1 THEN [pbufi[i] EXCEPT !.x = "zero"] ELSE WebsocketMask(Block)[i]]
    BY DEF EndText
  <2>2. \A i \in 1..Len(pbufi) : i # Block + 1
    BY <1>2, <1>4
  <2>3. EndText = [i \in 1..Len(pbufi) |-> WebsocketMask(Block)[i]]
    BY <2>1, <2>2
  <2> DEFINE g(i) == IF i <= Block THEN Masked(pbufi[i], ws.mask, ws.cur_len + i - 1) ELSE pbufi[i]
  <2>4. WebsocketMask(Block) = [i \in 1..Len(pbufi) |-> g(i)]
    BY DEF WebsocketMask
  <2> HIDE DEF g
  <2>5. \A i \in 1..Len(pbufi) : WebsocketMask(Block)[i] = g(i)
    BY <2>4
  <2> QED BY <2>3, <2>4, <2>5
<1> QED BY <1>1, <1>2, <1>3, <1>4, <1>5, <1>6, <1>7

(* "ws:ping".                                                              *)
LEMMA TextPingKeeps ==
  ASSUME PeerWaits, RInv, IInv', TextPing
  PROVE  RInv'
<1>1. /\ at = "loop" /\ More /\ InFrame /\ Cramp /\ ws.status = "text" /\ Whole
      /\ UNCHANGED <<peer, wire, heads, echo, taken>> /\ at' = "return"
  BY DEF TextPing, Processing, input
<1>2. PICK r \in WebsocketTxFrame(Frame("text", TRUE), Block) :
        websock_tx_frame(Frame("text", TRUE), r, ws_after(r), scb) /\ ConsumeAfter(r)
  BY DEF TextPing
<1>3. IInv /\ ("CLOSED" \in scb => "DISCONNECT" \in scb) /\ Block \in Nat /\ (~cramped => Past)
  BY BlockType DEF RInv
<1>4. Frame("text", TRUE).op # "close"
  BY DEF Frame, FrameOf
<1>5. r.err \in {"OK", "ERR"}
  BY <1>2, TxOutcome
<1>6. /\ ws' = ws_after(r)
      /\ r.err = "OK" => scb' = scb
      /\ r.err = "ERR" => "DISCONNECT" \in scb'
  <2> DEFINE fr == Frame("text", TRUE)
             w  == ws_after(r)
  <2>1. fr.op # "close" /\ r.err \in {"OK", "ERR"} /\ websock_tx_frame(fr, r, w, scb)
    BY <1>2, <1>4, <1>5
  <2> HIDE DEF fr, w
  <2>2. ws' = w /\ (r.err = "OK" => scb' = scb) /\ (r.err = "ERR" => "DISCONNECT" \in scb')
    BY <2>1, TxFrame
  <2> QED BY <2>2 DEF w
<1>7. CASE r.err = "ERR"
  <2>1. ~Alive' /\ "DISCONNECT" \in scb'
    BY <1>6, <1>7 DEF Alive
  <2>2. ~cramped' => ~cramped
    BY <1>1 DEF Cramp
  <2>3. ~cramped => InOrder'
    BY <1>1, <1>3 DEF Past, InOrder
  <2> QED BY <1>1, <2>1, <2>2, <2>3, GivingUp
<1>8. CASE r.err = "OK"
  <2>1. scb' = scb /\ ws' = ws_done /\ pbufi' = WebsocketMask(Block) /\ cntri' = cntri + Block
    BY <1>2, <1>6, <1>8 DEF ws_after, ConsumeAfter
  <2>2. ASSUME ~cramped' PROVE Past' /\ Stream'
    <3>1. ~cramped /\ Fits
      BY <1>1, <1>3, <2>2, NotCramped
    <3>2. /\ Stream /\ Past /\ Block = Len(pbufi) /\ Block + 1..Len(pbufi) = {}
          /\ peer[Len(heads)].op \notin {"binary", "pong"}
      BY <1>1, <3>1, WholeText
    <3>3. /\ Len(pbufi') = Len(pbufi)
          /\ \A i \in 1..Len(pbufi) : pbufi'[i].f = pbufi[i].f /\ pbufi'[i].k = pbufi[i].k
      BY <1>3, <2>1, MaskPlaces
    <3>4. Told' /\ Texts'
      BY <1>1, <2>1, <3>2, NothingTold
    <3>5. /\ \A i \in Block + 1..Len(pbufi) : pbufi'[i].x = "sent"
          /\ "RETRYCB" \in scb' => "RETRYCB" \in scb
          /\ at' = "return" /\ Block \in {0, Len(pbufi)}
          /\ UNCHANGED <<peer, wire, heads>> /\ UNCHANGED echo
      BY <1>1, <2>1, <3>2
    <3> QED BY <1>1, <2>1, <3>1, <3>2, <3>3, <3>4, <3>5, Consumed
  <2> QED BY <1>1, <1>3, <2>1, <2>2, Living
<1> QED BY <1>5, <1>7, <1>8

(* A text is handed over, at its first part.                               *)
LEMMA Handing ==
  ASSUME PeerWaits, RInv, ~cramped, at = "loop", More, InFrame, Fits, Whole, ws.status = "text",
         taken' = Handed, UNCHANGED <<peer, heads>>
  PROVE  Texts' /\ \A i \in 1..Len(taken') : taken'[i][1].f <= Len(heads)
<1> DEFINE h == Len(heads)
<1>1. /\ Stream /\ Past /\ Block > 0 /\ Block \in Nat /\ h \in 1..Len(peer) /\ Len(peer) \in Nat
      /\ ws.frame_len = peer[h].len /\ ws.frame_len = ws.cur_len + Block
      /\ ws.cur_len \in Nat /\ InHead \in Nat
      /\ taken \in Seq(Seq(BytesOf(0..MaxFrames, Sort)))
  <2>1. IInv
    BY DEF RInv
  <2> QED BY <2>1, WholeText, BlockType, Types, TypesNow, WebSockAssumption
<1>2. Texts /\ Told
  BY <1>1 DEF Past, Stream
<1>3. CASE Again
  BY <1>2, <1>3 DEF Handed, Texts, Told
<1>4. CASE ~Again
  <2> DEFINE t == Payload(Block)
             n == Len(taken)
  <2>1. t = [i \in 1..Block |-> Byte(h, InHead + ws.cur_len + i, "plain")] /\ "RETRYCB" \notin scb
    BY <1>4, PlainBlock DEF Again
  <2>2. t \in Seq(BytesOf(0..MaxFrames, Sort))
    BY <1>1, PayloadType DEF RInv
  <2>3. DOMAIN t = 1..Block
    BY <2>1
  <2>4. \A i \in 1..Block : t[i] = Byte(h, InHead + ws.cur_len + i, "plain")
    BY <2>1
  <2> HIDE DEF t, h
  <2>5. Len(t) = Block
    BY <1>1, <2>2, <2>3, LenProperties
  <2>6. t[1].f = h
    <3>1. 1 \in 1..Block
      BY <1>1
    <3>2. t[1] = Byte(h, InHead + ws.cur_len + 1, "plain")
      BY <2>4, <3>1
    <3> QED BY <3>2 DEF Byte
  <2>7. \A j \in 1..Len(t) : t[j] = Byte(t[1].f, InHead + peer[t[1].f].len - Len(t) + j, "plain")
    <3> SUFFICES ASSUME NEW j \in 1..Block
                 PROVE  t[j] = Byte(h, InHead + peer[h].len - Block + j, "plain")
      BY <2>5, <2>6
    <3>1. InHead + peer[h].len - Block + j = InHead + ws.cur_len + j
      BY <1>1
    <3> QED BY <2>4, <3>1
  <2>8. taken' = Append(taken, t)
    BY <1>4 DEF Handed, t
  <2>9. n \in Nat /\ Len(taken') = n + 1 /\ taken'[n + 1] = t /\ \A i \in 1..n : taken'[i] = taken[i]
    BY <1>1, <2>8
  <2>10. \A i \in 1..n : taken[i][1].f < h
    BY <1>2, <2>1 DEF Told, h
  <2>11. \A i \in 1..Len(taken') :
           LET u == taken'[i] IN
             /\ Len(u) > 0 /\ u[1].f \in 1..Len(peer) /\ u[1].f <= h
             /\ \A j \in 1..Len(u) : u[j] = Byte(u[1].f, InHead + peer[u[1].f].len - Len(u) + j, "plain")
    <3> SUFFICES ASSUME NEW i \in 1..Len(taken')
                 PROVE  LET u == taken'[i] IN
                        /\ Len(u) > 0 /\ u[1].f \in 1..Len(peer) /\ u[1].f <= h
                        /\ \A j \in 1..Len(u) :
                             u[j] = Byte(u[1].f, InHead + peer[u[1].f].len - Len(u) + j, "plain")
      OBVIOUS
    <3>1. CASE i = n + 1
      <4>1. taken'[i] = t /\ h <= h
        BY <1>1, <2>9, <3>1
      <4> QED BY <1>1, <2>5, <2>6, <2>7, <4>1
    <3>2. CASE i # n + 1
      <4>1. i \in 1..n /\ taken'[i] = taken[i]
        BY <2>9, <3>2
      <4>2. taken[i][1].f \in 1..Len(peer) /\ taken[i][1].f <= h
        BY <1>1, <1>2, <2>10, <4>1 DEF Texts
      <4> QED BY <1>2, <4>1, <4>2 DEF Texts
    <3> QED BY <3>1, <3>2
  <2>12. \A i, j \in 1..Len(taken') : i < j => taken'[i][1].f < taken'[j][1].f
    <3> SUFFICES ASSUME NEW i \in 1..Len(taken'), NEW j \in 1..Len(taken'), i < j
                 PROVE  taken'[i][1].f < taken'[j][1].f
      OBVIOUS
    <3>1. i \in 1..n /\ taken'[i] = taken[i]
      BY <2>9
    <3>2. CASE j = n + 1
      BY <2>6, <2>9, <2>10, <3>1, <3>2
    <3>3. CASE j # n + 1
      <4>1. j \in 1..n /\ taken'[j] = taken[j]
        BY <2>9, <3>3
      <4> QED BY <1>2, <3>1, <4>1 DEF Texts
    <3> QED BY <3>2, <3>3
  <2>13. peer' = peer
    OBVIOUS
  <2>14. Texts'
    BY <2>11, <2>12, <2>13 DEF Texts
  <2> QED BY <2>11, <2>14 DEF h
<1> QED BY <1>3, <1>4

---------------------------------------------------------------------------
(* The answer to a text, and the theorems.                                 *)
LEMMA TextKeeps ==
  ASSUME PeerWaits, RInv, IInv', Text
  PROVE  RInv'
<1>a. PICK more \in BOOLEAN : \E n : TextAnswer(n, more)
  BY DEF Text
<1>1. PICK n : TextAnswer(n, more)
  BY <1>a
<1>2. /\ at = "loop" /\ More /\ InFrame /\ Cramp /\ ws.status = "text" /\ Whole
      /\ UNCHANGED <<peer, wire, heads, echo>> /\ at' = "return" /\ taken' = Handed
      /\ pbufi' = IF Again THEN WebsocketMask(Block) ELSE EndText
  BY <1>1 DEF TextAnswer, Processing, input
<1> DEFINE fr == AnswerFrame(more)
           w(r) == IF Stays(r, more) THEN ws_taken ELSE ws_done
           s == IF more THEN scb \cup {"RETRYCB"} ELSE scb \ {"RETRYCB"}
<1>3. PICK r \in SendPart(n, more) :
        /\ websock_tx_frame(fr, r, w(r), s)
        /\ cntri' = IF Stays(r, more) THEN cntri ELSE cntri + Block
  BY <1>1 DEF TextAnswer
<1>4. IInv /\ ("CLOSED" \in scb => "DISCONNECT" \in scb) /\ Block \in Nat /\ (~cramped => Past)
  BY BlockType DEF RInv
<1>5. fr.op # "close"
  BY DEF AnswerFrame, Frame, FrameOf
<1>6. r.err \in {"OK", "ERR"}
  BY <1>3, TxOutcome
<1>7. /\ ws' = w(r)
      /\ r.err = "OK" => scb' = s
      /\ r.err = "ERR" => "DISCONNECT" \in scb'
  <2> DEFINE v == w(r)
  <2>1. fr.op # "close" /\ r.err \in {"OK", "ERR"} /\ websock_tx_frame(fr, r, v, s)
    BY <1>3, <1>5, <1>6
  <2> HIDE DEF fr, v, s
  <2>2. ws' = v /\ (r.err = "OK" => scb' = s) /\ (r.err = "ERR" => "DISCONNECT" \in scb')
    BY <2>1, TxFrame
  <2> QED BY <2>2 DEF v
<1>8. ASSUME ~cramped'
      PROVE  /\ ~cramped /\ Fits /\ Stream /\ Past /\ peer[Len(heads)] \in Patient
             /\ Block = Len(pbufi) /\ Block + 1..Len(pbufi) = {}
             /\ peer[Len(heads)].op \notin {"binary", "pong"}
             /\ ws.frame_len = ws.cur_len + Block
             /\ Len(pbufi') = Len(pbufi)
             /\ \A i \in 1..Len(pbufi) : pbufi'[i].f = pbufi[i].f /\ pbufi'[i].k = pbufi[i].k
             /\ Texts' /\ \A i \in 1..Len(taken') : taken'[i][1].f <= Len(heads)
  <2>1. ~cramped /\ Fits
    BY <1>2, <1>4, <1>8, NotCramped
  <2>2. /\ Stream /\ Past /\ peer[Len(heads)] \in Patient
        /\ Block = Len(pbufi) /\ Block + 1..Len(pbufi) = {}
        /\ peer[Len(heads)].op \notin {"binary", "pong"}
        /\ ws.frame_len = ws.cur_len + Block /\ EndText = WebsocketMask(Block)
    BY <1>2, <2>1, WholeText
  <2>3. pbufi' = WebsocketMask(Block)
    BY <1>2, <2>2
  <2>4. /\ Len(pbufi') = Len(pbufi)
        /\ \A i \in 1..Len(pbufi) : pbufi'[i].f = pbufi[i].f /\ pbufi'[i].k = pbufi[i].k
    BY <1>4, <2>3, MaskPlaces
  <2>5. Texts' /\ \A i \in 1..Len(taken') : taken'[i][1].f <= Len(heads)
    BY <1>2, <2>1, Handing
  <2> QED BY <2>1, <2>2, <2>4, <2>5
<1>9. CASE r.err = "ERR"
  <2>1. "DISCONNECT" \in scb' /\ ~Alive'
    BY <1>7, <1>9 DEF Alive
  <2>2. ASSUME ~cramped' PROVE Past'
    BY <1>2, <1>8, <2>2 DEF Past, InOrder
  <2>3. \A i \in 2..Len(peer') : peer'[i].op # "continue"
    BY <1>2 DEF RInv
  <2> QED BY <2>1, <2>2, <2>3 DEF RInv
<1>10. CASE r.err = "OK" /\ more
  <2>1. ws' = ws_taken /\ cntri' = cntri /\ scb' = scb \cup {"RETRYCB"}
    BY <1>3, <1>7, <1>10 DEF Stays
  <2>2. ASSUME ~cramped' PROVE Past' /\ Stream'
    <3>1. "RETRYCB" \in scb'
      BY <2>1
    <3>2. Told'
      BY <1>2, <1>8, <2>2, <3>1 DEF Told
    <3>3. UNCHANGED <<peer, wire, heads, echo, cntri>>
      BY <1>2, <2>1
    <3> QED BY <1>2, <1>8, <2>1, <2>2, <3>1, <3>2, <3>3, Staying
  <2> QED BY <1>2, <1>4, <2>1, <2>2, Living
<1>11. CASE r.err = "OK" /\ ~more
  <2>1. ws' = ws_done /\ cntri' = cntri + Block /\ scb' = scb \ {"RETRYCB"}
    BY <1>3, <1>7, <1>11 DEF Stays
  <2>2. ASSUME ~cramped' PROVE Past' /\ Stream'
    <3>1. ~InFrame'
      <4>1. ws'.cur_len = ws.cur_len + Block /\ ws'.frame_len = ws.frame_len /\ "FIN" \notin ws'.flg
            /\ ws.frame_len \in Nat
        BY <1>4, <2>1, Types DEF ws_done, WsType
      <4>2. ws'.cur_len = ws'.frame_len /\ ws'.frame_len \in Nat
        BY <1>8, <2>2, <4>1
      <4> QED BY <4>1, <4>2 DEF InFrame
    <3>2. Told'
      BY <1>2, <1>8, <2>2, <3>1 DEF Told
    <3>3. /\ \A i \in Block + 1..Len(pbufi) : pbufi'[i].x = "sent"
          /\ "RETRYCB" \in scb' => "RETRYCB" \in scb
          /\ Block \in {0, Len(pbufi)}
          /\ UNCHANGED <<peer, wire, heads>> /\ UNCHANGED echo
      BY <1>2, <1>8, <2>1, <2>2
    <3> QED BY <1>2, <1>8, <2>1, <2>2, <3>2, <3>3, Consumed
  <2> QED BY <1>2, <1>4, <2>1, <2>2, Living
<1> QED BY <1>6, <1>9, <1>10, <1>11

LEMMA IdleKeeps ==
  ASSUME RInv, IInv', UNCHANGED vars
  PROVE  RInv'
<1>1. UNCHANGED <<peer, wire, pbufi, cntri, ws, scb, at, by, heads, echo, taken, cramped>>
  BY DEF vars
<1>2. Stream => Stream'
  BY <1>1 DEF Stream, Placed, Rest, Here, Trimmed, Reading, Answering, Waited, InFrame, Echoed, Told
<1>3. Past => Past'
  BY <1>1 DEF Past, InOrder, Texts
<1> QED BY <1>1, <1>2, <1>3 DEF RInv, Alive

LEMMA RStep ==
  ASSUME PeerWaits, RInv, [Next]_vars
  PROVE  RInv'
<1>1. IInv'
  BY EveryStep DEF RInv
<1>2. CASE \E f \in Frames : PeerSend(f)
  BY <1>1, <1>2, PeerKeeps
<1>3. CASE Arrive
  BY <1>1, <1>3, ArriveKeeps DEF Arrive
<1>4. CASE RecvNull \/ Ack
  BY <1>1, <1>4, OtherKeeps
<1>5. CASE Turn
  BY <1>1, <1>5, QuietKeeps, EndingKeeps, HeadGoodKeeps, HeadBadKeeps, EchoKeeps, DropKeeps,
     RefuseKeeps, TextPingKeeps, TextKeeps, TrimKeeps, ReturnKeeps DEF Turn
<1>6. CASE UNCHANGED vars
  BY <1>1, <1>6, IdleKeeps
<1> QED BY <1>2, <1>3, <1>4, <1>5, <1>6 DEF Next

LEMMA RInit == Init => RInv
<1> SUFFICES ASSUME Init PROVE RInv
  OBVIOUS
<1>1. IInv
  BY Initially
<1>2. /\ peer = <<>> /\ wire = <<>> /\ pbufi = <<>> /\ cntri = 0 /\ scb = {}
      /\ ws.status = "none" /\ ws.frame_len = 0 /\ ws.cur_len = 0 /\ ws.flg = {}
      /\ at = "idle" /\ heads = <<>> /\ echo = <<>> /\ taken = <<>>
  BY DEF Init
<1>3. Len(peer) = 0 /\ Len(pbufi) = 0 /\ Len(heads) = 0 /\ Len(taken) = 0 /\ Len(echo) = 0
  BY <1>2
<1>4. Placed
  <2>1. cntri <= Len(pbufi)
    BY <1>2, <1>3
  <2>2. Len(Rest) = 0
    BY <1>1, <1>2, <1>3, <2>1, RestFacts
  <2>3. \A i \in 1..Len(Rest) - 1 : IsNext(peer, Rest[i + 1], Rest[i].f, Rest[i].k)
    BY <2>2
  <2>4. Here = 0 /\ EndOf(peer, 0) = 0
    BY <1>2 DEF Here, EndOf
  <2> QED BY <1>3, <2>1, <2>2, <2>3, <2>4 DEF Placed, Follows
<1>5. Stream
  BY <1>2, <1>3, <1>4 DEF Stream, Trimmed, Reading, Answering, Waited, Echoed, Told
<1>6. Past
  <2>1. Texts /\ InOrder
    BY <1>3 DEF Texts, InOrder
  <2>2. Echoes(peer)[0] = <<>>
    BY EchoesAre
  <2>3. Begins(echo, Echoes(peer)[Len(peer)])
    BY <1>2, <1>3, <2>2 DEF Begins
  <2> QED BY <2>1, <2>3 DEF Past
<1> QED BY <1>1, <1>2, <1>3, <1>5, <1>6 DEF RInv

LEMMA RInductive == ASSUME PeerWaits PROVE Spec => []RInv
<1>1. Init => RInv
  BY RInit
<1>2. RInv /\ [Next]_vars => RInv'
  BY RStep
<1> QED BY <1>1, <1>2, PTL DEF Spec

(* However the frames of a peer that waits are cut, and whichever callback *)
(* is at work, websock_rx_data reads the head of every frame in its order, *)
(* and takes nothing else for a head, unless a block did not fit.          *)
THEOREM HeadsOfFrames == ASSUME PeerWaits PROVE Spec => []HeadsAreFrames
<1>1. RInv => HeadsAreFrames
  BY DEF RInv, Past, InOrder, HeadsAreFrames
<1> QED BY <1>1, RInductive, PTL

(* With the same two exceptions, web_int_vars is given every text once, in *)
(* order, unmasked and up to its last byte, also when its answer takes     *)
(* several callbacks and the text is masked again for each.                *)
THEOREM TextsOnce == ASSUME PeerWaits PROVE Spec => []TextsTaken
<1>1. RInv => TextsTaken
  BY DEF RInv, Past, Texts, TextsTaken
<1> QED BY <1>1, RInductive, PTL

(* With the same two exceptions, what websock_rx_data sends back is the    *)
(* payload of the binary and PONG frames, unmasked by the mask of the      *)
(* frame at the place of the byte, in order, no byte lost or repeated.     *)
THEOREM EchoFaithful == ASSUME PeerWaits PROVE Spec => []EchoInOrder
<1>1. ASSUME RInv, ~cramped
      PROVE  /\ Len(echo) <= Len(Payloads[Len(peer)])
             /\ echo = SubSeq(Payloads[Len(peer)], 1, Len(echo))
  <2> DEFINE e == echo
             t == Payloads[Len(peer)]
  <2>1. Begins(e, t)
    BY <1>1, PayloadsAre DEF RInv, Past
  <2>2. e \in Seq(AnyByte)
    <3>1. echo \in Seq(BytesOf(0..MaxFrames, Sort))
      BY <1>1, TypesNow DEF RInv
    <3>2. BytesOf(0..MaxFrames, Sort) \subseteq AnyByte
      BY DEF BytesOf, AnyByte
    <3> QED BY <3>1, <3>2, SeqMonotonic
  <2>3. t \in Seq(AnyByte)
    <3>1. peer \in Seq(Frames) /\ Len(peer) \in 0..Len(peer)
      BY <1>1, Types DEF RInv
    <3>2. Echoes(peer)[Len(peer)] \in Seq(AnyByte)
      BY <3>1, EchoesGrow
    <3> QED BY <3>2, PayloadsAre
  <2> HIDE DEF e, t
  <2>4. Len(e) \in Nat /\ Len(t) \in Nat /\ Len(e) <= Len(t) /\ \A i \in 1..Len(e) : t[i] = e[i]
    BY <2>1, <2>2, <2>3 DEF Begins
  <2>5. /\ SubSeq(t, 1, Len(e)) \in Seq(AnyByte) /\ Len(SubSeq(t, 1, Len(e))) = Len(e)
        /\ \A i \in 1..Len(e) : SubSeq(t, 1, Len(e))[i] = t[i]
    <3>1. Len(e) \in 0..Len(t)
      BY <2>4
    <3> QED BY <2>3, <3>1, SplitAt
  <2>6. e = SubSeq(t, 1, Len(e))
    <3> DEFINE u == SubSeq(t, 1, Len(e))
    <3>1. u \in Seq(AnyByte) /\ Len(u) = Len(e) /\ \A i \in 1..Len(e) : u[i] = e[i]
      BY <2>4, <2>5
    <3> HIDE DEF u
    <3>2. e = u
      BY <2>2, <3>1
    <3> QED BY <3>2 DEF u
  <2> QED BY <2>4, <2>6 DEF e, t
<1>2. RInv => EchoInOrder
  BY <1>1 DEF EchoInOrder
<1> QED BY <1>2, RInductive, PTL

---------------------------------------------------------------------------
(* The order of the answers, for any peer and any room to send.  Heads may *)
(* be read in the wrong place then, but none is that of a frame before the *)
(* last one answered: first bytes of frames keep their order in the buffer *)
(* and on the wire, and a byte that was masked is no head any more.        *)
(* The first bytes of the frames in s come in the order of the frames, and *)
(* those in s before those in t.                                           *)
Sorted(s) == \A i, j \in 1..Len(s) : i < j /\ s[i].k = 1 /\ s[j].k = 1 => s[i].f < s[j].f
Before(s, t) == \A i \in 1..Len(s), j \in 1..Len(t) : s[i].k = 1 /\ t[j].k = 1 => s[i].f < t[j].f

(* a is a run of elements of s.                                            *)
Run(a, s, m) == \A i \in 1..Len(a) : m + i \in 1..Len(s) /\ a[i] = s[m + i]

(* A head that is not read yet is that of a frame after those answered and *)
(* those whose head was read.                                              *)
Fresh(b) ==
  b.k = 1 /\ b.x = "sent" =>
    b.f > last.re /\ (heads # <<>> => b.f > heads[Len(heads)])
Unread ==
  /\ \A i \in 1..Len(wire) : Fresh(wire[i])
  /\ \A i \in 1..Len(pbufi) : (at = "trim" /\ i = 1) \/ Fresh(pbufi[i])
InSequence == Sorted(pbufi) /\ Sorted(wire) /\ Before(pbufi, wire)

(* The frame in progress is the last that was answered, or comes after it; *)
(* once its answer is complete nothing of it is left.                      *)
Answered ==
  /\ last.re <= Len(peer)
  /\ heads # <<>> =>
       /\ heads[Len(heads)] <= Len(peer)
       /\ heads[Len(heads)] # 0 => last.re <= heads[Len(heads)]
       /\ (last.re # 0 /\ last.re = heads[Len(heads)] /\ last.fin /\ last.load = "whole") => ~InFrame

OInv == IInv /\ (Alive => InSequence /\ Unread /\ Answered)

(* What a step may do to the last frame sent.                              *)
OrderStep ==
  last' # last /\ last'.re # 0 => last.re <= last'.re /\ (last.fin => last.re < last'.re)

LEMMA RunAfter ==
  ASSUME NEW S, NEW s \in Seq(S), NEW n \in Nat
  PROVE  After(s, n) \in Seq(S) /\ Run(After(s, n), s, n)
<1>1. After(s, n) \in Seq(S) /\ Len(s) \in Nat
  BY AfterType, LenProperties
<1>2. CASE n <= Len(s)
  <2>1. n \in 0..Len(s)
    BY <1>1, <1>2
  <2>2. Len(After(s, n)) = Len(s) - n /\ \A i \in 1..Len(s) - n : After(s, n)[i] = s[n + i]
    BY <2>1, AfterFacts
  <2>3. \A i \in 1..Len(s) - n : n + i \in 1..Len(s)
    BY <1>1, <1>2
  <2> QED BY <1>1, <2>2, <2>3 DEF Run
<1>3. CASE n > Len(s)
  <2>1. Len(After(s, n)) = 0
    BY <1>1, <1>3 DEF After
  <2> QED BY <1>1, <2>1 DEF Run
<1> QED BY <1>1, <1>2, <1>3

LEMMA RunFirst ==
  ASSUME NEW S, NEW s \in Seq(S), NEW n \in 0..Len(s)
  PROVE  SubSeq(s, 1, n) \in Seq(S) /\ Run(SubSeq(s, 1, n), s, 0)
<1>1. SubSeq(s, 1, n) \in Seq(S) /\ Len(SubSeq(s, 1, n)) = n
      /\ \A i \in 1..n : SubSeq(s, 1, n)[i] = s[i]
  BY SplitAt
<1>2. \A i \in 1..n : 0 + i \in 1..Len(s) /\ 0 + i = i
  BY LenProperties
<1> QED BY <1>1, <1>2 DEF Run

LEMMA RunSorted ==
  ASSUME NEW a, NEW s, NEW m \in Nat, Run(a, s, m), Sorted(s)
  PROVE  Sorted(a)
<1> SUFFICES ASSUME NEW i \in 1..Len(a), NEW j \in 1..Len(a), i < j, a[i].k = 1, a[j].k = 1
             PROVE  a[i].f < a[j].f
  BY DEF Sorted
<1>1. m + i \in 1..Len(s) /\ m + j \in 1..Len(s) /\ a[i] = s[m + i] /\ a[j] = s[m + j] /\ m + i < m + j
  BY DEF Run
<1> QED BY <1>1 DEF Sorted

LEMMA RunBefore ==
  ASSUME NEW a, NEW s, NEW m, Run(a, s, m), NEW b, NEW t, NEW n, Run(b, t, n), Before(s, t)
  PROVE  Before(a, b)
BY DEF Run, Before

(* A sequence is sorted when its two parts are, and the first is before.   *)
LEMMA SortedJoin ==
  ASSUME NEW S, NEW a \in Seq(S), NEW b \in Seq(S), Sorted(a), Sorted(b), Before(a, b)
  PROVE  Sorted(a \o b)
<1> DEFINE t == a \o b
<1>1. Joins(S, a, b, t)
  BY ConcatFacts
<1> HIDE DEF t
<1>2. Len(a) \in Nat /\ Len(b) \in Nat /\ Len(t) = Len(a) + Len(b)
  BY <1>1, LenProperties DEF Joins
<1>3. \A i \in 1..Len(t) : \/ i \in 1..Len(a) /\ t[i] = a[i]
                           \/ i - Len(a) \in 1..Len(b) /\ t[i] = b[i - Len(a)]
  <2> SUFFICES ASSUME NEW i \in 1..Len(t)
               PROVE  \/ i \in 1..Len(a) /\ t[i] = a[i]
                      \/ i - Len(a) \in 1..Len(b) /\ t[i] = b[i - Len(a)]
    OBVIOUS
  <2>1. CASE i <= Len(a)
    <3>1. i \in 1..Len(a)
      BY <1>2, <2>1
    <3> QED BY <1>1, <3>1 DEF Joins
  <2>2. CASE i > Len(a)
    <3>1. i - Len(a) \in 1..Len(b) /\ Len(a) + (i - Len(a)) = i
      BY <1>2, <2>2
    <3>2. t[Len(a) + (i - Len(a))] = b[i - Len(a)]
      BY <1>1, <3>1 DEF Joins
    <3> QED BY <3>1, <3>2
  <2> QED BY <1>2, <2>1, <2>2
<1>4. Sorted(t)
  <2> SUFFICES ASSUME NEW i \in 1..Len(t), NEW j \in 1..Len(t), i < j, t[i].k = 1, t[j].k = 1
               PROVE  t[i].f < t[j].f
    BY DEF Sorted
  <2>1. CASE j \in 1..Len(a) /\ t[j] = a[j]
    <3>1. i \in 1..Len(a)
      BY <1>2, <2>1
    <3>2. t[i] = a[i]
      BY <1>1, <3>1 DEF Joins
    <3> QED BY <2>1, <3>1, <3>2 DEF Sorted
  <2>2. CASE j - Len(a) \in 1..Len(b) /\ t[j] = b[j - Len(a)]
    <3>1. CASE i \in 1..Len(a) /\ t[i] = a[i]
      BY <2>2, <3>1 DEF Before
    <3>2. CASE i - Len(a) \in 1..Len(b) /\ t[i] = b[i - Len(a)]
      <4>1. i - Len(a) < j - Len(a)
        BY <1>2
      <4> QED BY <2>2, <3>2, <4>1 DEF Sorted
    <3> QED BY <1>3, <3>1, <3>2
  <2> QED BY <1>3, <2>1, <2>2
<1> QED BY <1>4 DEF t

(* What holds of both parts of a sequence holds of it.                     *)
LEMMA JoinElements ==
  ASSUME NEW S, NEW a \in Seq(S), NEW b \in Seq(S), NEW i \in 1..Len(a \o b)
  PROVE  \/ \E j \in 1..Len(a) : (a \o b)[i] = a[j]
         \/ \E j \in 1..Len(b) : (a \o b)[i] = b[j]
<1> DEFINE t == a \o b
<1>1. Joins(S, a, b, t) /\ i \in 1..Len(t)
  BY ConcatFacts
<1> HIDE DEF t
<1>2. Len(a) \in Nat /\ Len(b) \in Nat /\ Len(t) = Len(a) + Len(b)
  BY <1>1, LenProperties DEF Joins
<1>3. CASE i <= Len(a)
  <2>1. i \in 1..Len(a)
    BY <1>1, <1>2, <1>3
  <2>2. t[i] = a[i]
    BY <1>1, <2>1 DEF Joins
  <2> QED BY <2>1, <2>2 DEF t
<1>4. CASE i > Len(a)
  <2>1. i - Len(a) \in 1..Len(b) /\ Len(a) + (i - Len(a)) = i
    BY <1>1, <1>2, <1>4
  <2>2. t[Len(a) + (i - Len(a))] = b[i - Len(a)]
    BY <1>1, <2>1 DEF Joins
  <2>3. \E j \in 1..Len(b) : t[i] = b[j]
    BY <2>1, <2>2
  <2> QED BY <2>3 DEF t
<1> QED BY <1>1, <1>2, <1>3, <1>4

LEMMA BeforeJoin ==
  ASSUME NEW S, NEW a \in Seq(S), NEW b \in Seq(S), NEW w, Before(a, w), Before(b, w)
  PROVE  Before(a \o b, w)
<1> SUFFICES ASSUME NEW i \in 1..Len(a \o b), NEW j \in 1..Len(w), (a \o b)[i].k = 1, w[j].k = 1
             PROVE  (a \o b)[i].f < w[j].f
  BY DEF Before
<1>1. \/ \E l \in 1..Len(a) : (a \o b)[i] = a[l]
      \/ \E l \in 1..Len(b) : (a \o b)[i] = b[l]
  BY JoinElements
<1> QED BY <1>1 DEF Before

(* A turn that leaves the bytes, the last frame and the heads as they are, *)
(* or ends the connection.                                                 *)
LEMMA OrderKept ==
  ASSUME OInv, IInv', UNCHANGED <<peer, wire, pbufi, ws, last, heads>>,
         Alive' => Alive, at # "trim"
  PROVE  OInv' /\ OrderStep
BY DEF OInv, InSequence, Unread, Answered, Sorted, Before, Fresh, InFrame, OrderStep

LEMMA OrderOver ==
  ASSUME IInv', ~Alive', last' = last \/ last'.re = 0
  PROVE  OInv' /\ OrderStep
BY DEF OInv, OrderStep

LEMMA CloseIsLast ==
  ASSUME NEW w, "flg" \in DOMAIN w, NEW s, websock_tx_close_err(w, s)
  PROVE  ~Alive' /\ (last' = last \/ last'.re = 0)
<1>1. PICK r \in WebsocketTxFrame(Close, 2) : websock_tx_frame(Close, r, w, s)
  BY DEF websock_tx_close_err
<1>2. ~Alive'
  BY CloseEnds
<1>3. last' = last \/ last'.re = 0
  BY <1>1 DEF websock_tx_frame, WebsocketTxFrame, Close, FrameOf, Cut
<1> QED BY <1>2, <1>3

(* Frames and the last head, as numbers.                                   *)
LEMMA OrderTypes ==
  ASSUME IInv
  PROVE  /\ Len(peer) \in Nat /\ last.re \in Nat /\ last \in SentType /\ Len(heads) \in Nat
         /\ heads # <<>> => heads[Len(heads)] \in Nat
         /\ wire \in Seq(Known) /\ pbufi \in Seq(Known) /\ cntri \in Nat /\ Len(pbufi) \in Nat
         /\ \A b \in Known : b.f \in 1..Len(peer) /\ b.k \in Nat
<1>1. /\ Len(peer) \in Nat /\ Len(heads) \in Nat /\ wire \in Seq(Known) /\ pbufi \in Seq(Known)
      /\ cntri \in Nat /\ Len(pbufi) \in Nat /\ (heads = <<>> <=> Len(heads) = 0)
      /\ heads \in Seq(0..MaxFrames)
  BY Types
<1>2. last \in SentType /\ last.re \in Nat
  BY TypesNow DEF SentType
<1>3. heads # <<>> => heads[Len(heads)] \in Nat
  <2> SUFFICES ASSUME heads # <<>> PROVE heads[Len(heads)] \in Nat
    OBVIOUS
  <2>1. Len(heads) \in 1..Len(heads)
    BY <1>1
  <2>2. heads[Len(heads)] \in 0..MaxFrames
    BY <1>1, <2>1, ElementOfSeq
  <2> QED BY <2>2
<1>4. \A b \in Known : b.f \in 1..Len(peer) /\ b.k \in Nat
  BY DEF Known, BytesOf, Sent1
<1> QED BY <1>1, <1>2, <1>3, <1>4

LEMMA OrderPeer ==
  ASSUME OInv, IInv', NEW f \in Frames, PeerSend(f)
  PROVE  OInv' /\ OrderStep
<1>1. /\ UNCHANGED <<pbufi, ws, scb, last, at, heads>>
      /\ peer' = Append(peer, f) /\ wire' = wire \o Bytes(f, Len(peer) + 1)
  BY DEF PeerSend, buffer, output, history
<1>2. IInv
  BY DEF OInv
<1>3. Len(peer') = Len(peer) + 1 /\ Len(peer) \in Nat /\ peer \in Seq(Frames)
  <2>1. peer \in Seq(Frames)
    BY <1>2, Types
  <2> QED BY <1>1, <2>1, LenProperties
<1> DEFINE b == Bytes(f, Len(peer) + 1)
           U == BytesOf(1..Len(peer) + 1, Sort)
<1>4. b \in Seq(U) /\ (\A i \in 1..Len(b) : b[i].f = Len(peer) + 1 /\ b[i].k = i)
  <2> DEFINE m == InHead + f.len
  <2>1. f.len \in Nat /\ m \in Nat
    BY WebSockAssumption
  <2>2. b = [i \in 1..m |-> Byte(Len(peer) + 1, i, "sent")]
    BY DEF Bytes
  <2>3. \A i \in 1..m : Byte(Len(peer) + 1, i, "sent") \in U
    BY <1>3, <2>1 DEF Byte, BytesOf, Sort
  <2> HIDE DEF b, m, U
  <2>4. b \in [1..m -> U]
    BY <2>2, <2>3
  <2>5. b \in Seq(U) /\ DOMAIN b = 1..m
    BY <2>1, <2>4, SeqDef
  <2>6. Len(b) = m
    BY <2>1, <2>5, LenProperties
  <2>7. \A i \in 1..m : b[i] = Byte(Len(peer) + 1, i, "sent")
    BY <2>2
  <2> QED BY <2>5, <2>6, <2>7 DEF Byte
<1>5. wire \in Seq(U) /\ \A i \in 1..Len(wire) : wire[i].f \in 1..Len(peer)
  <2>1. wire \in Seq(Known) /\ \A c \in Known : c.f \in 1..Len(peer)
    BY <1>2, OrderTypes
  <2>2. Known \subseteq U
    BY <1>3 DEF Known, BytesOf, Sent1
  <2> HIDE DEF U
  <2> QED BY <2>1, <2>2, SeqMonotonic, ElementOfSeq
<1>6. \A i \in 1..Len(pbufi) : pbufi[i].f \in 1..Len(peer)
  <2>1. pbufi \in Seq(Known) /\ \A c \in Known : c.f \in 1..Len(peer)
    BY <1>2, OrderTypes
  <2> QED BY <2>1, ElementOfSeq
<1> HIDE DEF b, U
<1>7. ASSUME Alive' PROVE InSequence' /\ Unread' /\ Answered'
  <2>1. InSequence /\ Unread /\ Answered
    BY <1>1, <1>7 DEF OInv, Alive
  <2>2. Sorted(b)
    BY <1>4 DEF Sorted
  <2>3. Before(wire, b) /\ Before(pbufi, b)
    BY <1>3, <1>4, <1>5, <1>6 DEF Before
  <2>4. wire' = wire \o b
    BY <1>1 DEF b
  <2>5. Sorted(wire')
    BY <1>4, <1>5, <2>1, <2>2, <2>3, <2>4, SortedJoin DEF InSequence
  <2>6. Before(pbufi, wire')
    <3> SUFFICES ASSUME NEW i \in 1..Len(pbufi), NEW j \in 1..Len(wire \o b), pbufi[i].k = 1, (wire \o b)[j].k = 1
                 PROVE  pbufi[i].f < (wire \o b)[j].f
      BY <2>4 DEF Before
    <3>1. \/ \E l \in 1..Len(wire) : (wire \o b)[j] = wire[l]
          \/ \E l \in 1..Len(b) : (wire \o b)[j] = b[l]
      BY <1>4, <1>5, JoinElements
    <3> QED BY <2>1, <2>3, <3>1 DEF InSequence, Before
  <2>7. InSequence'
    BY <1>1, <2>1, <2>5, <2>6 DEF InSequence, Sorted
  <2>8. \A i \in 1..Len(b) : Fresh(b[i])
    <3>1. Len(peer) + 1 > last.re /\ (heads # <<>> => Len(peer) + 1 > heads[Len(heads)])
      BY <1>2, <2>1, OrderTypes DEF Answered
    <3> QED BY <1>4, <3>1 DEF Fresh
  <2>9. \A j \in 1..Len(wire \o b) : Fresh((wire \o b)[j])
    <3> SUFFICES ASSUME NEW j \in 1..Len(wire \o b) PROVE Fresh((wire \o b)[j])
      OBVIOUS
    <3>1. \/ \E l \in 1..Len(wire) : (wire \o b)[j] = wire[l]
          \/ \E l \in 1..Len(b) : (wire \o b)[j] = b[l]
      BY <1>4, <1>5, JoinElements
    <3> QED BY <2>1, <2>8, <3>1 DEF Unread
  <2>10. Unread'
    BY <1>1, <2>1, <2>4, <2>9 DEF Unread, Fresh
  <2>11. Answered'
    <3>1. last.re <= Len(peer) + 1 /\ (heads # <<>> => heads[Len(heads)] <= Len(peer) + 1)
      BY <1>2, <2>1, OrderTypes DEF Answered
    <3> QED BY <1>1, <1>3, <2>1, <3>1 DEF Answered, InFrame
  <2> QED BY <2>7, <2>10, <2>11
<1> QED BY <1>1, <1>7 DEF OInv, OrderStep

(* Bytes arrive.                                                           *)
LEMMA OrderArrive ==
  ASSUME OInv, IInv', NEW n \in 1..Len(wire), Recv(n)
  PROVE  OInv' /\ OrderStep
<1>1. /\ UNCHANGED <<peer, ws, scb, last, heads>> /\ at = "idle"
      /\ wire' = After(wire, n) /\ pbufi' = After(pbufi, cntri) \o SubSeq(wire, 1, n)
  BY DEF Recv, output, history
<1>2. /\ IInv /\ wire \in Seq(Known) /\ pbufi \in Seq(Known) /\ cntri \in Nat /\ n \in Nat
      /\ n \in 0..Len(wire)
  <2>1. IInv
    BY DEF OInv
  <2>2. wire \in Seq(Known) /\ pbufi \in Seq(Known) /\ cntri \in Nat
    BY <2>1, OrderTypes
  <2> QED BY <2>1, <2>2
<1> DEFINE a == After(pbufi, cntri)
           b == SubSeq(wire, 1, n)
           w == After(wire, n)
<1>3. /\ a \in Seq(Known) /\ Run(a, pbufi, cntri)
      /\ b \in Seq(Known) /\ Run(b, wire, 0)
      /\ w \in Seq(Known) /\ Run(w, wire, n) /\ Len(b) = n
  <2>1. a \in Seq(Known) /\ Run(a, pbufi, cntri)
    BY <1>2, RunAfter
  <2>2. b \in Seq(Known) /\ Run(b, wire, 0) /\ Len(b) = n
    BY <1>2, RunFirst, SplitAt
  <2>3. w \in Seq(Known) /\ Run(w, wire, n)
    BY <1>2, RunAfter
  <2> QED BY <2>1, <2>2, <2>3
<1> HIDE DEF a, b, w
<1>4. ASSUME Alive' PROVE InSequence' /\ Unread' /\ Answered'
  <2>1. InSequence /\ Unread /\ Answered
    BY <1>1, <1>4 DEF OInv, Alive
  <2>2. Sorted(a) /\ Sorted(b) /\ Sorted(w)
    BY <1>2, <1>3, <2>1, RunSorted DEF InSequence
  <2>3. Before(a, b) /\ Before(a, w)
    BY <1>3, <2>1, RunBefore DEF InSequence
  <2>4. Before(b, w)
    <3> SUFFICES ASSUME NEW i \in 1..Len(b), NEW j \in 1..Len(w), b[i].k = 1, w[j].k = 1
                 PROVE  b[i].f < w[j].f
      BY DEF Before
    <3>1. /\ 0 + i \in 1..Len(wire) /\ b[i] = wire[0 + i] /\ n + j \in 1..Len(wire) /\ w[j] = wire[n + j]
          /\ 0 + i < n + j
      BY <1>2, <1>3 DEF Run
    <3> QED BY <2>1, <3>1 DEF InSequence, Sorted
  <2>5. Sorted(a \o b) /\ Before(a \o b, w)
    BY <1>3, <2>2, <2>3, <2>4, SortedJoin, BeforeJoin
  <2>6. pbufi' = a \o b /\ wire' = w
    BY <1>1 DEF a, b, w
  <2>7. InSequence'
    BY <2>2, <2>5, <2>6 DEF InSequence
  <2>8. \A i \in 1..Len(a) : Fresh(a[i])
    BY <1>1, <1>3, <2>1 DEF Run, Unread
  <2>9. (\A i \in 1..Len(b) : Fresh(b[i])) /\ (\A i \in 1..Len(w) : Fresh(w[i]))
    BY <1>3, <2>1 DEF Run, Unread
  <2>10. \A j \in 1..Len(a \o b) : Fresh((a \o b)[j])
    <3> SUFFICES ASSUME NEW j \in 1..Len(a \o b) PROVE Fresh((a \o b)[j])
      OBVIOUS
    <3>1. a \in Seq(Known) /\ b \in Seq(Known)
      BY <1>3
    <3>2. \/ \E l \in 1..Len(a) : (a \o b)[j] = a[l]
          \/ \E l \in 1..Len(b) : (a \o b)[j] = b[l]
      BY <3>1, JoinElements
    <3> QED BY <2>8, <2>9, <3>2
  <2>11. Unread'
    BY <1>1, <2>6, <2>9, <2>10 DEF Unread, Fresh
  <2>12. Answered'
    BY <1>1, <2>1 DEF Answered, InFrame
  <2> QED BY <2>7, <2>11, <2>12
<1> QED BY <1>1, <1>4 DEF OInv, OrderStep

(* A connection that is given up drops what arrives; an acknowledgement    *)
(* and the turns that only move on leave the order as it is.               *)
LEMMA OrderOther ==
  ASSUME OInv, IInv', RecvNull \/ Ack \/ Enter \/ EnterEmpty \/ Drained \/ HeadShort
  PROVE  OInv' /\ OrderStep
<1>1. CASE RecvNull
  <2>1. UNCHANGED <<peer, pbufi, ws, scb, last, at, heads>> /\ wire' = <<>>
    BY <1>1 DEF RecvNull, buffer, output, history
  <2>2. Len(wire') = 0
    BY <2>1
  <2>3. ASSUME Alive' PROVE InSequence' /\ Unread' /\ Answered'
    <3>1. InSequence /\ Unread /\ Answered
      BY <2>1, <2>3 DEF OInv, Alive
    <3> QED BY <2>1, <2>2, <3>1 DEF InSequence, Unread, Answered, Sorted, Before, Fresh, InFrame
  <2> QED BY <2>1, <2>3 DEF OInv, OrderStep
<1>2. CASE Ack
  <2>1. PICK n \in 1..(SndBuf - sndbuf) : Sent(n)
    BY <1>2 DEF Ack
  <2> QED BY <2>1, OrderKept DEF Sent, input, buffer, history, Alive
<1>3. CASE Enter \/ EnterEmpty \/ Drained \/ HeadShort
  <2>1. UNCHANGED <<peer, wire, pbufi, ws, scb, last, heads>> /\ at # "trim"
    BY <1>3 DEF Enter, EnterEmpty, Drained, HeadShort, input, buffer, output, history
  <2> QED BY <2>1, OrderKept DEF Alive
<1> QED BY <1>1, <1>2, <1>3

(* What is processed is dropped from the front of the buffer.              *)
LEMMA OrderDropped ==
  ASSUME OInv, IInv', UNCHANGED <<peer, wire, ws, last, heads>>, Alive' => Alive,
         NEW n \in Nat, pbufi' = After(pbufi, n), at # "trim" \/ n > 0
  PROVE  OInv' /\ OrderStep
<1>1. IInv /\ pbufi \in Seq(Known)
  BY OrderTypes DEF OInv
<1>2. Run(pbufi', pbufi, n)
  BY <1>1, RunAfter
<1>3. ASSUME Alive' PROVE InSequence' /\ Unread' /\ Answered'
  <2>1. InSequence /\ Unread /\ Answered
    BY <1>3 DEF OInv
  <2>2. Sorted(pbufi')
    BY <1>2, <2>1, RunSorted DEF InSequence
  <2>3. Run(wire, wire, 0)
    <3>1. \A i \in 1..Len(wire) : 0 + i = i
      OBVIOUS
    <3> QED BY <3>1 DEF Run
  <2>4. Before(pbufi', wire)
    BY <1>2, <2>1, <2>3, RunBefore DEF InSequence
  <2>5. InSequence'
    BY <2>1, <2>2, <2>4 DEF InSequence, Sorted, Before
  <2>6. \A i \in 1..Len(pbufi') : Fresh(pbufi'[i])
    <3> SUFFICES ASSUME NEW i \in 1..Len(pbufi') PROVE Fresh(pbufi'[i])
      OBVIOUS
    <3>1. n + i \in 1..Len(pbufi) /\ pbufi'[i] = pbufi[n + i]
      BY <1>2 DEF Run
    <3>2. n > 0 => n + i # 1
      OBVIOUS
    <3> QED BY <2>1, <3>1, <3>2 DEF Unread
  <2>7. Unread'
    BY <2>1, <2>6 DEF Unread, Fresh
  <2>8. Answered'
    BY <2>1 DEF Answered, InFrame
  <2> QED BY <2>5, <2>7, <2>8
<1> QED BY <1>3 DEF OInv, OrderStep

(* The buffer is freed.                                                    *)
LEMMA OrderFreed ==
  ASSUME OInv, IInv', UNCHANGED <<peer, wire, ws, last, heads>>, Alive' => Alive, pbufi' = <<>>
  PROVE  OInv' /\ OrderStep
<1>1. Len(pbufi') = 0
  OBVIOUS
<1>2. ASSUME Alive' PROVE InSequence' /\ Unread' /\ Answered'
  <2>1. InSequence /\ Unread /\ Answered
    BY <1>2 DEF OInv
  <2> QED BY <1>1, <2>1 DEF InSequence, Unread, Answered, Sorted, Before, Fresh, InFrame
<1> QED BY <1>2 DEF OInv, OrderStep

LEMMA OrderTrim ==
  ASSUME OInv, IInv', Trim \/ Return
  PROVE  OInv' /\ OrderStep
<1>1. IInv /\ cntri \in Nat
  BY OrderTypes DEF OInv
<1>2. CASE Trim
  <2>1. UNCHANGED <<peer, wire, ws, last, heads, scb>>
    BY <1>2 DEF Trim, input, output, history
  <2>2. CASE cntri \in 1..(Len(pbufi) - 1)
    <3>1. pbufi' = After(pbufi, cntri) /\ cntri > 0
      BY <1>1, <1>2, <2>2 DEF Trim
    <3> QED BY <1>1, <2>1, <3>1, OrderDropped DEF Alive
  <2>3. CASE cntri \notin 1..(Len(pbufi) - 1)
    <3>1. pbufi' = <<>>
      BY <1>2, <2>3 DEF Trim
    <3> QED BY <2>1, <3>1, OrderFreed DEF Alive
  <2> QED BY <2>2, <2>3
<1>3. CASE Return
  <2>1. /\ UNCHANGED <<peer, wire, ws, last, heads>> /\ at = "return" /\ (Alive' => Alive)
        /\ IF by = "recv" THEN pbufi' = After(pbufi, cntri) ELSE UNCHANGED pbufi
    BY <1>3 DEF Return, input, output, history, buffer, Alive
  <2>2. CASE by = "recv"
    BY <1>1, <2>1, <2>2, OrderDropped
  <2>3. CASE by # "recv"
    BY <2>1, <2>3, OrderKept
  <2> QED BY <2>2, <2>3
<1> QED BY <1>2, <1>3

(* Steps that end the connection, with a close or without.                 *)
LEMMA OrderEnding ==
  ASSUME OInv, IInv', EnterClosing \/ EnterFull \/ TrimNoMemory \/ TextNoRoom \/ CloseFrame \/ NoStatus
  PROVE  OInv' /\ OrderStep
<1>1. "flg" \in DOMAIN ws /\ "flg" \in DOMAIN ws_taken
  <2>1. ws \in WsType
    BY TypesNow DEF OInv
  <2> QED BY <2>1 DEF ws_taken, WsType
<1>2. \/ \E w \in {ws, ws_taken} : \E s : websock_tx_close_err(w, s)
      \/ "DISCONNECT" \in scb' /\ last' = last
  BY DEF EnterClosing, EnterFull, TrimNoMemory, TextNoRoom, CloseFrame, NoStatus, output
<1>3. ~Alive' /\ (last' = last \/ last'.re = 0)
  <2>1. CASE \E w \in {ws, ws_taken} : \E s : websock_tx_close_err(w, s)
    BY <1>1, <2>1, CloseIsLast
  <2>2. CASE "DISCONNECT" \in scb' /\ last' = last
    BY <2>2 DEF Alive
  <2> QED BY <1>2, <2>1, <2>2
<1> QED BY <1>3, OrderOver

LEMMA OrderHeadBad ==
  ASSUME OInv, IInv', HeadBad
  PROVE  OInv' /\ OrderStep
<1>1. PICK f \in Read : websock_tx_close_err(WebsocketHead(f), scb)
  BY DEF HeadBad
<1>2. "flg" \in DOMAIN WebsocketHead(f)
  BY DEF WebsocketHead
<1>3. ~Alive' /\ (last' = last \/ last'.re = 0)
  BY <1>1, <1>2, CloseIsLast
<1> QED BY <1>3, OrderOver

(* A connection is not ended while the loop is at work on it.              *)
LEMMA AliveAtWork ==
  ASSUME OInv, at \in {"loop", "trim"}
  PROVE  Alive /\ InSequence /\ Unread /\ Answered
BY DEF OInv, IInv, EndInv, Alive

LEMMA OrderHeadGood ==
  ASSUME OInv, IInv', HeadGood
  PROVE  OInv' /\ OrderStep
<1> DEFINE g == IF AtHead /\ pbufi[1].x = "sent" THEN pbufi[1].f ELSE 0
<1>1. /\ UNCHANGED <<peer, wire, pbufi, last>> /\ at = "loop" /\ at' = "trim"
      /\ InHead <= Len(pbufi) /\ heads' = Append(heads, g)
  BY DEF HeadGood, HeadRead, input, output
<1>2. /\ Len(peer) \in Nat /\ last.re \in Nat /\ Len(heads) \in Nat /\ Len(pbufi) \in Nat
      /\ wire \in Seq(Known) /\ pbufi \in Seq(Known)
      /\ \A b \in Known : b.f \in 1..Len(peer) /\ b.k \in Nat
  BY OrderTypes DEF OInv
<1>3. InSequence /\ Unread /\ Answered
  BY <1>1, AliveAtWork
<1>4. 1 \in 1..Len(pbufi)
  BY <1>1, <1>2, WebSockAssumption
<1>5. /\ \A i \in 1..Len(pbufi) : pbufi[i].f \in 1..Len(peer) /\ Fresh(pbufi[i])
      /\ \A i \in 1..Len(wire) : wire[i].f \in 1..Len(peer) /\ Fresh(wire[i])
  BY <1>1, <1>2, <1>3, ElementOfSeq DEF Unread
<1>6. g = 0 \/ (g = pbufi[1].f /\ pbufi[1].k = 1 /\ pbufi[1].x = "sent")
  BY DEF AtHead
<1>7. g \in 0..Len(peer) /\ (g # 0 => last.re < g)
  <2>1. CASE g = 0
    BY <1>2, <2>1
  <2>2. CASE g = pbufi[1].f /\ pbufi[1].k = 1 /\ pbufi[1].x = "sent"
    <3>1. pbufi[1].f \in 1..Len(peer) /\ pbufi[1].f > last.re
      BY <1>4, <1>5, <2>2 DEF Fresh
    <3> QED BY <1>2, <2>2, <3>1
  <2> QED BY <1>6, <2>1, <2>2
<1>8. \A i \in 2..Len(pbufi) : pbufi[i].k = 1 => pbufi[i].f > g
  <2> SUFFICES ASSUME NEW i \in 2..Len(pbufi), pbufi[i].k = 1 PROVE pbufi[i].f > g
    OBVIOUS
  <2>1. i \in 1..Len(pbufi) /\ 1 < i
    BY <1>2
  <2>2. CASE g = 0
    BY <1>2, <1>5, <2>1, <2>2
  <2>3. CASE g = pbufi[1].f /\ pbufi[1].k = 1
    <3>1. pbufi[1].f < pbufi[i].f
      BY <1>3, <1>4, <2>1, <2>3 DEF InSequence, Sorted
    <3>2. pbufi[1].f \in Nat /\ pbufi[i].f \in Nat
      BY <1>2, <1>4, <1>5, <2>1
    <3> QED BY <2>3, <3>1, <3>2
  <2> QED BY <1>6, <2>2, <2>3
<1>9. \A i \in 1..Len(wire) : wire[i].k = 1 => wire[i].f > g
  <2> SUFFICES ASSUME NEW i \in 1..Len(wire), wire[i].k = 1 PROVE wire[i].f > g
    OBVIOUS
  <2>1. CASE g = 0
    BY <1>2, <1>5, <2>1
  <2>2. CASE g = pbufi[1].f /\ pbufi[1].k = 1
    <3>1. pbufi[1].f < wire[i].f
      BY <1>3, <1>4, <2>2 DEF InSequence, Before
    <3>2. pbufi[1].f \in Nat /\ wire[i].f \in Nat
      BY <1>2, <1>4, <1>5
    <3> QED BY <2>2, <3>1, <3>2
  <2> QED BY <1>6, <2>1, <2>2
<1> HIDE DEF g
<1>10. heads' # <<>> /\ heads'[Len(heads')] = g
  <2>1. heads \in Seq(0..MaxFrames) /\ g \in 0..Len(peer) /\ Len(peer) <= MaxFrames
    BY <1>7, Types, WebSockAssumption DEF OInv, IInv, TypeOK
  <2>2. g \in 0..MaxFrames
    BY <1>2, <2>1, WebSockAssumption
  <2>3. Len(heads') = Len(heads) + 1 /\ heads'[Len(heads) + 1] = g
    BY <1>1, <2>1, <2>2, AppendProperties
  <2>4. heads' # <<>>
    BY <1>2, <2>3
  <2> QED BY <2>3, <2>4
<1>11. InSequence'
  BY <1>1, <1>3 DEF InSequence, Sorted, Before
<1>12. Unread'
  <2>1. \A i \in 2..Len(pbufi) : i \in 1..Len(pbufi)
    BY <1>2
  <2>2. \A i \in 1..Len(pbufi) : i = 1 \/ i \in 2..Len(pbufi)
    BY <1>2
  <2> QED BY <1>1, <1>5, <1>8, <1>9, <1>10, <2>1, <2>2 DEF Unread, Fresh
<1>13. Answered'
  <2>1. last.re <= Len(peer) /\ g <= Len(peer) /\ (g # 0 => last.re <= g) /\ (last.re # 0 => last.re # g)
    BY <1>2, <1>3, <1>7 DEF Answered
  <2> QED BY <1>1, <1>10, <2>1 DEF Answered
<1> QED BY <1>1, <1>11, <1>12, <1>13 DEF OInv, OrderStep

(* A block of the frame in progress is handled, and perhaps answered.      *)
LEMMA OrderBlock ==
  ASSUME OInv, IInv', at = "loop", InFrame, UNCHANGED <<peer, wire, heads>>,
         Len(pbufi') = Len(pbufi),
         \A i \in 1..Len(pbufi) :
           /\ pbufi'[i].f = pbufi[i].f /\ pbufi'[i].k = pbufi[i].k
           /\ pbufi'[i].k = 1 /\ pbufi'[i].x = "sent" => pbufi[i].x = "sent",
         \/ last' = last
         \/ last'.re = heads[Len(heads)] /\ (Alive' /\ last'.fin => ~InFrame')
  PROVE  OInv' /\ OrderStep
<1> DEFINE g == heads[Len(heads)]
<1>1. InSequence /\ Unread /\ Answered
  BY AliveAtWork
<1>2. heads # <<>> /\ ~Ended /\ g \in Nat /\ last.re \in Nat /\ last \in SentType /\ Len(peer) \in Nat
  BY InProgress, OrderTypes DEF OInv
<1>3. InSequence'
  BY <1>1 DEF InSequence, Sorted, Before
<1>4. last'.re = last.re \/ last'.re = g
  OBVIOUS
<1>5. Unread'
  <2>1. ASSUME NEW b, Fresh(b), b.k = 1, b.x = "sent" PROVE b.f > last'.re /\ b.f > g
    BY <1>2, <1>4, <2>1 DEF Fresh
  <2> QED BY <1>1, <2>1 DEF Unread, Fresh
<1>6. ASSUME Alive' PROVE Answered'
  <2>1. last.re <= Len(peer) /\ g <= Len(peer) /\ (g # 0 => last.re <= g)
    BY <1>1, <1>2 DEF Answered
  <2>2. last'.re <= Len(peer) /\ (g # 0 => last'.re <= g)
    BY <1>2, <1>4, <2>1
  <2>3. ~(last.re # 0 /\ last.re = g /\ last.fin /\ last.load = "whole")
    BY <1>1, <1>2 DEF Answered
  <2>4. (last'.re # 0 /\ last'.re = g /\ last'.fin /\ last'.load = "whole") => ~InFrame'
    <3>1. CASE last' = last
      BY <2>3, <3>1
    <3>2. CASE last'.re = g /\ (last'.fin => ~InFrame')
      BY <3>2
    <3> QED BY <1>6, <3>1, <3>2
  <2> QED BY <2>1, <2>2, <2>4 DEF Answered
<1>7. OrderStep
  <2>1. last.re <= g \/ g = 0
    BY <1>1, <1>2 DEF Answered
  <2>2. last.load = "whole"
    BY <1>2 DEF Ended, SentType
  <2>3. last.fin /\ last.re = g => g = 0
    BY <1>1, <1>2, <2>2 DEF Answered
  <2> QED BY <1>2, <2>1, <2>3 DEF OrderStep
<1> QED BY <1>3, <1>5, <1>6, <1>7 DEF OInv

(* A frame goes out for the frame in progress, or fails.                   *)
LEMMA OrderSent ==
  ASSUME NEW op, op # "close", NEW fin, NEW n, NEW w, NEW s,
         NEW r \in WebsocketTxFrame(Frame(op, fin), n), websock_tx_frame(Frame(op, fin), r, w, s)
  PROVE  /\ last' = last \/ (last'.re = heads[Len(heads)] /\ last'.fin = fin)
         /\ r.err \in {"OK", "ERR"}
         /\ r.err = "OK" => ws' = w
         /\ r.err = "ERR" => ~Alive'
<1> DEFINE fr == Frame(op, fin)
<1>1. /\ fr.op # "close" /\ fr.re = heads[Len(heads)] /\ fr.fin = fin
      /\ Cut(fr).re = heads[Len(heads)] /\ Cut(fr).fin = fin
  BY DEF Frame, FrameOf, Cut
<1> HIDE DEF fr
<1>2. r \in WebsocketTxFrame(fr, n) /\ websock_tx_frame(fr, r, w, s)
  BY DEF fr
<1>3. r.last \in {last, fr, Cut(fr)} /\ r.err \in {"OK", "ERR"}
  BY <1>2 DEF WebsocketTxFrame
<1>4. last' \in {last, fr, Cut(fr)}
  BY <1>2, <1>3 DEF websock_tx_frame
<1>5. (r.err = "OK" => ws' = w) /\ (r.err = "ERR" => ~Alive')
  BY <1>1, <1>2, <1>3 DEF websock_tx_frame, Alive
<1> QED BY <1>1, <1>3, <1>4, <1>5

(* Masking, and the end of a text, turn no byte into a head.               *)
LEMMA OrderMask ==
  ASSUME IInv, pbufi' = WebsocketMask(Block) \/ pbufi' = EndText
  PROVE  /\ Len(pbufi') = Len(pbufi)
         /\ \A i \in 1..Len(pbufi) :
              /\ pbufi'[i].f = pbufi[i].f /\ pbufi'[i].k = pbufi[i].k
              /\ pbufi'[i].k = 1 /\ pbufi'[i].x = "sent" => pbufi[i].x = "sent"
<1> DEFINE m == WebsocketMask(Block)
<1>1. Block \in Nat /\ Len(pbufi) \in Nat
  BY BlockType, TypesNow
<1>2. \A i \in 1..Len(pbufi) : pbufi[i] \in [f : Sent1, k : Nat, x : Sort]
  BY TypesNow, ElementOfSeq DEF Known, BytesOf
<1>3. Len(m) = Len(pbufi) /\ \A i \in 1..Len(pbufi) :
         /\ m[i].f = pbufi[i].f /\ m[i].k = pbufi[i].k
         /\ m[i] = pbufi[i] \/ m[i] = Masked(pbufi[i], ws.mask, ws.cur_len + i - 1)
  <2>1. \A i \in 1..Len(pbufi) : i \in Nat /\ (i <= Block \/ i > Block)
    BY <1>1
  <2> QED BY <1>1, <2>1, MaskPlaces
<1>4. \A i \in 1..Len(pbufi) : m[i].k = 1 /\ m[i].x = "sent" => pbufi[i].x = "sent"
  <2> SUFFICES ASSUME NEW i \in 1..Len(pbufi), m[i].k = 1, m[i].x = "sent" PROVE pbufi[i].x = "sent"
    OBVIOUS
  <2> DEFINE b == pbufi[i]
             x == ws.cur_len + i - 1
  <2>1. b \in [f : Sent1, k : Nat, x : Sort] /\ b.k = 1
    BY <1>2, <1>3
  <2>2. m[i] = b \/ m[i] = Masked(b, ws.mask, x)
    BY <1>3
  <2> HIDE DEF b, x, m
  <2>3. ~(1 > InHead)
    BY WebSockAssumption
  <2>4. Masked(b, ws.mask, x).x = "wrong"
    BY <2>1, <2>3 DEF Masked
  <2>5. m[i].x # "wrong"
    <3>1. m[i].x = "sent"
      BY DEF m
    <3> QED BY <3>1
  <2>6. m[i] = b
    BY <2>2, <2>4, <2>5
  <2>7. b.x = "sent"
    <3>1. m[i].x = "sent"
      BY DEF m
    <3> QED BY <2>6, <3>1
  <2> QED BY <2>7 DEF b
<1> HIDE DEF m
<1>5. CASE pbufi' = m
  BY <1>3, <1>4, <1>5
<1>6. CASE pbufi' = EndText
  <2>1. Len(pbufi') = Len(pbufi)
    BY <1>1, <1>6, EndTextType, LenProperties DEF EndText
  <2>2. \A i \in 1..Len(pbufi) :
          pbufi'[i] = IF i = Block + 1 THEN [pbufi[i] EXCEPT !.x = "zero"] ELSE m[i]
    BY <1>6 DEF EndText, m
  <2>3. \A i \in 1..Len(pbufi) : pbufi'[i].f = pbufi[i].f /\ pbufi'[i].k = pbufi[i].k
    BY <1>2, <1>3, <2>2
  <2>4. \A i \in 1..Len(pbufi) : pbufi'[i].k = 1 /\ pbufi'[i].x = "sent" => pbufi[i].x = "sent"
    <3> SUFFICES ASSUME NEW i \in 1..Len(pbufi), pbufi'[i].k = 1, pbufi'[i].x = "sent"
                 PROVE  pbufi[i].x = "sent"
      OBVIOUS
    <3>1. CASE i = Block + 1
      <4>1. pbufi'[i].x = "zero"
        BY <1>2, <2>2, <3>1
      <4> QED BY <4>1
    <3>2. CASE i # Block + 1
      BY <1>4, <2>2, <3>2
    <3> QED BY <3>1, <3>2
  <2> QED BY <2>1, <2>3, <2>4
<1> QED BY <1>5, <1>6 DEF m

(* With its last block a frame is over.                                    *)
LEMMA OverWithBlock ==
  ASSUME IInv, ws' = ws_done, Complete
  PROVE  ~InFrame'
<1>1. ws \in WsType /\ ws.frame_len = ws.cur_len + Block /\ ws.frame_len \in Nat
  BY TypesNow DEF Complete, WsType
<1>2. ws'.cur_len = ws.cur_len + Block /\ ws'.frame_len = ws.frame_len /\ "FIN" \notin ws'.flg
  BY <1>1 DEF ws_done, WsType
<1> QED BY <1>1, <1>2 DEF InFrame

LEMMA OrderEcho ==
  ASSUME OInv, IInv', Binary \/ Ping
  PROVE  OInv' /\ OrderStep
<1>0. IInv
  BY DEF OInv
<1>1. /\ at = "loop" /\ InFrame /\ UNCHANGED <<peer, wire, heads>>
      /\ \E op \in {"binary", "pong"} : \E r \in WebsocketTxFrame(EchoFrame(op), Block) :
           websock_tx_frame(EchoFrame(op), r, ws_after(r), scb) /\ ConsumeAfter(r)
  BY DEF Binary, Ping, Processing, input
<1>2. PICK op \in {"binary", "pong"} : \E r \in WebsocketTxFrame(EchoFrame(op), Block) :
        websock_tx_frame(EchoFrame(op), r, ws_after(r), scb) /\ ConsumeAfter(r)
  BY <1>1
<1>3. PICK r \in WebsocketTxFrame(EchoFrame(op), Block) :
        websock_tx_frame(EchoFrame(op), r, ws_after(r), scb) /\ ConsumeAfter(r)
  BY <1>2
<1> DEFINE o == IF ws.cur_len # 0 THEN "continue" ELSE op
<1>4. o # "close" /\ EchoFrame(op) = Frame(o, Complete)
  BY DEF EchoFrame
<1> HIDE DEF o
<1>5. /\ last' = last \/ (last'.re = heads[Len(heads)] /\ last'.fin = Complete)
      /\ r.err \in {"OK", "ERR"} /\ (r.err = "OK" => ws' = ws_after(r)) /\ (r.err = "ERR" => ~Alive')
  BY <1>3, <1>4, OrderSent
<1>6. pbufi' = WebsocketMask(Block)
  BY <1>3 DEF ConsumeAfter
<1>7. Alive' /\ Complete => ~InFrame'
  BY <1>0, <1>5, OverWithBlock DEF ws_after
<1> QED BY <1>0, <1>1, <1>5, <1>6, <1>7, OrderMask, OrderBlock

LEMMA OrderDrop ==
  ASSUME OInv, IInv', BinaryEmpty \/ Pong \/ TextPart
  PROVE  OInv' /\ OrderStep
<1>1. /\ at = "loop" /\ InFrame /\ UNCHANGED <<peer, wire, heads, last>>
      /\ pbufi' = WebsocketMask(Block)
  BY DEF BinaryEmpty, Pong, TextPart, Processing, Consume, input, output, history
<1> QED BY <1>1, OrderMask, OrderBlock DEF OInv

LEMMA OrderTextPing ==
  ASSUME OInv, IInv', TextPing
  PROVE  OInv' /\ OrderStep
<1>1. /\ at = "loop" /\ InFrame /\ UNCHANGED <<peer, wire, heads>> /\ Complete /\ IInv
  BY DEF TextPing, Processing, input, Whole, OInv
<1>2. PICK r \in WebsocketTxFrame(Frame("text", TRUE), Block) :
        websock_tx_frame(Frame("text", TRUE), r, ws_after(r), scb) /\ ConsumeAfter(r)
  BY DEF TextPing
<1>3. /\ last' = last \/ (last'.re = heads[Len(heads)] /\ last'.fin = TRUE)
      /\ r.err \in {"OK", "ERR"} /\ (r.err = "OK" => ws' = ws_after(r)) /\ (r.err = "ERR" => ~Alive')
  <2> DEFINE b == TRUE
             v == ws_after(r)
  <2>1. r \in WebsocketTxFrame(Frame("text", b), Block) /\ websock_tx_frame(Frame("text", b), r, v, scb)
    BY <1>2
  <2> HIDE DEF b, v
  <2>2. /\ last' = last \/ (last'.re = heads[Len(heads)] /\ last'.fin = b)
        /\ r.err \in {"OK", "ERR"} /\ (r.err = "OK" => ws' = v) /\ (r.err = "ERR" => ~Alive')
    BY <2>1, OrderSent
  <2> QED BY <2>2 DEF b, v
<1>4. pbufi' = WebsocketMask(Block)
  BY <1>2 DEF ConsumeAfter
<1>5. Alive' => ~InFrame'
  BY <1>1, <1>3, OverWithBlock DEF ws_after
<1> QED BY <1>1, <1>3, <1>4, <1>5, OrderMask, OrderBlock

LEMMA OrderText ==
  ASSUME OInv, IInv', Text
  PROVE  OInv' /\ OrderStep
<1>1. PICK more \in BOOLEAN : \E n : TextAnswer(n, more)
  BY DEF Text
<1>2. PICK n : TextAnswer(n, more)
  BY <1>1
<1>3. /\ at = "loop" /\ InFrame /\ UNCHANGED <<peer, wire, heads>> /\ Complete /\ IInv
      /\ pbufi' = WebsocketMask(Block) \/ pbufi' = EndText
  BY <1>2 DEF TextAnswer, Processing, input, Whole, OInv
<1> DEFINE w(r) == IF Stays(r, more) THEN ws_taken ELSE ws_done
           s == IF more THEN scb \cup {"RETRYCB"} ELSE scb \ {"RETRYCB"}
           o == IF Again THEN "continue" ELSE "text"
<1>4. PICK r \in SendPart(n, more) : websock_tx_frame(AnswerFrame(more), r, w(r), s)
  BY <1>2 DEF TextAnswer
<1>5. o # "close" /\ AnswerFrame(more) = Frame(o, ~more)
  BY DEF AnswerFrame
<1> HIDE DEF o, s
<1>6. CASE r = [last |-> last, sndbuf |-> sndbuf, err |-> "OK"]
  <2>1. last' = last
    BY <1>4, <1>6 DEF websock_tx_frame
  <2> QED BY <1>3, <2>1, OrderMask, OrderBlock
<1>7. CASE r \in WebsocketTxFrame(AnswerFrame(more), n)
  <2> DEFINE v == w(r)
  <2>1. r \in WebsocketTxFrame(Frame(o, ~more), n) /\ websock_tx_frame(Frame(o, ~more), r, v, s)
    BY <1>4, <1>5, <1>7
  <2> HIDE DEF v
  <2>2. /\ last' = last \/ (last'.re = heads[Len(heads)] /\ last'.fin = ~more)
        /\ r.err \in {"OK", "ERR"} /\ (r.err = "OK" => ws' = v) /\ (r.err = "ERR" => ~Alive')
    BY <1>5, <2>1, OrderSent
  <2>3. Alive' /\ ~more => ~InFrame'
    <3>1. (r.err = "OK" /\ ~more) => v = ws_done
      BY DEF v, Stays
    <3> QED BY <1>3, <2>2, <3>1, OverWithBlock
  <2> QED BY <1>3, <2>2, <2>3, OrderMask, OrderBlock
<1> QED BY <1>4, <1>6, <1>7 DEF SendPart

LEMMA OrderInit == Init => OInv
<1> SUFFICES ASSUME Init PROVE OInv
  OBVIOUS
<1>1. IInv
  BY Initially
<1>2. peer = <<>> /\ wire = <<>> /\ pbufi = <<>> /\ heads = <<>> /\ last.re = 0
  BY DEF Init, None
<1>3. Len(wire) = 0 /\ Len(pbufi) = 0 /\ Len(peer) = 0
  BY <1>2
<1>4. InSequence /\ Unread /\ Answered
  BY <1>2, <1>3 DEF InSequence, Unread, Answered, Sorted, Before
<1> QED BY <1>1, <1>4 DEF OInv

LEMMA OrderEveryStep ==
  ASSUME OInv, [Next]_vars
  PROVE  OInv' /\ OrderStep
<1>1. IInv'
  BY EveryStep DEF OInv
<1>2. CASE \E f \in Frames : PeerSend(f)
  BY <1>1, <1>2, OrderPeer
<1>3. CASE Arrive
  BY <1>1, <1>3, OrderArrive DEF Arrive
<1>4. CASE RecvNull \/ Ack
  BY <1>1, <1>4, OrderOther
<1>5. CASE Turn
  BY <1>1, <1>5, OrderOther, OrderTrim, OrderEnding, OrderHeadGood, OrderHeadBad, OrderEcho, OrderDrop,
     OrderTextPing, OrderText DEF Turn
<1>6. CASE UNCHANGED vars
  <2>1. UNCHANGED <<peer, wire, pbufi, ws, last, heads, scb, at>>
    BY <1>6 DEF vars
  <2>2. InSequence' /\ Unread' /\ Answered' <=> InSequence /\ Unread /\ Answered
    BY <2>1 DEF InSequence, Unread, Answered, Sorted, Before, Fresh, InFrame
  <2> QED BY <1>1, <2>1, <2>2 DEF OInv, OrderStep, Alive
<1> QED BY <1>2, <1>3, <1>4, <1>5, <1>6 DEF Next

(* Whatever the peer does and whatever was taken for a head: answers go    *)
(* out in the order of the frames they answer, and no part of an answer    *)
(* follows the final one, from either callback.                            *)
THEOREM OrderOfAnswers == Spec => AnswersInOrder
<1>1. Init => OInv
  BY OrderInit
<1>2. OInv /\ [Next]_vars =>
        OInv' /\ [last' # last /\ last'.re # 0 =>
                    last.re <= last'.re /\ (last.fin => last.re < last'.re)]_vars
  BY OrderEveryStep DEF OrderStep
<1> QED BY <1>1, <1>2, PTL DEF Spec, AnswersInOrder
==============================================================================
