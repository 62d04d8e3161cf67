---------------------------- MODULE TcpSrvProofs ----------------------------
(***************************************************************************)
(* Theorems about TcpSrv: the list of connections is exactly the memory in *)
(* use, its length is the counter that admits connections, lwIP calls back *)
(* for living connections only, but for a leftover poll, and the           *)
(* application hears of each end.                                          *)
(***************************************************************************)
EXTENDS TcpSrv, SeqFacts, TLAPS

ConnRec == [state : {"NONE", "CLOSEWAIT", "LISTEN", "CONNECT"}, recv_check : Nat,
            peer : Peers \cup {Null}, tries : 0 .. MaxTries, told : Nat]
PcbRec == [tcp : {"free", "est", "cw", "closing"}, arg : Conns \cup {Null},
           cb : {"all", "poll", "none"}]

(* What the list and the memory need besides: a connection in use has an   *)
(* endpoint, one that closes has failed to, only open ones are called for  *)
(* data, a pcb has an argument as long as it calls and calls nobody once   *)
(* freed, and a server that is closed has no connections.                  *)
InUse(c) == conn[c].state # "NONE"
Sound(p) ==
  /\ p.cb = "none" => p.arg = Null
  /\ p.cb # "none" => p.arg # Null /\ p.tcp # "free"
Bound ==
  /\ \A c \in Conns : InUse(c) => conn[c].peer \in Peers
  /\ \A c \in Conns : Closing(c) => conn[c].tries > 0
  /\ \A k \in Peers : pcb[k].cb = "all" => Open(pcb[k].arg)
  /\ \A k \in Peers : Sound(pcb[k])
  /\ listening \/ conn_links = << >>

IInv ==
  /\ TypeOK /\ CountExact /\ ListIsMemory /\ CallbackOwned
  /\ ToldOnce /\ OpenIsWatched /\ Bound
-----------------------------------------------------------------------------
LEMMA Allocated ==
  ASSUME IInv, NEW c \in Linked
  PROVE  c \in Conns /\ conn[c] \in ConnRec /\ InUse(c) /\ conn[c].peer \in Peers
<1>1. c \in Conns /\ InUse(c)
  BY DEF IInv, ListIsMemory, InUse
<1> QED BY <1>1 DEF IInv, TypeOK, Bound, ConnRec

(* A callback of lwIP finds the connection it was set for, unless it is    *)
(* the poll left over from a retried close.                                *)
LEMMA Called ==
  ASSUME IInv, NEW k \in Peers, pcb[k].cb # "none", ~LeftOver(k)
  PROVE  /\ pcb[k].arg \in Linked /\ conn[pcb[k].arg].peer = k
         /\ pcb[k] \in PcbRec /\ pcb[k].tcp # "free"
<1>1. pcb[k] \in PcbRec
  BY DEF IInv, TypeOK, PcbRec
<1> QED BY <1>1 DEF IInv, CallbackOwned, Owned, Bound, Sound

(* A pcb that calls nobody, or has such a poll only.                       *)
Quiet(p) == Sound(p) /\ (p.cb # "none" => p.cb = "poll" /\ p.tcp = "closing")

(* tcpsrv_list_delete on a connection whose pcb, if it still has it, falls *)
(* silent.                                                                 *)
LEMMA Deleting ==
  ASSUME IInv, NEW c \in Linked, tcpsrv_list_delete(c), UNCHANGED server,
         pcb' \in [Peers -> PcbRec],
         \A k \in Peers : IF pcb[k].arg = c /\ conn[c].peer = k
                         THEN Quiet(pcb'[k]) ELSE pcb'[k] = pcb[k]
  PROVE  IInv'
<1> USE DEF server, tcpsrv_list_delete
<1>0. c \in Linked /\ c \in Conns /\ conn[c] \in ConnRec /\ InUse(c) /\ conn[c].peer \in Peers
  BY Allocated
<1>1. /\ conn \in [Conns -> ConnRec] /\ pcb \in [Peers -> PcbRec]
      /\ conn_links \in Seq(Conns) /\ IsInjective(conn_links) /\ Len(conn_links) \in Nat
  BY DEF IInv, TypeOK, ListIsMemory, ConnRec, PcbRec
<1>a. /\ conn_links' = RemoveFirst(conn_links, c) /\ conn_count' = conn_count - 1
      /\ conn' = [conn EXCEPT ![c] = Freed(conn[c])]
      /\ listening' = listening /\ srv_reopen' = srv_reopen
  OBVIOUS
<1> HIDE DEF tcpsrv_list_delete
<1>2. /\ conn_links' \in Seq(Conns) /\ Len(conn_links') = Len(conn_links) - 1
      /\ IsInjective(conn_links') /\ Linked' = Linked \ {c}
  BY <1>0, <1>1, <1>a, Unlinking DEF Linked
<1>3. Freed(conn[c]) \in ConnRec /\ Freed(conn[c]).state = "NONE" /\ Freed(conn[c]).told = 1
  BY <1>0, TcpAssumption DEF Freed, NotUsed, ConnRec, IInv, ToldOnce, InUse
<1>4. /\ conn' \in [Conns -> ConnRec] /\ conn'[c] = Freed(conn[c])
      /\ \A d \in Conns \ {c} : conn'[d] = conn[d]
  BY <1>0, <1>1, <1>3, <1>a
<1>6. pcb' \in [Peers -> PcbRec]
  OBVIOUS
<1>7. ASSUME NEW j \in Peers, pcb'[j].cb # "none", ~(LeftOver(j)')
      PROVE  /\ pcb'[j] = pcb[j] /\ pcb[j].arg \in Linked \ {c}
             /\ conn[pcb[j].arg].peer = j /\ conn'[pcb[j].arg] = conn[pcb[j].arg]
  <2>1. pcb'[j] = pcb[j] /\ ~(pcb[j].arg = c /\ conn[c].peer = j)
    BY <1>7 DEF Quiet, LeftOver
  <2>2. pcb[j].arg \in Linked /\ conn[pcb[j].arg].peer = j
    BY <1>7, <2>1, Called DEF LeftOver
  <2>3. pcb[j].arg # c
    BY <2>1, <2>2
  <2> QED BY <1>4, <2>1, <2>2, <2>3, Allocated
<1>8. TypeOK'
  BY SMTT(30), <1>1, <1>2, <1>4, <1>6, <1>a DEF IInv, TypeOK, CountExact, ConnRec, PcbRec
<1>9. CountExact'
  BY <1>1, <1>2, <1>a, TcpAssumption DEF IInv, CountExact
<1>10. ListIsMemory'
  BY <1>2, <1>3, <1>4 DEF IInv, ListIsMemory
<1>11. CallbackOwned'
  BY <1>2, <1>7 DEF CallbackOwned, Owned
<1>12. ToldOnce'
  BY <1>3, <1>4 DEF IInv, ToldOnce
<1>13. OpenIsWatched'
  <2> SUFFICES ASSUME NEW d \in Conns, Open(d)', ~srv_reopen
               PROVE  pcb'[conn'[d].peer].cb = "all" /\ pcb'[conn'[d].peer].arg = d
    BY <1>a DEF OpenIsWatched
  <2>1. d # c /\ Open(d) /\ conn'[d] = conn[d]
    BY <1>3, <1>4 DEF Open
  <2>2. pcb[conn[d].peer].cb = "all" /\ pcb[conn[d].peer].arg = d
    BY <2>1 DEF IInv, OpenIsWatched
  <2>3. conn[d].peer \in Peers
    BY <2>1 DEF IInv, Bound, InUse, Open
  <2> QED BY <2>1, <2>2, <2>3
<1>14. Bound'
  <2>1. \A d \in Conns : InUse(d)' => conn'[d].peer \in Peers
    BY <1>3, <1>4 DEF IInv, Bound, InUse
  <2>2. \A d \in Conns : Closing(d)' => conn'[d].tries > 0
    BY <1>3, <1>4 DEF IInv, Bound, Closing
  <2>3. ASSUME NEW j \in Peers, pcb'[j].cb = "all" PROVE Open(pcb[j].arg)' /\ pcb'[j] = pcb[j]
    <3>1. pcb'[j] = pcb[j] /\ conn'[pcb[j].arg] = conn[pcb[j].arg]
      BY <1>7, <2>3 DEF LeftOver
    <3>2. Open(pcb[j].arg)
      BY <2>3, <3>1 DEF IInv, Bound
    <3> QED BY <2>3, <3>1, <3>2, <1>6, <1>4 DEF Open
  <2>4. \A j \in Peers : Sound(pcb'[j])
    BY DEF IInv, Bound, Quiet
  <2>5. listening' \/ conn_links' = << >>
    <3>1. conn_links # << >>
      BY <1>0 DEF Linked, ToSet
    <3> QED BY <3>1, <1>a DEF IInv, Bound
  <2>6. \A j \in Peers : pcb'[j].cb = "all" => Open(pcb[j].arg)' /\ pcb'[j] = pcb[j]
    BY <2>3
  <2> QED BY <2>1, <2>2, <2>4, <2>5, <2>6 DEF Bound, Open
<1> QED BY <1>8, <1>9, <1>10, <1>11, <1>12, <1>13, <1>14 DEF IInv

(* A callback that leaves its connection in use and its pcb called.        *)
LEMMA Serving ==
  ASSUME IInv, NEW k \in Peers, Owned(k), NEW cn \in ConnRec, NEW p \in PcbRec,
         conn' = [conn EXCEPT ![pcb[k].arg] = cn], pcb' = [pcb EXCEPT ![k] = p],
         UNCHANGED <<server, conn_links, conn_count>>,
         cn.state # "NONE", cn.peer = k, cn.told = conn[pcb[k].arg].told,
         cn.state = "CLOSEWAIT" => cn.tries > 0,
         p.arg = pcb[k].arg, p.cb # "none", p.tcp # "free",
         p.cb = "all" => cn.state \in {"LISTEN", "CONNECT"},
         cn.state \in {"LISTEN", "CONNECT"} /\ ~srv_reopen => p.cb = "all"
  PROVE  IInv'
<1> DEFINE c == pcb[k].arg
<1>0. c \in Linked /\ c \in Conns /\ conn[c] \in ConnRec /\ InUse(c) /\ conn[c].peer = k
  BY Allocated DEF Owned
<1>1. /\ conn \in [Conns -> ConnRec] /\ pcb \in [Peers -> PcbRec]
      /\ conn' = [conn EXCEPT ![c] = cn] /\ p.arg = c
      /\ listening' = listening /\ srv_reopen' = srv_reopen
      /\ conn_links' = conn_links /\ conn_count' = conn_count /\ Linked' = Linked
  BY DEF IInv, TypeOK, ConnRec, PcbRec, server, Linked
<1>2. cn.told = conn[c].told
  OBVIOUS
<1>3. \A d \in Conns : Open(d) /\ ~srv_reopen => pcb[conn[d].peer].arg = d
  BY DEF IInv, OpenIsWatched
<1>b. \A j \in Peers : j # k /\ pcb[j].cb # "none" /\ ~LeftOver(j) => pcb[j].arg # c
  BY <1>0, Called
<1> HIDE DEF c
<1>4. /\ conn' \in [Conns -> ConnRec] /\ conn'[c] = cn
      /\ \A d \in Conns \ {c} : conn'[d] = conn[d]
  BY <1>0, <1>1
<1>5. /\ pcb' \in [Peers -> PcbRec] /\ pcb'[k] = p
      /\ \A j \in Peers \ {k} : pcb'[j] = pcb[j]
  BY <1>1
<1>6. TypeOK'
  BY <1>1, <1>4, <1>5 DEF IInv, TypeOK, ConnRec, PcbRec
<1>7. CountExact'
  BY <1>1 DEF IInv, CountExact
<1>8. ListIsMemory'
  BY <1>0, <1>1, <1>4 DEF IInv, ListIsMemory, InUse
<1>9. CallbackOwned'
  <2> SUFFICES ASSUME NEW j \in Peers, pcb'[j].cb # "none", ~(LeftOver(j)')
               PROVE  pcb'[j].arg \in Linked /\ conn'[pcb'[j].arg].peer = j
    BY <1>1 DEF CallbackOwned, Owned
  <2>1. CASE j = k
    BY <1>0, <1>1, <1>4, <1>5, <2>1
  <2>2. CASE j # k
    <3>1. pcb'[j] = pcb[j] /\ pcb[j].arg # c /\ pcb[j].arg \in Linked /\ conn[pcb[j].arg].peer = j
      BY <1>5, <1>b, <2>2, Called DEF LeftOver
    <3> QED BY <1>4, <3>1, Allocated
  <2> QED BY <2>1, <2>2
<1>10. ToldOnce'
  BY <1>0, <1>2, <1>4 DEF IInv, ToldOnce, InUse
<1>11. OpenIsWatched'
  <2> SUFFICES ASSUME NEW d \in Conns, Open(d)', ~srv_reopen
               PROVE  pcb'[conn'[d].peer].cb = "all" /\ pcb'[conn'[d].peer].arg = d
    BY <1>1 DEF OpenIsWatched
  <2>1. CASE d = c
    BY <1>1, <1>4, <1>5, <2>1 DEF Open
  <2>2. CASE d # c
    <3>1. Open(d) /\ conn'[d] = conn[d]
      BY <1>4, <2>2 DEF Open
    <3>2. pcb[conn[d].peer].cb = "all" /\ pcb[conn[d].peer].arg = d
      BY <3>1 DEF IInv, OpenIsWatched
    <3>3. conn[d].peer \in Peers /\ conn[d].peer # k
      BY <2>2, <3>1, <3>2 DEF IInv, Bound, InUse, Open, c
    <3> QED BY <1>5, <3>1, <3>2, <3>3
  <2> QED BY <2>1, <2>2
<1>12. Bound'
  <2>1. \A d \in Conns : InUse(d)' => conn'[d].peer \in Peers
    BY <1>4 DEF IInv, Bound, InUse
  <2>2. \A d \in Conns : Closing(d)' => conn'[d].tries > 0
    BY <1>4 DEF IInv, Bound, Closing
  <2>3. ASSUME NEW j \in Peers, pcb'[j].cb = "all" PROVE Open(pcb[j].arg)'
    <3>1. CASE j = k
      BY <1>1, <1>4, <1>5, <2>3, <3>1 DEF Open
    <3>2. CASE j # k
      <4>1. pcb'[j] = pcb[j] /\ pcb[j].arg # c /\ pcb[j].arg \in Conns /\ Open(pcb[j].arg)
        BY <1>5, <1>b, <2>3, <3>2, Called, Allocated DEF IInv, Bound, LeftOver
      <4> QED BY <1>4, <4>1 DEF Open
    <3> QED BY <3>1, <3>2
  <2>4. \A j \in Peers : Sound(pcb'[j])
    <3>1. Sound(p)
      BY <1>0, <1>1, TcpAssumption DEF Sound
    <3> QED BY <1>5, <3>1 DEF IInv, Bound
  <2>5. listening' \/ conn_links' = << >>
    BY <1>1 DEF IInv, Bound
  <2> QED BY <2>1, <2>2, <2>3, <2>4, <2>5 DEF Bound
<1> QED BY <1>6, <1>7, <1>8, <1>9, <1>10, <1>11, <1>12 DEF IInv

(* What a close that failed leaves.                                        *)
LEMMA ClosePostponed ==
  ASSUME NEW cn \in ConnRec
  PROVE  /\ Failed(CloseBegun(cn)) \in ConnRec /\ Failed(CloseBegun(cn)).state = "CLOSEWAIT"
         /\ Failed(CloseBegun(cn)).tries > 0
         /\ Failed(CloseBegun(cn)).peer = cn.peer /\ Failed(CloseBegun(cn)).told = cn.told
         /\ Failed(CloseBegun(cn)).tries >= cn.tries
<1>1. /\ CloseBegun(cn) \in ConnRec /\ CloseBegun(cn).state = "CLOSEWAIT"
      /\ CloseBegun(cn).peer = cn.peer /\ CloseBegun(cn).told = cn.told /\ CloseBegun(cn).tries = cn.tries
  BY DEF CloseBegun, ConnRec
<1>2. ASSUME NEW rn \in ConnRec
      PROVE  /\ Failed(rn) \in ConnRec /\ Failed(rn).state = rn.state /\ Failed(rn).tries > 0
             /\ Failed(rn).tries >= rn.tries
             /\ Failed(rn).peer = rn.peer /\ Failed(rn).told = rn.told
  BY TcpAssumption DEF Failed, ConnRec
<1> QED BY <1>1, <1>2

LEMMA PollKept ==
  ASSUME NEW p \in PcbRec, NEW tcp \in {"est", "cw", "closing"}
  PROVE  LET q == Retrying([p EXCEPT !.tcp = tcp])
         IN q \in PcbRec /\ q.arg = p.arg /\ q.cb = "poll" /\ q.tcp = tcp
  BY DEF Retrying, PcbRec

(* The same for a connection whose pcb is no longer its own.               *)
LEMMA Strayed ==
  ASSUME IInv, NEW c \in Linked, \A k \in Peers : ~(pcb[k].arg = c /\ conn[c].peer = k),
         conn' = [conn EXCEPT ![c] = Failed(CloseBegun(@))],
         UNCHANGED <<server, conn_links, conn_count, pcb>>
  PROVE  IInv'
<1> DEFINE cn == Failed(CloseBegun(conn[c]))
<1>0. c \in Conns /\ conn[c] \in ConnRec /\ InUse(c) /\ conn[c].peer \in Peers
  BY Allocated
<1>1. /\ conn \in [Conns -> ConnRec] /\ conn' = [conn EXCEPT ![c] = cn]
      /\ listening' = listening /\ srv_reopen' = srv_reopen /\ pcb' = pcb
      /\ conn_links' = conn_links /\ conn_count' = conn_count /\ Linked' = Linked
  BY DEF IInv, TypeOK, ConnRec, server, Linked
<1>2. /\ cn \in ConnRec /\ cn.state = "CLOSEWAIT" /\ cn.tries > 0
      /\ cn.peer = conn[c].peer /\ cn.told = conn[c].told
  BY <1>0, ClosePostponed
<1> HIDE DEF cn
<1>3. conn' \in [Conns -> ConnRec] /\ conn'[c] = cn /\ \A d \in Conns \ {c} : conn'[d] = conn[d]
  BY <1>0, <1>1, <1>2
<1>4. TypeOK' /\ CountExact'
  BY <1>1, <1>3 DEF IInv, TypeOK, CountExact, ConnRec
<1>5. ListIsMemory'
  BY <1>0, <1>1, <1>2, <1>3 DEF IInv, ListIsMemory, InUse
<1>6. \A d \in Conns : conn'[d].peer = conn[d].peer
  BY <1>2, <1>3
<1>7. CallbackOwned'
  BY <1>1, <1>6, Allocated DEF IInv, CallbackOwned, Owned, LeftOver
<1>8. ToldOnce'
  BY <1>0, <1>2, <1>3 DEF IInv, ToldOnce, InUse
<1>9. OpenIsWatched'
  BY <1>1, <1>2, <1>3, <1>6 DEF IInv, OpenIsWatched, Open
<1>10. Bound'
  <2>1. ASSUME NEW k \in Peers, pcb[k].cb = "all" PROVE Open(pcb[k].arg)'
    <3>1. pcb[k].arg \in Conns \ {c} /\ Open(pcb[k].arg)
      BY <2>1, Called, Allocated DEF LeftOver, IInv, Bound
    <3> QED BY <1>1, <1>3, <3>1 DEF Open
  <2>2. \A d \in Conns : (InUse(d)' => conn'[d].peer \in Peers) /\ (Closing(d)' => conn'[d].tries > 0)
    BY <1>0, <1>2, <1>3 DEF IInv, Bound, InUse, Closing
  <2> QED BY <1>1, <2>1, <2>2 DEF IInv, Bound, Open
<1> QED BY <1>4, <1>5, <1>7, <1>8, <1>9, <1>10 DEF IInv

(* tcpsrv_server_close, whoever calls it.                                  *)
LEMMA Closed ==
  ASSUME IInv, NEW c \in Linked, NEW tcp,
         pcb[conn[c].peer].arg = c => tcp \in {"est", "cw", "closing"},
         tcpsrv_server_close(c, tcp), UNCHANGED server
  PROVE  IInv'
<1> DEFINE k   == conn[c].peer
           own == pcb[k].arg = c
<1>0. /\ c \in Conns /\ conn[c] \in ConnRec /\ InUse(c) /\ k \in Peers
      /\ pcb \in [Peers -> PcbRec] /\ pcb[k] \in PcbRec /\ Sound(pcb[k])
  BY Allocated DEF IInv, TypeOK, PcbRec, Bound
<1>1. CASE ~own /\ UNCHANGED pcb /\ tcpsrv_list_delete(c)
  <2>1. pcb' \in [Peers -> PcbRec]
    BY <1>0, <1>1
  <2> QED BY <1>1, <2>1, Deleting
<1>2. CASE /\ ~own /\ UNCHANGED pcb
           /\ conn' = [conn EXCEPT ![c] = Failed(CloseBegun(@))]
           /\ UNCHANGED <<conn_links, conn_count>>
  BY <1>2, Strayed
<1>3. CASE /\ own /\ tcpsrv_list_delete(c)
           /\ \E left \in IF Hopeless(c) THEN {"free"} ELSE CloseResults :
                pcb' = [pcb EXCEPT ![k] = Silenced(c, @, left)]
  <2>1. PICK left \in {"free", "closing"} : pcb' = [pcb EXCEPT ![k] = Silenced(c, pcb[k], left)]
    BY <1>3 DEF CloseResults
  <2>2. Closing(c) => pcb[k].cb # "all"
    BY <1>0, <1>3 DEF IInv, Bound, Open, Closing
  <2>3. Silenced(c, pcb[k], left) \in PcbRec /\ Quiet(Silenced(c, pcb[k], left))
    <3>1. CASE Closing(c) /\ left = "closing"
      <4>1. pcb[k].cb = "poll" /\ pcb[k].arg # Null
        BY <1>0, <1>3, <2>2, <3>1, TcpAssumption DEF Sound, PcbRec
      <4> QED BY <1>0, <3>1, <4>1 DEF Silenced, Quiet, Sound, PcbRec
    <3>2. CASE ~(Closing(c) /\ left = "closing")
      BY <3>2 DEF Silenced, Quiet, Sound, Mute, PcbRec
    <3> QED BY <3>1, <3>2
  <2>4. pcb' \in [Peers -> PcbRec]
    BY <1>0, <2>1, <2>3
  <2>5. \A j \in Peers : IF pcb[j].arg = c /\ conn[c].peer = j
                        THEN Quiet(pcb'[j]) ELSE pcb'[j] = pcb[j]
    BY <1>0, <1>3, <2>1, <2>3
  <2> QED BY <1>3, <2>4, <2>5, Deleting
<1>4. CASE /\ own /\ ~Hopeless(c) /\ tcp # "closing"
           /\ conn' = [conn EXCEPT ![c] = Failed(CloseBegun(@))]
           /\ pcb' = [pcb EXCEPT ![k] = Retrying([@ EXCEPT !.tcp = tcp])]
           /\ UNCHANGED <<conn_links, conn_count>>
  <2> DEFINE cn == Failed(CloseBegun(conn[c]))
             p  == Retrying([pcb[k] EXCEPT !.tcp = tcp])
  <2>1. /\ cn \in ConnRec /\ cn.state = "CLOSEWAIT" /\ cn.tries > 0
        /\ cn.peer = k /\ cn.told = conn[pcb[k].arg].told
        /\ p \in PcbRec /\ p.arg = pcb[k].arg /\ p.cb = "poll" /\ p.tcp = tcp
    <3>1. p \in PcbRec /\ p.arg = pcb[k].arg /\ p.cb = "poll" /\ p.tcp = tcp
      BY <1>0, <1>4, PollKept
    <3> HIDE DEF p
    <3>2. /\ cn \in ConnRec /\ cn.state = "CLOSEWAIT" /\ cn.tries > 0
          /\ cn.peer = k /\ cn.told = conn[c].told
      BY <1>0, ClosePostponed
    <3> QED BY <1>4, <3>1, <3>2
  <2>2. conn' = [conn EXCEPT ![pcb[k].arg] = cn] /\ pcb' = [pcb EXCEPT ![k] = p]
    BY <1>4
  <2>3. UNCHANGED <<server, conn_links, conn_count>> /\ Owned(k) /\ k \in Peers
    BY <1>0, <1>4 DEF Owned
  <2>4. p.tcp # "free"
    BY <1>4, <2>1
  <2> HIDE DEF cn, p, k
  <2> QED BY <2>1, <2>2, <2>3, <2>4, Serving
<1> QED BY <1>1, <1>2, <1>3, <1>4 DEF tcpsrv_server_close

(* Data, an acknowledgement, and the timer.                                *)
LEMMA TrafficKept ==
  ASSUME IInv, NEW k \in Peers, pcb[k].cb = "all", Traffic(pcb[k].arg), UNCHANGED server
  PROVE  IInv'
<1> DEFINE c == pcb[k].arg
<1>0. /\ c \in Linked /\ c \in Conns /\ conn[c] \in ConnRec /\ conn[c].peer = k
      /\ pcb[k] \in PcbRec /\ pcb[k].tcp \in {"est", "cw", "closing"} /\ Owned(k)
  BY Called, Allocated DEF PcbRec, LeftOver, Owned
<1>1. CASE tcpsrv_server_close(c, pcb[conn[c].peer].tcp)
  BY <1>0, <1>1, Closed
<1>2. CASE /\ conn' = [conn EXCEPT ![c].state = "CONNECT", ![c].recv_check = 0]
           /\ UNCHANGED <<conn_links, conn_count, pcb>>
  <2> DEFINE cn == [conn[c] EXCEPT !.state = "CONNECT", !.recv_check = 0]
  <2>1. conn' = [conn EXCEPT ![c] = cn] /\ UNCHANGED <<server, conn_links, conn_count>>
    BY <1>0, <1>2
  <2>2. /\ cn \in ConnRec /\ cn.state = "CONNECT" /\ cn.peer = conn[c].peer
        /\ cn.told = conn[c].told
    BY <1>0 DEF ConnRec
  <2>3. pcb' = [pcb EXCEPT ![k] = pcb[k]]
    BY <1>2 DEF IInv, TypeOK
  <2> HIDE DEF cn
  <2> QED BY <1>0, <2>1, <2>2, <2>3, Serving
<1> QED BY <1>1, <1>2 DEF Traffic

LEMMA Polled ==
  ASSUME IInv, NEW k \in Peers, tcpsrv_poll(k)
  PROVE  IInv'
<1> DEFINE c == pcb[k].arg
<1>0. pcb[k].cb # "none" /\ conn[c].state # "NONE" /\ UNCHANGED server
  BY DEF tcpsrv_poll
<1>a. pcb[k] \in PcbRec /\ Sound(pcb[k])
  BY DEF IInv, TypeOK, PcbRec, Bound
<1>b. c \in Linked /\ c \in Conns /\ conn[c] \in ConnRec /\ conn[c].peer \in Peers
  <2>1. c \in Conns
    BY <1>0, <1>a DEF Sound, PcbRec
  <2>2. c \in Linked
    BY <1>0, <2>1 DEF IInv, ListIsMemory
  <2> QED BY <2>1, <2>2, Allocated
<1>1. CASE tcpsrv_server_close(c, pcb[conn[c].peer].tcp)
  <2> DEFINE j == conn[c].peer
  <2>1. pcb[j] \in PcbRec /\ Sound(pcb[j])
    BY <1>b DEF IInv, TypeOK, PcbRec, Bound
  <2>2. pcb[j].arg = c => pcb[j].tcp \in {"est", "cw", "closing"}
    BY <1>b, <2>1, TcpAssumption DEF Sound, PcbRec
  <2> HIDE DEF c
  <2> QED BY <1>0, <1>1, <1>b, <2>2, Closed
<1>2. CASE /\ ~Closing(c) /\ pcb[k].tcp = "est"
           /\ conn' = [conn EXCEPT ![c] = Ticked(@)]
           /\ UNCHANGED <<conn_links, conn_count, pcb>>
  <2>0. Owned(k) /\ conn[c].peer = k /\ InUse(c)
    BY <1>0, <1>2, Called DEF LeftOver, Owned, InUse
  <2> DEFINE cn == Ticked(conn[c])
  <2>1. conn' = [conn EXCEPT ![c] = cn] /\ UNCHANGED <<server, conn_links, conn_count>>
    BY <1>0, <1>b, <1>2
  <2>2. /\ cn \in ConnRec /\ cn.state = conn[c].state /\ cn.peer = conn[c].peer
        /\ cn.told = conn[c].told
    BY <1>b DEF ConnRec, Ticked
  <2>3. pcb' = [pcb EXCEPT ![k] = pcb[k]]
    BY <1>2 DEF IInv, TypeOK
  <2>4. conn[c].state # "CLOSEWAIT" /\ conn[c].state # "NONE"
    BY <1>0, <1>2 DEF Closing
  <2>5. pcb[k].cb = "all" => conn[c].state \in {"LISTEN", "CONNECT"}
    BY DEF IInv, Bound, Open
  <2>6. conn[c].state \in {"LISTEN", "CONNECT"} /\ ~srv_reopen => pcb[k].cb = "all"
    BY <1>b, <2>0 DEF IInv, OpenIsWatched, Open
  <2> HIDE DEF cn
  <2>7. pcb[k].cb # "none" /\ pcb[k].tcp # "free" /\ pcb[k] \in PcbRec /\ cn.state # "CLOSEWAIT"
    BY <1>0, <1>a, <1>2, <2>2, <2>4
  <2> QED BY <2>0, <2>1, <2>2, <2>3, <2>4, <2>5, <2>6, <2>7, Serving
<1> QED BY <1>1, <1>2 DEF tcpsrv_poll

(* lwIP frees a pcb.                                                       *)
LEMMA Errored ==
  ASSUME IInv, NEW k \in Peers, tcpsrv_error(k)
  PROVE  IInv'
<1> DEFINE c == pcb[k].arg
<1>1. /\ pcb[k].cb = "all" /\ tcpsrv_list_delete(c) /\ UNCHANGED server
      /\ pcb' = [pcb EXCEPT ![k] = NoPcb]
  BY DEF tcpsrv_error
<1>2. c \in Linked /\ conn[c].peer = k /\ pcb \in [Peers -> PcbRec]
  BY <1>1, Called DEF LeftOver, IInv, TypeOK, PcbRec
<1>3. NoPcb \in PcbRec /\ Quiet(NoPcb)
  BY DEF NoPcb, Mute, PcbRec, Quiet, Sound
<1>4. pcb' \in [Peers -> PcbRec]
  BY <1>1, <1>2, <1>3
<1>5. \A j \in Peers : IF pcb[j].arg = c /\ conn[c].peer = j
                      THEN Quiet(pcb'[j]) ELSE pcb'[j] = pcb[j]
  BY <1>1, <1>2, <1>3
<1> HIDE DEF c
<1> QED BY <1>1, <1>2, <1>4, <1>5, Deleting

LEMMA Gone ==
  ASSUME IInv, NEW k \in Peers, PcbGone(k)
  PROVE  IInv'
<1>1. /\ pcb[k].cb # "all" /\ conn' = conn /\ conn_links' = conn_links /\ conn_count' = conn_count
      /\ listening' = listening /\ srv_reopen' = srv_reopen /\ Linked' = Linked
      /\ pcb' = [pcb EXCEPT ![k] = NoPcb]
  BY DEF PcbGone, server, Linked
<1>2. NoPcb \in PcbRec /\ NoPcb.cb = "none" /\ Sound(NoPcb)
  BY DEF NoPcb, Mute, PcbRec, Sound
<1>3. /\ pcb' \in [Peers -> PcbRec] /\ pcb'[k] = NoPcb
      /\ \A j \in Peers \ {k} : pcb'[j] = pcb[j]
  BY <1>1, <1>2 DEF IInv, TypeOK, PcbRec
<1>4. TypeOK'
  BY <1>1, <1>3 DEF IInv, TypeOK, PcbRec
<1>5. CountExact' /\ ListIsMemory' /\ ToldOnce'
  BY <1>1 DEF IInv, CountExact, ListIsMemory, ToldOnce
<1>6. CallbackOwned'
  BY <1>1, <1>2, <1>3 DEF IInv, CallbackOwned, Owned, LeftOver
<1>7. OpenIsWatched'
  <2> SUFFICES ASSUME NEW d \in Conns, Open(d), ~srv_reopen
               PROVE  pcb'[conn[d].peer].cb = "all" /\ pcb'[conn[d].peer].arg = d
    BY <1>1 DEF OpenIsWatched, Open
  <2>1. pcb[conn[d].peer].cb = "all" /\ pcb[conn[d].peer].arg = d
    BY DEF IInv, OpenIsWatched
  <2>2. conn[d].peer \in Peers \ {k}
    BY <1>1, <2>1 DEF IInv, Bound, InUse, Open
  <2> QED BY <1>3, <2>1, <2>2
<1>8. Bound'
  <2>1. ASSUME NEW j \in Peers, pcb'[j].cb = "all" PROVE pcb'[j] = pcb[j] /\ Open(pcb[j].arg)
    BY <1>2, <1>3, <2>1 DEF IInv, Bound
  <2>2. \A j \in Peers : pcb'[j].cb = "all" => Open(pcb[j].arg)'
    BY <1>1, <2>1 DEF Open
  <2>3. \A j \in Peers : Sound(pcb'[j])
    BY <1>2, <1>3 DEF IInv, Bound
  <2> QED BY <1>1, <2>2, <2>3 DEF IInv, Bound, InUse, Closing
<1> QED BY <1>4, <1>5, <1>6, <1>7, <1>8 DEF IInv
-----------------------------------------------------------------------------
(* tspsrv_delete_pcb: what it leaves of the pcbs of the connections in cs. *)
Cut(pcbs, cs, q) ==
  /\ q \in [Peers -> PcbRec]
  /\ \A k \in Peers : IF \E c \in cs : conn[c].peer = k
                      THEN q[k].cb = "none" /\ Sound(q[k]) ELSE q[k] = pcbs[k]

LEMMA CutOffFacts ==
  ASSUME NEW pcbs \in [Peers -> PcbRec], NEW cs, NEW q \in CutOffAll(pcbs, cs)
  PROVE  Cut(pcbs, cs, q)
<1>1. ASSUME NEW p \in PcbRec, NEW r \in CutOff(p) PROVE r \in PcbRec /\ r.cb = "none" /\ Sound(r)
  <2>0. p.tcp \in {"free", "est", "cw", "closing"}
    BY DEF PcbRec
  <2>1. PICK tcp \in {"free", "est", "cw", "closing"} : r = Mute(tcp)
    <3>1. PICK tcp \in IF p.tcp = "free" THEN {"free"} ELSE {"closing", "free", p.tcp} : r = Mute(tcp)
      BY <1>1 DEF CutOff, CloseResults
    <3> QED BY <2>0, <3>1
  <2> QED BY <2>1 DEF Mute, PcbRec, Sound
<1>2. /\ DOMAIN q = Peers /\ q = [k \in Peers |-> q[k]]
      /\ \A k \in Peers : q[k] \in IF \E c \in cs : conn[c].peer = k THEN CutOff(pcbs[k]) ELSE {pcbs[k]}
  BY DEF CutOffAll
<1>3. ASSUME NEW k \in Peers
      PROVE  /\ q[k] \in PcbRec
             /\ IF \E c \in cs : conn[c].peer = k
                THEN q[k].cb = "none" /\ Sound(q[k]) ELSE q[k] = pcbs[k]
  <2>1. CASE \E c \in cs : conn[c].peer = k
    BY <1>1, <1>2, <2>1
  <2>2. CASE ~(\E c \in cs : conn[c].peer = k)
    BY <1>2, <2>2
  <2> QED BY <2>1, <2>2
<1> QED BY <1>2, <1>3 DEF Cut

(* A server that is about to take a connection from k: the list kept has   *)
(* room, it is the memory in use, and the pcbs left call its members only, *)
(* but for leftover polls.                                                 *)
Room(k, kept, after, left) ==
  /\ kept \in Seq(Conns) /\ IsInjective(kept) /\ Len(kept) < MaxConn
  /\ after \in [Conns -> ConnRec] /\ left \in [Peers -> PcbRec]
  /\ ToSet(kept) = {c \in Conns : after[c].state # "NONE"}
  /\ \A c \in Conns : after[c].state # "NONE" => after[c] = conn[c]
  /\ \A c \in Conns : after[c].told = IF after[c].state = "NONE" THEN 1 ELSE 0
  /\ left[k].cb = "none"
  /\ \A j \in Peers : left[j].cb # "none" =>
        left[j] = pcb[j] /\ (pcb[j].arg \in ToSet(kept) \/ LeftOver(j))
  /\ ~srv_reopen => \A j \in Peers \ {k} : left[j] = pcb[j]

(* Nobody is given up.                                                     *)
LEMMA RoomLeft ==
  ASSUME IInv, NEW k \in Peers, pcb[k].tcp = "free", conn_count < MaxConn \/ conn_links = << >>,
         NEW left \in [Peers -> PcbRec], left = [pcb EXCEPT ![k] = Mute("est")]
  PROVE  Room(k, conn_links, conn, left)
<1>1. /\ conn \in [Conns -> ConnRec] /\ pcb \in [Peers -> PcbRec] /\ conn_links \in Seq(Conns)
      /\ IsInjective(conn_links) /\ Linked = {c \in Conns : conn[c].state # "NONE"}
  BY DEF IInv, TypeOK, ListIsMemory, ConnRec, PcbRec
<1>2. Len(conn_links) < MaxConn
  BY TcpAssumption DEF IInv, CountExact
<1>3. left[k].cb = "none" /\ \A j \in Peers \ {k} : left[j] = pcb[j]
  BY <1>1 DEF Mute
<1>4. \A j \in Peers : left[j].cb # "none" => left[j] = pcb[j] /\ (pcb[j].arg \in Linked \/ LeftOver(j))
  BY <1>3, Called
<1> QED BY <1>1, <1>2, <1>3, <1>4 DEF Room, Linked, IInv, ToldOnce

(* The head of the list is given up.                                       *)
LEMMA RoomMade ==
  ASSUME IInv, NEW k \in Peers, pcb[k].tcp = "free", srv_reopen, conn_links # << >>,
         NEW est, est = [pcb EXCEPT ![k] = Mute("est")],
         NEW left \in CutOffAll(est, {Head(conn_links)}),
         NEW after, after = [c \in Conns |-> IF c = Head(conn_links) THEN Freed(conn[c]) ELSE conn[c]]
  PROVE  Room(k, Tail(conn_links), after, left) /\ Len(Tail(conn_links)) = conn_count - 1
<1> DEFINE h == Head(conn_links)
           kept == Tail(conn_links)
<1>1. /\ conn \in [Conns -> ConnRec] /\ pcb \in [Peers -> PcbRec] /\ conn_links \in Seq(Conns)
      /\ IsInjective(conn_links) /\ Linked = {c \in Conns : conn[c].state # "NONE"}
      /\ Len(conn_links) \in Nat /\ conn_count = Len(conn_links) /\ conn_count <= MaxConn
  BY DEF IInv, TypeOK, ListIsMemory, CountExact, ConnRec, PcbRec
<1>2. /\ h \in Linked /\ kept \in Seq(Conns) /\ Len(kept) = Len(conn_links) - 1
      /\ IsInjective(kept) /\ ToSet(kept) = Linked \ {h}
  BY <1>1, Beheading DEF Linked
<1>3. h \in Conns /\ conn[h] \in ConnRec /\ InUse(h)
  BY <1>2, Allocated
<1>4. left \in CutOffAll(est, {h}) /\ after = [c \in Conns |-> IF c = h THEN Freed(conn[c]) ELSE conn[c]]
  OBVIOUS
<1> HIDE DEF h, kept
<1>5. Freed(conn[h]) \in ConnRec /\ Freed(conn[h]).state = "NONE" /\ Freed(conn[h]).told = 1
  BY <1>3, TcpAssumption DEF Freed, NotUsed, ConnRec, IInv, ToldOnce, InUse
<1>6. after \in [Conns -> ConnRec] /\ after[h] = Freed(conn[h]) /\ \A c \in Conns \ {h} : after[c] = conn[c]
  BY <1>1, <1>3, <1>4, <1>5
<1>7. /\ est \in [Peers -> PcbRec] /\ est[k].cb = "none" /\ \A j \in Peers \ {k} : est[j] = pcb[j]
  BY <1>1 DEF Mute, PcbRec
<1>8. /\ left \in [Peers -> PcbRec]
      /\ \A j \in Peers : left[j].cb = "none" \/ (left[j] = est[j] /\ conn[h].peer # j)
  <2>1. Cut(est, {h}, left)
    BY <1>4, <1>7, CutOffFacts
  <2> QED BY <2>1 DEF Cut
<1>9. left[k].cb = "none"
  BY <1>7, <1>8
<1>10. ASSUME NEW j \in Peers, left[j].cb # "none"
       PROVE  left[j] = pcb[j] /\ (pcb[j].arg \in ToSet(kept) \/ LeftOver(j))
  <2>1. left[j] = pcb[j] /\ conn[h].peer # j
    BY <1>7, <1>8, <1>9, <1>10
  <2>2. LeftOver(j) \/ (pcb[j].arg \in Linked /\ conn[pcb[j].arg].peer = j)
    BY <1>10, <2>1, Called
  <2> QED BY <1>2, <2>1, <2>2
<1>11. ToSet(kept) = {c \in Conns : after[c].state # "NONE"}
  BY <1>1, <1>2, <1>5, <1>6
<1>12. \A c \in Conns : after[c].told = IF after[c].state = "NONE" THEN 1 ELSE 0
  BY <1>5, <1>6 DEF IInv, ToldOnce
<1>13. \A c \in Conns : after[c].state # "NONE" => after[c] = conn[c]
  BY <1>5, <1>6
<1>14. Len(kept) < MaxConn /\ Len(kept) = conn_count - 1
  BY <1>1, <1>2, TcpAssumption
<1>15. Room(k, kept, after, left)
  BY <1>2, <1>6, <1>8, <1>9, <1>10, <1>11, <1>12, <1>13, <1>14 DEF Room
<1> QED BY <1>14, <1>15 DEF kept

(* tcpsrv_server_accept, with room and the memory for a ts_conn.           *)
LEMMA Taken ==
  ASSUME IInv, NEW k \in Peers, NEW kept, NEW after, NEW left, Room(k, kept, after, left),
         listening, UNCHANGED server, NEW c \in Conns, after[c].state = "NONE",
         left[k].tcp # "free",
         \A j \in Peers : Sound(left[j]),
         pcb[k].cb = "none",
         conn' = [after EXCEPT ![c] = NewConn(k)], conn_links' = <<c>> \o kept,
         conn_count' = Len(kept) + 1, pcb' = [left EXCEPT ![k].arg = c, ![k].cb = "all"]
  PROVE  IInv'
<1> DEFINE p == [left[k] EXCEPT !.arg = c, !.cb = "all"]
<1>1. /\ kept \in Seq(Conns) /\ IsInjective(kept) /\ Len(kept) < MaxConn
      /\ after \in [Conns -> ConnRec] /\ left \in [Peers -> PcbRec]
      /\ ToSet(kept) = {d \in Conns : after[d].state # "NONE"}
      /\ listening' /\ listening' = listening /\ srv_reopen' = srv_reopen
      /\ conn_count' = Len(kept) + 1 /\ Len(kept) \in Nat
  BY DEF Room, server
<1>2. /\ conn_links' \in Seq(Conns) /\ Len(conn_links') = Len(kept) + 1
      /\ IsInjective(conn_links') /\ Linked' = ToSet(kept) \cup {c}
  BY <1>1, Linking DEF Linked
<1>3. /\ NewConn(k) \in ConnRec /\ NewConn(k).state = "LISTEN" /\ NewConn(k).peer = k
      /\ NewConn(k).told = 0
  BY TcpAssumption DEF NewConn, ConnRec
<1>4. /\ conn' \in [Conns -> ConnRec] /\ conn'[c] = NewConn(k)
      /\ \A d \in Conns \ {c} : conn'[d] = after[d]
  BY <1>1, <1>3
<1>5. p \in PcbRec /\ p.arg = c /\ p.cb = "all" /\ p.tcp = left[k].tcp
  BY <1>1 DEF PcbRec
<1>6. pcb' = [left EXCEPT ![k] = p]
  BY <1>1
<1> HIDE DEF p
<1>7. pcb' \in [Peers -> PcbRec] /\ pcb'[k] = p /\ \A j \in Peers \ {k} : pcb'[j] = left[j]
  BY <1>1, <1>5, <1>6
<1>8. ASSUME NEW j \in Peers \ {k}, pcb'[j].cb # "none", ~(LeftOver(j)')
      PROVE  /\ pcb'[j] = pcb[j] /\ pcb[j].arg \in ToSet(kept) /\ pcb[j].arg # c
             /\ conn'[pcb[j].arg] = conn[pcb[j].arg]
  <2>1. pcb'[j] = pcb[j] /\ pcb[j].arg \in ToSet(kept)
    BY <1>7, <1>8 DEF Room, LeftOver
  <2>2. pcb[j].arg \in Conns \ {c} /\ after[pcb[j].arg] = conn[pcb[j].arg]
    BY <1>1, <2>1 DEF Room
  <2> QED BY <1>4, <2>1, <2>2
<1>9. ASSUME NEW d \in Conns \ {c}, conn'[d].state # "NONE" PROVE conn'[d] = conn[d]
  BY <1>4, <1>9 DEF Room
<1>10. TypeOK'
  <2>1. conn_count' \in Nat /\ listening' \in BOOLEAN /\ srv_reopen' \in BOOLEAN
    BY <1>1 DEF IInv, TypeOK
  <2> QED BY <1>2, <1>4, <1>7, <2>1 DEF TypeOK, ConnRec, PcbRec
<1>11. CountExact'
  BY <1>1, <1>2, TcpAssumption DEF CountExact
<1>12. ListIsMemory'
  BY <1>1, <1>2, <1>3, <1>4 DEF ListIsMemory
<1>13. CallbackOwned'
  <2> SUFFICES ASSUME NEW j \in Peers, pcb'[j].cb # "none", ~(LeftOver(j)')
               PROVE  pcb'[j].arg \in Linked' /\ conn'[pcb'[j].arg].peer = j
    BY DEF CallbackOwned, Owned
  <2>1. CASE j = k
    BY <1>2, <1>3, <1>4, <1>5, <1>7, <2>1
  <2>2. CASE j # k
    <3>1. /\ pcb'[j] = pcb[j] /\ pcb[j].arg \in ToSet(kept)
          /\ conn'[pcb[j].arg] = conn[pcb[j].arg] /\ pcb[j].cb # "none"
      BY <1>8, <2>2
    <3>2. conn[pcb[j].arg].peer = j
      BY <3>1, Called DEF LeftOver
    <3> QED BY <1>2, <3>1, <3>2
  <2> QED BY <2>1, <2>2
<1>14. ToldOnce'
  BY <1>3, <1>4 DEF Room, ToldOnce
<1>15. OpenIsWatched'
  <2> SUFFICES ASSUME NEW d \in Conns, Open(d)', ~srv_reopen
               PROVE  pcb'[conn'[d].peer].cb = "all" /\ pcb'[conn'[d].peer].arg = d
    BY <1>1 DEF OpenIsWatched
  <2>1. CASE d = c
    BY <1>3, <1>4, <1>5, <1>7, <2>1
  <2>2. CASE d # c
    <3>1. Open(d) /\ conn'[d] = conn[d]
      BY <1>9, <2>2 DEF Open
    <3>2. pcb[conn[d].peer].cb = "all" /\ pcb[conn[d].peer].arg = d
      BY <3>1 DEF IInv, OpenIsWatched
    <3>3. conn[d].peer \in Peers
      BY <3>1 DEF IInv, Bound, InUse, Open
    <3>4. CASE conn[d].peer = k
      BY <3>2, <3>4
    <3>5. CASE conn[d].peer # k
      BY <1>7, <3>1, <3>2, <3>3, <3>5 DEF Room
    <3> QED BY <3>4, <3>5
  <2> QED BY <2>1, <2>2
<1>16. Bound'
  <2>1. \A d \in Conns : InUse(d)' => conn'[d].peer \in Peers
    BY <1>3, <1>4, <1>9 DEF IInv, Bound, InUse
  <2>2. \A d \in Conns : Closing(d)' => conn'[d].tries > 0
    BY <1>3, <1>4, <1>9 DEF IInv, Bound, Closing
  <2>3. ASSUME NEW j \in Peers, pcb'[j].cb = "all" PROVE Open(pcb[j].arg)'
    <3>1. CASE j = k
      BY <1>3, <1>4, <1>5, <1>7, <3>1 DEF Open
    <3>2. CASE j # k
      <4>1. pcb'[j] = pcb[j] /\ conn'[pcb[j].arg] = conn[pcb[j].arg]
        BY <1>8, <2>3, <3>2 DEF LeftOver
      <4>2. Open(pcb[j].arg)
        BY <2>3, <4>1 DEF IInv, Bound
      <4> QED BY <4>1, <4>2 DEF Open
    <3> QED BY <3>1, <3>2
  <2>4. \A j \in Peers : Sound(pcb'[j])
    <3>1. Sound(p)
      BY <1>5, TcpAssumption DEF Sound
    <3> QED BY <1>7, <3>1
  <2> QED BY <1>1, <2>1, <2>2, <2>3, <2>4 DEF Bound
<1> QED BY <1>10, <1>11, <1>12, <1>13, <1>14, <1>15, <1>16 DEF IInv

(* The refusal: the pcb just accepted is lost.                             *)
LEMMA Refused ==
  ASSUME IInv, NEW k \in Peers, NEW kept, NEW after, NEW left, Room(k, kept, after, left),
         listening, UNCHANGED server,
         \A j \in Peers : Sound(left[j]),
         pcb[k].cb = "none",
         conn' = after, conn_links' = kept, conn_count' = Len(kept),
         pcb' = [left EXCEPT ![k] = NoPcb]
  PROVE  IInv'
<1>1. /\ kept \in Seq(Conns) /\ IsInjective(kept) /\ Len(kept) < MaxConn /\ Len(kept) \in Nat
      /\ after \in [Conns -> ConnRec] /\ left \in [Peers -> PcbRec]
      /\ ToSet(kept) = {d \in Conns : after[d].state # "NONE"} /\ Linked' = ToSet(kept)
      /\ listening' /\ listening' = listening /\ srv_reopen' = srv_reopen
  BY DEF Room, server, Linked
<1>2. NoPcb \in PcbRec /\ NoPcb.cb = "none" /\ Sound(NoPcb)
  BY DEF NoPcb, Mute, PcbRec, Sound
<1>3. pcb' \in [Peers -> PcbRec] /\ pcb'[k] = NoPcb /\ \A j \in Peers \ {k} : pcb'[j] = left[j]
  BY <1>1, <1>2
<1>4. ASSUME NEW j \in Peers, pcb'[j].cb # "none", ~(LeftOver(j)')
      PROVE  j # k /\ pcb'[j] = pcb[j] /\ pcb[j].arg \in ToSet(kept) /\ conn'[pcb[j].arg] = conn[pcb[j].arg]
  <2>1. j # k /\ pcb'[j] = pcb[j] /\ pcb[j].arg \in ToSet(kept)
    BY <1>2, <1>3, <1>4 DEF Room, LeftOver
  <2> QED BY <1>1, <2>1 DEF Room
<1>5. \A d \in Conns : conn'[d].state # "NONE" => conn'[d] = conn[d]
  BY DEF Room
<1>6. TypeOK'
  <2>1. conn_count' \in Nat /\ listening' \in BOOLEAN /\ srv_reopen' \in BOOLEAN
    BY <1>1 DEF IInv, TypeOK
  <2> QED BY <1>1, <1>3, <2>1 DEF TypeOK, ConnRec, PcbRec
<1>7. CountExact'
  BY <1>1, TcpAssumption DEF CountExact
<1>8. ListIsMemory'
  BY <1>1 DEF ListIsMemory
<1>9. CallbackOwned'
  <2> SUFFICES ASSUME NEW j \in Peers, pcb'[j].cb # "none", ~(LeftOver(j)')
               PROVE  pcb'[j].arg \in Linked' /\ conn'[pcb'[j].arg].peer = j
    BY DEF CallbackOwned, Owned
  <2>1. /\ pcb'[j] = pcb[j] /\ pcb[j].arg \in ToSet(kept)
        /\ conn'[pcb[j].arg] = conn[pcb[j].arg] /\ pcb[j].cb # "none"
    BY <1>4
  <2>2. conn[pcb[j].arg].peer = j
    BY <2>1, Called DEF LeftOver
  <2> QED BY <1>1, <2>1, <2>2
<1>10. ToldOnce'
  BY DEF Room, ToldOnce
<1>11. OpenIsWatched'
  <2> SUFFICES ASSUME NEW d \in Conns, Open(d)', ~srv_reopen
               PROVE  pcb'[conn'[d].peer].cb = "all" /\ pcb'[conn'[d].peer].arg = d
    BY <1>1 DEF OpenIsWatched
  <2>1. Open(d) /\ conn'[d] = conn[d]
    BY <1>5 DEF Open
  <2>2. pcb[conn[d].peer].cb = "all" /\ pcb[conn[d].peer].arg = d
    BY <2>1 DEF IInv, OpenIsWatched
  <2>3. conn[d].peer \in Peers \ {k}
    BY <2>1, <2>2 DEF IInv, Bound, InUse, Open
  <2> QED BY <1>3, <2>1, <2>2, <2>3 DEF Room
<1>12. Bound'
  <2>1. \A d \in Conns : InUse(d)' => conn'[d].peer \in Peers
    BY <1>5 DEF IInv, Bound, InUse
  <2>2. \A d \in Conns : Closing(d)' => conn'[d].tries > 0
    BY <1>5 DEF IInv, Bound, Closing
  <2>3. ASSUME NEW j \in Peers, pcb'[j].cb = "all" PROVE Open(pcb[j].arg)'
    <3>1. pcb'[j] = pcb[j] /\ conn'[pcb[j].arg] = conn[pcb[j].arg]
      BY <1>4, <2>3 DEF LeftOver
    <3>2. Open(pcb[j].arg)
      BY <2>3, <3>1 DEF IInv, Bound
    <3> QED BY <3>1, <3>2 DEF Open
  <2>4. \A j \in Peers : Sound(pcb'[j])
    BY <1>2, <1>3
  <2> QED BY <1>1, <2>1, <2>2, <2>3, <2>4 DEF Bound
<1> QED BY <1>6, <1>7, <1>8, <1>9, <1>10, <1>11, <1>12 DEF IInv

(* What is left of the pcbs is as sound as they were.                      *)
LEMMA CutIsSound ==
  ASSUME NEW pcbs, NEW cs, NEW q \in CutOffAll(pcbs, cs), \A j \in Peers : Sound(pcbs[j])
  PROVE  \A j \in Peers : Sound(q[j])
<1>1. ASSUME NEW p, NEW r \in CutOff(p) PROVE Sound(r)
  BY <1>1 DEF CutOff, Mute, Sound
<1>2. \A j \in Peers : q[j] \in IF \E c \in cs : conn[c].peer = j THEN CutOff(pcbs[j]) ELSE {pcbs[j]}
  BY DEF CutOffAll
<1> QED BY <1>1, <1>2

LEMMA Accepted ==
  ASSUME IInv, NEW k \in Peers, tcpsrv_server_accept(k)
  PROVE  IInv'
<1> DEFINE est   == [pcb EXCEPT ![k] = Mute("est")]
           after == [c \in Conns |-> IF c \in GivenUp THEN Freed(conn[c]) ELSE conn[c]]
           kept  == IF GivenUp = {} THEN conn_links ELSE Tail(conn_links)
           count == IF GivenUp = {} THEN conn_count ELSE conn_count - 1
<1>1. /\ listening /\ pcb[k].tcp = "free" /\ (conn_count < MaxConn \/ srv_reopen)
      /\ UNCHANGED server
  BY DEF tcpsrv_server_accept, Live
<1>2. PICK left \in CutOffAll(est, GivenUp) :
        \/ \E c \in Conns :
             /\ left[k].tcp # "free"
             /\ after[c].state = "NONE"
             /\ conn' = [after EXCEPT ![c] = NewConn(k)]
             /\ conn_links' = <<c>> \o kept
             /\ conn_count' = count + 1
             /\ pcb' = [left EXCEPT ![k].arg = c, ![k].cb = "all"]
        \/ /\ conn' = after
           /\ conn_links' = kept
           /\ conn_count' = count
           /\ pcb' = [left EXCEPT ![k] = NoPcb]
  BY DEF tcpsrv_server_accept
<1>3. /\ pcb[k].cb = "none" /\ pcb \in [Peers -> PcbRec]
      /\ \A j \in Peers : Sound(est[j])
  BY <1>1 DEF IInv, Bound, TypeOK, PcbRec, Mute, Sound
<1>4. \A j \in Peers : Sound(left[j])
  <2> HIDE DEF est
  <2> QED BY <1>3, CutIsSound
<1>5. est \in [Peers -> PcbRec]
  BY <1>3 DEF Mute, PcbRec
<1>6. Room(k, kept, after, left) /\ count = Len(kept)
  <2>1. CASE GivenUp = {}
    <3>1. conn_count < MaxConn \/ conn_links = << >>
      BY <2>1 DEF GivenUp
    <3>2. Cut(est, {}, left)
      <4> HIDE DEF est
      <4> QED BY <1>2, <1>5, <2>1, CutOffFacts
    <3>3. left = est
      <4> HIDE DEF est
      <4> QED BY <1>5, <3>2 DEF Cut
    <3>4. after = conn
      BY <2>1 DEF IInv, TypeOK
    <3>5. kept = conn_links /\ count = Len(conn_links)
      BY <2>1 DEF IInv, CountExact
    <3>6. left \in [Peers -> PcbRec] /\ left = [pcb EXCEPT ![k] = Mute("est")]
      BY <1>5, <3>3
    <3> HIDE DEF kept, after, count
    <3> QED BY <1>1, <3>1, <3>4, <3>5, <3>6, RoomLeft
  <2>2. CASE GivenUp # {}
    <3>1. /\ GivenUp = {Head(conn_links)} /\ ~(conn_count < MaxConn) /\ conn_links # << >>
      BY <2>2 DEF GivenUp
    <3>2. after = [c \in Conns |-> IF c = Head(conn_links) THEN Freed(conn[c]) ELSE conn[c]]
      BY <3>1
    <3>3. kept = Tail(conn_links) /\ count = conn_count - 1
      BY <2>2
    <3>4. left \in CutOffAll(est, {Head(conn_links)}) /\ srv_reopen
      BY <1>1, <1>2, <3>1
    <3>5. est = [pcb EXCEPT ![k] = Mute("est")]
      OBVIOUS
    <3> HIDE DEF kept, after, count, est
    <3> QED BY <1>1, <3>1, <3>2, <3>3, <3>4, <3>5, RoomMade
  <2> QED BY <2>1, <2>2
<1> HIDE DEF kept, after, count, est
<1>7. ASSUME NEW c \in Conns, left[k].tcp # "free", after[c].state = "NONE",
             conn' = [after EXCEPT ![c] = NewConn(k)], conn_links' = <<c>> \o kept,
             conn_count' = count + 1, pcb' = [left EXCEPT ![k].arg = c, ![k].cb = "all"]
      PROVE  IInv'
  <2>1. conn_count' = Len(kept) + 1
    BY <1>6, <1>7
  <2> QED BY <1>1, <1>3, <1>4, <1>6, <1>7, <2>1, Taken
<1>8. ASSUME conn' = after, conn_links' = kept, conn_count' = count, pcb' = [left EXCEPT ![k] = NoPcb]
      PROVE  IInv'
  BY <1>1, <1>3, <1>4, <1>6, <1>8, Refused
<1> QED BY <1>2, <1>7, <1>8
-----------------------------------------------------------------------------
LEMMA Initial == ASSUME Init PROVE IInv
<1>1. TypeOK
  <2>1. NotUsed(1) \in ConnRec /\ NoPcb \in PcbRec
    BY TcpAssumption DEF NotUsed, NoPcb, Mute, ConnRec, PcbRec
  <2>2. conn \in [Conns -> ConnRec] /\ pcb \in [Peers -> PcbRec]
    BY <2>1 DEF Init
  <2>3. conn_links \in Seq(Conns) /\ conn_count \in Nat
    BY DEF Init
  <2>4. listening \in BOOLEAN /\ srv_reopen \in BOOLEAN
    BY Zenon DEF Init
  <2> QED BY <2>2, <2>3, <2>4 DEF TypeOK, ConnRec, PcbRec
<1>2. Linked = {} /\ \A c \in Conns : conn[c] = NotUsed(1)
  BY DEF Init, Linked, ToSet
<1>3. \A k \in Peers : pcb[k] = NoPcb /\ NoPcb.cb = "none" /\ Sound(NoPcb)
  BY DEF Init, NoPcb, Mute, Sound
<1>4. NotUsed(1).state = "NONE" /\ NotUsed(1).told = 1
  BY DEF NotUsed
<1>5. CountExact
  BY TcpAssumption DEF Init, CountExact
<1>6. ListIsMemory
  BY <1>2, <1>4 DEF Init, ListIsMemory, IsInjective
<1>7. CallbackOwned /\ ToldOnce /\ OpenIsWatched
  BY <1>2, <1>3, <1>4 DEF CallbackOwned, ToldOnce, OpenIsWatched, Open
<1>8. Bound
  BY <1>2, <1>3, <1>4 DEF Init, Bound, InUse, Closing
<1> QED BY <1>1, <1>5, <1>6, <1>7, <1>8 DEF IInv

LEMMA Started == ASSUME IInv, tcpsrv_start PROVE IInv'
<1>1. conn_links = << >> /\ conn_links' = << >> /\ Linked' = Linked /\ conn_count' = 0
  BY DEF tcpsrv_start, IInv, Bound, Linked
<1>2. conn' = conn /\ pcb' = pcb /\ listening' = TRUE /\ srv_reopen' \in BOOLEAN
  BY DEF tcpsrv_start
<1>3. \A c \in Conns : conn[c].state = "NONE"
  BY <1>1 DEF IInv, ListIsMemory, Linked, ToSet
<1>4. TypeOK'
  BY <1>1, <1>2 DEF IInv, TypeOK
<1>5. CountExact'
  BY <1>1, TcpAssumption DEF CountExact
<1>6. ListIsMemory' /\ CallbackOwned' /\ ToldOnce'
  BY <1>1, <1>2 DEF IInv, ListIsMemory, CallbackOwned, Owned, LeftOver, ToldOnce
<1>7. OpenIsWatched'
  BY <1>2, <1>3 DEF OpenIsWatched, Open
<1>8. Bound'
  <2>1. \A k \in Peers : pcb[k].cb = "all" => Open(pcb[k].arg)'
    BY <1>2 DEF IInv, Bound, Open
  <2> QED BY <1>2, <2>1 DEF IInv, Bound, InUse, Closing
<1> QED BY <1>4, <1>5, <1>6, <1>7, <1>8 DEF IInv

LEMMA Stopped == ASSUME IInv, tcpsrv_close PROVE IInv'
<1>1. /\ listening' = FALSE /\ srv_reopen' = FALSE /\ conn_links' = << >> /\ conn_count' = 0
      /\ pcb' \in CutOffAll(pcb, Linked)
      /\ conn' = [c \in Conns |-> IF c \in Linked THEN Freed(conn[c]) ELSE conn[c]]
  BY DEF tcpsrv_close
<1>2. conn \in [Conns -> ConnRec] /\ pcb \in [Peers -> PcbRec]
  BY DEF IInv, TypeOK, ConnRec, PcbRec
<1>3. Cut(pcb, Linked, pcb')
  BY <1>1, <1>2, CutOffFacts
<1>4. pcb' \in [Peers -> PcbRec] /\ \A k \in Peers : Sound(pcb'[k]) /\ (pcb'[k].cb # "none" => LeftOver(k)')
  <2>1. ASSUME NEW k \in Peers PROVE Sound(pcb'[k]) /\ (pcb'[k].cb # "none" => LeftOver(k)')
    <3>1. CASE \E c \in Linked : conn[c].peer = k
      BY <1>3, <3>1 DEF Cut
    <3>2. CASE ~\E c \in Linked : conn[c].peer = k
      <4>1. pcb'[k] = pcb[k] /\ Sound(pcb[k])
        BY <1>3, <3>2 DEF Cut, IInv, Bound
      <4>2. pcb[k].cb # "none" => LeftOver(k)
        BY <3>2, Called
      <4> QED BY <4>1, <4>2 DEF LeftOver
    <3> QED BY <3>1, <3>2
  <2> QED BY <1>3, <2>1 DEF Cut
<1>5. ASSUME NEW c \in Conns
      PROVE  conn'[c] \in ConnRec /\ conn'[c].state = "NONE" /\ conn'[c].told = 1
  <2>1. CASE c \in Linked
    <3>1. conn'[c] = Freed(conn[c]) /\ conn[c] \in ConnRec /\ conn[c].told = 0
      BY <1>1, <1>2, <2>1, Allocated DEF IInv, ToldOnce, InUse
    <3> QED BY <3>1, TcpAssumption DEF Freed, NotUsed, ConnRec
  <2>2. CASE c \notin Linked
    <3>1. conn'[c] = conn[c] /\ conn[c].state = "NONE"
      BY <1>1, <2>2 DEF IInv, ListIsMemory
    <3> QED BY <1>2, <3>1 DEF IInv, ToldOnce
  <2> QED BY <2>1, <2>2
<1>6. conn' \in [Conns -> ConnRec] /\ Linked' = {}
  BY <1>1, <1>5 DEF Linked, ToSet
<1>7. TypeOK'
  <2>1. conn_links' \in Seq(Conns) /\ conn_count' \in Nat
    BY <1>1
  <2>2. listening' \in BOOLEAN /\ srv_reopen' \in BOOLEAN
    BY Zenon, <1>1
  <2> QED BY <1>4, <1>6, <2>1, <2>2 DEF TypeOK, ConnRec, PcbRec
<1>8. CountExact'
  BY <1>1, TcpAssumption DEF CountExact
<1>9. ListIsMemory'
  BY <1>1, <1>5, <1>6 DEF ListIsMemory, IsInjective
<1>10. CallbackOwned' /\ ToldOnce' /\ OpenIsWatched'
  BY <1>4, <1>5 DEF CallbackOwned, ToldOnce, OpenIsWatched, Open
<1>11. Bound'
  BY <1>1, <1>4, <1>5 DEF Bound, InUse, Closing, LeftOver
<1> QED BY <1>7, <1>8, <1>9, <1>10, <1>11 DEF IInv

LEMMA Invariance == ASSUME IInv, [Next]_vars PROVE IInv'
<1>1. CASE tcpsrv_start
  BY <1>1, Started
<1>2. CASE tcpsrv_close
  BY <1>2, Stopped
<1>3. ASSUME NEW k \in Peers, tcpsrv_server_accept(k) PROVE IInv'
  BY <1>3, Accepted
<1>4. ASSUME NEW k \in Peers, tcpsrv_server_recv(k) \/ tcpsrv_server_sent(k) PROVE IInv'
  BY <1>4, TrafficKept DEF tcpsrv_server_recv, tcpsrv_server_sent
<1>5. ASSUME NEW k \in Peers, PeerCloses(k) PROVE IInv'
  <2>1. pcb[k].cb = "all" /\ UNCHANGED server
    BY <1>5 DEF PeerCloses
  <2>2. pcb[k].arg \in Linked /\ pcb[k].tcp \in {"est", "cw", "closing"}
    BY <2>1, Called DEF PcbRec, LeftOver
  <2>3. PICK tcp \in {"est", "cw", "closing"} : tcpsrv_server_close(pcb[k].arg, tcp)
    BY <1>5, <2>2 DEF PeerCloses
  <2> QED BY <2>1, <2>2, <2>3, Closed
<1>6. ASSUME NEW k \in Peers, tcpsrv_poll(k) PROVE IInv'
  BY <1>6, Polled
<1>7. ASSUME NEW k \in Peers, tcpsrv_error(k) PROVE IInv'
  BY <1>7, Errored
<1>8. ASSUME NEW k \in Peers, PcbGone(k) PROVE IInv'
  BY <1>8, Gone
<1>9. CASE UNCHANGED vars
  BY <1>9 DEF vars, IInv, TypeOK, CountExact, ListIsMemory, Linked, CallbackOwned, Owned, LeftOver, ToldOnce,
               OpenIsWatched, Open, Bound, InUse, Closing
<1> QED BY <1>1, <1>2, <1>3, <1>4, <1>5, <1>6, <1>7, <1>8, <1>9 DEF Next
-----------------------------------------------------------------------------
THEOREM Invariant == Spec => []IInv
<1>1. Init => IInv
  BY Initial
<1>2. IInv /\ [Next]_vars => IInv'
  BY Invariance
<1> QED BY <1>1, <1>2, PTL DEF Spec

(* The variables keep their types.                                         *)
THEOREM ServerTyped == Spec => []TypeOK
  BY Invariant, PTL DEF IInv

(* conn_count, which tcpsrv_server_accept compares with max_conn, is the   *)
(* length of the list, and never exceeds max_conn.                         *)
THEOREM CountIsExact == Spec => []CountExact
  BY Invariant, PTL DEF IInv

(* The list holds each ts_conn in use, once, and no freed one.             *)
THEOREM ListIsTheMemory == Spec => []ListIsMemory
  BY Invariant, PTL DEF IInv

(* lwIP calls back with connections in use that serve the pcb's endpoint,  *)
(* but for the poll that a retried close leaves on a pcb sending its FIN.  *)
THEOREM CallbacksOwned == Spec => []CallbackOwned
  BY Invariant, PTL DEF IInv

(* func_discon_cb is called once for each connection.                      *)
THEOREM EndsToldOnce == Spec => []ToldOnce
  BY Invariant, PTL DEF IInv

(* Unless connections are given up, an open one keeps all its callbacks.   *)
THEOREM OpenStaysWatched == Spec => []OpenIsWatched
  BY Invariant, PTL DEF IInv

(* The action of NoRevival: one connection c at a step.                    *)
Revived(c) == Closing(c) /\ Open(c)' /\ ~(conn'[c].tries < conn[c].tries)

LEMMA NotByClosing ==
  ASSUME NEW d \in Conns, NEW tcp, conn \in [Conns -> ConnRec], tcpsrv_server_close(d, tcp),
         NEW c \in Conns, Revived(c)
  PROVE  FALSE
<1>1. \A cn : Freed(cn).state = "NONE"
  BY DEF Freed, NotUsed
<1>2. \A cn \in ConnRec : Failed(CloseBegun(cn)).state = "CLOSEWAIT"
  BY ClosePostponed
<1>3. conn' = [conn EXCEPT ![d] = Freed(@)] \/ conn' = [conn EXCEPT ![d] = Failed(CloseBegun(@))]
  BY DEF tcpsrv_server_close, tcpsrv_list_delete
<1> QED BY <1>1, <1>2, <1>3 DEF Revived, Closing, Open

(* A connection that closes is open again only as a new connection.        *)
THEOREM NothingRevived == Spec => NoRevival
<1>1. ASSUME IInv, [Next]_vars, NEW c \in Conns, Revived(c) PROVE FALSE
  <2>0. /\ conn \in [Conns -> ConnRec] /\ conn[c] \in ConnRec
        /\ conn[c].state = "CLOSEWAIT" /\ conn'[c].state \in {"LISTEN", "CONNECT"}
        /\ ~(conn'[c].tries < conn[c].tries) /\ conn[c].tries > 0
    BY <1>1 DEF IInv, TypeOK, ConnRec, Bound, Revived, Closing, Open
  <2>a. \A cn : Freed(cn).state = "NONE"
    BY DEF Freed, NotUsed
  <2>1. CASE conn' = conn
    BY <2>0, <2>1
  <2>2. CASE tcpsrv_close
    BY <2>0, <2>2, <2>a DEF tcpsrv_close
  <2>3. ASSUME NEW k \in Peers, tcpsrv_server_accept(k) PROVE FALSE
    <3> DEFINE after == [d \in Conns |-> IF d \in GivenUp THEN Freed(conn[d]) ELSE conn[d]]
    <3>1. conn' = after \/ \E d \in Conns : conn' = [after EXCEPT ![d] = NewConn(k)]
      BY <2>3 DEF tcpsrv_server_accept
    <3>2. NewConn(k).tries = 0
      BY DEF NewConn
    <3>3. conn'[c] = after[c] \/ conn'[c] = NewConn(k)
      BY <3>1
    <3> QED BY <2>0, <2>a, <3>2, <3>3
  <2>4. ASSUME NEW k \in Peers, tcpsrv_server_recv(k) \/ tcpsrv_server_sent(k) PROVE FALSE
    <3>1. pcb[k].cb = "all" /\ Traffic(pcb[k].arg)
      BY <2>4 DEF tcpsrv_server_recv, tcpsrv_server_sent
    <3>2. pcb[k].arg \in Conns /\ Open(pcb[k].arg)
      BY <1>1, <3>1, Called, Allocated DEF IInv, Bound, LeftOver
    <3>3. CASE tcpsrv_server_close(pcb[k].arg, pcb[conn[pcb[k].arg].peer].tcp)
      BY <1>1, <2>0, <3>2, <3>3, NotByClosing
    <3>4. CASE conn' = [conn EXCEPT ![pcb[k].arg].state = "CONNECT", ![pcb[k].arg].recv_check = 0]
      BY <2>0, <3>2, <3>4 DEF Open
    <3> QED BY <3>1, <3>3, <3>4 DEF Traffic
  <2>5. ASSUME NEW k \in Peers, PeerCloses(k) PROVE FALSE
    <3>1. pcb[k].arg \in Conns
      BY <1>1, <2>5, Called, Allocated DEF PeerCloses, LeftOver
    <3> QED BY <1>1, <2>0, <2>5, <3>1, NotByClosing DEF PeerCloses
  <2>6. ASSUME NEW k \in Peers, tcpsrv_poll(k) PROVE FALSE
    <3>1. pcb[k].arg \in Conns
      BY <1>1, <2>6 DEF tcpsrv_poll, IInv, TypeOK, Bound, Sound
    <3>2. CASE tcpsrv_server_close(pcb[k].arg, pcb[conn[pcb[k].arg].peer].tcp)
      BY <1>1, <2>0, <3>1, <3>2, NotByClosing
    <3>3. CASE ~Closing(pcb[k].arg) /\ conn' = [conn EXCEPT ![pcb[k].arg] = Ticked(@)]
      BY <2>0, <3>1, <3>3 DEF Closing
    <3> QED BY <2>6, <3>2, <3>3 DEF tcpsrv_poll
  <2>7. ASSUME NEW k \in Peers, tcpsrv_error(k) PROVE FALSE
    <3>1. conn' = [conn EXCEPT ![pcb[k].arg] = Freed(@)]
      BY <2>7 DEF tcpsrv_error, tcpsrv_list_delete
    <3> QED BY <2>0, <2>a, <3>1
  <2>8. \A k \in Peers : PcbGone(k) => conn' = conn
    BY DEF PcbGone
  <2>9. tcpsrv_start \/ UNCHANGED vars => conn' = conn
    BY DEF tcpsrv_start, vars
  <2> QED BY <1>1, <2>1, <2>2, <2>3, <2>4, <2>5, <2>6, <2>7, <2>8, <2>9 DEF Next
<1>2. IInv /\ [Next]_vars
      => [\A c \in Conns : Closing(c) /\ Open(c)' => conn'[c].tries < conn[c].tries]_vars
  BY <1>1 DEF Revived
<1> QED BY <1>2, Invariant, PTL DEF Spec, NoRevival
=============================================================================
