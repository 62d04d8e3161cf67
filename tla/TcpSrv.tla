------------------------------- MODULE TcpSrv -------------------------------
(***************************************************************************)
(* tcp_srv_conn.c: the connections of one server.  lwIP owns the pcbs and  *)
(* calls back; the server keeps a ts_conn per accepted connection in a     *)
(* list, frees it when the pcb is closed, and never learns anything of a   *)
(* pcb whose callbacks it took away.                                       *)
(*                                                                         *)
(* All of it runs in the lwIP thread, one callback at a time.  A pcb is    *)
(* named by the remote endpoint it serves: lwIP keeps one per endpoint,    *)
(* and find_tcp_pcb looks a pcb up by it.  A freed pcb keeps no local      *)
(* port, so a ts_conn that still points to it does not find it.            *)
(***************************************************************************)
EXTENDS Naturals, Sequences, SequencesExt

CONSTANTS
  Peers,      (* Remote endpoints.                                         *)
  Conns,      (* Bound of the model: memory for TCP_SERV_CONN structures.  *)
  Null,       (* The NULL pointer.                                         *)
  MaxConn,    (* max_conn.                                                 *)
  WaitRec,    (* time_wait_rec, in polls.                                  *)
  WaitCls,    (* time_wait_cls, in polls.                                  *)
  MaxTries    (* Bound of the model: failures of tcp_close counted.        *)

ASSUME TcpAssumption ==
  /\ Null \notin Conns \cup Peers
  /\ MaxConn \in Nat \ {0}
  /\ WaitRec \in Nat \ {0} /\ WaitCls \in Nat \ {0}
  /\ MaxTries \in Nat \ {0}

VARIABLES
  listening,   (* Whether the server is in phcfg, with its listening pcb.  *)
  srv_reopen,  (* The flag the application gave the server it started.     *)
  conn_links,  (* The server's list of ts_conn, the newest first.          *)
  conn_count,
  conn,        (* The memory of the ts_conn structures.                    *)
  pcb          (* lwIP's pcbs, with the callbacks set on them.             *)

vars == <<listening, srv_reopen, conn_links, conn_count, conn, pcb>>
server == <<listening, srv_reopen>>

---------------------------------------------------------------------------
(* A pcb: its TCP state ("free" when there is none, "cw" once the peer has *)
(* closed, "closing" from the FIN sent to the end of TIME_WAIT), its       *)
(* argument and its callbacks: all of them, the poll only, or none.        *)
Mute(tcp) == [tcp |-> tcp, arg |-> Null, cb |-> "none"]
NoPcb     == Mute("free")
Live(k)   == pcb[k].tcp # "free"

(* A ts_conn.  tries counts the failures of tcp_close and told the calls   *)
(* of func_discon_cb since it was allocated: both are history.             *)
NewConn(k) ==
  [state |-> "LISTEN", recv_check |-> 0, peer |-> k, tries |-> 0, told |-> 0]
NotUsed(told) ==
  [state |-> "NONE", recv_check |-> 0, peer |-> Null, tries |-> 0, told |-> told]

Linked     == ToSet(conn_links)
Open(c)    == conn[c].state \in {"LISTEN", "CONNECT"}
Closing(c) == conn[c].state = "CLOSEWAIT"

Init ==
  /\ listening = FALSE
  /\ srv_reopen = FALSE
  /\ conn_links = << >>
  /\ conn_count = 0
  /\ conn = [c \in Conns |-> NotUsed(1)]
  /\ pcb = [k \in Peers |-> NoPcb]

---------------------------------------------------------------------------
(* Mutants: the memory is kept, the application is not told.               *)
Freed_Kept(cn) == [cn EXCEPT !.told = @ + 1]
Freed_Silent(cn) == NotUsed(cn.told)

(* tcpsrv_list_delete: tell the application, unlink, free.                 *)
Freed(cn) == NotUsed(cn.told + 1)

(* Mutant: conn_count is left as it was.                                   *)
tcpsrv_list_delete_Uncounted(c) ==
  /\ conn_links' = RemoveFirst(conn_links, c)
  /\ conn' = [conn EXCEPT ![c] = Freed(@)]
  /\ UNCHANGED conn_count

tcpsrv_list_delete(c) ==
  /\ conn_links' = RemoveFirst(conn_links, c)
  /\ conn_count' = conn_count - 1
  /\ conn' = [conn EXCEPT ![c] = Freed(@)]

(* What tcp_close leaves of a pcb when it succeeds: a FIN on its way, or   *)
(* nothing (a reset, when data was left unread).                           *)
CloseResults == {"closing", "free"}

(* Mutant: a close leaves the callbacks as they are.                       *)
Silenced_Heard(c, p, tcp) == IF tcp = "free" THEN NoPcb ELSE [p EXCEPT !.tcp = tcp]

(* What is left of the pcb p, that of c, closed into TCP state tcp.  The   *)
(* first try takes its callbacks away; a later one skips that, so the poll *)
(* the failed try set stays, with the argument, after c is freed.          *)
Silenced(c, p, tcp) ==
  IF Closing(c) /\ tcp = "closing" THEN [p EXCEPT !.tcp = tcp] ELSE Mute(tcp)

(* Mutant: a pcb whose close failed keeps its callbacks.                   *)
Retrying_Heard(p) == p

(* A pcb whose close failed: no callback but the poll that tries again.    *)
Retrying(p) == [p EXCEPT !.cb = "poll"]

(* recv_check says that the close has failed too often: tcp_abandon.       *)
Hopeless(c) == Closing(c) /\ conn[c].recv_check > 3

(* Mutant: the connection stays open.                                      *)
CloseBegun_Open(cn) == [cn EXCEPT !.recv_check = 0]

CloseBegun(cn) ==
  IF cn.state = "CLOSEWAIT" THEN cn ELSE [cn EXCEPT !.state = "CLOSEWAIT", !.recv_check = 0]
Failed(cn) == [cn EXCEPT !.tries = IF @ < MaxTries THEN @ + 1 ELSE @]

(* tcpsrv_server_close, the pcb being in TCP state tcp: it is closed or    *)
(* abandoned, or, when lwIP has no memory for the FIN, left to the poll.   *)
(* Nothing calls it on a pcb of its own that is CLOSED or in TIME_WAIT,    *)
(* whose FIN it would have sent itself.                                    *)
(*                                                                         *)
(* The poll left over from another connection may call it when c's pcb is  *)
(* no longer c's: freed unheard, or cut off.  What the freed pcb reads     *)
(* decides then whether c is freed or tried again; that another pcb has    *)
(* taken over its memory is left out.  The TCP state of a pcb without      *)
(* callbacks tells nothing, and a poll set on one has no argument and only *)
(* abandons it.                                                            *)
tcpsrv_server_close(c, tcp) ==
  LET k   == conn[c].peer
      own == pcb[k].arg = c
  IN \/ /\ ~own
        /\ UNCHANGED pcb
        /\ \/ tcpsrv_list_delete(c)
           \/ /\ conn' = [conn EXCEPT ![c] = Failed(CloseBegun(@))]
              /\ UNCHANGED <<conn_links, conn_count>>
     \/ /\ own
        /\ tcpsrv_list_delete(c)
        /\ \E left \in IF Hopeless(c) THEN {"free"} ELSE CloseResults :
             pcb' = [pcb EXCEPT ![k] = Silenced(c, @, left)]
     \/ /\ own /\ ~Hopeless(c) /\ tcp # "closing"
        /\ conn' = [conn EXCEPT ![c] = Failed(CloseBegun(@))]
        /\ pcb' = [pcb EXCEPT ![k] = Retrying([@ EXCEPT !.tcp = tcp])]
        /\ UNCHANGED <<conn_links, conn_count>>

(* Traffic, and the application's part of it: it goes on, or disconnects,  *)
(* or its answer cannot be queued and tcpsrv_int_sent_data disconnects.    *)
(* What runs after that still writes to the ts_conn, freed or not: the     *)
(* flag busy_bufo, and a trim of a receive buffer that is no more.  Memory *)
(* that nobody took over meanwhile shows nothing of it.                    *)
Traffic(c) ==
  \/ tcpsrv_server_close(c, pcb[conn[c].peer].tcp)
  \/ /\ conn' = [conn EXCEPT ![c].state = "CONNECT", ![c].recv_check = 0]
     /\ UNCHANGED <<conn_links, conn_count, pcb>>

---------------------------------------------------------------------------
(* tspsrv_delete_pcb takes every callback from whatever pcb serves the     *)
(* connection's endpoint, ignores how its tcp_close ends, and frees the    *)
(* ts_conn.  CutOff is what may be left of the pcb p.                      *)
CutOff(p) == {Mute(tcp) : tcp \in IF p.tcp = "free" THEN {"free"} ELSE CloseResults \cup {p.tcp}}

(* The pcbs once every connection in cs was deleted.                       *)
CutOffAll(pcbs, cs) ==
  {q \in [Peers -> UNION {{pcbs[k]} \cup CutOff(pcbs[k]) : k \in Peers}] :
     \A k \in Peers :
       q[k] \in IF \E c \in cs : conn[c].peer = k THEN CutOff(pcbs[k]) ELSE {pcbs[k]}}

(* Whom a full server with srv_reopen gives up for a new connection: the   *)
(* head of the list.                                                       *)
GivenUp ==
  IF conn_count < MaxConn \/ conn_links = << >> THEN {} ELSE {Head(conn_links)}

(* tcpsrv_server_accept.  A refusal for want of heap comes first and only  *)
(* loses the pcb; one for want of a ts_conn comes after the giving up.  A  *)
(* given-up ts_conn may find the pcb just accepted, if the endpoints agree.*)
tcpsrv_server_accept(k) ==
  /\ listening
  /\ ~Live(k)
  /\ conn_count < MaxConn \/ srv_reopen
  /\ LET est   == [pcb EXCEPT ![k] = Mute("est")]
         after == [c \in Conns |-> IF c \in GivenUp THEN Freed(conn[c]) ELSE conn[c]]
         kept  == IF GivenUp = {} THEN conn_links ELSE Tail(conn_links)
         count == IF GivenUp = {} THEN conn_count ELSE conn_count - 1
     IN \E left \in CutOffAll(est, GivenUp) :
          \/ \E c \in Conns :
               /\ left[k].tcp # "free"
               /\ after[c].state = "NONE"
               /\ conn' = [after EXCEPT ![c] = NewConn(k)]
               /\ conn_links' = <<c>> \o kept
               /\ conn_count' = count + 1
               /\ pcb' = [left EXCEPT ![k].arg = c, ![k].cb = "all"]
          \/ /\ conn' = after
             /\ conn_links' = kept
             /\ conn_count' = count
             /\ pcb' = [left EXCEPT ![k] = NoPcb]
  /\ UNCHANGED server

(* Data from the peer, for which there may be no memory: CONNECT and a     *)
(* fresh recv_check in either case.  Data for a connection with rx_null    *)
(* set is dropped, which changes nothing here.                             *)
tcpsrv_server_recv(k) ==
  /\ pcb[k].cb = "all"
  /\ Traffic(pcb[k].arg)
  /\ UNCHANGED server

(* The peer has closed.                                                    *)
PeerCloses(k) ==
  /\ pcb[k].cb = "all"
  /\ tcpsrv_server_close(pcb[k].arg, IF pcb[k].tcp = "est" THEN "cw" ELSE pcb[k].tcp)
  /\ UNCHANGED server

tcpsrv_server_sent(k) ==
  /\ pcb[k].cb = "all"
  /\ Traffic(pcb[k].arg)
  /\ UNCHANGED server

(* Mutant: a poll does not count.                                          *)
Ticked_Not(cn) == cn

(* The timer of a pcb: idle connections are closed, closes are retried.    *)
(* A poll left on a pcb whose ts_conn is freed finds pcb = NULL there and  *)
(* does nothing; once a new connection has taken that memory, it finds its *)
(* own pcb not ESTABLISHED and closes the new connection.  (Anything else  *)
(* that takes the memory is left out.)                                     *)
Waited(cn) ==
  \/ cn.state = "LISTEN" /\ cn.recv_check + 1 > WaitRec
  \/ cn.state = "CONNECT" /\ cn.recv_check + 1 > WaitCls
Ticked(cn) == [cn EXCEPT !.recv_check = @ + 1]

tcpsrv_poll(k) ==
  /\ pcb[k].cb # "none"
  /\ conn[pcb[k].arg].state # "NONE"
  /\ LET c == pcb[k].arg
     IN IF ~Closing(c) /\ pcb[k].tcp = "est" /\ ~Waited(conn[c])
        THEN /\ conn' = [conn EXCEPT ![c] = Ticked(@)]
             /\ UNCHANGED <<conn_links, conn_count, pcb>>
        ELSE tcpsrv_server_close(c, pcb[conn[c].peer].tcp)
  /\ UNCHANGED server

(* lwIP frees a pcb: a reset from the peer, or too many retransmissions.   *)
tcpsrv_error(k) ==
  /\ pcb[k].cb = "all"
  /\ tcpsrv_list_delete(pcb[k].arg)
  /\ pcb' = [pcb EXCEPT ![k] = NoPcb]
  /\ UNCHANGED server

(* The same, or the end of a close, with no error callback set.            *)
PcbGone(k) ==
  /\ Live(k) /\ pcb[k].cb # "all"
  /\ pcb' = [pcb EXCEPT ![k] = NoPcb]
  /\ UNCHANGED <<server, conn_links, conn_count, conn>>

(* tcpsrv_init and tcpsrv_start; the application sets the flag in between. *)
tcpsrv_start ==
  /\ ~listening
  /\ listening' = TRUE
  /\ srv_reopen' \in BOOLEAN
  /\ conn_links' = << >>
  /\ conn_count' = 0
  /\ UNCHANGED <<conn, pcb>>

(* tcpsrv_close deletes the connections and frees the configuration.       *)
tcpsrv_close ==
  /\ listening
  /\ listening' = FALSE
  /\ srv_reopen' = FALSE
  /\ pcb' \in CutOffAll(pcb, Linked)
  /\ conn' = [c \in Conns |-> IF c \in Linked THEN Freed(conn[c]) ELSE conn[c]]
  /\ conn_links' = << >>
  /\ conn_count' = 0

Next ==
  \/ tcpsrv_start \/ tcpsrv_close
  \/ \E k \in Peers :
       \/ tcpsrv_server_accept(k)
       \/ tcpsrv_server_recv(k) \/ PeerCloses(k) \/ tcpsrv_server_sent(k)
       \/ tcpsrv_poll(k)
       \/ tcpsrv_error(k) \/ PcbGone(k)

(* lwIP's slow timer polls every pcb for ever; peers owe nothing.  (A pcb  *)
(* that is closing may be gone, or in TIME_WAIT, before it polls again.)   *)
Spec     == Init /\ [][Next]_vars
FairSpec == Spec /\ \A k \in Peers : WF_vars(tcpsrv_poll(k) /\ pcb[k].tcp # "closing")

---------------------------------------------------------------------------
TypeOK ==
  /\ listening \in BOOLEAN /\ srv_reopen \in BOOLEAN
  /\ conn_links \in Seq(Conns)
  /\ conn_count \in Nat
  /\ conn \in [Conns -> [state : {"NONE", "CLOSEWAIT", "LISTEN", "CONNECT"},
                         recv_check : Nat, peer : Peers \cup {Null},
                         tries : 0 .. MaxTries, told : Nat]]
  /\ pcb \in [Peers -> [tcp : {"free", "est", "cw", "closing"},
                        arg : Conns \cup {Null}, cb : {"all", "poll", "none"}]]

(* conn_count, which admits or refuses connections, is the length of the   *)
(* list, and the server keeps to max_conn.                                 *)
CountExact == conn_count = Len(conn_links) /\ conn_count <= MaxConn

(* The list holds each allocated ts_conn, once, and no other: nothing is   *)
(* leaked and nothing freed stays linked.                                  *)
ListIsMemory ==
  /\ IsInjective(conn_links)
  /\ Linked = {c \in Conns : conn[c].state # "NONE"}

(* A callback that lwIP may still make is made with a ts_conn that is      *)
(* allocated and serves this very endpoint; but for one: the poll a retried*)
(* close leaves on a pcb that sends its FIN, while the ts_conn is freed and*)
(* may serve another endpoint.                                             *)
Owned(k)    == pcb[k].arg \in Linked /\ conn[pcb[k].arg].peer = k
LeftOver(k) == pcb[k].cb = "poll" /\ pcb[k].tcp = "closing"
CallbackOwned == \A k \in Peers : pcb[k].cb # "none" => Owned(k) \/ LeftOver(k)

(* The application is told of the end of a connection once, whichever of   *)
(* the peer, the timer, the application, an error or the server ends it.   *)
ToldOnce == \A c \in Conns : conn[c].told = IF conn[c].state = "NONE" THEN 1 ELSE 0

(* An open connection keeps all of its callbacks: the server hears of data *)
(* and of errors, and its timer runs.  (Giving up a leaked connection for   *)
(* a new one of the same endpoint may cut off the new one.)                *)
OpenIsWatched ==
  \A c \in Conns : Open(c) /\ ~srv_reopen =>
    LET p == pcb[conn[c].peer] IN p.cb = "all" /\ p.arg = c

(* No late acknowledgement or data reopens a connection that is closing:   *)
(* when its memory holds an open one, that is a new one, yet to be closed. *)
NoRevival ==
  [][\A c \in Conns : Closing(c) /\ Open(c)' => conn'[c].tries < conn[c].tries]_vars

(* A connection without traffic does not stay open.                        *)
Heard(c) == \E k \in Peers : pcb[k].arg = c /\ (tcpsrv_server_recv(k) \/ tcpsrv_server_sent(k))
IdleClosed == \A c \in Conns : []<>(~Open(c) \/ srv_reopen) \/ []<><<Heard(c)>>_vars

(* "closing failed, try again later" (tcpsrv_server_close): a connection   *)
(* that is closing has a poll that will try again.                         *)
ClosingRetried ==
  \A c \in Conns : Closing(c) =>
    LET p == pcb[conn[c].peer] IN p.cb = "poll" /\ p.arg = c
==============================================================================
