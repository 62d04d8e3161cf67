------------------------------- MODULE WebSrv -------------------------------
(***************************************************************************)
(* web_srv.c: connections that send pages of the web disk, and uploads     *)
(* that write it.  The handlers run in the lwIP thread, one at a time; the *)
(* loop of webserver_send_fdata is taken one turn a step while the thread  *)
(* is kept (sending).  Pages that need a password, forms (POST), the pages *)
(* that are not on the disk and the page of an error are modelled; cookies *)
(* and the values of page variables are not, and WebSockets are WebSock's. *)
(***************************************************************************)
EXTENDS WebFS

CONSTANTS
  Conns,      (* TCP connections of the server.                            *)
  Uploaders,  (* Those that may upload.                                    *)
  Asks,       (* Asks[c]: the names a connection asks for.                 *)
  Protected,  (* Names with "protect" in them.                             *)
  FormLen,    (* Content-Length of a form.                                 *)
  Rooms,      (* What tcp_sndbuf may be when it is not below MIN_SEND_SIZE.*)
  Window      (* SCB_SEND_SIZE, in words.                                  *)

NoConn == "no connection"
Root == "/"
Cgi == "/web.cgi"
Form == "/fsupload"
NODISK == MaxOpen + 1       (* WEBFS_NODISK_HANDLE                         *)
WEBCGI == MaxOpen + 2       (* WEBFS_WEBCGI_HANDLE                         *)
UPLOAD == MaxOpen + 3       (* WEBFS_UPLOAD_HANDLE                         *)
Slots == 0..MaxNest - 1
Flags == {"CLOSED", "DISCONNECT", "FCLOSE", "FOPEN", "FCALBACK", "RETRYCB", "FINDCB",
          "RXDATA", "HEAD_OK", "POST", "AUTH"}

ASSUME WebSrvAssumption ==
  /\ NoConn \notin Conns /\ Uploaders \subseteq Conns
  /\ MaxNest \in Nat \ {0} /\ Window \in Nat \ {0} /\ FormLen \in Nat
  /\ \A r \in Rooms : r \in Nat /\ r >= Window

VARIABLES
  linkd,    (* Connections with a WEB_SRV_CONN.                            *)
  bffiles,  (* Files of a connection, the innermost in 0 (webfile).        *)
  webflag,  (* SCB_... flags.                                              *)
  rest,     (* What func_web_cb has still to write.                        *)
  upload,   (* HTTP_UPLOAD: stage, image sent, next block.                 *)
  unacked,  (* Connections with data on the way: lwIP will call back.      *)
  sending,  (* The connection whose send loop runs.                        *)
  left,     (* Its msgbufsize - msgbuflen.                                 *)
  page,     (* History: the page a connection sends.                       *)
  overlap,  (* History: the disk was touched under an open file, which is  *)
            (* open still, or a handle of that time is.                    *)
  torn      (* History: the disk that WEBFSInit took last is one that an    *)
            (* upload has not finished.                                    *)

vars == <<stub, isWEBFSLocked, numFiles, disk, linkd, bffiles, webflag, rest, upload,
          unacked, sending, left, page, overlap, torn>>
onDisk == <<isWEBFSLocked, numFiles, disk, torn>>

NoFiles == [i \in Slots |-> Invalid]
NoUpload == [stage |-> "none", img |-> None, next |-> 0]
NoPage == [img |-> None, file |-> 0, sent |-> <<>>, said |-> 0, whole |-> FALSE]

Slot == {Invalid} \cup Handles \cup {NODISK, WEBCGI, UPLOAD}
Held(bf) == {bf[c][i] : c \in Conns, i \in Slots} \cap Handles

TypeOK ==
  /\ FSTypeOK
  /\ linkd \subseteq Conns /\ unacked \subseteq Conns
  /\ bffiles \in [Conns -> [Slots -> Slot]]
  /\ webflag \in [Conns -> SUBSET Flags]
  /\ \A c \in Conns : Len(rest[c]) \in Nat
  /\ upload \in [Conns -> [stage : {"none", "head", "data"}, img : Images \cup {None},
                           next : 0..DiskBlocks]]
  /\ sending \in Conns \cup {NoConn}
  /\ left \in Nat
  /\ overlap \in BOOLEAN /\ torn \in BOOLEAN

Init ==
  /\ \E v \in Images \cup {None} :
       disk = [b \in 0..DiskBlocks - 1 |-> IF v = None THEN None
                                          ELSE IF b < Blocks(v) THEN v ELSE None]
  /\ stub = AllFree /\ numFiles = disk[0] /\ isWEBFSLocked = (disk[0] = None)
  /\ linkd = {} /\ unacked = {}
  /\ bffiles = [c \in Conns |-> NoFiles]
  /\ webflag = [c \in Conns |-> {}]
  /\ rest = [c \in Conns |-> <<>>]
  /\ upload = [c \in Conns |-> NoUpload]
  /\ sending = NoConn /\ left = 0
  /\ page = [c \in Conns |-> NoPage]
  /\ overlap = FALSE /\ torn = FALSE
-----------------------------------------------------------------------------
(***************************************************************************)
(* The functions that open and close files, on w: the table of open files  *)
(* and the files and flags of one connection.                              *)
(***************************************************************************)
Conn(c) == [stub |-> stub, files |-> bffiles[c], flags |-> webflag[c]]
SetSCB(w, f) == [w EXCEPT !.flags = @ \cup f]
ClrSCB(w, f) == [w EXCEPT !.flags = @ \ f]

(* Mutant: only the innermost file is forgotten.                           *)
Close_web_conn_Inner(w) ==
  [stub  |-> [h \in Handles |-> IF \E i \in Slots : w.files[i] = h THEN Free ELSE w.stub[h]],
   files |-> [w.files EXCEPT ![0] = Invalid],
   flags |-> w.flags \ {"FOPEN", "FCALBACK"}]
Close_web_conn(w) ==
  [stub  |-> [h \in Handles |-> IF \E i \in Slots : w.files[i] = h THEN Free ELSE w.stub[h]],
   files |-> NoFiles,
   flags |-> w.flags \ {"FOPEN", "FCALBACK"}]

(* The files move one place out; the outermost of a full stack is dropped. *)
(* Mutant: the file that is dropped stays open.                            *)
web_inc_fp_Open(w, fp) ==
  [stub  |-> w.stub,
   files |-> [i \in Slots |-> IF i = 0 THEN fp ELSE w.files[i - 1]],
   flags |-> w.flags \cup {"FOPEN"}]
web_inc_fp(w, fp) ==
  [stub  |-> WEBFSClose(w.stub, w.files[MaxNest - 1]),
   files |-> [i \in Slots |-> IF i = 0 THEN fp ELSE w.files[i - 1]],
   flags |-> w.flags \cup {"FOPEN"}]

web_inc_fclose(w) ==
  LET files == [i \in Slots |-> IF i = MaxNest - 1 THEN Invalid ELSE w.files[i + 1]]
  IN [stub  |-> WEBFSClose(w.stub, w.files[0]),
      files |-> files,
      flags |-> IF files[0] = Invalid THEN w.flags \ {"FOPEN", "FCALBACK"} ELSE w.flags]

(* web_inc_fopen finds the file and has a handle for it; a zipped file is  *)
(* opened, and closed again when it is to be included.                     *)
CanOpen(w, name) == ~isWEBFSLocked /\ HasHandle(w.stub) /\ Lookup(name) # 0
Zipped(name) == Directory[disk[0]][Lookup(name)].zipped
CanInclude(w, name) == CanOpen(w, name) /\ ~("FOPEN" \in w.flags /\ Zipped(name))
web_inc_fopen(w, name) ==
  LET f == Lookup(name)
      v == web_inc_fp([w EXCEPT !.stub = WEBFSOpen(@, f)], FreeHandle(w.stub))
  IN IF Directory[disk[0]][f].parsed THEN SetSCB(v, {"FCALBACK"}) ELSE v

(* webserver_open_file: "/" is the default page, or a note when there is   *)
(* no disk; two names are not on the disk.                                 *)
OnDisk(name) == IF name = Root THEN "index.htm" ELSE name
Builtin(name) ==
  CASE name = Root /\ isWEBFSLocked -> NODISK
    [] name = Cgi -> WEBCGI
    [] name = Form -> UPLOAD
    [] OTHER -> Invalid
Opens(w, name) == Builtin(name) # Invalid \/ CanOpen(w, OnDisk(name))
webserver_open_file(w, name) ==
  IF Builtin(name) # Invalid THEN web_inc_fp(w, Builtin(name))
  ELSE web_inc_fopen(w, OnDisk(name))
Size(name) ==
  IF Builtin(name) # Invalid THEN 1 ELSE Len(FileData[disk[0]][Lookup(OnDisk(name))])

(***************************************************************************)
(* web_print_headers, after which FOPEN without DISCONNECT is a page to be *)
(* sent.  An error closes the file that was asked for and opens the page   *)
(* of the error; content_len is not reset in between.                      *)
(***************************************************************************)
ErrorPage(status) ==   (* one name for the pages of the other errors       *)
  CASE status = 401 -> "401.htm" [] status = 404 -> "404.htm" [] OTHER -> "4xx.htm"
HasErrorPage(w, status) == status # 200 /\ CanOpen(web_inc_fclose(w), ErrorPage(status))
ErrorFile(w, status) ==
  LET v == ClrSCB(web_inc_fclose(w), {"FCALBACK", "RXDATA", "FCLOSE"})
  IN IF HasErrorPage(w, status) THEN web_inc_fopen(v, ErrorPage(status)) ELSE v
Said(w, status, len) == len + (IF HasErrorPage(w, status) THEN Size(ErrorPage(status)) ELSE 0)
web_print_headers(w, status, redir, len) ==
  LET v == IF status = 200 \/ redir THEN w ELSE ErrorFile(w, status)
  IN IF redir \/ "FOPEN" \notin v.flags THEN SetSCB(v, {"DISCONNECT", "CLOSED"})
     ELSE IF Said(w, status, len) = 0 THEN SetSCB(v, {"FCLOSE", "DISCONNECT", "CLOSED"})
     ELSE v

(* The end of both callbacks.  Mutant: the files are closed, and the       *)
(* connection is left to the peer.                                         *)
EndCallback_Open(w) ==
  IF "FCLOSE" \in w.flags THEN SetSCB(Close_web_conn(w), {"DISCONNECT"}) ELSE w
EndCallback(w) ==
  IF "FCLOSE" \in w.flags THEN SetSCB(Close_web_conn(w), {"DISCONNECT", "CLOSED"})
  ELSE IF "DISCONNECT" \in w.flags THEN SetSCB(w, {"CLOSED"})
  ELSE w

MoreToSend(w) == "FOPEN" \in w.flags /\ w.flags \cap {"CLOSED", "DISCONNECT", "FCLOSE"} = {}

Become(c, x) == \E w \in {x} :
  /\ stub' = w.stub
  /\ bffiles' = [bffiles EXCEPT ![c] = w.files]
  /\ webflag' = [webflag EXCEPT ![c] = w.flags]

(* The overlap ends when the files of that time are closed.                *)
Touched == overlap' = (overlap \/ Held(bffiles) # {})
NotTouched == overlap' = (overlap /\ Held(bffiles') # {})

(***************************************************************************)
(* webserver_send_fdata as far as its loop: there is no memory, or the     *)
(* loop begins.                                                            *)
(***************************************************************************)
StartSending(c, w) ==
  \/ Become(c, EndCallback(SetSCB(w, {"FCLOSE", "DISCONNECT"}))) /\ UNCHANGED <<sending, left>>
  \/ Become(c, w) /\ sending' = c /\ left' \in Rooms

(* The answer to a complete request, headers first.  The send buffer may   *)
(* be too full for more, or even for headers; there may be no memory.      *)
Respond(c, w, status, redir, len) ==
  \/ \E v \in {web_print_headers(w, status, redir, len)} :
     /\ IF MoreToSend(v)
        THEN StartSending(c, v) \/ (Become(c, v) /\ UNCHANGED <<sending, left>>)
        ELSE Become(c, EndCallback(v)) /\ UNCHANGED <<sending, left>>
     /\ unacked' = unacked \cup {c}
  \/ /\ Become(c, EndCallback(SetSCB(w, {"FCLOSE", "DISCONNECT"})))
     /\ UNCHANGED <<sending, left, unacked>>

(* The page that is recorded: one of the disk that four files are enough   *)
(* for, asked for with GET while no handle of before an upload is about.   *)
PageOf(v, status, name, len) ==
  LET f == Lookup(IF status = 200 THEN OnDisk(name) ELSE ErrorPage(status))
  IN IF overlap \/ torn \/ ~MoreToSend(v) \/ v.files[0] > MaxOpen THEN NoPage
     ELSE IF ~PageFits[disk[0]][f] THEN NoPage
     ELSE [img |-> disk[0], file |-> f, sent |-> <<>>, said |-> len, whole |-> FALSE]
-----------------------------------------------------------------------------
(* webserver_received_data: a request whose header and content arrive      *)
(* together.                                                               *)
Status(w, name, password) ==
  IF ~Opens(w, name) THEN 404 ELSE IF name \in Protected /\ ~password THEN 401 ELSE 200

Request(c) ==
  /\ sending = NoConn /\ c \notin linkd
  /\ \E name \in Asks[c], password, get \in BOOLEAN :
       LET w == Conn(c)
           v == SetSCB(IF Opens(w, name) THEN webserver_open_file(w, name) ELSE w,
                       IF get THEN {"HEAD_OK"} ELSE {"HEAD_OK", "POST"})
           len == IF ~Opens(w, name) THEN 0 ELSE IF get THEN Size(name) ELSE FormLen
           status == Status(w, name, password)
       IN /\ Respond(c, v, status, FALSE, len)
          /\ page' = [page EXCEPT ![c] =
               IF get THEN PageOf(web_print_headers(v, status, FALSE, len), status, name,
                                  Said(v, status, len))
               ELSE NoPage]
  /\ linkd' = linkd \cup {c}
  /\ NotTouched
  /\ UNCHANGED <<onDisk, rest, upload>>

(* The header of a form arrives without all of its content: the file is    *)
(* opened, and webserver_received_data waits.                              *)
FormBegins(c) ==
  /\ sending = NoConn /\ c \notin linkd
  /\ \E name \in Asks[c] :
       /\ Opens(Conn(c), name)
       /\ Become(c, SetSCB(webserver_open_file(Conn(c), name),
                           IF name \in Protected THEN {"POST", "AUTH"} ELSE {"POST"}))
  /\ linkd' = linkd \cup {c}
  /\ NotTouched
  /\ UNCHANGED <<onDisk, rest, upload, unacked, sending, left, page>>

(* The rest of the content arrives, or too much of it: parse_header runs   *)
(* again, and finds the file open.                                         *)
FormEnds(c) ==
  /\ sending = NoConn /\ c \in linkd
  /\ webflag[c] \cap {"POST", "HEAD_OK"} = {"POST"}
  /\ \E status \in {200, 413} \cup (IF "AUTH" \in webflag[c] THEN {401} ELSE {}) :
       Respond(c, SetSCB(Conn(c), {"HEAD_OK"}), status, FALSE, FormLen)
  /\ NotTouched
  /\ UNCHANGED <<onDisk, linkd, rest, upload, page>>

(* webserver_sent_callback: data of the connection is confirmed, and the   *)
(* send buffer has room again.                                             *)
CanSend(c) == sending = NoConn /\ c \in linkd \cap unacked /\ MoreToSend(Conn(c))
Sent(c) ==
  /\ CanSend(c)
  /\ StartSending(c, Conn(c))
  /\ unacked' = unacked \ {c}
  /\ NotTouched
  /\ UNCHANGED <<onDisk, linkd, rest, upload, page>>
-----------------------------------------------------------------------------
(***************************************************************************)
(* One turn of the loop of webserver_send_fdata: what is put in the        *)
(* buffer, what the variable that writes has left, and w.                  *)
(***************************************************************************)
Turned(w, out, more, fits) == [w |-> w, out |-> out, more |-> more, fits |-> fits]
AtEnd(w) ==
  LET v == web_inc_fclose(w)
  IN IF "FOPEN" \in v.flags THEN v ELSE SetSCB(v, {"FCLOSE", "DISCONNECT"})
UpTo(n, m) == IF n < m THEN n ELSE m

(* web_send_fnohanle, and a file that is not parsed.                       *)
SendBuiltin(w) ==
  Turned(SetSCB(w, {"FCLOSE", "DISCONNECT"}), <<Part("text", "builtin")>>, <<>>, TRUE)
(* Mutant: a file ends where the buffer is full.                           *)
SendPlain_Full(w) ==
  LET data == GetArray(w.stub, w.files[0], left)
  IN Turned(SetSCB([w EXCEPT !.stub = Advance(@, w.files[0], Len(data))],
                   {"FCLOSE", "DISCONNECT"}), data, <<>>, TRUE)
SendPlain(w) ==
  LET data == GetArray(w.stub, w.files[0], left)
      v == [w EXCEPT !.stub = Advance(@, w.files[0], Len(data))]
  IN Turned(IF Len(data) < left THEN SetSCB(v, {"FCLOSE", "DISCONNECT"}) ELSE v, data, <<>>, TRUE)

(* A page variable writes what fits, and asks to be called again for more. *)
(* Mutant: it begins again when it is called again.                        *)
SendVariable_Again(w, text) ==
  LET n == UpTo(Len(text), left)
  IN Turned(IF n < Len(text) THEN SetSCB(w, {"RETRYCB"}) ELSE ClrSCB(w, {"RETRYCB"}),
            SubSeq(text, 1, n), IF n < Len(text) THEN text ELSE <<>>, TRUE)
SendVariable(w, text) ==
  LET n == UpTo(Len(text), left)
  IN Turned(IF n < Len(text) THEN SetSCB(w, {"RETRYCB"}) ELSE ClrSCB(w, {"RETRYCB"}),
            SubSeq(text, 1, n), SubSeq(text, n + 1, Len(text)), TRUE)

(* The string between two marks.                                           *)
SendCallback(w, str) ==
  IF Len(str) = 1 /\ str[1].kind = "inc"
  THEN IF CanInclude(w, str[1].x)
       THEN Turned(web_inc_fopen(w, str[1].x), <<>>, <<>>, TRUE)
       ELSE Turned(w, <<NoFile>>, <<>>, Lookup(str[1].x) = 0 \/ CanOpen(w, str[1].x))
  ELSE IF Len(str) = 1 /\ str[1].kind = "call" THEN SendVariable(w, Output[str[1].x])
  ELSE Turned(w, <<>>, <<>>, TRUE)

SendParsed(w) ==
  LET n == UpTo(left, Window)
      buf == GetArray(w.stub, w.files[0], n)
      at == SelectInSeq(buf, LAMBDA x : x = Mark)
      To(k) == [w EXCEPT !.stub = Advance(@, w.files[0], k)]
  IN CASE at > 0 /\ "FINDCB" \notin w.flags ->
            Turned(SetSCB(To(at), {"FINDCB"}), SubSeq(buf, 1, at - 1), <<>>, TRUE)
       [] at = 1 /\ "FINDCB" \in w.flags ->
            Turned(ClrSCB(To(1), {"FINDCB"}), <<Mark>>, <<>>, TRUE)
       [] at > 1 /\ "FINDCB" \in w.flags ->
            SendCallback(ClrSCB(To(at), {"FINDCB"}), SubSeq(buf, 1, at - 1))
       [] at = 0 /\ Len(buf) = n -> Turned(ClrSCB(To(n), {"FINDCB"}), buf, <<>>, TRUE)
       [] at = 0 /\ Len(buf) \in 1..n - 1 ->
            Turned(AtEnd(ClrSCB(To(Len(buf)), {"FINDCB"})), buf, <<>>, TRUE)
       [] OTHER -> Turned(AtEnd(w), <<>>, <<>>, TRUE)

Send(w, text) ==
  CASE "RETRYCB" \in w.flags -> SendVariable(w, text)
    [] w.files[0] > MaxOpen -> SendBuiltin(w)
    [] w.files[0] <= MaxOpen /\ "FCALBACK" \notin w.flags -> SendPlain(w)
    [] OTHER -> SendParsed(w)

(* The record of the page: given up when the disk is touched under it or   *)
(* an include found no handle.                                             *)
PageSent(p, t) ==
  IF p.img = None \/ overlap \/ ~t.fits THEN NoPage
  ELSE [p EXCEPT !.sent = @ \o t.out, !.whole = "FCLOSE" \in t.w.flags]

(* When tcp_write fails, the connection is closed inside the turn, before  *)
(* the callback ends; here it ends as with a full buffer, and Disconnect   *)
(* follows.                                                                *)
Turn ==
  /\ sending # NoConn
  /\ \E c \in {sending}, t \in {Send(Conn(sending), rest[sending])} : LET
         go == /\ "FCALBACK" \in webflag[c]
               /\ left - Len(t.out) >= Window
               /\ t.w.flags \cap {"FCLOSE", "RETRYCB", "DISCONNECT"} = {}
     IN /\ Become(c, IF go THEN t.w ELSE EndCallback(t.w))
        /\ rest' = [rest EXCEPT ![c] = t.more]
        /\ left' = IF go THEN left - Len(t.out) ELSE 0
        /\ sending' = IF go THEN c ELSE NoConn
        /\ unacked' = IF t.out # <<>> THEN unacked \cup {c} ELSE unacked
        /\ page' = [page EXCEPT ![c] = PageSent(@, t)]
  /\ NotTouched
  /\ UNCHANGED <<onDisk, linkd, upload>>
-----------------------------------------------------------------------------
(***************************************************************************)
(* upload_boundary and web_rx_buf: a form of parts, sent to /fsupload or   *)
(* to a page.  The part with the image is the last one that matters; it    *)
(* ends at a boundary, which may come too soon: the size in the image's    *)
(* header is compared with all the content that is left, not with the      *)
(* part.  A boundary is found behind a block or alone.                     *)
(***************************************************************************)
UploadBegins(c) ==
  /\ sending = NoConn /\ c \in Uploaders \ linkd
  /\ \E name \in Asks[c] \cup {Form} :
       /\ Opens(Conn(c), name)
       /\ Become(c, SetSCB(webserver_open_file(Conn(c), name), {"POST", "RXDATA", "HEAD_OK"}))
  /\ upload' = [upload EXCEPT ![c] = [stage |-> "head", img |-> None, next |-> 0]]
  /\ linkd' = linkd \cup {c}
  /\ NotTouched
  /\ UNCHANGED <<onDisk, rest, unacked, sending, left, page>>

Uploads(c, stage) == sending = NoConn /\ c \in linkd /\ upload[c].stage = stage

UploadAnswered(c, w, status, redir) ==
  /\ Respond(c, SetSCB(w, {"DISCONNECT"}), status, redir, 0)
  /\ upload' = [upload EXCEPT ![c] = NoUpload]

(* Mutant: the disk stays open to readers.                                 *)
Lock_Not == UNCHANGED isWEBFSLocked
Lock == isWEBFSLocked' = TRUE

(* The header of the part: an image that fits, which locks the disk, or    *)
(* something else, which is refused or, a form's variables, taken.         *)
UploadAccepted(c) ==
  /\ Uploads(c, "head")
  /\ \E v \in Images : upload' = [upload EXCEPT ![c] = [stage |-> "data", img |-> v, next |-> 0]]
  /\ Lock
  /\ Touched
  /\ UNCHANGED <<stub, numFiles, disk, torn, linkd, bffiles, webflag, rest, unacked,
                 sending, left, page>>

UploadRefused(c) ==
  /\ Uploads(c, "head") \/ Uploads(c, "data")
  /\ \/ upload[c].stage = "head" /\ \E redir \in {FALSE, ~isWEBFSLocked} :
          UploadAnswered(c, Conn(c), 200, redir)
     \/ UploadAnswered(c, Conn(c), 400, FALSE)
  /\ NotTouched
  /\ UNCHANGED <<onDisk, linkd, rest, page>>

Written(c) ==
  IF upload[c].next < Blocks(upload[c].img)
  THEN WriteBlock(disk, upload[c].next, upload[c].img)
  ELSE disk

UploadBlock(c) ==
  /\ Uploads(c, "data") /\ upload[c].next < Blocks(upload[c].img)
  /\ disk' = Written(c)
  /\ upload' = [upload EXCEPT ![c].next = @ + 1]
  /\ Touched
  /\ UNCHANGED <<stub, isWEBFSLocked, numFiles, torn, linkd, bffiles, webflag, rest,
                 unacked, sending, left, page>>

(* A boundary: WEBFSInit, which closes every file, those of other          *)
(* connections too, and takes the disk as it is; only then the answer asks *)
(* whether the image was complete.                                         *)
UploadEnds(c) ==
  /\ Uploads(c, "data")
  /\ \E block \in {0, 1} : LET entire == upload[c].next + block >= Blocks(upload[c].img) IN
       /\ disk' = IF block = 1 THEN Written(c) ELSE disk
       /\ numFiles' = disk'[0] /\ isWEBFSLocked' = (disk'[0] = None)
       /\ UploadAnswered(c, [Conn(c) EXCEPT !.stub = AllFree],
                         IF isWEBFSLocked' /\ ~entire THEN 400 ELSE 200, ~isWEBFSLocked')
       /\ torn' = ~entire
  /\ Touched
  /\ UNCHANGED <<linkd, rest, page>>
-----------------------------------------------------------------------------
(* The connection ends, by the peer, a time-out or the server:             *)
(* webserver_disconnect, and tcp_srv_conn.c frees the rest.                *)
Disconnect(c) ==
  /\ sending = NoConn /\ c \in linkd
  /\ stub' = Close_web_conn(Conn(c)).stub
  /\ bffiles' = [bffiles EXCEPT ![c] = NoFiles]
  /\ webflag' = [webflag EXCEPT ![c] = {}]
  /\ rest' = [rest EXCEPT ![c] = <<>>]
  /\ upload' = [upload EXCEPT ![c] = NoUpload]
  /\ page' = [page EXCEPT ![c] = NoPage]
  /\ linkd' = linkd \ {c} /\ unacked' = unacked \ {c}
  /\ NotTouched
  /\ UNCHANGED <<onDisk, sending, left>>

(* Power is lost, and user_start.c calls WEBFSInit.                        *)
Restart ==
  /\ WEBFSInit(disk)
  /\ linkd' = {} /\ unacked' = {} /\ sending' = NoConn /\ left' = 0
  /\ bffiles' = [c \in Conns |-> NoFiles]
  /\ webflag' = [c \in Conns |-> {}]
  /\ rest' = [c \in Conns |-> <<>>]
  /\ upload' = [c \in Conns |-> NoUpload]
  /\ page' = [c \in Conns |-> NoPage]
  /\ overlap' = FALSE /\ torn' = ~Whole(disk)
  /\ UNCHANGED disk

Next ==
  \/ \E c \in Conns :
       \/ Request(c) \/ FormBegins(c) \/ FormEnds(c) \/ Sent(c)
       \/ UploadBegins(c) \/ UploadAccepted(c) \/ UploadRefused(c)
       \/ UploadBlock(c) \/ UploadEnds(c) \/ Disconnect(c)
  \/ Turn
  \/ Restart

(***************************************************************************)
(* The send loop goes on (weak fairness of Turn).  lwIP serves its mailbox *)
(* in order: it reports what is confirmed, and tcp_srv_conn.c ends what    *)
(* the server is done with, though other connections keep the thread       *)
(* (strong fairness of Sent and of Disconnect).  Written with the guards   *)
(* for ENABLED, and with what only these steps do, and Restart.            *)
(***************************************************************************)
Fairness ==
  /\ []<>(sending = NoConn) \/ []<><<sending # NoConn>>_vars
  /\ \A c \in Conns :
       /\ []<>CanSend(c) => []<><<c \in unacked \ unacked'>>_vars
       /\ []<>(sending = NoConn /\ c \in linkd /\ "CLOSED" \in webflag[c])
            => []<><<c \in linkd \ linkd'>>_vars

Spec == Init /\ [][Next]_vars /\ Fairness
-----------------------------------------------------------------------------
(* The search of WEBFSOpen never runs past the table of handles: the last  *)
(* handle is never given out.                                              *)
LastHandleFree == stub[MaxOpen] = Free

(* No handle is lost: an open file belongs to a connection, which closes   *)
(* it.  Closing is spread over the include stack, its overflow, zipped     *)
(* includes, errors, forms in waiting and the end of the connection.       *)
NoHandleLost == OpenHandles(stub) \subseteq Held(bffiles)

(* A handle serves one file of one connection and is open, unless the disk *)
(* was touched under it.                                                   *)
HandleOwned ==
  ~overlap =>
    /\ Held(bffiles) \subseteq OpenHandles(stub)
    /\ \A c, d \in Conns, i, j \in Slots :
         (bffiles[c][i] \in Handles /\ bffiles[c][i] = bffiles[d][j]) => c = d /\ i = j

(* A page arrives as its image has it: marks, variables and includes, up   *)
(* to four deep, are put together right whatever room each call had.       *)
PageFaithful ==
  \A c \in Conns : page[c].img # None =>
    LET whole == WholePage[page[c].img][page[c].file] IN
    /\ IsPrefix(page[c].sent, whole)
    /\ page[c].whole => page[c].sent = whole

(* The Content-Length announced for a file that is not parsed is what is   *)
(* sent, when it was asked for with GET.                                   *)
LengthSaid ==
  \A c \in Conns :
    (page[c].whole /\ ~Directory[page[c].img][page[c].file].parsed) =>
      Len(page[c].sent) = page[c].said

(* The server opens files only from a disk that is whole, unless WEBFSInit *)
(* itself took one that an upload has not finished (torn): an upload that  *)
(* is refused, given up or cut off leaves the disk locked, and one that is *)
(* completed leaves it whole.                                              *)
UnlockedIsWhole == ~isWEBFSLocked => Whole(disk) \/ torn

(* While an image is written, no open file is read: "Lock WEBFS access     *)
(* during the upgrade" (webfs.c).                                          *)
NotReadWhileLocked ==
  [][\A h \in Handles : (isWEBFSLocked /\ stub[h] # Free /\ stub'[h] # Free) =>
       stub'[h] = stub[h]]_vars

(* A page that is being sent ends, its connection closed by the server or  *)
(* lost, unless the disk is touched.                                       *)
PageEnds ==
  \A c \in Conns :
    (MoreToSend(Conn(c)) /\ "HEAD_OK" \in webflag[c] /\ "RXDATA" \notin webflag[c])
      ~> ("CLOSED" \in webflag[c] \/ c \notin linkd \/ overlap)
=============================================================================
