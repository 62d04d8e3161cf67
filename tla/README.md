# A verification of RTL0B_WEB

RTL0B_WEB is the firmware of a small Wi-Fi module (Realtek RTL8710BN, one
Cortex-M4 core, FreeRTOS, lwIP): a web server with WebSockets and file upload,
on a TCP server library of its own, with a configuration store in flash, Wi-Fi
mode control, sampling by the ADC, a time client and a NetBIOS responder.
This directory holds TLA+ models of its parts, the TLC runs that check them and
the TLAPS proofs about them. Paths below are those of the repository.

## 1. Inventory

Three kinds of activity run on the module: interrupts; the tasks of FreeRTOS
(lwIP's `tcpip` thread, the Wi-Fi driver's tasks, the timer task, the console, the
web server's `qfnk_task`, the reconnection task); and, inside lwIP's thread, the
callbacks of connections and timers, one at a time. Much code that is safe in
lwIP's thread is also called from other tasks.

| Component | State | Operations | Interacts with |
|---|---|---|---|
| Configuration store `api/flash_eep.c` | four flash sectors ("banks") | `flash_read_cfg`, `flash_write_cfg`, `pack_cfg_fmem` | every part that keeps settings; serialised by `_flash_mutex_lock` |
| TCP server `web/tcp_srv_conn.c` | list of servers, each with a list of `TCP_SERV_CONN`; buffers and flags of each | start, accept, receive, sent, poll, error, disconnect, close | lwIP calls it back; it calls the application's `func_listen/recv/sent_cb/discon_cb` |
| WebSocket `web/websock.c`, `web/web_websocket.c` | the frame being parsed (`WS_FRSTAT`), close flags | parse a header, unmask, transmit, `websock_rx_data` | runs inside the TCP server's receive and sent callbacks |
| HTTP server `web/web_srv.c` | per connection a `WEB_SRV_CONN`: SCB flags, a message buffer, a stack of up to four open files (a page and its includes), an upload; the deferred call `qfnt`, its queue and task | request and form parsing, passwords, error pages, the send loop, uploads, deferred calls, init/close/reinit | called back by the TCP server; calls WebFS, the page variables, the flash driver and the `qfnk` task |
| Variables and callbacks `web/web_int_vars.c`, `web_int_callbacks.c` | a page variable may keep its place in the connection between two calls | set and print settings | Wi-Fi control and scan, SNTP, store |
| Helpers `web/web_utils.c`, `web_auth.c` | none | conversions, URL decoding, one password comparison | HTTP server |
| WebFS `web/webfs.c` | a table of file handles (`MAX_WEBFS_OPENFILES` is 31, the last is never given out), a shared cache of one directory record, a lock, the disk in flash | open, read, seek, close, init | HTTP server; an upload writes the disk below it |
| ADC `src/adc/adc_ws.c` | a ring of samples, its cursors and counters | the interrupt; commands of a WebSocket | WebSocket transmit |
| SNTP `net/sntp/sntp.c` | the pcb, timers, a retry timeout, the clock | request, retry, resolver answer, datagram, init, stop | lwIP timers and resolver; started and stopped by settings |
| NetBIOS `net/netbios/netbios.c` | a pcb and a name | answer a query | lwIP |
| Wi-Fi control `wifi/wifi_api.c` | mode, settings, reconnection task | start AP/STA, connect, save, events | driver, event table, store |
| Wi-Fi scan `wifi/wifi_api_scan.c` | the scan in progress (a record, a buffer of results and pointers sorted by signal), the list kept for the web server and its timer | start, each result, done, close by timer, by a page or by the next scan | driver events, timer task, web variables, console |
| Event table `wifi/wifi_ind.c` | three rows of handlers per event | register, unregister, indicate | driver, Wi-Fi control, scan |
| Console, AT commands, start-up | line buffer | calls into the other parts | all |
| Utilities: flash and ADC access, formatted output | a mutex | register access, printf | all |
| Pages in `src/webfiles/` and the builder of the disk | | | served by the HTTP server |
| Vendored code | `wifi_conf.c`, `wifi_util.c`, `wifi_promisc.c`, `wifi_simple_config.c`, `rtw_wpa_supplicant/`, `wlan/realtek/`, `rtw_wowlan/`, `c_stdio.c` | | closed libraries |

### What is hard, and what makes each part correct

* **Store.** Power may fail between any two programmed words, and NOR flash only
  clears bits. Correct: the next boot always finds one complete bank as the current
  one, a save disturbs no object but its own, success means stored.
* **TCP server.** The life of a connection ends in many ways (the peer's close or
  reset, the timer, the application, failed transmission, closing the server), some of
  them while another end is under way; lwIP frees pcbs and calls back with whatever
  argument it was left. Correct: every connection is freed once and reported once, the
  counter that admits connections is exact, no callback reaches freed memory, closing is
  final, idle connections end.
* **ADC.** The interrupt runs between any two instructions of the command. Correct: what
  a browser receives is a run of consecutive samples with the right number.
* **SNTP.** The client lives as long as one timer or lookup is to come; late and doubled
  datagrams, failed lookups and a stop with callbacks under way must neither end
  nor multiply them.
* **WebSocket.** A frame arrives in pieces and the parser is run again over a buffer
  that keeps what it did not consume, from the receive and from the sent callback.
  Correct: every head is read once and nothing else as a head, every byte of payload is
  unmasked and delivered once, an answer that takes several callbacks is finished, a close
  is the last thing sent.
* **HTTP server.** A page is put together from pieces of nested files, marks and variables,
  and each piece may be cut by the send buffer and continued by another callback; many paths
  close files, and an upload writes the disk under files that are open and locks out new ones. Correct: a
  handle is never lost or shared, a page arrives as the image has it and ends, what is
  announced is sent, and only a whole disk is served.
* **Wi-Fi scan.** The web server and the console start scans, the driver reports and ends
  them, and a timer closes what is left over, in four tasks that each test flags and act on them
  later; a page prints the list over several callbacks. Correct: a buffer is held once, a
  scan always ends, handlers never write to a record that is gone, the strongest access points are kept.

## 2. Plan

In the order of the risk they carry:

1. `FlashEep` with the abstract `ConfigStore`: done; that the one implements the other is proved too.
2. `AdcRing`: done; the order, the numbers and the blocks of samples are proved too.
3. `Sntp`: done, with proofs.
4. `TcpSrv`: done, all its invariants proved.
5. `WebSock`: done, all its invariants and action properties proved.
6. `WebSrv` over `WebFS` and `WebImage`: done, all its invariants proved.
7. `WifiScan` over `WifiInd`: done, all its invariants proved.

What could come next: the deferred call of `web_srv.c` and its task, with the server closed and
started again from inside a request; joining an access point (`wifi_connect` of
`wifi_conf.c`), whose events come from the closed driver; and the two encodings of a WebSocket
length against a reference.

## 3. The modules

| Module | Models | Runs |
|---|---|---|
| `ConfigStore` | what `flash_eep.h` promises: a map from ids to contents | |
| `FlashEep`, `MCFlashEep` | `flash_eep.c` | `flasheep_*` |
| `FlashEepProofs` | theorems about `FlashEep` | |
| `AdcRing` | `adc_ws.c` | `adcring_*` |
| `AdcRingProofs` | theorems about `AdcRing` | |
| `Sntp` | `sntp.c` | `sntp_*` |
| `SntpProofs` | theorems about `Sntp` | |
| `TcpSrv` | `tcp_srv_conn.c` | `tcpsrv_*` |
| `TcpSrvProofs` | theorems about `TcpSrv` | |
| `WebSock`, `MCWebSock` | `websock.c`, `web_websocket.c`, and what they use of `web_srv.c` and `tcp_srv_conn.c` | `websock_*` |
| `WebSockProofs` | theorems about `WebSock` | |
| `WebImage` | the images of the web disk, and what a page of one should be | |
| `WebFS` (extends `WebImage`) | `webfs.c`, and the flash an upload writes | |
| `WebSrv` (extends `WebFS`), `MCWebSrv` | `web_srv.c` | `websrv_*` |
| `WebSrvProofs` | theorems about `WebSrv` | |
| `WifiInd` | `wifi_ind.c` | |
| `WifiScan` (extends `WifiInd`) | `wifi_api_scan.c`, the handler of results of `wifi_conf.c`, `web_wscan_xml` of `web_int_callbacks.c` | `wifiscan_tasks` |
| `WifiScanProofs` | theorems about `WifiScan` | |
| `SeqFacts` | lemmas about sequences and least elements that several proofs cite | |

Operators named after the code with a suffix (`NextSlot_Late`) are variants of the
operator below them with a plausible error put in: they are used nowhere, and
substituting one breaks the property it was written for.

### FlashEep

`hdr` and `cells` are the flash: a header and the words of each bank. A word is the set
of its 1 bits, so programming is intersection and an erased word is the set of all bits.
The remaining variables are the locals of the call in progress; a power loss resets
them and leaves the flash. One action per write: formatting (`flash_read_cfg`,
`flash_write_cfg`), the two halves of an erase, each record `pack_cfg_fmem` copies
(`PackRecord`), the header that commits it (`PackCommit`), the head and each data word of
a record. Records packed into a bank without a header are copied in one step each: that
bank cannot be current before the commit, and is erased before it is used again.

`ImplementsStore` is a refinement: what `flash_read_cfg` would return for each id, and the
save under way, behave as `ConfigStore`. The save's own object may read as
anything while it is saved or after a power loss; no other object changes, ever.

Bounds: headers count down from `Top` (3 or 4 instead of 2^32 - 1), which bounds
the packs; banks of 7 or 9 words, so that a bank is full after three or four saves, objects of
one or two words. `flasheep_store` has two ids only, so that a pack never has two objects to
carry over: with two it loses both, which is what `flasheep_pack` shows. In `flasheep_store` memory may run
out (`HeapMayFail`), when the code's error 5 becomes the address of a write. The buffer `pack_cfg_fmem`
reads a record into is taken for large enough, which it is not (see 4).

### AdcRing

One action per step of a command; `adc_int_handler` may come between any two while `irq`
is set. `adc_getdata` is one step, since it disables interrupts, and the
subtraction of `adc_chkdata` is two, in either order. Samples carry their number, a history
the program does not have, so that `BlockExact` and `IndexExact` can compare what is sent with
what was converted. Bounds: a ring of four, blocks of two, 16-bit counters of
five values (both wrap), nine samples after a start.
Deadlock is not checked: the model stops when the samples are used up.

### Sntp

Timers have no time: one may fire whenever it is set, which includes every order the real
delays allow. `request`, `retry` and `lookups` count what is pending. `sent` and `heard` are histories.
`MaxStops` bounds how often the client is switched off and on again while old timers pend.
Each datagram received cancels a timer of either kind and sets another (`sntp.c:462`, `:520`), so that a stream
of datagrams puts off the next request for as long as it lasts. `FairSpec` therefore assumes only that lwIP's
thread runs a timer unless a datagram sets it anew, and that a lookup ends; nothing is
assumed of the network, so an answer is never owed. lwIP's timer loop and its
resolver, which gives up after its retries and then calls back, justify that. `KeepsTime` says that a client left
on sends requests for ever or hears datagrams for ever.

### TcpSrv

A pcb is named by the endpoint it serves: its TCP state, its argument and which callbacks
are set. A connection is a cell of memory: its state, `recv_check`, and two
histories, the failures of `tcp_close` and the calls of `func_discon_cb`. `Traffic` stands
for the application, which may disconnect or fail to send in any callback.
`tcp_close` succeeds (leaving a FIN under way or nothing) or fails for want of memory. lwIP frees a pcb
at any time: with an error callback (`tcpsrv_error`) or without (`PcbGone`). The server may be
closed and started again with connections in any state.

The first try to close takes the callbacks off the pcb; when it fails a poll is set, and a retry that
succeeds frees the `TCP_SERV_CONN` and leaves that poll, with its argument, on the pcb whose FIN is under way
(`tcp_srv_conn.c:593`-`600`, `Silenced`). `CallbackOwned` excepts this poll (`LeftOver`) and no other callback.
What it finds depends on the freed memory. The model takes two cases: nobody has taken it, and `pcb` still
reads NULL, so that the poll does nothing; or a new connection has, whose own pcb is then tested and which
is closed (`tcpsrv_poll`). A connection closed in this way may no longer own its pcb (`own`), and what the
freed pcb reads decides whether it is freed. Other owners of the memory are not modelled. The same holds of the
code after `tcpsrv_server_close` in a callback, which still clears `busy_bufo` (`:307`) or trims the receive buffer (`:476`)
of a connection that may be freed: it is taken to show nothing.

Bounds: three endpoints, two connections allowed, three cells of memory, so that a full
server, a refusal for want of memory and a leaked connection all occur. `FairSpec`
assumes that lwIP's slow timer polls a pcb that has a poll callback, which it does for ever, unless the FIN
of the pcb is under way: such a pcb may end before it is polled again.

### WebSock

One connection after its handshake. `wire` holds the bytes of the peer's frames that have not
arrived, `pbufi` the receive buffer and `cntri` what of it is processed; a byte is its frame, its
place in it, and whether it is as sent, unmasked, overwritten or garbage, which is all that the mask and
the parser tell apart: unmasking with another frame's mask or at another place gives garbage.
`ws` is `WS_FRSTAT`, `scb` the bits of `webflag` that matter. `Recv` and `Sent` are the two callbacks;
each starts `websock_rx_data`, whose loop is taken one turn a step (`at`): a head, or a
block in one of its statuses, then the trim of the buffer. Nothing interleaves with it, as all of
it runs in lwIP's thread; `Return` is what both callbacks do afterwards, `web_int_disconnect` included.
`WebsocketTxFrame` gives every outcome lwIP allows: sent, refused, or the head sent and the
payload refused. Refusals for want of room, or by a pcb that is no longer connected, leave the connection as it
is. When `tcp_write` itself fails the code closes the connection inside the call (`tcp_srv_conn.c:301`), and
`websock_rx_data` goes on through the connection that was freed; the model takes such a frame for refused, after which
`Return` gives the connection up. `last` is the last frame sent. `heads`, `echo` and `taken` are histories.

The peer masks its frames, sends each message in one frame, and sends a CONTINUE only
where it continues nothing. `Patient` holds the frames after which it waits until the server is
done. In `websock_echo` these are the texts, PONGs and empty messages: what arrives with a text is
damaged (`websock_pages`), and what arrives with an empty frame is freed with it
(`web_trim_bufi` with nothing processed frees the whole buffer).

`cramped` records that a block did not fit the send buffer with its reserve of 8 bytes. Below the
reserve `tcp_sndbuf - 8` is negative and compared as unsigned, so that the block becomes the whole
remainder of the frame, past what has arrived; at exactly 8 an empty frame goes out and the buffer is
freed. The model does the same, and `HeadsAreFrames`, `EchoInOrder`, `TextsTaken` and
`EchoCompletes` are stated for connections on which this did not happen; `TypeOK`,
`AnswersInOrder`, `NothingAfterEnd`, `AnswerEnds` and `CloseCompletes` hold with it.

Bounds: two frames, of the twelve of `EchoFrames`, with heads of two bytes (one sent), payloads up to
three, a send buffer of ten, answers of up to three parts. Two frames are enough for a frame to be
read over what another left; one frame of three bytes is cut in every way, and fills a send buffer whose
acknowledgements are late. `EmptyParts` is off: an answer whose first part is empty waits for
other traffic to be continued. Deadlock is not checked, since a connection may end.

`FairSpec` assumes that a callback returns, that what the peer sent arrives, and that what was sent is
acknowledged: the first holds as every turn is finite C code, the others as long as the peer
is there; a peer that vanishes is ended by `TcpSrv`'s poll. The peer owes no further frame.

### WebImage, WebFS, WebSrv

The program that builds a disk is not in the repository, so `WebImage` is written from what the
server reads and from the comment at the head of `webfs.c`. A file is a sequence of parts (a text, a
doubled `~`, an include, a variable); on the disk a part is a run of words with marks between
them, and the server has to find the parts again. `WholePage` is the reference: what the page should be,
its variables replaced by their output and its includes by the files, up to four deep.

`WebFS` has the table of handles (`stub`), the lock, the number of files, and flash as
blocks that each hold a piece of one image or nothing; its operators are the calls of `webfs.h` as
functions of the table. A read through a handle reads whatever is in flash at that place now.

`WebSrv` keeps, for each connection, the file stack (`bffiles`), the SCB flags, what a
variable has still to write (`rest`) and its upload. The functions that open and close files
(`web_inc_fp`, `web_inc_fclose`, `web_inc_fopen`, `webserver_open_file`, `Close_web_conn`,
`web_print_headers`) are operators from a connection's files and the table to the next ones, so that an
action is a composition of them, as in the code. `Request`, `FormBegins` and `FormEnds` are
`webserver_received_data`; `Sent` is the sent callback; `Turn` is one turn of
`webserver_send_fdata`, while which lwIP's thread is kept (`sending`); `Upload...` are the stages of
`web_rx_buf` and `upload_boundary`; `Disconnect` is the end of a connection by either side;
`Restart` is a loss of power at any point, after which `WEBFSInit` reads the disk as it is.

An upload is a POST of several parts to any page, which may come in blocks and end at a boundary, found behind a block or
alone. Such a boundary may come too soon, as the size in the header of the image is compared with all the content that is
left and not with the part (`web_srv.c:1304`): a further part, or what follows the last one, makes room for a short image.
At the boundary `WEBFSInit` takes the disk as it is and unlocks it, and only then is the size looked at
(`:1466`-`1475`). `UploadEnds` has both outcomes. A boundary comes between blocks in the model; parts that follow a whole
image only wait, and are left out. When `tcp_write` fails inside `Turn` the connection is closed there and then
(`tcp_srv_conn.c:301`); in the model the turn ends as with a full buffer, and `Disconnect` follows.

`overlap` records that the disk was touched under an open file, until the handles of that time are
closed: the `WEBFSInit` at the end of an upload frees the handles of every connection, and a
connection goes on through a handle that is another's by then. `HandleOwned`, `PageFaithful` and
`PageEnds` are stated without it; `LastHandleFree`, `NoHandleLost` and `UnlockedIsWhole` hold with it.
`torn` records that `WEBFSInit` last took a disk that an upload had not finished, at a start or at a boundary that came
too soon: the header of an image is written first, so that a half-written disk is taken for a whole one and served.
`PageFaithful` is about pages begun on other disks, and `UnlockedIsWhole` about the locks in between: an upload that is
refused, given up or cut off leaves the disk locked, one that is completed leaves it whole.

Bounds: two images. One has a default page with an include that is zipped, one that has includes of its own (four files deep
in all), a variable that needs several calls and a doubled mark; a static file; and a page for
error 404. The other has a default page whose includes are five deep, one more than the stack holds, the last of them a
file the uploader asks for as well, so that together they need every handle; it has no error page, so that an upload changes every address. Four open files per connection
(as in the code), six handles (five usable, so that handles run out), two connections, one of which
uploads; send buffers of two or three words with a window of two, so that a piece ends before, at
and after the end of a buffer; blocks of 16 words, two to a sector, three on the disk. One connection
uploads at a time in the model: with two the first to end unlocks the disk while the other
still writes (see 6).

`Fairness`: the send loop goes on (it is finite C code), lwIP reports data that is confirmed, and a connection
the server is done with ends, though other connections keep the thread: lwIP serves its
mailbox in order. It is written with the guards of the actions in place of `ENABLED`. Nothing
is assumed of requests, uploads, or of the send buffer beyond that it is not below `MIN_SEND_SIZE` when lwIP
calls back. A connection whose peer vanishes is ended by `TcpSrv`'s poll.

### WifiInd, WifiScan

`WifiInd` is the table of handlers as functions: registering takes the first free row unless the
handler has one, and a full table drops the registration.

In `WifiScan`, `scan` is the record `scan_result_handler_ptr` with its results and the pointers sorted by
signal, `web` is `web_scan_handler_ptr`, `heap`, `timers` and `running` are what is allocated and
set. `api_wifi_scan` is taken in three steps, as its two calls of the driver may block
(`api_wifi_scan`, `ChannelsSet`, `ScanAsked`); the handlers of the driver's events (`Report`, `Done`), the
timer (`TimerEnds`) and the pages (`PageBegins`, `PageContinues`) come between them. Every call that may fail
does: the timer, memory, both driver calls, and `xTimerChangePeriod`. `WifiOff` is
`wifi_run(RTW_MODE_NONE)`, which forgets the scan and the handlers at any time. The driver may go
on reporting a scan that was closed.

When memory for the results runs out, `ap_details` is NULL before `wifi_close_scan` is called (`wifi_api_scan.c:123`). If
the task's own scan was closed meanwhile and another task has started one, that one's buffer is lost
(`Unallocated`), as when a crossed start succeeds. `wifi_close_scan` is taken whole: two tasks inside it at once are left out (see 6).

`heard` is a history of the best signal reported of each access point, against which
`KeepsStrongest` compares the list. `crossed` is set when a task goes on with a
scan that was closed while it was starting it: the buffer it then allocates, or the one of the scan started meanwhile, is lost, and the
handlers stay registered without a scan. The model stops there (`Abandoned`), and its invariants are stated up to
that point; section 6 says what follows.

Bounds: three access points and a list of two, so that the weakest gives way and comes back; two
signals, so that there are ties and rises; one buffer and one timer, so that a leak blocks the next scan; two pages,
so that one closes the list of the other; two scans with the driver, so that the end of
one comes during the next; three rows of the table (as in the code). `Fairness`:
the driver's calls return and timers run out. Nothing is assumed of the driver's events.

## 4. The runs

| Run | Result | What it shows |
|---|---|---|
| `flasheep_store` | pass | the flash implements `ConfigStore` under power loss between any two words and exhausted memory; headers stay apart; the current bank is never erased |
| `flasheep_pack` | violation | two objects carried over by a pack are programmed at one address (`flash_eep.c:216`, `:232`) |
| `adcring_ring` | pass | blocks are runs of consecutive samples with the right index, whatever the interrupt does |
| `sntp_on` | pass | a client switched off and on is never without a timer or lookup while on, its chains do not multiply, and left on it keeps asking, unless datagrams keep coming for ever |
| `sntp_off` | violation | a lookup or retry timer survives `sntp_stop` and sends through a null pcb (`sntp.c:653`) |
| `tcpsrv_life` | pass | connections are freed once, told once, counted right, watched while open, never reopened, and closed when idle; no callback but the poll of a retried close outlives its connection |
| `tcpsrv_retry` | violation | a reset during a failed close leaks the connection (`tcp_srv_conn.c:547`) |
| `websock_echo` | pass | heads, payloads and texts are found whole however bytes are cut; answers and closes are finished, and nothing follows a close |
| `websock_pages` | violation | the 0 that ends a text destroys the head of the command that arrived with it (`web_websocket.c:183`) |
| `websrv_disk` | pass | handles are never lost or shared, pages arrive whole and end, announced lengths are right, and only a whole disk is served but for one that `WEBFSInit` took unfinished, through uploads, cut connections and restarts |
| `websrv_lock` | violation | an upload locks out opens, but files that are open are read while the disk is rewritten (`web_srv.c:1322`) |
| `wifiscan_tasks` | pass | buffers, timers and handlers are kept in step whatever the four tasks do, the strongest access points are kept, and a scan ends |

Type invariants and `PackElsewhere` are proved and are not repeated in the runs, except `TypeOK` of
`WebSrv`, the largest state, which is in both. The largest runs have about 240000 states.

The violations are disagreements between the code and a comment of it, each quoted in
`PROJECT.json`. Some more were read off while modelling and have no run of their own:

* When memory runs out, `pack_cfg_fmem` returns the error 5 (`flash_eep.c:209`), which
  `flash_write_cfg` takes for an address and programs (`:286`): the call reports success and stores
  nothing. `flasheep_store` includes it, and its refinement takes such a save for a failed one (`strayed`).
* `pack_cfg_fmem` reads a record of up to 516 bytes, head included, into a buffer of 129: the size is divided by four
  as if `malloc` counted words (`flash_eep.c:206`). Objects above 124 bytes are written past its end.
* A full block of samples is 4 bytes longer than the buffer it is sent from (`adc_ws.c:266`).
* `tcp_srv_conn.h:59` and `tcp_srv_conn.c:575` say that a failing close is repeated three
  times and then forced. `recv_check` is reset when the close begins (`:539`) and incremented only
  outside CLOSEWAIT (`:634`), so `tcp_abandon` is never reached.
* The comment at `tcp_srv_conn.c:542` says that reception, transmission and poll are taken off a connection that closes.
  A retried close skips this and leaves the poll of the failed one on the pcb (`:593`-`600`), with a
  `TCP_SERV_CONN` that is freed. If a new client's connection is allocated there, the left-over poll closes it: it sees a pcb
  that is not ESTABLISHED.
* `web_srv.c:1466` unlocks the disk at any boundary and looks at the size afterwards. The comment behind both answers says
  "не всё передано или неверный формат" (not all was transmitted, or a wrong format), yet the half-written disk is served.
* `tcp_srv_conn.h:87` says that `srv_reopen` closes the oldest connection. The head of the list is
  closed (`:773`), and new connections are inserted there (`:803`). No application sets the flag.
* A PING has no answer and a PONG is sent back: `WebsocketHead` gives PING the status `sw_frs_pong`,
  which `websock_rx_data` drops, and PONG the status `sw_frs_ping`, which it echoes; the comment of
  both says "эхо" (echo, `websock.c:143`, `:149`).
* A fragmented message is never completed: CONTINUE adds its length to `frame_len` and sets `cur_len` to 0
  (`websock.c:114`, `:158`), so that the loop waits for the bytes of the first fragment again.

## 5. What is proved

For every value of the constants that meets the `ASSUME`s of the module:

* `FlashEepProofs`: `TypeOK`, `HeadersDistinct`, `PackElsewhere` as invariants and
  `CurrentNeverErased` as an action property. The strengthening says which banks may carry
  the least header at each `pc`: it is inductive because a pack chooses its bank when the
  call begins, and nothing but the call changes a header before it ends.

  `ImplementsStore` is proved for every behaviour in which no pack has two objects to carry over
  (`StoreImplemented`, with `[]FewToCarry`), and so without a condition for a flash of two objects
  (`StoreOfTwoImplemented`). With more it fails: `flasheep_pack` shows a pack that writes two
  objects at one address. The invariant is `SInv`: the current bank is a `Log`, heads one behind the
  other with room for their data and erased words after the last; a bank being packed is blank
  or holds the one object so far (`Single`); a record being written is the last one, with the
  words written so far right and the others erased (`Filling`). The lemmas say what each write does to what a bank
  reads as (`HeadAppended`, `DataWritten`, `OneCarried`), and one lemma per operation maps its steps to those of
  the store. The walk of `get_addr_fobj` is recursive; `WalkEnds` shows that it visits the least set closed
  under its steps, by the first address at which it would not, and nothing else is known of it.
  `LayoutAssumption` asks what keeps a head from looking erased: a size the two bits of the model
  hold (the code refuses more than `MAX_FOBJ_SIZE`, far from 0xFFFF) and no empty object (callers
  save a `sizeof`), and that an object fits into an erased bank (512 bytes of 4096).
* `AdcRingProofs`: `TypeOK`, `BufferWhileUsed`, `NeverOverreads`, `RingInOrder`, `IndexExact`,
  `BlockExact`. The inductive invariant ties the slots to `irq` and to `pc`, and says that between the
  two loads and the use of the count the interrupt can only add samples or, when the ring is full, keep
  it full. The last three need more (`KInv`): the number of the oldest sample and the sum of the
  two counters differ by a multiple of `Wrap`, for some multiple, since both have wrapped any number of times.
* `SntpProofs`: `TypeOK`, `NeverSilent`, and `ChainsBounded`; a client
  that is off has one chain less than the bound, which makes the bound inductive.
* `WebSockProofs`, for frames of any kind, length and number, cut in any way, and any size of the buffers:
  * `TypeOK` and the action property `NothingAfterEnd`. Types need to
    know that every byte in the buffer is of a frame the peer has sent, that a block never goes past its
    frame, and that a frame is in progress only when a head was read (`Sound`). `EndInv`
    adds where the mark of an end is kept: a last frame that is a close, or was cut short, is remembered in
    `ws.flg` or by DISCONNECT; with either, no callback is in the loop.
  * The action property `AnswersInOrder`, for any peer. Bytes may be overwritten and heads read where there are none, but
    the first bytes of frames keep their order in the buffer and on the wire (`InSequence`), those not read yet are of
    frames after the last one answered (`Unread`), a byte that was masked is never a head again
    (`OrderMask`), and once the final part of an answer is out nothing of its frame is left (`Answered`).
  * `HeadsAreFrames`, `TextsTaken` and `EchoInOrder`. While the connection lives and no block was too long,
    what is in the buffer and on the wire `Follows`, byte by byte, the place the last head and `cur_len` say;
    what went back and what was handed over is all up to that place (`RInv`: `Placed`, `Reading`,
    `Echoed`, `Told`); of a connection that is given up the `Past` stays true. `RInv` also says where
    `cntri` may stand when a turn begins (`Trimmed`): at 0 or at the end of the buffer, since `WebsocketHead`
    reads at the start of the buffer wherever `cntri` is. `Payloads` is a recursive function; that its values
    are the joins of the payloads is `UptoExists` and `PayloadsAre`, by the least counterexample.

    The hypothesis is `PeerWaits`, of the constants: the peer waits after a text or a PONG with a payload, whose
    callback returns with the buffer not trimmed, and after an empty binary message, which frees the buffer with
    what is behind it. Without it the properties fail: `websock_pages` is the case of the text. The frames
    `websock_echo` has in `Patient` are just those that `PeerWaits` asks for among `EchoFrames`.

* `TcpSrvProofs`: `TypeOK`, `CountExact`, `ListIsMemory`, `CallbackOwned`, `ToldOnce`, `OpenIsWatched`
  and the action property `NoRevival`. The invariants support each other, and `Bound` is added to them: a
  connection in use has an endpoint, one that closes has failed to before, only open connections are
  called for data, a pcb that calls has an argument, a freed pcb calls nobody, a server that is closed has none. `CallbackOwned`
  has the exception of section 3. The lemmas follow the functions of the code (`Deleting`, `Serving`, `Strayed`, `Closed`,
  `Taken`, `Refused`; `Strayed` is the left-over poll on another's connection), and the actions use them.
* `WebSrvProofs`, for any images, any number of connections and handles, any depth of includes and
  any room in the send buffer:
  * `LastHandleFree`, `NoHandleLost`, `HandleOwned`. Each function that opens or closes files `Keeps` the
    table: a handle open after it is the connection's, or was open before and is another's; and
    what the connection holds is open, each through a handle of its own. `Keeps` composes, so that each
    action is a chain of functions, and `Moving` turns it into the invariant of all connections.
  * `TypeOK`. `TInv` adds what the types rest on: a word between marks that names a variable names one
    that is known, and the place in a file of an open handle is on the disk.
  * `UnlockedIsWhole`. An upload that writes has locked the disk, and the blocks it has passed are those of
    its image (`UInv`), so that the last one completes the image; a boundary before it sets `torn`, which the
    property excepts. Two uploads at a time break it, as section 6 says,
    so the theorem is about behaviours with `[]OneUpload`; with a single uploader it is about all.
  * `LengthSaid`. While a file that is not parsed is sent, its handle stands after as many words as
    were sent (`LInv`, over `BInv`: what is known of a connection whose page is recorded). The hypothesis is that no image has a page `401.htm`: such a page goes
    out after the length of the page the password was asked for.
  * `PageFaithful`, with `[]OneUpload`. `PInv` says that the open files of a connection are a
    `Stack` of frames, each at a place (`ParsedAt`) in the parts of its file, and that what was sent and what the
    frames have left make up the page (`Stands`, `SaidIs`). `Fits`, `Page`, `FileAddr` and `FlattenSeq` are
    reasoned about by the least argument that would be a counterexample, where a text would use
    induction. The hypotheses are `Window >= 2`, since a mark and a word are taken from the disk together, and
    `PlainIncludes`: a file without the flag `WEBFS_FLAG_HASINDEX` that a page includes is text only, since
    the code parses it as it does the page.
* `WifiScanProofs`: `TypeOK`, `BufferHeld`, `TimerWatches`, `HandlersHaveBuffer`, `KeepsStrongest`,
  `PageHasList`. The strengthening, until a start is crossed: which records exist at each stage of a
  scan (`Fine`), that the task that starts a scan still owns it, and that what is in the list is ranked and is
  the best of what was heard. `Placing` and `Reporting` are the lemmas about the sorted insertion.
* `SeqFacts`: removing, inserting and joining elements of a sequence without repetitions, and least
  elements; and what a joined sequence of sequences holds, and where. `FlashEepProofs`, `TcpSrvProofs`,
  `WebSockProofs`, `WifiScanProofs` and `WebSrvProofs` cite it.

Only model-checked: the action property `NotReadWhileLocked`, which the code violates; and the liveness
properties (`KeepsTime`, `IdleClosed`, `ClosingRetried`, `AnswerEnds`, `CloseCompletes`, `EchoCompletes`,
`PageEnds`, `ScanEnds`): liveness under fairness and `ENABLED` are beyond the prover.

## 6. What is not modelled

Each component without a module is listed in `PROJECT.json` with the reason. By far most lines of the
repository are Realtek's: headers and front ends of closed libraries (`wifi/wlan/`, `wifi_conf.c`,
`wifi_util.c`, Simple Config, the supplicant's glue), whose state is in the libraries.

Inside the modelled parts: the clock the time client sets (arithmetic), the receive and transmit
buffers of the TCP server, `tcpsrv_close_all` (it has no caller), the settings of the converter, and
races of calls from other tasks with lwIP's thread, where each call is taken as one step. Of
WebSockets: the handshake, unmasked frames, the encodings of a length, frames of more than 64 K (the block
is a 16-bit number), `realloc` failing in `recv_trim_bufi`, and page variables that end the connection
themselves. Of the HTTP server: cookies and the assignment of variables, uploads of single sectors and of
settings, the redirections of a captive portal, the deferred calls and the closing of the server.

What was met there, and in the parts that stop at a history variable, is kept here for whoever extends
the models.

**HTTP server and disk**
* There is one slot for a deferred call (`qfnt`, `web_srv.c:1929`-`2060`): a second request before the first has
  run replaces it. `webserver_reinit`, itself a deferred call, makes a new queue and a second task, both of
  which then take calls from it; what was put in the old queue meanwhile is lost. The code calls all this a
  temporary stopgap (`:1937`).
* Two uploads at a time: the first to end unlocks the disk while the other writes. An upload that is
  given up leaves the disk locked until the next boundary behind an image, whole or not, or a restart; then it is served as it is.
* `WEBFSInit` at the end of an upload frees the handles of every connection.
* A POST to a static file announces the length of the form as that of the answer, and an
  error page is announced with the length of the file that was asked for added to its own (`content_len` is
  not reset). `LengthSaid` is therefore about pages asked for with GET and found, and its theorem about
  disks without a page for refused requests.
* Includes more than four deep drop the outermost file; a file that includes itself never ends.
* A page variable that writes nothing and asks to be called again stalls the page, as
  nothing is left to be confirmed.

**Wi-Fi scan**
* A scan closed between the driver calls of `api_wifi_scan` leaves its buffer allocated and the
  handlers registered on a record that is not in use (`crossed`).
* The timer task has priority 1 (`FreeRTOSConfig.h:128`) and lwIP's thread `configMAX_PRIORITIES - 2`
  (`lwipopts.h:354`), so that a page's `wifi_close_scan` may come inside the timer's and free the same
  memory. The model takes each function whole, and so are the tests of flags that precede a start.
* The end of a scan that was closed, arriving late, ends the next one. A page whose list is gone
  closes the scan another task has started. Both are in the model, and harmless to its invariants.
* `wifi_reg_event_handler` writes the user data of a handler it finds registered to a free row; all
  callers pass NULL.
* The list is printed from the unsorted `ap_details`, in the order the access points were heard.

**Joining an access point** (`wifi_connect` in `wifi_conf.c`, called by `wifi_api.c`)
* A second join frees the record of the first, which waits on it; `wifi_run(RTW_MODE_NONE)` frees
  data of a join that is still waiting.
* Events before `join_user_data = join_result` (`wifi_conf.c:579`) are lost, and the join ends with its 15 s
  time-out. The semaphore is freed before `join_user_data` is cleared (`:630`-`:634`).
* The return for an invalid key (`:459`-`:468`) leaks the record, and the handler of DISCONNECT is never
  unregistered. `error_flag` never becomes `RTW_NO_ERROR`, so that
  `wifi_is_ready_to_transceive` never succeeds.

These concern code whose other half, the order of the driver's events, is in a closed library: a
model would have to invent it.
