------------------------------ MODULE WifiScan ------------------------------
(***************************************************************************)
(* wifi_api_scan.c, with the handler of results of wifi_conf.c and the     *)
(* page that lists them (web_wscan_xml of web_int_callbacks.c).            *)
(*                                                                         *)
(* Four tasks meet here: the web server and the console start scans, the   *)
(* driver reports what it hears and that it is done, and a timer closes    *)
(* what is left over.  The driver calls of api_wifi_scan may block, so     *)
(* that the others run between them; wifi_close_scan and the handlers are  *)
(* taken whole, though the web server's thread may run while the timer's   *)
(* task is between the rtw_free and the rtw_memset of wifi_close_scan.     *)
(***************************************************************************)
EXTENDS WifiInd, FiniteSets, Sequences, SequencesExt

CONSTANTS
  Aps,         (* Access points, by BSSID.                                 *)
  Signals,     (* Signal strengths.                                        *)
  MaxAp,       (* MAX_AP_SCAN                                              *)
  Buffers,     (* Memory for results.                                      *)
  Timers,      (* FreeRTOS timers.                                         *)
  Pages,       (* Connections that ask for the list.                       *)
  MaxRequests  (* Bound: scans the driver has to do.                       *)

Nothing == "nothing"
Tasks == {"web", "console"}
REPORT == "SCAN_RESULT_REPORT"
DONE == "SCAN_DONE"
each_report_hdl == "wifi_scan_each_report_hdl"
done_hdl == "_wifi_scan_done_hdl"

ASSUME WifiScanAssumption ==
  /\ Events = {REPORT, DONE} /\ EventHandlers = {each_report_hdl, done_hdl}
  /\ Signals \subseteq Nat /\ MaxAp \in Nat \ {0} /\ MaxRequests \in Nat
  /\ Nothing \notin Buffers \cup Timers \cup Aps \cup Tasks

VARIABLES
  event_callback_list,
  scan,      (* scan_result_handler_ptr; details is ap_details, rank is    *)
             (* pap_details, and scan_cnt is its length.                   *)
  web,       (* web_scan_handler_ptr                                       *)
  heap,      (* Buffers that are allocated.                                *)
  timers,    (* Timers that exist,                                         *)
  running,   (* and those that run.                                        *)
  task,      (* Where a task is in api_wifi_scan.                          *)
  requests,  (* Scans the driver has to do.                                *)
  page,      (* web_wscan_xml: rows printed of the total it announced.     *)
  heard,     (* History: the best signal reported, 0 for none.             *)
  owner,     (* History: the task whose scan it is.                        *)
  crossed    (* History: a task went on with a scan that was closed while  *)
             (* it started it.                                             *)

vars == <<event_callback_list, scan, web, heap, timers, running, task, requests, page,
          heard, owner, crossed>>

Slots == 1..MaxAp
NoResults == [i \in Slots |-> [ap |-> Nothing, signal |-> 0]]
NoScan == [running |-> FALSE, cb |-> FALSE, buf |-> Nothing, rank |-> <<>>,
           details |-> NoResults]
NoWeb == [flg |-> 0, timer |-> Nothing, buf |-> Nothing, ap_count |-> 0]
NoPage == [on |-> FALSE, start |-> 0, total |-> 0, lost |-> FALSE]
Unheard == [a \in Aps |-> 0]

TypeOK ==
  /\ event_callback_list \in EventTable
  /\ scan.running \in BOOLEAN /\ scan.cb \in BOOLEAN
  /\ scan.buf \in Buffers \cup {Nothing}
  /\ scan.rank \in Seq(Slots) /\ Len(scan.rank) <= MaxAp
  /\ scan.details \in [Slots -> [ap : Aps \cup {Nothing}, signal : Signals \cup {0}]]
  /\ web \in [flg : 0..2, timer : Timers \cup {Nothing}, buf : Buffers \cup {Nothing},
              ap_count : 0..MaxAp]
  /\ heap \subseteq Buffers /\ running \subseteq timers /\ timers \subseteq Timers
  /\ task \in [Tasks -> {"idle", "pscan", "scan", "failing", "wait"}]
  /\ requests \in 0..MaxRequests
  /\ page \in [Pages -> [on : BOOLEAN, start : 0..MaxAp, total : 0..MaxAp, lost : BOOLEAN]]
  /\ heard \in [Aps -> Signals \cup {0}]
  /\ owner \in Tasks \cup {Nothing} /\ crossed \in BOOLEAN

Init ==
  /\ event_callback_list = init_event_callback_list
  /\ scan = NoScan /\ web = NoWeb
  /\ heap = {} /\ timers = {} /\ running = {}
  /\ task = [w \in Tasks |-> "idle"]
  /\ requests = 0
  /\ page = [p \in Pages |-> NoPage]
  /\ heard = Unheard /\ owner = Nothing /\ crossed = FALSE
-----------------------------------------------------------------------------
(* The state of the module as one value, for the functions that change     *)
(* several records.                                                        *)
World == [table |-> event_callback_list, scan |-> scan, web |-> web, heap |-> heap,
          timers |-> timers, running |-> running, owner |-> owner, heard |-> heard]
Become(w) ==
  /\ event_callback_list' = w.table /\ scan' = w.scan /\ web' = w.web
  /\ heap' = w.heap /\ timers' = w.timers /\ running' = w.running
  /\ owner' = w.owner /\ heard' = w.heard

(* Mutant: the handler of the end stays.                                   *)
Unregister_Half(t) == wifi_unreg_event_handler(t, REPORT, each_report_hdl)
Unregister(t) ==
  wifi_unreg_event_handler(wifi_unreg_event_handler(t, REPORT, each_report_hdl),
                           DONE, done_hdl)

(* wifi_close_scan: first the scan,                                        *)
CloseScan(w) ==
  IF ~w.scan.running THEN w
  ELSE [w EXCEPT !.table = Unregister(@), !.heap = @ \ {w.scan.buf}, !.scan = NoScan,
                 !.owner = Nothing, !.heard = Unheard]
(* then the list.  Mutants: it is not freed; its timer is kept.            *)
CloseWeb_Kept(w) ==
  IF w.web.flg = 0 THEN w
  ELSE [w EXCEPT !.timers = @ \ {w.web.timer}, !.running = @ \ {w.web.timer}, !.web = NoWeb]
CloseWeb_Timer(w) ==
  IF w.web.flg = 0 THEN w ELSE [w EXCEPT !.heap = @ \ {w.web.buf}, !.web = NoWeb]
CloseWeb(w) ==
  IF w.web.flg = 0 THEN w
  ELSE [w EXCEPT !.timers = @ \ {w.web.timer}, !.running = @ \ {w.web.timer},
                 !.heap = @ \ {w.web.buf}, !.web = NoWeb]
(* Mutant: the scan goes on.                                               *)
wifi_close_scan_List(w) == CloseWeb(w)
wifi_close_scan(w) == CloseWeb(CloseScan(w))

(* Pages that read a list lose it when someone else closes it.             *)
ListGone(w, readers) ==
  page' = [p \in Pages |->
    IF p \in readers /\ page[p].on /\ w.web.flg # 2 THEN [page[p] EXCEPT !.lost = TRUE]
    ELSE page[p]]
-----------------------------------------------------------------------------
(* api_wifi_scan as far as its first call of the driver: the flags are     *)
(* set, and the timer is created and started, or not.  Mutant: a list does *)
(* not keep a scan from starting.                                          *)
Startable_List == ~scan.running
Startable == ~scan.running /\ web.flg = 0
Started(w, t) ==
  [w EXCEPT !.scan.running = TRUE,
            !.web = [NoWeb EXCEPT !.flg = 1, !.timer = t]]
api_wifi_scan(k) ==
  /\ task[k] = "idle" /\ Startable
  /\ \/ Become(wifi_close_scan(Started(World, Nothing))) /\ UNCHANGED task
     \/ \E t \in Timers \ timers :
          /\ Become([Started(World, t) EXCEPT !.timers = @ \cup {t},
                                              !.running = @ \cup {t}, !.owner = k])
          /\ task' = [task EXCEPT ![k] = "pscan"]
  /\ UNCHANGED <<requests, page, crossed>>

Register(t) ==
  wifi_reg_event_handler(wifi_reg_event_handler(t, REPORT, each_report_hdl), DONE, done_hdl)

(* The call of wext_set_pscan_channels returns.  It failed; or there is no *)
(* memory, which is found when the buffer of the record has already been   *)
(* overwritten; or the handlers are registered and wext_set_scan is        *)
(* called, which the driver takes or refuses.                              *)
Unallocated(w, k) == [w EXCEPT !.scan = [@ EXCEPT !.cb = (k = "console"), !.buf = Nothing]]
Allocated(w, k, b) ==
  [w EXCEPT !.scan = [@ EXCEPT !.cb = (k = "console"), !.buf = b, !.rank = <<>>,
                               !.details = NoResults],
            !.heard = Unheard, !.heap = @ \cup {b}, !.table = Register(@)]
ChannelsSet(k) ==
  /\ task[k] = "pscan"
  /\ \/ /\ Become(wifi_close_scan(World))
        /\ ListGone(wifi_close_scan(World), Pages)
        /\ task' = [task EXCEPT ![k] = "idle"]
        /\ UNCHANGED <<requests, crossed>>
     \/ /\ Become(wifi_close_scan(Unallocated(World, k)))
        /\ ListGone(wifi_close_scan(Unallocated(World, k)), Pages)
        /\ task' = [task EXCEPT ![k] = "idle"]
        /\ crossed' = (crossed \/ owner # k)
        /\ UNCHANGED requests
     \/ \E b \in Buffers \ heap :
          /\ Become(Allocated(World, k, b))
          /\ \/ requests < MaxRequests /\ requests' = requests + 1
                /\ task' = [task EXCEPT ![k] = "scan"]
             \/ task' = [task EXCEPT ![k] = "failing"] /\ UNCHANGED requests
          /\ crossed' = (crossed \/ owner # k)
          /\ UNCHANGED page

(* The call of wext_set_scan returns.  The console waits for the end.      *)
ScanAsked(k) ==
  /\ \/ /\ task[k] = "scan"
        /\ task' = [task EXCEPT ![k] = IF k = "console" THEN "wait" ELSE "idle"]
        /\ Become(World) /\ UNCHANGED page
     \/ /\ task[k] = "failing"
        /\ task' = [task EXCEPT ![k] = "idle"]
        /\ Become(wifi_close_scan(World))
        /\ ListGone(wifi_close_scan(World), Pages)
  /\ UNCHANGED <<requests, crossed>>

Waited ==
  /\ task["console"] = "wait"
  /\ task' = [task EXCEPT !["console"] = "idle"]
  /\ UNCHANGED <<event_callback_list, scan, web, heap, timers, running, requests, page,
                 heard, owner, crossed>>

(* The timer runs out: 2.5 s for a scan, 5 or 7 s for a list.              *)
TimerEnds(t) ==
  /\ t \in running
  /\ LET w == wifi_close_scan([World EXCEPT !.running = @ \ {t}])
     IN Become(w) /\ ListGone(w, Pages)
  /\ UNCHANGED <<task, requests, crossed>>
-----------------------------------------------------------------------------
(***************************************************************************)
(* wifi_scan_each_report_hdl: rank orders the slots of details, strongest  *)
(* first.  A known access point moves up when it is heard stronger; a new  *)
(* one is inserted, in the place of the weakest when all slots are used.   *)
(***************************************************************************)
Signal(s, i) == s.details[s.rank[i]].signal
Placed(s, x, slot, signal, rest) ==   (* slot is put before what is weaker *)
  LET n == Cardinality({i \in 1..Len(rest) : s.details[rest[i]].signal >= signal})
  IN [s EXCEPT !.details[slot] = [ap |-> x, signal |-> signal],
               !.rank = InsertAt(rest, n + 1, slot)]

(* Mutant: a known access point keeps its place.                           *)
Raised_InPlace(s, i, x, signal) ==
  [s EXCEPT !.details[s.rank[i]] = [ap |-> x, signal |-> signal]]
Raised(s, i, x, signal) == Placed(s, x, s.rank[i], signal, RemoveAt(s.rank, i))

HasRoom(n) == n < MaxAp

EachReport(s, x, signal) ==
  LET known == {i \in 1..Len(s.rank) : s.details[s.rank[i]].ap = x}
      n == Len(s.rank)
  IN IF known # {}
     THEN LET i == CHOOSE j \in known : \A m \in known : j <= m
          IN IF signal > Signal(s, i) THEN Raised(s, i, x, signal) ELSE s
     ELSE IF HasRoom(n) THEN Placed(s, x, n + 1, signal, s.rank)
     ELSE IF signal > Signal(s, MaxAp)
     THEN Placed(s, x, s.rank[MaxAp], signal, SubSeq(s.rank, 1, MaxAp - 1))
     ELSE s

Report ==
  /\ requests > 0 /\ scan.buf # Nothing
  /\ IsHandled(event_callback_list, REPORT, each_report_hdl)
  /\ \E x \in Aps, signal \in Signals :
       /\ scan' = EachReport(scan, x, signal)
       /\ heard' = [heard EXCEPT ![x] = IF signal > @ THEN signal ELSE @]
  /\ UNCHANGED <<event_callback_list, web, heap, timers, running, task, requests, page,
                 owner, crossed>>

(* _wifi_scan_done_hdl: with a callback the results are printed and closed;*)
(* else they are kept for the web server, and the timer starts anew, which *)
(* may fail; without results all is closed.                                *)
Kept(w) ==
  [w EXCEPT !.heap = @ \ {w.web.buf}, !.table = Unregister(@), !.scan = NoScan,
            !.owner = Nothing, !.heard = Unheard, !.running = @ \cup {w.web.timer},
            !.web = [@ EXCEPT !.buf = w.scan.buf, !.ap_count = Len(w.scan.rank), !.flg = 2]]
Done ==
  /\ requests > 0 /\ requests' = requests - 1
  /\ IF ~IsHandled(event_callback_list, DONE, done_hdl)
     THEN Become(World) /\ UNCHANGED page
     ELSE IF ~scan.cb /\ web.flg # 0 /\ scan.rank # <<>>
     THEN \/ web.timer # Nothing /\ Become(Kept(World)) /\ UNCHANGED page
          \/ Become(World) /\ UNCHANGED page
     ELSE Become(wifi_close_scan(World)) /\ ListGone(wifi_close_scan(World), Pages)
  /\ UNCHANGED <<task, crossed>>

(* wifi_run(RTW_MODE_NONE): the driver is off, and the handlers are gone.  *)
WifiOff ==
  /\ requests' = 0
  /\ event_callback_list' = init_event_callback_list
  /\ UNCHANGED <<scan, web, heap, timers, running, task, page, heard, owner, crossed>>
-----------------------------------------------------------------------------
(***************************************************************************)
(* web_wscan_xml, in the thread of the web server.  The list is announced, *)
(* and its rows are printed as far as the buffer has room; the page that   *)
(* prints the last row closes the list, and so does one that finds the     *)
(* list gone.                                                              *)
(***************************************************************************)
Thread == task["web"] = "idle"

Printed(p, w, from, total) ==
  \E n \in 0..w.web.ap_count - from :
    IF n = w.web.ap_count - from
    THEN /\ Become(wifi_close_scan(w))
         /\ page' = [q \in Pages |-> IF q = p THEN NoPage
                      ELSE IF page[q].on THEN [page[q] EXCEPT !.lost = TRUE] ELSE page[q]]
    ELSE /\ Become(w)
         /\ page' = [page EXCEPT ![p] = [on |-> TRUE, start |-> from + n, total |-> total,
                                         lost |-> page[p].lost]]

(* The first call; without a list it starts a scan, if none runs.          *)
PageBegins(p) ==
  /\ Thread /\ ~page[p].on
  /\ web.flg = 2
  /\ Printed(p, [World EXCEPT !.running = @ \cup {web.timer}], 0, web.ap_count)
  /\ UNCHANGED <<task, requests, crossed>>

PageContinues(p) ==
  /\ Thread /\ page[p].on
  /\ IF web.flg # 0 /\ page[p].start < web.ap_count
     THEN Printed(p, World, page[p].start, page[p].total)
     ELSE /\ Become(wifi_close_scan(World))
          /\ page' = [q \in Pages |-> IF q = p THEN NoPage
                       ELSE IF page[q].on THEN [page[q] EXCEPT !.lost = TRUE] ELSE page[q]]
  /\ UNCHANGED <<task, requests, crossed>>

PageLost(p) ==   (* its connection ends *)
  /\ Thread /\ page[p].on
  /\ page' = [page EXCEPT ![p] = NoPage]
  /\ UNCHANGED <<event_callback_list, scan, web, heap, timers, running, task, requests,
                 heard, owner, crossed>>

(* After a crossed start the record, its buffer and the handlers do not    *)
(* belong together any more; what follows is not modelled.                 *)
Abandoned == crossed /\ UNCHANGED vars

Next ==
  \/ /\ ~crossed
     /\ \/ \E k \in Tasks : api_wifi_scan(k) \/ ChannelsSet(k) \/ ScanAsked(k)
        \/ Waited
        \/ \E t \in Timers : TimerEnds(t)
        \/ Report \/ Done \/ WifiOff
        \/ \E p \in Pages : PageBegins(p) \/ PageContinues(p) \/ PageLost(p)
  \/ Abandoned

(* Weak fairness of ChannelsSet, ScanAsked and TimerEnds, said by what     *)
(* each of them ends: the calls of the driver return, and timers run out.  *)
Fairness ==
  /\ \A k \in Tasks : []<>(task[k] # "pscan") /\ []<>(task[k] \notin {"scan", "failing"})
  /\ \A t \in Timers : []<>(t \notin running)

Spec == Init /\ [][Next]_vars /\ Fairness
-----------------------------------------------------------------------------
Registered(e, h) == IsHandled(event_callback_list, e, h)

(* Every buffer is held by the scan or by the list, and by one of them:    *)
(* between the functions none leaks and none is held twice, whichever task *)
(* closes the scan or the list, as long as no scan is closed while it      *)
(* starts and no close interrupts another (wifi_close_scan is one step).   *)
BufferHeld ==
  ~crossed =>
    /\ heap = {scan.buf, web.buf} \ {Nothing}
    /\ scan.buf # Nothing => scan.buf # web.buf

(* A scan or a list never stays without a running timer that will close    *)
(* it, and there is no other timer.                                        *)
TimerWatches ==
  ~crossed =>
    /\ timers = {web.timer} \ {Nothing}
    /\ web.flg # 0 => web.timer \in running

(* The handlers are registered together, and only while the record they    *)
(* write to has its buffer.                                                *)
HandlersHaveBuffer ==
  /\ Registered(REPORT, each_report_hdl) <=> Registered(DONE, done_hdl)
  /\ ~crossed /\ Registered(REPORT, each_report_hdl) => scan.running /\ scan.buf # Nothing

(* The results are the strongest access points reported, each once with    *)
(* its best signal, in order: an access point that was pushed out returns  *)
(* when it is heard stronger, and the pointers that are sorted keep to     *)
(* different slots.                                                        *)
KeepsStrongest ==
  LET n == Len(scan.rank)
      kept == {scan.details[scan.rank[i]].ap : i \in 1..n}
  IN ~crossed /\ scan.buf # Nothing =>
       /\ Cardinality(kept) = n /\ {scan.rank[i] : i \in 1..n} = 1..n
       /\ \A i \in 1..n : Signal(scan, i) = heard[scan.details[scan.rank[i]].ap]
       /\ \A i \in 1..n - 1 : Signal(scan, i) >= Signal(scan, i + 1)
       /\ \A x \in Aps \ kept : heard[x] # 0 => n = MaxAp /\ heard[x] <= Signal(scan, n)

(* A page that is being sent has the list it announced, unless someone     *)
(* closed it.                                                              *)
PageHasList ==
  ~crossed => \A p \in Pages : page[p].on /\ ~page[p].lost =>
    web.flg = 2 /\ page[p].total = web.ap_count /\ page[p].start < page[p].total

(* A scan ends, whatever becomes of the driver: a later one can start.     *)
ScanEnds == scan.running ~> (~scan.running \/ crossed)
=============================================================================
