--------------------------- MODULE WifiScanProofs ---------------------------
(***************************************************************************)
(* Theorems about WifiScan: as long as no scan is closed while it starts,  *)
(* every buffer is held once, every scan is watched by a timer, and the    *)
(* handlers of the driver's events have a record to write to.              *)
(***************************************************************************)
EXTENDS WifiScan, SeqFacts, TLAPS, FiniteSetTheorems

-----------------------------------------------------------------------------
(* The table of event handlers (wifi_ind.c).                               *)
(* A row that holds no other handler than h, and that one once.            *)
Single(t, e, h) ==
  /\ \A i \in Rows : t[e][i] \in {h, NoHandler}
  /\ \A i, j \in RowsOf(t, e, h) : i = j

LEMMA TableKept ==
  ASSUME NEW t \in EventTable, NEW e \in Events, NEW h \in EventHandlers
  PROVE  wifi_reg_event_handler(t, e, h) \in EventTable /\ wifi_unreg_event_handler(t, e, h) \in EventTable
  BY DEF wifi_reg_event_handler, wifi_unreg_event_handler, EventTable

LEMMA OthersKept ==
  ASSUME NEW t \in EventTable, NEW e \in Events, NEW h, NEW d \in Events \ {e}
  PROVE  wifi_reg_event_handler(t, e, h)[d] = t[d] /\ wifi_unreg_event_handler(t, e, h)[d] = t[d]
  BY DEF wifi_reg_event_handler, wifi_unreg_event_handler, EventTable

LEMMA Registering ==
  ASSUME NEW t \in EventTable, NEW e \in Events, NEW h \in EventHandlers, Single(t, e, h)
  PROVE  LET u == wifi_reg_event_handler(t, e, h) IN Single(u, e, h) /\ IsHandled(u, e, h)
<1> DEFINE u == wifi_reg_event_handler(t, e, h)
<1>1. ASSUME RowsOf(t, e, h) # {} PROVE Single(u, e, h) /\ IsHandled(u, e, h)
  <2>1. u = t
    BY <1>1 DEF wifi_reg_event_handler
  <2> HIDE DEF u
  <2> QED BY <1>1, <2>1 DEF IsHandled
<1>2. ASSUME RowsOf(t, e, h) = {} PROVE Single(u, e, h) /\ IsHandled(u, e, h)
  <2>1. RowsOf(t, e, NoHandler) = Rows
    BY <1>2 DEF RowsOf, Single
  <2>2. \A i \in Rows : IsFirst(i, Rows) <=> i = 1
    BY WifiIndAssumption DEF IsFirst, Rows
  <2>3. \A i \in Rows : u[e][i] = IF i = 1 THEN h ELSE t[e][i]
    BY <1>2, <2>1, <2>2 DEF wifi_reg_event_handler, EventTable
  <2>4. \A i \in Rows : t[e][i] = NoHandler
    BY <2>1 DEF RowsOf
  <2>5. 1 \in Rows /\ h # NoHandler
    BY WifiIndAssumption DEF Rows
  <2>6. RowsOf(u, e, h) = {1}
    BY <2>3, <2>4, <2>5 DEF RowsOf
  <2>7. \A i \in Rows : u[e][i] \in {h, NoHandler}
    BY <2>3, <2>4
  <2> HIDE DEF u
  <2> QED BY <2>6, <2>7 DEF Single, IsHandled
<1> QED BY <1>1, <1>2

LEMMA Unregistering ==
  ASSUME NEW t \in EventTable, NEW e \in Events, NEW h \in EventHandlers, Single(t, e, h)
  PROVE  LET u == wifi_unreg_event_handler(t, e, h) IN Single(u, e, h) /\ ~IsHandled(u, e, h)
<1> DEFINE u == wifi_unreg_event_handler(t, e, h)
<1>1. \A i \in RowsOf(t, e, h) : IsFirst(i, RowsOf(t, e, h))
  <2>1. \A i, j \in RowsOf(t, e, h) : i = j /\ i \in Nat
    BY DEF Single, RowsOf, Rows
  <2> QED BY <2>1 DEF IsFirst
<1>2. \A i \in Rows : u[e][i] = IF i \in RowsOf(t, e, h) THEN NoHandler ELSE t[e][i]
  BY <1>1 DEF wifi_unreg_event_handler, EventTable, IsFirst
<1>3. \A i \in Rows : u[e][i] = NoHandler
  BY <1>2 DEF RowsOf, Single
<1>4. RowsOf(u, e, h) = {}
  BY <1>3, WifiIndAssumption DEF RowsOf
<1> QED BY <1>3, <1>4 DEF Single, IsHandled

(* The table with the two handlers of a scan, or without them.             *)
Handled(t) == IsHandled(t, REPORT, each_report_hdl)
ScanTable(t) ==
  /\ t \in EventTable
  /\ Single(t, REPORT, each_report_hdl) /\ Single(t, DONE, done_hdl)
  /\ IsHandled(t, REPORT, each_report_hdl) <=> IsHandled(t, DONE, done_hdl)

LEMMA SameRows ==
  ASSUME NEW t, NEW u, NEW e, NEW h, t[e] = u[e]
  PROVE  (Single(t, e, h) <=> Single(u, e, h)) /\ (IsHandled(t, e, h) <=> IsHandled(u, e, h))
  BY DEF Single, IsHandled, RowsOf

LEMMA TableRegisters ==
  ASSUME NEW t, ScanTable(t)
  PROVE  ScanTable(Register(t)) /\ Handled(Register(t))
<1> DEFINE u == wifi_reg_event_handler(t, REPORT, each_report_hdl)
           v == wifi_reg_event_handler(u, DONE, done_hdl)
<1>1. /\ REPORT \in Events /\ DONE \in Events /\ REPORT # DONE
      /\ each_report_hdl \in EventHandlers /\ done_hdl \in EventHandlers
  BY WifiScanAssumption DEF REPORT, DONE
<1>2. t \in EventTable /\ Single(t, REPORT, each_report_hdl) /\ Single(t, DONE, done_hdl)
  BY DEF ScanTable
<1>3. u \in EventTable /\ Single(u, REPORT, each_report_hdl) /\ IsHandled(u, REPORT, each_report_hdl)
  BY <1>1, <1>2, TableKept, Registering
<1>4. u[DONE] = t[DONE]
  BY <1>1, <1>2, OthersKept
<1> HIDE DEF u
<1>5. Single(u, DONE, done_hdl)
  BY <1>2, <1>4, SameRows
<1>6. v \in EventTable /\ Single(v, DONE, done_hdl) /\ IsHandled(v, DONE, done_hdl)
  BY <1>1, <1>3, <1>5, TableKept, Registering
<1>7. v[REPORT] = u[REPORT]
  BY <1>1, <1>3, OthersKept
<1>8. v = Register(t)
  BY DEF Register, u
<1> HIDE DEF v
<1>9. Single(v, REPORT, each_report_hdl) /\ IsHandled(v, REPORT, each_report_hdl)
  BY <1>3, <1>7, SameRows
<1> QED BY <1>6, <1>8, <1>9 DEF ScanTable, Handled

LEMMA TableUnregisters ==
  ASSUME NEW t, ScanTable(t)
  PROVE  ScanTable(Unregister(t)) /\ ~Handled(Unregister(t))
<1> DEFINE u == wifi_unreg_event_handler(t, REPORT, each_report_hdl)
           v == wifi_unreg_event_handler(u, DONE, done_hdl)
<1>1. /\ REPORT \in Events /\ DONE \in Events /\ REPORT # DONE
      /\ each_report_hdl \in EventHandlers /\ done_hdl \in EventHandlers
  BY WifiScanAssumption DEF REPORT, DONE
<1>2. t \in EventTable /\ Single(t, REPORT, each_report_hdl) /\ Single(t, DONE, done_hdl)
  BY DEF ScanTable
<1>3. u \in EventTable /\ Single(u, REPORT, each_report_hdl) /\ ~IsHandled(u, REPORT, each_report_hdl)
  BY <1>1, <1>2, TableKept, Unregistering
<1>4. u[DONE] = t[DONE]
  BY <1>1, <1>2, OthersKept
<1> HIDE DEF u
<1>5. Single(u, DONE, done_hdl)
  BY <1>2, <1>4, SameRows
<1>6. v \in EventTable /\ Single(v, DONE, done_hdl) /\ ~IsHandled(v, DONE, done_hdl)
  BY <1>1, <1>3, <1>5, TableKept, Unregistering
<1>7. v[REPORT] = u[REPORT]
  BY <1>1, <1>3, OthersKept
<1>8. v = Unregister(t)
  BY DEF Unregister, u
<1> HIDE DEF v
<1>9. Single(v, REPORT, each_report_hdl) /\ ~IsHandled(v, REPORT, each_report_hdl)
  BY <1>3, <1>7, SameRows
<1> QED BY <1>6, <1>8, <1>9 DEF ScanTable, Handled

LEMMA TableEmpty ==
  ScanTable(init_event_callback_list) /\ ~Handled(init_event_callback_list)
<1> DEFINE t == init_event_callback_list
<1>1. \A e \in Events, i \in Rows : t[e][i] = NoHandler
  BY DEF init_event_callback_list
<1>2. /\ REPORT \in Events /\ DONE \in Events
      /\ each_report_hdl # NoHandler /\ done_hdl # NoHandler
  BY WifiScanAssumption, WifiIndAssumption
<1>3. t \in EventTable
  BY DEF init_event_callback_list, EventTable
<1> HIDE DEF t
<1>4. RowsOf(t, REPORT, each_report_hdl) = {} /\ RowsOf(t, DONE, done_hdl) = {}
  BY <1>1, <1>2 DEF RowsOf
<1>5. Single(t, REPORT, each_report_hdl) /\ Single(t, DONE, done_hdl)
  BY <1>1, <1>2, <1>4 DEF Single
<1> QED BY <1>3, <1>4, <1>5 DEF t, ScanTable, Handled, IsHandled
-----------------------------------------------------------------------------
(* The state as one value, typed.                                          *)
Result == [ap : Aps \cup {Nothing}, signal : Signals \cup {0}]
ScanRec == [running : BOOLEAN, cb : BOOLEAN, buf : Buffers \cup {Nothing}, rank : Seq(Slots),
            details : [Slots -> Result]]
WebRec == [flg : 0..2, timer : Timers \cup {Nothing}, buf : Buffers \cup {Nothing},
           ap_count : 0..MaxAp]
PageRec == [on : BOOLEAN, start : 0..MaxAp, total : 0..MaxAp, lost : BOOLEAN]
Heard == [Aps -> Signals \cup {0}]
Worlds == [table : EventTable, scan : ScanRec, web : WebRec, heap : SUBSET Buffers,
           timers : SUBSET Timers, running : SUBSET Timers, owner : Tasks \cup {Nothing},
           heard : Heard]

(* What is so of the state between the functions, and what is left of it   *)
(* when a scan or a list is to be closed.                                  *)
Closable(w) ==
  /\ w \in Worlds /\ ScanTable(w.table) /\ Len(w.scan.rank) <= MaxAp
  /\ w.heap = {w.scan.buf, w.web.buf} \ {Nothing}
  /\ w.scan.buf # Nothing => w.scan.buf # w.web.buf
  /\ w.timers = {w.web.timer} \ {Nothing} /\ w.running \subseteq w.timers
  /\ w.scan.running \/ (w.scan.buf = Nothing /\ ~Handled(w.table) /\ w.owner = Nothing)
  /\ w.web.flg = 0 => ~w.scan.running /\ w.web.buf = Nothing /\ w.web.timer = Nothing
Fine(w) ==
  /\ Closable(w)
  /\ w.web.flg # 0 => w.web.timer \in w.running
  /\ Handled(w.table) => w.scan.buf # Nothing
  /\ w.scan.running => w.owner # Nothing /\ w.web.flg = 1
  /\ w.web.flg = 1 => w.web.buf = Nothing

LEMMA Constants ==
  /\ NoScan \in ScanRec /\ ~NoScan.running /\ NoScan.buf = Nothing /\ NoScan.rank = <<>>
  /\ NoWeb \in WebRec /\ NoWeb.flg = 0 /\ NoWeb.timer = Nothing /\ NoWeb.buf = Nothing
  /\ NoPage \in PageRec /\ ~NoPage.on /\ Unheard \in Heard
<1>1. NoResults \in [Slots -> Result]
  BY DEF NoResults, Result
<1>2. <<>> \in Seq(Slots) /\ 0 \in 0..MaxAp
  BY WifiScanAssumption
<1>3. FALSE \in BOOLEAN
  OBVIOUS
<1>4. NoScan \in ScanRec /\ ~NoScan.running /\ NoScan.buf = Nothing /\ NoScan.rank = <<>>
  BY <1>1, <1>2 DEF NoScan, ScanRec
<1>5. NoWeb \in WebRec /\ NoWeb.flg = 0 /\ NoWeb.timer = Nothing /\ NoWeb.buf = Nothing
  BY <1>2 DEF NoWeb, WebRec
<1>6. NoPage \in PageRec /\ ~NoPage.on /\ Unheard \in Heard
  BY <1>2 DEF NoPage, PageRec, Unheard, Heard
<1> QED BY <1>4, <1>5, <1>6

LEMMA ScanClosed ==
  ASSUME NEW w \in Worlds, w.scan.running
  PROVE  LET v == CloseScan(w) IN
         /\ v.table = Unregister(w.table) /\ v.scan = NoScan /\ v.web = w.web
         /\ v.heap = w.heap \ {w.scan.buf} /\ v.timers = w.timers /\ v.running = w.running
         /\ v.owner = Nothing /\ v.heard = Unheard
         /\ Unregister(w.table) \in EventTable => v \in Worlds
<1> DEFINE v == [table |-> Unregister(w.table), scan |-> NoScan, web |-> w.web,
                 heap |-> w.heap \ {w.scan.buf}, timers |-> w.timers, running |-> w.running,
                 owner |-> Nothing, heard |-> Unheard]
<1>1. CloseScan(w) = v
  BY DEF CloseScan, Worlds
<1>2. Unregister(w.table) \in EventTable => v \in Worlds
  BY Constants DEF Worlds
<1> QED BY <1>1, <1>2

LEMMA WebClosed ==
  ASSUME NEW w \in Worlds, w.web.flg # 0
  PROVE  LET v == CloseWeb(w) IN
         /\ v \in Worlds
         /\ v.table = w.table /\ v.scan = w.scan /\ v.web = NoWeb
         /\ v.heap = w.heap \ {w.web.buf} /\ v.timers = w.timers \ {w.web.timer}
         /\ v.running = w.running \ {w.web.timer}
         /\ v.owner = w.owner /\ v.heard = w.heard
<1> DEFINE v == [table |-> w.table, scan |-> w.scan, web |-> NoWeb,
                 heap |-> w.heap \ {w.web.buf}, timers |-> w.timers \ {w.web.timer},
                 running |-> w.running \ {w.web.timer}, owner |-> w.owner, heard |-> w.heard]
<1>1. CloseWeb(w) = v
  BY DEF CloseWeb, Worlds
<1>2. v \in Worlds
  BY Constants DEF Worlds
<1> QED BY <1>1, <1>2

(* wifi_close_scan leaves nothing.                                         *)
LEMMA AllClosed ==
  ASSUME NEW w, Closable(w)
  PROVE  LET v == wifi_close_scan(w) IN
         /\ Fine(v) /\ ~v.scan.running /\ v.web.flg = 0 /\ v.owner = Nothing
<1> DEFINE u == CloseScan(w)
           v == CloseWeb(u)
<1>1. /\ u \in Worlds /\ ScanTable(u.table) /\ ~Handled(u.table) /\ ~u.scan.running
      /\ u.scan.buf = Nothing /\ Len(u.scan.rank) <= MaxAp /\ u.web = w.web
      /\ u.timers = w.timers /\ u.running = w.running /\ u.owner = Nothing
      /\ u.heap = {w.web.buf} \ {Nothing}
  <2>1. CASE w.scan.running
    <3>1. /\ u.table = Unregister(w.table) /\ u.scan = NoScan /\ u.web = w.web
          /\ u.heap = w.heap \ {w.scan.buf} /\ u.timers = w.timers /\ u.running = w.running
          /\ u.owner = Nothing /\ u.heard = Unheard
          /\ Unregister(w.table) \in EventTable => u \in Worlds
      BY <2>1, ScanClosed DEF Closable
    <3> HIDE DEF u
    <3>2. ScanTable(u.table) /\ ~Handled(u.table) /\ Unregister(w.table) \in EventTable
      BY <3>1, TableUnregisters DEF Closable, ScanTable
    <3>3. u.heap = {w.web.buf} \ {Nothing}
      BY <3>1 DEF Closable
    <3> QED BY <3>1, <3>2, <3>3, Constants, WifiScanAssumption
  <2>2. CASE ~w.scan.running
    BY <2>2 DEF CloseScan, Closable
  <2> QED BY <2>1, <2>2
<1> HIDE DEF u
<1>2. /\ v \in Worlds /\ v.table = u.table /\ v.scan = u.scan /\ v.owner = Nothing
      /\ v.web.flg = 0 /\ v.web.buf = Nothing /\ v.web.timer = Nothing
      /\ v.heap = {} /\ v.timers = {} /\ v.running = {}
  <2>1. CASE u.web.flg # 0
    <3>1. /\ v \in Worlds
          /\ v.table = u.table /\ v.scan = u.scan /\ v.web = NoWeb
          /\ v.heap = u.heap \ {u.web.buf} /\ v.timers = u.timers \ {u.web.timer}
          /\ v.running = u.running \ {u.web.timer}
          /\ v.owner = u.owner /\ v.heard = u.heard
      BY <1>1, <2>1, WebClosed
    <3> HIDE DEF v
    <3>2. v.heap = {} /\ v.timers = {} /\ v.running = {}
      BY <1>1, <3>1 DEF Closable
    <3> QED BY <1>1, <3>1, <3>2, Constants
  <2>2. CASE u.web.flg = 0
    <3>1. v = u
      BY <2>2 DEF CloseWeb
    <3> HIDE DEF v
    <3>2. v.heap = {} /\ v.timers = {} /\ v.running = {} /\ v.web.buf = Nothing /\ v.web.timer = Nothing
      BY <1>1, <2>2, <3>1 DEF Closable
    <3> QED BY <1>1, <2>2, <3>1, <3>2
  <2> QED BY <2>1, <2>2
<1>3. v = wifi_close_scan(w)
  BY DEF wifi_close_scan, u
<1> HIDE DEF v
<1>4. Closable(v)
  BY <1>1, <1>2 DEF Closable
<1>5. Fine(v)
  BY <1>1, <1>2, <1>4 DEF Fine
<1> QED BY <1>1, <1>2, <1>3, <1>5
-----------------------------------------------------------------------------
(* The results (wifi_scan_each_report_hdl).  Insertion by the number of    *)
(* stronger results keeps a sorted list sorted.                            *)
LEMMA DownwardClosed ==
  ASSUME NEW L \in Nat, NEW D \in SUBSET (1..L),
         \A i \in D, j \in 1..L : j < i => j \in D
  PROVE  Cardinality(D) \in 0..L /\ D = 1..Cardinality(D)
<1> DEFINE out == (1..L + 1) \ D
<1>1. out \in SUBSET Nat /\ L + 1 \in out
  OBVIOUS
<1>2. PICK p \in out : \A j \in out : p <= j
  BY <1>1, LeastElement
<1>3. p \in 1..L + 1
  BY <1>2
<1>4. D = 1..p - 1
  <2>1. ASSUME NEW i \in D PROVE i \in 1..p - 1
    <3>1. CASE i >= p
      <4>1. p \in 1..L
        BY <1>3, <3>1
      <4>2. p \in D
        BY <1>2, <3>1, <4>1
      <4> QED BY <1>2, <4>2
    <3> QED BY <1>3, <3>1
  <2>2. ASSUME NEW i \in 1..p - 1 PROVE i \in D
    <3>1. i \in 1..L + 1 /\ ~(p <= i)
      BY <1>3
    <3> QED BY <1>2, <3>1
  <2> QED BY <2>1, <2>2
<1>5. Cardinality(1..p - 1) = p - 1
  <2>1. 1 \in Int /\ p - 1 \in Int /\ p - 1 \in 0..L
    BY <1>3
  <2>2. Cardinality(1..p - 1) = IF 1 > p - 1 THEN 0 ELSE (p - 1) - 1 + 1
    BY <2>1, FS_Interval
  <2> QED BY <2>1, <2>2
<1> QED BY <1>3, <1>4, <1>5

(* A list of slots that holds the results in order: each slot and each     *)
(* access point once, with its best signal.                                *)
Ranked(r, details, hd) ==
  /\ \A i, j \in 1..Len(r) : r[i] = r[j] => i = j
  /\ \A i \in 1..Len(r) : details[r[i]].ap \in Aps /\ details[r[i]].signal = hd[details[r[i]].ap]
  /\ \A i, j \in 1..Len(r) : details[r[i]].ap = details[r[j]].ap => i = j
  /\ \A i, j \in 1..Len(r) : i < j => details[r[i]].signal >= details[r[j]].signal

(* v is s with the result of x put into slot, and slot into the list rest. *)
IsPlaced(v, s, x, slot, signal, rest) ==
  /\ v \in ScanRec /\ v.running = s.running /\ v.cb = s.cb /\ v.buf = s.buf
  /\ Len(v.rank) = Len(rest) + 1
  /\ \E k \in 1..Len(rest) + 1 : v.rank[k] = slot
  /\ \A i \in 1..Len(rest) : \E j \in 1..Len(rest) + 1 : v.rank[j] = rest[i]
  /\ \A i \in 1..Len(rest) + 1 :
       v.rank[i] = slot \/ \E j \in 1..Len(rest) : v.rank[i] = rest[j]
  /\ v.details[slot] = [ap |-> x, signal |-> signal]
  /\ \A i \in 1..Len(rest) : v.details[rest[i]] = s.details[rest[i]]

LEMMA ResultSignal == \A y \in Result : y.signal \in Nat
<1> SUFFICES ASSUME NEW y \in Result PROVE y.signal \in Nat
  OBVIOUS
<1>1. y.signal \in Signals \cup {0}
  BY DEF Result
<1>2. Signals \subseteq Nat /\ 0 \in Nat
  BY WifiScanAssumption
<1> QED BY <1>1, <1>2, Zenon

(* Placed puts a result into such a list.                                  *)
LEMMA Placing ==
  ASSUME NEW s \in ScanRec, NEW x \in Aps, NEW slot \in Slots, NEW signal \in Signals,
         NEW rest \in Seq(Slots), NEW hd \in Heard, Ranked(rest, s.details, hd),
         \A i \in 1..Len(rest) : rest[i] # slot /\ s.details[rest[i]].ap # x,
         NEW hd2 \in Heard, hd2[x] = signal, \A a \in Aps \ {x} : hd2[a] = hd[a]
  PROVE  LET v == Placed(s, x, slot, signal, rest) IN
         IsPlaced(v, s, x, slot, signal, rest) /\ Ranked(v.rank, v.details, hd2)
<1> DEFINE L == Len(rest)
           Sg(i) == s.details[rest[i]].signal
           D == {i \in 1..L : Sg(i) >= signal}
           m == Cardinality(D)
           r == InsertAt(rest, m + 1, slot)
           ds == [s.details EXCEPT ![slot] = [ap |-> x, signal |-> signal]]
           v == [s EXCEPT !.details = ds, !.rank = r]
<1>1. /\ L \in Nat /\ \A i \in 1..L : rest[i] \in Slots /\ Sg(i) \in Nat
      /\ s.details \in [Slots -> Result] /\ signal \in Nat
  <2>1. L \in Nat /\ \A i \in 1..L : rest[i] \in Slots
    OBVIOUS
  <2>2. s.details \in [Slots -> Result]
    BY DEF ScanRec
  <2>3. signal \in Nat /\ \A y \in Result : y.signal \in Nat
    BY WifiScanAssumption, ResultSignal
  <2>4. \A i \in 1..L : Sg(i) \in Nat
    <3> TAKE i \in 1..L
    <3>1. s.details[rest[i]] \in Result
      BY <2>1, <2>2
    <3> QED BY <2>3, <3>1
  <2> QED BY <2>1, <2>2, <2>3, <2>4
<1>2. \A i, j \in 1..L : i < j => Sg(i) >= Sg(j)
  BY DEF Ranked
<1>3. m \in 0..L /\ D = 1..m
  <2>1. D \in SUBSET (1..L) /\ \A i \in D, j \in 1..L : j < i => j \in D
    BY <1>1, <1>2
  <2> HIDE DEF D
  <2> QED BY <1>1, <2>1, DownwardClosed
<1>4. \A i \in 1..L : i <= m <=> Sg(i) >= signal
  BY <1>1, <1>3
<1> HIDE DEF m, D
<1>5. /\ r \in Seq(Slots) /\ Len(r) = L + 1
      /\ \A j \in 1..m : r[j] = rest[j]
      /\ r[m + 1] = slot
      /\ \A j \in m + 1..L : r[j + 1] = rest[j]
  <2>1. IsInserted(Slots, rest, m, slot, r)
    BY <1>1, <1>3, InsertAtFacts
  <2> HIDE DEF r
  <2> QED BY <2>1 DEF IsInserted
<1>6. /\ ds \in [Slots -> Result] /\ ds[slot] = [ap |-> x, signal |-> signal]
      /\ \A i \in 1..L : ds[rest[i]] = s.details[rest[i]]
  BY <1>1 DEF Result
<1>7. Placed(s, x, slot, signal, rest) = v
  BY DEF Placed, ScanRec, r, m, D
<1> HIDE DEF r, ds
<1>8. /\ v \in ScanRec /\ v.running = s.running /\ v.cb = s.cb /\ v.buf = s.buf
      /\ v.rank = r /\ v.details = ds
  BY <1>5, <1>6 DEF ScanRec
<1> HIDE DEF v
(* Where the elements of r are from.                                       *)
<1> DEFINE from(i) == IF i <= m THEN i ELSE i - 1
<1>9. ASSUME NEW i \in 1..L + 1, i # m + 1
      PROVE  from(i) \in 1..L /\ r[i] = rest[from(i)]
  <2>1. CASE i <= m
    BY <1>1, <1>3, <1>5, <2>1
  <2>2. CASE i > m + 1
    <3>1. i - 1 \in m + 1..L /\ (i - 1) + 1 = i /\ i - 1 \in 1..L /\ ~(i <= m)
      BY <1>1, <1>3, <2>2
    <3>2. r[(i - 1) + 1] = rest[i - 1]
      BY <1>5, <3>1
    <3> QED BY <2>2, <3>1, <3>2
  <2> QED BY <1>1, <1>3, <1>9, <2>1, <2>2
<1>a. ASSUME NEW i \in 1..L + 1, NEW j \in 1..L + 1, i # m + 1, j # m + 1
      PROVE  (i < j => from(i) < from(j)) /\ (from(i) = from(j) => i = j)
  BY <1>1, <1>3, <1>a
<1> HIDE DEF from
<1>10. \A i \in 1..L : \E j \in 1..L + 1 : r[j] = rest[i]
  <2> TAKE i \in 1..L
  <2>1. CASE i <= m
    BY <1>1, <1>3, <1>5, <2>1
  <2>2. CASE i > m
    <3>1. i \in m + 1..L /\ i + 1 \in 1..L + 1
      BY <1>1, <1>3, <2>2
    <3> QED BY <1>5, <3>1
  <2> QED BY <1>1, <1>3, <2>1, <2>2
<1>11. Ranked(r, ds, hd2)
  <2>0. /\ ds[slot].ap = x /\ ds[slot].signal = signal
        /\ \A p \in 1..L : ds[rest[p]] = s.details[rest[p]] /\ rest[p] # slot /\ ds[rest[p]].ap # x
    BY <1>6
  <2>a. /\ \A p, q \in 1..L : rest[p] = rest[q] => p = q
        /\ \A p, q \in 1..L : ds[rest[p]].ap = ds[rest[q]].ap => p = q
        /\ \A p \in 1..L : ds[rest[p]].ap \in Aps /\ ds[rest[p]].signal = hd[ds[rest[p]].ap]
    BY <2>0 DEF Ranked
  <2>1. ASSUME NEW i \in 1..L + 1, NEW j \in 1..L + 1, r[i] = r[j] PROVE i = j
    <3>1. CASE i = m + 1 \/ j = m + 1
      BY <1>5, <1>9, <2>0, <2>1, <3>1
    <3>2. CASE i # m + 1 /\ j # m + 1
      BY <1>9, <1>a, <2>1, <2>a, <3>2
    <3> QED BY <3>1, <3>2
  <2>2. ASSUME NEW i \in 1..L + 1 PROVE ds[r[i]].ap \in Aps /\ ds[r[i]].signal = hd2[ds[r[i]].ap]
    <3>1. CASE i = m + 1
      BY <1>5, <2>0, <3>1
    <3>2. CASE i # m + 1
      <4>1. from(i) \in 1..L /\ r[i] = rest[from(i)]
        BY <1>9, <3>2
      <4> QED BY <2>0, <2>a, <4>1
    <3> QED BY <3>1, <3>2
  <2>3. ASSUME NEW i \in 1..L + 1, NEW j \in 1..L + 1, ds[r[i]].ap = ds[r[j]].ap PROVE i = j
    <3>1. CASE i = m + 1 \/ j = m + 1
      BY <1>5, <1>9, <2>0, <2>3, <3>1
    <3>2. CASE i # m + 1 /\ j # m + 1
      BY <1>9, <1>a, <2>3, <2>a, <3>2
    <3> QED BY <3>1, <3>2
  <2>4. ASSUME NEW i \in 1..L + 1, NEW j \in 1..L + 1, i < j PROVE ds[r[i]].signal >= ds[r[j]].signal
    <3>1. \A p \in 1..L : ds[rest[p]].signal = Sg(p)
      BY <2>0
    <3> HIDE DEF Sg
    <3>2. CASE j = m + 1
      <4>1. from(i) \in 1..L /\ from(i) <= m /\ r[i] = rest[from(i)]
        BY <1>1, <1>3, <1>9, <2>4, <3>2 DEF from
      <4> QED BY <1>1, <1>4, <1>5, <2>0, <3>1, <3>2, <4>1
    <3>3. CASE i = m + 1
      <4>1. from(j) \in 1..L /\ ~(from(j) <= m) /\ r[j] = rest[from(j)]
        BY <1>1, <1>3, <1>9, <2>4, <3>3 DEF from
      <4> QED BY <1>1, <1>4, <1>5, <2>0, <3>1, <3>3, <4>1
    <3>4. CASE i # m + 1 /\ j # m + 1
      <4>1. from(i) \in 1..L /\ from(j) \in 1..L /\ from(i) < from(j)
        BY <1>9, <1>a, <2>4, <3>4
      <4>2. r[i] = rest[from(i)] /\ r[j] = rest[from(j)]
        BY <1>9, <3>4
      <4> QED BY <1>2, <3>1, <4>1, <4>2
    <3> QED BY <3>2, <3>3, <3>4
  <2> QED BY <1>5, <2>1, <2>2, <2>3, <2>4 DEF Ranked
<1>12. \A i \in 1..L + 1 : r[i] = slot \/ \E j \in 1..L : r[i] = rest[j]
  BY <1>5, <1>9
<1>13. m + 1 \in 1..L + 1 /\ r[m + 1] = slot
  BY <1>1, <1>3, <1>5
<1>14. IsPlaced(v, s, x, slot, signal, rest)
  BY <1>5, <1>6, <1>8, <1>10, <1>12, <1>13 DEF IsPlaced
<1> QED BY <1>7, <1>8, <1>11, <1>14

(* The slots in use are the first ones, and what is not in the list was    *)
(* not heard, or not better than anything in a full list.                  *)
Kept1(a, s, hd) ==
  \/ hd[a] = 0
  \/ \E i \in 1..Len(s.rank) : s.details[s.rank[i]].ap = a
  \/ /\ Len(s.rank) = MaxAp
     /\ \A i \in 1..MaxAp : hd[a] <= s.details[s.rank[i]].signal
Best(s, hd) ==
  /\ Len(s.rank) <= MaxAp
  /\ \A i \in 1..Len(s.rank) : s.rank[i] \in 1..Len(s.rank)
  /\ \A p \in 1..Len(s.rank) : \E i \in 1..Len(s.rank) : s.rank[i] = p
  /\ \A a \in Aps : Kept1(a, s, hd)
Listed(s, hd) == s \in ScanRec /\ Ranked(s.rank, s.details, hd) /\ Best(s, hd)

(* What the list leaves out after a result was placed.                     *)
Left(a, s, signal, rest, hd) ==
  \/ hd[a] = 0
  \/ \E i \in 1..Len(rest) : s.details[rest[i]].ap = a
  \/ /\ Len(rest) + 1 = MaxAp /\ hd[a] <= signal
     /\ \A i \in 1..Len(rest) : hd[a] <= s.details[rest[i]].signal

LEMMA PlacedIsBest ==
  ASSUME NEW s \in ScanRec, NEW x \in Aps, NEW slot \in Slots, NEW signal \in Signals,
         NEW rest \in Seq(Slots), NEW hd \in Heard, NEW hd2 \in Heard,
         \A a \in Aps \ {x} : hd2[a] = hd[a],
         NEW v, IsPlaced(v, s, x, slot, signal, rest), Len(rest) + 1 <= MaxAp,
         slot \in 1..Len(rest) + 1, \A i \in 1..Len(rest) : rest[i] \in 1..Len(rest) + 1,
         \A p \in 1..Len(rest) + 1 : p = slot \/ \E i \in 1..Len(rest) : rest[i] = p,
         \A a \in Aps \ {x} : Left(a, s, signal, rest, hd)
  PROVE  Best(v, hd2)
<1> DEFINE N == Len(rest) + 1
<1>1. /\ v \in ScanRec /\ Len(v.rank) = N
      /\ \E k \in 1..N : v.rank[k] = slot
      /\ \A i \in 1..Len(rest) : \E j \in 1..N : v.rank[j] = rest[i]
      /\ \A i \in 1..N : v.rank[i] = slot \/ \E j \in 1..Len(rest) : v.rank[i] = rest[j]
      /\ v.details[slot] = [ap |-> x, signal |-> signal]
      /\ \A i \in 1..Len(rest) : v.details[rest[i]] = s.details[rest[i]]
  BY DEF IsPlaced
<1>2. N \in Nat /\ Len(rest) \in Nat
  OBVIOUS
<1>3. \A i \in 1..N : v.rank[i] \in 1..N
  BY <1>1
<1>4. \A p \in 1..N : \E i \in 1..N : v.rank[i] = p
  <2> TAKE p \in 1..N
  <2>1. CASE p = slot
    BY <1>1, <2>1
  <2>2. CASE \E i \in 1..Len(rest) : rest[i] = p
    <3>1. PICK i \in 1..Len(rest) : rest[i] = p
      BY <2>2
    <3>2. PICK j \in 1..N : v.rank[j] = rest[i]
      BY <1>1
    <3> QED BY <3>1, <3>2
  <2> QED BY <2>1, <2>2
<1>5. ASSUME NEW a \in Aps PROVE Kept1(a, v, hd2)
  <2>1. CASE a = x
    BY <1>1, <2>1 DEF Kept1
  <2>2. CASE a # x
    <3>1. Left(a, s, signal, rest, hd) /\ hd2[a] = hd[a]
      BY <2>2
    <3>2. CASE hd[a] = 0
      BY <3>1, <3>2 DEF Kept1
    <3>3. CASE \E i \in 1..Len(rest) : s.details[rest[i]].ap = a
      <4>1. PICK i \in 1..Len(rest) : s.details[rest[i]].ap = a
        BY <3>3
      <4>2. PICK j \in 1..N : v.rank[j] = rest[i]
        BY <1>1
      <4>3. v.details[v.rank[j]].ap = a
        BY <1>1, <4>1, <4>2
      <4> QED BY <1>1, <4>3 DEF Kept1
    <3>4. CASE /\ Len(rest) + 1 = MaxAp /\ hd[a] <= signal
               /\ \A i \in 1..Len(rest) : hd[a] <= s.details[rest[i]].signal
      <4>1. ASSUME NEW i \in 1..N PROVE hd2[a] <= v.details[v.rank[i]].signal
        <5>1. CASE v.rank[i] = slot
          <6>1. v.details[v.rank[i]].signal = signal
            BY <1>1, <5>1
          <6> QED BY <3>1, <3>4, <6>1
        <5>2. CASE \E j \in 1..Len(rest) : v.rank[i] = rest[j]
          <6>1. PICK j \in 1..Len(rest) : v.rank[i] = rest[j]
            BY <5>2
          <6>2. v.details[v.rank[i]] = s.details[rest[j]]
            BY <1>1, <6>1
          <6> QED BY <3>1, <3>4, <6>2
        <5> QED BY <1>1, <5>1, <5>2
      <4> QED BY <1>1, <3>4, <4>1 DEF Kept1
    <3> QED BY <3>1, <3>2, <3>3, <3>4 DEF Left
  <2> QED BY <2>1, <2>2
<1> QED BY <1>1, <1>3, <1>4, <1>5 DEF Best

(* The two together: slot may be placed among rest, which is the list or   *)
(* what is left of it.                                                     *)
Fits(s, x, slot, signal, rest, hd) ==
  /\ Len(rest) + 1 <= MaxAp /\ slot \in 1..Len(rest) + 1
  /\ \A i \in 1..Len(rest) : rest[i] \in 1..Len(rest) + 1
  /\ \A p \in 1..Len(rest) + 1 : p = slot \/ \E i \in 1..Len(rest) : rest[i] = p
  /\ Ranked(rest, s.details, hd)
  /\ \A i \in 1..Len(rest) : rest[i] # slot /\ s.details[rest[i]].ap # x
  /\ \A a \in Aps \ {x} : Left(a, s, signal, rest, hd)
Updates(hd2, hd, x, signal) == hd2[x] = signal /\ \A a \in Aps \ {x} : hd2[a] = hd[a]
Follows(v, s, hd) == Listed(v, hd) /\ v.running = s.running /\ v.cb = s.cb /\ v.buf = s.buf

LEMMA PlacedIsListed ==
  ASSUME NEW s \in ScanRec, NEW x \in Aps, NEW slot \in Slots, NEW signal \in Signals,
         NEW rest \in Seq(Slots), NEW hd \in Heard, NEW hd2 \in Heard,
         Updates(hd2, hd, x, signal), Fits(s, x, slot, signal, rest, hd)
  PROVE  Follows(Placed(s, x, slot, signal, rest), s, hd2)
<1> DEFINE v == Placed(s, x, slot, signal, rest)
<1> USE DEF Fits, Updates
<1>1. IsPlaced(v, s, x, slot, signal, rest) /\ Ranked(v.rank, v.details, hd2)
  BY Placing
<1> HIDE DEF v
<1>2. Best(v, hd2)
  BY <1>1, PlacedIsBest
<1>3. v \in ScanRec /\ v.running = s.running /\ v.cb = s.cb /\ v.buf = s.buf
  BY <1>1 DEF IsPlaced
<1>4. Follows(v, s, hd2)
  BY <1>1, <1>2, <1>3 DEF Listed, Follows
<1> QED BY <1>4 DEF v

LEMMA Reporting ==
  ASSUME NEW s, NEW hd \in Heard, Listed(s, hd), NEW x \in Aps, NEW signal \in Signals,
         NEW hd2, hd2 = [hd EXCEPT ![x] = IF signal > @ THEN signal ELSE @]
  PROVE  hd2 \in Heard /\ Follows(EachReport(s, x, signal), s, hd2)
<1> DEFINE n == Len(s.rank)
           v == EachReport(s, x, signal)
           known == {i \in 1..n : s.details[s.rank[i]].ap = x}
<1>1. /\ s \in ScanRec /\ Ranked(s.rank, s.details, hd) /\ Best(s, hd)
      /\ s.rank \in Seq(Slots) /\ n \in Nat /\ n <= MaxAp
      /\ s.details \in [Slots -> Result]
  BY DEF Listed, ScanRec, Best
<1>2. /\ hd2 \in Heard /\ \A a \in Aps \ {x} : hd2[a] = hd[a]
      /\ hd2[x] = IF signal > hd[x] THEN signal ELSE hd[x]
      /\ signal \in Nat /\ \A a \in Aps : hd[a] \in Nat
      /\ MaxAp \in Nat \ {0}
  <2>1. MaxAp \in Nat \ {0} /\ signal \in Nat /\ Signals \cup {0} \subseteq Nat
    BY WifiScanAssumption
  <2>2. hd \in [Aps -> Signals \cup {0}]
    BY DEF Heard
  <2>3. /\ \A a \in Aps \ {x} : hd2[a] = hd[a]
        /\ hd2[x] = IF signal > hd[x] THEN signal ELSE hd[x]
        /\ hd2 \in [Aps -> Signals \cup {0}]
    BY <2>2
  <2> QED BY <2>1, <2>2, <2>3 DEF Heard
<1> SUFFICES Follows(v, s, hd2)
  BY <1>2
<1>3. /\ \A i, j \in 1..n : s.rank[i] = s.rank[j] => i = j
      /\ \A i \in 1..n : s.details[s.rank[i]].signal = hd[s.details[s.rank[i]].ap]
      /\ \A i, j \in 1..n : s.details[s.rank[i]].ap = s.details[s.rank[j]].ap => i = j
      /\ \A i, j \in 1..n : i < j => s.details[s.rank[i]].signal >= s.details[s.rank[j]].signal
      /\ \A i \in 1..n : s.details[s.rank[i]].ap \in Aps
  BY <1>1 DEF Ranked
<1>4. /\ \A i \in 1..n : s.rank[i] \in 1..n /\ s.rank[i] \in Slots
      /\ \A p \in 1..n : \E i \in 1..n : s.rank[i] = p
      /\ \A a \in Aps : Kept1(a, s, hd)
  BY <1>1 DEF Best
<1>5. \A i \in 1..n : s.details[s.rank[i]].signal \in Nat
  BY <1>2, <1>3
<1> USE DEF HasRoom
<1>7. CASE known # {}
  <2>1. PICK i \in known : \A j \in known : i = j
    BY SMTT(30), <1>3, <1>7
  <2>2. i \in 1..n /\ s.details[s.rank[i]].ap = x /\ hd[x] = s.details[s.rank[i]].signal
    BY <1>3, <2>1
  <2>3. (CHOOSE j \in known : \A m \in known : j <= m) = i
    BY <2>1, <2>2
  <2> DEFINE first == CHOOSE j \in known : \A m \in known : j <= m
  <2>a. v = IF signal > Signal(s, first) THEN Raised(s, first, x, signal) ELSE s
    BY <1>7 DEF EachReport
  <2>4. v = IF signal > Signal(s, i) THEN Raised(s, i, x, signal) ELSE s
    BY <2>3, <2>a
  <2>5. CASE ~(signal > Signal(s, i))
    <3>1. v = s /\ hd2 = hd
      BY <1>2, <2>2, <2>4, <2>5 DEF Signal, Heard
    <3> HIDE DEF v
    <3> QED BY <3>1 DEF Follows
  <2>6. CASE signal > Signal(s, i)
    <3> DEFINE rest == RemoveAt(s.rank, i)
               slot == s.rank[i]
    <3>1. v = Placed(s, x, slot, signal, rest) /\ hd2[x] = signal
      BY <1>2, <2>2, <2>4, <2>6 DEF Signal, Raised
    <3>2. /\ rest \in Seq(Slots) /\ Len(rest) = n - 1
          /\ \A j \in 1..n - 1 : rest[j] = IF j < i THEN s.rank[j] ELSE s.rank[j + 1]
      BY <1>1, <2>2, RemoveAtFacts
    <3> HIDE DEF v, rest
    <3> DEFINE from(j) == IF j < i THEN j ELSE j + 1
    <3>3. /\ \A j \in 1..n - 1 : from(j) \in 1..n /\ from(j) # i /\ rest[j] = s.rank[from(j)]
          /\ \A j, k \in 1..n - 1 : (j < k => from(j) < from(k)) /\ (from(j) = from(k) => j = k)
          /\ \A k \in 1..n : k # i => \E j \in 1..n - 1 : from(j) = k
      <4>1. \A j \in 1..n - 1 : from(j) \in 1..n /\ from(j) # i /\ rest[j] = s.rank[from(j)]
        BY <1>1, <2>2, <3>2
      <4>2. \A j, k \in 1..n - 1 : (j < k => from(j) < from(k)) /\ (from(j) = from(k) => j = k)
        BY <1>1, <2>2
      <4>3. ASSUME NEW k \in 1..n, k # i PROVE \E j \in 1..n - 1 : from(j) = k
        <5>1. CASE k < i
          BY <1>1, <2>2, <5>1
        <5>2. CASE k > i
          <6>1. k - 1 \in 1..n - 1 /\ from(k - 1) = k
            BY <1>1, <2>2, <5>2
          <6> QED BY <6>1
        <5> QED BY <1>1, <2>2, <4>3, <5>1, <5>2
      <4> QED BY <4>1, <4>2, <4>3
    <3> HIDE DEF from
    <3>4. Ranked(rest, s.details, hd)
      <4>0. ASSUME NEW j \in 1..n - 1, NEW k \in 1..n - 1
            PROVE  /\ from(j) \in 1..n /\ from(k) \in 1..n
                   /\ rest[j] = s.rank[from(j)] /\ rest[k] = s.rank[from(k)]
                   /\ (j < k => from(j) < from(k)) /\ (from(j) = from(k) => j = k)
        BY <3>3
      <4>1. ASSUME NEW j \in 1..n - 1, NEW k \in 1..n - 1, rest[j] = rest[k] PROVE j = k
        BY <1>3, <4>0, <4>1
      <4>2. ASSUME NEW j \in 1..n - 1, NEW k \in 1..n - 1,
                   s.details[rest[j]].ap = s.details[rest[k]].ap
            PROVE  j = k
        <5>1. s.details[s.rank[from(j)]].ap = s.details[s.rank[from(k)]].ap
          BY <4>0, <4>2
        <5>2. from(j) = from(k)
          BY <1>3, <4>0, <5>1
        <5> QED BY <4>0, <5>2
      <4>3. ASSUME NEW j \in 1..n - 1, NEW k \in 1..n - 1, j < k
            PROVE  s.details[rest[j]].signal >= s.details[rest[k]].signal
        BY SMTT(30), <1>3, <4>0, <4>3
      <4>4. \A j \in 1..n - 1 : s.details[rest[j]].ap \in Aps /\ s.details[rest[j]].signal = hd[s.details[rest[j]].ap]
        BY <1>3, <3>3
      <4> QED BY <3>2, <4>1, <4>2, <4>3, <4>4 DEF Ranked
    <3>5. \A j \in 1..Len(rest) : rest[j] # slot /\ s.details[rest[j]].ap # x
      <4> TAKE j \in 1..Len(rest)
      <4>1. from(j) \in 1..n /\ from(j) # i /\ rest[j] = s.rank[from(j)]
        BY <3>2, <3>3
      <4> QED BY <1>3, <2>2, <4>1
    <3>6. /\ Len(rest) + 1 = n /\ slot \in 1..Len(rest) + 1 /\ slot \in Slots
          /\ \A j \in 1..Len(rest) : rest[j] \in 1..Len(rest) + 1
      <4>1. Len(rest) + 1 = n
        BY <1>1, <3>2
      <4>2. slot \in 1..n /\ slot \in Slots
        BY <1>4, <2>2
      <4>3. ASSUME NEW j \in 1..n - 1 PROVE rest[j] \in 1..n
        BY <1>4, <3>3
      <4> QED BY <3>2, <4>1, <4>2, <4>3
    <3>7. ASSUME NEW p \in 1..Len(rest) + 1 PROVE p = slot \/ \E j \in 1..Len(rest) : rest[j] = p
      <4>1. PICK k \in 1..n : s.rank[k] = p
        BY <1>4, <3>6
      <4>2. CASE k = i
        BY <4>1, <4>2
      <4>3. CASE k # i
        <5>1. PICK j \in 1..n - 1 : from(j) = k
          BY <3>3, <4>3
        <5> QED BY <3>2, <3>3, <4>1, <5>1
      <4> QED BY <4>2, <4>3
    <3>8. ASSUME NEW a \in Aps \ {x} PROVE Left(a, s, signal, rest, hd)
      <4>1. Kept1(a, s, hd)
        BY <1>4
      <4>2. CASE \E k \in 1..n : s.details[s.rank[k]].ap = a
        <5>1. PICK k \in 1..n : s.details[s.rank[k]].ap = a
          BY <4>2
        <5>2. PICK j \in 1..n - 1 : from(j) = k
          BY <2>2, <3>3, <5>1
        <5>3. s.details[rest[j]].ap = a
          BY <3>3, <5>1, <5>2
        <5> QED BY <3>2, <5>3 DEF Left
      <4>3. CASE n = MaxAp /\ \A k \in 1..MaxAp : hd[a] <= s.details[s.rank[k]].signal
        <5>1. \A j \in 1..n - 1 : hd[a] <= s.details[rest[j]].signal
          BY <3>3, <4>3
        <5>2. hd[a] <= signal
          <6>1. hd[a] <= s.details[s.rank[i]].signal
            BY <2>2, <4>3
          <6>2. s.details[s.rank[i]].signal < signal
            BY <2>6 DEF Signal
          <6>3. hd[a] \in Nat /\ signal \in Nat /\ s.details[s.rank[i]].signal \in Nat
            BY <1>2, <1>5, <2>2
          <6> QED BY <6>1, <6>2, <6>3
        <5> QED BY <3>2, <3>6, <4>3, <5>1, <5>2 DEF Left
      <4> QED BY <4>1, <4>2, <4>3 DEF Kept1, Left
    <3> HIDE DEF slot
    <3>10. Fits(s, x, slot, signal, rest, hd)
      BY <1>1, <1>2, <3>1, <3>2, <3>4, <3>5, <3>6, <3>7, <3>8 DEF Fits
    <3>12. s \in ScanRec /\ Updates(hd2, hd, x, signal)
      BY <1>1, <1>2, <3>1, <3>3 DEF Updates
    <3>11. Follows(Placed(s, x, slot, signal, rest), s, hd2)
      BY <1>1, <1>2, <3>2, <3>3, <3>6, <3>7, <3>10, <3>12, PlacedIsListed
    <3> QED BY <3>1, <3>11
  <2> QED BY <2>5, <2>6
<1>8. CASE known = {} /\ n < MaxAp
  <2>1. v = Placed(s, x, n + 1, signal, s.rank)
    BY <1>8 DEF EachReport
  <2>2. \A a \in Aps : hd[a] = 0 \/ \E i \in 1..n : s.details[s.rank[i]].ap = a
    BY <1>4, <1>8 DEF Kept1
  <2>3. hd[x] = 0 /\ hd2[x] = signal
    BY <1>2, <1>8, <2>2
  <2>4. /\ n + 1 \in Slots /\ n + 1 \in 1..n + 1
        /\ \A i \in 1..n : s.rank[i] \in 1..n + 1 /\ s.rank[i] # n + 1 /\ s.details[s.rank[i]].ap # x
    <3>1. n + 1 \in Slots /\ n + 1 \in 1..n + 1
      BY <1>1, <1>2, <1>8 DEF Slots
    <3>2. ASSUME NEW i \in 1..n PROVE s.rank[i] \in 1..n + 1 /\ s.rank[i] # n + 1
      <4>1. s.rank[i] \in 1..n
        BY <1>4
      <4> QED BY <1>1, <4>1
    <3>3. \A i \in 1..n : s.details[s.rank[i]].ap # x
      BY <1>8
    <3> QED BY <3>1, <3>2, <3>3
  <2>5. ASSUME NEW p \in 1..n + 1 PROVE p = n + 1 \/ \E i \in 1..n : s.rank[i] = p
    <3>1. p = n + 1 \/ p \in 1..n
      BY <1>1
    <3> QED BY <1>4, <3>1
  <2>6. \A a \in Aps \ {x} : Left(a, s, signal, s.rank, hd)
    BY <2>2 DEF Left
  <2>7. n + 1 <= MaxAp
    BY <1>1, <1>2, <1>8
  <2> HIDE DEF v
  <2>8. Fits(s, x, n + 1, signal, s.rank, hd)
    BY <1>1, <1>2, <2>3, <2>4, <2>5, <2>6, <2>7 DEF Fits
  <2>10. s \in ScanRec /\ Updates(hd2, hd, x, signal)
    BY <1>1, <1>2, <2>3 DEF Updates
  <2>9. Follows(Placed(s, x, n + 1, signal, s.rank), s, hd2)
    BY <1>1, <1>2, <2>4, <2>8, <2>10, PlacedIsListed
  <2> QED BY <2>1, <2>9
<1>9. CASE known = {} /\ ~(n < MaxAp)
  <2>1. n = MaxAp /\ MaxAp \in 1..n
    BY <1>1, <1>2, <1>9
  <2>2. \A a \in Aps : hd[a] # 0 => \/ \E i \in 1..n : s.details[s.rank[i]].ap = a
                                    \/ \A i \in 1..n : hd[a] <= s.details[s.rank[i]].signal
    BY <1>4, <2>1 DEF Kept1
  <2>3. hd[x] = 0 \/ \A i \in 1..n : hd[x] <= s.details[s.rank[i]].signal
    BY <1>9, <2>2
  <2>4. CASE ~(signal > Signal(s, MaxAp))
    <3>1. v = s
      BY <1>9, <2>4 DEF EachReport
    <3>2. \A i \in 1..n : signal <= s.details[s.rank[i]].signal
      <4>1. \A i \in 1..n : i = MaxAp \/ i < MaxAp
        BY <2>1
      <4>2. \A i \in 1..n : s.details[s.rank[MaxAp]].signal <= s.details[s.rank[i]].signal
        BY <1>3, <1>5, <2>1, <4>1
      <4>3. signal <= s.details[s.rank[MaxAp]].signal
        BY <1>2, <1>5, <2>1, <2>4 DEF Signal
      <4> QED BY <1>2, <1>5, <2>1, <4>2, <4>3
    <3>3. hd2[x] = 0 \/ \A i \in 1..n : hd2[x] <= s.details[s.rank[i]].signal
      BY <1>2, <2>3, <3>2
    <3>4. \A a \in Aps : Kept1(a, s, hd2)
      BY <1>2, <1>4, <2>1, <3>3 DEF Kept1
    <3>5. Best(s, hd2)
      BY <1>1, <3>4 DEF Best
    <3>6. Ranked(s.rank, s.details, hd2)
      <4>1. \A i \in 1..n : s.details[s.rank[i]].ap # x
        BY <1>9
      <4>2. \A i \in 1..n : s.details[s.rank[i]].signal = hd2[s.details[s.rank[i]].ap]
        BY <1>2, <1>3, <4>1
      <4> QED BY <1>3, <4>2 DEF Ranked
    <3> HIDE DEF v
    <3> QED BY <1>1, <3>1, <3>5, <3>6 DEF Listed, Follows
  <2>5. CASE signal > Signal(s, MaxAp)
    <3> DEFINE rest == SubSeq(s.rank, 1, MaxAp - 1)
               slot == s.rank[MaxAp]
    <3>1. v = Placed(s, x, slot, signal, rest)
      BY <1>9, <2>5 DEF EachReport
    <3>2. rest \in Seq(Slots) /\ Len(rest) = n - 1 /\ \A j \in 1..n - 1 : rest[j] = s.rank[j]
      BY <1>1, <2>1
    <3>3. hd2[x] = signal
      BY <1>2, <1>5, <2>1, <2>3, <2>5 DEF Signal
    <3> HIDE DEF v, rest
    <3>4. \A j \in 1..n - 1 : j \in 1..n /\ j # MaxAp /\ rest[j] = s.rank[j]
      BY <2>1, <3>2
    <3>5. Ranked(rest, s.details, hd)
      BY SMTT(30), <1>3, <3>2, <3>4 DEF Ranked
    <3>6. \A j \in 1..Len(rest) : rest[j] # slot /\ s.details[rest[j]].ap # x
      BY <1>3, <1>9, <2>1, <3>2, <3>4
    <3>7. /\ Len(rest) + 1 = n /\ Len(rest) + 1 <= MaxAp /\ slot \in 1..Len(rest) + 1 /\ slot \in Slots
          /\ \A j \in 1..Len(rest) : rest[j] \in 1..Len(rest) + 1
      <4>1. Len(rest) + 1 = n /\ n <= MaxAp
        BY <1>1, <3>2
      <4>2. slot \in 1..n /\ slot \in Slots
        BY <1>4, <2>1
      <4>3. ASSUME NEW j \in 1..n - 1 PROVE rest[j] \in 1..n
        BY <1>4, <3>4
      <4> QED BY <3>2, <4>1, <4>2, <4>3
    <3>8. ASSUME NEW p \in 1..Len(rest) + 1 PROVE p = slot \/ \E j \in 1..Len(rest) : rest[j] = p
      <4>1. PICK k \in 1..n : s.rank[k] = p
        BY <1>4, <3>7
      <4>2. k = MaxAp \/ k \in 1..n - 1
        BY <2>1
      <4> QED BY <3>2, <3>4, <4>1, <4>2
    <3>9. ASSUME NEW a \in Aps \ {x} PROVE Left(a, s, signal, rest, hd)
      <4>1. CASE \E k \in 1..n : s.details[s.rank[k]].ap = a
        <5>1. PICK k \in 1..n : s.details[s.rank[k]].ap = a
          BY <4>1
        <5>2. CASE k \in 1..n - 1
          BY <3>2, <3>4, <5>1, <5>2 DEF Left
        <5>3. CASE k = MaxAp
          <6>1. hd[a] = s.details[s.rank[MaxAp]].signal
            BY <1>3, <5>1, <5>3
          <6>2. hd[a] <= signal
            BY <1>2, <2>5, <6>1 DEF Signal
          <6>3. \A j \in 1..n - 1 : hd[a] <= s.details[rest[j]].signal
            <7>1. \A j \in 1..n - 1 : j < MaxAp /\ s.details[rest[j]].signal >= s.details[s.rank[MaxAp]].signal
              BY <1>3, <2>1, <3>4
            <7> QED BY <6>1, <7>1
          <6> QED BY <2>1, <3>2, <3>7, <6>2, <6>3 DEF Left
        <5> QED BY <2>1, <5>1, <5>2, <5>3
      <4>2. CASE \A i \in 1..n : hd[a] <= s.details[s.rank[i]].signal
        <5>1. hd[a] <= signal
          BY <1>2, <1>5, <2>1, <2>5, <4>2 DEF Signal
        <5>2. \A j \in 1..n - 1 : hd[a] <= s.details[rest[j]].signal
          BY <3>4, <4>2
        <5> QED BY <2>1, <3>2, <3>7, <5>1, <5>2 DEF Left
      <4> QED BY <2>2, <4>1, <4>2 DEF Left
    <3> HIDE DEF slot
    <3>10. Fits(s, x, slot, signal, rest, hd)
      BY <1>1, <1>2, <3>1, <3>2, <3>3, <3>5, <3>6, <3>7, <3>8, <3>9 DEF Fits
    <3>12. s \in ScanRec /\ Updates(hd2, hd, x, signal)
      BY <1>1, <1>2, <3>1, <3>3 DEF Updates
    <3>11. Follows(Placed(s, x, slot, signal, rest), s, hd2)
      BY <1>1, <1>2, <3>2, <3>3, <3>6, <3>7, <3>10, <3>12, PlacedIsListed
    <3> QED BY <3>1, <3>11
  <2> QED BY <2>4, <2>5
<1> HIDE DEF v
<1> QED BY <1>7, <1>8, <1>9
-----------------------------------------------------------------------------
(* The invariant.  What is typed holds always; the rest until a scan is    *)
(* closed while it starts.                                                 *)
TaskState == [Tasks -> {"idle", "pscan", "scan", "failing", "wait"}]
Typed ==
  /\ World \in Worlds /\ ScanTable(World.table) /\ Len(scan.rank) <= MaxAp
  /\ running \subseteq timers
  /\ task \in TaskState /\ requests \in 0..MaxRequests
  /\ page \in [Pages -> PageRec] /\ crossed \in BOOLEAN

(* A task that set the channels has not allocated the buffer yet.          *)
Owned == owner # Nothing /\ task[owner] = "pscan" => scan.buf = Nothing
Recorded == scan.buf # Nothing => Listed(scan, heard)

IInv == Typed /\ (~crossed => Fine(World) /\ Owned /\ Recorded /\ PageHasList)

LEMMA Fields ==
  /\ World.table = event_callback_list /\ World.scan = scan /\ World.web = web
  /\ World.heap = heap /\ World.timers = timers /\ World.running = running
  /\ World.owner = owner /\ World.heard = heard
  BY DEF World

LEMMA FieldsPrime ==
  /\ World'.table = event_callback_list' /\ World'.scan = scan' /\ World'.web = web'
  /\ World'.heap = heap' /\ World'.timers = timers' /\ World'.running = running'
  /\ World'.owner = owner' /\ World'.heard = heard'
  BY DEF World

LEMMA Becoming ==
  ASSUME NEW w \in Worlds, Become(w)
  PROVE  World' = w
<1>1. w = [table |-> w.table, scan |-> w.scan, web |-> w.web, heap |-> w.heap,
           timers |-> w.timers, running |-> w.running, owner |-> w.owner, heard |-> w.heard]
  BY DEF Worlds
<1> QED BY <1>1 DEF Become, World

(* A page that is on is lost, when a list is closed.                       *)
AllLost(pg) == pg \in [Pages -> PageRec] /\ \A p \in Pages : pg[p].on => pg[p].lost

LEMMA Losing ==
  ASSUME Typed, NEW pg, NEW p,
         pg = [q \in Pages |-> IF q = p THEN NoPage
                 ELSE IF page[q].on THEN [page[q] EXCEPT !.lost = TRUE] ELSE page[q]]
  PROVE  AllLost(pg)
<1>1. page \in [Pages -> PageRec]
  BY DEF Typed
<1>2. ASSUME NEW q \in Pages PROVE pg[q] \in PageRec /\ (pg[q].on => pg[q].lost)
  <2>1. CASE q = p
    BY <2>1, Constants
  <2>2. CASE q # p /\ page[q].on
    BY <1>1, <2>2 DEF PageRec
  <2>3. CASE q # p /\ ~page[q].on
    BY <1>1, <2>3
  <2> QED BY <2>1, <2>2, <2>3
<1> HIDE DEF NoPage
<1> QED BY <1>2 DEF AllLost

LEMMA LosingAll ==
  ASSUME Typed, NEW w, w.web.flg = 0, ListGone(w, Pages)
  PROVE  AllLost(page')
<1>1. page \in [Pages -> PageRec]
  BY DEF Typed
<1>2. page' = [p \in Pages |-> IF page[p].on THEN [page[p] EXCEPT !.lost = TRUE] ELSE page[p]]
  BY DEF ListGone
<1>3. ASSUME NEW q \in Pages PROVE page'[q] \in PageRec /\ (page'[q].on => page'[q].lost)
  <2>1. CASE page[q].on
    BY <1>1, <1>2, <2>1 DEF PageRec
  <2>2. CASE ~page[q].on
    BY <1>1, <1>2, <2>2
  <2> QED BY <2>1, <2>2
<1> QED BY <1>2, <1>3 DEF AllLost

(* After wifi_close_scan everything is as at the start.                    *)
LEMMA ClosedStep ==
  ASSUME NEW w, Closable(w), Become(wifi_close_scan(w)), AllLost(page'),
         task' \in TaskState, requests' \in 0..MaxRequests, crossed' \in BOOLEAN
  PROVE  IInv'
<1> DEFINE v == wifi_close_scan(w)
<1>1. Fine(v) /\ ~v.scan.running /\ v.web.flg = 0 /\ v.owner = Nothing
  BY AllClosed
<1> HIDE DEF v
<1>2. v \in Worlds /\ Closable(v)
  BY <1>1 DEF Fine, Closable
<1>3. World' = v
  BY <1>2, Becoming DEF v
<1>4. /\ scan' = v.scan /\ web' = v.web /\ owner' = v.owner /\ running' = v.running
      /\ timers' = v.timers
  BY <1>3, FieldsPrime
<1>5. Typed'
  <2>1. ScanTable(v.table) /\ Len(v.scan.rank) <= MaxAp /\ v.running \subseteq v.timers
    BY <1>2 DEF Closable
  <2>2. page' \in [Pages -> PageRec]
    BY DEF AllLost
  <2> QED BY <1>2, <1>3, <1>4, <2>1, <2>2 DEF Typed
<1>6. Fine(World')
  BY <1>1, <1>3
<1>7. Owned'
  BY <1>1, <1>4 DEF Owned
<1>8. Recorded'
  BY <1>1, <1>2, <1>4 DEF Recorded, Closable
<1>9. PageHasList'
  BY DEF AllLost, PageHasList
<1> QED BY <1>5, <1>6, <1>7, <1>8, <1>9 DEF IInv

(* What the invariant says, for the steps below.                           *)
LEMMA Facts ==
  ASSUME IInv, ~crossed
  PROVE  /\ World \in Worlds /\ Fine(World) /\ Closable(World) /\ Owned /\ Recorded /\ PageHasList
         /\ task \in TaskState /\ requests \in 0..MaxRequests /\ page \in [Pages -> PageRec]
         /\ event_callback_list \in EventTable /\ scan \in ScanRec /\ web \in WebRec
         /\ heap \subseteq Buffers /\ timers \subseteq Timers /\ running \subseteq timers
         /\ owner \in Tasks \cup {Nothing} /\ heard \in Heard /\ crossed \in BOOLEAN
<1>1. /\ World \in Worlds /\ Fine(World) /\ Owned /\ Recorded /\ PageHasList
      /\ task \in TaskState /\ requests \in 0..MaxRequests /\ page \in [Pages -> PageRec]
      /\ running \subseteq timers /\ crossed \in BOOLEAN
  BY DEF IInv, Typed
<1>2. Closable(World)
  BY <1>1 DEF Fine
<1>3. /\ event_callback_list \in EventTable /\ scan \in ScanRec /\ web \in WebRec
      /\ heap \subseteq Buffers /\ timers \subseteq Timers
      /\ owner \in Tasks \cup {Nothing} /\ heard \in Heard
  BY <1>1, Fields DEF Worlds
<1> QED BY <1>1, <1>2, <1>3

(* The step leads to a state with w, and the pages are as they were.       *)
LEMMA Stepping ==
  ASSUME NEW w \in Worlds, Become(w), ScanTable(w.table), Len(w.scan.rank) <= MaxAp,
         w.running \subseteq w.timers,
         task' \in TaskState, requests' \in 0..MaxRequests, page' \in [Pages -> PageRec],
         crossed' \in BOOLEAN,
         ~crossed' => /\ Fine(w) /\ PageHasList'
                      /\ w.owner # Nothing /\ task'[w.owner] = "pscan" => w.scan.buf = Nothing
                      /\ w.scan.buf # Nothing => Listed(w.scan, w.heard)
  PROVE  IInv'
<1>1. World' = w
  BY Becoming
<1>2. /\ scan' = w.scan /\ running' = w.running /\ timers' = w.timers
      /\ owner' = w.owner /\ heard' = w.heard
  BY DEF Become
<1>3. Typed'
  BY <1>1, <1>2 DEF Typed
<1>4. ASSUME ~crossed' PROVE Fine(World') /\ Owned' /\ Recorded' /\ PageHasList'
  <2>1. Fine(World') /\ PageHasList'
    BY <1>1, <1>4
  <2>2. Owned' /\ Recorded'
    BY <1>2, <1>4 DEF Owned, Recorded
  <2> QED BY <2>1, <2>2
<1>5. Fine(World)' <=> Fine(World')
  BY DEF Fine, Closable
<1> QED BY <1>3, <1>4, <1>5 DEF IInv

(* wifi_close_scan of any record, also of one that lost its buffer.        *)
LEMMA ClosedTyped ==
  ASSUME NEW w \in Worlds, ScanTable(w.table), Len(w.scan.rank) <= MaxAp,
         w.running \subseteq w.timers
  PROVE  LET v == wifi_close_scan(w) IN
         /\ v \in Worlds /\ ScanTable(v.table) /\ Len(v.scan.rank) <= MaxAp
         /\ v.running \subseteq v.timers
<1> DEFINE u == CloseScan(w)
           v == CloseWeb(u)
<1>1. /\ u \in Worlds /\ ScanTable(u.table) /\ Len(u.scan.rank) <= MaxAp
      /\ u.running \subseteq u.timers
  <2>1. CASE w.scan.running
    <3>1. ScanTable(Unregister(w.table)) /\ Unregister(w.table) \in EventTable
      BY TableUnregisters DEF ScanTable
    <3>2. Len(NoScan.rank) <= MaxAp
      BY Constants, WifiScanAssumption
    <3> QED BY <2>1, <3>1, <3>2, ScanClosed
  <2>2. CASE ~w.scan.running
    BY <2>2 DEF CloseScan
  <2> QED BY <2>1, <2>2
<1> HIDE DEF u
<1>2. /\ v \in Worlds /\ v.table = u.table /\ v.scan = u.scan /\ v.running \subseteq v.timers
  <2>1. CASE u.web.flg # 0
    <3>1. /\ v \in Worlds /\ v.table = u.table /\ v.scan = u.scan
          /\ v.timers = u.timers \ {u.web.timer} /\ v.running = u.running \ {u.web.timer}
      BY <1>1, <2>1, WebClosed
    <3> QED BY <1>1, <3>1
  <2>2. CASE u.web.flg = 0
    BY <1>1, <2>2 DEF CloseWeb
  <2> QED BY <2>1, <2>2
<1>3. v = wifi_close_scan(w)
  BY DEF wifi_close_scan, u
<1> HIDE DEF v
<1> QED BY <1>1, <1>2, <1>3

LEMMA PagesTyped ==
  ASSUME NEW w, page \in [Pages -> PageRec], ListGone(w, Pages)
  PROVE  page' \in [Pages -> PageRec]
<1>1. ASSUME NEW p \in Pages PROVE [page[p] EXCEPT !.lost = TRUE] \in PageRec
  BY DEF PageRec
<1> QED BY <1>1 DEF ListGone

LEMMA Initially == Init => IInv
<1> SUFFICES ASSUME Init PROVE IInv
  OBVIOUS
<1> USE DEF Init
<1>1. /\ NoScan \in ScanRec /\ ~NoScan.running /\ NoScan.buf = Nothing /\ NoScan.rank = <<>>
      /\ NoWeb \in WebRec /\ NoWeb.flg = 0 /\ NoWeb.timer = Nothing /\ NoWeb.buf = Nothing
      /\ NoPage \in PageRec /\ ~NoPage.on /\ Unheard \in Heard
  BY Constants
<1>2. World \in Worlds
  <2>1. init_event_callback_list \in EventTable
    BY TableEmpty DEF ScanTable
  <2> QED BY <1>1, <2>1 DEF World, Worlds
<1>3. ScanTable(World.table) /\ ~Handled(World.table)
  BY Fields, TableEmpty
<1>4. /\ Len(scan.rank) <= MaxAp /\ task \in TaskState /\ requests \in 0..MaxRequests
      /\ page \in [Pages -> PageRec]
  BY <1>1, WifiScanAssumption DEF TaskState
<1>5. Typed
  BY <1>2, <1>3, <1>4 DEF Typed
<1>6. Closable(World)
  BY <1>1, <1>2, <1>3, <1>4, Fields DEF Closable
<1>7. Fine(World)
  BY <1>1, <1>3, <1>6, Fields DEF Fine
<1>8. Owned /\ Recorded /\ PageHasList
  BY <1>1 DEF Owned, Recorded, PageHasList
<1> QED BY <1>5, <1>7, <1>8 DEF IInv

LEMMA StartStep ==
  ASSUME IInv, ~crossed, NEW k \in Tasks, api_wifi_scan(k)
  PROVE  IInv'
<1>1. /\ World \in Worlds /\ Fine(World) /\ Closable(World) /\ PageHasList
      /\ task \in TaskState /\ requests \in 0..MaxRequests /\ page \in [Pages -> PageRec]
      /\ crossed \in BOOLEAN
  BY Facts
<1>2. ~scan.running /\ web.flg = 0 /\ requests' = requests /\ page' = page /\ crossed' = crossed
  BY DEF api_wifi_scan, Startable
<1>3. AllLost(page)
  BY <1>1, <1>2 DEF AllLost, PageHasList
(* The record of a scan that starts with the timer t.                      *)
<1>4. ASSUME NEW t \in Timers \cup {Nothing}
      PROVE  LET w == Started(World, t) IN
             /\ w \in Worlds /\ w.table = event_callback_list
             /\ w.scan.running /\ w.scan.buf = Nothing /\ w.scan.rank = scan.rank
             /\ w.web.flg = 1 /\ w.web.timer = t /\ w.web.buf = Nothing
             /\ w.heap = heap /\ w.timers = timers /\ w.running = running /\ w.owner = owner
             /\ w.heard = heard
  <2> DEFINE sc == [scan EXCEPT !.running = TRUE]
             wb == [NoWeb EXCEPT !.flg = 1, !.timer = t]
             w == [World EXCEPT !.scan = sc, !.web = wb]
  <2>1. sc \in ScanRec /\ sc.running /\ sc.buf = scan.buf /\ sc.rank = scan.rank
    <3>1. scan \in ScanRec
      BY Facts
    <3> QED BY <3>1 DEF ScanRec
  <2>2. wb \in WebRec /\ wb.flg = 1 /\ wb.timer = t /\ wb.buf = Nothing
    <3>1. NoWeb \in WebRec /\ NoWeb.buf = Nothing
      BY Constants
    <3> DEFINE g == [NoWeb EXCEPT !.flg = 1]
    <3>2. g \in WebRec /\ g.flg = 1 /\ g.buf = Nothing
      BY <3>1 DEF WebRec
    <3>3. wb = [g EXCEPT !.timer = t]
      OBVIOUS
    <3> HIDE DEF g, wb
    <3> QED BY <3>2, <3>3 DEF WebRec
  <2>3. Started(World, t) = w
    BY <1>1, Fields DEF Started, Worlds
  <2> HIDE DEF sc, wb
  <2>4. /\ w \in Worlds /\ w.scan = sc /\ w.web = wb /\ w.table = World.table
        /\ w.heap = World.heap /\ w.timers = World.timers /\ w.running = World.running
        /\ w.owner = World.owner /\ w.heard = World.heard
    BY <1>1, <2>1, <2>2 DEF Worlds
  <2> HIDE DEF w
  <2>5. scan.buf = Nothing
    BY <1>1, <1>2, Fields DEF Closable
  <2>6. /\ w \in Worlds /\ w.table = event_callback_list
        /\ w.scan.running /\ w.scan.buf = Nothing /\ w.scan.rank = scan.rank
        /\ w.web.flg = 1 /\ w.web.timer = t /\ w.web.buf = Nothing
        /\ w.heap = heap /\ w.timers = timers /\ w.running = running /\ w.owner = owner
        /\ w.heard = heard
    BY <2>1, <2>2, <2>4, <2>5, Fields
  <2> QED BY <2>3, <2>6
<1>5. /\ heap = {web.buf} \ {Nothing} /\ web.buf = Nothing /\ timers = {} /\ running = {}
      /\ owner = Nothing /\ scan.buf = Nothing /\ ScanTable(event_callback_list)
      /\ ~Handled(event_callback_list) /\ Len(scan.rank) <= MaxAp
  BY <1>1, <1>2, Fields DEF Closable
<1>6. CASE Become(wifi_close_scan(Started(World, Nothing))) /\ task' = task
  <2> DEFINE w == Started(World, Nothing)
  <2>1. /\ w \in Worlds /\ w.table = event_callback_list
        /\ w.scan.running /\ w.scan.buf = Nothing /\ w.scan.rank = scan.rank
        /\ w.web.flg = 1 /\ w.web.timer = Nothing /\ w.web.buf = Nothing
        /\ w.heap = heap /\ w.timers = timers /\ w.running = running
    BY <1>4
  <2> HIDE DEF w
  <2>2. Closable(w)
    BY <1>5, <2>1 DEF Closable
  <2>3. Become(wifi_close_scan(w))
    BY <1>6 DEF w
  <2>4. AllLost(page') /\ task' \in TaskState /\ requests' \in 0..MaxRequests /\ crossed' \in BOOLEAN
    BY <1>1, <1>2, <1>3, <1>6
  <2> QED BY <2>2, <2>3, <2>4, ClosedStep
<1>7. ASSUME NEW t \in Timers \ timers,
             Become([Started(World, t) EXCEPT !.timers = @ \cup {t},
                                              !.running = @ \cup {t}, !.owner = k]),
             task' = [task EXCEPT ![k] = "pscan"]
      PROVE  IInv'
  <2> DEFINE u == Started(World, t)
             w == [u EXCEPT !.timers = @ \cup {t}, !.running = @ \cup {t}, !.owner = k]
  <2>1. /\ u \in Worlds /\ u.table = event_callback_list
        /\ u.scan.running /\ u.scan.buf = Nothing /\ u.scan.rank = scan.rank
        /\ u.web.flg = 1 /\ u.web.timer = t /\ u.web.buf = Nothing
        /\ u.heap = heap /\ u.timers = timers /\ u.running = running
    BY <1>4
  <2> HIDE DEF u
  <2>2. /\ w \in Worlds /\ w.table = event_callback_list /\ w.scan = u.scan /\ w.web = u.web
        /\ w.heap = heap /\ w.timers = {t} /\ w.running = {t} /\ w.owner = k
    BY <1>5, <2>1 DEF Worlds
  <2>3. Become(w)
    BY <1>7 DEF u
  <2> HIDE DEF w
  <2>4. t # Nothing /\ k # Nothing
    BY WifiScanAssumption
  <2>5. Closable(w)
    BY <1>5, <2>1, <2>2, <2>4 DEF Closable
  <2>6. Fine(w)
    BY <1>5, <2>1, <2>2, <2>4, <2>5 DEF Fine
  <2>7. /\ task' \in TaskState /\ requests' \in 0..MaxRequests /\ page' \in [Pages -> PageRec]
        /\ crossed' \in BOOLEAN
    BY <1>1, <1>2, <1>7 DEF TaskState
  <2>8. PageHasList'
    BY <1>2, <1>3 DEF AllLost, PageHasList
  <2>9. w.scan.buf = Nothing /\ ScanTable(w.table) /\ Len(w.scan.rank) <= MaxAp /\ w.running \subseteq w.timers
    BY <1>5, <2>1, <2>2
  <2> QED BY <2>2, <2>3, <2>6, <2>7, <2>8, <2>9, Stepping
<1> QED BY <1>6, <1>7 DEF api_wifi_scan

LEMMA ChannelsStep ==
  ASSUME IInv, ~crossed, NEW k \in Tasks, ChannelsSet(k)
  PROVE  IInv'
<1>1. /\ World \in Worlds /\ Fine(World) /\ Closable(World) /\ PageHasList /\ Owned
      /\ task \in TaskState /\ requests \in 0..MaxRequests /\ page \in [Pages -> PageRec]
      /\ owner \in Tasks \cup {Nothing} /\ crossed \in BOOLEAN
      /\ running \subseteq timers /\ heap \subseteq Buffers
  BY Facts
<1>2. task[k] = "pscan"
  BY DEF ChannelsSet
<1>3. CASE /\ Become(wifi_close_scan(World))
           /\ ListGone(wifi_close_scan(World), Pages)
           /\ task' = [task EXCEPT ![k] = "idle"]
           /\ UNCHANGED <<requests, crossed>>
  <2>1. wifi_close_scan(World).web.flg = 0
    BY <1>1, AllClosed
  <2>2. AllLost(page')
    BY <1>3, <2>1, LosingAll DEF IInv
  <2>3. task' \in TaskState
    BY <1>1, <1>3 DEF TaskState
  <2>4. requests' \in 0..MaxRequests /\ crossed' \in BOOLEAN
    BY <1>1, <1>3
  <2> QED BY <1>1, <1>3, <2>2, <2>3, <2>4, ClosedStep
<1>4. ASSUME NEW b \in Buffers \ heap, Become(Allocated(World, k, b)),
             \/ /\ requests < MaxRequests /\ requests' = requests + 1
                /\ task' = [task EXCEPT ![k] = "scan"]
             \/ task' = [task EXCEPT ![k] = "failing"] /\ UNCHANGED requests,
             crossed' = (crossed \/ owner # k), UNCHANGED page
      PROVE  IInv'
  <2> DEFINE w == Allocated(World, k, b)
             sc == [scan EXCEPT !.cb = (k = "console"), !.buf = b, !.rank = <<>>,
                                !.details = NoResults]
  <2>0. b # Nothing /\ b \in Buffers /\ b \notin heap
    BY WifiScanAssumption
  <2>1. /\ sc \in ScanRec /\ (scan.running => sc.running) /\ sc.buf = b /\ sc.rank = <<>>
        /\ sc.details = NoResults
    <3>1. scan \in ScanRec
      BY Facts
    <3>2. NoResults \in [Slots -> Result] /\ <<>> \in Seq(Slots)
      BY DEF NoResults, Result
    <3>3. (k = "console") \in BOOLEAN
      OBVIOUS
    <3> HIDE DEF NoResults
    <3> QED BY <3>1, <3>2, <3>3 DEF ScanRec
  <2>2. ScanTable(Register(event_callback_list)) /\ Handled(Register(event_callback_list))
    <3>1. ScanTable(event_callback_list)
      BY <1>1, Fields DEF Closable
    <3> QED BY <3>1, TableRegisters
  <2>3. Unheard \in Heard
    BY Constants
  <2>4. w = [World EXCEPT !.scan = sc, !.heard = Unheard, !.heap = heap \cup {b},
                          !.table = Register(event_callback_list)]
    BY <1>1, Fields DEF Allocated, Worlds
  <2> HIDE DEF sc
  <2>5. /\ w \in Worlds /\ w.scan = sc /\ w.web = web /\ w.heap = heap \cup {b}
        /\ w.table = Register(event_callback_list) /\ w.timers = timers /\ w.running = running
        /\ w.owner = owner /\ w.heard = Unheard
    <3>1. /\ World.web = web /\ World.timers = timers /\ World.running = running
          /\ World.owner = owner
      BY Fields
    <3>2. Register(event_callback_list) \in EventTable
      BY <2>2 DEF ScanTable
    <3>3. heap \cup {b} \in SUBSET Buffers
      BY <1>1
    <3>4. World \in [table : EventTable, scan : ScanRec, web : WebRec, heap : SUBSET Buffers,
                     timers : SUBSET Timers, running : SUBSET Timers,
                     owner : Tasks \cup {Nothing}, heard : Heard]
      BY <1>1 DEF Worlds
    <3> QED BY <2>1, <2>3, <2>4, <3>1, <3>2, <3>3, <3>4 DEF Worlds
  <2>6. Become(w)
    BY <1>4
  <2> HIDE DEF w
  <2>7. /\ task' \in TaskState /\ task'[k] # "pscan"
        /\ \A j \in Tasks \ {k} : task'[j] = task[j]
    BY <1>1, <1>4 DEF TaskState
  <2>8. requests' \in 0..MaxRequests /\ page' \in [Pages -> PageRec]
    BY <1>1, <1>4, WifiScanAssumption
  <2>9. crossed' \in BOOLEAN
    BY <1>4
  <2>10. Len(w.scan.rank) <= MaxAp
    BY <2>1, <2>5, WifiScanAssumption
  <2>11. ASSUME ~crossed'
         PROVE  /\ Fine(w) /\ PageHasList' /\ Listed(w.scan, w.heard)
                /\ w.owner # Nothing /\ task'[w.owner] = "pscan" => w.scan.buf = Nothing
    <3>1. owner = k /\ k # Nothing
      BY <1>4, <2>11, WifiScanAssumption
    <3>2. scan.buf = Nothing
      BY <1>1, <1>2, <3>1 DEF Owned
    <3>3. scan.running /\ web.flg = 1 /\ web.buf = Nothing /\ web.timer \in running
      BY <1>1, <3>1, Fields DEF Closable, Fine
    <3>4. heap = {} /\ timers = {web.timer} \ {Nothing} /\ running \subseteq timers
      BY <1>1, <3>2, <3>3, Fields DEF Closable
    <3>5. Closable(w)
      <4>1. w.heap = {b} /\ w.scan.buf = b /\ w.web.buf = Nothing
        BY <2>1, <2>5, <3>3, <3>4
      <4>2. w.heap = {w.scan.buf, w.web.buf} \ {Nothing} /\ w.scan.buf # w.web.buf
        BY <2>0, <4>1
      <4>3. w.timers = {w.web.timer} \ {Nothing} /\ w.running \subseteq w.timers
        BY <2>5, <3>4
      <4>4. w.scan.running /\ w.web.flg # 0
        <5>1. sc.running
          BY <2>1, <3>3
        <5>2. w.scan = sc /\ w.web = web /\ web.flg = 1
          BY <2>5, <3>3
        <5> QED BY <5>1, <5>2
      <4> QED BY <2>2, <2>5, <2>10, <4>2, <4>3, <4>4 DEF Closable
    <3>6. Fine(w)
      BY <2>0, <2>1, <2>2, <2>5, <3>1, <3>3, <3>4, <3>5 DEF Fine
    <3>7. PageHasList'
      <4>1. web' = web /\ page' = page /\ ~crossed
        BY <1>4, <2>5, <2>6 DEF Become
      <4> QED BY <1>1, <4>1 DEF PageHasList
    <3>8. Listed(w.scan, w.heard)
      <4>1. Len(sc.rank) = 0
        BY <2>1
      <4>2. Ranked(sc.rank, sc.details, Unheard)
        BY <4>1 DEF Ranked
      <4>3. \A a \in Aps : Unheard[a] = 0
        BY DEF Unheard
      <4>4. Best(sc, Unheard)
        BY <4>1, <4>3, WifiScanAssumption DEF Best, Kept1
      <4> QED BY <2>1, <2>5, <4>2, <4>4 DEF Listed
    <3> QED BY <2>5, <2>7, <3>1, <3>6, <3>7, <3>8
  <2>12. ScanTable(w.table) /\ w.running \subseteq w.timers
    BY <1>1, <2>2, <2>5
  <2> QED BY <2>5, <2>6, <2>7, <2>8, <2>9, <2>10, <2>11, <2>12, Stepping
<1>5. CASE /\ Become(wifi_close_scan(Unallocated(World, k)))
           /\ ListGone(wifi_close_scan(Unallocated(World, k)), Pages)
           /\ task' = [task EXCEPT ![k] = "idle"]
           /\ crossed' = (crossed \/ owner # k)
           /\ UNCHANGED requests
  <2> DEFINE sc == [scan EXCEPT !.cb = (k = "console"), !.buf = Nothing]
             w == Unallocated(World, k)
             v == wifi_close_scan(w)
  <2>1. sc \in ScanRec /\ sc.running = scan.running /\ sc.buf = Nothing /\ sc.rank = scan.rank
    <3>1. scan \in ScanRec
      BY Facts
    <3>2. (k = "console") \in BOOLEAN
      OBVIOUS
    <3> QED BY <3>1, <3>2 DEF ScanRec
  <2>2. w = [World EXCEPT !.scan = sc]
    BY <1>1, Fields DEF Unallocated, Worlds
  <2> HIDE DEF sc
  <2>3. /\ w \in Worlds /\ w.scan = sc /\ w.web = web /\ w.heap = heap
        /\ w.table = event_callback_list /\ w.timers = timers /\ w.running = running
        /\ w.owner = owner
    BY <1>1, <2>1, <2>2, Fields DEF Worlds
  <2>4. ScanTable(w.table) /\ Len(w.scan.rank) <= MaxAp /\ w.running \subseteq w.timers
    BY <1>1, <2>1, <2>3, Fields DEF Closable
  <2>5. Become(v) /\ ListGone(v, Pages)
    BY <1>5
  <2>6. task' \in TaskState /\ requests' \in 0..MaxRequests /\ crossed' \in BOOLEAN
    BY <1>1, <1>5 DEF TaskState
  <2> HIDE DEF w
  <2>7. CASE owner = k
    <3>1. scan.buf = Nothing
      BY <1>1, <1>2, <2>7, WifiScanAssumption DEF Owned
    <3>2. Closable(w)
      BY <1>1, <2>1, <2>3, <2>4, <3>1, Fields DEF Closable
    <3>3. v.web.flg = 0
      BY <3>2, AllClosed
    <3> HIDE DEF v
    <3>4. AllLost(page')
      BY <2>5, <3>3, LosingAll DEF IInv
    <3> QED BY <2>5, <2>6, <3>2, <3>4, ClosedStep DEF v
  <2>8. CASE owner # k
    <3>1. /\ v \in Worlds /\ ScanTable(v.table) /\ Len(v.scan.rank) <= MaxAp
          /\ v.running \subseteq v.timers
      BY <2>3, <2>4, ClosedTyped
    <3> HIDE DEF v
    <3>2. page' \in [Pages -> PageRec]
      BY <1>1, <2>5, PagesTyped
    <3>3. crossed'
      BY <1>5, <2>8
    <3> QED BY <2>5, <2>6, <3>1, <3>2, <3>3, Stepping
  <2> QED BY <2>7, <2>8
<1> QED BY <1>3, <1>4, <1>5 DEF ChannelsSet

(* A step that changes neither the records nor the pages.                  *)
LEMMA QuietStep ==
  ASSUME IInv, ~crossed, World' = World, page' = page, crossed' = crossed,
         task' \in TaskState, requests' \in 0..MaxRequests,
         \A k \in Tasks : task'[k] = "pscan" => task[k] = "pscan"
  PROVE  IInv'
<1>1. /\ World \in Worlds /\ Fine(World) /\ Closable(World) /\ PageHasList /\ Owned /\ Recorded
      /\ page \in [Pages -> PageRec] /\ owner \in Tasks \cup {Nothing}
      /\ crossed \in BOOLEAN
  BY Facts
<1>2. /\ scan' = scan /\ web' = web /\ owner' = owner /\ heard' = heard /\ running' = running
      /\ timers' = timers
  BY Fields, FieldsPrime
<1>3. Typed'
  BY <1>1, <1>2 DEF IInv, Typed
<1>4. Fine(World') /\ Owned' /\ Recorded' /\ PageHasList'
  BY <1>1, <1>2 DEF Owned, Recorded, PageHasList
<1>5. Fine(World)' <=> Fine(World')
  BY DEF Fine, Closable
<1> QED BY <1>3, <1>4, <1>5 DEF IInv

LEMMA SameWorld ==
  ASSUME World \in Worlds, Become(World)
  PROVE  World' = World
  BY Becoming

LEMMA AskedStep ==
  ASSUME IInv, ~crossed, NEW k \in Tasks, ScanAsked(k)
  PROVE  IInv'
<1>1. /\ World \in Worlds /\ Closable(World) /\ task \in TaskState
      /\ requests \in 0..MaxRequests /\ crossed \in BOOLEAN
  BY Facts
<1>2. requests' = requests /\ crossed' = crossed
  BY DEF ScanAsked
<1>3. CASE /\ task' = [task EXCEPT ![k] = IF k = "console" THEN "wait" ELSE "idle"]
           /\ Become(World) /\ UNCHANGED page
  <2>1. task' \in TaskState /\ \A j \in Tasks : task'[j] = "pscan" => task[j] = "pscan"
    BY <1>1, <1>3 DEF TaskState
  <2> QED BY <1>1, <1>2, <1>3, <2>1, SameWorld, QuietStep
<1>4. CASE /\ task' = [task EXCEPT ![k] = "idle"]
           /\ Become(wifi_close_scan(World))
           /\ ListGone(wifi_close_scan(World), Pages)
  <2>1. wifi_close_scan(World).web.flg = 0
    BY <1>1, AllClosed
  <2>2. AllLost(page')
    BY <1>4, <2>1, LosingAll DEF IInv
  <2>3. task' \in TaskState
    BY <1>1, <1>4 DEF TaskState
  <2> QED BY <1>1, <1>2, <1>4, <2>2, <2>3, ClosedStep
<1> QED BY <1>3, <1>4 DEF ScanAsked

LEMMA WaitedStep ==
  ASSUME IInv, ~crossed, Waited
  PROVE  IInv'
<1>1. task \in TaskState /\ requests \in 0..MaxRequests
  BY Facts
<1>2. World' = World /\ page' = page /\ crossed' = crossed /\ requests' = requests
  BY DEF Waited, World
<1>3. task' \in TaskState /\ \A k \in Tasks : task'[k] = "pscan" => task[k] = "pscan"
  BY <1>1 DEF Waited, TaskState
<1> QED BY <1>1, <1>2, <1>3, QuietStep

LEMMA TimerStep ==
  ASSUME IInv, ~crossed, NEW t \in Timers, TimerEnds(t)
  PROVE  IInv'
<1> DEFINE w == [World EXCEPT !.running = @ \ {t}]
<1>1. /\ World \in Worlds /\ Closable(World) /\ task \in TaskState
      /\ requests \in 0..MaxRequests /\ crossed \in BOOLEAN
  BY Facts
<1>2. /\ Become(wifi_close_scan(w)) /\ ListGone(wifi_close_scan(w), Pages)
      /\ task' = task /\ requests' = requests /\ crossed' = crossed
  BY DEF TimerEnds
<1>3. /\ w \in Worlds /\ w.running = World.running \ {t} /\ w.table = World.table
      /\ w.scan = World.scan /\ w.web = World.web /\ w.heap = World.heap
      /\ w.timers = World.timers /\ w.owner = World.owner
  BY <1>1 DEF Worlds
<1> HIDE DEF w
<1>4. Closable(w)
  BY <1>1, <1>3 DEF Closable
<1>5. wifi_close_scan(w).web.flg = 0
  BY <1>4, AllClosed
<1>6. AllLost(page')
  BY <1>2, <1>5, LosingAll DEF IInv
<1> QED BY <1>1, <1>2, <1>4, <1>6, ClosedStep

LEMMA ReportStep ==
  ASSUME IInv, ~crossed, Report
  PROVE  IInv'
<1>1. /\ World \in Worlds /\ Fine(World) /\ Closable(World) /\ PageHasList /\ Owned /\ Recorded
      /\ task \in TaskState /\ requests \in 0..MaxRequests /\ page \in [Pages -> PageRec]
      /\ owner \in Tasks \cup {Nothing} /\ crossed \in BOOLEAN /\ heard \in Heard
      /\ running \subseteq timers
  BY Facts
<1>2. PICK x \in Aps, signal \in Signals :
        /\ scan' = EachReport(scan, x, signal)
        /\ heard' = [heard EXCEPT ![x] = IF signal > @ THEN signal ELSE @]
  BY DEF Report
<1>3. /\ scan.buf # Nothing /\ page' = page /\ crossed' = crossed /\ task' = task
      /\ requests' = requests /\ web' = web /\ heap' = heap /\ timers' = timers
      /\ running' = running /\ owner' = owner /\ event_callback_list' = event_callback_list
  BY DEF Report
<1>4. Listed(scan, heard)
  BY <1>1, <1>3 DEF Recorded
<1>5. heard' \in Heard /\ Follows(scan', scan, heard')
  BY <1>1, <1>2, <1>4, Reporting
<1>6. /\ Listed(scan', heard') /\ scan'.running = scan.running /\ scan'.cb = scan.cb
      /\ scan'.buf = scan.buf /\ scan' \in ScanRec /\ Len(scan'.rank) <= MaxAp
  BY <1>5 DEF Follows, Listed, Best
<1> DEFINE w == [World EXCEPT !.scan = scan', !.heard = heard']
<1>7. /\ w \in Worlds /\ w.scan = scan' /\ w.heard = heard' /\ w.table = event_callback_list
      /\ w.web = web /\ w.heap = heap /\ w.timers = timers /\ w.running = running
      /\ w.owner = owner
  BY <1>1, <1>5, <1>6, Fields DEF Worlds
<1> HIDE DEF w
<1>8. Become(w)
  BY <1>3, <1>7 DEF Become
<1>9. Closable(w)
  BY <1>1, <1>6, <1>7, Fields DEF Closable
<1>10. Fine(w)
  BY <1>1, <1>6, <1>7, <1>9, Fields DEF Fine
<1>11. PageHasList'
  BY <1>1, <1>3 DEF PageHasList
<1>12. w.owner # Nothing /\ task'[w.owner] = "pscan" => w.scan.buf = Nothing
  BY <1>1, <1>3, <1>6, <1>7 DEF Owned
<1>13. Listed(w.scan, w.heard) /\ ScanTable(w.table) /\ w.running \subseteq w.timers /\ Len(w.scan.rank) <= MaxAp
  BY <1>1, <1>6, <1>7, <1>9 DEF Closable
<1> QED BY <1>1, <1>3, <1>7, <1>8, <1>10, <1>11, <1>12, <1>13, Stepping

LEMMA DoneStep ==
  ASSUME IInv, ~crossed, Done
  PROVE  IInv'
<1>1. /\ World \in Worlds /\ Fine(World) /\ Closable(World) /\ PageHasList
      /\ task \in TaskState /\ requests \in 0..MaxRequests /\ page \in [Pages -> PageRec]
      /\ crossed \in BOOLEAN /\ scan \in ScanRec /\ web \in WebRec
  BY Facts
<1>2. /\ task' = task /\ crossed' = crossed /\ requests > 0 /\ requests' = requests - 1
  BY DEF Done
<1>3. requests' \in 0..MaxRequests
  BY <1>1, <1>2, WifiScanAssumption
<1>4. CASE Become(World) /\ UNCHANGED page
  BY <1>1, <1>2, <1>3, <1>4, SameWorld, QuietStep
<1>5. CASE Become(wifi_close_scan(World)) /\ ListGone(wifi_close_scan(World), Pages)
  <2>1. wifi_close_scan(World).web.flg = 0
    BY <1>1, AllClosed
  <2>2. AllLost(page')
    BY <1>5, <2>1, LosingAll DEF IInv
  <2> QED BY <1>1, <1>2, <1>3, <1>5, <2>2, ClosedStep
<1>6. CASE /\ IsHandled(event_callback_list, DONE, done_hdl)
           /\ web.timer # Nothing /\ Become(Kept(World)) /\ UNCHANGED page
  <2> DEFINE w == Kept(World)
             wb == [web EXCEPT !.buf = scan.buf, !.ap_count = Len(scan.rank), !.flg = 2]
  <2>1. /\ Handled(event_callback_list) /\ scan.buf # Nothing /\ scan.running
        /\ web.flg = 1 /\ web.buf = Nothing
    <3>1. Handled(event_callback_list)
      BY <1>1, <1>6, Fields DEF Closable, ScanTable, Handled
    <3> QED BY <1>1, <3>1, Fields DEF Closable, Fine
  <2>2. /\ heap = {scan.buf} /\ timers = {web.timer} /\ running \subseteq timers
        /\ ScanTable(event_callback_list) /\ Len(scan.rank) <= MaxAp
    BY <1>1, <1>6, <2>1, Fields DEF Closable
  <2>3. /\ wb \in WebRec /\ wb.buf = scan.buf /\ wb.flg = 2 /\ wb.timer = web.timer
    <3>1. Len(scan.rank) \in 0..MaxAp /\ scan.buf \in Buffers \cup {Nothing}
      BY <1>1, <2>2, WifiScanAssumption DEF ScanRec
    <3> DEFINE g == [web EXCEPT !.buf = scan.buf]
               h == [g EXCEPT !.ap_count = Len(scan.rank)]
    <3>2. g \in WebRec /\ g.buf = scan.buf /\ g.timer = web.timer
      BY <1>1, <3>1 DEF WebRec
    <3>3. wb = [h EXCEPT !.flg = 2]
      OBVIOUS
    <3> HIDE DEF g
    <3>4. h \in WebRec /\ h.buf = scan.buf /\ h.timer = web.timer
      BY <3>1, <3>2 DEF WebRec
    <3> HIDE DEF h, wb
    <3> QED BY <3>3, <3>4 DEF WebRec
  <2>4. w = [World EXCEPT !.heap = heap \ {web.buf}, !.table = Unregister(event_callback_list),
                          !.scan = NoScan, !.owner = Nothing, !.heard = Unheard,
                          !.running = running \cup {web.timer}, !.web = wb]
    BY <1>1, Fields DEF Kept, Worlds
  <2>5. ScanTable(Unregister(event_callback_list)) /\ ~Handled(Unregister(event_callback_list))
    BY <2>2, TableUnregisters
  <2> HIDE DEF wb
  <2>6. /\ w \in Worlds /\ w.scan = NoScan /\ w.web = wb /\ w.heap = heap \ {web.buf}
        /\ w.table = Unregister(event_callback_list) /\ w.timers = timers
        /\ w.running = running \cup {web.timer} /\ w.owner = Nothing /\ w.heard = Unheard
    <3>1. Unregister(event_callback_list) \in EventTable
      BY <2>5 DEF ScanTable
    <3>2. running \cup {web.timer} \in SUBSET Timers /\ heap \ {web.buf} \in SUBSET Buffers
      BY <1>1, <2>2, Facts
    <3>3. NoScan \in ScanRec /\ Unheard \in Heard
      BY Constants
    <3>4. World.timers = timers
      BY Fields
    <3> HIDE DEF w
    <3> QED BY <1>1, <2>3, <2>4, <3>1, <3>2, <3>3, <3>4 DEF Worlds
  <2>7. Become(w)
    BY <1>6
  <2> HIDE DEF w
  <2>8. ~w.scan.running /\ w.scan.buf = Nothing /\ Len(w.scan.rank) = 0
    BY <2>6, Constants
  <2>9. w.heap = {w.scan.buf, w.web.buf} \ {Nothing}
    BY <2>1, <2>2, <2>3, <2>6, <2>8
  <2>10. w.timers = {w.web.timer} \ {Nothing} /\ w.running \subseteq w.timers /\ w.web.timer \in w.running
    BY <1>6, <2>2, <2>3, <2>6
  <2>11. Len(w.scan.rank) <= MaxAp
    BY <2>8, WifiScanAssumption
  <2>12. Closable(w)
    BY <2>3, <2>5, <2>6, <2>8, <2>9, <2>10, <2>11 DEF Closable
  <2>13. Fine(w)
    BY <2>3, <2>5, <2>6, <2>8, <2>10, <2>12 DEF Fine
  <2>14. PageHasList'
    <3>1. \A p \in Pages : page[p].on => page[p].lost
      BY <1>1, <2>1 DEF PageHasList
    <3> QED BY <1>6, <3>1 DEF PageHasList
  <2>15. task' \in TaskState /\ page' \in [Pages -> PageRec] /\ crossed' \in BOOLEAN
    BY <1>1, <1>2, <1>6
  <2>16. ScanTable(w.table)
    BY <2>5, <2>6
  <2> QED BY <1>3, <2>6, <2>7, <2>8, <2>10, <2>11, <2>13, <2>14, <2>15, <2>16, Stepping
<1> QED BY <1>4, <1>5, <1>6 DEF Done

LEMMA OffStep ==
  ASSUME IInv, ~crossed, WifiOff
  PROVE  IInv'
<1> DEFINE w == [World EXCEPT !.table = init_event_callback_list]
<1>1. /\ World \in Worlds /\ Fine(World) /\ Closable(World) /\ PageHasList /\ Owned /\ Recorded
      /\ task \in TaskState /\ page \in [Pages -> PageRec] /\ crossed \in BOOLEAN
      /\ running \subseteq timers
  BY Facts
<1>2. /\ requests' = 0 /\ event_callback_list' = init_event_callback_list
      /\ UNCHANGED <<scan, web, heap, timers, running, task, page, heard, owner, crossed>>
  BY DEF WifiOff
<1>3. ScanTable(init_event_callback_list) /\ ~Handled(init_event_callback_list)
  BY TableEmpty
<1>4. /\ w \in Worlds /\ w.table = init_event_callback_list /\ w.scan = scan /\ w.web = web
      /\ w.heap = heap /\ w.timers = timers /\ w.running = running /\ w.owner = owner
      /\ w.heard = heard
  BY <1>1, <1>3, Fields DEF Worlds, ScanTable
<1> HIDE DEF w
<1>5. Become(w)
  BY <1>2, <1>4 DEF Become
<1>6. Closable(w)
  BY <1>1, <1>3, <1>4, Fields DEF Closable
<1>7. Fine(w)
  BY <1>1, <1>3, <1>4, <1>6, Fields DEF Fine
<1>8. PageHasList'
  BY <1>1, <1>2 DEF PageHasList
<1>9. task' \in TaskState /\ page' \in [Pages -> PageRec] /\ crossed' \in BOOLEAN /\ requests' \in 0..MaxRequests
  BY <1>1, <1>2, WifiScanAssumption
<1>10. /\ w.owner # Nothing /\ task'[w.owner] = "pscan" => w.scan.buf = Nothing
       /\ w.scan.buf # Nothing => Listed(w.scan, w.heard)
  BY <1>1, <1>2, <1>4 DEF Owned, Recorded
<1>11. ScanTable(w.table) /\ w.running \subseteq w.timers /\ Len(w.scan.rank) <= MaxAp
  BY <1>6 DEF Closable
<1> QED BY <1>4, <1>5, <1>7, <1>8, <1>9, <1>10, <1>11, Stepping

(* Rows of a list are printed: to the end, which closes it, or not.        *)
LEMMA PrintStep ==
  ASSUME IInv, ~crossed, NEW p \in Pages, NEW from \in 0..MaxAp, NEW total \in 0..MaxAp,
         NEW w, Fine(w), w.scan = scan, w.web = web, w.owner = owner, w.heard = heard,
         Printed(p, w, from, total),
         page[p].lost \/ (web.flg = 2 /\ total = web.ap_count), from <= web.ap_count,
         UNCHANGED <<task, requests, crossed>>
  PROVE  IInv'
<1>1. /\ PageHasList /\ Owned /\ Recorded /\ web \in WebRec
      /\ task \in TaskState /\ page \in [Pages -> PageRec] /\ crossed \in BOOLEAN
      /\ requests \in 0..MaxRequests
  BY Facts
<1>2. task' = task /\ requests' = requests /\ crossed' = crossed
  OBVIOUS
<1>3. w \in Worlds /\ Closable(w)
  BY DEF Fine, Closable
<1>4. web.ap_count \in 0..MaxAp /\ MaxAp \in Nat
  BY <1>1, WifiScanAssumption DEF WebRec
<1>5. CASE /\ Become(wifi_close_scan(w))
           /\ page' = [q \in Pages |-> IF q = p THEN NoPage
                ELSE IF page[q].on THEN [page[q] EXCEPT !.lost = TRUE] ELSE page[q]]
  <2>1. AllLost(page')
    BY <1>5, Losing DEF IInv
  <2> QED BY <1>1, <1>2, <1>3, <1>5, <2>1, ClosedStep
<1>6. ASSUME NEW n \in 0..web.ap_count - from, n # web.ap_count - from, Become(w),
             page' = [page EXCEPT ![p] = [on |-> TRUE, start |-> from + n, total |-> total,
                                          lost |-> page[p].lost]]
      PROVE  IInv'
  <2>1. from + n \in 0..MaxAp /\ from + n < web.ap_count
    BY <1>4, <1>6
  <2>2. page' \in [Pages -> PageRec]
    BY <1>1, <1>6, <2>1 DEF PageRec
  <2>3. PageHasList'
    <3>1. web' = web
      BY <1>6 DEF Become
    <3>2. /\ page'[p].lost = page[p].lost /\ page'[p].start = from + n /\ page'[p].total = total
          /\ \A q \in Pages \ {p} : page'[q] = page[q]
      BY <1>1, <1>6
    <3>3. ~page'[p].lost => web.flg = 2 /\ page'[p].total = web.ap_count /\ page'[p].start < page'[p].total
      BY <2>1, <3>2
    <3> QED BY <1>1, <1>2, <3>1, <3>2, <3>3 DEF PageHasList
  <2>4. /\ w.owner # Nothing /\ task'[w.owner] = "pscan" => w.scan.buf = Nothing
        /\ w.scan.buf # Nothing => Listed(w.scan, w.heard)
    BY <1>1, <1>2 DEF Owned, Recorded
  <2>5. ScanTable(w.table) /\ w.running \subseteq w.timers /\ Len(w.scan.rank) <= MaxAp
    BY <1>3 DEF Closable
  <2> QED BY <1>1, <1>2, <1>3, <1>6, <2>2, <2>3, <2>4, <2>5, Stepping
<1> QED BY <1>5, <1>6 DEF Printed

LEMMA BeginsStep ==
  ASSUME IInv, ~crossed, NEW p \in Pages, PageBegins(p)
  PROVE  IInv'
<1> DEFINE w == [World EXCEPT !.running = @ \cup {web.timer}]
<1>1. /\ World \in Worlds /\ Fine(World) /\ Closable(World) /\ web \in WebRec
      /\ page \in [Pages -> PageRec] /\ running \subseteq timers
  BY Facts
<1>2. web.flg = 2 /\ Printed(p, w, 0, web.ap_count) /\ UNCHANGED <<task, requests, crossed>>
  BY DEF PageBegins
<1>3. web.timer \in running
  BY <1>1, <1>2, Fields DEF Fine
<1>4. /\ w \in Worlds /\ w.running = running /\ w.table = World.table /\ w.scan = scan
      /\ w.web = web /\ w.heap = World.heap /\ w.timers = World.timers /\ w.owner = owner
      /\ w.heard = heard
  BY <1>1, <1>3, Fields DEF Worlds
<1> HIDE DEF w
<1>5. Closable(w)
  BY <1>1, <1>4, Fields DEF Closable
<1>6. Fine(w)
  BY <1>1, <1>4, <1>5, Fields DEF Fine
<1>7. web.ap_count \in 0..MaxAp /\ 0 \in 0..MaxAp /\ 0 <= web.ap_count
  BY <1>1, WifiScanAssumption DEF WebRec
<1> QED BY <1>2, <1>4, <1>6, <1>7, PrintStep

LEMMA ContinuesStep ==
  ASSUME IInv, ~crossed, NEW p \in Pages, PageContinues(p)
  PROVE  IInv'
<1>1. /\ World \in Worlds /\ Fine(World) /\ Closable(World) /\ web \in WebRec /\ PageHasList
      /\ page \in [Pages -> PageRec] /\ task \in TaskState /\ requests \in 0..MaxRequests
      /\ crossed \in BOOLEAN
  BY Facts
<1>2. page[p].on /\ UNCHANGED <<task, requests, crossed>>
  BY DEF PageContinues
<1>3. CASE /\ web.flg # 0 /\ page[p].start < web.ap_count
           /\ Printed(p, World, page[p].start, page[p].total)
  <2>1. page[p].start \in 0..MaxAp /\ page[p].total \in 0..MaxAp /\ page[p].start <= web.ap_count
    BY <1>1, <1>3, WifiScanAssumption DEF PageRec, WebRec
  <2>2. page[p].lost \/ (web.flg = 2 /\ page[p].total = web.ap_count)
    BY <1>1, <1>2 DEF PageHasList
  <2>3. /\ World.scan = scan /\ World.web = web /\ World.owner = owner /\ World.heard = heard
    BY Fields
  <2> QED BY <1>1, <1>2, <1>3, <2>1, <2>2, <2>3, PrintStep
<1>4. CASE /\ Become(wifi_close_scan(World))
           /\ page' = [q \in Pages |-> IF q = p THEN NoPage
                ELSE IF page[q].on THEN [page[q] EXCEPT !.lost = TRUE] ELSE page[q]]
  <2>1. AllLost(page')
    BY <1>4, Losing DEF IInv
  <2> QED BY <1>1, <1>2, <1>4, <2>1, ClosedStep
<1> QED BY <1>3, <1>4 DEF PageContinues

LEMMA LostStep ==
  ASSUME IInv, ~crossed, NEW p \in Pages, PageLost(p)
  PROVE  IInv'
<1>1. /\ World \in Worlds /\ Fine(World) /\ Closable(World) /\ PageHasList /\ Owned /\ Recorded
      /\ page \in [Pages -> PageRec] /\ task \in TaskState /\ requests \in 0..MaxRequests
      /\ crossed \in BOOLEAN /\ running \subseteq timers
  BY Facts
<1>2. /\ page' = [page EXCEPT ![p] = NoPage]
      /\ UNCHANGED <<event_callback_list, scan, web, heap, timers, running, task, requests,
                     heard, owner, crossed>>
  BY DEF PageLost
<1>3. Become(World)
  BY <1>2, Fields DEF Become
<1>4. NoPage \in PageRec /\ ~NoPage.on
  BY Constants
<1>5. page' \in [Pages -> PageRec]
  BY <1>1, <1>2, <1>4
<1>6. PageHasList'
  BY <1>1, <1>2, <1>4 DEF PageHasList
<1>7. /\ World.owner # Nothing /\ task'[World.owner] = "pscan" => World.scan.buf = Nothing
      /\ World.scan.buf # Nothing => Listed(World.scan, World.heard)
  BY <1>1, <1>2, Fields DEF Owned, Recorded
<1>8. ScanTable(World.table) /\ World.running \subseteq World.timers /\ Len(World.scan.rank) <= MaxAp
  BY <1>1 DEF Closable
<1> QED BY <1>1, <1>2, <1>3, <1>5, <1>6, <1>7, <1>8, Stepping

LEMMA Idle ==
  ASSUME IInv, UNCHANGED vars
  PROVE  IInv'
<1>1. World' = World
  BY DEF vars, World
<1>2. Typed'
  BY <1>1 DEF IInv, Typed, vars
<1>3. (Fine(World)' <=> Fine(World')) /\ crossed' = crossed
  BY DEF Fine, Closable, vars
<1>4. (Owned' <=> Owned) /\ (Recorded' <=> Recorded) /\ (PageHasList' <=> PageHasList)
  BY DEF Owned, Recorded, PageHasList, vars
<1> QED BY <1>1, <1>2, <1>3, <1>4 DEF IInv

LEMMA Inductive ==
  ASSUME IInv, [Next]_vars
  PROVE  IInv'
<1>1. CASE UNCHANGED vars
  BY <1>1, Idle
<1>2. CASE Abandoned
  BY <1>2, Idle DEF Abandoned
<1>3. ASSUME ~crossed, NEW k \in Tasks, api_wifi_scan(k) \/ ChannelsSet(k) \/ ScanAsked(k)
      PROVE  IInv'
  BY <1>3, StartStep, ChannelsStep, AskedStep
<1>4. CASE ~crossed /\ Waited
  BY <1>4, WaitedStep
<1>5. ASSUME ~crossed, NEW t \in Timers, TimerEnds(t) PROVE IInv'
  BY <1>5, TimerStep
<1>6. CASE ~crossed /\ (Report \/ Done \/ WifiOff)
  BY <1>6, ReportStep, DoneStep, OffStep
<1>7. ASSUME ~crossed, NEW p \in Pages, PageBegins(p) \/ PageContinues(p) \/ PageLost(p)
      PROVE  IInv'
  BY <1>7, BeginsStep, ContinuesStep, LostStep
<1> QED BY <1>1, <1>2, <1>3, <1>4, <1>5, <1>6, <1>7 DEF Next

THEOREM Invariant == Spec => []IInv
<1>1. Init => IInv
  BY Initially
<1>2. IInv /\ [Next]_vars => IInv'
  BY Inductive
<1> QED BY <1>1, <1>2, PTL DEF Spec
-----------------------------------------------------------------------------
(* wifi_api_scan keeps its state well typed: the list of results never     *)
(* holds more than MAX_AP_SCAN slots, and only slots that exist.           *)
THEOREM ScanTyped == Spec => []TypeOK
<1>1. IInv => TypeOK
  <2> SUFFICES ASSUME IInv PROVE TypeOK
    OBVIOUS
  <2>1. /\ World \in Worlds /\ Len(scan.rank) <= MaxAp /\ running \subseteq timers
        /\ task \in TaskState /\ requests \in 0..MaxRequests /\ page \in [Pages -> PageRec]
        /\ crossed \in BOOLEAN
    BY DEF IInv, Typed
  <2>2. /\ event_callback_list \in EventTable /\ scan \in ScanRec /\ web \in WebRec
        /\ heap \subseteq Buffers /\ timers \subseteq Timers
        /\ owner \in Tasks \cup {Nothing} /\ heard \in Heard
    BY <2>1, Fields DEF Worlds
  <2>3. /\ scan.running \in BOOLEAN /\ scan.cb \in BOOLEAN
        /\ scan.buf \in Buffers \cup {Nothing} /\ scan.rank \in Seq(Slots)
        /\ scan.details \in [Slots -> Result]
    BY <2>2 DEF ScanRec
  <2> QED BY <2>1, <2>2, <2>3 DEF TypeOK, Result, WebRec, PageRec, TaskState, Heard
<1> QED BY <1>1, Invariant, PTL

(* Every buffer is held by the scan or by the list, by one of them: what   *)
(* wifi_close_scan, the end of a scan, the page and the timer free is      *)
(* neither lost nor freed twice.                                           *)
THEOREM BuffersAreHeld == Spec => []BufferHeld
<1>1. IInv => BufferHeld
  BY Fields DEF IInv, Fine, Closable, BufferHeld
<1> QED BY <1>1, Invariant, PTL

(* A scan or a list has its running timer, and there is no other timer.    *)
THEOREM TimersWatch == Spec => []TimerWatches
<1>1. IInv => TimerWatches
  BY Fields DEF IInv, Fine, Closable, TimerWatches
<1> QED BY <1>1, Invariant, PTL

(* The handlers of the driver's events are registered together and have    *)
(* the record they write to.                                               *)
THEOREM HandlersAreSafe == Spec => []HandlersHaveBuffer
<1>1. IInv => HandlersHaveBuffer
  <2> SUFFICES ASSUME IInv PROVE HandlersHaveBuffer
    OBVIOUS
  <2>1. Registered(REPORT, each_report_hdl) <=> Registered(DONE, done_hdl)
    BY Fields DEF IInv, Typed, ScanTable, Registered
  <2>2. ASSUME ~crossed, Registered(REPORT, each_report_hdl)
        PROVE  scan.running /\ scan.buf # Nothing
    BY <2>2, Fields DEF IInv, Fine, Closable, Handled, Registered
  <2> QED BY <2>1, <2>2 DEF HandlersHaveBuffer
<1> QED BY <1>1, Invariant, PTL

(* A page that is sent has its list.                                       *)
THEOREM PagesHaveLists == Spec => []PageHasList
<1>1. IInv => PageHasList
  BY DEF IInv, PageHasList
<1> QED BY <1>1, Invariant, PTL

(* The access points of a list are as many as its slots.                   *)
LEMMA KeptOnce ==
  ASSUME NEW n \in Nat, NEW f, \A i, j \in 1..n : f[i] = f[j] => i = j
  PROVE  Cardinality({f[i] : i \in 1..n}) = n
<1> DEFINE T == {f[i] : i \in 1..n}
           g == [i \in 1..n |-> f[i]]
<1>1. g \in Surjection(1..n, T)
  BY DEF Surjection
<1>2. g \in Injection(1..n, T)
  BY DEF Injection, IsInjective
<1>3. IsFiniteSet(1..n) /\ Cardinality(1..n) = n
  <2>1. Cardinality(1..n) = IF 1 > n THEN 0 ELSE n - 1 + 1
    BY FS_Interval
  <2>2. IsFiniteSet(1..n)
    BY FS_Interval
  <2> QED BY <2>1, <2>2
<1> HIDE DEF g, T
<1>4. Cardinality(T) = Cardinality(1..n)
  BY <1>1, <1>2, <1>3, FS_Surjection
<1> QED BY <1>3, <1>4 DEF T

(* wifi_scan_each_report_hdl keeps the strongest access points reported,   *)
(* for any number of slots and in whatever order they are heard.           *)
THEOREM StrongestAreKept == Spec => []KeepsStrongest
<1>1. IInv => KeepsStrongest
  <2> SUFFICES ASSUME IInv, ~crossed, scan.buf # Nothing PROVE KeepsStrongest
    BY DEF KeepsStrongest
  <2> DEFINE n == Len(scan.rank)
             f == [i \in 1..n |-> scan.details[scan.rank[i]].ap]
             kept == {scan.details[scan.rank[i]].ap : i \in 1..n}
  <2>1. /\ scan \in ScanRec /\ Ranked(scan.rank, scan.details, heard) /\ Best(scan, heard)
        /\ MaxAp \in Nat \ {0}
    BY WifiScanAssumption DEF IInv, Recorded, Listed
  <2>2. n \in Nat /\ n <= MaxAp
    BY <2>1 DEF ScanRec, Best
  <2>3. Cardinality(kept) = n
    <3>1. \A i, j \in 1..n : f[i] = f[j] => i = j
      BY <2>1 DEF Ranked
    <3>2. kept = {f[i] : i \in 1..n}
      OBVIOUS
    <3> HIDE DEF f, kept, n
    <3> QED BY <2>2, <3>1, <3>2, KeptOnce
  <2>4. {scan.rank[i] : i \in 1..n} = 1..n
    <3>1. \A i \in 1..n : scan.rank[i] \in 1..n
      BY <2>1 DEF Best
    <3>2. \A p \in 1..n : \E i \in 1..n : scan.rank[i] = p
      BY <2>1 DEF Best
    <3> QED BY <3>1, <3>2
  <2>5. \A i \in 1..n : Signal(scan, i) = heard[scan.details[scan.rank[i]].ap]
    BY <2>1 DEF Ranked, Signal
  <2>6. \A i \in 1..n - 1 : Signal(scan, i) >= Signal(scan, i + 1)
    <3> TAKE i \in 1..n - 1
    <3>1. i \in 1..n /\ i + 1 \in 1..n /\ i < i + 1
      BY <2>2
    <3> QED BY <2>1, <3>1 DEF Ranked, Signal
  <2>7. ASSUME NEW x \in Aps \ kept, heard[x] # 0
        PROVE  n = MaxAp /\ heard[x] <= Signal(scan, n)
    <3>1. Kept1(x, scan, heard)
      BY <2>1 DEF Best
    <3>2. ~\E i \in 1..n : scan.details[scan.rank[i]].ap = x
      OBVIOUS
    <3>3. n = MaxAp /\ \A i \in 1..MaxAp : heard[x] <= scan.details[scan.rank[i]].signal
      BY <2>7, <3>1, <3>2 DEF Kept1
    <3> QED BY <2>1, <3>3 DEF Signal
  <2> QED BY <2>3, <2>4, <2>5, <2>6, <2>7 DEF KeepsStrongest
<1> QED BY <1>1, Invariant, PTL
=============================================================================
