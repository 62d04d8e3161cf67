SPECIFICATION Spec
CONSTANTS
  Events = {"SCAN_RESULT_REPORT", "SCAN_DONE"}
  EventHandlers = {"wifi_scan_each_report_hdl", "_wifi_scan_done_hdl"}
  MaxRow = 3
  Aps = {"a", "b", "c"}
  Signals = {1, 2}
  MaxAp = 2
  Buffers = {"b"}
  Timers = {"t"}
  Pages = {"p", "q"}
  MaxRequests = 2
INVARIANTS BufferHeld TimerWatches HandlersHaveBuffer KeepsStrongest PageHasList
PROPERTIES ScanEnds
