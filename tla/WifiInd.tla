------------------------------ MODULE WifiInd ------------------------------
(***************************************************************************)
(* wifi_ind.c: the table of event handlers.  The operators are its calls   *)
(* as functions of the table; events are indicated in the task of the      *)
(* driver (CONFIG_WIFI_IND_USE_THREAD is 0).  All callers register with    *)
(* NULL as handler_user_data, which is left out.                           *)
(***************************************************************************)
EXTENDS Naturals

CONSTANTS
  Events,     (* The events that are modelled.                             *)
  EventHandlers,
  MaxRow      (* WIFI_EVENT_MAX_ROW                                        *)

NoHandler == "NULL"
Rows == 1..MaxRow

ASSUME WifiIndAssumption == MaxRow \in Nat \ {0} /\ NoHandler \notin EventHandlers

EventTable == [Events -> [Rows -> EventHandlers \cup {NoHandler}]]

init_event_callback_list == [e \in Events |-> [i \in Rows |-> NoHandler]]

RowsOf(t, e, h) == {i \in Rows : t[e][i] = h}
IsFirst(i, rows) == i \in rows /\ \A j \in rows : i <= j

(* The first free row is taken, unless the handler has a row already.  A   *)
(* full table drops the registration.  Mutant: the rows are not searched.  *)
wifi_reg_event_handler_Blind(t, e, h) ==
  [t EXCEPT ![e] = [i \in Rows |-> IF IsFirst(i, RowsOf(t, e, NoHandler)) THEN h ELSE @[i]]]
wifi_reg_event_handler(t, e, h) ==
  IF RowsOf(t, e, h) # {} THEN t
  ELSE [t EXCEPT ![e] =
         [i \in Rows |-> IF IsFirst(i, RowsOf(t, e, NoHandler)) THEN h ELSE @[i]]]

wifi_unreg_event_handler(t, e, h) ==
  [t EXCEPT ![e] = [i \in Rows |-> IF IsFirst(i, RowsOf(t, e, h)) THEN NoHandler ELSE @[i]]]

(* The handlers that wifi_indication calls.                                *)
IsHandled(t, e, h) == RowsOf(t, e, h) # {}
=============================================================================
