---------------------------- MODULE ConfigStore ----------------------------
(***************************************************************************)
(* What flash_eep promises its callers (flash_eep.h): a map from object    *)
(* ids to the last content saved under them.  A save that is under way may *)
(* leave its own object in any condition, and a power loss may freeze it   *)
(* there; no save ever touches another object, and a save that reports     *)
(* success has stored exactly what it was given.                           *)
(***************************************************************************)

CONSTANTS
  Ids,       (* Identifiers of objects.                                    *)
  Contents,  (* Everything a read may return for a saved object.           *)
  Absent     (* What a read returns for an object that is not there.       *)

VARIABLES
  store,     (* The content each id reads as.                              *)
  pending,   (* {} or {<<id, value>>}: the save under way.                 *)
  result     (* Outcome the last finished save reported.                   *)

vars == <<store, pending, result>>

Init ==
  /\ store = [id \in Ids |-> Absent]
  /\ pending = {}
  /\ result = "none"

(* The save under way may have left anything in its own object's place.    *)
Disturbed(id) ==
  /\ store'[id] \in Contents \cup {Absent}
  /\ \A other \in Ids \ {id} : store'[other] = store[other]

(* A save begins.                                                          *)
Begin ==
  /\ pending = {}
  /\ \E id \in Ids, value \in Contents : pending' = {<<id, value>>}
  /\ result' = "none"
  /\ UNCHANGED store

(* A save of what is stored already ends at once.                          *)
Same ==
  /\ pending = {}
  /\ result' = "ok"
  /\ UNCHANGED <<store, pending>>

(* While a save is under way its own object reads as anything.             *)
Progress ==
  /\ \E p \in pending : Disturbed(p[1])
  /\ UNCHANGED <<pending, result>>

(* A save that reports success has stored its value.                       *)
Finish ==
  /\ \E p \in pending : Disturbed(p[1]) /\ store'[p[1]] = p[2]
  /\ pending' = {}
  /\ result' = "ok"

(* A save that reports failure, or that a power loss interrupts.           *)
Abandon ==
  /\ \E p \in pending : Disturbed(p[1])
  /\ pending' = {}
  /\ result' \in {"none", "fail"}

Next == Begin \/ Same \/ Progress \/ Finish \/ Abandon

Spec == Init /\ [][Next]_vars
=============================================================================
