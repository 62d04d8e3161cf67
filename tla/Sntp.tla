-------------------------------- MODULE Sntp --------------------------------
(***************************************************************************)
(* sntp.c: the time client.  All of it runs in the lwIP thread as timer,   *)
(* resolver and datagram callbacks.  A chain is a callback that is still   *)
(* to come: a timer or a name lookup.  The client works as long as it has  *)
(* a chain, and it is meant to have one.                                   *)
(*                                                                         *)
(* Timers carry no time: one may fire whenever it is set.  The build has   *)
(* SNTP_SERVER_DNS, one server and SNTP_CHECK_RESPONSE 0, so any datagram  *)
(* that arrives is taken for an answer.                                    *)
(***************************************************************************)
EXTENDS Naturals

CONSTANTS
  RetryTimeout,     (* SNTP_RETRY_TIMEOUT.                                 *)
  RetryTimeoutMax,  (* SNTP_RETRY_TIMEOUT_MAX.                             *)
  DnsTable,         (* Lookups the resolver holds at a time.               *)
  MaxStops          (* Bound of the model: calls of sntp_stop.             *)

ASSUME SntpAssumption ==
  /\ RetryTimeout \in Nat \ {0}
  /\ RetryTimeoutMax \in Nat /\ RetryTimeoutMax >= RetryTimeout
  /\ DnsTable \in Nat \ {0}
  /\ MaxStops \in Nat

VARIABLES
  pcb,       (* sntp_pcb: "null" while the client is off, else "udp".      *)
  timeout,   (* sntp_retry_timeout.                                        *)
  request,   (* Timers that will call sntp_request.                        *)
  retry,     (* Timers that will call sntp_try_next_server (sntp_retry).   *)
  lookups,   (* Lookups that will call sntp_dns_found.                     *)
  heard,     (* History: the parity of the datagrams, so each is a step.   *)
  stops,     (* History: calls of sntp_stop that switched the client off.  *)
  sent       (* History: what udp_sendto was called with as its pcb.       *)

vars == <<pcb, timeout, request, retry, lookups, heard, stops, sent>>

Chains == request + retry + lookups

Init ==
  /\ pcb = "null"
  /\ timeout = 0
  /\ request = 0 /\ retry = 0 /\ lookups = 0
  /\ heard = 0
  /\ stops = 0
  /\ sent = {}

---------------------------------------------------------------------------
(* sys_untimeout cancels one timer of the callback it is given, if any.    *)
Less(n) == IF n > 0 THEN n - 1 ELSE 0

(* sntp_retry: a later request, with a timeout that doubles up to a limit. *)
Doubled ==
  IF timeout * 2 <= RetryTimeoutMax /\ timeout * 2 > timeout THEN timeout * 2 ELSE timeout

(* Mutant: no timer is set when no buffer can be had.                      *)
sntp_send_request_NoTimer(f, g) ==
  \/ /\ sent' = sent \cup {pcb}
     /\ request' = f /\ retry' = g + 1
  \/ /\ request' = f /\ retry' = g
     /\ UNCHANGED sent

(* sntp_send_request: a request, then the timer for its answer; a timer    *)
(* for another request when no buffer can be had.  f and g are the request *)
(* and retry timers set before.                                            *)
sntp_send_request(f, g) ==
  \/ /\ sent' = sent \cup {pcb}
     /\ request' = f /\ retry' = g + 1
  \/ /\ request' = f + 1 /\ retry' = g
     /\ UNCHANGED sent

(* A request timer: resolve the server's name, at once or by a lookup.     *)
sntp_request ==
  /\ request > 0
  /\ \/ /\ sntp_send_request(request - 1, retry)
        /\ UNCHANGED lookups
     \/ /\ lookups < DnsTable
        /\ lookups' = lookups + 1
        /\ request' = request - 1
        /\ UNCHANGED <<retry, sent>>
     \/ /\ retry' = retry + 1
        /\ request' = request - 1
        /\ UNCHANGED <<lookups, sent>>
  /\ UNCHANGED <<pcb, timeout, stops, heard>>

(* A timer set for an answer that did not come in time.                    *)
sntp_retry ==
  /\ retry > 0
  /\ retry' = retry - 1
  /\ request' = request + 1
  /\ timeout' = Doubled
  /\ UNCHANGED <<pcb, lookups, stops, heard, sent>>

(* Mutant: a name that has no address sets no timer.                       *)
sntp_dns_found_GivesUp ==
  /\ lookups > 0
  /\ lookups' = lookups - 1
  /\ \/ /\ sntp_send_request(request, retry)
        /\ UNCHANGED timeout
     \/ UNCHANGED <<timeout, request, retry, sent>>
  /\ UNCHANGED <<pcb, heard, stops>>

(* The resolver's answer: an address, or none.                             *)
sntp_dns_found ==
  /\ lookups > 0
  /\ lookups' = lookups - 1
  /\ \/ /\ sntp_send_request(request, retry)
        /\ UNCHANGED timeout
     \/ /\ request' = request + 1
        /\ timeout' = Doubled
        /\ UNCHANGED <<retry, sent>>
  /\ UNCHANGED <<pcb, stops, heard>>

(* A datagram: it stops one timer of each kind and sets one.  An answer    *)
(* resets the timeout and asks for the next update; a kiss of death and    *)
(* any other datagram ask for a retry.                                     *)
sntp_recv ==
  /\ pcb = "udp"
  /\ retry' = Less(retry)
  /\ request' = Less(request) + 1
  /\ timeout' \in {RetryTimeout, Doubled}
  /\ heard' = 1 - heard
  /\ UNCHANGED <<pcb, lookups, stops, sent>>

(* Mutant: a client that is on is started again.                           *)
sntp_init_Again ==
  /\ pcb' = "udp"
  /\ timeout' = RetryTimeout
  /\ request' = request + 1
  /\ UNCHANGED <<retry, lookups, stops, heard, sent>>

(* Only a client that is off is started, with its own first timer.         *)
sntp_init ==
  /\ pcb = "null"
  /\ pcb' = "udp"
  /\ timeout' = RetryTimeout
  /\ request' = request + 1
  /\ UNCHANGED <<retry, lookups, stops, heard, sent>>

(* Only a request timer is cancelled.                                      *)
sntp_stop ==
  /\ stops < MaxStops
  /\ pcb = "udp"
  /\ pcb' = "null"
  /\ request' = Less(request)
  /\ stops' = stops + 1
  /\ UNCHANGED <<timeout, retry, lookups, heard, sent>>

Next ==
  \/ sntp_request \/ sntp_retry \/ sntp_dns_found
  \/ sntp_recv
  \/ sntp_init \/ sntp_stop

(* lwIP's thread runs due timers and resolver answers for ever; the user   *)
(* and the network owe nothing.  A datagram cancels the timers and sets    *)
(* them again, so that datagrams which keep coming may postpone a timer    *)
(* for ever: what is fair is that a timer runs out or a datagram comes.    *)
RequestTimer == request > 0 /\ (sntp_request \/ sntp_recv)
RetryTimer   == retry > 0 /\ (sntp_retry \/ sntp_recv)
Fairness == WF_vars(RequestTimer) /\ WF_vars(RetryTimer) /\ WF_vars(sntp_dns_found)

Spec     == Init /\ [][Next]_vars
FairSpec == Spec /\ Fairness

---------------------------------------------------------------------------
TypeOK ==
  /\ pcb \in {"null", "udp"}
  /\ timeout \in 0 .. RetryTimeoutMax
  /\ request \in Nat /\ retry \in Nat /\ lookups \in 0 .. DnsTable
  /\ heard \in {0, 1}
  /\ stops \in Nat
  /\ sent \subseteq {"null", "udp"}

(* A client that is on always has something to wake it up: no order of     *)
(* answers, timeouts and lookups leaves it waiting for nothing.            *)
NeverSilent == pcb = "udp" => Chains >= 1

(* A datagram that arrives during a lookup starts a second chain, and so   *)
(* does a client switched off and on with chains under way; but chains do  *)
(* not multiply: the resolver's table, one more, and one for every stop.   *)
ChainsBounded == Chains <= DnsTable + 1 + stops

(* "Stop this module" (sntp_stop): nothing is sent once the client is off. *)
NoSendWhenOff == "null" \notin sent

(* A client left on keeps asking for the time, unless datagrams keep       *)
(* coming for ever: no order of lost answers, failed lookups and late      *)
(* datagrams makes it give up.                                             *)
KeepsTime ==
  <>[](pcb = "udp") => []<><<sntp_recv>>_vars \/ []<><<sntp_request>>_vars
=============================================================================
