----------------------------- MODULE SntpProofs -----------------------------
(***************************************************************************)
(* Proofs about Sntp for every timeout and every size of the resolver's    *)
(* table: the types, the client that is never left without a chain, and    *)
(* the bound on its chains.                                                *)
(***************************************************************************)
EXTENDS Sntp, TLAPS

(* A client that is off has one chain less, which its start will add.      *)
Bounded == ChainsBounded /\ (pcb = "null" => Chains <= DnsTable + stops)

IInv == TypeOK /\ NeverSilent /\ Bounded

LEMMA Initially == Init => IInv
BY SntpAssumption DEF Init, IInv, TypeOK, NeverSilent, Bounded, ChainsBounded, Chains

(* The timeout of a retry stays within its limit.                          *)
LEMMA DoubledInRange == ASSUME TypeOK PROVE Doubled \in 0 .. RetryTimeoutMax
BY SntpAssumption DEF TypeOK, Doubled

(* The step of each timer, lookup, datagram and switch.                    *)
LEMMA Inductive == ASSUME IInv, [Next]_vars PROVE IInv'
<1> USE SntpAssumption DEF IInv
<1>1. CASE sntp_request
  <2>1. /\ request' \in Nat /\ retry' \in Nat /\ lookups' \in 0 .. DnsTable
        /\ request' + retry' + lookups' = request + retry + lookups /\ request > 0
    BY <1>1 DEF sntp_request, sntp_send_request, TypeOK
  <2>2. sent' \subseteq {"null", "udp"}
    BY <1>1 DEF sntp_request, sntp_send_request, TypeOK
  <2>3. pcb' = pcb /\ timeout' = timeout /\ heard' = heard /\ stops' = stops
    BY <1>1 DEF sntp_request
  <2> QED
    BY <2>1, <2>2, <2>3 DEF TypeOK, NeverSilent, Bounded, ChainsBounded, Chains
<1>2. CASE sntp_retry
  BY <1>2, DoubledInRange DEF sntp_retry, TypeOK, NeverSilent, Bounded, ChainsBounded, Chains
<1>3. CASE sntp_dns_found
  <2>1. /\ request' \in Nat /\ retry' \in Nat /\ lookups' \in 0 .. DnsTable
        /\ request' + retry' + lookups' = request + retry + lookups /\ lookups > 0
    BY <1>3 DEF sntp_dns_found, sntp_send_request, TypeOK
  <2>2. sent' \subseteq {"null", "udp"}
    BY <1>3 DEF sntp_dns_found, sntp_send_request, TypeOK
  <2>3. pcb' = pcb /\ timeout' \in 0 .. RetryTimeoutMax /\ heard' = heard /\ stops' = stops
    BY <1>3, DoubledInRange DEF sntp_dns_found, TypeOK
  <2> QED
    BY <2>1, <2>2, <2>3 DEF TypeOK, NeverSilent, Bounded, ChainsBounded, Chains
<1>4. CASE sntp_recv
  BY <1>4, DoubledInRange
     DEF sntp_recv, Less, TypeOK, NeverSilent, Bounded, ChainsBounded, Chains
<1>5. CASE sntp_init
  BY <1>5 DEF sntp_init, TypeOK, NeverSilent, Bounded, ChainsBounded, Chains
<1>6. CASE sntp_stop
  BY <1>6 DEF sntp_stop, Less, TypeOK, NeverSilent, Bounded, ChainsBounded, Chains
<1>7. CASE UNCHANGED vars
  BY <1>7 DEF vars, TypeOK, NeverSilent, Bounded, ChainsBounded, Chains
<1> QED
  BY <1>1, <1>2, <1>3, <1>4, <1>5, <1>6, <1>7 DEF Next

LEMMA Always == Spec => []IInv
<1>1. Init => IInv
  BY Initially
<1>2. IInv /\ [Next]_vars => IInv'
  BY Inductive
<1> QED
  BY <1>1, <1>2, PTL DEF Spec

(* The client's state has the types of its variables.                      *)
THEOREM SntpTyped == Spec => []TypeOK
<1>1. IInv => TypeOK
  BY DEF IInv
<1> QED
  BY <1>1, Always, PTL

(* A client that is on has a timer or a lookup to come, stopped and        *)
(* started as it may be.                                                   *)
THEOREM SomethingToCome == Spec => []NeverSilent
<1>1. IInv => NeverSilent
  BY DEF IInv
<1> QED
  BY <1>1, Always, PTL

(* The chains never outnumber the places of the resolver by more than one, *)
(* and one for every time the client was stopped, whatever arrives.        *)
THEOREM FewChains == Spec => []ChainsBounded
<1>1. IInv => ChainsBounded
  BY DEF IInv, Bounded
<1> QED
  BY <1>1, Always, PTL
=============================================================================
