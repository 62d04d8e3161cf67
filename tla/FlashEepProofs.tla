--------------------------- MODULE FlashEepProofs ---------------------------
(***************************************************************************)
(* For any number of banks, any layout and any objects: a power loss always*)
(* finds the current bank whole, because packing works on another bank and *)
(* commits by writing one header; and what the banks hold implements the   *)
(* store of ConfigStore as long as a pack carries one object over.         *)
(***************************************************************************)
EXTENDS FlashEep, SeqFacts, TLAPS

(* HeadersDistinct and PackElsewhere are inductive together with the fact  *)
(* that a bank being filled has no header yet.                             *)
IInv ==
  /\ TypeOK
  /\ HeadersDistinct
  /\ PackElsewhere
  /\ pc = "copy" => hdr[bank] = Top

(* The first bank with the least header is a bank with a header as soon as *)
(* one has, and after formatting (get_addr_bscfg(false)) one always has.   *)
LEMMA CurrentInUse ==
  ASSUME NEW h \in [BankSet -> 0 .. Top], NEW b \in BankSet, IsCurrent(Formatted(h), b)
  PROVE  Formatted(h)[b] # Top
<1> USE BanksAssumption, TopAssumption DEF BankSet
<1>1. CASE \A x \in BankSet : h[x] = Top
  <2>1. Formatted(h)[0] = Top - 1
    BY <1>1 DEF Formatted
  <2>2. 0 \in BankSet
    OBVIOUS
  <2>3. Formatted(h) \in [BankSet -> 0 .. Top]
    BY <1>1 DEF Formatted
  <2> QED BY <2>1, <2>2, <2>3 DEF IsCurrent
<1>2. CASE ~ \A x \in BankSet : h[x] = Top
  <2>1. PICK x \in BankSet : h[x] # Top
    BY <1>2
  <2>2. Formatted(h) = h
    BY <1>2 DEF Formatted
  <2> QED BY <2>1, <2>2 DEF IsCurrent
<1> QED BY <1>1, <1>2

(* Formatting keeps the headers distinct and touches no bank in use.       *)
LEMMA FormattedKeeps ==
  ASSUME TypeOK, HeadersDistinct
  PROVE  /\ Formatted(hdr) \in [BankSet -> 0 .. Top]
         /\ \A a, b \in BankSet :
              a # b /\ Formatted(hdr)[a] # Top => Formatted(hdr)[a] # Formatted(hdr)[b]
         /\ \A b \in BankSet : hdr[b] # Top => Formatted(hdr) = hdr
BY BanksAssumption, TopAssumption DEF Formatted, TypeOK, HeadersDistinct, BankSet

(* get_addr_bscfg(true) never answers with the current bank.               *)
LEMMA TargetIsOther ==
  ASSUME NEW h \in [BankSet -> 0 .. Top],
         \A a, b \in BankSet : a # b /\ h[a] # Top => h[a] # h[b],
         NEW c \in BankSet, IsCurrent(h, c), h[c] # Top,
         NEW t \in BankSet, IsPackTarget(h, t)
  PROVE  t # c
<1> USE BanksAssumption, TopAssumption DEF BankSet
<1> SUFFICES ASSUME t = c PROVE FALSE
  OBVIOUS
<1>1. PICK o \in BankSet : o # c
  <2>1. CASE c = 0
    <3>1. 1 \in BankSet
      OBVIOUS
    <3> QED BY <2>1, <3>1
  <2>2. CASE c # 0
    <3>1. 0 \in BankSet
      OBVIOUS
    <3> QED BY <2>2, <3>1
  <2> QED BY <2>1, <2>2
<1>2. h[c] # h[o]
  BY <1>1
<1>3. h[c] < h[o]
  BY <1>2 DEF IsCurrent
<1>4. h[o] < h[c]
  BY <1>2 DEF IsPackTarget
<1> QED BY <1>3, <1>4

(* Programming keeps a bank's shape and only clears bits.                  *)
LEMMA ProgrammedClears ==
  ASSUME NEW old \in [Cells -> Words], NEW i, NEW words, NEW n
  PROVE  /\ Programmed(old, i, words, n) \in [Cells -> Words]
         /\ \A j \in Cells : Programmed(old, i, words, n)[j] \subseteq old[j]
BY DEF Programmed, Words

---------------------------------------------------------------------------
LEMMA InitIInv == Init => IInv
<1> SUFFICES ASSUME Init PROVE IInv
  OBVIOUS
<1>1. [i \in Cells |-> Free] \in [Cells -> Words]
  BY DEF Words, Free
<1>2. cells \in [BankSet -> [Cells -> Words]]
  BY <1>1 DEF Init
<1>3. 0 \in BankSet
  BY BanksAssumption DEF BankSet
<1>4. TypeOK
  <2>1. hdr \in [BankSet -> 0 .. Top]
    BY TopAssumption DEF Init
  <2> QED BY <1>2, <1>3, <2>1 DEF Init, TypeOK
<1> QED BY <1>4 DEF Init, IInv, HeadersDistinct, PackElsewhere

(* What a call leaves behind when it ends.                                 *)
LEMMA ReturnIdle ==
  ASSUME NEW outcome \in {"none", "ok", "fail"}, Return(outcome)
  PROVE  /\ pc' = "idle" /\ req' = {}
         /\ cur' \in BankSet /\ bank' \in BankSet /\ at' \in Nat /\ done' \in Nat
         /\ result' \in {"none", "ok", "fail"}
BY BanksAssumption DEF Return, BankSet

LEMMA WriteCfgStep ==
  ASSUME IInv, NEW id \in Ids, NEW value \in Values[id], flash_write_cfg(id, value)
  PROVE  IInv'
<1> USE DEF IInv
<1>1. PICK b \in BankSet :
        /\ IsCurrent(hdr', b)
        /\ \/ Return("ok")
           \/ /\ req' = {<<id, value>>} /\ cur' = b /\ done' = 0 /\ result' = "none"
              /\ \/ /\ pc' = "head" /\ bank' = b /\ at' \in Cells
                 \/ /\ hdr'[b] > 0 /\ pc' = "pack" /\ at' = 1
                    /\ \E target \in BankSet : IsPackTarget(hdr', target) /\ bank' = target
  BY DEF flash_write_cfg
<1>2. hdr' = Formatted(hdr) /\ cells' = cells /\ strayed' = FALSE
  BY DEF flash_write_cfg
<1>3. /\ hdr' \in [BankSet -> 0 .. Top]
      /\ HeadersDistinct'
  BY <1>2, FormattedKeeps DEF HeadersDistinct
<1>4. hdr'[b] # Top
  BY <1>1, <1>2, CurrentInUse DEF TypeOK
<1>5. <<id, value>> \in Requests
  BY DEF Requests
<1>6. CASE Return("ok")
  BY <1>2, <1>3, <1>6, ReturnIdle DEF TypeOK, PackElsewhere
<1>7. CASE /\ req' = {<<id, value>>} /\ cur' = b /\ done' = 0 /\ result' = "none"
           /\ pc' = "head" /\ bank' = b /\ at' \in Cells
  <2>1. \E r \in Requests : req' = {r}
    BY <1>5, <1>7
  <2>2. at' \in Nat /\ done' \in Nat
    BY <1>7, LayoutAssumption DEF Cells
  <2>3. TypeOK'
    BY <1>2, <1>3, <1>7, <2>1, <2>2 DEF TypeOK
  <2>4. PackElsewhere'
    BY <1>1, <1>4, <1>7 DEF PackElsewhere, IsCurrent
  <2> QED BY <1>3, <1>7, <2>3, <2>4
<1>8. CASE /\ req' = {<<id, value>>} /\ cur' = b /\ done' = 0 /\ result' = "none"
           /\ hdr'[b] > 0 /\ pc' = "pack" /\ at' = 1
           /\ \E target \in BankSet : IsPackTarget(hdr', target) /\ bank' = target
  <2>1. TypeOK'
    BY <1>2, <1>3, <1>5, <1>8 DEF TypeOK
  <2>2. bank' # b
    BY <1>1, <1>3, <1>4, <1>8, TargetIsOther DEF HeadersDistinct
  <2>3. PackElsewhere'
    BY <1>1, <1>4, <1>8, <2>2 DEF PackElsewhere, IsCurrent
  <2> QED BY <1>3, <1>8, <2>1, <2>3
<1> QED BY <1>1, <1>6, <1>7, <1>8

(* The header of a filled bank is below every other: it becomes current.   *)
LEMMA CommitStep ==
  ASSUME IInv, PackCommit
  PROVE  IInv'
<1> USE TopAssumption, BanksAssumption DEF IInv, BankSet
<1>1. /\ pc = "copy"
      /\ hdr' = [hdr EXCEPT ![bank] = hdr[cur] - 1]
      /\ UNCHANGED <<cells, strayed>>
      /\ \/ Return("fail")
         \/ pc' = "head" /\ at' \in Cells /\ UNCHANGED <<req, cur, bank, done, result>>
  BY DEF PackCommit, NextHeader
<1>2. /\ hdr \in [BankSet -> 0 .. Top] /\ bank \in BankSet /\ cur \in BankSet
      /\ bank # cur /\ hdr[cur] # Top /\ hdr[cur] > 0 /\ IsCurrent(hdr, cur)
  BY <1>1 DEF TypeOK, PackElsewhere
<1>3. hdr' \in [BankSet -> 0 .. Top] /\ hdr'[bank] = hdr[cur] - 1 /\ hdr'[bank] # Top
  BY <1>1, <1>2
<1>4. \A b \in BankSet : b # bank => hdr'[b] = hdr[b] /\ hdr'[bank] < hdr'[b]
  BY <1>1, <1>2, <1>3 DEF IsCurrent
<1>5. HeadersDistinct'
  <2> SUFFICES ASSUME NEW a \in BankSet, NEW b \in BankSet, a # b, hdr'[a] # Top
               PROVE  hdr'[a] # hdr'[b]
    BY DEF HeadersDistinct
  <2>1. \A c \in BankSet : hdr'[c] \in 0 .. Top
    BY <1>3
  <2>2. CASE a = bank \/ b = bank
    BY <1>2, <1>4, <2>1, <2>2
  <2>3. CASE a # bank /\ b # bank
    BY <1>4, <2>3 DEF HeadersDistinct
  <2> QED BY <2>2, <2>3
<1>6. CASE Return("fail")
  BY <1>1, <1>3, <1>5, <1>6, ReturnIdle DEF TypeOK, PackElsewhere
<1>7. CASE pc' = "head" /\ at' \in Cells /\ UNCHANGED <<req, cur, bank, done, result>>
  <2>1. TypeOK'
    BY <1>1, <1>3, <1>7, LayoutAssumption DEF TypeOK, Cells
  <2>2. PackElsewhere'
    BY <1>3, <1>4, <1>7 DEF PackElsewhere, IsCurrent
  <2> QED BY <1>5, <1>7, <2>1, <2>2
<1> QED BY <1>1, <1>6, <1>7

(* Erasing or filling the other bank leaves the current one current.       *)
LEMMA EraseStep ==
  ASSUME IInv, EraseBegin \/ EraseEnd
  PROVE  IInv'
<1> USE TopAssumption, BanksAssumption DEF IInv
<1>1. /\ pc \in {"pack", "erase"}
      /\ pc' \in {"erase", "copy"}
      /\ hdr' = hdr \/ hdr' = [hdr EXCEPT ![bank] = Top]
      /\ pc' = "copy" => hdr' = [hdr EXCEPT ![bank] = Top]
      /\ cells' = cells \/ cells' = [cells EXCEPT ![bank] = [i \in Cells |-> Free]]
      /\ UNCHANGED <<req, cur, bank, at, done, result, strayed>>
  BY DEF EraseBegin, EraseEnd
<1>2. hdr \in [BankSet -> 0 .. Top] /\ bank \in BankSet /\ cur \in BankSet /\ bank # cur
  BY <1>1 DEF TypeOK, PackElsewhere
<1>3. TypeOK'
  BY <1>1, <1>2 DEF TypeOK, Words, Free
<1>4. HeadersDistinct'
  BY <1>1, <1>2 DEF HeadersDistinct
<1>5. PackElsewhere'
  <2>1. hdr'[cur] = hdr[cur] /\ IsCurrent(hdr', cur)
    BY <1>1, <1>2 DEF PackElsewhere, IsCurrent, BankSet
  <2> QED BY <1>1, <2>1 DEF PackElsewhere
<1>6. pc' = "copy" => hdr'[bank'] = Top
  BY <1>1, <1>2
<1> QED BY <1>3, <1>4, <1>5, <1>6

(* The bits of a head word give it a size of 0 to 3.                       *)
LEMMA StrideNat == ASSUME NEW word PROVE Stride(word) \in Nat
BY LayoutAssumption DEF Stride, SizeOf, Valid

LEMMA ProgramStep ==
  ASSUME IInv, PackRecord \/ WriteHead \/ WriteData
  PROVE  IInv'
<1> USE DEF IInv
<1>1. cells' \in [BankSet -> [Cells -> Words]]
  <2>1. CASE PackRecord
    BY <2>1, ProgrammedClears DEF PackRecord, TypeOK
  <2>2. CASE WriteHead
    BY <2>2, ProgrammedClears DEF WriteHead, TypeOK
  <2>3. CASE WriteData
    BY <2>3, ProgrammedClears DEF WriteData, TypeOK
  <2> QED BY <2>1, <2>2, <2>3
<1>2. hdr' = hdr /\ strayed' = strayed
  BY DEF PackRecord, WriteHead, WriteData
<1>3. CASE PackRecord
  <2>1. at' \in Nat
    BY <1>3, StrideNat DEF PackRecord, TypeOK
  <2> QED BY <1>1, <1>2, <1>3, <2>1 DEF PackRecord, TypeOK, HeadersDistinct, PackElsewhere
<1>4. CASE WriteHead
  BY <1>1, <1>2, <1>4 DEF WriteHead, TypeOK, HeadersDistinct, PackElsewhere
<1>5. CASE WriteData
  <2>1. \/ Return("ok")
        \/ done' = done + 1 /\ UNCHANGED <<pc, req, cur, bank, at, result>>
    BY <1>5 DEF WriteData
  <2>2. CASE Return("ok")
    BY <1>1, <1>2, <2>2, ReturnIdle DEF TypeOK, HeadersDistinct, PackElsewhere
  <2>3. CASE done' = done + 1 /\ UNCHANGED <<pc, req, cur, bank, at, result>>
    BY <1>1, <1>2, <2>3 DEF TypeOK, HeadersDistinct, PackElsewhere
  <2> QED BY <2>1, <2>2, <2>3
<1> QED BY <1>3, <1>4, <1>5

LEMMA NextIInv == IInv /\ [Next]_vars => IInv'
<1> SUFFICES ASSUME IInv, [Next]_vars PROVE IInv'
  OBVIOUS
<1>1. CASE flash_read_cfg
  <2>1. hdr' = Formatted(hdr) /\ pc = "idle"
        /\ UNCHANGED <<cells, pc, req, cur, bank, at, done, result, strayed>>
    BY <1>1 DEF flash_read_cfg
  <2>2. hdr' \in [BankSet -> 0 .. Top] /\ HeadersDistinct'
    BY <2>1, FormattedKeeps DEF IInv, HeadersDistinct
  <2> QED BY <2>1, <2>2 DEF IInv, TypeOK, PackElsewhere
<1>2. ASSUME NEW id \in Ids, NEW value \in Values[id], flash_write_cfg(id, value)
      PROVE  IInv'
  BY <1>2, WriteCfgStep
<1>3. CASE PackNoMemory
  BY <1>3, ReturnIdle DEF PackNoMemory, IInv, TypeOK, HeadersDistinct, PackElsewhere, flash
<1>4. CASE EraseBegin \/ EraseEnd
  BY <1>4, EraseStep
<1>5. CASE PackRecord \/ WriteHead \/ WriteData
  BY <1>5, ProgramStep
<1>6. CASE PackCommit
  BY <1>6, CommitStep
<1>7. CASE PowerLoss
  BY <1>7, ReturnIdle DEF PowerLoss, IInv, TypeOK, HeadersDistinct, PackElsewhere
<1>8. CASE UNCHANGED vars
  BY <1>8 DEF vars, IInv, TypeOK, HeadersDistinct, PackElsewhere, IsCurrent
<1> QED BY <1>1, <1>2, <1>3, <1>4, <1>5, <1>6, <1>7, <1>8 DEF Next

(* Every reachable state satisfies the inductive invariant.                *)
THEOREM Inductive == Spec => []IInv
BY InitIInv, NextIInv, PTL DEF Spec

(* The flash, and the memory of the call, keep the shape of the code's     *)
(* types (flash_eep.c).                                                    *)
THEOREM FlashTyped == Spec => []TypeOK
BY Inductive, PTL DEF IInv

(* Whatever the number of banks, the order of headers always tells which   *)
(* bank is current (get_addr_bscfg).                                       *)
THEOREM HeadersNeverClash == Spec => []HeadersDistinct
BY Inductive, PTL DEF IInv

(* A call that packs works on another bank than the current one, a call    *)
(* that saves writes to the current one (pack_cfg_fmem, _flash_write_cfg). *)
THEOREM PackingIsElsewhere == Spec => []PackElsewhere
BY Inductive, PTL DEF IInv

(* No step erases the current bank or sets a bit in it.                    *)
THEOREM CurrentKept == Spec => CurrentNeverErased
<1> DEFINE Kept ==
      \A b \in BankSet : hdr[b] # Top /\ IsCurrent(hdr, b) =>
        /\ hdr'[b] = hdr[b]
        /\ \A i \in Cells : cells'[b][i] \subseteq cells[b][i]
<1>1. IInv /\ [Next]_vars => [Kept]_vars
  <2> SUFFICES ASSUME IInv, Next, NEW b \in BankSet, hdr[b] # Top, IsCurrent(hdr, b)
               PROVE  /\ hdr'[b] = hdr[b]
                      /\ \A i \in Cells : cells'[b][i] \subseteq cells[b][i]
    OBVIOUS
  <2>1. TypeOK
    BY DEF IInv
  <2>2. CASE flash_read_cfg \/ \E id \in Ids : \E value \in Values[id] : flash_write_cfg(id, value)
    BY <2>1, <2>2, FormattedKeeps DEF flash_read_cfg, flash_write_cfg, IInv
  <2>3. CASE PackNoMemory \/ PowerLoss
    BY <2>3 DEF PackNoMemory, PowerLoss, flash
  <2>4. ASSUME pc \in {"pack", "erase", "copy"} PROVE b # bank
    <3>1. IsCurrent(hdr, cur) /\ bank # cur /\ cur \in BankSet
      BY <2>1, <2>4 DEF IInv, TypeOK, PackElsewhere
    <3>2. b = cur
      BY <2>1, <3>1, BanksAssumption DEF IsCurrent, TypeOK, BankSet
    <3> QED BY <3>1, <3>2
  <2>5. CASE EraseBegin \/ EraseEnd
    BY <2>1, <2>4, <2>5 DEF EraseBegin, EraseEnd, TypeOK
  <2>6. CASE PackCommit
    BY <2>1, <2>4, <2>6 DEF PackCommit, NextHeader, TypeOK
  <2>7. CASE PackRecord
    BY <2>1, <2>4, <2>7 DEF PackRecord, TypeOK
  <2>8. CASE WriteHead
    BY <2>1, <2>8, ProgrammedClears DEF WriteHead, TypeOK
  <2>9. CASE WriteData
    BY <2>1, <2>9, ProgrammedClears DEF WriteData, TypeOK
  <2> QED BY <2>2, <2>3, <2>5, <2>6, <2>7, <2>8, <2>9 DEF Next
<1> QED BY <1>1, Inductive, PTL DEF Spec, CurrentNeverErased

(* A word where the walk over a bank goes on.                              *)
Live(c, i) == i < BankWords - 1 /\ Cell(c, i) # Free
Chain(c, S) == \A i \in S : Live(c, i) => i + Stride(c[i]) \in S
Reached(c, i) == {j \in Nat : Live(c, j) /\ \A S \in SUBSET Nat : i \in S /\ Chain(c, S) => j \in S}

(* The walk of get_addr_fobj as a set that is closed under its steps.      *)
LEMMA WalkEnds ==
  ASSUME NEW c
  PROVE  Records(c) = Reached(c, 1)
<1> DEFINE Def(g) == [i \in Nat |->
             IF i >= BankWords - 1 \/ Cell(c, i) = Free THEN {}
             ELSE {i} \cup g[i + Stride(c[i])]]
           walk == CHOOSE g : g = Def(g)
           reach == [i \in Nat |-> Reached(c, i)]
<1>0. BankWords \in Nat /\ \A i \in Nat : Stride(c[i]) \in Nat \ {0}
  BY LayoutAssumption DEF Stride, SizeOf, Valid
<1>1. ASSUME NEW i \in Nat, ~Live(c, i) PROVE Reached(c, i) = {}
  <2> SUFFICES ASSUME NEW j \in Reached(c, i) PROVE FALSE
    OBVIOUS
  <2>1. {i} \in SUBSET Nat /\ Chain(c, {i})
    BY <1>1 DEF Chain
  <2>2. j \in {i} /\ Live(c, j)
    BY <2>1 DEF Reached
  <2> QED BY <1>1, <2>2
<1>2. ASSUME NEW i \in Nat, Live(c, i)
      PROVE  Reached(c, i) = {i} \cup Reached(c, i + Stride(c[i]))
  <2> DEFINE n == i + Stride(c[i])
  <2>0. n \in Nat
    BY <1>0
  <2> HIDE DEF n
  <2>1. ASSUME NEW j \in Reached(c, i), j # i PROVE j \in Reached(c, n)
    <3> SUFFICES ASSUME NEW S \in SUBSET Nat, n \in S, Chain(c, S) PROVE j \in S
      BY DEF Reached
    <3>1. S \cup {i} \in SUBSET Nat /\ Chain(c, S \cup {i})
      BY DEF Chain, n
    <3> QED BY <2>1, <3>1 DEF Reached
  <2>2. i \in Reached(c, i)
    BY <1>2 DEF Reached
  <2>3. ASSUME NEW j \in Reached(c, n) PROVE j \in Reached(c, i)
    <3> SUFFICES ASSUME NEW S \in SUBSET Nat, i \in S, Chain(c, S) PROVE j \in S
      BY DEF Reached
    <3>1. n \in S
      BY <1>2 DEF Chain, n
    <3> QED BY <3>1 DEF Reached
  <2> QED BY <2>1, <2>2, <2>3 DEF n
<1>3. reach = Def(reach)
  <2>1. ASSUME NEW i \in Nat
        PROVE  reach[i] = IF i >= BankWords - 1 \/ Cell(c, i) = Free THEN {}
                          ELSE {i} \cup reach[i + Stride(c[i])]
    <3>1. CASE Live(c, i)
      <4>1. i + Stride(c[i]) \in Nat /\ ~(i >= BankWords - 1 \/ Cell(c, i) = Free)
        BY <1>0, <3>1 DEF Live
      <4>2. reach[i] = Reached(c, i) /\ reach[i + Stride(c[i])] = Reached(c, i + Stride(c[i]))
        BY <4>1
      <4> HIDE DEF reach
      <4> QED BY <1>2, <3>1, <4>1, <4>2
    <3>2. CASE ~Live(c, i)
      <4>1. i >= BankWords - 1 \/ Cell(c, i) = Free
        BY <1>0, <3>2 DEF Live
      <4> QED BY <1>1, <3>2, <4>1
    <3> QED BY <3>1, <3>2
  <2>2. reach = [i \in Nat |-> reach[i]]
    OBVIOUS
  <2> HIDE DEF reach
  <2> QED BY <2>1, <2>2
<1>4. walk = Def(walk)
  <2> HIDE DEF reach, Def
  <2> QED BY <1>3
<1>5. \A i \in Nat : walk[i] = IF ~Live(c, i) THEN {} ELSE {i} \cup walk[i + Stride(c[i])]
  <2>1. \A i \in Nat : Live(c, i) <=> ~(i >= BankWords - 1 \/ Cell(c, i) = Free)
    BY <1>0 DEF Live
  <2> HIDE DEF walk
  <2> QED BY <1>4, <2>1
(* Two walks that disagree do so at a last place.                          *)
<1>6. \A i \in Nat : walk[i] = Reached(c, i)
  <2> DEFINE bad == {k \in Nat : \E i \in Nat : i + k = BankWords /\ walk[i] # Reached(c, i)}
  <2>1. ASSUME bad # {} PROVE FALSE
    <3>0. bad \in SUBSET Nat
      OBVIOUS
    <3> HIDE DEF bad
    <3>1. PICK k \in bad : \A j \in bad : k <= j
      BY <2>1, <3>0, LeastElement
    <3>2. k \in Nat
      BY <3>0
    <3>3. PICK i \in Nat : i + k = BankWords /\ walk[i] # Reached(c, i)
      BY DEF bad
    <3>4. Live(c, i)
      <4> HIDE DEF walk
      <4> QED BY <1>1, <1>5, <3>3
    <3>5. i + Stride(c[i]) \in Nat /\ i < BankWords
      BY <1>0, <3>4 DEF Live
    <3>6. walk[i + Stride(c[i])] # Reached(c, i + Stride(c[i]))
      <4> HIDE DEF walk
      <4> QED BY <1>2, <1>5, <3>3, <3>4
    <3>7. CASE i + Stride(c[i]) <= BankWords
      <4> DEFINE m == BankWords - (i + Stride(c[i]))
      <4>1. m \in Nat /\ (i + Stride(c[i])) + m = BankWords /\ m < k
        BY <1>0, <3>2, <3>3, <3>5, <3>7
      <4>2. m \in bad
        <5> HIDE DEF m, walk
        <5> QED BY <3>5, <3>6, <4>1 DEF bad
      <4> QED BY <3>1, <3>2, <4>1, <4>2
    <3>8. CASE ~(i + Stride(c[i]) <= BankWords)
      <4>1. ~Live(c, i + Stride(c[i]))
        BY <1>0, <3>5, <3>8 DEF Live
      <4> HIDE DEF walk
      <4> QED BY <1>1, <1>5, <3>5, <3>6, <4>1
    <3> QED BY <3>7, <3>8
  <2>2. ASSUME NEW i \in Nat PROVE walk[i] = Reached(c, i)
    <3>1. CASE i <= BankWords
      <4>1. BankWords - i \in Nat /\ i + (BankWords - i) = BankWords
        BY <1>0, <3>1
      <4> QED BY <2>1, <4>1
    <3>2. CASE ~(i <= BankWords)
      <4>1. ~Live(c, i)
        BY <1>0, <3>2 DEF Live
      <4> HIDE DEF walk
      <4> QED BY <1>1, <1>5, <4>1
    <3> QED BY <3>1, <3>2
  <2> QED BY <2>2
<1>7. Records(c) = walk[1]
  BY DEF Records
<1> HIDE DEF walk
<1> QED BY <1>6, <1>7

(* What the sizes of the objects and of the banks say of head words.       *)
LEMMA HeadFacts ==
  ASSUME NEW id \in Ids
  PROVE  /\ HeadOf(id) \in Words /\ HeadOf(id) # Free
         /\ IdOf(HeadOf(id)) = id /\ Valid(HeadOf(id))
         /\ SizeOf(HeadOf(id)) = ObjWords[id] /\ Stride(HeadOf(id)) = 1 + ObjWords[id]
         /\ ObjWords[id] \in 1..2
<1>1. /\ id \subseteq Bits /\ 0 \notin id /\ 1 \notin id /\ 0 \in Bits /\ 1 \in Bits
      /\ ObjWords[id] \in 1..MaxObjWords /\ MaxObjWords \in 1..2
  BY LayoutAssumption DEF SizeBits
<1>2. CASE ObjWords[id] = 1
  <2>1. HeadOf(id) = id \cup {0}
    BY <1>2 DEF HeadOf
  <2>2. SizeOf(HeadOf(id)) = 1
    BY <1>1, <2>1 DEF SizeOf
  <2>3. HeadOf(id) \in Words /\ HeadOf(id) # Free /\ IdOf(HeadOf(id)) = id
    BY <1>1, <2>1 DEF Words, Free, IdOf, SizeBits
  <2> QED BY <1>1, <1>2, <2>2, <2>3 DEF Stride, Valid
<1>3. CASE ObjWords[id] = 2
  <2>1. HeadOf(id) = id \cup {1}
    BY <1>3 DEF HeadOf
  <2>2. SizeOf(HeadOf(id)) = 2
    BY <1>1, <2>1 DEF SizeOf
  <2>3. HeadOf(id) \in Words /\ HeadOf(id) # Free /\ IdOf(HeadOf(id)) = id
    BY <1>1, <2>1 DEF Words, Free, IdOf, SizeBits
  <2> QED BY <1>1, <1>3, <2>2, <2>3 DEF Stride, Valid
<1>4. ObjWords[id] = 1 \/ ObjWords[id] = 2
  BY <1>1
<1> QED BY <1>2, <1>3, <1>4

(* A bank as saves leave it: records at R, one behind the other, up to e,  *)
(* and erased words from there on.                                         *)
Log(c, R, e) ==
  /\ c \in [Cells -> Words] /\ R \subseteq Cells /\ e \in 1 .. BankWords - 1
  /\ \A i \in R : \E id \in Ids : c[i] = HeadOf(id)
  /\ \A i \in R : i + Stride(c[i]) <= e /\ i + Stride(c[i]) \in R \cup {e}
  /\ \A i, k \in R : i < k => i + Stride(c[i]) <= k
  /\ \A k \in R \cup {e} : k = 1 \/ \E i \in R : k = i + Stride(c[i])
  /\ 1 \in R \cup {e}
  /\ \A i \in Cells : i >= e => c[i] = Free

(* A record of a log and where its object is.                              *)
LEMMA InLog ==
  ASSUME NEW c, NEW R, NEW e, Log(c, R, e), NEW i \in R
  PROVE  /\ i \in Cells /\ i \in Nat /\ Cell(c, i) = c[i] /\ Live(c, i)
         /\ i + 2 < BankWords /\ Stride(c[i]) \in 2..3
         /\ \E id \in Ids :
              /\ c[i] = HeadOf(id)
              /\ i + Stride(c[i]) = i + ObjWords[id] + 1 /\ i + ObjWords[id] + 1 <= e
              /\ \A j \in 1..ObjWords[id] : i + j \in Cells /\ Cell(c, i + j) = c[i + j]
<1>1. PICK id \in Ids : c[i] = HeadOf(id)
  BY DEF Log
<1>2. Stride(c[i]) = 1 + ObjWords[id] /\ c[i] # Free /\ ObjWords[id] \in 1..2
  BY <1>1, HeadFacts
<1>3. i \in Cells /\ e \in 1..BankWords - 1 /\ i + Stride(c[i]) <= e /\ BankWords \in Nat
  BY LayoutAssumption DEF Log
<1>4. i \in Nat /\ i + ObjWords[id] + 1 <= e /\ i + 2 < BankWords
      /\ i + Stride(c[i]) = i + ObjWords[id] + 1
  BY <1>2, <1>3 DEF Cells
<1>5. Cell(c, i) = c[i] /\ Live(c, i)
  BY <1>2, <1>3, <1>4 DEF Cell, Live
<1>6. ASSUME NEW j \in 1..ObjWords[id] PROVE i + j \in Cells /\ Cell(c, i + j) = c[i + j]
  <2>1. i + j \in Cells
    BY <1>2, <1>3, <1>4 DEF Cells
  <2> QED BY <2>1 DEF Cell
<1> QED BY <1>1, <1>2, <1>3, <1>4, <1>5, <1>6

(* The walk finds the records of a log.                                    *)
LEMMA LogRecords ==
  ASSUME NEW c, NEW R, NEW e, Log(c, R, e)
  PROVE  Records(c) = R
<1>1. Records(c) = Reached(c, 1)
  BY WalkEnds
<1>2. /\ R \subseteq Cells /\ e \in 1..BankWords - 1 /\ BankWords \in Nat
      /\ \A i \in Cells : i >= e => c[i] = Free
      /\ \A i \in R : i + Stride(c[i]) \in R \cup {e}
      /\ \A k \in R \cup {e} : k = 1 \/ \E i \in R : k = i + Stride(c[i])
      /\ 1 \in R \cup {e}
  BY LayoutAssumption DEF Log
<1>3. ~Live(c, e)
  BY <1>2 DEF Live, Cell, Cells
<1>4. R \cup {e} \in SUBSET Nat
  BY <1>2 DEF Cells
<1>5. Chain(c, R \cup {e})
  BY <1>2, <1>3 DEF Chain
<1>6. Reached(c, 1) \subseteq R
  BY <1>2, <1>3, <1>4, <1>5 DEF Reached
<1>7. ASSUME NEW j \in R PROVE j \in Reached(c, 1)
  <2>1. j \in Nat /\ Live(c, j)
    BY InLog
  <2> SUFFICES ASSUME NEW S \in SUBSET Nat, 1 \in S, Chain(c, S), j \notin S PROVE FALSE
    BY <2>1 DEF Reached
  <2> DEFINE bad == R \ S
  <2>2. PICK k \in bad : \A l \in bad : k <= l
    <3>1. bad \in SUBSET Nat /\ bad # {}
      BY <1>4
    <3> HIDE DEF bad
    <3> QED BY <3>1, LeastElement
  <2>3. PICK i \in R : k = i + Stride(c[i])
    BY <1>2, <2>2
  <2>4. Live(c, i) /\ i \in Nat /\ k \in Nat /\ Stride(c[i]) \in 2..3
    BY <2>2, InLog
  <2>5. i < k
    BY <2>3, <2>4
  <2>6. i \in S
    BY <2>2, <2>4, <2>5
  <2> QED BY <2>2, <2>3, <2>4, <2>6 DEF Chain
<1> QED BY <1>1, <1>6, <1>7

(* The greatest of some places, and 0 when there are none.                 *)
LEMMA MaxFacts ==
  ASSUME NEW S, S \subseteq Cells
  PROVE  /\ Max({0} \cup S) \in {0} \cup S
         /\ \A i \in S : i <= Max({0} \cup S)
         /\ S # {} => Max({0} \cup S) \in S
<1> DEFINE T == {0} \cup S
           down == {k \in Nat : \E i \in T : i + k = BankWords}
<1>0. BankWords \in Nat /\ \A i \in T : i \in Nat /\ i <= BankWords
  BY LayoutAssumption DEF Cells
<1>1. down \in SUBSET Nat /\ BankWords \in down
  BY <1>0
<1>2. PICK k \in down : \A l \in down : k <= l
  <2> HIDE DEF down
  <2> QED BY <1>1, LeastElement
<1>3. PICK i \in T : i + k = BankWords
  BY <1>2
<1>4. \A j \in T : i >= j
  <2> SUFFICES ASSUME NEW j \in T PROVE i >= j
    OBVIOUS
  <2>1. BankWords - j \in down
    BY <1>0
  <2>2. k <= BankWords - j /\ k \in Nat
    BY <1>1, <1>2, <2>1
  <2> QED BY <1>0, <1>3, <2>2
<1>5. Max(T) \in T /\ \A j \in T : Max(T) >= j
  <2> HIDE DEF T
  <2> QED BY <1>4 DEF Max
<1>6. \A j \in S : j \in Nat \ {0}
  BY <1>0 DEF Cells
<1> QED BY <1>0, <1>5, <1>6

Object(id) == [1 .. ObjWords[id] -> Words]

(* One word, as it is programmed.                                          *)
One(word) == [j \in {0} |-> word]

(* i is the last record of an object in a log, or 0.                       *)
LastOf(c, R, id, i) ==
  \/ i = 0 /\ \A k \in R : c[k] # HeadOf(id)
  \/ i \in R /\ c[i] = HeadOf(id) /\ \A k \in R : c[k] = HeadOf(id) => k <= i

LEMMA LastFound ==
  ASSUME NEW c, NEW R, NEW e, Log(c, R, e), NEW id \in Ids
  PROVE  /\ LastOf(c, R, id, get_addr_fobj(c, id))
         /\ \A i : LastOf(c, R, id, i) => get_addr_fobj(c, id) = i
<1> DEFINE F == {i \in R : c[i] = HeadOf(id)}
           m == Max({0} \cup F)
<1>1. {i \in Records(c) : Valid(c[i]) /\ IdOf(c[i]) = id} = F
  <2>1. Records(c) = R
    BY LogRecords
  <2>2. ASSUME NEW i \in R PROVE (Valid(c[i]) /\ IdOf(c[i]) = id) <=> c[i] = HeadOf(id)
    <3>1. PICK x \in Ids : c[i] = HeadOf(x)
      BY DEF Log
    <3>2. IdOf(HeadOf(x)) = x /\ Valid(HeadOf(x)) /\ IdOf(HeadOf(id)) = id
      BY HeadFacts
    <3> QED BY <3>1, <3>2
  <2> QED BY <2>1, <2>2
<1>2. get_addr_fobj(c, id) = m
  BY <1>1 DEF get_addr_fobj
<1>3. F \subseteq Cells /\ BankWords \in Nat /\ Cells = 1..BankWords - 1
  BY LayoutAssumption DEF Log, Cells
<1> HIDE DEF m
<1>4. m \in {0} \cup F /\ (\A i \in F : i <= m) /\ (F # {} => m \in F)
  <2> HIDE DEF F
  <2> QED BY <1>3, MaxFacts DEF m
<1>5. LastOf(c, R, id, m)
  BY <1>4 DEF LastOf
<1>6. ASSUME NEW i, LastOf(c, R, id, i) PROVE m = i
  <2>1. CASE F = {}
    BY <1>4, <1>6, <2>1 DEF LastOf
  <2>2. CASE F # {}
    <3>1. m \in F /\ i \in F /\ i <= m /\ m <= i
      BY <1>4, <1>6, <2>2 DEF LastOf
    <3> QED BY <1>3, <3>1
  <2> QED BY <2>1, <2>2
<1> QED BY <1>2, <1>5, <1>6

(* What a read of a log returns.                                           *)
LEMMA LogRead ==
  ASSUME NEW c, NEW R, NEW e, Log(c, R, e), NEW id \in Ids, NEW i, LastOf(c, R, id, i)
  PROVE  /\ i = 0 => ReadFrom(c, id) = <<>>
         /\ i # 0 => ReadFrom(c, id) = [j \in 1..ObjWords[id] |-> c[i + j]]
         /\ ReadFrom(c, id) \in Object(id) \cup {<<>>}
<1>1. get_addr_fobj(c, id) = i
  BY LastFound
<1>2. CASE i = 0
  BY <1>1, <1>2 DEF ReadFrom
<1>3. CASE i # 0
  <2>1. i \in R /\ c[i] = HeadOf(id)
    BY <1>3 DEF LastOf
  <2>2. PICK x \in Ids :
          /\ c[i] = HeadOf(x)
          /\ \A j \in 1..ObjWords[x] : i + j \in Cells /\ Cell(c, i + j) = c[i + j]
    BY <2>1, InLog
  <2>3. x = id /\ SizeOf(c[i]) = ObjWords[id]
    BY <2>1, <2>2, HeadFacts
  <2>4. ReadFrom(c, id) = [j \in 1..ObjWords[id] |-> Cell(c, i + j)]
    BY <1>1, <1>3, <2>3 DEF ReadFrom
  <2>5. [j \in 1..ObjWords[id] |-> Cell(c, i + j)] = [j \in 1..ObjWords[id] |-> c[i + j]]
    BY <2>2, <2>3
  <2>6. [j \in 1..ObjWords[id] |-> c[i + j]] \in Object(id)
    BY <2>2, <2>3 DEF Log, Object
  <2> QED BY <1>3, <2>4, <2>5, <2>6
<1> QED BY <1>2, <1>3

(* Two logs whose last records of an object hold the same.                 *)
LEMMA ReadAlike ==
  ASSUME NEW c, NEW R, NEW e, Log(c, R, e), NEW d, NEW Q, NEW f, Log(d, Q, f),
         NEW id \in Ids, NEW i, LastOf(c, R, id, i), NEW k, LastOf(d, Q, id, k),
         i = 0 <=> k = 0, i # 0 => \A j \in 1..ObjWords[id] : d[k + j] = c[i + j]
  PROVE  ReadFrom(d, id) = ReadFrom(c, id)
<1>1. CASE i = 0
  BY <1>1, LogRead
<1>2. CASE i # 0
  <2>1. ReadFrom(c, id) = [j \in 1..ObjWords[id] |-> c[i + j]]
    BY <1>2, LogRead
  <2>2. ReadFrom(d, id) = [j \in 1..ObjWords[id] |-> d[k + j]]
    BY <1>2, LogRead
  <2> QED BY <1>2, <2>1, <2>2
<1> QED BY <1>1, <1>2

(* Where a save appends to a log.                                          *)
LEMMA LogEnd ==
  ASSUME NEW c, NEW R, NEW e, Log(c, R, e), NEW n \in 1..2
  PROVE  get_addr_fobj_save(c, n) = IF e < BankWords - (1 + n) THEN e ELSE 0
<1> DEFINE last == Max({0} \cup R)
           end == IF last = 0 THEN 1 ELSE last + Stride(c[last])
<1>0. /\ BankWords \in Nat /\ R \subseteq Cells /\ e \in 1..BankWords - 1
      /\ 1 \in R \cup {e} /\ \A i \in R : i + Stride(c[i]) \in R \cup {e}
      /\ \A i \in Cells : i >= e => c[i] = Free
  BY LayoutAssumption DEF Log
<1>1. Records(c) = R
  BY LogRecords
<1>2. get_addr_fobj_save(c, n) = IF end < BankWords - (1 + n) /\ Cell(c, end) = Free THEN end ELSE 0
  BY <1>1 DEF get_addr_fobj_save
<1> HIDE DEF last
<1>3. last \in {0} \cup R /\ (\A i \in R : i <= last) /\ (R # {} => last \in R)
  BY <1>0, MaxFacts DEF last
<1>4. end = e
  <2>1. CASE R = {}
    BY <1>0, <1>3, <2>1
  <2>2. CASE R # {}
    <3>1. last \in R
      BY <1>3, <2>2
    <3>2. last \in Nat \ {0} /\ Stride(c[last]) \in 2..3
      BY <1>0, <3>1, InLog DEF Cells
    <3>3. last + Stride(c[last]) \notin R
      BY <1>3, <3>2
    <3> QED BY <1>0, <3>1, <3>2, <3>3
  <2> QED BY <2>1, <2>2
<1>5. Cell(c, e) = Free
  BY <1>0 DEF Cell
<1> HIDE DEF end
<1> QED BY <1>2, <1>4, <1>5

(* A log is a matter of its heads and of the words behind its end.         *)
LEMMA SameHeads ==
  ASSUME NEW c, NEW R, NEW e, Log(c, R, e), NEW d \in [Cells -> Words],
         \A k \in R : d[k] = c[k], \A k \in Cells : k >= e => d[k] = c[k]
  PROVE  Log(d, R, e) /\ \A id, i : LastOf(c, R, id, i) => LastOf(d, R, id, i)
BY DEF Log, LastOf

(* The log leaves room for an object.                                      *)
Room(e, id) == e < BankWords - (1 + ObjWords[id])

(* The log R of c, which ended at e, with the head of id behind it.        *)
Headed(c, R, e, id, d) ==
  /\ Log(d, R \cup {e}, e + 1 + ObjWords[id])
  /\ e \in Cells /\ e \notin R /\ d[e] = HeadOf(id)
  /\ \A j \in 1..ObjWords[id] : d[e + j] = Free
  /\ \A other \in Ids \ {id} : ReadFrom(d, other) = ReadFrom(c, other)

(* The head of a record is written behind the log.                         *)
LEMMA HeadAppended ==
  ASSUME NEW c, NEW R, NEW e, Log(c, R, e), NEW id \in Ids, Room(e, id),
         NEW d, d = Programmed(c, e, One(HeadOf(id)), 1)
  PROVE  Headed(c, R, e, id, d)
<1> DEFINE f == e + 1 + ObjWords[id]
           Q == R \cup {e}
<1>1. /\ c \in [Cells -> Words] /\ R \subseteq Cells /\ e \in 1..BankWords - 1 /\ BankWords \in Nat
      /\ \A i \in R : \E x \in Ids : c[i] = HeadOf(x)
      /\ \A i \in R : i + Stride(c[i]) <= e /\ i + Stride(c[i]) \in R \cup {e}
      /\ \A i, k \in R : i < k => i + Stride(c[i]) <= k
      /\ \A k \in R \cup {e} : k = 1 \/ \E i \in R : k = i + Stride(c[i])
      /\ 1 \in R \cup {e}
      /\ \A i \in Cells : i >= e => c[i] = Free
  BY LayoutAssumption DEF Log
<1>2. ObjWords[id] \in 1..2 /\ HeadOf(id) \in Words /\ Stride(HeadOf(id)) = 1 + ObjWords[id]
  BY HeadFacts
<1>3. e \in Cells /\ c[e] = Free /\ f \in 1..BankWords - 1 /\ f > e
  BY <1>1, <1>2 DEF Cells, Room
<1>4. \A i \in R : i \in Nat /\ Stride(c[i]) \in 2..3
  BY InLog
<1>5. e \notin R /\ \A i \in R : i < e
  BY <1>1, <1>4
<1>6. d = [c EXCEPT ![e] = HeadOf(id)]
  <2>1. d = [k \in Cells |-> IF k \in e..e + 1 - 1 THEN c[k] \cap [j \in {0} |-> HeadOf(id)][k - e] ELSE c[k]]
    BY DEF Programmed, One
  <2>2. \A k \in Cells : k \in e..e + 1 - 1 <=> k = e
    BY <1>1 DEF Cells
  <2>3. [j \in {0} |-> HeadOf(id)][e - e] = HeadOf(id) /\ Free \cap HeadOf(id) = HeadOf(id)
    BY <1>1, <1>2 DEF Free, Words
  <2>4. \A k \in Cells : d[k] = IF k = e THEN HeadOf(id) ELSE c[k]
    BY <1>3, <2>1, <2>2, <2>3
  <2>5. d = [k \in Cells |-> d[k]]
    BY <2>1
  <2> HIDE DEF f, Q
  <2> QED BY <1>1, <2>4, <2>5
<1>7. d \in [Cells -> Words] /\ d[e] = HeadOf(id) /\ \A k \in Cells : k # e => d[k] = c[k]
  BY <1>1, <1>2, <1>3, <1>6
<1>8. \A i \in R : d[i] = c[i]
  BY <1>1, <1>5, <1>7
<1>9. Log(d, Q, f)
  <2>1. Q \subseteq Cells
    BY <1>1, <1>3
  <2>2. \A i \in Q : \E x \in Ids : d[i] = HeadOf(x)
    BY <1>1, <1>7, <1>8
  <2>3. \A i \in R : i + Stride(d[i]) \in Nat /\ i + Stride(d[i]) <= e
    BY <1>1, <1>4, <1>8
  <2>4. e + Stride(d[e]) = f
    BY <1>1, <1>2, <1>7
  <2>5. \A i \in Q : i + Stride(d[i]) <= f /\ i + Stride(d[i]) \in Q \cup {f}
    <3>1. \A i \in R : i + Stride(d[i]) <= f
      <4> HIDE DEF f
      <4> QED BY <1>1, <1>3, <2>3
    <3>2. \A i \in R : i + Stride(d[i]) \in Q
      BY <1>1, <1>8
    <3>3. f <= f
      BY <1>3
    <3> HIDE DEF f
    <3> QED BY <2>4, <3>1, <3>2, <3>3
  <2>6. \A i, k \in Q : i < k => i + Stride(d[i]) <= k
    <3> SUFFICES ASSUME NEW i \in Q, NEW k \in Q, i < k PROVE i + Stride(d[i]) <= k
      OBVIOUS
    <3>1. i # e
      BY <1>1, <1>4, <1>5
    <3> QED BY <1>1, <1>8, <3>1
  <2>7. \A k \in Q \cup {f} : k = 1 \/ \E i \in Q : k = i + Stride(d[i])
    <3>1. \A k \in Q : k = 1 \/ \E i \in R : k = i + Stride(d[i])
      BY <1>1, <1>8
    <3> HIDE DEF f
    <3> QED BY <2>4, <3>1
  <2>8. \A i \in Cells : i >= f => d[i] = Free
    <3>1. \A i \in Cells : i >= f => i # e /\ i >= e
      BY <1>1, <1>2 DEF Cells
    <3> HIDE DEF f
    <3> QED BY <1>1, <1>7, <3>1
  <2> HIDE DEF f
  <2> QED BY <1>1, <1>3, <1>7, <2>1, <2>2, <2>5, <2>6, <2>7, <2>8 DEF Log
<1>10. \A j \in 1..ObjWords[id] : d[e + j] = Free
  <2> SUFFICES ASSUME NEW j \in 1..ObjWords[id] PROVE d[e + j] = Free
    OBVIOUS
  <2>1. e + j \in Cells /\ e + j # e /\ e + j >= e
    BY <1>1, <1>2 DEF Cells, Room
  <2> QED BY <1>1, <1>7, <2>1
<1>11. ASSUME NEW other \in Ids \ {id} PROVE ReadFrom(d, other) = ReadFrom(c, other)
  <2>1. PICK i : LastOf(c, R, other, i)
    BY LastFound
  <2>2. HeadOf(other) # HeadOf(id)
    BY HeadFacts
  <2>3. LastOf(d, Q, other, i)
    BY <1>7, <1>8, <2>1, <2>2 DEF LastOf
  <2>4. i # 0 => \A j \in 1..ObjWords[other] : d[i + j] = c[i + j]
    <3> SUFFICES ASSUME i # 0, NEW j \in 1..ObjWords[other] PROVE d[i + j] = c[i + j]
      OBVIOUS
    <3>1. i \in R /\ c[i] = HeadOf(other)
      BY <2>1 DEF LastOf
    <3>2. PICK x \in Ids : c[i] = HeadOf(x) /\ i + ObjWords[x] + 1 <= e
                           /\ \A l \in 1..ObjWords[x] : i + l \in Cells
      BY <3>1, InLog
    <3>3. x = other
      BY <3>1, <3>2, HeadFacts
    <3>4. i + j \in Cells /\ i + j # e
      <4>1. ObjWords[other] \in 1..2 /\ i \in Nat
        BY <3>1, HeadFacts, InLog
      <4> QED BY <1>1, <3>2, <3>3, <4>1
    <3> QED BY <1>7, <3>4
  <2> HIDE DEF f, Q
  <2> QED BY <1>9, <2>1, <2>3, <2>4, ReadAlike
<1> HIDE DEF f
<1>12. Log(d, R \cup {e}, e + 1 + ObjWords[id])
  BY <1>9 DEF f, Q
<1> QED BY <1>3, <1>5, <1>7, <1>10, <1>11, <1>12 DEF Headed

(* A word of data is written into the record of an object.                 *)
LEMMA DataWritten ==
  ASSUME NEW c, NEW R, NEW e, Log(c, R, e), NEW id \in Ids, NEW i \in R, c[i] = HeadOf(id),
         NEW p \in i + 1 .. i + ObjWords[id], c[p] = Free, NEW w \in Words,
         NEW d, d = Programmed(c, p, One(w), 1)
  PROVE  /\ Log(d, R, e) /\ p \in Cells /\ p # i /\ d[p] = w
         /\ \A k \in Cells : k # p => d[k] = c[k]
         /\ \A other \in Ids \ {id} : ReadFrom(d, other) = ReadFrom(c, other)
<1>1. /\ c \in [Cells -> Words] /\ R \subseteq Cells /\ e \in 1..BankWords - 1 /\ BankWords \in Nat
      /\ \A k, l \in R : k < l => k + Stride(c[k]) <= l
  BY LayoutAssumption DEF Log
<1>2. ObjWords[id] \in 1..2 /\ Stride(c[i]) = 1 + ObjWords[id]
  BY HeadFacts
<1>3. i \in Nat /\ i + ObjWords[id] + 1 <= e
  BY <1>2, InLog, HeadFacts
<1>4. p \in Cells /\ p \in Nat /\ p # i /\ p < e
  BY <1>1, <1>2, <1>3 DEF Cells
<1>5. p \notin R
  BY <1>1, <1>2, <1>3, <1>4
<1>6. d = [c EXCEPT ![p] = w]
  <2>1. d = [k \in Cells |-> IF k \in p..p + 1 - 1 THEN c[k] \cap [j \in {0} |-> w][k - p] ELSE c[k]]
    BY DEF Programmed, One
  <2>2. \A k \in Cells : k \in p..p + 1 - 1 <=> k = p
    BY <1>1, <1>4 DEF Cells
  <2>3. [j \in {0} |-> w][p - p] = w /\ Free \cap w = w
    BY <1>4 DEF Free, Words
  <2>4. \A k \in Cells : d[k] = IF k = p THEN w ELSE c[k]
    BY <1>4, <2>1, <2>2, <2>3
  <2>5. d = [k \in Cells |-> d[k]]
    BY <2>1
  <2> QED BY <1>1, <2>4, <2>5
<1>7. d \in [Cells -> Words] /\ d[p] = w /\ \A k \in Cells : k # p => d[k] = c[k]
  BY <1>1, <1>4, <1>6
<1>8. (\A k \in R : d[k] = c[k]) /\ \A k \in Cells : k >= e => d[k] = c[k]
  BY <1>1, <1>4, <1>5, <1>7
<1>9. Log(d, R, e) /\ \A x, k : LastOf(c, R, x, k) => LastOf(d, R, x, k)
  BY <1>7, <1>8, SameHeads
<1>10. ASSUME NEW other \in Ids \ {id} PROVE ReadFrom(d, other) = ReadFrom(c, other)
  <2>1. PICK k : LastOf(c, R, other, k)
    BY LastFound
  <2>2. k # 0 => \A j \in 1..ObjWords[other] : d[k + j] = c[k + j]
    <3> SUFFICES ASSUME k # 0, NEW j \in 1..ObjWords[other] PROVE d[k + j] = c[k + j]
      OBVIOUS
    <3>1. k \in R /\ c[k] = HeadOf(other)
      BY <2>1 DEF LastOf
    <3>2. PICK x \in Ids : /\ c[k] = HeadOf(x)
                           /\ \A l \in 1..ObjWords[x] : k + l \in Cells
      BY <3>1, InLog
    <3>3. x = other /\ k # i /\ ObjWords[other] \in 1..2 /\ Stride(c[k]) = 1 + ObjWords[other]
          /\ k \in Nat
      <4>1. x = other
        BY <3>1, <3>2, HeadFacts
      <4>2. k # i
        BY <3>1, HeadFacts
      <4>3. ObjWords[other] \in 1..2 /\ Stride(c[k]) = 1 + ObjWords[other]
        BY <3>1, HeadFacts
      <4>4. k \in Nat
        BY <3>1, InLog
      <4> QED BY <4>1, <4>2, <4>3, <4>4
    <3>4. k + j # p
      <4>1. CASE k < i
        BY <1>1, <1>3, <3>1, <3>3, <4>1
      <4>2. CASE i < k
        BY <1>1, <1>2, <1>3, <3>1, <3>3, <4>2
      <4> QED BY <1>3, <3>3, <4>1, <4>2
    <3> QED BY <1>7, <3>2, <3>3, <3>4
  <2> QED BY <1>9, <2>1, <2>2, ReadAlike
<1> QED BY <1>4, <1>7, <1>9, <1>10

Blank == [k \in Cells |-> Free]

LEMMA BlankLog ==
  /\ Log(Blank, {}, 1)
  /\ \A id \in Ids : ReadFrom(Blank, id) = <<>>
<1>1. Log(Blank, {}, 1)
  BY LayoutAssumption DEF Log, Blank, Cells, Words, Free
<1>2. \A id : LastOf(Blank, {}, id, 0)
  BY DEF LastOf
<1> QED BY <1>1, <1>2, LogRead

(* A bank with one record.                                                 *)
Single(new, x) ==
  /\ Log(new, {1}, 2 + ObjWords[x]) /\ new[1] = HeadOf(x)

LEMMA SingleFacts ==
  ASSUME NEW new, NEW x \in Ids, Single(new, x)
  PROVE  /\ get_addr_fobj(new, x) = 1
         /\ \A y \in Ids \ {x} : ReadFrom(new, y) = <<>>
<1>1. LastOf(new, {1}, x, 1)
  BY DEF Single, LastOf
<1>2. \A y \in Ids \ {x} : LastOf(new, {1}, y, 0)
  BY HeadFacts DEF Single, LastOf
<1> QED BY <1>1, <1>2, LastFound, LogRead DEF Single

(* The last record of an object is copied to an erased bank.               *)
LEMMA OneCarried ==
  ASSUME NEW old, NEW R, NEW e, Log(old, R, e), NEW x \in Ids, NEW k \in R, old[k] = HeadOf(x),
         NEW new, new = Programmed(Blank, wraddr,
                          [j \in 0 .. Stride(HeadOf(x)) - 1 |-> Cell(old, get_addr_fobj(old, x) + j)],
                          Stride(HeadOf(x)))
  PROVE  Single(new, x) /\ ReadFrom(new, x) = ReadFrom(old, x)
<1> DEFINE n == ObjWords[x]
           i == get_addr_fobj(old, x)
<1>1. n \in 1..2 /\ Stride(HeadOf(x)) = 1 + n /\ HeadOf(x) \in Words
  BY HeadFacts
<1>2. LastOf(old, R, x, i)
  BY LastFound
<1>3. k \in Nat \ {0} /\ old \in [Cells -> Words] /\ BankWords \in Nat /\ R \subseteq Cells
      /\ e \in 1..BankWords - 1
  BY InLog, LayoutAssumption DEF Log, Cells
<1> HIDE DEF i
<1>4. i \in R /\ old[i] = HeadOf(x) /\ i # 0
  BY <1>2, <1>3 DEF LastOf, Cells
<1>5. /\ i \in Nat \ {0} /\ i \in Cells /\ i + n + 1 <= e
      /\ Cell(old, i) = old[i]
      /\ \A j \in 1..n : i + j \in Cells /\ Cell(old, i + j) = old[i + j]
  <2>1. PICK y \in Ids :
          /\ old[i] = HeadOf(y) /\ i + ObjWords[y] + 1 <= e
          /\ \A j \in 1..ObjWords[y] : i + j \in Cells /\ Cell(old, i + j) = old[i + j]
    BY <1>4, InLog
  <2>2. y = x
    BY <1>4, <2>1, HeadFacts
  <2> QED BY <1>4, <2>1, <2>2, InLog
<1>6. new = [j \in Cells |-> IF j \in 1..1 + n THEN old[i + (j - 1)] ELSE Free]
  <2>1. new = [j \in Cells |->
               IF j \in 1..1 + (1 + n) - 1
               THEN Blank[j] \cap [l \in 0..(1 + n) - 1 |-> Cell(old, i + l)][j - 1] ELSE Blank[j]]
    BY <1>1 DEF Programmed, wraddr, i
  <2>2. ASSUME NEW j \in Cells
        PROVE  new[j] = IF j \in 1..1 + n THEN old[i + (j - 1)] ELSE Free
    <3>1. CASE j \in 1..1 + n
      <4>1. j - 1 \in 0..(1 + n) - 1 /\ j \in 1..1 + (1 + n) - 1 /\ (j - 1 = 0 \/ j - 1 \in 1..n)
        BY <1>1, <3>1
      <4>2. i + (j - 1) \in Cells /\ Cell(old, i + (j - 1)) = old[i + (j - 1)]
        BY <1>5, <4>1
      <4>3. new[j] = Blank[j] \cap Cell(old, i + (j - 1))
        BY <2>1, <4>1
      <4>4. Blank[j] = Bits /\ old[i + (j - 1)] \subseteq Bits
        BY <1>3, <4>2 DEF Blank, Free, Words
      <4> QED BY <3>1, <4>2, <4>3, <4>4
    <3>2. CASE j \notin 1..1 + n
      <4>1. j \notin 1..1 + (1 + n) - 1
        BY <1>1, <3>2
      <4>2. new[j] = Blank[j]
        BY <2>1, <4>1
      <4> QED BY <3>2, <4>2 DEF Blank
    <3> QED BY <3>1, <3>2
  <2>3. new = [j \in Cells |-> new[j]]
    BY <2>1
  <2> HIDE DEF n
  <2> QED BY <2>2, <2>3
<1>7. 1 \in Cells /\ 2 + n \in 1..BankWords - 1
  BY <1>1, <1>3, <1>5 DEF Cells
<1>8. new[1] = HeadOf(x) /\ new \in [Cells -> Words]
  <2>1. new[1] = old[i + (1 - 1)]
    BY <1>1, <1>6, <1>7
  <2>2. ASSUME NEW j \in Cells PROVE new[j] \in Words
    <3>1. CASE j \in 1..1 + n
      <4>1. i + (j - 1) \in Cells
        BY <1>1, <1>5, <3>1
      <4> QED BY <1>3, <1>6, <3>1, <4>1
    <3>2. CASE j \notin 1..1 + n
      BY <1>6, <3>2 DEF Words, Free
    <3> QED BY <3>1, <3>2
  <2>3. new = [j \in Cells |-> new[j]]
    BY <1>6
  <2> HIDE DEF n
  <2> QED BY <1>4, <1>5, <2>1, <2>2, <2>3
<1>9. Log(new, {1}, 2 + n)
  <2>1. 1 + Stride(new[1]) = 2 + n
    BY <1>1, <1>8
  <2>2. \A j \in Cells : j >= 2 + n => new[j] = Free
    <3>1. \A j \in Cells : j >= 2 + n => j \notin 1..1 + n
      BY <1>1 DEF Cells
    <3> HIDE DEF n
    <3> QED BY <1>6, <3>1
  <2>3. 2 + n <= 2 + n
    BY <1>1
  <2> DEFINE e1 == 2 + n
  <2>4. e1 \in 1..BankWords - 1 /\ 1 + Stride(new[1]) = e1 /\ e1 <= e1
        /\ \A j \in Cells : j >= e1 => new[j] = Free
    BY <1>7, <2>1, <2>2, <2>3
  <2> HIDE DEF n, e1
  <2>5. \A i1 \in {1} : i1 + Stride(new[i1]) <= e1 /\ i1 + Stride(new[i1]) \in {1} \cup {e1}
    BY <2>4
  <2>6. \A i1, k1 \in {1} : i1 < k1 => i1 + Stride(new[i1]) <= k1
    OBVIOUS
  <2>7. \A k1 \in {1} \cup {e1} : k1 = 1 \/ \E i1 \in {1} : k1 = i1 + Stride(new[i1])
    BY <2>4
  <2>8. Log(new, {1}, e1)
    BY <1>7, <1>8, <2>4, <2>5, <2>6, <2>7 DEF Log
  <2> QED BY <2>8 DEF e1
<1>10. Single(new, x)
  BY <1>8, <1>9 DEF Single
<1>11. ReadFrom(new, x) = ReadFrom(old, x)
  <2>1. LastOf(new, {1}, x, 1)
    BY <1>8 DEF LastOf
  <2>2. \A j \in 1..n : new[1 + j] = old[i + j]
    <3> SUFFICES ASSUME NEW j \in 1..n PROVE new[1 + j] = old[i + j]
      OBVIOUS
    <3>1. 1 + j \in Cells /\ 1 + j \in 1..1 + n /\ i + ((1 + j) - 1) = i + j
      BY <1>1, <1>3, <1>5 DEF Cells
    <3> HIDE DEF n
    <3> QED BY <1>6, <3>1
  <2> QED BY <1>2, <1>4, <1>9, <2>1, <2>2, ReadAlike
<1> QED BY <1>10, <1>11

(* There is always one bank that a boot takes for the current one.         *)
LEMMA OneCurrent ==
  ASSUME NEW h \in [BankSet -> 0 .. Top]
  PROVE  /\ \E b \in BankSet : IsCurrent(h, b)
         /\ \A b, d \in BankSet : IsCurrent(h, b) /\ IsCurrent(h, d) => b = d
<1> USE BanksAssumption, TopAssumption DEF BankSet
<1> DEFINE H == {h[b] : b \in BankSet}
<1>1. PICK l \in H : \A m \in H : l <= m
  <2>1. H \in SUBSET Nat /\ H # {}
    <3>1. 0 \in BankSet
      OBVIOUS
    <3> QED BY <3>1
  <2> HIDE DEF H
  <2> QED BY <2>1, LeastElement
<1> DEFINE B == {b \in BankSet : h[b] = l}
<1>2. PICK b \in B : \A d \in B : b <= d
  <2>1. B \in SUBSET Nat /\ B # {}
    BY <1>1
  <2> HIDE DEF B, H
  <2> QED BY <2>1, LeastElement
<1>3. IsCurrent(h, b)
  <2> SUFFICES ASSUME NEW o \in BankSet
               PROVE  h[b] < h[o] \/ (h[b] = h[o] /\ b <= o)
    BY DEF IsCurrent
  <2>1. h[b] <= h[o] /\ h[b] \in Nat /\ h[o] \in Nat /\ h[b] = l
    BY <1>1, <1>2
  <2> QED BY <1>2, <2>1
<1>4. b \in BankSet
  BY <1>2
<1>5. ASSUME NEW u \in BankSet, NEW d \in BankSet, IsCurrent(h, u), IsCurrent(h, d)
      PROVE  u = d
  BY <1>5 DEF IsCurrent
<1> QED BY <1>3, <1>4, <1>5

IsLog(c) == \E e \in 1 .. BankWords - 1 : Log(c, Records(c), e)

(* Packing so far, for a save of id: the bank being filled is erased, or   *)
(* holds the one other object there is.                                    *)
Copying(id) ==
  LET old == cells[cur]
      new == cells[bank]
      R   == Records(old)
  IN \E e \in 1 .. BankWords - 1 :
       /\ Log(old, R, e) /\ at \in R \cup {e}
       /\ \/ new = Blank /\ \A i \in R : i < at => old[i] = HeadOf(id)
          \/ \E x \in Ids \ {id} :
               /\ \E i \in R : old[i] = HeadOf(x)
               /\ Single(new, x) /\ ReadFrom(new, x) = ReadFrom(old, x)

(* A record that is to be written fits behind those in the bank.           *)
Appending(id) ==
  Log(cells[bank], Records(cells[bank]), at) /\ at < BankWords - (1 + ObjWords[id])

(* A record being written is the last one, and its other words are erased. *)
Filling(id, v) ==
  LET c == cells[bank] IN
  /\ IsLog(c) /\ at \in Records(c) /\ c[at] = HeadOf(id)
  /\ \A k \in Records(c) : k <= at
  /\ done < ObjWords[id]
  /\ \A j \in 1..done : c[at + j] = v[j]
  /\ \A j \in done + 1 .. ObjWords[id] : c[at + j] = Free

(* The inductive invariant of the contents.                                *)
SInv ==
  /\ IInv
  /\ pc = "idle" <=> req = {}
  /\ strayed => pc = "idle"
  /\ \A b \in BankSet : IsCurrent(hdr, b) => IsLog(cells[b])
  /\ pc # "data" => done = 0
  /\ pc \in {"pack", "erase"} => at = 1
  /\ pc = "copy" => \A r \in req : Copying(r[1])
  /\ pc = "head" => \A r \in req : Appending(r[1])
  /\ pc = "data" => \A r \in req : Filling(r[1], r[2])

(* A pack has at most one object to carry over.                            *)
FewToCarry ==
  pc = "copy" =>
    LET old == cells[cur] IN
    \A r \in req : \A i, k \in Records(old) :
      (IdOf(old[i]) # r[1] /\ IdOf(old[k]) # r[1]) => IdOf(old[i]) = IdOf(old[k])

LEMMA LogIsLog ==
  ASSUME NEW c, NEW R, NEW e, Log(c, R, e)
  PROVE  IsLog(c) /\ R = Records(c)
<1>1. Records(c) = R
  BY LogRecords
<1> QED BY <1>1 DEF IsLog, Log

LEMMA IsLogFacts ==
  ASSUME NEW c, IsLog(c), NEW id \in Ids
  PROVE  /\ \E e \in 1 .. BankWords - 1 : Log(c, Records(c), e)
         /\ ReadFrom(c, id) \in Object(id) \cup {<<>>}
<1>1. PICK e \in 1 .. BankWords - 1 : Log(c, Records(c), e)
  BY DEF IsLog
<1>2. LastOf(c, Records(c), id, get_addr_fobj(c, id))
  BY <1>1, LastFound
<1> QED BY <1>1, <1>2, LogRead

(* The bank of the abstract store.                                         *)
LEMMA TheCurrent ==
  ASSUME TypeOK
  PROVE  /\ CurrentBank \in BankSet /\ IsCurrent(hdr, CurrentBank)
         /\ \A b \in BankSet : IsCurrent(hdr, b) => b = CurrentBank
<1>1. hdr \in [BankSet -> 0 .. Top]
  BY DEF TypeOK
<1> QED BY <1>1, OneCurrent DEF CurrentBank

(* No object reads differently.                                            *)
Alike == \A id \in Ids : ReadFrom(cells'[CurrentBank'], id) = ReadFrom(cells[CurrentBank], id)

(* Only one may.                                                           *)
AlikeBut(id) ==
  /\ ReadFrom(cells'[CurrentBank'], id) \in Object(id) \cup {<<>>}
  /\ \A other \in Ids \ {id} :
       ReadFrom(cells'[CurrentBank'], other) = ReadFrom(cells[CurrentBank], other)

LEMMA AlikeIsSame ==
  ASSUME Alike
  PROVE  [id \in Ids |-> ReadFrom(cells[CurrentBank], id)]' = [id \in Ids |-> ReadFrom(cells[CurrentBank], id)]
BY DEF Alike

LEMMA ButIsDisturbed ==
  ASSUME NEW id \in Ids, AlikeBut(id)
  PROVE  Store!Disturbed(id)
<1> DEFINE s == [x \in Ids |-> ReadFrom(cells[CurrentBank], x)]
           t == [x \in Ids |-> ReadFrom(cells'[CurrentBank'], x)]
           C == UNION {[1 .. ObjWords[x] -> Words] : x \in Ids}
<1>1. t[id] \in C \cup {<<>>}
  BY DEF AlikeBut, Object
<1>2. \A other \in Ids \ {id} : t[other] = s[other]
  BY DEF AlikeBut
<1>3. s' = t
  OBVIOUS
<1>4. (s')[id] \in C \cup {<<>>} /\ \A other \in Ids \ {id} : (s')[other] = s[other]
  <2> HIDE DEF s, t, C
  <2> QED BY <1>1, <1>2, <1>3
<1> QED BY <1>4 DEF Store!Disturbed

(* The steps of the abstract store.                                        *)
LEMMA Stutters ==
  ASSUME Alike, req' = req, result' = result, strayed' = strayed
  PROVE  UNCHANGED Store!vars
BY AlikeIsSame DEF Store!vars

LEMMA Starts ==
  ASSUME Alike, req = {}, NEW id \in Ids, NEW value \in Values[id],
         req' = {<<id, value>>}, result' = "none", ~strayed'
  PROVE  Store!Begin
<1>1. value \in [1 .. ObjWords[id] -> Words]
  BY LayoutAssumption
<1>2. value \in UNION {[1 .. ObjWords[x] -> Words] : x \in Ids}
  BY <1>1
<1> QED BY <1>2, AlikeIsSame DEF Store!Begin

LEMMA Sames ==
  ASSUME Alike, req = {}, req' = {}, result' = "ok", ~strayed'
  PROVE  Store!Same
BY AlikeIsSame DEF Store!Same

LEMMA Progresses ==
  ASSUME NEW id \in Ids, NEW v, req = {<<id, v>>}, AlikeBut(id), req' = req, result' = result,
         strayed' = strayed
  PROVE  Store!Progress
<1>1. Store!Disturbed(<<id, v>>[1])
  BY ButIsDisturbed
<1> QED BY <1>1 DEF Store!Progress

LEMMA Finishes ==
  ASSUME NEW id \in Ids, NEW v, req = {<<id, v>>}, AlikeBut(id), req' = {}, result' = "ok",
         ~strayed', ReadFrom(cells'[CurrentBank'], id) = v
  PROVE  Store!Finish
<1>1. Store!Disturbed(<<id, v>>[1])
  BY ButIsDisturbed
<1>2. [x \in Ids |-> ReadFrom(cells'[CurrentBank'], x)][<<id, v>>[1]] = <<id, v>>[2]
  OBVIOUS
<1> QED BY <1>1, <1>2 DEF Store!Finish

LEMMA Abandons ==
  ASSUME NEW id \in Ids, NEW v, req = {<<id, v>>}, AlikeBut(id), req' = {},
         strayed' \/ result' \in {"none", "fail"}
  PROVE  Store!Abandon
<1>1. Store!Disturbed(<<id, v>>[1])
  BY ButIsDisturbed
<1> QED BY <1>1 DEF Store!Abandon

LEMMA NextCurrent ==
  ASSUME TypeOK'
  PROVE  /\ CurrentBank' \in BankSet /\ IsCurrent(hdr', CurrentBank')
         /\ \A b \in BankSet : IsCurrent(hdr', b) => b = CurrentBank'
<1>1. hdr' \in [BankSet -> 0 .. Top]
  BY DEF TypeOK
<1> QED BY <1>1, OneCurrent DEF CurrentBank

(* What holds of the bank of the store.                                    *)
LEMMA CurrentLog ==
  ASSUME SInv
  PROVE  /\ CurrentBank \in BankSet /\ IsCurrent(hdr, CurrentBank)
         /\ \A b \in BankSet : IsCurrent(hdr, b) => b = CurrentBank
         /\ IsLog(cells[CurrentBank])
         /\ \A id \in Ids : ReadFrom(cells[CurrentBank], id) \in Object(id) \cup {<<>>}
<1>1. TypeOK
  BY DEF SInv, IInv
<1>2. IsLog(cells[CurrentBank])
  BY <1>1, TheCurrent DEF SInv
<1> QED BY <1>1, <1>2, TheCurrent, IsLogFacts

(* The save under way.                                                     *)
LEMMA TheRequest ==
  ASSUME SInv, pc # "idle"
  PROVE  \E id \in Ids : \E v \in Values[id] : req = {<<id, v>>} /\ ~strayed
<1>1. PICK r \in Requests : req = {r}
  BY DEF SInv, IInv, TypeOK
<1>2. PICK id \in Ids : \E v \in Values[id] : r = <<id, v>>
  BY <1>1 DEF Requests
<1> QED BY <1>1, <1>2 DEF SInv

(* Formatting changes nothing that is read.                                *)
LEMMA FormattedCurrent ==
  ASSUME TypeOK, NEW b \in BankSet, IsCurrent(Formatted(hdr), b)
  PROVE  IsCurrent(hdr, b)
<1> USE BanksAssumption, TopAssumption DEF BankSet
<1>1. hdr \in [BankSet -> 0 .. Top]
  BY DEF TypeOK
<1>2. CASE \A x \in BankSet : hdr[x] = Top
  <2>1. Formatted(hdr) = [hdr EXCEPT ![0] = Top - 1]
    BY <1>2 DEF Formatted
  <2>2. 0 \in BankSet
    OBVIOUS
  <2>3. b = 0
    BY <1>1, <1>2, <2>1, <2>2 DEF IsCurrent
  <2> QED BY <1>1, <1>2, <2>3 DEF IsCurrent
<1>3. CASE ~\A x \in BankSet : hdr[x] = Top
  BY <1>3 DEF Formatted
<1> QED BY <1>2, <1>3

(* A step that leaves the current bank current.                            *)
LEMMA SameBank ==
  ASSUME SInv, IInv', NEW b \in BankSet, IsCurrent(hdr, b), IsCurrent(hdr', b)
  PROVE  /\ b = CurrentBank /\ b = CurrentBank'
         /\ cells'[b] = cells[b] => Alike /\ \A id \in Ids : AlikeBut(id)
         /\ IsLog(cells'[b]) => \A d \in BankSet : IsCurrent(hdr', d) => IsLog(cells'[d])
<1>1. TypeOK'
  BY DEF IInv
<1>2. b = CurrentBank /\ b = CurrentBank'
  BY <1>1, CurrentLog, NextCurrent
<1>3. ASSUME cells'[b] = cells[b] PROVE Alike /\ \A id \in Ids : AlikeBut(id)
  <2>1. cells'[CurrentBank'] = cells[CurrentBank]
    BY <1>2, <1>3
  <2> QED BY <2>1, CurrentLog DEF Alike, AlikeBut
<1>4. \A d \in BankSet : IsCurrent(hdr', d) => d = b
  BY <1>1, <1>2, NextCurrent
<1> QED BY <1>2, <1>3, <1>4

LEMMA ReadStores ==
  ASSUME SInv, IInv', flash_read_cfg
  PROVE  SInv' /\ UNCHANGED Store!vars
<1>1. /\ hdr' = Formatted(hdr) /\ pc = "idle"
      /\ UNCHANGED <<cells, pc, req, cur, bank, at, done, result, strayed>>
  BY DEF flash_read_cfg
<1>2. CurrentBank' \in BankSet /\ IsCurrent(hdr', CurrentBank')
  BY NextCurrent DEF IInv
<1>3. IsCurrent(hdr, CurrentBank')
  BY <1>1, <1>2, FormattedCurrent DEF SInv, IInv
<1>4. IsLog(cells'[CurrentBank'])
  BY <1>1, <1>2, <1>3 DEF SInv
<1>5. Alike /\ \A d \in BankSet : IsCurrent(hdr', d) => IsLog(cells'[d])
  BY <1>1, <1>2, <1>3, <1>4, SameBank
<1>6. UNCHANGED Store!vars
  BY <1>1, <1>5, Stutters
<1>7. SInv'
  BY <1>1, <1>5 DEF SInv
<1> QED BY <1>6, <1>7

LEMMA WriteStores ==
  ASSUME SInv, IInv', NEW id \in Ids, NEW value \in Values[id], flash_write_cfg(id, value)
  PROVE  SInv' /\ Store!Next
<1> DEFINE n == ObjWords[id]
<1>1. PICK b \in BankSet :
        /\ IsCurrent(hdr', b)
        /\ \/ Return("ok")
           \/ /\ req' = {<<id, value>>} /\ cur' = b /\ done' = 0 /\ result' = "none"
              /\ \/ /\ pc' = "head" /\ bank' = b /\ at' = get_addr_fobj_save(cells[b], n)
                    /\ get_addr_fobj_save(cells[b], n) \in Cells
                 \/ pc' = "pack" /\ at' = 1
  BY DEF flash_write_cfg
<1>2. hdr' = Formatted(hdr) /\ cells' = cells /\ strayed' = FALSE /\ pc = "idle" /\ req = {}
  BY DEF flash_write_cfg, SInv
<1>3. IsCurrent(hdr, b)
  BY <1>1, <1>2, FormattedCurrent DEF SInv, IInv
<1>4. IsLog(cells[b])
  BY <1>3 DEF SInv
<1>5. Alike /\ \A d \in BankSet : IsCurrent(hdr', d) => IsLog(cells'[d])
  BY <1>1, <1>2, <1>3, <1>4, SameBank
<1>6. CASE Return("ok")
  <2>1. pc' = "idle" /\ req' = {} /\ result' = "ok" /\ done' = 0
    BY <1>6 DEF Return
  <2>2. Store!Same
    BY <1>2, <1>5, <2>1, Sames
  <2> QED BY <1>2, <1>5, <2>1, <2>2 DEF SInv, Store!Next
<1>7. ASSUME req' = {<<id, value>>}, result' = "none" PROVE Store!Next
  <2>1. Store!Begin
    BY <1>2, <1>5, <1>7, Starts
  <2> QED BY <2>1 DEF Store!Next
<1>8. CASE /\ req' = {<<id, value>>} /\ cur' = b /\ done' = 0 /\ result' = "none"
           /\ pc' = "head" /\ bank' = b /\ at' = get_addr_fobj_save(cells[b], n)
           /\ get_addr_fobj_save(cells[b], n) \in Cells
  <2>1. PICK e \in 1 .. BankWords - 1 : Log(cells[b], Records(cells[b]), e)
    BY <1>4 DEF IsLog
  <2>2. n \in 1..2 /\ 0 \notin Cells
    BY HeadFacts DEF Cells
  <2>3. at' = e /\ e < BankWords - (1 + n)
    <3> HIDE DEF n
    <3> QED BY <1>8, <2>1, <2>2, LogEnd
  <2>4. Appending(id)'
    BY <1>2, <1>8, <2>1, <2>3 DEF Appending
  <2>5. \A r \in req' : Appending(r[1])'
    BY <1>8, <2>4 DEF Appending
  <2>6. req' # {} /\ pc' = "head" /\ ~strayed' /\ done' = 0
    BY <1>2, <1>8
  <2>7. SInv'
    BY <1>2, <1>5, <2>5, <2>6 DEF SInv
  <2> QED BY <1>7, <1>8, <2>7
<1>9. CASE /\ req' = {<<id, value>>} /\ cur' = b /\ done' = 0 /\ result' = "none"
           /\ pc' = "pack" /\ at' = 1
  <2>1. SInv'
    BY <1>2, <1>5, <1>9 DEF SInv
  <2> QED BY <1>7, <1>9, <2>1
<1> QED BY <1>1, <1>6, <1>8, <1>9

(* A call that gives up, or that a power loss ends, leaves what is read.   *)
LEMMA GivenUp ==
  ASSUME SInv, IInv', PackNoMemory \/ PowerLoss
  PROVE  SInv' /\ Store!Next
<1>1. pc # "idle" /\ hdr' = hdr /\ cells' = cells /\ pc' = "idle" /\ req' = {} /\ done' = 0
      /\ (strayed' \/ result' \in {"none", "fail"})
  BY DEF PackNoMemory, PowerLoss, Return, flash
<1>2. PICK id \in Ids : \E v \in Values[id] : req = {<<id, v>>} /\ ~strayed
  BY <1>1, TheRequest
<1>3. IsLog(cells[CurrentBank]) /\ CurrentBank \in BankSet /\ IsCurrent(hdr, CurrentBank)
  BY CurrentLog
<1>4. AlikeBut(id) /\ \A d \in BankSet : IsCurrent(hdr', d) => IsLog(cells'[d])
  BY <1>1, <1>3, SameBank
<1>5. Store!Abandon
  BY <1>1, <1>2, <1>4, Abandons
<1>6. SInv'
  BY <1>1, <1>4 DEF SInv
<1> QED BY <1>5, <1>6 DEF Store!Next

(* Steps of a pack before its header is written are not seen.              *)
LEMMA PackingUnseen ==
  ASSUME SInv, IInv', pc \in {"pack", "erase", "copy"}, pc' \in {"pack", "erase", "copy"},
         UNCHANGED <<req, cur, result, strayed>>, cells'[cur] = cells[cur]
  PROVE  /\ UNCHANGED Store!vars
         /\ IsLog(cells[cur])
         /\ \A d \in BankSet : IsCurrent(hdr', d) => IsLog(cells'[d])
<1>1. cur \in BankSet /\ IsCurrent(hdr, cur) /\ IsCurrent(hdr', cur)
  <2>1. cur \in BankSet /\ IsCurrent(hdr, cur)
    BY DEF SInv, IInv, TypeOK, PackElsewhere
  <2>2. IsCurrent(hdr', cur')
    BY DEF IInv, PackElsewhere
  <2> QED BY <2>1, <2>2
<1>2. IsLog(cells[cur])
  BY <1>1 DEF SInv
<1>3. Alike /\ \A d \in BankSet : IsCurrent(hdr', d) => IsLog(cells'[d])
  BY <1>1, <1>2, SameBank
<1> QED BY <1>2, <1>3, Stutters

LEMMA EraseStores ==
  ASSUME SInv, IInv', EraseBegin \/ EraseEnd
  PROVE  SInv' /\ UNCHANGED Store!vars
<1>1. /\ pc \in {"pack", "erase"} /\ pc' \in {"erase", "copy"} /\ at = 1
      /\ UNCHANGED <<req, cur, bank, at, done, result, strayed>>
      /\ cells' = cells \/ cells' = [cells EXCEPT ![bank] = [i \in Cells |-> Free]]
      /\ pc' = "copy" => cells' = [cells EXCEPT ![bank] = [i \in Cells |-> Free]]
  BY DEF EraseBegin, EraseEnd, SInv
<1>2. bank # cur /\ bank \in BankSet /\ cur \in BankSet /\ cells \in [BankSet -> [Cells -> Words]]
  BY <1>1 DEF SInv, IInv, PackElsewhere, TypeOK
<1>3. cells'[cur] = cells[cur]
  BY <1>1, <1>2
<1>4. /\ UNCHANGED Store!vars /\ IsLog(cells[cur])
      /\ \A d \in BankSet : IsCurrent(hdr', d) => IsLog(cells'[d])
  BY <1>1, <1>3, PackingUnseen
<1>5. ASSUME pc' = "copy", NEW r \in req PROVE Copying(r[1])'
  <2>1. cells'[bank] = Blank
    BY <1>1, <1>2, <1>5 DEF Blank
  <2>2. PICK e \in 1 .. BankWords - 1 : Log(cells[cur], Records(cells[cur]), e)
    BY <1>4 DEF IsLog
  <2>3. 1 \in Records(cells[cur]) \cup {e} /\ \A i \in Records(cells[cur]) : ~(i < 1)
    BY <2>2, LayoutAssumption DEF Log, Cells
  <2> QED BY <1>1, <1>3, <2>1, <2>2, <2>3 DEF Copying
<1>6. SInv'
  BY <1>1, <1>4, <1>5 DEF SInv
<1> QED BY <1>4, <1>6

(* The objects a pack carries over, and what was carried so far.           *)
LEMMA RecordStores ==
  ASSUME SInv, FewToCarry, IInv', PackRecord
  PROVE  SInv' /\ UNCHANGED Store!vars
<1> DEFINE old  == cells[cur]
           new  == cells[bank]
           word == Cell(old, at)
           copied == Programmed(new, wraddr,
                       [j \in 0 .. Stride(word) - 1 |-> Cell(old, get_addr_fobj(old, IdOf(word)) + j)],
                       Stride(word))
           carry == /\ \A r \in req : IdOf(word) # r[1]
                    /\ Valid(word)
                    /\ get_addr_fobj(new, IdOf(word)) = 0
<1>1. /\ pc = "copy" /\ at < BankWords - 2 /\ word # Free
      /\ cells' = IF carry THEN [cells EXCEPT ![bank] = copied] ELSE cells
      /\ at' = at + Stride(word)
      /\ UNCHANGED <<hdr, pc, req, cur, bank, done, result, strayed>>
  BY DEF PackRecord
<1>2. bank # cur /\ bank \in BankSet /\ cur \in BankSet /\ cells \in [BankSet -> [Cells -> Words]]
  BY <1>1 DEF SInv, IInv, PackElsewhere, TypeOK
<1>3. /\ cells'[cur] = old
      /\ carry => cells'[bank] = copied
      /\ ~carry => cells'[bank] = new
  <2> HIDE DEF carry, copied
  <2> QED BY <1>1, <1>2
<1>4. /\ UNCHANGED Store!vars
      /\ \A d \in BankSet : IsCurrent(hdr', d) => IsLog(cells'[d])
  <2> HIDE DEF carry, copied
  <2> QED BY <1>1, <1>3, PackingUnseen
<1>5. PICK id \in Ids : \E v \in Values[id] : req = {<<id, v>>}
  BY <1>1, TheRequest
<1> DEFINE R == Records(old)
<1>6. PICK e \in 1 .. BankWords - 1 :
        /\ Log(old, R, e) /\ at \in R \cup {e}
        /\ \/ new = Blank /\ \A i \in R : i < at => old[i] = HeadOf(id)
           \/ \E x \in Ids \ {id} :
                /\ \E i \in R : old[i] = HeadOf(x)
                /\ Single(new, x) /\ ReadFrom(new, x) = ReadFrom(old, x)
  <2>1. Copying(id)
    BY <1>1, <1>5 DEF SInv
  <2> QED BY <2>1 DEF Copying
(* The scan stands on a record.                                            *)
<1>7. at \in R /\ word = old[at]
  <2>1. \A i \in Cells : i >= e => old[i] = Free
    BY <1>6 DEF Log
  <2>2. Cell(old, e) = Free
    BY <1>6, <2>1 DEF Cell
  <2>3. at \in R
    BY <1>1, <1>6, <2>2
  <2> QED BY <1>6, <2>3, InLog
<1>8. PICK y \in Ids : word = HeadOf(y)
  BY <1>6, <1>7 DEF Log
<1>9. IdOf(word) = y /\ Valid(word) /\ Stride(word) = 1 + ObjWords[y]
  BY <1>8, HeadFacts
<1>10. carry <=> y # id /\ get_addr_fobj(new, y) = 0
  BY <1>5, <1>9
<1>11. /\ at' \in R \cup {e}
       /\ \A i \in R : i < at' => i = at \/ i < at
  <2>1. at + Stride(old[at]) \in R \cup {e}
    BY <1>6, <1>7 DEF Log
  <2>2. \A i \in R : at < i => at' <= i
    BY <1>1, <1>6, <1>7 DEF Log
  <2>3. at \in Nat /\ at' \in Nat /\ \A i \in R : i \in Nat
    BY <1>1, <1>6, <1>7, <1>9, HeadFacts, InLog
  <2> QED BY <1>1, <1>7, <2>1, <2>2, <2>3
<1> DEFINE dst == cells'[bank]
<1>12. \/ dst = Blank /\ \A i \in R : i < at' => old[i] = HeadOf(id)
       \/ \E x \in Ids \ {id} :
            /\ \E i \in R : old[i] = HeadOf(x)
            /\ Single(dst, x) /\ ReadFrom(dst, x) = ReadFrom(old, x)
  <2>1. CASE y = id
    <3>1. dst = new
      BY <1>3, <1>10, <2>1
    <3>2. (\A i \in R : i < at => old[i] = HeadOf(id)) => \A i \in R : i < at' => old[i] = HeadOf(id)
      BY <1>7, <1>8, <1>11, <2>1
    <3> HIDE DEF dst, R, new, old
    <3> QED BY <1>6, <3>1, <3>2
  <2>2. CASE y # id /\ new = Blank
    <3>1. get_addr_fobj(new, y) = 0
      <4>1. LastOf(Blank, {}, y, 0)
        BY DEF LastOf
      <4> QED BY <2>2, <4>1, BlankLog, LastFound
    <3>2. dst = copied
      BY <1>3, <1>10, <2>2, <3>1
    <3>3. copied = Programmed(Blank, wraddr,
                     [j \in 0 .. Stride(HeadOf(y)) - 1 |-> Cell(old, get_addr_fobj(old, y) + j)],
                     Stride(HeadOf(y)))
      BY <1>8, <1>9, <2>2
    <3>4. old[at] = HeadOf(y)
      BY <1>7, <1>8
    <3>5. Single(dst, y) /\ ReadFrom(dst, y) = ReadFrom(old, y)
      <4> HIDE DEF dst, copied, R, old
      <4> QED BY <1>6, <1>7, <3>2, <3>3, <3>4, OneCarried
    <3> HIDE DEF dst, R, old
    <3> QED BY <1>7, <2>2, <3>4, <3>5
  <2>3. CASE y # id /\ \E x \in Ids \ {id} :
                /\ \E i \in R : old[i] = HeadOf(x)
                /\ Single(new, x) /\ ReadFrom(new, x) = ReadFrom(old, x)
    <3>1. PICK x \in Ids \ {id} :
                /\ \E i \in R : old[i] = HeadOf(x)
                /\ Single(new, x) /\ ReadFrom(new, x) = ReadFrom(old, x)
      BY <2>3
    <3>2. x = y
      <4>1. PICK i \in R : old[i] = HeadOf(x)
        BY <3>1
      <4>2. IdOf(old[i]) = x /\ IdOf(old[at]) = y
        BY <1>7, <1>9, <4>1, HeadFacts
      <4>3. PICK r \in req : r[1] = id
        BY <1>5
      <4> QED BY <1>1, <1>7, <2>3, <3>1, <4>1, <4>2, <4>3 DEF FewToCarry
    <3>3. get_addr_fobj(new, y) = 1
      BY <3>1, <3>2, SingleFacts
    <3>4. dst = new
      BY <1>3, <1>10, <3>3
    <3> HIDE DEF dst, R, new, old
    <3> QED BY <3>1, <3>4
  <2> HIDE DEF dst, R, new, old
  <2> QED BY <1>6, <2>1, <2>2, <2>3
<1>13. Copying(id)'
  <2> HIDE DEF carry, copied
  <2> QED BY <1>1, <1>3, <1>6, <1>11, <1>12 DEF Copying
<1>14. \A r \in req' : Copying(r[1])'
  <2> SUFFICES ASSUME NEW r \in req' PROVE Copying(r[1])'
    OBVIOUS
  <2>1. r[1] = id
    BY <1>1, <1>5
  <2> HIDE DEF carry, copied, old, new, word, R, dst
  <2> QED BY <1>13, <2>1, Zenon DEF Copying
<1>15. SInv'
  <2> HIDE DEF carry, copied, word
  <2> QED BY <1>1, <1>4, <1>14 DEF SInv
<1> QED BY <1>4, <1>15

(* The header of a packed bank makes it the current one, and what is in it *)
(* reads as before.                                                        *)
LEMMA CommitStores ==
  ASSUME SInv, FewToCarry, IInv', PackCommit
  PROVE  SInv' /\ Store!Next
<1> DEFINE old == cells[cur]
           new == cells[bank]
           R == Records(old)
<1>1. /\ pc = "copy" /\ (at >= BankWords - 2 \/ Cell(old, at) = Free)
      /\ hdr' = [hdr EXCEPT ![bank] = hdr[cur] - 1]
      /\ UNCHANGED <<cells, strayed>>
      /\ \E r \in req :
           \/ Return("fail")
           \/ /\ get_addr_fobj_save(new, ObjWords[r[1]]) \in Cells
              /\ at' = get_addr_fobj_save(new, ObjWords[r[1]])
              /\ pc' = "head" /\ UNCHANGED <<req, cur, bank, done, result>>
  BY DEF PackCommit, NextHeader
<1>2. /\ bank # cur /\ bank \in BankSet /\ cur \in BankSet /\ IsCurrent(hdr, cur)
      /\ hdr \in [BankSet -> 0 .. Top] /\ hdr[cur] > 0
  BY <1>1 DEF SInv, IInv, PackElsewhere, TypeOK
<1>3. CurrentBank = cur
  BY <1>2, CurrentLog
<1>4. IsCurrent(hdr', bank)
  <2>1. hdr'[bank] = hdr[cur] - 1 /\ \A o \in BankSet : o # bank => hdr'[o] = hdr[o]
    BY <1>1, <1>2
  <2>2. \A o \in BankSet : hdr[cur] <= hdr[o] /\ hdr[o] \in Nat /\ hdr[cur] \in Nat
    BY <1>2, TopAssumption DEF IsCurrent
  <2>3. \A o \in BankSet : o # bank => hdr'[bank] < hdr'[o]
    BY <1>2, <2>1, <2>2
  <2> QED BY <1>2, <2>3, BanksAssumption DEF IsCurrent, BankSet
<1>5. CurrentBank' = bank /\ \A d \in BankSet : IsCurrent(hdr', d) => d = bank
  BY <1>2, <1>4, NextCurrent DEF IInv
<1>6. PICK id \in Ids : \E v \in Values[id] : req = {<<id, v>>} /\ ~strayed
  BY <1>1, TheRequest
<1>7. PICK e \in 1 .. BankWords - 1 :
        /\ Log(old, R, e) /\ at \in R \cup {e}
        /\ \/ new = Blank /\ \A i \in R : i < at => old[i] = HeadOf(id)
           \/ \E x \in Ids \ {id} :
                /\ \E i \in R : old[i] = HeadOf(x)
                /\ Single(new, x) /\ ReadFrom(new, x) = ReadFrom(old, x)
  <2>1. Copying(id)
    BY <1>1, <1>6 DEF SInv
  <2> QED BY <2>1 DEF Copying
(* The scan has seen every record.                                         *)
<1>8. at = e /\ \A i \in R : i < e
  <2>1. ASSUME at \in R PROVE FALSE
    <3>1. at \in Nat /\ at + 2 < BankWords /\ Live(old, at)
      BY <1>7, <2>1, InLog
    <3> QED BY <1>1, <3>1, LayoutAssumption DEF Live
  <2>2. ASSUME NEW i \in R PROVE i < e
    <3>1. i + Stride(old[i]) <= e
      BY <1>7, <2>2 DEF Log
    <3>2. i \in Nat /\ Stride(old[i]) \in 2..3
      BY <1>7, <2>2, InLog
    <3> QED BY <1>7, <3>1, <3>2, LayoutAssumption
  <2> QED BY <1>7, <2>1, <2>2
<1>9. ASSUME NEW y \in Ids, y # id, \A i \in R : old[i] # HeadOf(y)
      PROVE  ReadFrom(old, y) = <<>>
  <2>1. LastOf(old, R, y, 0)
    BY <1>9 DEF LastOf
  <2> HIDE DEF old, R
  <2> QED BY <1>7, <2>1, LogRead
<1>10. /\ \A y \in Ids \ {id} : ReadFrom(new, y) = ReadFrom(old, y)
       /\ IsLog(new)
  <2>1. CASE new = Blank /\ \A i \in R : i < at => old[i] = HeadOf(id)
    <3>1. ASSUME NEW y \in Ids \ {id} PROVE ReadFrom(new, y) = ReadFrom(old, y)
      <4>1. \A i \in R : old[i] # HeadOf(y)
        BY <1>8, <2>1, HeadFacts
      <4> QED BY <1>9, <2>1, <4>1, BlankLog
    <3>2. IsLog(new)
      BY <2>1, BlankLog, LogIsLog
    <3> QED BY <3>1, <3>2
  <2>2. CASE \E x \in Ids \ {id} :
                /\ \E i \in R : old[i] = HeadOf(x)
                /\ Single(new, x) /\ ReadFrom(new, x) = ReadFrom(old, x)
    <3>1. PICK x \in Ids \ {id} :
                /\ \E i \in R : old[i] = HeadOf(x)
                /\ Single(new, x) /\ ReadFrom(new, x) = ReadFrom(old, x)
      BY <2>2
    <3>2. PICK i \in R : old[i] = HeadOf(x)
      BY <3>1
    <3>3. ASSUME NEW y \in Ids, y # id, y # x PROVE ReadFrom(new, y) = ReadFrom(old, y)
      <4>1. \A k \in R : old[k] # HeadOf(y)
        <5> SUFFICES ASSUME NEW k \in R, old[k] = HeadOf(y) PROVE FALSE
          OBVIOUS
        <5>1. IdOf(old[i]) = x /\ IdOf(old[k]) = y
          BY <3>2, <3>3, HeadFacts
        <5>2. PICK r \in req : r[1] = id
          BY <1>6
        <5> QED BY <1>1, <3>1, <3>2, <3>3, <5>1, <5>2 DEF FewToCarry
      <4>2. ReadFrom(new, y) = <<>>
        BY <3>1, <3>3, SingleFacts
      <4> QED BY <1>9, <3>3, <4>1, <4>2
    <3>4. IsLog(new)
      BY <3>1, LogIsLog DEF Single
    <3> QED BY <3>1, <3>3, <3>4
  <2> QED BY <1>7, <2>1, <2>2
<1>11. AlikeBut(id)
  <2>1. ReadFrom(new, id) \in Object(id) \cup {<<>>}
    BY <1>10, IsLogFacts
  <2>2. cells'[CurrentBank'] = new /\ cells[CurrentBank] = old
    BY <1>1, <1>3, <1>5
  <2> QED BY <1>10, <2>1, <2>2 DEF AlikeBut
<1>12. \A d \in BankSet : IsCurrent(hdr', d) => IsLog(cells'[d])
  BY <1>1, <1>5, <1>10
<1>13. CASE Return("fail")
  <2>1. pc' = "idle" /\ req' = {} /\ result' = "fail" /\ done' = 0
    BY <1>13 DEF Return
  <2>2. Store!Abandon
    BY <1>6, <1>11, <2>1, Abandons
  <2>3. SInv'
    BY <1>12, <2>1 DEF SInv
  <2> QED BY <2>2, <2>3 DEF Store!Next
<1>14. CASE /\ get_addr_fobj_save(new, ObjWords[id]) \in Cells
            /\ at' = get_addr_fobj_save(new, ObjWords[id])
            /\ pc' = "head" /\ UNCHANGED <<req, cur, bank, done, result>>
  <2>1. Store!Progress
    BY <1>1, <1>6, <1>11, <1>14, Progresses
  <2>2. PICK f \in 1 .. BankWords - 1 : Log(new, Records(new), f)
    BY <1>10 DEF IsLog
  <2>3. ObjWords[id] \in 1..2 /\ 0 \notin Cells
    BY HeadFacts DEF Cells
  <2>4. at' = f /\ f < BankWords - (1 + ObjWords[id])
    <3> HIDE DEF new
    <3> QED BY <1>14, <2>2, <2>3, LogEnd
  <2>5. Appending(id)'
    BY <1>1, <1>14, <2>2, <2>4 DEF Appending
  <2>6. \A r \in req' : Appending(r[1])'
    BY <1>6, <1>14, <2>5 DEF Appending
  <2>7. pc' = "head" /\ req' # {} /\ ~strayed' /\ done' = 0
    BY <1>1, <1>6, <1>14 DEF SInv
  <2>8. SInv'
    BY <1>12, <2>6, <2>7 DEF SInv
  <2> QED BY <2>1, <2>8 DEF Store!Next
<1> QED BY <1>1, <1>6, <1>13, <1>14

(* Saving works on the current bank.                                       *)
LEMMA SavingFacts ==
  ASSUME SInv, IInv', pc \in {"head", "data"}, hdr' = hdr
  PROVE  /\ bank \in BankSet /\ bank = CurrentBank /\ bank = CurrentBank'
         /\ cells \in [BankSet -> [Cells -> Words]] /\ at \in Nat /\ done \in Nat
         /\ IsLog(cells'[bank]) => \A d \in BankSet : IsCurrent(hdr', d) => IsLog(cells'[d])
<1>1. /\ bank \in BankSet /\ IsCurrent(hdr, bank)
      /\ cells \in [BankSet -> [Cells -> Words]] /\ at \in Nat /\ done \in Nat
  BY DEF SInv, IInv, TypeOK, PackElsewhere
<1> QED BY <1>1, SameBank

LEMMA HeadStores ==
  ASSUME SInv, IInv', WriteHead
  PROVE  SInv' /\ Store!Next
<1> DEFINE c == cells[bank]
           d == cells'[bank]
<1>1. /\ pc = "head" /\ pc' = "data"
      /\ \E r \in req :
           cells' = [cells EXCEPT ![bank] = Programmed(@, at, [j \in {0} |-> HeadOf(r[1])], 1)]
      /\ UNCHANGED <<hdr, req, cur, bank, at, done, result, strayed>>
  BY DEF WriteHead
<1>2. /\ bank \in BankSet /\ bank = CurrentBank /\ bank = CurrentBank'
      /\ cells \in [BankSet -> [Cells -> Words]] /\ at \in Nat
      /\ IsLog(d) => \A b \in BankSet : IsCurrent(hdr', b) => IsLog(cells'[b])
  BY <1>1, SavingFacts
<1>3. PICK id \in Ids : \E v \in Values[id] : req = {<<id, v>>} /\ ~strayed
  BY <1>1, TheRequest
<1>4. PICK v \in Values[id] : req = {<<id, v>>}
  BY <1>3
<1>5. d = Programmed(c, at, One(HeadOf(id)), 1)
  BY <1>1, <1>2, <1>4 DEF One
<1> DEFINE R == Records(c)
<1>6. Log(c, R, at) /\ Room(at, id)
  <2>1. Appending(id)
    BY <1>1, <1>4 DEF SInv
  <2> QED BY <2>1 DEF Appending, Room
<1> HIDE DEF c, d, R
<1>7. /\ Log(d, R \cup {at}, at + 1 + ObjWords[id])
      /\ at \in Cells /\ at \notin R /\ d[at] = HeadOf(id)
      /\ \A j \in 1..ObjWords[id] : d[at + j] = Free
      /\ \A other \in Ids \ {id} : ReadFrom(d, other) = ReadFrom(c, other)
  <2>1. Headed(c, R, at, id, d)
    BY <1>5, <1>6, HeadAppended
  <2> QED BY <2>1 DEF Headed
<1>8. IsLog(d) /\ Records(d) = R \cup {at}
  BY <1>7, LogIsLog
<1>9. AlikeBut(id)
  <2>1. ReadFrom(d, id) \in Object(id) \cup {<<>>}
    BY <1>8, IsLogFacts
  <2> QED BY <1>2, <1>7, <2>1 DEF AlikeBut, c, d
<1>10. Store!Progress
  BY <1>1, <1>4, <1>9, Progresses
<1>11. Filling(id, v)'
  <2>1. done' = 0 /\ ObjWords[id] \in 1..2
    BY <1>1, HeadFacts DEF SInv
  <2>2. \A k \in R \cup {at} : k <= at
    <3> SUFFICES ASSUME NEW k \in R PROVE k <= at
      BY <1>2
    <3>1. k \in Nat /\ Stride(c[k]) \in 2..3
      BY <1>6, InLog
    <3>2. k + Stride(c[k]) <= at
      BY <1>6 DEF Log
    <3> QED BY <1>2, <3>1, <3>2
  <2>3. /\ IsLog(d) /\ at \in Records(d) /\ d[at] = HeadOf(id)
        /\ \A k \in Records(d) : k <= at
        /\ 0 < ObjWords[id]
        /\ \A j \in 1..0 : d[at + j] = v[j]
        /\ \A j \in 0 + 1 .. ObjWords[id] : d[at + j] = Free
    BY <1>7, <1>8, <2>1, <2>2
  <2> QED BY <1>1, <2>1, <2>3 DEF Filling, d
<1>12. \A r \in req' : Filling(r[1], r[2])'
  <2> SUFFICES ASSUME NEW r \in req' PROVE Filling(r[1], r[2])'
    OBVIOUS
  <2>1. r[1] = id /\ r[2] = v
    BY <1>1, <1>4
  <2> QED BY <1>11, <2>1, Zenon DEF Filling
<1>13. SInv'
  BY <1>1, <1>2, <1>3, <1>8, <1>12 DEF SInv, d
<1> QED BY <1>10, <1>13 DEF Store!Next

LEMMA DataStores ==
  ASSUME SInv, IInv', WriteData
  PROVE  SInv' /\ Store!Next
<1> DEFINE c == cells[bank]
           d == cells'[bank]
           R == Records(c)
<1>1. pc = "data" /\ UNCHANGED <<hdr, strayed>>
  BY DEF WriteData
<1>2. /\ bank \in BankSet /\ bank = CurrentBank /\ bank = CurrentBank'
      /\ cells \in [BankSet -> [Cells -> Words]] /\ at \in Nat /\ done \in Nat
      /\ IsLog(d) => \A b \in BankSet : IsCurrent(hdr', b) => IsLog(cells'[b])
  BY <1>1, SavingFacts
<1>3. PICK id \in Ids : \E v \in Values[id] : req = {<<id, v>>} /\ ~strayed
  BY <1>1, TheRequest
<1>4. PICK v \in Values[id] : req = {<<id, v>>}
  BY <1>3
<1> DEFINE p == at + 1 + done
           n == ObjWords[id]
           w == v[done + 1]
<1>5. /\ cells' = [cells EXCEPT ![bank] = Programmed(@, p, [j \in {0} |-> w], 1)]
      /\ \/ done + 1 < n /\ done' = done + 1 /\ UNCHANGED <<pc, req, cur, bank, at, result>>
         \/ done + 1 >= n /\ Return("ok")
  <2>1. PICK r \in req :
          /\ cells' = [cells EXCEPT ![bank] = Programmed(@, p, [j \in {0} |-> r[2][done + 1]], 1)]
          /\ \/ done + 1 < ObjWords[r[1]] /\ done' = done + 1
                /\ UNCHANGED <<pc, req, cur, bank, at, result>>
             \/ done + 1 >= ObjWords[r[1]] /\ Return("ok")
    BY Zenon DEF WriteData, p
  <2>2. r[1] = id /\ r[2] = v
    BY <1>4
  <2> QED BY <2>1, <2>2
<1>6. d = Programmed(c, p, One(w), 1)
  BY <1>2, <1>5 DEF One
<1>7. /\ IsLog(c) /\ at \in R /\ c[at] = HeadOf(id)
      /\ \A k \in R : k <= at
      /\ done < n
      /\ \A j \in 1..done : c[at + j] = v[j]
      /\ \A j \in done + 1 .. n : c[at + j] = Free
  <2>1. Filling(id, v)
    BY <1>1, <1>4 DEF SInv
  <2> QED BY <2>1 DEF Filling
<1>8. PICK e \in 1 .. BankWords - 1 : Log(c, R, e)
  BY <1>7 DEF IsLog
<1>9. n \in 1..2 /\ v \in [1 .. n -> Words]
  BY HeadFacts, LayoutAssumption
<1>10. done + 1 \in 1..n /\ w \in Words /\ p \in at + 1 .. at + n /\ p = at + (done + 1) /\ c[p] = Free
  BY <1>2, <1>7, <1>9
<1> HIDE DEF c, d, R
<1>11. /\ Log(d, R, e) /\ p \in Cells /\ p # at /\ d[p] = w
       /\ \A k \in Cells : k # p => d[k] = c[k]
       /\ \A other \in Ids \ {id} : ReadFrom(d, other) = ReadFrom(c, other)
  <2> HIDE DEF p, w
  <2> QED BY <1>6, <1>7, <1>8, <1>10, DataWritten
<1>12. IsLog(d) /\ Records(d) = R
  BY <1>11, LogIsLog
<1>13. AlikeBut(id)
  <2>1. ReadFrom(d, id) \in Object(id) \cup {<<>>}
    BY <1>12, IsLogFacts
  <2> QED BY <1>2, <1>11, <2>1 DEF AlikeBut, c, d
(* The words written so far.                                               *)
<1>14. /\ d[at] = HeadOf(id)
       /\ \A j \in 1 .. done + 1 : d[at + j] = v[j]
       /\ \A j \in done + 2 .. n : d[at + j] = Free
  <2>1. at \in Cells /\ \A j \in 1..n : at + j \in Cells
    <3>1. PICK x \in Ids : c[at] = HeadOf(x) /\ at \in Cells
                           /\ \A j \in 1..ObjWords[x] : at + j \in Cells
      BY <1>7, <1>8, InLog
    <3>2. x = id
      BY <1>7, <3>1, HeadFacts
    <3> QED BY <3>1, <3>2
  <2>2. d[at] = HeadOf(id)
    BY <1>7, <1>11, <2>1
  <2>3. ASSUME NEW j \in 1 .. done + 1 PROVE d[at + j] = v[j]
    <3>1. CASE j = done + 1
      BY <1>10, <1>11, <3>1
    <3>2. CASE j # done + 1
      <4>1. j \in 1..done /\ at + j # p /\ j \in 1..n
        BY <1>2, <1>7, <1>9, <3>2
      <4> QED BY <1>7, <1>11, <2>1, <4>1
    <3> QED BY <3>1, <3>2
  <2>4. ASSUME NEW j \in done + 2 .. n PROVE d[at + j] = Free
    <3>1. j \in done + 1 .. n /\ at + j # p /\ j \in 1..n
      BY <1>2, <1>9
    <3> QED BY <1>7, <1>11, <2>1, <3>1
  <2> QED BY <2>2, <2>3, <2>4
<1>15. CASE done + 1 < n /\ done' = done + 1 /\ UNCHANGED <<pc, req, cur, bank, at, result>>
  <2>1. Store!Progress
    BY <1>1, <1>4, <1>13, <1>15, Progresses
  <2>2. /\ IsLog(d) /\ at \in Records(d) /\ d[at] = HeadOf(id)
        /\ \A k \in Records(d) : k <= at
        /\ done' < n
        /\ \A j \in 1..done' : d[at + j] = v[j]
        /\ \A j \in done' + 1 .. n : d[at + j] = Free
    <3>1. done' = done + 1 /\ done' + 1 = done + 2
      BY <1>2, <1>15
    <3> QED BY <1>7, <1>12, <1>14, <1>15, <3>1
  <2>3. Filling(id, v)'
    BY <1>15, <2>2 DEF Filling, d
  <2>4. \A r \in req' : Filling(r[1], r[2])'
    <3> SUFFICES ASSUME NEW r \in req' PROVE Filling(r[1], r[2])'
      OBVIOUS
    <3>1. r[1] = id /\ r[2] = v
      BY <1>4, <1>15
    <3> QED BY <2>3, <3>1, Zenon DEF Filling
  <2>5. SInv'
    BY <1>1, <1>2, <1>3, <1>12, <1>15, <2>4 DEF SInv, d
  <2> QED BY <2>1, <2>5 DEF Store!Next
<1>16. CASE done + 1 >= n /\ Return("ok")
  <2>1. pc' = "idle" /\ req' = {} /\ result' = "ok" /\ done' = 0
    BY <1>16 DEF Return
  <2>2. ReadFrom(d, id) = v
    <3>1. LastOf(d, R, id, at) /\ at # 0
      <4>1. at # 0
        BY <1>7, <1>8, InLog DEF Cells
      <4> QED BY <1>7, <1>14, <4>1 DEF LastOf
    <3>2. ReadFrom(d, id) = [j \in 1..n |-> d[at + j]]
      BY <1>11, <3>1, LogRead
    <3>3. \A j \in 1..n : d[at + j] = v[j]
      BY <1>2, <1>7, <1>9, <1>14, <1>16
    <3>4. [j \in 1..n |-> d[at + j]] = v
      <4> HIDE DEF n
      <4> QED BY <1>9, <3>3
    <3> QED BY <3>2, <3>4
  <2>3. Store!Finish
    BY <1>1, <1>2, <1>3, <1>4, <1>13, <2>1, <2>2, Finishes DEF d
  <2>4. SInv'
    BY <1>2, <1>12, <2>1 DEF SInv, d
  <2> QED BY <2>3, <2>4 DEF Store!Next
<1> QED BY <1>5, <1>15, <1>16

LEMMA InitStores == Init => SInv /\ Store!Init
<1> SUFFICES ASSUME Init PROVE SInv /\ Store!Init
  OBVIOUS
<1>1. IInv
  BY InitIInv
<1>2. CurrentBank \in BankSet
  BY <1>1, TheCurrent DEF IInv
<1>3. \A b \in BankSet : cells[b] = Blank
  BY DEF Init, Blank
<1>4. IsLog(Blank)
  BY BlankLog, LogIsLog
<1>5. SInv
  BY <1>1, <1>3, <1>4 DEF Init, SInv
<1>6. \A id \in Ids : ReadFrom(cells[CurrentBank], id) = <<>>
  BY <1>2, <1>3, BlankLog
<1>7. Store!Init
  BY <1>6 DEF Store!Init, Init
<1> QED BY <1>5, <1>7

LEMMA StepStores ==
  ASSUME SInv, FewToCarry, [Next]_vars
  PROVE  SInv' /\ [Store!Next]_(Store!vars)
<1>1. IInv'
  BY NextIInv DEF SInv
<1>2. CASE flash_read_cfg
  BY <1>1, <1>2, ReadStores
<1>3. ASSUME NEW id \in Ids, NEW value \in Values[id], flash_write_cfg(id, value)
      PROVE  SInv' /\ [Store!Next]_(Store!vars)
  BY <1>1, <1>3, WriteStores
<1>4. CASE PackNoMemory \/ PowerLoss
  BY <1>1, <1>4, GivenUp
<1>5. CASE EraseBegin \/ EraseEnd
  BY <1>1, <1>5, EraseStores
<1>6. CASE PackRecord
  BY <1>1, <1>6, RecordStores
<1>7. CASE PackCommit
  BY <1>1, <1>7, CommitStores
<1>8. CASE WriteHead
  BY <1>1, <1>8, HeadStores
<1>9. CASE WriteData
  BY <1>1, <1>9, DataStores
<1>10. CASE UNCHANGED vars
  <2>1. UNCHANGED <<hdr, cells, pc, req, cur, bank, at, done, result, strayed>>
    BY <1>10 DEF vars
  <2>2. CurrentBank' = CurrentBank
    BY <2>1 DEF CurrentBank
  <2>3. Alike
    BY <2>1, <2>2 DEF Alike
  <2>4. UNCHANGED Store!vars
    BY <2>1, <2>3, Stutters
  <2>5. SInv'
    BY <1>1, <2>1 DEF SInv, Copying, Appending, Filling
  <2> QED BY <2>4, <2>5
<1> QED BY <1>2, <1>3, <1>4, <1>5, <1>6, <1>7, <1>8, <1>9, <1>10 DEF Next

(* The flash is the store its callers see, through power losses between    *)
(* any two words and saves without memory, as long as no pack has two      *)
(* objects to carry over (pack_cfg_fmem writes both at one address).       *)
THEOREM StoreImplemented == Spec /\ []FewToCarry => ImplementsStore
<1>1. Init => SInv /\ Store!Init
  BY InitStores
<1>2. SInv /\ FewToCarry /\ [Next]_vars => SInv' /\ [Store!Next]_(Store!vars)
  BY StepStores
<1> QED BY <1>1, <1>2, PTL DEF Spec, ImplementsStore, Store!Spec

(* With two objects a pack has one to carry over.                          *)
LEMMA TwoAreFew ==
  ASSUME \A x, y, z \in Ids : x = y \/ y = z \/ x = z, SInv
  PROVE  FewToCarry
<1> DEFINE old == cells[cur]
<1> SUFFICES ASSUME pc = "copy", NEW r \in req, NEW i \in Records(old), NEW k \in Records(old),
                    IdOf(old[i]) # r[1], IdOf(old[k]) # r[1]
             PROVE  IdOf(old[i]) = IdOf(old[k])
  BY DEF FewToCarry
<1>1. r[1] \in Ids
  <2>1. PICK id \in Ids : \E v \in Values[id] : req = {<<id, v>>}
    BY TheRequest
  <2> QED BY <2>1
<1>2. PICK e \in 1 .. BankWords - 1 : Log(old, Records(old), e)
  BY DEF SInv, Copying
<1>3. \A j \in Records(old) : IdOf(old[j]) \in Ids
  <2> SUFFICES ASSUME NEW j \in Records(old) PROVE IdOf(old[j]) \in Ids
    OBVIOUS
  <2>1. PICK x \in Ids : old[j] = HeadOf(x)
    BY <1>2 DEF Log
  <2> QED BY <2>1, HeadFacts
<1> HIDE DEF old
<1> QED BY <1>1, <1>3

(* A flash that holds two objects is that store whatever happens.          *)
THEOREM StoreOfTwoImplemented ==
  ASSUME \A x, y, z \in Ids : x = y \/ y = z \/ x = z
  PROVE  Spec => ImplementsStore
<1>1. Init => SInv /\ Store!Init
  BY InitStores
<1>2. SInv => FewToCarry
  BY TwoAreFew
<1>3. SInv /\ [Next]_vars => SInv' /\ [Store!Next]_(Store!vars)
  BY <1>2, StepStores
<1> QED BY <1>1, <1>3, PTL DEF Spec, ImplementsStore, Store!Spec
=============================================================================
