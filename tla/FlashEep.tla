------------------------------ MODULE FlashEep ------------------------------
(***************************************************************************)
(* flash_eep.c: the configuration store in four NOR-flash sectors.         *)
(*                                                                         *)
(* A bank (sector) starts with a header that counts down from the erased   *)
(* value; the bank with the least header is the current one.  Objects are  *)
(* appended to it as a head word (size and id) followed by the data, and   *)
(* the last record with an id is the object.  When the current bank is     *)
(* full, pack_cfg_fmem erases another bank, copies the objects into it and *)
(* makes it current by writing its header.                                 *)
(*                                                                         *)
(* A flash word is the set of its 1 bits: erasing sets every bit, and      *)
(* programming can only clear bits, so a write is an intersection.  Every  *)
(* word programmed is a step of its own and a power loss may come between  *)
(* any two.  _flash_mutex_lock makes one call run at a time.               *)
(***************************************************************************)
EXTENDS Naturals, FiniteSetsExt

CONSTANTS
  NumBanks,     (* FMEMORY_SCFG_BANKS.                                     *)
  BankWords,    (* FMEMORY_SCFG_BANK_SIZE in words, header included.       *)
  MaxObjWords,  (* MAX_FOBJ_SIZE in words.                                 *)
  Top,          (* 0xFFFFFFFF: the header of an erased bank; also bounds   *)
                (* the number of packs the model performs.                 *)
  Bits,         (* Bits of a word; 0 and 1 hold the size in a head word.   *)
  Ids,          (* Object ids: sets of the other bits.                     *)
  ObjWords,     (* Size of each object, fixed by its caller's sizeof.      *)
  Values,       (* The contents callers save under each id.                *)
  HeapMayFail   (* Whether pvPortMalloc may return NULL.                   *)

BankSet == 0 .. NumBanks - 1
Cells   == 1 .. BankWords - 1
Words   == SUBSET Bits
SizeBits == {0, 1}

ASSUME BanksAssumption == NumBanks \in Nat /\ NumBanks >= 2
ASSUME TopAssumption   == Top \in Nat /\ Top >= 2
(* An object fits into an erased bank, and no size a call accepts makes a  *)
(* head look erased.                                                       *)
ASSUME LayoutAssumption ==
  /\ MaxObjWords \in 1..2
  /\ BankWords \in Nat /\ BankWords > MaxObjWords + 2
  /\ SizeBits \subseteq Bits
  /\ Ids \subseteq SUBSET (Bits \ SizeBits)
  /\ ObjWords \in [Ids -> 1 .. MaxObjWords]
  /\ \A id \in Ids : Values[id] \subseteq [1 .. ObjWords[id] -> Words]

VARIABLES
  hdr,      (* Header word of each bank.                                   *)
  cells,    (* The words of each bank that follow its header.              *)
  pc,       (* Where the call in progress stands.                          *)
  req,      (* The <<id, value>> being saved: {} when no call is running.  *)
  cur,      (* foldseg: the bank that was current when the call began.     *)
  bank,     (* The bank the call programs.                                 *)
  at,       (* The word it reads (pack) or programs (save) next.           *)
  done,     (* Data words programmed so far.                               *)
  result,   (* What the last call to end reported.                         *)
  strayed   (* Whether the last save was written outside the banks.        *)

flash == <<hdr, cells>>
vars  == <<hdr, cells, pc, req, cur, bank, at, done, result, strayed>>

Free == Bits

---------------------------------------------------------------------------
(* Head words.                                                             *)

SizeOf(word) == (IF 0 \in word THEN 1 ELSE 0) + (IF 1 \in word THEN 2 ELSE 0)
IdOf(word)   == word \ SizeBits
HeadOf(id)   == id \cup (IF ObjWords[id] % 2 = 1 THEN {0} ELSE {})
                   \cup (IF ObjWords[id] >= 2 THEN {1} ELSE {})

(* A head with an impossible size is skipped as an object of the largest.  *)
Valid(word)  == SizeOf(word) <= MaxObjWords
Stride(word) == 1 + (IF Valid(word) THEN SizeOf(word) ELSE MaxObjWords)

(* A bank's words, and erased words behind its end: only a head damaged by *)
(* overwriting makes the code read there.                                  *)
Cell(content, i) == IF i \in Cells THEN content[i] ELSE Free

(* Positions of the records in a bank, found by walking over their sizes.  *)
Records(content) ==
  LET walk[i \in Nat] ==
        IF i >= BankWords - 1 \/ Cell(content, i) = Free THEN {}
        ELSE {i} \cup walk[i + Stride(content[i])]
  IN walk[1]

(* Mutant: the first record of an object is taken for the object.          *)
get_addr_fobj_First(content, id) ==
  LET found == {i \in Records(content) : Valid(content[i]) /\ IdOf(content[i]) = id}
  IN IF found = {} THEN 0 ELSE Min(found)

(* get_addr_fobj: the last record of an object, 0 when there is none.      *)
get_addr_fobj(content, id) ==
  Max({0} \cup {i \in Records(content) : Valid(content[i]) /\ IdOf(content[i]) = id})

(* get_addr_fobj_save: where a record of n data words goes, 0 if it cannot.*)
get_addr_fobj_save(content, n) ==
  LET last == Max({0} \cup Records(content))
      end  == IF last = 0 THEN 1 ELSE last + Stride(content[last])
  IN IF end < BankWords - (1 + n) /\ Cell(content, end) = Free THEN end ELSE 0

(* What flash_read_cfg returns for an id: <<>> when it is not found.       *)
ReadFrom(content, id) ==
  LET i == get_addr_fobj(content, id)
  IN IF i = 0 THEN <<>>
     ELSE [j \in 1 .. SizeOf(content[i]) |-> Cell(content, i + j)]

(* get_addr_bscfg(false): the first bank with the least header.            *)
IsCurrent(h, b) ==
  \A other \in BankSet : h[b] < h[other] \/ (h[b] = h[other] /\ b <= other)

(* Mutant: the bank with the least header is packed into.                  *)
IsPackTarget_Least(h, b) == IsCurrent(h, b)

(* get_addr_bscfg(true): the last erased bank, else the greatest header.   *)
IsPackTarget(h, b) ==
  \A other \in BankSet :
    \/ h[other] < h[b]
    \/ h[other] = h[b] /\ (IF h[b] = Top THEN other <= b ELSE b <= other)

(* get_addr_bscfg(false) formats the first bank when none is in use.       *)
Formatted(h) ==
  IF \A b \in BankSet : h[b] = Top THEN [h EXCEPT ![0] = Top - 1] ELSE h

(* Mutant: the packed bank gets the header of the old one.                 *)
NextHeader_Same(h) == h

(* The header that makes a packed bank the current one.                    *)
NextHeader(h) == h - 1

---------------------------------------------------------------------------
Init ==
  /\ hdr = [b \in BankSet |-> Top]
  /\ cells = [b \in BankSet |-> [i \in Cells |-> Free]]
  /\ pc = "idle"
  /\ req = {}
  /\ cur = 0 /\ bank = 0 /\ at = 0 /\ done = 0
  /\ result = "none"
  /\ strayed = FALSE

Return(outcome) ==
  /\ pc' = "idle"
  /\ req' = {}
  /\ cur' = 0 /\ bank' = 0 /\ at' = 0 /\ done' = 0
  /\ result' = outcome

(* flash_read_cfg changes the flash only by formatting it.                 *)
flash_read_cfg ==
  /\ pc = "idle"
  /\ hdr' = Formatted(hdr)
  /\ UNCHANGED <<cells, pc, req, cur, bank, at, done, result, strayed>>

(* _flash_write_cfg up to its first write: nothing to do, append, or pack. *)
flash_write_cfg(id, value) ==
  /\ pc = "idle"
  /\ hdr' = Formatted(hdr)
  /\ \E b \in BankSet :
       LET content == cells[b]
           place   == get_addr_fobj_save(content, ObjWords[id])
       IN /\ IsCurrent(hdr', b)
          /\ \/ /\ ReadFrom(content, id) = value
                /\ Return("ok")
             \/ /\ ReadFrom(content, id) # value
                /\ req' = {<<id, value>>}
                /\ cur' = b
                /\ done' = 0
                /\ result' = "none"
                /\ \/ /\ place \in Cells
                      /\ pc' = "head"
                      /\ bank' = b
                      /\ at' = place
                   \/ /\ place = 0
                      /\ hdr'[b] > 0
                      /\ pc' = "pack"
                      /\ \E target \in BankSet : IsPackTarget(hdr', target) /\ bank' = target
                      /\ at' = 1
  /\ strayed' = FALSE
  /\ UNCHANGED cells

(* pack_cfg_fmem without memory returns 5, which its caller takes for the  *)
(* address of the record: the object is written there.                     *)
PackNoMemory ==
  /\ pc = "pack"
  /\ HeapMayFail
  /\ strayed' = TRUE
  /\ Return("ok")
  /\ UNCHANGED flash

(* _flash_erase_sector takes time: part of the sector may be erased first. *)
EraseBegin ==
  /\ pc = "pack"
  /\ pc' = "erase"
  /\ \/ /\ hdr' = [hdr EXCEPT ![bank] = Top]
        /\ UNCHANGED cells
     \/ /\ cells' = [cells EXCEPT ![bank] = [i \in Cells |-> Free]]
        /\ UNCHANGED hdr
  /\ UNCHANGED <<req, cur, bank, at, done, result, strayed>>

EraseEnd ==
  /\ pc = "erase"
  /\ pc' = "copy"
  /\ hdr' = [hdr EXCEPT ![bank] = Top]
  /\ cells' = [cells EXCEPT ![bank] = [i \in Cells |-> Free]]
  /\ UNCHANGED <<req, cur, bank, at, done, result, strayed>>

(* What programming n words of content at position i leaves in a bank.     *)
Programmed(old, i, words, n) ==
  [j \in Cells |-> IF j \in i .. i + n - 1 THEN old[j] \cap words[j - i] ELSE old[j]]

(* The write address of pack_cfg_fmem: set before its loop, never advanced.*)
wraddr == 1

(* One turn of the loop of pack_cfg_fmem: the last record of an object     *)
(* other than the one being saved is copied once, with the length of the   *)
(* record the scan stands on.  The bank written has no header yet, so a    *)
(* power loss among these words shows no more than one before or after.    *)
(* The buffer it is copied through is taken for whole: pack_cfg_fmem asks  *)
(* for a quarter of the bytes it may read into it, and what the rest of a  *)
(* longer record overwrites in the heap is left out.                       *)
PackRecord ==
  /\ pc = "copy"
  /\ LET old  == cells[cur]
         word == Cell(old, at)
         from == get_addr_fobj(old, IdOf(word))
         copy == /\ \A r \in req : IdOf(word) # r[1]
                 /\ Valid(word)
                 /\ get_addr_fobj(cells[bank], IdOf(word)) = 0
     IN /\ at < BankWords - 2
        /\ word # Free
        /\ cells' = IF copy
                    THEN [cells EXCEPT ![bank] =
                           Programmed(@, wraddr, [j \in 0 .. Stride(word) - 1 |-> Cell(old, from + j)],
                                      Stride(word))]
                    ELSE cells
        /\ at' = at + Stride(word)
  /\ UNCHANGED <<hdr, pc, req, cur, bank, done, result, strayed>>

(* The end of pack_cfg_fmem: the header makes the new bank current, and    *)
(* the object goes behind what was copied, if it fits.                     *)
PackCommit ==
  /\ pc = "copy"
  /\ at >= BankWords - 2 \/ Cell(cells[cur], at) = Free
  /\ hdr' = [hdr EXCEPT ![bank] = NextHeader(hdr[cur])]
  /\ \E r \in req :
       LET place == get_addr_fobj_save(cells[bank], ObjWords[r[1]])
       IN \/ place = 0 /\ Return("fail")
          \/ /\ place \in Cells
             /\ pc' = "head"
             /\ at' = place
             /\ UNCHANGED <<req, cur, bank, done, result>>
  /\ UNCHANGED <<cells, strayed>>

(* The head of the record is programmed before its data.                   *)
WriteHead ==
  /\ pc = "head"
  /\ pc' = "data"
  /\ \E r \in req :
       cells' = [cells EXCEPT ![bank] = Programmed(@, at, [j \in {0} |-> HeadOf(r[1])], 1)]
  /\ UNCHANGED <<hdr, req, cur, bank, at, done, result, strayed>>

WriteData ==
  /\ pc = "data"
  /\ \E r \in req :
       /\ cells' = [cells EXCEPT ![bank] =
                     Programmed(@, at + 1 + done, [j \in {0} |-> r[2][done + 1]], 1)]
       /\ \/ done + 1 < ObjWords[r[1]] /\ done' = done + 1
                /\ UNCHANGED <<pc, req, cur, bank, at, result>>
          \/ done + 1 >= ObjWords[r[1]] /\ Return("ok")
  /\ UNCHANGED <<hdr, strayed>>

(* Power loss: what the call held in memory is gone, the flash stays.      *)
PowerLoss ==
  /\ pc # "idle"
  /\ Return("none")
  /\ UNCHANGED <<hdr, cells, strayed>>

Next ==
  \/ flash_read_cfg
  \/ \E id \in Ids : \E value \in Values[id] : flash_write_cfg(id, value)
  \/ PackNoMemory
  \/ EraseBegin \/ EraseEnd
  \/ PackRecord \/ PackCommit
  \/ WriteHead \/ WriteData
  \/ PowerLoss

Spec == Init /\ [][Next]_vars

---------------------------------------------------------------------------
Requests == UNION {{<<id, value>> : value \in Values[id]} : id \in Ids}

(* The state has the shape the code's types give it.                       *)
TypeOK ==
  /\ hdr \in [BankSet -> 0 .. Top]
  /\ cells \in [BankSet -> [Cells -> Words]]
  /\ pc \in {"idle", "pack", "erase", "copy", "head", "data"}
  /\ req = {} \/ \E r \in Requests : req = {r}
  /\ cur \in BankSet /\ bank \in BankSet
  /\ at \in Nat /\ done \in Nat
  /\ result \in {"none", "ok", "fail"}
  /\ strayed \in BOOLEAN

(* No two banks in use carry the same header: the current bank, which only *)
(* the order of headers tells (get_addr_bscfg), is never ambiguous.        *)
HeadersDistinct ==
  \A a, b \in BankSet : a # b /\ hdr[a] # Top => hdr[a] # hdr[b]

(* Packing erases and fills a bank other than the current one, and a save  *)
(* appends to the current one: whenever power is lost, the next boot finds *)
(* a complete bank as the current one.                                     *)
PackElsewhere ==
  /\ pc \in {"pack", "erase", "copy"} =>
       bank # cur /\ hdr[cur] # Top /\ hdr[cur] > 0 /\ IsCurrent(hdr, cur)
  /\ pc \in {"head", "data"} => hdr[bank] # Top /\ IsCurrent(hdr, bank)

(* The current bank is never erased: in it bits are only ever cleared, and *)
(* it stops being current only when the header of a packed bank is written.*)
CurrentNeverErased ==
  [][\A b \in BankSet : hdr[b] # Top /\ IsCurrent(hdr, b) =>
       /\ hdr'[b] = hdr[b]
       /\ \A i \in Cells : cells'[b][i] \subseteq cells[b][i]]_vars

(* The content each id reads as after a boot in this state.                *)
CurrentBank == CHOOSE b \in BankSet : IsCurrent(hdr, b)
Store == INSTANCE ConfigStore WITH
  Contents <- UNION {[1 .. ObjWords[id] -> Words] : id \in Ids},
  Absent   <- <<>>,
  store    <- [id \in Ids |-> ReadFrom(cells[CurrentBank], id)],
  pending  <- req,
  result   <- IF strayed THEN "fail" ELSE result

(* The flash implements the store callers see: a save touches no other     *)
(* object, and reports success only with the object in place; but one that *)
(* needs a pack and finds no heap reports success too, and stores nothing. *)
ImplementsStore == Store!Spec
=============================================================================
