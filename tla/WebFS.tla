------------------------------- MODULE WebFS -------------------------------
(***************************************************************************)
(* webfs.c: the web disk in flash, its lock and the table of open files.   *)
(* The operators are the calls of webfs.h as functions of the table, and   *)
(* web_srv.c, modelled in WebSrv, is their only caller; a call runs to its *)
(* end in the lwIP thread.                                                 *)
(*                                                                         *)
(* Flash is counted in blocks, the pieces an upload writes, and a block is *)
(* known by the image it was written from.                                 *)
(***************************************************************************)
EXTENDS WebImage

CONSTANTS
  MaxOpen,     (* MAX_WEBFS_OPENFILES.                                     *)
  BlockWords,  (* Words of a block (max_len_buf_write_flash).              *)
  SectorBlocks,(* Blocks of a flash sector.                                *)
  DiskBlocks   (* Blocks of the disk (WEBFS_max_size).                     *)

Blocks(v) == (Len(ImageData[v]) + BlockWords - 1) \div BlockWords
None == "none"
Free == [addr |-> -1]                  (* addr = WEBFS_INVALID             *)
Invalid == 0                           (* WEBFS_INVALID_HANDLE             *)
Handles == 1..MaxOpen

ASSUME WebFSAssumption ==
  /\ MaxOpen \in Nat /\ MaxOpen >= 1
  /\ BlockWords \in Nat \ {0} /\ SectorBlocks \in Nat \ {0} /\ DiskBlocks \in Nat \ {0}
  /\ None \notin Images
  /\ \A v \in Images : Blocks(v) <= DiskBlocks

VARIABLES
  stub,           (* WEBFSStubs[1..]: place and bytes left of an open file *)
  isWEBFSLocked,
  numFiles,       (* The image the header was read from, None for 0 files  *)
  disk            (* Flash: the image a block holds, None when erased      *)

fsVars == <<stub, isWEBFSLocked, numFiles, disk>>

Stub == [addr : Nat, rem : Nat]        (* of a file that is open           *)

FSTypeOK ==
  /\ stub \in [Handles -> Stub \cup {Free}]
  /\ isWEBFSLocked \in BOOLEAN
  /\ numFiles \in Images \cup {None}
  /\ disk \in [0..DiskBlocks - 1 -> Images \cup {None}]

AllFree == [h \in Handles |-> Free]
OpenHandles(st) == {h \in Handles : st[h] # Free}

(* WEBFSInit: forget every open file and take the disk as its header says. *)
WEBFSInit(d) ==
  /\ stub' = AllFree
  /\ numFiles' = d[0]
  /\ isWEBFSLocked' = (d[0] = None)

(* What WEBFSOpen finds on the disk; 0 when there is no such file.         *)
Lookup(name) ==
  IF numFiles = None \/ disk[0] = None THEN 0
  ELSE IF Named(disk[0], name) = {} THEN 0 ELSE Find(disk[0], name)

(* The free handle the search stops at.  The last of the table is refused, *)
(* so that one is always free and the search ends within the table.        *)
FreeHandle(st) == CHOOSE h \in Handles : st[h] = Free /\ \A g \in 1..h - 1 : st[g] # Free
(* Mutant: the last handle is given out.                                   *)
HasHandle_Last(st) == FreeHandle(st) <= MaxOpen
HasHandle(st) == FreeHandle(st) < MaxOpen

WEBFSOpen(st, f) ==
  [st EXCEPT ![FreeHandle(st)] =
    [addr |-> FileAddr[disk[0]][f], rem |-> Len(FileData[disk[0]][f])]]

WEBFSClose(st, h) == [g \in Handles |-> IF g = h THEN Free ELSE st[g]]

(* The word at an address of the disk.                                     *)
WordAt(a) ==
  LET v == disk[a \div BlockWords] IN
  IF v = None \/ a >= Len(ImageData[v]) THEN Junk ELSE ImageData[v][a + 1]

(* WEBFSGetArray: up to n words of an open file, and the file moved on.    *)
(* Mutant: a read runs past the end of the file.                           *)
GetLen_Past(st, h, n) == IF st[h] = Free THEN 0 ELSE n
GetLen(st, h, n) == IF st[h] = Free THEN 0 ELSE IF n < st[h].rem THEN n ELSE st[h].rem
GetArray(st, h, n) == [i \in 1..GetLen(st, h, n) |-> WordAt(st[h].addr + i - 1)]
Advance(st, h, n) ==
  [st EXCEPT ![h] = IF @ = Free THEN @ ELSE [addr |-> @.addr + n, rem |-> @.rem - n]]

(* One block written by an upload, the sector erased where it begins.      *)
WriteBlock(d, b, v) ==
  [i \in 0..DiskBlocks - 1 |->
    IF i = b THEN v
    ELSE IF b % SectorBlocks = 0 /\ i \in b..b + SectorBlocks - 1 THEN None ELSE d[i]]

(* The disk holds one whole image.                                         *)
Whole(d) == \E v \in Images : \A b \in 0..Blocks(v) - 1 : d[b] = v
=============================================================================
