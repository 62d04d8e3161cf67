----------------------------- MODULE MCFlashEep -----------------------------
(* Small instances of FlashEep for TLC, and what a comment of it says.     *)
EXTENDS FlashEep

MCBits   == 0 .. 3
MCTwoIds == {{2}, {3}}
MCIds    == {{2}, {3}, {2, 3}}
MCSizes  == [id \in Ids |-> IF id = {3} THEN 2 ELSE 1]
MCValues == [id \in Ids |-> IF id = {3} THEN {<<{1}, {2}>>} ELSE {<<{0}>>, <<{1}>>}]
MCOneWordSizes  == [id \in Ids |-> 1]
MCOneWordValues == [id \in Ids |-> IF id = {2} THEN {<<{0}>>, <<{1}>>} ELSE {<<{0, 1}>>}]

(* "Rewrite the obj data into the new sector" (flash_eep.c, the comment in *)
(* pack_cfg_fmem): packing leaves every object but the one being saved     *)
(* reading as before.                                                      *)
PackKeepsObjects ==
  [][pc = "copy" /\ hdr' # hdr =>
       \A id \in Ids : (\A r \in req : r[1] # id) =>
         ReadFrom(cells'[bank], id) = ReadFrom(cells[cur], id)]_vars
=============================================================================
