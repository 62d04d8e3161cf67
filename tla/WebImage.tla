----------------------------- MODULE WebImage -----------------------------
(***************************************************************************)
(* The images of the web disk (WEBFiles.bin), as the comment at the head   *)
(* of webfs.c describes them and as webfs.c and web_srv.c read them.  The  *)
(* program that builds an image is not in the repository.                  *)
(*                                                                         *)
(* A file is given by its parts; on the disk a part is a run of words, and *)
(* the server finds the parts again by the '~' marks between them.  A word *)
(* stands for a text without marks, for a mark, or for the name between    *)
(* two marks.                                                              *)
(***************************************************************************)
EXTENDS Integers, Sequences, SequencesExt

CONSTANTS
  Images,    (* Images that are uploaded.                                  *)
  Directory, (* Directory[v]: the files of image v in their order on the   *)
             (* disk, [name, parts, parsed, zipped]; parsed stands for     *)
             (* WEBFS_FLAG_HASINDEX and zipped for WEBFS_FLAG_ISZIPPED.    *)
  Output,    (* Output[n]: the text page variable n (web_int_callback)     *)
             (* writes, as a sequence of words.                            *)
  MaxNest    (* Files a connection can have open: the length of bffiles.   *)

Part(kind, x) == [kind |-> kind, x |-> x]
Mark   == Part("mark", "~")
NoFile == Part("text", "file not found!")
Junk   == Part("text", "ff")   (* What is read from erased flash.          *)

(* Files are known by their place in the directory, as fatID is.           *)
Files(v) == 1..Len(Directory[v])

Texts == [kind : {"text"}, x : STRING]
Parts == [kind : {"text", "tilde", "call", "inc"}, x : STRING]
Entry == [name : STRING, parts : Seq(Parts), parsed : BOOLEAN, zipped : BOOLEAN]

(* A variable that a page names is one that web_int_callback knows.        *)
ASSUME WebImageAssumption ==
  /\ Output \in [DOMAIN Output -> Seq(Texts)]
  /\ \A v \in Images :
       /\ Directory[v] \in Seq(Entry)
       /\ \A f \in Files(v) : \A i \in 1..Len(Directory[v][f].parts) :
            LET p == Directory[v][f].parts[i]
            IN p.kind = "call" => p.x \in DOMAIN Output

(* The words a part takes on the disk.                                     *)
Words(p) ==
  CASE p.kind = "text"  -> <<p>>
    [] p.kind = "tilde" -> <<Mark, Mark>>
    [] OTHER            -> <<Mark, p, Mark>>

FileData == [v \in Images |-> [f \in Files(v) |->
  FlattenSeq([i \in 1..Len(Directory[v][f].parts) |-> Words(Directory[v][f].parts[i])])]]

(* Word 0 stands for the header of the disk, the hashes and the FAT.       *)
FileAddr == [v \in Images |-> LET A[f \in Files(v)] ==
  IF f = 1 THEN 1 ELSE A[f - 1] + Len(FileData[v][f - 1]) IN A]

ImageData == [v \in Images |->
  <<Junk>> \o FlattenSeq([f \in Files(v) |-> FileData[v][f]])]

(* The file an open finds: the first of that name, else the default page   *)
(* of the folder of that name, which webserver_open_file tries next.       *)
Named(v, name) == {f \in Files(v) : Directory[v][f].name = name}
Find(v, name) == CHOOSE f \in Named(v, name) : \A g \in Named(v, name) : f <= g

(***************************************************************************)
(* What a page should be: its parts in order, variables replaced by their  *)
(* output and includes by the file, with at most d files open at a time.   *)
(* Page[d] is defined for the files that d open files are enough for.      *)
(***************************************************************************)
IncludeOf(v, p) ==
  IF Named(v, p.x) = {} THEN 0
  ELSE IF Directory[v][Find(v, p.x)].zipped THEN 0 ELSE Find(v, p.x)

Fits[d \in 0..MaxNest] == [v \in Images |-> [f \in Files(v) |->
  d > 0 /\ (Directory[v][f].parsed =>
    \A i \in 1..Len(Directory[v][f].parts) : LET p == Directory[v][f].parts[i] IN
      (p.kind = "inc" /\ IncludeOf(v, p) # 0) => Fits[d - 1][v][IncludeOf(v, p)])]]

Page[d \in 0..MaxNest] == [v \in Images |-> [f \in Files(v) |->
  IF ~Fits[d][v][f] THEN <<>>
  ELSE IF ~Directory[v][f].parsed THEN FileData[v][f]
  ELSE FlattenSeq([i \in 1..Len(Directory[v][f].parts) |->
         LET p == Directory[v][f].parts[i] IN
         CASE p.kind = "text"  -> <<p>>
           [] p.kind = "tilde" -> <<Mark>>
           [] p.kind = "call"  -> Output[p.x]
           [] OTHER -> IF IncludeOf(v, p) = 0 THEN <<NoFile>>
                       ELSE Page[d - 1][v][IncludeOf(v, p)]])]]

(* The same for MaxNest, as tables.                                        *)
PageFits == [v \in Images |-> [f \in Files(v) |-> Fits[MaxNest][v][f]]]
WholePage == [v \in Images |-> [f \in Files(v) |-> Page[MaxNest][v][f]]]
=============================================================================
