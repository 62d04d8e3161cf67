---------------------------- MODULE WebSrvProofs ----------------------------
(***************************************************************************)
(* Theorems about WebSrv, for any images, connections, handles and depth   *)
(* of includes: no handle of the web disk is ever lost or shared, and one  *)
(* is always free; every run is well typed; only a whole disk is served;   *)
(* what is announced of a file is sent; and a page arrives as its image    *)
(* has it.                                                                 *)
(***************************************************************************)
EXTENDS WebSrv, SeqFacts, TLAPS

(* The words of the disk: texts, marks, and the names between marks.       *)
Word == {p \in Parts \cup {Mark, Junk} : p.kind = "call" => p.x \in DOMAIN Output}

LEMMA WordFacts ==
  /\ Mark \in Word /\ Junk \in Word
  /\ Mark.kind = "mark"
<1>1. Mark.kind = "mark" /\ Junk.kind = "text"
  BY DEF Mark, Junk, Part
<1> QED BY <1>1 DEF Word

LEMMA FileWords ==
  ASSUME NEW v \in Images, NEW f \in Files(v)
  PROVE  FileData[v][f] \in Seq(Word)
<1> DEFINE ps == Directory[v][f].parts
           ws == [i \in 1..Len(ps) |-> Words(ps[i])]
<1>1. Directory[v][f] \in Entry
  BY WebImageAssumption DEF Files
<1>2. ps \in Seq(Parts)
  BY <1>1 DEF Entry
<1>3. ASSUME NEW i \in 1..Len(ps)
      PROVE  Words(ps[i]) \in Seq(Word)
  <2> DEFINE p == ps[i]
  <2>1. p \in Parts /\ (p.kind = "call" => p.x \in DOMAIN Output)
    BY <1>2, WebImageAssumption
  <2> HIDE DEF p
  <2>2. p \in Word
    BY <2>1 DEF Word
  <2>3. Words(p) \in {<<p>>, <<Mark, Mark>>, <<Mark, p, Mark>>}
    BY DEF Words
  <2>4. Words(p) \in Seq(Word)
    <3>1. Mark \in Word
      BY WordFacts
    <3>2. <<p>> \in Seq(Word) /\ <<Mark, Mark>> \in Seq(Word)
          /\ <<Mark, p, Mark>> \in Seq(Word)
      BY <2>2, <3>1
    <3> QED BY <2>3, <3>2
  <2> QED BY <2>4 DEF p
<1>4. ws \in Seq(Seq(Word))
  <2> HIDE DEF ps
  <2> QED BY <1>2, <1>3
<1>5. FileData[v][f] = FlattenSeq(ws)
  BY DEF FileData
<1> HIDE DEF ws
<1> QED BY <1>4, <1>5, FlattenFacts

(* Where the files of an image begin, and that their words are there.      *)
LEMMA FilePlaces ==
  ASSUME NEW v \in Images
  PROVE  /\ ImageData[v] \in Seq(Word) /\ Len(ImageData[v]) >= 1
         /\ \A f \in Files(v) :
              /\ FileAddr[v][f] \in Nat \ {0}
              /\ FileAddr[v][f] + Len(FileData[v][f]) <= Len(ImageData[v])
              /\ \A i \in 1..Len(FileData[v][f]) :
                   ImageData[v][FileAddr[v][f] + i] = FileData[v][f][i]
<1> DEFINE n == Len(Directory[v])
           fs == FileData[v]
<1>1. n \in Nat /\ Files(v) = 1..n
  BY WebImageAssumption DEF Files
<1>2. fs \in Seq(Seq(Word)) /\ Len(fs) = n
  <2>1. fs = [f \in Files(v) |-> FileData[v][f]]
    BY DEF FileData
  <2> HIDE DEF fs
  <2>2. \A f \in 1..n : fs[f] \in Seq(Word)
    BY <1>1, FileWords DEF fs
  <2>3. fs \in [1..n -> Seq(Word)]
    <3>1. fs = [f \in 1..n |-> FileData[v][f]]
      BY <1>1, <2>1
    <3>2. \A f \in 1..n : FileData[v][f] \in Seq(Word)
      BY <1>1, FileWords
    <3> QED BY <3>1, <3>2
  <2> HIDE DEF n
  <2> QED BY <1>1, <2>3
<1>3. ImageData[v] = <<Junk>> \o FlattenSeq(fs)
  <2>1. fs = [f \in Files(v) |-> FileData[v][f]]
    BY DEF FileData
  <2> QED BY <2>1 DEF ImageData
<1> HIDE DEF fs
<1>4. PICK F : Joined(Word, fs, F) /\ FlattenSeq(fs) = F[Len(fs)]
  BY <1>2, FlattenFacts
<1>5. FlattenSeq(fs) \in Seq(Word)
  BY <1>2, FlattenFacts
<1> DEFINE flat == FlattenSeq(fs)
<1>6. ImageData[v] \in Seq(Word) /\ Len(ImageData[v]) = 1 + Len(flat)
  BY <1>3, <1>5, WordFacts
<1> HIDE DEF flat, n
<1>7. /\ \A f \in 0..n : F[f] \in Seq(Word)
      /\ \A f \in 1..n : F[f] = F[f - 1] \o fs[f]
      /\ F[0] = <<>> /\ flat = F[n]
  BY <1>2, <1>4 DEF Joined, flat
<1> DEFINE L == [f \in 0..n |-> Len(F[f])]
           l == [f \in 1..n |-> Len(fs[f])]
<1>8. /\ \A f \in 0..n : L[f] = Len(F[f]) /\ L[f] \in Nat
      /\ \A f \in 1..n : l[f] = Len(fs[f]) /\ l[f] \in Nat /\ L[f] = L[f - 1] + l[f]
      /\ L[0] = 0 /\ L[n] = Len(flat)
  <2>1. \A f \in 0..n : L[f] = Len(F[f]) /\ L[f] \in Nat
    BY <1>7
  <2>2. \A f \in 1..n : l[f] = Len(fs[f]) /\ l[f] \in Nat
    BY <1>2
  <2>3. L[0] = 0 /\ L[n] = Len(flat)
    BY <1>1, <1>7
  <2>4. ASSUME NEW f \in 1..n PROVE L[f] = L[f - 1] + l[f]
    <3>1. f - 1 \in 0..n /\ f \in 1..Len(fs) /\ f \in 0..n
      BY <1>1, <1>2
    <3>2. F[f - 1] \in Seq(Word) /\ fs[f] \in Seq(Word) /\ F[f] = F[f - 1] \o fs[f]
      <4>1. fs[f] \in Seq(Word)
        BY <1>2, <3>1
      <4> QED BY <1>7, <3>1, <4>1
    <3>3. Len(F[f]) = Len(F[f - 1]) + Len(fs[f])
      BY <3>2
    <3> QED BY <3>1, <3>3
  <2> QED BY <2>1, <2>2, <2>3, <2>4
<1> HIDE DEF L, l
(* The joins only grow.                                                    *)
<1>9. \A f \in 0..n : L[f] <= L[n]
  <2> DEFINE bad == {k \in 0..n : ~(L[n - k] <= L[n])}
  <2>2. bad \in SUBSET Nat
    BY <1>1
  <2>3. ASSUME bad # {} PROVE FALSE
    <3>1. PICK k \in bad : \A j \in bad : k <= j
      <4> HIDE DEF bad
      <4> QED BY <2>2, <2>3, LeastElement
    <3>2. k \in 0..n /\ ~(L[n - k] <= L[n])
      BY <3>1
    <3>3. k # 0
      BY <1>1, <1>8, <3>2
    <3>4. k - 1 \in 0..n /\ ~(k <= k - 1)
      BY <1>1, <3>2, <3>3
    <3>5. L[n - (k - 1)] <= L[n]
      BY <3>1, <3>4
    <3>6. n - (k - 1) \in 1..n /\ (n - (k - 1)) - 1 = n - k /\ n - k \in 0..n /\ n \in 0..n
      BY <1>1, <3>2, <3>3
    <3>7. L[n - (k - 1)] = L[n - k] + l[n - (k - 1)]
      BY <1>8, <3>6
    <3>8. l[n - (k - 1)] \in Nat /\ L[n - k] \in Nat /\ L[n] \in Nat
      BY <1>8, <3>6
    <3> QED BY <1>1, <3>2, <3>5, <3>7, <3>8
  <2>4. ASSUME NEW f \in 0..n PROVE L[f] <= L[n]
    <3>1. n - f \in 0..n /\ n - (n - f) = f
      BY <1>1
    <3> QED BY <2>3, <3>1
  <2> QED BY <2>4
<1> DEFINE Def(g) == [f \in 1..n |-> IF f = 1 THEN 1 ELSE g[f - 1] + l[f - 1]]
           A == FileAddr[v]
           k == [f \in 1..n |-> 1 + L[f - 1]]
<1>10. A = Def(A)
  <2>1. ASSUME NEW f \in 1..n
        PROVE  1 + L[f - 1] = IF f = 1 THEN 1 ELSE k[f - 1] + l[f - 1]
    <3>1. CASE f = 1
      BY <1>8, <3>1
    <3>2. CASE f # 1
      <4>1. f - 1 \in 1..n /\ f - 1 \in 0..n /\ (f - 1) - 1 \in 0..n
        BY <1>1, <3>2
      <4>2. k[f - 1] = 1 + L[(f - 1) - 1]
        BY <4>1
      <4> HIDE DEF k
      <4>3. L[f - 1] = L[(f - 1) - 1] + l[f - 1] /\ L[(f - 1) - 1] \in Nat /\ l[f - 1] \in Nat
        BY <1>8, <4>1
      <4> QED BY <1>1, <3>2, <4>2, <4>3
    <3> QED BY <3>1, <3>2
  <2>2. k = Def(k)
    BY <2>1
  <2>3. A = CHOOSE g : g = [f \in 1..n |-> IF f = 1 THEN 1 ELSE g[f - 1] + Len(fs[f - 1])]
    BY <1>1 DEF FileAddr, fs
  <2>4. ASSUME NEW g
        PROVE  Def(g) = [f \in 1..n |-> IF f = 1 THEN 1 ELSE g[f - 1] + Len(fs[f - 1])]
    <3>1. ASSUME NEW f \in 1..n, f # 1 PROVE l[f - 1] = Len(fs[f - 1])
      <4>1. f - 1 \in 1..n
        BY <1>1, <3>1
      <4> QED BY <1>8, <4>1
    <3> QED BY <3>1
  <2> HIDE DEF Def, k, A
  <2>5. \A g : (g = Def(g)) <=> (g = [f \in 1..n |-> IF f = 1 THEN 1 ELSE g[f - 1] + Len(fs[f - 1])])
    BY <2>4
  <2> QED BY <2>2, <2>3, <2>5
<1> HIDE DEF A
<1>11. \A f \in 1..n : A[f] = 1 + L[f - 1]
  <2> DEFINE bad == {f \in 1..n : A[f] # 1 + L[f - 1]}
  <2>1. bad \in SUBSET Nat
    OBVIOUS
  <2>2. ASSUME bad # {} PROVE FALSE
    <3>1. PICK f \in bad : \A j \in bad : f <= j
      <4> HIDE DEF bad
      <4> QED BY <2>1, <2>2, LeastElement
    <3>2. f \in 1..n /\ A[f] # 1 + L[f - 1]
      BY <3>1
    <3>3. A[f] = IF f = 1 THEN 1 ELSE A[f - 1] + l[f - 1]
      BY <1>10, <3>2
    <3>4. CASE f = 1
      BY <1>8, <3>2, <3>3, <3>4
    <3>5. CASE f # 1
      <4>1. f - 1 \in 1..n /\ f - 1 \in 0..n /\ (f - 1) - 1 \in 0..n /\ ~(f <= f - 1)
        BY <1>1, <3>2, <3>5
      <4>2. A[f - 1] = 1 + L[(f - 1) - 1]
        BY <3>1, <4>1
      <4>3. L[f - 1] = L[(f - 1) - 1] + l[f - 1] /\ L[(f - 1) - 1] \in Nat /\ l[f - 1] \in Nat
        BY <1>8, <4>1
      <4> QED BY <1>1, <3>2, <3>3, <3>5, <4>2, <4>3
    <3> QED BY <3>4, <3>5
  <2> QED BY <2>2
<1>12. ASSUME NEW f \in 1..n
       PROVE  A[f] \in Nat \ {0} /\ A[f] + Len(fs[f]) <= Len(ImageData[v])
  <2>1. f - 1 \in 0..n /\ f \in 0..n /\ n \in 0..n
    BY <1>1
  <2>2. L[f] = L[f - 1] + l[f] /\ A[f] = 1 + L[f - 1] /\ l[f] = Len(fs[f])
    BY <1>8, <1>11, <2>1
  <2>3. L[f] <= L[n] /\ L[f - 1] \in Nat /\ l[f] \in Nat /\ L[n] \in Nat
    BY <1>8, <1>9, <2>1
  <2>4. Len(ImageData[v]) = 1 + L[n]
    BY <1>6, <1>8
  <2> QED BY SMTT(30), <2>2, <2>3, <2>4
<1>13. Len(ImageData[v]) >= 1
  BY <1>5, <1>6 DEF flat
<1>14. ASSUME NEW f \in 1..n, NEW i \in 1..Len(fs[f])
       PROVE  ImageData[v][A[f] + i] = fs[f][i]
  <2>1. f \in 1..Len(fs) /\ f - 1 \in 0..n /\ n \in 0..n
    BY <1>1, <1>2
  <2>2. /\ F[Len(fs)][Len(F[f - 1]) + i] = fs[f][i]
        /\ Len(F[f]) = Len(F[f - 1]) + Len(fs[f]) /\ Len(F[f]) <= Len(F[Len(fs)])
        /\ F[f - 1] \in Seq(Word) /\ fs[f] \in Seq(Word) /\ F[Len(fs)] \in Seq(Word)
    <3>1. /\ F[f - 1] \in Seq(Word) /\ F[f] \in Seq(Word) /\ F[Len(fs)] \in Seq(Word)
          /\ fs[f] \in Seq(Word)
          /\ Len(F[f]) = Len(F[f - 1]) + Len(fs[f])
          /\ Len(F[f]) <= Len(F[Len(fs)])
          /\ Within(fs[f], Len(F[f - 1]), F[Len(fs)])
      <4>1. fs \in Seq(Seq(Word)) /\ Joined(Word, fs, F)
        BY <1>2, <1>4
      <4> QED BY <2>1, <4>1, JoinedAt
    <3> QED BY <3>1 DEF Within
  <2>3. flat = F[Len(fs)] /\ L[f - 1] = Len(F[f - 1]) /\ A[f] = 1 + L[f - 1]
    BY <1>2, <1>7, <1>8, <1>11, <2>1
  <2>4. ImageData[v] = <<Junk>> \o flat
    BY <1>3 DEF flat
  <2> DEFINE j == L[f - 1] + i
  <2>5. j \in 1..Len(flat)
    <3>1. /\ Len(F[f - 1]) \in Nat /\ Len(F[f]) \in Nat /\ Len(flat) \in Nat
          /\ Len(fs[f]) \in Nat /\ i \in 1..Len(fs[f])
      <4>1. flat = F[Len(fs)] /\ Len(F[Len(fs)]) \in Nat
        BY <2>2, <2>3
      <4> QED BY <1>2, <2>1, <2>2, <4>1
    <3>2. Len(F[f]) = Len(F[f - 1]) + Len(fs[f]) /\ Len(F[f]) <= Len(flat) /\ j = Len(F[f - 1]) + i
      BY <2>2, <2>3
    <3> DEFINE a == Len(F[f - 1])
               b == Len(F[f])
               d == Len(flat)
               m == Len(fs[f])
    <3>3. a \in Nat /\ b \in Nat /\ d \in Nat /\ m \in Nat /\ i \in 1..m
          /\ b = a + m /\ b <= d /\ j = a + i
      BY <3>1, <3>2
    <3> HIDE DEF a, b, d, m, j
    <3>4. j \in 1..d
      BY <3>3
    <3> QED BY <3>4 DEF d
  <2>6. (<<Junk>> \o flat)[1 + j] = flat[j]
    <3>1. flat \in Seq(Word) /\ <<Junk>> \in Seq(Word)
      BY <2>2, <2>3, WordFacts
    <3> QED BY <2>5, <3>1
  <2>7. A[f] + i = 1 + j
    BY <2>2, <2>3
  <2> QED BY <2>2, <2>3, <2>4, <2>6, <2>7
<1> QED BY <1>1, <1>6, <1>12, <1>13, <1>14 DEF A, fs

(* The blocks of an image are as many as its words need.                   *)
LEMMA BlockFacts ==
  ASSUME NEW v \in Images
  PROVE  /\ Blocks(v) \in 1..DiskBlocks
         /\ \A a \in Nat : a < Len(ImageData[v]) => a \div BlockWords \in 0..Blocks(v) - 1
<1> DEFINE n == Len(ImageData[v])
<1>1. n \in Nat /\ n >= 1
  BY FilePlaces
<1>2. BlockWords \in Nat \ {0} /\ Blocks(v) <= DiskBlocks /\ DiskBlocks \in Nat
  BY WebFSAssumption
<1>3. Blocks(v) = (n + BlockWords - 1) \div BlockWords
  BY DEF Blocks
<1> HIDE DEF n
<1>4. Blocks(v) \in Nat /\ Blocks(v) >= 1
  BY <1>1, <1>2, <1>3
<1>5. ASSUME NEW a \in Nat, a < n PROVE a \div BlockWords \in 0..Blocks(v) - 1
  <2>1. a \div BlockWords \in Nat
    BY <1>2
  <2>2. a + BlockWords <= n + BlockWords - 1
    BY <1>1, <1>2, <1>5
  <2>3. (a + BlockWords) \div BlockWords = a \div BlockWords + 1
    BY <1>2
  <2>4. (a + BlockWords) \div BlockWords <= (n + BlockWords - 1) \div BlockWords
    BY <1>1, <1>2, <2>2
  <2> QED BY <1>3, <1>4, <2>1, <2>3, <2>4
<1> QED BY <1>2, <1>4, <1>5 DEF n
-----------------------------------------------------------------------------
(* The files of a connection and the table of open files.                  *)
IsTable(st) == st = [h \in Handles |-> st[h]]
Sound(w) ==
  /\ w = [stub |-> w.stub, files |-> w.files, flags |-> w.flags]
  /\ IsTable(w.stub) /\ w.stub[MaxOpen] = Free
  /\ w.files \in [Slots -> Slot]

Has(w, h) == \E i \in Slots : w.files[i] = h

(* The files of a connection are open, each through a handle of its own.   *)
Own(w) ==
  /\ \A i \in Slots : w.files[i] \in Handles => w.stub[w.files[i]] # Free
  /\ \A i, j \in Slots : (w.files[i] \in Handles /\ w.files[i] = w.files[j]) => i = j

(* New files are opened through free handles, and those of other           *)
(* connections stay as they are.                                           *)
Apart(w, v) ==
  \A h \in Handles :
    /\ Has(v, h) => Has(w, h) \/ w.stub[h] = Free
    /\ (w.stub[h] # Free /\ ~Has(w, h)) => v.stub[h] = w.stub[h]

(* A change of a connection.  What is open after it belongs to the         *)
(* connection, or it was open before and is another's.                     *)
Keeps(w, v) ==
  /\ Sound(v)
  /\ \A h \in Handles : v.stub[h] # Free => Has(v, h) \/ (w.stub[h] # Free /\ ~Has(w, h))
  /\ Own(w) => Own(v) /\ Apart(w, v)

LEMMA KeepsItself ==
  ASSUME NEW w, Sound(w)
  PROVE  Keeps(w, w)
  BY DEF Keeps, Apart

LEMMA KeepsOn ==
  ASSUME NEW w, NEW v, NEW u, Keeps(w, v), Keeps(v, u)
  PROVE  Keeps(w, u)
<1>1. \A h \in Handles : u.stub[h] # Free => Has(u, h) \/ (w.stub[h] # Free /\ ~Has(w, h))
  BY DEF Keeps
<1>2. Own(w) => Own(u) /\ Apart(w, u)
  BY DEF Keeps, Apart
<1> QED BY <1>1, <1>2 DEF Keeps

LEMMA Bounds ==
  /\ MaxOpen \in Handles /\ 0 \in Slots /\ MaxNest - 1 \in Slots
  /\ Invalid \in Slot /\ Handles \subseteq Slot /\ NODISK \in Slot /\ WEBCGI \in Slot /\ UPLOAD \in Slot
  /\ \A i \in Slots : i # 0 => i - 1 \in Slots
  /\ \A i \in Slots : i # MaxNest - 1 => i + 1 \in Slots
  /\ \A h \in Handles : h # Invalid /\ h # NODISK /\ h # WEBCGI /\ h # UPLOAD
  BY WebFSAssumption, WebSrvAssumption DEF Handles, Slots, Slot, Invalid, NODISK, WEBCGI, UPLOAD

LEMMA Flagging ==
  ASSUME NEW w, Sound(w), NEW f
  PROVE  Keeps(w, SetSCB(w, f)) /\ Keeps(w, ClrSCB(w, f))
<1>1. /\ SetSCB(w, f) = [stub |-> w.stub, files |-> w.files, flags |-> w.flags \cup f]
      /\ ClrSCB(w, f) = [stub |-> w.stub, files |-> w.files, flags |-> w.flags \ f]
  BY DEF SetSCB, ClrSCB, Sound
<1> QED BY <1>1 DEF Keeps, Sound, Has, Own, Apart

LEMMA Closing ==
  ASSUME NEW w, Sound(w)
  PROVE  Keeps(w, Close_web_conn(w))
<1> DEFINE st == [h \in Handles |-> IF \E i \in Slots : w.files[i] = h THEN Free ELSE w.stub[h]]
           v == Close_web_conn(w)
<1>1. v = [stub |-> st, files |-> NoFiles, flags |-> w.flags \ {"FOPEN", "FCALBACK"}]
  BY DEF Close_web_conn
<1>2. IsTable(st) /\ \A h \in Handles : st[h] # Free => w.stub[h] # Free /\ ~Has(w, h)
  BY DEF IsTable, Has
<1>3. st[MaxOpen] = Free
  BY Bounds DEF Sound
<1>4. NoFiles \in [Slots -> Slot]
  BY Bounds DEF NoFiles
<1>5. \A i \in Slots : NoFiles[i] \notin Handles
  BY Bounds DEF NoFiles
<1>6. \A h \in Handles : ~Has(w, h) => st[h] = w.stub[h]
  BY DEF Has
<1> HIDE DEF st, v
<1>7. Sound(v) /\ v.stub = st /\ v.files = NoFiles
  BY <1>1, <1>2, <1>3, <1>4 DEF Sound
<1>8. Own(v) /\ Apart(w, v)
  BY <1>5, <1>6, <1>7 DEF Own, Apart, Has
<1>9. Keeps(w, v)
  BY <1>2, <1>7, <1>8 DEF Keeps
<1> QED BY <1>9 DEF v

(* A file is put in place 0 of u, which is w with that file open.          *)
LEMMA Including ==
  ASSUME NEW w, Sound(w), NEW fp \in Slot, NEW u, Sound(u), u.files = w.files,
         \A h \in Handles \ {fp} : u.stub[h] = w.stub[h],
         fp \in Handles => w.stub[fp] = Free /\ u.stub[fp] # Free
  PROVE  Keeps(w, web_inc_fp(u, fp))
<1> DEFINE v == web_inc_fp(u, fp)
           last == w.files[MaxNest - 1]
           s2 == [g \in Handles |-> IF g = last THEN Free ELSE u.stub[g]]
           f2 == [i \in Slots |-> IF i = 0 THEN fp ELSE w.files[i - 1]]
           g2 == u.flags \cup {"FOPEN"}
<1>2. v = [stub |-> s2, files |-> f2, flags |-> g2]
  BY DEF web_inc_fp, WEBFSClose
<1>3. IsTable(s2) /\ s2[MaxOpen] = Free
  BY Bounds DEF IsTable, Sound
<1>4. f2 \in [Slots -> Slot]
  BY Bounds DEF Sound
<1>5. ASSUME NEW h \in Handles, s2[h] # Free
      PROVE  (\E i \in Slots : f2[i] = h) \/ (w.stub[h] # Free /\ ~Has(w, h))
  <2>1. h # last /\ u.stub[h] # Free
    BY <1>5
  <2>2. CASE h = fp
    BY <2>2, Bounds
  <2>3. CASE h # fp /\ Has(w, h)
    <3>1. PICK i \in Slots : w.files[i] = h
      BY <2>3 DEF Has
    <3>2. i # MaxNest - 1
      BY <2>1, <3>1
    <3>3. i + 1 \in Slots /\ i + 1 # 0 /\ (i + 1) - 1 = i
      BY <3>2, Bounds DEF Slots
    <3> QED BY <3>1, <3>3
  <2>4. CASE h # fp /\ ~Has(w, h)
    BY <2>1, <2>4
  <2> QED BY <2>2, <2>3, <2>4
<1>6. ASSUME Own(w)
      PROVE  /\ \A i \in Slots : f2[i] \in Handles => s2[f2[i]] # Free
             /\ \A i, j \in Slots : (f2[i] \in Handles /\ f2[i] = f2[j]) => i = j
             /\ \A h \in Handles, i \in Slots : f2[i] = h => Has(w, h) \/ w.stub[h] = Free
             /\ \A h \in Handles : (w.stub[h] # Free /\ ~Has(w, h)) => s2[h] = w.stub[h]
  <2>1. \A i \in Slots : w.files[i] \in Handles => w.stub[w.files[i]] # Free /\ w.files[i] # fp
    BY <1>6 DEF Own
  <2>2. \A i \in Slots : i # 0 => i - 1 \in Slots /\ i - 1 # MaxNest - 1 /\ f2[i] = w.files[i - 1]
    BY Bounds DEF Slots
  <2>3. f2[0] = fp
    BY Bounds
  <2>4. last \in Slot /\ (last \in Handles => last # fp)
    BY <2>1, Bounds DEF Sound
  <2>5. ASSUME NEW i \in Slots, f2[i] \in Handles
        PROVE  s2[f2[i]] # Free
    <3>1. CASE i = 0
      BY <2>3, <2>4, <2>5, <3>1
    <3>2. CASE i # 0
      <4>1. w.files[i - 1] # last
        BY <1>6, <2>2, <2>5, <3>2, Bounds DEF Own
      <4> QED BY <2>1, <2>2, <2>5, <3>2, <4>1
    <3> QED BY <3>1, <3>2
  <2>6. ASSUME NEW i \in Slots, NEW j \in Slots, f2[i] \in Handles, f2[i] = f2[j]
        PROVE  i = j
    <3>1. CASE i # 0 /\ j # 0
      <4>1. i - 1 = j - 1
        BY <1>6, <2>2, <2>6, <3>1 DEF Own
      <4> QED BY <4>1 DEF Slots
    <3>2. CASE i = 0 /\ j # 0
      BY <2>1, <2>2, <2>3, <2>6, <3>2
    <3>3. CASE i # 0 /\ j = 0
      BY <2>1, <2>2, <2>3, <2>6, <3>3
    <3> QED BY <3>1, <3>2, <3>3
  <2>7. ASSUME NEW h \in Handles, NEW i \in Slots, f2[i] = h
        PROVE  Has(w, h) \/ w.stub[h] = Free
    BY <2>2, <2>3, <2>7 DEF Has
  <2>8. ASSUME NEW h \in Handles, w.stub[h] # Free, ~Has(w, h)
        PROVE  s2[h] = w.stub[h]
    <3>1. h # last /\ h # fp
      BY <2>8, Bounds DEF Has
    <3> QED BY <2>8, <3>1
  <2> HIDE DEF f2, s2
  <2> QED BY <2>5, <2>6, <2>7, <2>8
<1> HIDE DEF v, s2, f2, g2
<1>7. Sound(v) /\ v.stub = s2 /\ v.files = f2
  BY <1>2, <1>3, <1>4 DEF Sound
<1>8. Own(w) => Own(v) /\ Apart(w, v)
  BY <1>6, <1>7 DEF Own, Apart, Has
<1>9. Keeps(w, v)
  BY <1>5, <1>7, <1>8 DEF Keeps, Has
<1> QED BY <1>9 DEF v

LEMMA Leaving ==
  ASSUME NEW w, Sound(w)
  PROVE  Keeps(w, web_inc_fclose(w))
<1> DEFINE v == web_inc_fclose(w)
           s2 == [g \in Handles |-> IF g = w.files[0] THEN Free ELSE w.stub[g]]
           f2 == [i \in Slots |-> IF i = MaxNest - 1 THEN Invalid ELSE w.files[i + 1]]
           g2 == IF f2[0] = Invalid THEN w.flags \ {"FOPEN", "FCALBACK"} ELSE w.flags
<1>1. v = [stub |-> s2, files |-> f2, flags |-> g2]
  BY DEF web_inc_fclose, WEBFSClose
<1>2. IsTable(s2) /\ s2[MaxOpen] = Free
  BY Bounds DEF IsTable, Sound
<1>3. f2 \in [Slots -> Slot]
  BY Bounds DEF Sound
<1>4. ASSUME NEW h \in Handles, s2[h] # Free
      PROVE  (\E i \in Slots : f2[i] = h) \/ (w.stub[h] # Free /\ ~Has(w, h))
  <2>1. h # w.files[0] /\ w.stub[h] # Free
    BY <1>4
  <2>2. CASE Has(w, h)
    <3>1. PICK i \in Slots : w.files[i] = h
      BY <2>2 DEF Has
    <3>2. i - 1 \in Slots /\ i - 1 # MaxNest - 1 /\ (i - 1) + 1 = i
      BY <2>1, <3>1, Bounds, WebSrvAssumption DEF Slots
    <3> QED BY <3>1, <3>2
  <2> QED BY <2>1, <2>2
<1>5. ASSUME Own(w)
      PROVE  /\ \A i \in Slots : f2[i] \in Handles => s2[f2[i]] # Free
             /\ \A i, j \in Slots : (f2[i] \in Handles /\ f2[i] = f2[j]) => i = j
             /\ \A h \in Handles, i \in Slots : f2[i] = h => Has(w, h)
             /\ \A h \in Handles : (w.stub[h] # Free /\ ~Has(w, h)) => s2[h] = w.stub[h]
  <2>1. \A i \in Slots : f2[i] \in Handles =>
          i + 1 \in Slots /\ i + 1 # 0 /\ f2[i] = w.files[i + 1]
    BY Bounds, WebSrvAssumption DEF Slots
  <2>2. ASSUME NEW i \in Slots, f2[i] \in Handles
        PROVE  s2[f2[i]] # Free
    <3>1. w.files[i + 1] # w.files[0] /\ w.stub[w.files[i + 1]] # Free
      BY <1>5, <2>1, <2>2, Bounds DEF Own
    <3> QED BY <2>1, <2>2, <3>1
  <2>3. ASSUME NEW i \in Slots, NEW j \in Slots, f2[i] \in Handles, f2[i] = f2[j]
        PROVE  i = j
    <3>1. i + 1 = j + 1
      BY <1>5, <2>1, <2>3 DEF Own
    <3> QED BY <3>1 DEF Slots
  <2>4. ASSUME NEW h \in Handles, NEW i \in Slots, f2[i] = h
        PROVE  Has(w, h)
    BY <2>1, <2>4 DEF Has
  <2>5. ASSUME NEW h \in Handles, w.stub[h] # Free, ~Has(w, h)
        PROVE  s2[h] = w.stub[h]
    BY <2>5, Bounds DEF Has
  <2> HIDE DEF f2, s2
  <2> QED BY <2>2, <2>3, <2>4, <2>5
<1> HIDE DEF v, s2, f2, g2
<1>7. Sound(v) /\ v.stub = s2 /\ v.files = f2
  BY <1>1, <1>2, <1>3 DEF Sound
<1>8. Own(w) => Own(v) /\ Apart(w, v)
  BY <1>5, <1>7 DEF Own, Apart, Has
<1>9. Keeps(w, v)
  BY <1>4, <1>7, <1>8 DEF Keeps, Has
<1> QED BY <1>9 DEF v

(* An open file is told from a free place of the table.                    *)
LEMMA OpenIsNotFree ==
  ASSUME NEW a, NEW r
  PROVE  [addr |-> a, rem |-> r] # Free
<1>1. "rem" \in DOMAIN [addr |-> a, rem |-> r] /\ "rem" \notin DOMAIN Free
  BY DEF Free
<1> QED BY <1>1

(* WEBFSGetArray moves a file on, and opens nothing.                       *)
LEMMA Reading ==
  ASSUME NEW w, Sound(w), NEW h, h \in Handles => Has(w, h), NEW n
  PROVE  Keeps(w, [w EXCEPT !.stub = Advance(@, h, n)])
<1> DEFINE st == Advance(w.stub, h, n)
           v == [w EXCEPT !.stub = Advance(@, h, n)]
<1>1. v = [stub |-> st, files |-> w.files, flags |-> w.flags]
  BY DEF Sound
<1>2. IsTable(st) /\ \A g \in Handles : w.stub[g] = Free => st[g] = Free
  BY DEF Advance, IsTable, Sound
<1>4. \A g \in Handles : w.stub[g] # Free => st[g] # Free
  <2>1. [addr |-> w.stub[h].addr + n, rem |-> w.stub[h].rem - n] # Free
    BY OpenIsNotFree
  <2> QED BY <2>1 DEF Advance, IsTable, Sound
<1>3. st[MaxOpen] = Free
  BY <1>2, Bounds DEF Sound
<1>7. \A g \in Handles : ~Has(w, g) => st[g] = w.stub[g]
  BY DEF Advance, IsTable, Sound
<1> HIDE DEF v, st
<1>5. Sound(v) /\ v.stub = st /\ v.files = w.files
  BY <1>1, <1>2, <1>3 DEF Sound
<1>6. Own(w) => Own(v) /\ Apart(w, v)
  BY <1>4, <1>5, <1>7 DEF Own, Apart, Has
<1>9. Keeps(w, v)
  BY <1>2, <1>5, <1>6 DEF Keeps, Has
<1> QED BY <1>9 DEF v

(* The search for a free handle ends within the table.                     *)
LEMMA Searching ==
  ASSUME NEW w, Sound(w)
  PROVE  /\ FreeHandle(w.stub) \in Handles /\ w.stub[FreeHandle(w.stub)] = Free
         /\ HasHandle(w.stub) => FreeHandle(w.stub) # MaxOpen
<1> DEFINE free == {h \in Handles : w.stub[h] = Free}
<1>1. free \in SUBSET Nat /\ free # {}
  BY Bounds, WebFSAssumption DEF Handles, Sound
<1>2. PICK h \in free : \A g \in free : h <= g
  BY <1>1, LeastElement
<1>3. h \in Handles /\ w.stub[h] = Free /\ \A g \in 1..h - 1 : w.stub[g] # Free
  <2>1. \A g \in 1..h - 1 : g \in Handles /\ ~(h <= g)
    BY <1>1, <1>2, WebFSAssumption DEF Handles
  <2> QED BY <1>2, <2>1
<1>4. FreeHandle(w.stub) \in Handles /\ w.stub[FreeHandle(w.stub)] = Free
  BY <1>3 DEF FreeHandle
<1>5. HasHandle(w.stub) => FreeHandle(w.stub) # MaxOpen
  BY WebFSAssumption DEF HasHandle
<1> QED BY <1>4, <1>5

LEMMA Opening ==
  ASSUME NEW w, Sound(w), NEW name, HasHandle(w.stub)
  PROVE  Keeps(w, web_inc_fopen(w, name))
<1> DEFINE f == Lookup(name)
           h == FreeHandle(w.stub)
           st == WEBFSOpen(w.stub, f)
           u == [w EXCEPT !.stub = WEBFSOpen(@, f)]
           v == web_inc_fp(u, h)
<1>1. h \in Handles /\ h # MaxOpen /\ w.stub[h] = Free
  BY Searching
<1> HIDE DEF h
<1>2. st = [w.stub EXCEPT ![h] = [addr |-> FileAddr[disk[0]][f], rem |-> Len(FileData[disk[0]][f])]]
  BY DEF WEBFSOpen, h
<1> HIDE DEF f, st
<1>3. IsTable(st) /\ st[h] # Free /\ \A g \in Handles \ {h} : st[g] = w.stub[g]
  BY <1>1, <1>2, OpenIsNotFree DEF IsTable, Sound
<1>4. st[MaxOpen] = Free
  BY <1>1, <1>3, Bounds DEF Sound
<1>8. u = [stub |-> st, files |-> w.files, flags |-> w.flags]
  BY DEF Sound, st
<1> HIDE DEF u
<1>9. /\ Sound(u) /\ u.files = w.files /\ u.stub[h] # Free
      /\ \A g \in Handles \ {h} : u.stub[g] = w.stub[g]
  BY <1>3, <1>4, <1>8 DEF Sound
<1>5. Keeps(w, v)
  BY <1>1, <1>9, Bounds, Including
<1> HIDE DEF v
<1>6. Keeps(w, SetSCB(v, {"FCALBACK"}))
  BY <1>5, Flagging, KeepsOn DEF Keeps
<1>7. web_inc_fopen(w, name) = IF Directory[disk[0]][f].parsed THEN SetSCB(v, {"FCALBACK"}) ELSE v
  BY DEF web_inc_fopen, v, u, f, h
<1> QED BY <1>5, <1>6, <1>7

LEMMA OpeningFile ==
  ASSUME NEW w, Sound(w), NEW name, Opens(w, name)
  PROVE  Keeps(w, webserver_open_file(w, name))
<1>1. CASE Builtin(name) # Invalid
  <2>1. Builtin(name) \in Slot \ Handles
    BY Bounds, <1>1 DEF Builtin
  <2> DEFINE fp == Builtin(name)
  <2> HIDE DEF fp
  <2>4. Keeps(w, web_inc_fp(w, fp))
    BY <2>1, Including DEF fp
  <2> QED BY <1>1, <2>4 DEF webserver_open_file, fp
<1>2. CASE Builtin(name) = Invalid
  <2>1. HasHandle(w.stub)
    BY <1>2 DEF Opens, CanOpen
  <2> QED BY <1>2, <2>1, Opening DEF webserver_open_file
<1> QED BY <1>1, <1>2

LEMMA Flagging2 ==
  ASSUME NEW w, NEW v, Keeps(w, v), NEW f
  PROVE  Keeps(w, SetSCB(v, f)) /\ Keeps(w, ClrSCB(v, f))
<1>1. Keeps(v, SetSCB(v, f)) /\ Keeps(v, ClrSCB(v, f))
  BY Flagging DEF Keeps
<1> QED BY <1>1, KeepsOn

LEMMA Answering ==
  ASSUME NEW w, Sound(w), NEW status, NEW redir, NEW len
  PROVE  Keeps(w, web_print_headers(w, status, redir, len))
<1> DEFINE c == web_inc_fclose(w)
           u == ClrSCB(c, {"FCALBACK", "RXDATA", "FCLOSE"})
           v == IF status = 200 \/ redir THEN w ELSE ErrorFile(w, status)
<1>1. Keeps(w, c)
  BY Leaving
<1>2. Keeps(w, u) /\ u.stub = c.stub
  <2>1. u.stub = c.stub
    BY <1>1 DEF ClrSCB, Keeps, Sound
  <2> QED BY <1>1, <2>1, Flagging2
<1>3. Keeps(w, ErrorFile(w, status))
  <2>1. CASE HasErrorPage(w, status)
    <3>1. HasHandle(u.stub)
      BY <1>2, <2>1 DEF HasErrorPage, CanOpen
    <3> DEFINE e == web_inc_fopen(u, ErrorPage(status))
    <3>2. ErrorFile(w, status) = e
      BY <2>1 DEF ErrorFile
    <3> HIDE DEF u
    <3>3. Keeps(u, e)
      BY <1>2, <3>1, Opening DEF Keeps
    <3> HIDE DEF e
    <3> QED BY <1>2, <3>2, <3>3, KeepsOn
  <2>2. CASE ~HasErrorPage(w, status)
    BY <1>2, <2>2 DEF ErrorFile
  <2> QED BY <2>1, <2>2
<1>4. Keeps(w, v)
  BY <1>3, KeepsItself
<1> DEFINE e == web_print_headers(w, status, redir, len)
<1>5. \/ e = v \/ e = SetSCB(v, {"DISCONNECT", "CLOSED"})
      \/ e = SetSCB(v, {"FCLOSE", "DISCONNECT", "CLOSED"})
  BY DEF web_print_headers
<1> HIDE DEF v, e
<1>6. Keeps(w, e)
  BY <1>4, <1>5, Flagging2
<1> QED BY <1>6 DEF e

LEMMA Ending ==
  ASSUME NEW w, NEW v, Keeps(w, v)
  PROVE  Keeps(w, EndCallback(v))
<1>1. Keeps(w, Close_web_conn(v))
  BY Closing, KeepsOn DEF Keeps
<1>2. Keeps(w, SetSCB(Close_web_conn(v), {"DISCONNECT", "CLOSED"}))
  BY <1>1, Flagging2
<1>3. Keeps(w, SetSCB(v, {"CLOSED"}))
  BY Flagging2
<1> QED BY <1>2, <1>3 DEF EndCallback

LEMMA AtEndKeeps ==
  ASSUME NEW w, NEW v, Keeps(w, v)
  PROVE  Keeps(w, AtEnd(v))
<1> DEFINE u == web_inc_fclose(v)
<1>1. Keeps(w, u)
  BY Leaving, KeepsOn DEF Keeps
<1> HIDE DEF u
<1>2. Keeps(w, SetSCB(u, {"FCLOSE", "DISCONNECT"}))
  BY <1>1, Flagging2
<1>3. AtEnd(v) = IF "FOPEN" \in u.flags THEN u ELSE SetSCB(u, {"FCLOSE", "DISCONNECT"})
  BY DEF AtEnd, u
<1> QED BY <1>1, <1>2, <1>3

LEMMA Writing ==
  ASSUME NEW w, NEW v, Keeps(w, v), NEW text
  PROVE  Keeps(w, SendVariable(v, text).w)
<1>1. Keeps(w, SetSCB(v, {"RETRYCB"})) /\ Keeps(w, ClrSCB(v, {"RETRYCB"}))
  BY Flagging2
<1> HIDE DEF SetSCB, ClrSCB
<1>2. SendVariable(v, text).w \in {SetSCB(v, {"RETRYCB"}), ClrSCB(v, {"RETRYCB"})}
  BY DEF SendVariable, Turned
<1> QED BY <1>1, <1>2

LEMMA CallingBack ==
  ASSUME NEW w, NEW v, Keeps(w, v), NEW str
  PROVE  Keeps(w, SendCallback(v, str).w)
<1>1. CASE Len(str) = 1 /\ str[1].kind = "inc" /\ CanInclude(v, str[1].x)
  <2> DEFINE u == web_inc_fopen(v, str[1].x)
  <2>1. Sound(v) /\ HasHandle(v.stub)
    BY <1>1 DEF Keeps, CanInclude, CanOpen
  <2>2. Keeps(v, u)
    BY <2>1, Opening
  <2>3. SendCallback(v, str).w = u
    BY <1>1 DEF SendCallback, Turned
  <2> HIDE DEF u
  <2> QED BY <2>2, <2>3, KeepsOn
<1>2. CASE Len(str) = 1 /\ str[1].kind = "inc" /\ ~CanInclude(v, str[1].x)
  <2>1. SendCallback(v, str).w = v
    BY <1>2 DEF SendCallback, Turned
  <2> QED BY <2>1
<1>3. CASE ~(Len(str) = 1 /\ str[1].kind = "inc") /\ Len(str) = 1 /\ str[1].kind = "call"
  <2>1. SendCallback(v, str) = SendVariable(v, Output[str[1].x])
    BY <1>3 DEF SendCallback
  <2> QED BY <2>1, Writing
<1>4. CASE ~(Len(str) = 1 /\ str[1].kind = "inc") /\ ~(Len(str) = 1 /\ str[1].kind = "call")
  <2>1. SendCallback(v, str).w = v
    BY <1>4 DEF SendCallback, Turned
  <2> QED BY <2>1
<1> QED BY <1>1, <1>2, <1>3, <1>4

LEMMA SendingParsed ==
  ASSUME NEW w, Sound(w)
  PROVE  Keeps(w, SendParsed(w).w)
<1> DEFINE n == UpTo(left, Window)
           buf == GetArray(w.stub, w.files[0], n)
           at == SelectInSeq(buf, LAMBDA x : x = Mark)
           To(k) == [w EXCEPT !.stub = Advance(@, w.files[0], k)]
<1>1. \A k : Keeps(w, To(k))
  <2>1. Has(w, w.files[0])
    BY Bounds DEF Has
  <2> QED BY <2>1, Reading
<1> HIDE DEF n, buf, at, To
<1>2. \A k : Keeps(w, SetSCB(To(k), {"FINDCB"})) /\ Keeps(w, ClrSCB(To(k), {"FINDCB"}))
  BY <1>1, Flagging2
<1>3. SendParsed(w) =
        CASE at > 0 /\ "FINDCB" \notin w.flags ->
               Turned(SetSCB(To(at), {"FINDCB"}), SubSeq(buf, 1, at - 1), <<>>, TRUE)
          [] at = 1 /\ "FINDCB" \in w.flags ->
               Turned(ClrSCB(To(1), {"FINDCB"}), <<Mark>>, <<>>, TRUE)
          [] at > 1 /\ "FINDCB" \in w.flags ->
               SendCallback(ClrSCB(To(at), {"FINDCB"}), SubSeq(buf, 1, at - 1))
          [] at = 0 /\ Len(buf) = n -> Turned(ClrSCB(To(n), {"FINDCB"}), buf, <<>>, TRUE)
          [] at = 0 /\ Len(buf) \in 1..n - 1 ->
               Turned(AtEnd(ClrSCB(To(Len(buf)), {"FINDCB"})), buf, <<>>, TRUE)
          [] OTHER -> Turned(AtEnd(w), <<>>, <<>>, TRUE)
  BY DEF SendParsed, n, buf, at, To
<1> DEFINE t == SendParsed(w)
<1>4. \/ t.w = SetSCB(To(at), {"FINDCB"})
      \/ t.w = ClrSCB(To(1), {"FINDCB"})
      \/ t = SendCallback(ClrSCB(To(at), {"FINDCB"}), SubSeq(buf, 1, at - 1))
      \/ t.w = ClrSCB(To(n), {"FINDCB"})
      \/ t.w = AtEnd(ClrSCB(To(Len(buf)), {"FINDCB"}))
      \/ t.w = AtEnd(w)
  BY <1>3 DEF Turned
<1> HIDE DEF t
<1>5. Keeps(w, AtEnd(w)) /\ Keeps(w, AtEnd(ClrSCB(To(Len(buf)), {"FINDCB"})))
  BY <1>2, KeepsItself, AtEndKeeps
<1>6. Keeps(w, SendCallback(ClrSCB(To(at), {"FINDCB"}), SubSeq(buf, 1, at - 1)).w)
  BY <1>2, CallingBack
<1>7. Keeps(w, t.w)
  BY <1>2, <1>4, <1>5, <1>6
<1> QED BY <1>7 DEF t

LEMMA Sending ==
  ASSUME NEW w, Sound(w), NEW text
  PROVE  Keeps(w, Send(w, text).w)
<1>1. Keeps(w, SendVariable(w, text).w)
  BY KeepsItself, Writing
<1>2. Keeps(w, SendBuiltin(w).w)
  <2>1. SendBuiltin(w).w = SetSCB(w, {"FCLOSE", "DISCONNECT"})
    BY DEF SendBuiltin, Turned
  <2> QED BY <2>1, Flagging
<1>3. Keeps(w, SendPlain(w).w)
  <2> DEFINE data == GetArray(w.stub, w.files[0], left)
             v == [w EXCEPT !.stub = Advance(@, w.files[0], Len(data))]
  <2>1. Keeps(w, v)
    <3>1. Has(w, w.files[0])
      BY Bounds DEF Has
    <3> QED BY <3>1, Reading
  <2>2. SendPlain(w).w = IF Len(data) < left THEN SetSCB(v, {"FCLOSE", "DISCONNECT"}) ELSE v
    BY DEF SendPlain, Turned
  <2> HIDE DEF v, data
  <2>3. Keeps(w, SetSCB(v, {"FCLOSE", "DISCONNECT"}))
    BY <2>1, Flagging2
  <2> QED BY <2>1, <2>2, <2>3
<1>4. Keeps(w, SendParsed(w).w)
  BY SendingParsed
<1> DEFINE t == Send(w, text)
<1>5. t = SendVariable(w, text) \/ t = SendBuiltin(w) \/ t = SendPlain(w) \/ t = SendParsed(w)
  BY DEF Send
<1> HIDE DEF t
<1>6. Keeps(w, t.w)
  BY <1>1, <1>2, <1>3, <1>4, <1>5
<1> QED BY <1>6 DEF t
-----------------------------------------------------------------------------
(* A handle that a connection has is open, and is in one place only.       *)
Owned(st, bf) ==
  /\ Held(bf) \subseteq OpenHandles(st)
  /\ \A c, d \in Conns, i, j \in Slots :
       (bf[c][i] \in Handles /\ bf[c][i] = bf[d][j]) => c = d /\ i = j

(* The inductive invariant: the table and the files of the connections are *)
(* what they are said to be, the last handle is free, an open file is some *)
(* connection's, and it is owned.                                          *)
IInv ==
  /\ IsTable(stub)
  /\ bffiles \in [Conns -> [Slots -> Slot]]
  /\ sending \in Conns \cup {NoConn}
  /\ LastHandleFree
  /\ NoHandleLost
  /\ ~overlap => Owned(stub, bffiles)

(* A step that is a change of one connection, which begins at w.           *)
Moves(c, w) ==
  \E v : /\ Keeps(w, v)
         /\ stub' = v.stub
         /\ bffiles' = [bffiles EXCEPT ![c] = v.files]

LEMMA Becoming ==
  ASSUME NEW c, NEW w, NEW v, Keeps(w, v), Become(c, v)
  PROVE  Moves(c, w)
  BY DEF Become, Moves

LEMMA Sounds ==
  ASSUME IInv, NEW c \in Conns
  PROVE  Sound(Conn(c))
  BY DEF IInv, Conn, Sound, LastHandleFree

(* A change of one connection that begins at w, where no more is open than *)
(* is, keeps the invariant.                                                *)
LEMMA Moving ==
  ASSUME IInv, NEW c \in Conns, NEW w, Moves(c, w), sending' \in {sending, c, NoConn},
         w.files = bffiles[c], \A h \in Handles : w.stub[h] # Free => stub[h] # Free,
         ~overlap' => Held(bffiles') = {} \/ Owned(w.stub, bffiles)
  PROVE  IInv'
<1>1. PICK v : /\ Keeps(w, v)
               /\ stub' = v.stub
               /\ bffiles' = [bffiles EXCEPT ![c] = v.files]
  BY DEF Moves
<1>2. Sound(v)
  BY <1>1 DEF Keeps
<1>3. IsTable(stub') /\ LastHandleFree'
  BY <1>1, <1>2 DEF Sound, LastHandleFree
<1>4. bffiles' \in [Conns -> [Slots -> Slot]]
  BY <1>1, <1>2 DEF IInv, Sound
<1>5. /\ bffiles'[c] = v.files
      /\ \A d \in Conns \ {c} : bffiles'[d] = bffiles[d]
  BY <1>1 DEF IInv
<1>6. ASSUME NEW h \in Handles, stub'[h] # Free
      PROVE  \E d \in Conns, i \in Slots : bffiles'[d][i] = h
  <2>1. CASE Has(v, h)
    BY <1>5, <2>1 DEF Has
  <2>2. CASE ~Has(v, h)
    <3>1. stub[h] # Free /\ ~Has(w, h)
      BY <1>1, <1>6, <2>2 DEF Keeps
    <3>2. h \in Held(bffiles)
      BY <3>1 DEF IInv, NoHandleLost, OpenHandles
    <3>3. PICK d \in Conns, i \in Slots : bffiles[d][i] = h
      BY <3>2 DEF Held
    <3>4. d # c
      BY <3>1, <3>3 DEF Has
    <3> QED BY <1>5, <3>3, <3>4
  <2> QED BY <2>1, <2>2
<1>7. NoHandleLost'
  BY <1>6 DEF NoHandleLost, OpenHandles, Held
<1>8. (sending \in Conns \cup {NoConn})'
  BY DEF IInv
<1>9. ASSUME Owned(w.stub, bffiles)
      PROVE  Owned(stub', bffiles')
  <2>1. \A d \in Conns, i \in Slots : bffiles[d][i] \in Handles => w.stub[bffiles[d][i]] # Free
    BY <1>9 DEF Owned, Held, OpenHandles
  <2>2. \A d, e \in Conns, i, j \in Slots :
          (bffiles[d][i] \in Handles /\ bffiles[d][i] = bffiles[e][j]) => d = e /\ i = j
    BY <1>9 DEF Owned
  <2>3. Own(w)
    BY <2>1, <2>2 DEF Own
  <2>4. Own(v) /\ Apart(w, v)
    BY <1>1, <2>3 DEF Keeps
  <2>5. ASSUME NEW d \in Conns \ {c}, NEW i \in Slots, bffiles[d][i] \in Handles
        PROVE  v.stub[bffiles[d][i]] # Free /\ ~Has(v, bffiles[d][i])
    <3>1. w.stub[bffiles[d][i]] # Free /\ ~Has(w, bffiles[d][i])
      BY <2>1, <2>2, <2>5 DEF Has
    <3> QED BY <2>4, <2>5, <3>1 DEF Apart
  <2>6. ASSUME NEW d \in Conns, NEW i \in Slots, bffiles'[d][i] \in Handles
        PROVE  stub'[bffiles'[d][i]] # Free
    <3>1. CASE d = c
      BY <1>1, <1>5, <2>4, <2>6, <3>1 DEF Own
    <3>2. CASE d # c
      BY <1>1, <1>5, <2>5, <2>6, <3>2
    <3> QED BY <3>1, <3>2
  <2>7. ASSUME NEW d \in Conns, NEW e \in Conns, NEW i \in Slots, NEW j \in Slots,
               bffiles'[d][i] \in Handles, bffiles'[d][i] = bffiles'[e][j]
        PROVE  d = e /\ i = j
    <3>1. CASE d = c /\ e = c
      BY <1>5, <2>4, <2>7, <3>1 DEF Own
    <3>2. CASE d # c /\ e = c
      BY <1>5, <2>5, <2>7, <3>2 DEF Has
    <3>3. CASE d = c /\ e # c
      BY <1>5, <2>5, <2>7, <3>3 DEF Has
    <3>4. CASE d # c /\ e # c
      BY <1>5, <2>2, <2>7, <3>4
    <3> QED BY <3>1, <3>2, <3>3, <3>4
  <2>8. Held(bffiles') \subseteq OpenHandles(stub')
    BY <2>6 DEF Held, OpenHandles
  <2> QED BY <2>7, <2>8 DEF Owned
<1>10. ASSUME Held(bffiles') = {}
       PROVE  Owned(stub', bffiles')
  <2>1. \A d \in Conns, i \in Slots : bffiles'[d][i] \notin Handles
    BY <1>10 DEF Held
  <2> QED BY <1>10, <2>1 DEF Owned
<1>11. (~overlap => Owned(stub, bffiles))'
  BY <1>9, <1>10
<1> QED BY <1>3, <1>4, <1>7, <1>8, <1>11 DEF IInv

LEMMA Beginning ==
  ASSUME NEW c, NEW w, NEW v, Keeps(w, v), StartSending(c, v)
  PROVE  Moves(c, w)
<1> DEFINE e == EndCallback(SetSCB(v, {"FCLOSE", "DISCONNECT"}))
<1>1. Keeps(w, e)
  BY Flagging2, Ending
<1>2. Become(c, e) \/ Become(c, v)
  BY DEF StartSending
<1> HIDE DEF e
<1> QED BY <1>1, <1>2, Becoming

LEMMA Responding ==
  ASSUME NEW c, NEW w, NEW u, Keeps(w, u), NEW status, NEW redir, NEW len,
         Respond(c, u, status, redir, len)
  PROVE  Moves(c, w)
<1> DEFINE v == web_print_headers(u, status, redir, len)
           e == EndCallback(SetSCB(u, {"FCLOSE", "DISCONNECT"}))
<1>1. Keeps(w, v)
  BY Answering, KeepsOn DEF Keeps
<1>2. Keeps(w, e)
  BY Flagging2, Ending
<1>3. StartSending(c, v) \/ Become(c, v) \/ Become(c, EndCallback(v)) \/ Become(c, e)
  BY DEF Respond
<1> HIDE DEF v, e
<1>4. Keeps(w, EndCallback(v))
  BY <1>1, Ending
<1> QED BY <1>1, <1>2, <1>3, <1>4, Becoming, Beginning
-----------------------------------------------------------------------------
LEMMA RequestMoves ==
  ASSUME IInv, NEW c \in Conns, Request(c)
  PROVE  Moves(c, Conn(c))
<1>1. PICK name \in Asks[c], password \in BOOLEAN, get \in BOOLEAN :
        LET w == Conn(c)
            v == SetSCB(IF Opens(w, name) THEN webserver_open_file(w, name) ELSE w,
                        IF get THEN {"HEAD_OK"} ELSE {"HEAD_OK", "POST"})
            len == IF ~Opens(w, name) THEN 0 ELSE IF get THEN Size(name) ELSE FormLen
            status == Status(w, name, password)
        IN Respond(c, v, status, FALSE, len)
  BY Zenon DEF Request
<1> DEFINE w == Conn(c)
           u == IF Opens(w, name) THEN webserver_open_file(w, name) ELSE w
           f == IF get THEN {"HEAD_OK"} ELSE {"HEAD_OK", "POST"}
           v == SetSCB(u, f)
           len == IF ~Opens(w, name) THEN 0 ELSE IF get THEN Size(name) ELSE FormLen
<1>2. Respond(c, v, Status(w, name, password), FALSE, len)
  BY <1>1
<1> HIDE DEF w
<1>3. Sound(w)
  BY Sounds DEF w
<1>4. Keeps(w, u)
  BY <1>3, OpeningFile, KeepsItself
<1> HIDE DEF u, f, len
<1>5. Keeps(w, v)
  BY <1>4, Flagging2
<1> HIDE DEF v
<1>6. Moves(c, w)
  BY <1>2, <1>5, Responding
<1> QED BY <1>6 DEF w

LEMMA FormBeginsMoves ==
  ASSUME IInv, NEW c \in Conns, FormBegins(c)
  PROVE  Moves(c, Conn(c))
<1>1. PICK name \in Asks[c] :
        /\ Opens(Conn(c), name)
        /\ Become(c, SetSCB(webserver_open_file(Conn(c), name),
                            IF name \in Protected THEN {"POST", "AUTH"} ELSE {"POST"}))
  BY DEF FormBegins
<1> DEFINE u == webserver_open_file(Conn(c), name)
           f == IF name \in Protected THEN {"POST", "AUTH"} ELSE {"POST"}
<1>2. Keeps(Conn(c), u)
  BY <1>1, Sounds, OpeningFile
<1>3. Become(c, SetSCB(u, f))
  BY <1>1
<1> HIDE DEF u, f
<1>4. Keeps(Conn(c), SetSCB(u, f))
  BY <1>2, Flagging2
<1> QED BY <1>3, <1>4, Becoming

LEMMA FormEndsMoves ==
  ASSUME IInv, NEW c \in Conns, FormEnds(c)
  PROVE  Moves(c, Conn(c))
<1>1. PICK status : Respond(c, SetSCB(Conn(c), {"HEAD_OK"}), status, FALSE, FormLen)
  BY ZenonT(60) DEF FormEnds
<1>2. Keeps(Conn(c), SetSCB(Conn(c), {"HEAD_OK"}))
  BY Sounds, Flagging
<1> QED BY <1>1, <1>2, Responding

LEMMA SentMoves ==
  ASSUME IInv, NEW c \in Conns, Sent(c)
  PROVE  Moves(c, Conn(c))
<1>1. StartSending(c, Conn(c))
  BY DEF Sent
<1> QED BY <1>1, Sounds, KeepsItself, Beginning

LEMMA UploadBeginsMoves ==
  ASSUME IInv, NEW c \in Conns, UploadBegins(c)
  PROVE  Moves(c, Conn(c))
<1>1. PICK name \in Asks[c] \cup {Form} :
        /\ Opens(Conn(c), name)
        /\ Become(c, SetSCB(webserver_open_file(Conn(c), name), {"POST", "RXDATA", "HEAD_OK"}))
  BY DEF UploadBegins
<1> DEFINE u == webserver_open_file(Conn(c), name)
<1>2. Keeps(Conn(c), u)
  BY <1>1, Sounds, OpeningFile
<1>3. Become(c, SetSCB(u, {"POST", "RXDATA", "HEAD_OK"}))
  BY <1>1
<1> HIDE DEF u
<1>4. Keeps(Conn(c), SetSCB(u, {"POST", "RXDATA", "HEAD_OK"}))
  BY <1>2, Flagging2
<1> QED BY <1>3, <1>4, Becoming

LEMMA UploadAnsweredMoves ==
  ASSUME NEW c, NEW u, NEW w, Keeps(w, u), NEW status, NEW redir,
         UploadAnswered(c, u, status, redir)
  PROVE  Moves(c, w)
<1>1. Keeps(w, SetSCB(u, {"DISCONNECT"}))
  BY Flagging2
<1>2. Respond(c, SetSCB(u, {"DISCONNECT"}), status, redir, 0)
  BY DEF UploadAnswered
<1> QED BY <1>1, <1>2, Responding

LEMMA UploadRefusedMoves ==
  ASSUME IInv, NEW c \in Conns, UploadRefused(c)
  PROVE  Moves(c, Conn(c))
<1>1. \E status, redir : UploadAnswered(c, Conn(c), status, redir)
  BY Zenon DEF UploadRefused
<1> QED BY <1>1, Sounds, KeepsItself, UploadAnsweredMoves

(* WEBFSInit closes everything, and the answer goes on from there.         *)
LEMMA UploadEndsKeeps ==
  ASSUME IInv, NEW c \in Conns, UploadEnds(c), sending' \in {sending, c, NoConn}
  PROVE  IInv'
<1> DEFINE u == [Conn(c) EXCEPT !.stub = AllFree]
<1>1. u = [stub |-> AllFree, files |-> bffiles[c], flags |-> webflag[c]]
  BY DEF Conn
<1>2. PICK status, redir : UploadAnswered(c, u, status, redir)
  BY Zenon DEF UploadEnds
<1>3. \A h \in Handles : AllFree[h] = Free
  BY DEF AllFree
<1> HIDE DEF u
<1>4. Keeps(u, u)
  <2>1. Sound(u)
    BY <1>1, <1>3, Bounds DEF Sound, IsTable, AllFree, IInv
  <2> QED BY <2>1, KeepsItself
<1>5. Moves(c, u)
  BY <1>2, <1>4, UploadAnsweredMoves
<1>6. ~overlap' => Owned(u.stub, bffiles)
  <2> SUFFICES ASSUME ~overlap' PROVE Owned(u.stub, bffiles)
    OBVIOUS
  <2>1. Held(bffiles) = {}
    BY DEF UploadEnds, Touched
  <2>2. \A d \in Conns, i \in Slots : bffiles[d][i] \notin Handles
    BY <2>1 DEF Held
  <2> QED BY <2>1, <2>2 DEF Owned
<1> QED BY <1>1, <1>3, <1>5, <1>6, Moving

LEMMA DisconnectMoves ==
  ASSUME IInv, NEW c \in Conns, Disconnect(c)
  PROVE  Moves(c, Conn(c))
<1>1. Keeps(Conn(c), Close_web_conn(Conn(c)))
  BY Sounds, Closing
<1>2. Close_web_conn(Conn(c)).files = NoFiles
  BY DEF Close_web_conn
<1> QED BY <1>1, <1>2 DEF Disconnect, Moves

LEMMA TurnMoves ==
  ASSUME IInv, Turn, sending \in Conns
  PROVE  Moves(sending, Conn(sending))
<1> DEFINE t == Send(Conn(sending), rest[sending])
<1>1. Become(sending, t.w) \/ Become(sending, EndCallback(t.w))
  BY DEF Turn
<1>2. Keeps(Conn(sending), t.w)
  BY Sounds, Sending
<1> HIDE DEF t
<1>3. Keeps(Conn(sending), EndCallback(t.w))
  BY <1>2, Ending
<1> QED BY <1>1, <1>2, <1>3, Becoming

(* The thread is kept by the connection whose step it is, or let go.       *)
LEMMA Keeping ==
  ASSUME NEW c, Request(c) \/ FormBegins(c) \/ FormEnds(c) \/ Sent(c) \/ UploadBegins(c)
                \/ UploadRefused(c) \/ UploadEnds(c) \/ Disconnect(c)
  PROVE  sending' \in {sending, c, NoConn}
<1>1. ASSUME NEW w, NEW status, NEW redir, NEW len, Respond(c, w, status, redir, len)
      PROVE  sending' \in {sending, c, NoConn}
  BY <1>1 DEF Respond, StartSending
<1>2. ASSUME NEW w, NEW status, NEW redir, UploadAnswered(c, w, status, redir)
      PROVE  sending' \in {sending, c, NoConn}
  BY <1>1, <1>2 DEF UploadAnswered
<1>3. ASSUME Request(c) \/ FormEnds(c)
      PROVE  sending' \in {sending, c, NoConn}
  <2>1. \E w, status, redir, len : Respond(c, w, status, redir, len)
    BY ZenonT(60), <1>3 DEF Request, FormEnds
  <2> QED BY <1>1, <2>1
<1>4. ASSUME UploadRefused(c) \/ UploadEnds(c)
      PROVE  sending' \in {sending, c, NoConn}
  <2>1. UploadRefused(c) => \E w, status, redir : UploadAnswered(c, w, status, redir)
    BY Zenon DEF UploadRefused
  <2>2. UploadEnds(c) => \E w, status, redir : UploadAnswered(c, w, status, redir)
    BY ZenonT(60) DEF UploadEnds
  <2> QED BY <1>2, <1>4, <2>1, <2>2
<1>5. CASE FormBegins(c) \/ UploadBegins(c) \/ Disconnect(c)
  BY <1>5 DEF FormBegins, UploadBegins, Disconnect
<1>6. CASE Sent(c)
  BY <1>6 DEF Sent, StartSending
<1> QED BY <1>3, <1>4, <1>5, <1>6

(* With every file closed the handles are as they should be.               *)
LEMMA Fresh ==
  ASSUME NEW st, NEW bf, st = AllFree, bf = [c \in Conns |-> NoFiles]
  PROVE  /\ IsTable(st) /\ st[MaxOpen] = Free /\ OpenHandles(st) = {}
         /\ bf \in [Conns -> [Slots -> Slot]] /\ Owned(st, bf)
<1>1. IsTable(st) /\ st[MaxOpen] = Free /\ OpenHandles(st) = {}
  BY Bounds DEF AllFree, IsTable, OpenHandles
<1>2. bf \in [Conns -> [Slots -> Slot]]
  BY Bounds DEF NoFiles
<1>3. \A c \in Conns, i \in Slots : bf[c][i] \notin Handles
  BY Bounds DEF NoFiles
<1> QED BY <1>1, <1>2, <1>3 DEF Owned, Held

LEMMA InitIInv == Init => IInv
<1> SUFFICES ASSUME Init PROVE IInv
  OBVIOUS
<1>1. stub = AllFree /\ bffiles = [c \in Conns |-> NoFiles] /\ sending = NoConn
  BY DEF Init
<1>2. /\ IsTable(stub) /\ stub[MaxOpen] = Free /\ OpenHandles(stub) = {}
      /\ bffiles \in [Conns -> [Slots -> Slot]] /\ Owned(stub, bffiles)
  BY <1>1, Fresh
<1> QED BY <1>1, <1>2 DEF IInv, LastHandleFree, NoHandleLost

LEMMA StepIInv ==
  ASSUME IInv, [Next]_vars
  PROVE  IInv'
<1>1. ASSUME NEW c \in Conns, Moves(c, Conn(c)), NotTouched, sending' \in {sending, c, NoConn}
      PROVE  IInv'
  <2>1. Conn(c).files = bffiles[c] /\ Conn(c).stub = stub
    BY DEF Conn
  <2>2. ~overlap' => Held(bffiles') = {} \/ Owned(stub, bffiles)
    BY <1>1 DEF NotTouched, IInv
  <2> QED BY <1>1, <2>1, <2>2, Moving
<1>2. ASSUME NEW c \in Conns,
             Request(c) \/ FormBegins(c) \/ FormEnds(c) \/ Sent(c) \/ UploadBegins(c)
               \/ UploadRefused(c) \/ Disconnect(c)
      PROVE  IInv'
  <2>1. Moves(c, Conn(c))
    BY <1>2, RequestMoves, FormBeginsMoves, FormEndsMoves, SentMoves, UploadBeginsMoves,
       UploadRefusedMoves, DisconnectMoves
  <2>2. NotTouched
    BY <1>2 DEF Request, FormBegins, FormEnds, Sent, UploadBegins, UploadRefused, Disconnect
  <2>3. sending' \in {sending, c, NoConn}
    BY <1>2, Keeping
  <2> QED BY <1>1, <2>1, <2>2, <2>3
<1>3. ASSUME NEW c \in Conns, UploadEnds(c)
      PROVE  IInv'
  BY <1>3, Keeping, UploadEndsKeeps
<1>4. ASSUME NEW c \in Conns, UploadAccepted(c) \/ UploadBlock(c)
      PROVE  IInv'
  <2>1. UNCHANGED <<stub, bffiles, sending>> /\ (~overlap' => ~overlap)
    BY <1>4 DEF UploadAccepted, UploadBlock, Touched
  <2> QED BY <2>1 DEF IInv, LastHandleFree, NoHandleLost
<1>5. CASE Turn
  <2>1. sending \in Conns /\ sending' \in {sending, NoConn} /\ NotTouched
    BY <1>5 DEF Turn, IInv
  <2> QED BY <1>1, <1>5, <2>1, TurnMoves
<1>6. CASE Restart
  <2>1. stub' = AllFree /\ bffiles' = [c \in Conns |-> NoFiles] /\ sending' = NoConn
    BY <1>6 DEF Restart, WEBFSInit
  <2>2. /\ IsTable(stub') /\ stub'[MaxOpen] = Free /\ OpenHandles(stub') = {}
        /\ bffiles' \in [Conns -> [Slots -> Slot]] /\ Owned(stub', bffiles')
    BY <2>1, Fresh
  <2> QED BY <2>1, <2>2 DEF IInv, LastHandleFree, NoHandleLost
<1>7. CASE UNCHANGED vars
  BY <1>7 DEF vars, IInv, LastHandleFree, NoHandleLost
<1>8. Next => Turn \/ Restart \/ \E c \in Conns :
        \/ Request(c) \/ FormBegins(c) \/ FormEnds(c) \/ Sent(c)
        \/ UploadBegins(c) \/ UploadAccepted(c) \/ UploadRefused(c)
        \/ UploadBlock(c) \/ UploadEnds(c) \/ Disconnect(c)
  BY DEF Next
<1> QED BY <1>2, <1>3, <1>4, <1>5, <1>6, <1>7, <1>8

(* The invariant holds in every run of the server.                         *)
THEOREM Invariant == Spec => []IInv
<1>1. Init /\ [][Next]_vars => []IInv
  BY InitIInv, StepIInv, PTL
<1> QED BY <1>1, PTL DEF Spec

(* The last handle of the table is never given out, so that the search of  *)
(* WEBFSOpen ends within the table, whatever is included.                  *)
THEOREM SearchEnds == Spec => []LastHandleFree
<1>1. IInv => LastHandleFree
  BY DEF IInv
<1> QED BY <1>1, Invariant, PTL

(* Every open file belongs to a connection: no end of a page, an include,  *)
(* an error, an upload or a connection loses a handle of the disk.         *)
THEOREM HandlesComeBack == Spec => []NoHandleLost
<1>1. IInv => NoHandleLost
  BY DEF IInv
<1> QED BY <1>1, Invariant, PTL

(* A handle serves one file of one connection and is open, unless the disk *)
(* was written under it: a file is never read or closed through a handle   *)
(* that was given to another.                                              *)
THEOREM HandlesApart == Spec => []HandleOwned
<1>1. IInv => HandleOwned
  BY DEF IInv, Owned, HandleOwned
<1> QED BY <1>1, Invariant, PTL
-----------------------------------------------------------------------------
(* One upload writes at a time.                                            *)
OneUpload == \A c, d \in Conns : upload[c].stage = "data" /\ upload[d].stage = "data" => c = d

UploadType == [stage : {"none", "head", "data"}, img : Images \cup {None}, next : 0..DiskBlocks]

(* The inductive invariant of the uploads: an upload that writes has       *)
(* locked the disk, and what it has written is there.                      *)
UInv ==
  /\ upload \in [Conns -> UploadType]
  /\ disk \in [0..DiskBlocks - 1 -> Images \cup {None}]
  /\ isWEBFSLocked \in BOOLEAN
  /\ \A c \in Conns : upload[c].stage # "none" => c \in Uploaders
  /\ \A c \in Conns : upload[c].stage = "data" =>
       /\ isWEBFSLocked /\ upload[c].img \in Images
       /\ upload[c].next <= Blocks(upload[c].img)
       /\ \A b \in 0..upload[c].next - 1 : disk[b] = upload[c].img
  /\ UnlockedIsWhole

(* The steps that are not an upload's.                                     *)
LEMMA Idle ==
  ASSUME UInv, UNCHANGED onDisk,
         \/ UNCHANGED upload
         \/ \E c \in Conns : upload' = [upload EXCEPT ![c] = NoUpload]
         \/ \E c \in Uploaders : upload' = [upload EXCEPT ![c] = [stage |-> "head", img |-> None, next |-> 0]]
  PROVE  UInv'
<1>1. NoUpload \in UploadType /\ [stage |-> "head", img |-> None, next |-> 0] \in UploadType
  BY WebFSAssumption DEF NoUpload, UploadType
<1>2. Uploaders \subseteq Conns
  BY WebSrvAssumption
<1>3. upload' \in [Conns -> UploadType]
  BY <1>1, <1>2 DEF UInv
<1>4. \A d \in Conns : \/ upload'[d] = upload[d]
                       \/ upload'[d].stage = "none"
                       \/ upload'[d].stage = "head" /\ d \in Uploaders
  BY <1>2 DEF UInv, NoUpload
<1>5. UNCHANGED <<isWEBFSLocked, disk, torn>>
  BY DEF onDisk
<1> QED BY <1>3, <1>4, <1>5 DEF UInv, UnlockedIsWhole

(* A block is written behind those that are there.                         *)
LEMMA Writes ==
  ASSUME UInv, NEW c \in Conns, upload[c].stage = "data"
  PROVE  /\ upload[c].img \in Images /\ upload[c].next \in Nat
         /\ upload[c].next <= Blocks(upload[c].img) /\ Blocks(upload[c].img) \in 1..DiskBlocks
         /\ Written(c) \in [0..DiskBlocks - 1 -> Images \cup {None}]
         /\ \A b \in 0..upload[c].next : b < Blocks(upload[c].img) => Written(c)[b] = upload[c].img
<1> DEFINE v == upload[c].img
           n == upload[c].next
<1>1. v \in Images /\ n \in Nat /\ n <= Blocks(v) /\ \A b \in 0..n - 1 : disk[b] = v
  BY DEF UInv, UploadType
<1>2. Blocks(v) \in 1..DiskBlocks /\ DiskBlocks \in Nat
  BY <1>1, BlockFacts, WebFSAssumption
<1>3. Written(c) = IF n < Blocks(v) THEN WriteBlock(disk, n, v) ELSE disk
  BY DEF Written
<1> HIDE DEF v, n
<1> DEFINE d == WriteBlock(disk, n, v)
<1>4. d \in [0..DiskBlocks - 1 -> Images \cup {None}]
  BY <1>1 DEF WriteBlock, UInv
<1>5. ASSUME n < Blocks(v), NEW b \in 0..n PROVE d[b] = v
  <2>1. b \in 0..DiskBlocks - 1 /\ (b = n \/ (b \in 0..n - 1 /\ ~(b >= n)))
    BY <1>1, <1>2, <1>5
  <2>2. SectorBlocks \in Nat
    BY WebFSAssumption
  <2> QED BY <1>1, <2>1, <2>2 DEF WriteBlock
<1> HIDE DEF d
<1>6. disk \in [0..DiskBlocks - 1 -> Images \cup {None}]
  BY DEF UInv
<1>7. ASSUME ~(n < Blocks(v)), NEW b \in 0..n, b < Blocks(v) PROVE disk[b] = v
  BY <1>1, <1>2, <1>7
<1> QED BY <1>1, <1>2, <1>3, <1>4, <1>5, <1>6, <1>7 DEF d, n, v

LEMMA StepUInv ==
  ASSUME UInv, OneUpload, [Next]_vars
  PROVE  UInv'
<1>1. ASSUME NEW c \in Conns, Request(c) \/ FormBegins(c) \/ FormEnds(c) \/ Sent(c)
      PROVE  UInv'
  <2>1. UNCHANGED <<onDisk, upload>>
    BY <1>1 DEF Request, FormBegins, FormEnds, Sent
  <2> QED BY <2>1, Idle
<1>2. ASSUME NEW c \in Conns, UploadBegins(c)
      PROVE  UInv'
  BY <1>2, Idle DEF UploadBegins
<1>3. ASSUME NEW c \in Conns, UploadRefused(c)
      PROVE  UInv'
  <2>1. upload' = [upload EXCEPT ![c] = NoUpload] /\ UNCHANGED onDisk
    BY <1>3 DEF UploadRefused, UploadAnswered
  <2> QED BY <2>1, Idle
<1>4. ASSUME NEW c \in Conns, Disconnect(c)
      PROVE  UInv'
  BY <1>4, Idle DEF Disconnect
<1>5. ASSUME NEW c \in Conns, UploadAccepted(c)
      PROVE  UInv'
  <2>1. PICK v \in Images : upload' = [upload EXCEPT ![c] = [stage |-> "data", img |-> v, next |-> 0]]
    BY <1>5 DEF UploadAccepted
  <2>2. isWEBFSLocked' = TRUE /\ UNCHANGED <<disk, torn>> /\ upload[c].stage = "head"
    BY <1>5 DEF UploadAccepted, Lock, Uploads
  <2>3. [stage |-> "data", img |-> v, next |-> 0] \in UploadType
    BY WebFSAssumption DEF UploadType
  <2>4. upload' \in [Conns -> UploadType] /\ \A d \in Conns \ {c} : upload'[d] = upload[d]
    BY <2>1, <2>3 DEF UInv
  <2>5. /\ upload'[c].img = v /\ upload'[c].next = 0 /\ c \in Uploaders
        /\ upload'[c].next <= Blocks(v) /\ v \in Images
    BY <2>1, <2>2, BlockFacts DEF UInv
  <2> QED BY <2>2, <2>4, <2>5 DEF UInv, UnlockedIsWhole
<1>6. ASSUME NEW c \in Conns, UploadBlock(c)
      PROVE  UInv'
  <2>1. /\ upload[c].stage = "data" /\ upload[c].next < Blocks(upload[c].img) /\ disk' = Written(c)
        /\ upload' = [upload EXCEPT ![c].next = @ + 1] /\ UNCHANGED isWEBFSLocked
    BY <1>6 DEF UploadBlock, Uploads
  <2>2. /\ upload[c].img \in Images /\ upload[c].next \in Nat
        /\ Blocks(upload[c].img) \in 1..DiskBlocks
        /\ Written(c) \in [0..DiskBlocks - 1 -> Images \cup {None}]
        /\ \A b \in 0..upload[c].next : b < Blocks(upload[c].img) => Written(c)[b] = upload[c].img
    BY <2>1, Writes
  <2>3. /\ upload[c] = [stage |-> "data", img |-> upload[c].img, next |-> upload[c].next]
        /\ upload[c].next + 1 \in 0..DiskBlocks
    BY <2>1, <2>2, WebFSAssumption DEF UInv, UploadType
  <2>4. /\ upload'[c] = [stage |-> "data", img |-> upload[c].img, next |-> upload[c].next + 1]
        /\ \A d \in Conns \ {c} : upload'[d] = upload[d]
    BY <2>1, <2>3 DEF UInv
  <2>5. upload' \in [Conns -> UploadType]
    <3>1. [stage |-> "data", img |-> upload[c].img, next |-> upload[c].next + 1] \in UploadType
      BY <2>2, <2>3 DEF UploadType
    <3> QED BY <2>1, <2>4, <3>1 DEF UInv
  <2>6. \A d \in Conns \ {c} : upload[d].stage # "data"
    BY <2>1 DEF OneUpload
  <2>7. isWEBFSLocked /\ c \in Uploaders
    BY <2>1 DEF UInv
  <2>8. \A b \in 0..upload'[c].next - 1 : disk'[b] = upload'[c].img
    <3>1. \A b \in 0..(upload[c].next + 1) - 1 : b \in 0..upload[c].next /\ b < Blocks(upload[c].img)
      BY <2>1, <2>2
    <3> QED BY <2>1, <2>2, <2>4, <3>1
  <2>9. upload'[c].next <= Blocks(upload'[c].img)
    BY <2>1, <2>2, <2>4
  <2> QED BY <2>1, <2>2, <2>4, <2>5, <2>6, <2>7, <2>8, <2>9 DEF UInv, UnlockedIsWhole
<1>7. ASSUME NEW c \in Conns, UploadEnds(c)
      PROVE  UInv'
  <2>1. /\ upload[c].stage = "data" /\ upload' = [upload EXCEPT ![c] = NoUpload]
        /\ isWEBFSLocked' = (disk'[0] = None)
    BY <1>7 DEF UploadEnds, UploadAnswered, Uploads
  <2>a. PICK block \in {0, 1} :
          /\ disk' = IF block = 1 THEN Written(c) ELSE disk
          /\ torn' = ~(upload[c].next + block >= Blocks(upload[c].img))
    BY <1>7 DEF UploadEnds
  <2>2. /\ upload[c].img \in Images /\ upload[c].next \in Nat
        /\ Blocks(upload[c].img) \in 1..DiskBlocks
        /\ Written(c) \in [0..DiskBlocks - 1 -> Images \cup {None}]
        /\ \A b \in 0..upload[c].next : b < Blocks(upload[c].img) => Written(c)[b] = upload[c].img
    BY <2>1, Writes
  <2>b. disk' \in [0..DiskBlocks - 1 -> Images \cup {None}]
    BY <2>a, <2>2 DEF UInv
  <2>3. ASSUME ~torn', NEW b \in 0..Blocks(upload[c].img) - 1
        PROVE  disk'[b] = upload[c].img
    <3>1. CASE block = 1
      <4>1. upload[c].next + 1 >= Blocks(upload[c].img) /\ disk' = Written(c)
        BY <2>a, <2>3, <3>1
      <4>2. b \in 0..upload[c].next /\ b < Blocks(upload[c].img)
        BY <2>2, <4>1
      <4> QED BY <2>2, <4>1, <4>2
    <3>2. CASE block = 0
      <4>1. upload[c].next + 0 >= Blocks(upload[c].img) /\ disk' = disk
        <5>1. block # 1
          BY <3>2
        <5> QED BY <2>a, <2>3, <3>2, <5>1
      <4>2. b \in 0..upload[c].next - 1
        BY <2>2, <4>1
      <4> QED BY <2>1, <4>1, <4>2 DEF UInv
    <3> QED BY <3>1, <3>2
  <2>4. Whole(disk') \/ torn'
    BY <2>2, <2>3 DEF Whole
  <2>5. \A d \in Conns : upload'[d].stage # "data" /\ (upload'[d] = upload[d] \/ upload'[d].stage = "none")
    BY <2>1 DEF OneUpload, UInv, NoUpload
  <2>6. upload' \in [Conns -> UploadType]
    <3>1. NoUpload \in UploadType
      BY WebFSAssumption DEF NoUpload, UploadType
    <3> QED BY <2>1, <3>1 DEF UInv
  <2> QED BY <2>1, <2>b, <2>4, <2>5, <2>6 DEF UInv, UnlockedIsWhole
<1>8. CASE Turn
  BY <1>8, Idle DEF Turn
<1>9. CASE Restart
  <2>1. /\ isWEBFSLocked' = (disk[0] = None) /\ upload' = [c \in Conns |-> NoUpload]
        /\ torn' = ~Whole(disk) /\ disk' = disk
    BY <1>9 DEF Restart, WEBFSInit
  <2>2. NoUpload \in UploadType /\ NoUpload.stage = "none"
    BY WebFSAssumption DEF NoUpload, UploadType
  <2> QED BY <2>1, <2>2 DEF UInv, UnlockedIsWhole
<1>10. CASE UNCHANGED vars
  BY <1>10 DEF vars, UInv, UnlockedIsWhole
<1>11. Next => Turn \/ Restart \/ \E c \in Conns :
        \/ Request(c) \/ FormBegins(c) \/ FormEnds(c) \/ Sent(c)
        \/ UploadBegins(c) \/ UploadAccepted(c) \/ UploadRefused(c)
        \/ UploadBlock(c) \/ UploadEnds(c) \/ Disconnect(c)
  BY DEF Next
<1> QED BY <1>1, <1>2, <1>3, <1>4, <1>5, <1>6, <1>7, <1>8, <1>9, <1>10, <1>11

LEMMA InitUInv == Init => UInv
<1> SUFFICES ASSUME Init PROVE UInv
  OBVIOUS
<1>1. PICK v \in Images \cup {None} :
        disk = [b \in 0..DiskBlocks - 1 |-> IF v = None THEN None
                                          ELSE IF b < Blocks(v) THEN v ELSE None]
  BY DEF Init
<1>2. upload = [c \in Conns |-> NoUpload] /\ isWEBFSLocked = (disk[0] = None)
  BY DEF Init
<1>3. NoUpload \in UploadType /\ NoUpload.stage = "none"
  BY WebFSAssumption DEF NoUpload, UploadType
<1>4. disk \in [0..DiskBlocks - 1 -> Images \cup {None}]
  BY <1>1
<1>5. ASSUME v # None PROVE Whole(disk)
  <2>1. v \in Images /\ Blocks(v) \in 1..DiskBlocks /\ DiskBlocks \in Nat
    BY <1>5, BlockFacts, WebFSAssumption
  <2>2. \A b \in 0..Blocks(v) - 1 : b \in 0..DiskBlocks - 1 /\ b < Blocks(v)
    BY <2>1
  <2> QED BY <1>1, <1>5, <2>1, <2>2 DEF Whole
<1>6. v = None => disk[0] = None
  <2>1. 0 \in 0..DiskBlocks - 1
    BY WebFSAssumption
  <2> QED BY <1>1, <2>1
<1> QED BY <1>2, <1>3, <1>4, <1>5, <1>6 DEF UInv, UnlockedIsWhole

(* Files are opened from a disk that is whole, or that WEBFSInit took      *)
(* unfinished, as long as one upload writes at a time: an upload that is   *)
(* given up, refused or cut off leaves the disk locked, and one that is    *)
(* completed leaves it whole (upload_boundary and web_rx_buf).             *)
THEOREM UnlockedWhole == Spec /\ []OneUpload => []UnlockedIsWhole
<1>1. UInv => UnlockedIsWhole
  BY DEF UInv
<1>2. Init /\ [][Next]_vars /\ []OneUpload => []UInv
  BY InitUInv, StepUInv, PTL
<1> QED BY <1>1, <1>2, PTL DEF Spec

(* The same for a server with one uploader, whatever it sends.             *)
THEOREM UnlockedWholeAlone ==
  ASSUME \A c, d \in Uploaders : c = d
  PROVE  Spec => []UnlockedIsWhole
<1>1. UInv => UnlockedIsWhole /\ OneUpload
  <2>1. UInv => OneUpload
    BY DEF UInv, OneUpload
  <2> QED BY <2>1 DEF UInv
<1>2. UInv /\ [Next]_vars => UInv'
  BY <1>1, StepUInv
<1> QED BY <1>1, <1>2, InitUInv, PTL DEF Spec
-----------------------------------------------------------------------------
(* The table of open files: what is left of an open file is on the disk,   *)
(* also when the disk was written under it.                                *)
OnTheDisk(s) == s.addr + s.rem <= DiskBlocks * BlockWords
Table(st) == \A h \in Handles : st[h] = Free \/ (st[h] \in Stub /\ OnTheDisk(st[h]))
Typed(w) ==
  /\ Sound(w) /\ Table(w.stub) /\ w.flags \subseteq Flags
  /\ "FOPEN" \in w.flags => w.files[0] # Invalid

DiskType ==
  /\ disk \in [0..DiskBlocks - 1 -> Images \cup {None}]
  /\ numFiles \in Images \cup {None}
  /\ isWEBFSLocked \in BOOLEAN

(* The type invariant with what it rests on: the places of open files, and *)
(* the words that a variable has still to write.                           *)
TInv ==
  /\ IInv /\ DiskType /\ Table(stub)
  /\ linkd \subseteq Conns /\ unacked \subseteq Conns
  /\ webflag \in [Conns -> SUBSET Flags]
  /\ rest \in [Conns -> Seq(Word)]
  /\ upload \in [Conns -> UploadType]
  /\ \A c \in Conns : upload[c].stage = "data" => upload[c].img \in Images
  /\ left \in Nat
  /\ \A c \in Conns : "FOPEN" \in webflag[c] => bffiles[c][0] # Invalid
  /\ sending # NoConn => "FOPEN" \in webflag[sending]
  /\ overlap \in BOOLEAN /\ torn \in BOOLEAN

LEMMA TypedFlags ==
  ASSUME NEW w, Typed(w), NEW f, f \subseteq Flags \ {"FOPEN"}
  PROVE  Typed(SetSCB(w, f)) /\ Typed(ClrSCB(w, f))
<1>1. Sound(SetSCB(w, f)) /\ Sound(ClrSCB(w, f))
  BY Flagging DEF Keeps, Typed
<1> QED BY <1>1 DEF Typed, SetSCB, ClrSCB, Sound

LEMMA TypedClose ==
  ASSUME NEW w, Typed(w)
  PROVE  Typed(Close_web_conn(w)) /\ Typed(web_inc_fclose(w))
<1>1. Sound(Close_web_conn(w)) /\ Sound(web_inc_fclose(w))
  BY Closing, Leaving DEF Keeps, Typed
<1>2. Table(Close_web_conn(w).stub) /\ Close_web_conn(w).flags \subseteq Flags
  BY DEF Typed, Table, Close_web_conn
<1>3. Table(web_inc_fclose(w).stub)
  BY DEF Typed, Table, web_inc_fclose, WEBFSClose
<1>4. web_inc_fclose(w).flags \subseteq Flags
  BY DEF Typed, web_inc_fclose
<1>5. "FOPEN" \notin Close_web_conn(w).flags
  BY DEF Close_web_conn
<1>6. "FOPEN" \in web_inc_fclose(w).flags => web_inc_fclose(w).files[0] # Invalid
  BY DEF web_inc_fclose
<1> QED BY <1>1, <1>2, <1>3, <1>4, <1>5, <1>6 DEF Typed

LEMMA TypedInc ==
  ASSUME NEW u, NEW fp, fp # Invalid, Table(u.stub), u.flags \subseteq Flags, Sound(web_inc_fp(u, fp))
  PROVE  Typed(web_inc_fp(u, fp))
<1>1. Table(web_inc_fp(u, fp).stub)
  BY DEF Table, web_inc_fp, WEBFSClose
<1>2. web_inc_fp(u, fp).flags \subseteq Flags
  BY DEF web_inc_fp, Flags
<1>3. web_inc_fp(u, fp).files[0] = fp
  BY Bounds DEF web_inc_fp
<1> QED BY <1>1, <1>2, <1>3 DEF Typed

(* What is found on the disk is a file of the image in its first block.    *)
LEMMA Found ==
  ASSUME DiskType, NEW name, Lookup(name) # 0
  PROVE  disk[0] \in Images /\ Lookup(name) \in Files(disk[0])
<1>1. disk[0] # None /\ Named(disk[0], name) # {} /\ Lookup(name) = Find(disk[0], name)
  BY DEF Lookup
<1>2. disk[0] \in Images
  <2>1. 0 \in 0..DiskBlocks - 1
    BY WebFSAssumption
  <2> QED BY <1>1, <2>1 DEF DiskType
<1> DEFINE N == Named(disk[0], name)
<1>3. N \subseteq Files(disk[0]) /\ N \in SUBSET Nat
  <2>1. Files(disk[0]) \subseteq Nat
    BY DEF Files
  <2> QED BY <2>1 DEF Named
<1>4. \E f \in N : \A g \in N : f <= g
  BY <1>1, <1>3, LeastElement
<1>5. Find(disk[0], name) \in N
  BY <1>4 DEF Find
<1> QED BY <1>1, <1>2, <1>3, <1>5

LEMMA Fitting ==
  ASSUME NEW v \in Images, NEW f \in Files(v)
  PROVE  LET s == [addr |-> FileAddr[v][f], rem |-> Len(FileData[v][f])]
         IN s \in Stub /\ OnTheDisk(s)
<1>1. /\ FileAddr[v][f] \in Nat /\ Len(FileData[v][f]) \in Nat
      /\ FileAddr[v][f] + Len(FileData[v][f]) <= Len(ImageData[v])
  BY FilePlaces, FileWords
<1>2. Len(ImageData[v]) <= DiskBlocks * BlockWords
  <2> DEFINE n == Len(ImageData[v])
  <2>1. n \in Nat /\ n >= 1
    BY FilePlaces
  <2>2. BlockWords \in Nat \ {0} /\ DiskBlocks \in Nat
    BY WebFSAssumption
  <2>3. (n - 1) \div BlockWords \in 0..Blocks(v) - 1 /\ Blocks(v) \in 1..DiskBlocks
    BY <2>1, BlockFacts
  <2> HIDE DEF n
  <2>4. (n - 1) \div BlockWords + 1 <= DiskBlocks
    BY <2>2, <2>3
  <2> DEFINE q == (n - 1) \div BlockWords
  <2>5. q \in Nat /\ n - 1 < BlockWords * (q + 1)
    BY <2>1, <2>2
  <2>6. q + 1 <= DiskBlocks
    BY <2>4
  <2> HIDE DEF q
  <2>7. BlockWords * (q + 1) <= BlockWords * DiskBlocks
    BY <2>2, <2>5, <2>6
  <2>8. BlockWords * DiskBlocks = DiskBlocks * BlockWords
    BY <2>2
  <2>9. BlockWords * (q + 1) \in Nat /\ DiskBlocks * BlockWords \in Nat
    BY <2>2, <2>5
  <2> QED BY <2>1, <2>5, <2>7, <2>8, <2>9 DEF n
<1>3. DiskBlocks * BlockWords \in Nat /\ Len(ImageData[v]) \in Nat
  BY WebFSAssumption, FilePlaces
<1> QED BY <1>1, <1>2, <1>3 DEF Stub, OnTheDisk

LEMMA TypedOpen ==
  ASSUME DiskType, NEW w, Typed(w), NEW name, CanOpen(w, name)
  PROVE  Typed(web_inc_fopen(w, name))
<1> DEFINE f == Lookup(name)
           h == FreeHandle(w.stub)
           s == [addr |-> FileAddr[disk[0]][f], rem |-> Len(FileData[disk[0]][f])]
           u == [w EXCEPT !.stub = WEBFSOpen(@, f)]
           v == web_inc_fp(u, h)
<1>1. HasHandle(w.stub) /\ f # 0
  BY DEF CanOpen
<1>2. Sound(web_inc_fopen(w, name))
  BY <1>1, Opening DEF Keeps, Typed
<1>3. s \in Stub /\ OnTheDisk(s)
  BY <1>1, Found, Fitting
<1> HIDE DEF s
<1>4. u = [stub |-> [w.stub EXCEPT ![h] = s], files |-> w.files, flags |-> w.flags]
  BY DEF Typed, Sound, WEBFSOpen, s
<1>5. web_inc_fopen(w, name) = IF Directory[disk[0]][f].parsed THEN SetSCB(v, {"FCALBACK"}) ELSE v
  BY DEF web_inc_fopen
<1> HIDE DEF u, h
<1>6. Table(u.stub) /\ u.flags \subseteq Flags
  <2>1. \A g \in Handles : u.stub[g] = w.stub[g] \/ u.stub[g] = s
    BY <1>4 DEF Typed, Sound, IsTable
  <2> QED BY <1>3, <1>4, <2>1 DEF Table, Typed
<1>7. Table(v.stub) /\ v.flags \subseteq Flags
  BY <1>6 DEF Table, web_inc_fp, WEBFSClose, Flags
<1> HIDE DEF v
<1>9. v.files[0] = h /\ h # Invalid
  <2>1. h \in Handles
    BY Searching DEF Typed, h
  <2> QED BY <2>1, Bounds DEF v, web_inc_fp
<1>8. /\ Table(web_inc_fopen(w, name).stub)
      /\ web_inc_fopen(w, name).flags \subseteq Flags
      /\ web_inc_fopen(w, name).files[0] # Invalid
  <2>1. /\ SetSCB(v, {"FCALBACK"}).stub = v.stub /\ SetSCB(v, {"FCALBACK"}).files = v.files
        /\ SetSCB(v, {"FCALBACK"}).flags = v.flags \cup {"FCALBACK"}
    BY DEF SetSCB, v, web_inc_fp
  <2> QED BY <1>5, <1>7, <1>9, <2>1 DEF Flags
<1> QED BY <1>2, <1>8 DEF Typed

LEMMA TypedOpenFile ==
  ASSUME DiskType, NEW w, Typed(w), NEW name, Opens(w, name)
  PROVE  Typed(webserver_open_file(w, name))
<1>1. Sound(webserver_open_file(w, name))
  BY OpeningFile DEF Keeps, Typed
<1>2. CASE Builtin(name) # Invalid
  BY <1>1, <1>2, TypedInc DEF webserver_open_file, Typed
<1>3. CASE Builtin(name) = Invalid
  BY <1>3, TypedOpen DEF webserver_open_file, Opens
<1> QED BY <1>2, <1>3

LEMMA TypedAnswer ==
  ASSUME DiskType, NEW w, Typed(w), NEW status, NEW redir, NEW len
  PROVE  Typed(web_print_headers(w, status, redir, len))
<1> DEFINE c == web_inc_fclose(w)
           u == ClrSCB(c, {"FCALBACK", "RXDATA", "FCLOSE"})
           v == IF status = 200 \/ redir THEN w ELSE ErrorFile(w, status)
           e == web_print_headers(w, status, redir, len)
<1>1. Typed(c)
  BY TypedClose
<1>2. Typed(u) /\ u.stub = c.stub
  BY <1>1, TypedFlags DEF Flags, ClrSCB, Typed, Sound
<1>3. Typed(ErrorFile(w, status))
  <2>1. CASE HasErrorPage(w, status)
    <3>1. CanOpen(u, ErrorPage(status))
      BY <1>2, <2>1 DEF HasErrorPage, CanOpen
    <3>2. ErrorFile(w, status) = web_inc_fopen(u, ErrorPage(status))
      BY <2>1 DEF ErrorFile
    <3> HIDE DEF u
    <3> QED BY <1>2, <3>1, <3>2, TypedOpen
  <2>2. CASE ~HasErrorPage(w, status)
    BY <1>2, <2>2 DEF ErrorFile
  <2> QED BY <2>1, <2>2
<1>4. Typed(v)
  BY <1>3
<1>5. \/ e = v \/ e = SetSCB(v, {"DISCONNECT", "CLOSED"})
      \/ e = SetSCB(v, {"FCLOSE", "DISCONNECT", "CLOSED"})
  BY DEF web_print_headers
<1> HIDE DEF v, e
<1>6. Typed(e)
  BY <1>4, <1>5, TypedFlags DEF Flags
<1> QED BY <1>6 DEF e

LEMMA TypedEnd ==
  ASSUME NEW w, Typed(w)
  PROVE  Typed(EndCallback(w)) /\ Typed(AtEnd(w))
<1>1. Typed(Close_web_conn(w)) /\ Typed(web_inc_fclose(w))
  BY TypedClose
<1>2. /\ Typed(SetSCB(Close_web_conn(w), {"DISCONNECT", "CLOSED"}))
      /\ Typed(SetSCB(w, {"CLOSED"}))
      /\ Typed(SetSCB(web_inc_fclose(w), {"FCLOSE", "DISCONNECT"}))
  BY <1>1, TypedFlags DEF Flags
<1> QED BY <1>1, <1>2 DEF EndCallback, AtEnd

(* What is read from an open file is words of the disk.                    *)
LEMMA ReadsWords ==
  ASSUME DiskType, NEW st, Table(st), NEW h, h \notin Handles => st[h] = Free, NEW n \in Nat
  PROVE  /\ GetLen(st, h, n) \in 0..n
         /\ GetArray(st, h, n) \in Seq(Word) /\ Len(GetArray(st, h, n)) = GetLen(st, h, n)
         /\ st[h] # Free => st[h] \in Stub /\ GetLen(st, h, n) <= st[h].rem
<1>1. st[h] # Free => st[h] \in Stub /\ OnTheDisk(st[h])
  BY DEF Table
<1> DEFINE m == GetLen(st, h, n)
<1>2. m \in 0..n /\ (st[h] # Free => m <= st[h].rem) /\ (st[h] = Free => m = 0)
  BY <1>1 DEF GetLen, Stub
<1>3. GetArray(st, h, n) = [i \in 1..m |-> WordAt(st[h].addr + i - 1)]
  BY DEF GetArray
<1> HIDE DEF m
<1>4. ASSUME NEW i \in 1..m PROVE WordAt(st[h].addr + i - 1) \in Word
  <2> DEFINE a == st[h].addr + i - 1
  <2>1. st[h] # Free
    BY <1>2, <1>4
  <2>2. a \in Nat /\ a < DiskBlocks * BlockWords
    <3>1. DiskBlocks * BlockWords \in Nat
      BY WebFSAssumption
    <3>2. st[h].addr \in Nat /\ st[h].rem \in Nat /\ st[h].addr + st[h].rem <= DiskBlocks * BlockWords
      BY <1>1, <2>1 DEF Stub, OnTheDisk
    <3> QED BY <1>2, <2>1, <3>1, <3>2
  <2> HIDE DEF a
  <2>3. a \div BlockWords \in 0..DiskBlocks - 1
    <3> DEFINE q == a \div BlockWords
    <3>1. BlockWords \in Nat \ {0} /\ DiskBlocks \in Nat
      BY WebFSAssumption
    <3>2. q \in Nat /\ BlockWords * q <= a
      BY <2>2, <3>1
    <3> HIDE DEF q
    <3>3. ASSUME q >= DiskBlocks PROVE FALSE
      <4>1. BlockWords * q >= BlockWords * DiskBlocks
        BY <3>1, <3>2, <3>3
      <4>2. BlockWords * DiskBlocks = DiskBlocks * BlockWords
        BY <3>1
      <4>3. BlockWords * q \in Nat /\ DiskBlocks * BlockWords \in Nat
        BY <3>1, <3>2
      <4> QED BY <2>2, <3>2, <4>1, <4>2, <4>3
    <3> QED BY <3>1, <3>2, <3>3 DEF q
  <2> DEFINE v == disk[a \div BlockWords]
  <2>4. v \in Images \cup {None}
    BY <2>3 DEF DiskType
  <2>5. WordAt(a) = IF v = None \/ a >= Len(ImageData[v]) THEN Junk ELSE ImageData[v][a + 1]
    BY DEF WordAt
  <2> HIDE DEF v
  <2>6. ASSUME v \in Images, a < Len(ImageData[v]) PROVE ImageData[v][a + 1] \in Word
    <3>1. ImageData[v] \in Seq(Word)
      BY <2>6, FilePlaces
    <3>2. a + 1 \in 1..Len(ImageData[v])
      BY <2>2, <2>6, <3>1
    <3> QED BY <3>1, <3>2
  <2>7. v \in Images => Len(ImageData[v]) \in Nat
    BY FilePlaces
  <2>8. WordAt(a) \in Word
    BY <2>2, <2>4, <2>5, <2>6, <2>7, WordFacts
  <2> QED BY <2>8 DEF a
<1>5. m \in Nat
  BY <1>2
<1>6. GetArray(st, h, n) \in Seq(Word) /\ Len(GetArray(st, h, n)) = m
  BY <1>3, <1>4, <1>5
<1> QED BY <1>1, <1>2, <1>6 DEF m

(* A file that is moved on by what was read of it.                         *)
LEMMA TypedRead ==
  ASSUME NEW w, Typed(w), NEW h, h \in Handles => Has(w, h), NEW k \in Nat,
         h \in Handles => w.stub[h] = Free \/ k <= w.stub[h].rem
  PROVE  Typed([w EXCEPT !.stub = Advance(@, h, k)])
<1> DEFINE st == Advance(w.stub, h, k)
           v == [w EXCEPT !.stub = Advance(@, h, k)]
<1>1. Sound(v)
  BY Reading DEF Keeps, Typed
<1>2. v.stub = st /\ v.flags = w.flags
  BY DEF Typed, Sound
<1> HIDE DEF v
<1>3. ASSUME NEW g \in Handles, w.stub[g] # Free
      PROVE  st[g] \in Stub /\ OnTheDisk(st[g])
  <2>1. w.stub[g] \in Stub /\ OnTheDisk(w.stub[g])
    BY <1>3 DEF Typed, Table
  <2>2. CASE g # h
    <3>1. st[g] = w.stub[g]
      BY <2>2 DEF Advance, Typed, Sound, IsTable
    <3> QED BY <2>1, <3>1
  <2>3. CASE g = h
    <3>1. st[g] = [addr |-> w.stub[g].addr + k, rem |-> w.stub[g].rem - k]
      BY <1>3, <2>3 DEF Advance, Typed, Sound, IsTable
    <3>2. k <= w.stub[g].rem
      BY <1>3, <2>3
    <3> QED BY <2>1, <3>1, <3>2 DEF Stub, OnTheDisk
  <2> QED BY <2>2, <2>3
<1>4. \A g \in Handles : w.stub[g] = Free => st[g] = Free
  BY DEF Advance, Typed, Sound, IsTable
<1>5. Table(v.stub)
  BY <1>2, <1>3, <1>4 DEF Table
<1> QED BY <1>1, <1>2, <1>5 DEF v, Typed

(* A turn of the send loop that is typed: what it writes and leaves.       *)
TypedTurn(t) == Typed(t.w) /\ Len(t.out) \in Nat /\ t.more \in Seq(Word)

LEMMA TurnedTyped ==
  ASSUME NEW w, Typed(w), NEW out, Len(out) \in Nat, NEW more \in Seq(Word), NEW fits
  PROVE  TypedTurn(Turned(w, out, more, fits))
  BY DEF TypedTurn, Turned

LEMMA TypedVariable ==
  ASSUME NEW w, Typed(w), NEW text \in Seq(Word), left \in Nat
  PROVE  TypedTurn(SendVariable(w, text))
<1> DEFINE n == UpTo(Len(text), left)
           v == IF n < Len(text) THEN SetSCB(w, {"RETRYCB"}) ELSE ClrSCB(w, {"RETRYCB"})
<1>1. n \in 0..Len(text)
  BY DEF UpTo
<1>2. SendVariable(w, text) = Turned(v, SubSeq(text, 1, n), SubSeq(text, n + 1, Len(text)), TRUE)
  BY DEF SendVariable
<1>3. Typed(v)
  BY TypedFlags DEF Flags
<1> HIDE DEF v, n
<1>4. SubSeq(text, 1, n) \in Seq(Word) /\ SubSeq(text, n + 1, Len(text)) \in Seq(Word)
  BY <1>1
<1>5. Len(SubSeq(text, 1, n)) \in Nat
  BY <1>4
<1> QED BY <1>2, <1>3, <1>4, <1>5, TurnedTyped

LEMMA NoWords ==
  /\ <<>> \in Seq(Word)
  /\ \A x : Len(<<x>>) \in Nat
  OBVIOUS

LEMMA TypedCallback ==
  ASSUME DiskType, NEW w, Typed(w), NEW str \in Seq(Word), left \in Nat
  PROVE  TypedTurn(SendCallback(w, str))
<1> DEFINE inc == Len(str) = 1 /\ str[1].kind = "inc"
           call == Len(str) = 1 /\ str[1].kind = "call"
<1>1. CASE inc /\ CanInclude(w, str[1].x)
  <2> DEFINE u == web_inc_fopen(w, str[1].x)
  <2>1. CanOpen(w, str[1].x)
    BY <1>1 DEF CanInclude
  <2>2. Typed(u)
    BY <2>1, TypedOpen
  <2>3. SendCallback(w, str) = Turned(u, <<>>, <<>>, TRUE)
    BY <1>1 DEF SendCallback
  <2> HIDE DEF u
  <2> QED BY <2>2, <2>3, TurnedTyped, NoWords
<1>2. CASE inc /\ ~CanInclude(w, str[1].x)
  <2>1. PICK b : SendCallback(w, str) = Turned(w, <<NoFile>>, <<>>, b)
    BY <1>2 DEF SendCallback
  <2> QED BY <2>1, TurnedTyped, NoWords
<1>3. CASE ~inc /\ call
  <2>1. SendCallback(w, str) = SendVariable(w, Output[str[1].x])
    BY <1>3 DEF SendCallback
  <2>2. str[1] \in Word /\ str[1].kind = "call"
    BY <1>3
  <2>3. Output[str[1].x] \in Seq(Texts)
    BY <2>2, WebImageAssumption DEF Word
  <2>4. Texts \subseteq Word
    BY DEF Texts, Word, Parts
  <2>5. Output[str[1].x] \in Seq(Word)
    BY <2>3, <2>4
  <2> QED BY <2>1, <2>5, TypedVariable
<1>4. CASE ~inc /\ ~call
  <2>1. SendCallback(w, str) = Turned(w, <<>>, <<>>, TRUE)
    BY <1>4 DEF SendCallback
  <2> QED BY <2>1, TurnedTyped, NoWords
<1> QED BY <1>1, <1>2, <1>3, <1>4

(* The place of the first mark in what was read, 0 when there is none.     *)
LEMMA FirstMark ==
  ASSUME NEW buf \in Seq(Word)
  PROVE  LET at == SelectInSeq(buf, LAMBDA x : x = Mark)
         IN /\ at \in 0..Len(buf)
            /\ at > 0 => buf[at] = Mark /\ \A i \in 1..at - 1 : buf[i] # Mark
            /\ at = 0 => \A i \in 1..Len(buf) : buf[i] # Mark
<1> DEFINE I == {i \in 1..Len(buf) : buf[i] = Mark}
           at == SelectInSeq(buf, LAMBDA x : x = Mark)
<1>1. at = IF I # {} THEN CHOOSE x \in I : \A y \in I : x <= y ELSE 0
  BY DEF SelectInSeq, Min
<1>2. I \in SUBSET Nat /\ Len(buf) \in Nat
  OBVIOUS
<1> HIDE DEF at
<1> DEFINE Goal == /\ at \in 0..Len(buf)
                   /\ at > 0 => buf[at] = Mark /\ \A i \in 1..at - 1 : buf[i] # Mark
                   /\ at = 0 => \A i \in 1..Len(buf) : buf[i] # Mark
<1>3. ASSUME I = {} PROVE Goal
  <2>1. at = 0
    BY <1>1, <1>3
  <2>2. \A i \in 1..Len(buf) : buf[i] # Mark
    BY <1>3
  <2> QED BY <1>2, <2>1, <2>2
<1>4. ASSUME I # {} PROVE Goal
  <2> HIDE DEF I
  <2>1. \E x \in I : \A y \in I : x <= y
    BY <1>2, <1>4, LeastElement
  <2>2. at \in I /\ \A y \in I : at <= y
    BY <1>1, <1>4, <2>1
  <2>3. at \in 1..Len(buf) /\ buf[at] = Mark
    BY <2>2 DEF I
  <2>4. ASSUME NEW i \in 1..at - 1 PROVE buf[i] # Mark
    <3>1. i \in 1..Len(buf) /\ ~(at <= i)
      BY <1>2, <2>3
    <3> QED BY <2>2, <3>1 DEF I
  <2>5. at # 0 /\ at \in 0..Len(buf)
    BY <1>2, <2>3
  <2> QED BY <2>3, <2>4, <2>5
<1> QED BY <1>3, <1>4 DEF at

(* A file is read of that is open or of the time of another disk.          *)
LEMMA InFront ==
  ASSUME NEW w, Typed(w), "FOPEN" \in w.flags, ~(w.files[0] > MaxOpen)
  PROVE  w.files[0] \in Handles
<1>1. w.files[0] \in Slot /\ w.files[0] # Invalid
  BY Bounds DEF Typed, Sound
<1>2. MaxOpen \in Nat
  BY WebFSAssumption
<1> QED BY <1>1, <1>2 DEF Slot, NODISK, WEBCGI, UPLOAD, Handles

LEMMA TypedBuiltin ==
  ASSUME NEW w, Typed(w)
  PROVE  TypedTurn(SendBuiltin(w))
<1>1. Typed(SetSCB(w, {"FCLOSE", "DISCONNECT"}))
  BY TypedFlags DEF Flags
<1> QED BY <1>1, NoWords, TurnedTyped DEF SendBuiltin

LEMMA TypedPlain ==
  ASSUME DiskType, left \in Nat, NEW w, Typed(w), w.files[0] \in Handles
  PROVE  TypedTurn(SendPlain(w))
<1> DEFINE data == GetArray(w.stub, w.files[0], left)
           v == [w EXCEPT !.stub = Advance(@, w.files[0], Len(data))]
           u == IF Len(data) < left THEN SetSCB(v, {"FCLOSE", "DISCONNECT"}) ELSE v
<1>1. /\ Len(data) \in Nat
      /\ w.stub[w.files[0]] # Free => Len(data) <= w.stub[w.files[0]].rem
  <2> DEFINE h == w.files[0]
             m == GetLen(w.stub, h, left)
  <2>1. Table(w.stub) /\ h \in Handles
    BY DEF Typed
  <2> HIDE DEF h
  <2>2. m \in 0..left /\ Len(data) = m /\ (w.stub[h] # Free => m <= w.stub[h].rem)
    BY <2>1, ReadsWords DEF h
  <2> HIDE DEF m
  <2> QED BY <2>2 DEF h
<1> HIDE DEF data
<1>2. Typed(v)
  <2>1. Has(w, w.files[0])
    BY Bounds DEF Has
  <2> QED BY <1>1, <2>1, TypedRead
<1> HIDE DEF v
<1>3. Typed(u)
  BY <1>2, TypedFlags DEF Flags
<1>4. SendPlain(w) = Turned(u, data, <<>>, TRUE)
  BY DEF SendPlain, v, data
<1> HIDE DEF u
<1> QED BY <1>1, <1>3, <1>4, NoWords, TurnedTyped

LEMMA TypedParsed ==
  ASSUME DiskType, left \in Nat, NEW w, Typed(w), w.files[0] \in Handles
  PROVE  TypedTurn(SendParsed(w))
<1> DEFINE h == w.files[0]
           n == UpTo(left, Window)
           buf == GetArray(w.stub, h, n)
           at == SelectInSeq(buf, LAMBDA x : x = Mark)
           To(k) == [w EXCEPT !.stub = Advance(@, h, k)]
<1>1. n \in Nat
  BY WebSrvAssumption DEF UpTo
<1>2. /\ buf \in Seq(Word) /\ Len(buf) \in Nat
      /\ w.stub[h] # Free => w.stub[h] \in Stub /\ Len(buf) <= w.stub[h].rem
  <2> HIDE DEF n
  <2>1. buf \in Seq(Word) /\ Len(buf) \in 0..n
    BY <1>1, ReadsWords DEF Typed
  <2>2. w.stub[h] # Free => w.stub[h] \in Stub /\ Len(buf) <= w.stub[h].rem
    BY <1>1, ReadsWords DEF Typed
  <2> QED BY <2>1, <2>2
<1>3. at \in 0..Len(buf)
  BY <1>2, FirstMark
<1> DEFINE r1 == Turned(SetSCB(To(at), {"FINDCB"}), SubSeq(buf, 1, at - 1), <<>>, TRUE)
           r2 == Turned(ClrSCB(To(1), {"FINDCB"}), <<Mark>>, <<>>, TRUE)
           r3 == SendCallback(ClrSCB(To(at), {"FINDCB"}), SubSeq(buf, 1, at - 1))
           r4 == Turned(ClrSCB(To(n), {"FINDCB"}), buf, <<>>, TRUE)
           r5 == Turned(AtEnd(ClrSCB(To(Len(buf)), {"FINDCB"})), buf, <<>>, TRUE)
           r6 == Turned(AtEnd(w), <<>>, <<>>, TRUE)
           find == "FINDCB" \in w.flags
<1>4. SendParsed(w) =
        CASE at > 0 /\ ~find -> r1
          [] at = 1 /\ find -> r2
          [] at > 1 /\ find -> r3
          [] at = 0 /\ Len(buf) = n -> r4
          [] at = 0 /\ Len(buf) \in 1..n - 1 -> r5
          [] OTHER -> r6
  BY DEF SendParsed
<1> HIDE DEF h, n, buf, at
<1>5. ASSUME NEW k \in Nat, k <= Len(buf) PROVE Typed(To(k))
  <2>1. w.stub[h] = Free \/ k <= w.stub[h].rem
    BY <1>2, <1>5 DEF Stub
  <2>2. Has(w, h)
    BY Bounds DEF Has, h
  <2> QED BY <2>1, <2>2, TypedRead
<1> HIDE DEF To, r1, r2, r3, r4, r5, r6, find
<1>6. ASSUME NEW k \in Nat, k <= Len(buf)
      PROVE  Typed(SetSCB(To(k), {"FINDCB"})) /\ Typed(ClrSCB(To(k), {"FINDCB"}))
  BY <1>5, <1>6, TypedFlags DEF Flags
<1>7. CASE at > 0 /\ ~find
  <2>1. SendParsed(w) = r1
    BY <1>1, <1>2, <1>3, <1>4, <1>7
  <2>2. Len(SubSeq(buf, 1, at - 1)) \in Nat
    BY <1>2, <1>3
  <2>3. Typed(SetSCB(To(at), {"FINDCB"}))
    BY <1>2, <1>3, <1>6
  <2> QED BY <2>1, <2>2, <2>3, NoWords, TurnedTyped DEF r1
<1>8. CASE at = 1 /\ find
  <2>1. SendParsed(w) = r2
    BY <1>4, <1>8
  <2>2. Typed(ClrSCB(To(1), {"FINDCB"}))
    BY <1>2, <1>3, <1>6, <1>8
  <2> QED BY <2>1, <2>2, NoWords, TurnedTyped DEF r2
<1>9. CASE at > 1 /\ find
  <2>1. SendParsed(w) = r3
    BY <1>1, <1>2, <1>3, <1>4, <1>9
  <2>2. Typed(ClrSCB(To(at), {"FINDCB"})) /\ SubSeq(buf, 1, at - 1) \in Seq(Word)
    BY <1>2, <1>3, <1>6
  <2> QED BY <2>1, <2>2, TypedCallback DEF r3
<1>10. CASE at = 0 /\ Len(buf) = n
  <2>1. SendParsed(w) = r4
    BY <1>1, <1>2, <1>3, <1>4, <1>10
  <2>2. Typed(ClrSCB(To(n), {"FINDCB"}))
    BY <1>2, <1>6, <1>10
  <2> QED BY <1>2, <2>1, <2>2, NoWords, TurnedTyped DEF r4
<1>11. CASE at = 0 /\ Len(buf) \in 1..n - 1
  <2>1. SendParsed(w) = r5
    <3>1. Len(buf) # n
      BY <1>1, <1>11
    <3> QED BY <1>4, <1>11, <3>1
  <2>2. Typed(ClrSCB(To(Len(buf)), {"FINDCB"}))
    BY <1>2, <1>6
  <2> DEFINE e == AtEnd(ClrSCB(To(Len(buf)), {"FINDCB"}))
  <2>3. Typed(e)
    BY <2>2, TypedEnd
  <2> HIDE DEF e
  <2> QED BY <1>2, <2>1, <2>3, NoWords, TurnedTyped DEF r5, e
<1>12. CASE at = 0 /\ Len(buf) # n /\ Len(buf) \notin 1..n - 1
  <2>1. SendParsed(w) = r6
    BY <1>1, <1>2, <1>3, <1>4, <1>12
  <2>2. Typed(AtEnd(w))
    BY TypedEnd
  <2> QED BY <2>1, <2>2, NoWords, TurnedTyped DEF r6
<1>13. at = 0 \/ at = 1 \/ at > 1
  BY <1>2, <1>3
<1>14. at = 1 => at > 0
  OBVIOUS
<1>15. at > 1 => at > 0
  BY <1>2, <1>3
<1> QED BY <1>7, <1>8, <1>9, <1>10, <1>11, <1>12, <1>13, <1>14, <1>15

LEMMA TypedSend ==
  ASSUME DiskType, left \in Nat, NEW w, Typed(w), "FOPEN" \in w.flags, NEW text \in Seq(Word)
  PROVE  TypedTurn(Send(w, text))
<1>1. TypedTurn(SendVariable(w, text)) /\ TypedTurn(SendBuiltin(w))
  BY TypedVariable, TypedBuiltin
<1>2. ~(w.files[0] > MaxOpen) => TypedTurn(SendPlain(w)) /\ TypedTurn(SendParsed(w))
  BY InFront, TypedPlain, TypedParsed
<1> DEFINE t == Send(w, text)
<1>3. \/ t = SendVariable(w, text) \/ t = SendBuiltin(w)
      \/ ~(w.files[0] > MaxOpen) /\ (t = SendPlain(w) \/ t = SendParsed(w))
  <2>1. CASE w.files[0] > MaxOpen
    <3>1. ~(w.files[0] <= MaxOpen)
      <4>1. w.files[0] \in Int /\ MaxOpen \in Int
        BY Bounds, WebFSAssumption DEF Typed, Sound, Slot, Handles, Invalid, NODISK, WEBCGI, UPLOAD
      <4> QED BY <2>1, <4>1
    <3> QED BY <2>1, <3>1 DEF Send
  <2>2. CASE ~(w.files[0] > MaxOpen)
    BY <2>2 DEF Send
  <2> QED BY <2>1, <2>2
<1> HIDE DEF t
<1>4. TypedTurn(t)
  BY <1>1, <1>2, <1>3
<1> QED BY <1>4 DEF t

(* A step that is a typed change of one connection.                        *)
TMoves(c) ==
  /\ \E v : /\ Typed(v)
            /\ stub' = v.stub
            /\ bffiles' = [bffiles EXCEPT ![c] = v.files]
            /\ webflag' = [webflag EXCEPT ![c] = v.flags]
            /\ sending' = NoConn \/ (sending' = c /\ "FOPEN" \in v.flags)
  /\ left' \in Nat

LEMMA TypedBeginning ==
  ASSUME NEW c, sending = NoConn, left \in Nat, NEW v, Typed(v), MoreToSend(v), StartSending(c, v)
  PROVE  TMoves(c)
<1> DEFINE e == EndCallback(SetSCB(v, {"FCLOSE", "DISCONNECT"}))
<1>1. Typed(e)
  <2>1. Typed(SetSCB(v, {"FCLOSE", "DISCONNECT"}))
    BY TypedFlags DEF Flags
  <2> QED BY <2>1, TypedEnd
<1>2. \/ Become(c, e) /\ UNCHANGED <<sending, left>>
      \/ Become(c, v) /\ sending' = c /\ left' \in Rooms
  BY DEF StartSending
<1> HIDE DEF e
<1>3. CASE Become(c, e) /\ UNCHANGED <<sending, left>>
  BY <1>1, <1>3 DEF Become, TMoves
<1>4. CASE Become(c, v) /\ sending' = c /\ left' \in Rooms
  <2>1. left' \in Nat /\ "FOPEN" \in v.flags
    BY <1>4, WebSrvAssumption DEF MoreToSend
  <2> QED BY <1>4, <2>1 DEF Become, TMoves
<1> QED BY <1>2, <1>3, <1>4

LEMMA TypedResponding ==
  ASSUME DiskType, NEW c, sending = NoConn, left \in Nat, NEW u, Typed(u),
         NEW status, NEW redir, NEW len, Respond(c, u, status, redir, len)
  PROVE  TMoves(c) /\ (unacked' = unacked \/ unacked' = unacked \cup {c})
<1> DEFINE v == web_print_headers(u, status, redir, len)
           e == EndCallback(SetSCB(u, {"FCLOSE", "DISCONNECT"}))
<1>1. Typed(v) /\ Typed(EndCallback(v))
  BY TypedAnswer, TypedEnd
<1>2. Typed(e)
  <2>1. Typed(SetSCB(u, {"FCLOSE", "DISCONNECT"}))
    BY TypedFlags DEF Flags
  <2> QED BY <2>1, TypedEnd
<1>3. /\ \/ MoreToSend(v) /\ StartSending(c, v)
         \/ UNCHANGED <<sending, left>> /\ (Become(c, v) \/ Become(c, EndCallback(v)) \/ Become(c, e))
      /\ unacked' = unacked \/ unacked' = unacked \cup {c}
  BY DEF Respond
<1> HIDE DEF v, e
<1>4. ASSUME NEW x, Typed(x), Become(c, x), UNCHANGED <<sending, left>>
      PROVE  TMoves(c)
  BY <1>4 DEF Become, TMoves
<1> QED BY <1>1, <1>2, <1>3, <1>4, TypedBeginning

LEMMA TypedMoving ==
  ASSUME TInv, IInv', NEW c \in Conns, TMoves(c), DiskType', linkd' \subseteq Conns,
         unacked' \subseteq unacked \cup {c}, rest' \in [Conns -> Seq(Word)],
         upload' \in [Conns -> UploadType],
         \A d \in Conns : upload'[d].stage = "data" => upload'[d].img \in Images,
         overlap' \in BOOLEAN, torn' \in BOOLEAN
  PROVE  TInv'
<1>1. PICK v : /\ Typed(v)
               /\ stub' = v.stub
               /\ bffiles' = [bffiles EXCEPT ![c] = v.files]
               /\ webflag' = [webflag EXCEPT ![c] = v.flags]
               /\ sending' = NoConn \/ (sending' = c /\ "FOPEN" \in v.flags)
  BY DEF TMoves
<1>2. Table(stub') /\ webflag' \in [Conns -> SUBSET Flags] /\ webflag'[c] = v.flags
      /\ bffiles'[c] = v.files
  BY <1>1 DEF TInv, IInv, Typed
<1>3. \A d \in Conns : "FOPEN" \in webflag'[d] => bffiles'[d][0] # Invalid
  BY <1>1, <1>2 DEF TInv, IInv, Typed
<1>4. sending' # NoConn => "FOPEN" \in webflag'[sending']
  BY <1>1, <1>2
<1>5. unacked' \subseteq Conns
  BY DEF TInv
<1>6. left' \in Nat
  BY DEF TMoves
<1> QED BY <1>2, <1>3, <1>4, <1>5, <1>6 DEF TInv

LEMMA TypedConn ==
  ASSUME TInv, NEW c \in Conns
  PROVE  Typed(Conn(c))
<1>1. Sound(Conn(c))
  BY Sounds DEF TInv
<1> QED BY <1>1 DEF TInv, Conn, Typed

LEMMA TypedRequest ==
  ASSUME TInv, NEW c \in Conns, Request(c)
  PROVE  TMoves(c) /\ unacked' \subseteq unacked \cup {c}
<1>1. PICK name \in Asks[c], password \in BOOLEAN, get \in BOOLEAN :
        LET w == Conn(c)
            v == SetSCB(IF Opens(w, name) THEN webserver_open_file(w, name) ELSE w,
                        IF get THEN {"HEAD_OK"} ELSE {"HEAD_OK", "POST"})
            len == IF ~Opens(w, name) THEN 0 ELSE IF get THEN Size(name) ELSE FormLen
            status == Status(w, name, password)
        IN Respond(c, v, status, FALSE, len)
  BY DEF Request
<1> DEFINE w == Conn(c)
           u == IF Opens(w, name) THEN webserver_open_file(w, name) ELSE w
           f == IF get THEN {"HEAD_OK"} ELSE {"HEAD_OK", "POST"}
           v == SetSCB(u, f)
           len == IF ~Opens(w, name) THEN 0 ELSE IF get THEN Size(name) ELSE FormLen
<1>2. Respond(c, v, Status(w, name, password), FALSE, len)
  BY <1>1
<1>7. sending = NoConn /\ left \in Nat /\ DiskType
  BY DEF Request, TInv
<1> HIDE DEF w
<1>3. Typed(w)
  BY TypedConn DEF w
<1>4. Typed(u)
  BY <1>3, <1>7, TypedOpenFile
<1> HIDE DEF u, len
<1>5. Typed(v)
  BY <1>4, TypedFlags DEF Flags
<1> HIDE DEF v
<1> QED BY <1>2, <1>5, <1>7, TypedResponding

LEMMA TypedFormBegins ==
  ASSUME TInv, NEW c \in Conns, FormBegins(c)
  PROVE  TMoves(c)
<1>1. PICK name \in Asks[c] :
        /\ Opens(Conn(c), name)
        /\ Become(c, SetSCB(webserver_open_file(Conn(c), name),
                            IF name \in Protected THEN {"POST", "AUTH"} ELSE {"POST"}))
  BY DEF FormBegins
<1> DEFINE u == webserver_open_file(Conn(c), name)
           f == IF name \in Protected THEN {"POST", "AUTH"} ELSE {"POST"}
<1>2. Typed(u)
  BY <1>1, TypedConn, TypedOpenFile DEF TInv
<1>3. Become(c, SetSCB(u, f)) /\ sending = NoConn /\ UNCHANGED <<sending, left>> /\ left \in Nat
  BY <1>1 DEF FormBegins, TInv
<1> HIDE DEF u
<1>4. Typed(SetSCB(u, f))
  BY <1>2, TypedFlags DEF Flags
<1> HIDE DEF f
<1> QED BY <1>3, <1>4 DEF Become, TMoves

LEMMA TypedFormEnds ==
  ASSUME TInv, NEW c \in Conns, FormEnds(c)
  PROVE  TMoves(c) /\ unacked' \subseteq unacked \cup {c}
<1>1. PICK status : Respond(c, SetSCB(Conn(c), {"HEAD_OK"}), status, FALSE, FormLen)
  BY ZenonT(60) DEF FormEnds
<1>2. Typed(SetSCB(Conn(c), {"HEAD_OK"}))
  BY TypedConn, TypedFlags DEF Flags
<1>3. sending = NoConn /\ left \in Nat /\ DiskType
  BY DEF FormEnds, TInv
<1> QED BY <1>1, <1>2, <1>3, TypedResponding

LEMMA TypedSent ==
  ASSUME TInv, NEW c \in Conns, Sent(c)
  PROVE  TMoves(c)
<1>1. StartSending(c, Conn(c)) /\ sending = NoConn /\ MoreToSend(Conn(c)) /\ left \in Nat
  BY DEF Sent, CanSend, TInv
<1> QED BY <1>1, TypedConn, TypedBeginning

LEMMA TypedUploadBegins ==
  ASSUME TInv, NEW c \in Conns, UploadBegins(c)
  PROVE  TMoves(c)
<1>1. PICK name \in Asks[c] \cup {Form} :
        /\ Opens(Conn(c), name)
        /\ Become(c, SetSCB(webserver_open_file(Conn(c), name), {"POST", "RXDATA", "HEAD_OK"}))
  BY DEF UploadBegins
<1> DEFINE u == webserver_open_file(Conn(c), name)
<1>2. Typed(u)
  BY <1>1, TypedConn, TypedOpenFile DEF TInv
<1>3. /\ Become(c, SetSCB(u, {"POST", "RXDATA", "HEAD_OK"})) /\ sending = NoConn
      /\ UNCHANGED <<sending, left>> /\ left \in Nat
  BY <1>1 DEF UploadBegins, TInv
<1> HIDE DEF u
<1>4. Typed(SetSCB(u, {"POST", "RXDATA", "HEAD_OK"}))
  BY <1>2, TypedFlags DEF Flags
<1> QED BY <1>3, <1>4 DEF Become, TMoves

LEMMA TypedUploadAnswered ==
  ASSUME DiskType, NEW c, sending = NoConn, left \in Nat, NEW u, Typed(u), NEW status, NEW redir,
         UploadAnswered(c, u, status, redir)
  PROVE  TMoves(c) /\ unacked' \subseteq unacked \cup {c}
<1>1. Typed(SetSCB(u, {"DISCONNECT"}))
  BY TypedFlags DEF Flags
<1>2. Respond(c, SetSCB(u, {"DISCONNECT"}), status, redir, 0)
  BY DEF UploadAnswered
<1> QED BY <1>1, <1>2, TypedResponding

LEMMA TypedUploadRefused ==
  ASSUME TInv, NEW c \in Conns, UploadRefused(c)
  PROVE  TMoves(c) /\ unacked' \subseteq unacked \cup {c}
<1>1. \E status, redir : UploadAnswered(c, Conn(c), status, redir)
  BY Zenon DEF UploadRefused
<1>2. sending = NoConn /\ left \in Nat /\ DiskType
  BY DEF UploadRefused, Uploads, TInv
<1> QED BY <1>1, <1>2, TypedConn, TypedUploadAnswered

LEMMA TypedUploadEnds ==
  ASSUME TInv, NEW c \in Conns, UploadEnds(c)
  PROVE  TMoves(c) /\ unacked' \subseteq unacked \cup {c}
<1> DEFINE u == [Conn(c) EXCEPT !.stub = AllFree]
<1>1. u = [stub |-> AllFree, files |-> bffiles[c], flags |-> webflag[c]]
  BY DEF Conn
<1>2. PICK status, redir : UploadAnswered(c, u, status, redir)
  BY Zenon DEF UploadEnds
<1>3. \A h \in Handles : AllFree[h] = Free
  BY DEF AllFree
<1>4. sending = NoConn /\ left \in Nat /\ DiskType
  BY DEF UploadEnds, Uploads, TInv
<1> HIDE DEF u
<1>5. Typed(u)
  <2>1. Sound(u)
    BY <1>1, <1>3, Bounds DEF Sound, IsTable, AllFree, IInv, TInv
  <2> QED BY <1>1, <1>3, <2>1 DEF Typed, Table, TInv
<1> QED BY <1>2, <1>4, <1>5, TypedUploadAnswered

LEMMA TypedDisconnect ==
  ASSUME TInv, NEW c \in Conns, Disconnect(c)
  PROVE  TMoves(c)
<1> DEFINE u == Close_web_conn(Conn(c))
           v == [u EXCEPT !.flags = {}]
<1>1. Typed(u) /\ u.files = NoFiles
  BY TypedConn, TypedClose DEF Close_web_conn
<1>2. stub' = u.stub /\ sending = NoConn /\ UNCHANGED <<sending, left>> /\ left \in Nat
      /\ bffiles' = [bffiles EXCEPT ![c] = NoFiles] /\ webflag' = [webflag EXCEPT ![c] = {}]
  BY DEF Disconnect, TInv
<1> HIDE DEF u
<1>3. v = [stub |-> u.stub, files |-> u.files, flags |-> {}]
  BY <1>1 DEF Typed, Sound
<1> HIDE DEF v
<1>4. Typed(v)
  BY <1>1, <1>3 DEF Typed, Sound
<1> QED BY <1>1, <1>2, <1>3, <1>4 DEF TMoves

(* A turn that does not end the page leaves a file to be sent.             *)
LEMMA StaysOpen ==
  ASSUME NEW w, Sound(w), "FOPEN" \in w.flags, NEW text, "FCLOSE" \notin Send(w, text).w.flags
  PROVE  "FOPEN" \in Send(w, text).w.flags
<1> DEFINE t == Send(w, text)
           Open(v) == "FOPEN" \in v.flags \/ "FCLOSE" \in v.flags
<1>1. ASSUME NEW v, NEW f, "FOPEN" \in v.flags, "FOPEN" \notin f, v.flags = w.flags,
             v = [stub |-> v.stub, files |-> v.files, flags |-> v.flags]
      PROVE  /\ "FOPEN" \in SetSCB(v, f).flags
             /\ "FOPEN" \in ClrSCB(v, f).flags
  BY <1>1 DEF SetSCB, ClrSCB
<1>2. ASSUME NEW v PROVE Open(AtEnd(v))
  <2> DEFINE u == web_inc_fclose(v)
  <2>1. u = [stub |-> u.stub, files |-> u.files, flags |-> u.flags]
    BY DEF web_inc_fclose
  <2>2. AtEnd(v) = IF "FOPEN" \in u.flags THEN u ELSE SetSCB(u, {"FCLOSE", "DISCONNECT"})
    BY DEF AtEnd
  <2> HIDE DEF u
  <2>3. "FCLOSE" \in SetSCB(u, {"FCLOSE", "DISCONNECT"}).flags
    BY <2>1 DEF SetSCB
  <2> QED BY <2>2, <2>3
<1>3. ASSUME NEW v, NEW str, "FOPEN" \in v.flags, v.flags \subseteq w.flags,
             v = [stub |-> v.stub, files |-> v.files, flags |-> v.flags]
      PROVE  Open(SendVariable(v, str).w) /\ Open(SendCallback(v, str).w)
  <2>1. ASSUME NEW x PROVE "FOPEN" \in SendVariable(v, x).w.flags
    <3>1. "FOPEN" \in SetSCB(v, {"RETRYCB"}).flags /\ "FOPEN" \in ClrSCB(v, {"RETRYCB"}).flags
      BY <1>3 DEF SetSCB, ClrSCB
    <3> HIDE DEF SetSCB, ClrSCB
    <3>2. SendVariable(v, x).w \in {SetSCB(v, {"RETRYCB"}), ClrSCB(v, {"RETRYCB"})}
      BY DEF SendVariable, Turned
    <3> QED BY <3>1, <3>2
  <2>2. "FOPEN" \in web_inc_fopen(v, str[1].x).flags
    BY DEF web_inc_fopen, web_inc_fp, SetSCB
  <2>3. \/ SendCallback(v, str).w = web_inc_fopen(v, str[1].x) \/ SendCallback(v, str).w = v
        \/ SendCallback(v, str) = SendVariable(v, Output[str[1].x])
    BY DEF SendCallback, Turned
  <2> QED BY <1>3, <2>1, <2>2, <2>3
<1>4. Open(SendBuiltin(w).w)
  BY DEF SendBuiltin, Turned, SetSCB, Sound
<1>5. Open(SendPlain(w).w)
  <2> DEFINE v == [w EXCEPT !.stub = Advance(@, w.files[0], Len(GetArray(w.stub, w.files[0], left)))]
  <2>1. v.flags = w.flags /\ v = [stub |-> v.stub, files |-> v.files, flags |-> v.flags]
    BY DEF Sound
  <2>2. \/ SendPlain(w).w = v \/ SendPlain(w).w = SetSCB(v, {"FCLOSE", "DISCONNECT"})
    BY DEF SendPlain, Turned
  <2> HIDE DEF v
  <2> QED BY <1>1, <2>1, <2>2
<1>6. Open(SendParsed(w).w)
  <2> DEFINE n == UpTo(left, Window)
             buf == GetArray(w.stub, w.files[0], n)
             at == SelectInSeq(buf, LAMBDA x : x = Mark)
             To(k) == [w EXCEPT !.stub = Advance(@, w.files[0], k)]
             p == SendParsed(w)
  <2>1. \A k : To(k).flags = w.flags /\ To(k) = [stub |-> To(k).stub, files |-> To(k).files, flags |-> To(k).flags]
    BY DEF Sound
  <2>2. \/ p.w = SetSCB(To(at), {"FINDCB"})
        \/ p.w = ClrSCB(To(1), {"FINDCB"})
        \/ p = SendCallback(ClrSCB(To(at), {"FINDCB"}), SubSeq(buf, 1, at - 1))
        \/ p.w = ClrSCB(To(n), {"FINDCB"})
        \/ p.w = AtEnd(ClrSCB(To(Len(buf)), {"FINDCB"}))
        \/ p.w = AtEnd(w)
    <3> HIDE DEF n, buf, at, To, p
    <3>1. p =
            CASE at > 0 /\ "FINDCB" \notin w.flags ->
                   Turned(SetSCB(To(at), {"FINDCB"}), SubSeq(buf, 1, at - 1), <<>>, TRUE)
              [] at = 1 /\ "FINDCB" \in w.flags ->
                   Turned(ClrSCB(To(1), {"FINDCB"}), <<Mark>>, <<>>, TRUE)
              [] at > 1 /\ "FINDCB" \in w.flags ->
                   SendCallback(ClrSCB(To(at), {"FINDCB"}), SubSeq(buf, 1, at - 1))
              [] at = 0 /\ Len(buf) = n -> Turned(ClrSCB(To(n), {"FINDCB"}), buf, <<>>, TRUE)
              [] at = 0 /\ Len(buf) \in 1..n - 1 ->
                   Turned(AtEnd(ClrSCB(To(Len(buf)), {"FINDCB"})), buf, <<>>, TRUE)
              [] OTHER -> Turned(AtEnd(w), <<>>, <<>>, TRUE)
      BY DEF SendParsed, n, buf, at, To, p
    <3> QED BY <3>1 DEF Turned
  <2> HIDE DEF n, buf, at, To, p
  <2>3. \A k : "FOPEN" \in SetSCB(To(k), {"FINDCB"}).flags /\ "FOPEN" \in ClrSCB(To(k), {"FINDCB"}).flags
    BY <1>1, <2>1
  <2>4. Open(SendCallback(ClrSCB(To(at), {"FINDCB"}), SubSeq(buf, 1, at - 1)).w)
    <3> DEFINE v == ClrSCB(To(at), {"FINDCB"})
    <3>1. v = [stub |-> v.stub, files |-> v.files, flags |-> v.flags] /\ v.flags \subseteq w.flags
      BY <2>1 DEF ClrSCB
    <3>2. "FOPEN" \in v.flags
      BY <2>3
    <3> HIDE DEF v, Open
    <3> QED BY <1>3, <3>1, <3>2 DEF v
  <2>5. Open(AtEnd(ClrSCB(To(Len(buf)), {"FINDCB"}))) /\ Open(AtEnd(w))
    BY <1>2
  <2>6. Open(p.w)
    BY <2>2, <2>3, <2>4, <2>5
  <2> QED BY <2>6 DEF p
<1>7. t = SendVariable(w, text) \/ t = SendBuiltin(w) \/ t = SendPlain(w) \/ t = SendParsed(w)
  BY DEF Send
<1>8. Open(SendVariable(w, text).w)
  BY <1>3 DEF Sound
<1> HIDE DEF t, Open
<1>9. Open(t.w)
  BY <1>4, <1>5, <1>6, <1>7, <1>8
<1> QED BY <1>9 DEF t, Open

LEMMA TypedTurning ==
  ASSUME TInv, Turn
  PROVE  /\ sending \in Conns /\ TMoves(sending) /\ unacked' \subseteq unacked \cup {sending}
         /\ rest' \in [Conns -> Seq(Word)]
<1> DEFINE c == sending
           t == Send(Conn(c), rest[c])
           go == /\ "FCALBACK" \in webflag[c]
                 /\ left - Len(t.out) >= Window
                 /\ t.w.flags \cap {"FCLOSE", "RETRYCB", "DISCONNECT"} = {}
<1>1. c \in Conns /\ "FOPEN" \in Conn(c).flags
  BY DEF Turn, TInv, IInv, Conn
<1>2. Typed(Conn(c)) /\ rest[c] \in Seq(Word) /\ left \in Nat /\ DiskType
  BY <1>1, TypedConn DEF TInv
<1>3. TypedTurn(t)
  BY <1>1, <1>2, TypedSend
<1>4. /\ Become(c, IF go THEN t.w ELSE EndCallback(t.w))
      /\ rest' = [rest EXCEPT ![c] = t.more]
      /\ left' = IF go THEN left - Len(t.out) ELSE 0
      /\ sending' = IF go THEN c ELSE NoConn
      /\ unacked' = IF t.out # <<>> THEN unacked \cup {c} ELSE unacked
  BY DEF Turn
<1>5. "FCLOSE" \notin t.w.flags => "FOPEN" \in t.w.flags
  BY <1>1, <1>2, StaysOpen DEF Typed
<1> HIDE DEF t
<1>6. Typed(t.w) /\ Typed(EndCallback(t.w)) /\ Len(t.out) \in Nat /\ t.more \in Seq(Word)
  BY <1>3, TypedEnd DEF TypedTurn
<1>7. rest' \in [Conns -> Seq(Word)]
  BY <1>4, <1>6 DEF TInv
<1>8. CASE go
  <2>1. left' \in Nat
    BY <1>2, <1>4, <1>6, <1>8, WebSrvAssumption
  <2>2. "FOPEN" \in t.w.flags
    BY <1>5, <1>8
  <2> QED BY <1>1, <1>4, <1>6, <1>7, <1>8, <2>1, <2>2 DEF Become, TMoves
<1>9. CASE ~go
  <2> HIDE DEF go
  <2> QED BY <1>1, <1>4, <1>6, <1>7, <1>9 DEF Become, TMoves
<1> QED BY <1>8, <1>9

LEMMA StepTInv ==
  ASSUME TInv, [Next]_vars
  PROVE  TInv'
<1> USE DEF TInv
<1>0. IInv'
  BY StepIInv
<1>1. NoUpload \in UploadType /\ [stage |-> "head", img |-> None, next |-> 0] \in UploadType
      /\ NoUpload.stage # "data"
  BY WebFSAssumption DEF NoUpload, UploadType
<1>2. UNCHANGED onDisk => DiskType' /\ torn' \in BOOLEAN
  BY DEF onDisk, DiskType
<1>3. ASSUME NEW c \in Conns, Request(c) \/ FormBegins(c) \/ FormEnds(c) \/ Sent(c)
      PROVE  TInv'
  <2>1. TMoves(c) /\ unacked' \subseteq unacked \cup {c}
    <3>1. CASE Request(c) \/ FormEnds(c)
      BY <3>1, TypedRequest, TypedFormEnds
    <3>2. CASE FormBegins(c) \/ Sent(c)
      BY <3>2, TypedFormBegins, TypedSent DEF FormBegins, Sent
    <3> QED BY <1>3, <3>1, <3>2
  <2>2. UNCHANGED <<onDisk, rest, upload>> /\ NotTouched /\ linkd' \subseteq Conns
    BY <1>3 DEF Request, FormBegins, FormEnds, Sent
  <2>3. overlap' \in BOOLEAN
    BY <2>2 DEF NotTouched
  <2> QED BY <1>0, <1>2, <2>1, <2>2, <2>3, TypedMoving
<1>4. ASSUME NEW c \in Conns, UploadBegins(c)
      PROVE  TInv'
  <2>1. /\ TMoves(c) /\ UNCHANGED <<onDisk, rest, unacked>> /\ linkd' \subseteq Conns
        /\ upload' = [upload EXCEPT ![c] = [stage |-> "head", img |-> None, next |-> 0]]
        /\ overlap' \in BOOLEAN
    BY <1>4, TypedUploadBegins DEF UploadBegins, NotTouched
  <2>2. upload' \in [Conns -> UploadType] /\ \A d \in Conns : upload'[d].stage = "data" => upload'[d].img \in Images
    BY <1>1, <2>1
  <2> QED BY <1>0, <1>2, <2>1, <2>2, TypedMoving
<1>5. ASSUME NEW c \in Conns, UploadAccepted(c)
      PROVE  TInv'
  <2>1. PICK v \in Images : upload' = [upload EXCEPT ![c] = [stage |-> "data", img |-> v, next |-> 0]]
    BY <1>5 DEF UploadAccepted
  <2>2. /\ UNCHANGED <<stub, numFiles, disk, torn, linkd, bffiles, webflag, rest, unacked, sending, left>>
        /\ isWEBFSLocked' = TRUE /\ overlap' \in BOOLEAN
    BY <1>5 DEF UploadAccepted, Lock, Touched
  <2>3. [stage |-> "data", img |-> v, next |-> 0] \in UploadType
    BY WebFSAssumption DEF UploadType
  <2>4. upload' \in [Conns -> UploadType] /\ \A d \in Conns : upload'[d].stage = "data" => upload'[d].img \in Images
    BY <2>1, <2>3
  <2>5. DiskType'
    BY <2>2 DEF DiskType
  <2> QED BY <1>0, <2>2, <2>4, <2>5
<1>6. ASSUME NEW c \in Conns, UploadRefused(c)
      PROVE  TInv'
  <2>1. /\ TMoves(c) /\ unacked' \subseteq unacked \cup {c} /\ UNCHANGED <<onDisk, rest, linkd>>
        /\ upload' = [upload EXCEPT ![c] = NoUpload] /\ overlap' \in BOOLEAN
    BY <1>6, TypedUploadRefused DEF UploadRefused, UploadAnswered, NotTouched
  <2>2. upload' \in [Conns -> UploadType] /\ \A d \in Conns : upload'[d].stage = "data" => upload'[d].img \in Images
    BY <1>1, <2>1
  <2> QED BY <1>0, <1>2, <2>1, <2>2, TypedMoving
<1>7. ASSUME NEW c \in Conns, upload[c].stage = "data"
      PROVE  Written(c) \in [0..DiskBlocks - 1 -> Images \cup {None}]
  BY <1>7 DEF Written, WriteBlock, DiskType
<1>8. ASSUME NEW c \in Conns, UploadBlock(c)
      PROVE  TInv'
  <2>1. /\ upload[c].stage = "data" /\ upload[c].next < Blocks(upload[c].img) /\ disk' = Written(c)
        /\ upload' = [upload EXCEPT ![c].next = @ + 1]
        /\ UNCHANGED <<stub, isWEBFSLocked, numFiles, torn, linkd, bffiles, webflag, rest,
                       unacked, sending, left>>
        /\ overlap' \in BOOLEAN
    BY <1>8 DEF UploadBlock, Uploads, Touched
  <2>2. DiskType'
    BY <1>7, <2>1 DEF DiskType
  <2>3. upload[c] = [stage |-> "data", img |-> upload[c].img, next |-> upload[c].next]
        /\ upload[c].img \in Images /\ upload[c].next \in 0..DiskBlocks
    BY <2>1 DEF UploadType
  <2>4. upload[c].next + 1 \in 0..DiskBlocks
    BY <2>1, <2>3, BlockFacts, WebFSAssumption
  <2>5. [stage |-> "data", img |-> upload[c].img, next |-> upload[c].next + 1] \in UploadType
    BY <2>3, <2>4 DEF UploadType
  <2>6. /\ upload'[c] = [stage |-> "data", img |-> upload[c].img, next |-> upload[c].next + 1]
        /\ \A d \in Conns \ {c} : upload'[d] = upload[d]
    BY <2>1, <2>3
  <2>7. upload' \in [Conns -> UploadType] /\ \A d \in Conns : upload'[d].stage = "data" => upload'[d].img \in Images
    BY <2>1, <2>3, <2>5, <2>6
  <2> QED BY <1>0, <2>1, <2>2, <2>7
<1>9. ASSUME NEW c \in Conns, UploadEnds(c)
      PROVE  TInv'
  <2>1. TMoves(c) /\ unacked' \subseteq unacked \cup {c}
    BY <1>9, TypedUploadEnds
  <2>2. /\ upload[c].stage = "data" /\ disk' \in {Written(c), disk}
        /\ upload' = [upload EXCEPT ![c] = NoUpload]
        /\ numFiles' = disk'[0] /\ isWEBFSLocked' = (disk'[0] = None)
        /\ torn' \in BOOLEAN /\ UNCHANGED <<linkd, rest>> /\ overlap' \in BOOLEAN
    BY <1>9 DEF UploadEnds, Uploads, UploadAnswered, Touched
  <2>3. DiskType'
    <3>1. 0 \in 0..DiskBlocks - 1
      BY WebFSAssumption
    <3> QED BY <1>7, <2>2, <3>1 DEF DiskType
  <2>4. upload' \in [Conns -> UploadType] /\ \A d \in Conns : upload'[d].stage = "data" => upload'[d].img \in Images
    BY <1>1, <2>2
  <2> QED BY <1>0, <2>1, <2>2, <2>3, <2>4, TypedMoving
<1>10. ASSUME NEW c \in Conns, Disconnect(c)
      PROVE  TInv'
  <2>1. TMoves(c)
    BY <1>10, TypedDisconnect
  <2>2. /\ rest' = [rest EXCEPT ![c] = <<>>] /\ upload' = [upload EXCEPT ![c] = NoUpload]
        /\ linkd' \subseteq Conns /\ unacked' \subseteq unacked \cup {c}
        /\ UNCHANGED onDisk /\ overlap' \in BOOLEAN
    BY <1>10 DEF Disconnect, NotTouched
  <2>3. rest' \in [Conns -> Seq(Word)]
    BY <2>2, NoWords
  <2>4. upload' \in [Conns -> UploadType] /\ \A d \in Conns : upload'[d].stage = "data" => upload'[d].img \in Images
    BY <1>1, <2>2
  <2> QED BY <1>0, <1>2, <2>1, <2>2, <2>3, <2>4, TypedMoving
<1>11. CASE Turn
  <2>1. UNCHANGED <<onDisk, linkd, upload>> /\ overlap' \in BOOLEAN
    BY <1>11 DEF Turn, NotTouched
  <2> QED BY <1>0, <1>2, <1>11, <2>1, TypedTurning, TypedMoving
<1>12. CASE Restart
  <2>1. /\ stub' = AllFree /\ numFiles' = disk[0] /\ isWEBFSLocked' = (disk[0] = None) /\ disk' = disk
        /\ linkd' = {} /\ unacked' = {} /\ sending' = NoConn /\ left' = 0
        /\ webflag' = [c \in Conns |-> {}] /\ rest' = [c \in Conns |-> <<>>]
        /\ upload' = [c \in Conns |-> NoUpload] /\ overlap' = FALSE /\ torn' \in BOOLEAN
    BY <1>12 DEF Restart, WEBFSInit
  <2>2. DiskType'
    <3>1. 0 \in 0..DiskBlocks - 1
      BY WebFSAssumption
    <3> QED BY <2>1, <3>1 DEF DiskType
  <2>3. Table(stub')
    BY <2>1 DEF Table, AllFree
  <2> QED BY <1>0, <1>1, <2>1, <2>2, <2>3, NoWords
<1>13. CASE UNCHANGED vars
  BY <1>0, <1>13 DEF vars, DiskType
<1>14. Next => Turn \/ Restart \/ \E c \in Conns :
        \/ Request(c) \/ FormBegins(c) \/ FormEnds(c) \/ Sent(c)
        \/ UploadBegins(c) \/ UploadAccepted(c) \/ UploadRefused(c)
        \/ UploadBlock(c) \/ UploadEnds(c) \/ Disconnect(c)
  BY DEF Next
<1> QED BY <1>3, <1>4, <1>5, <1>6, <1>8, <1>9, <1>10, <1>11, <1>12, <1>13, <1>14

LEMMA InitTInv == Init => TInv
<1> SUFFICES ASSUME Init PROVE TInv
  OBVIOUS
<1>1. DiskType
  <2>1. disk \in [0..DiskBlocks - 1 -> Images \cup {None}]
    BY DEF Init
  <2>2. 0 \in 0..DiskBlocks - 1
    BY WebFSAssumption
  <2> QED BY <2>1, <2>2 DEF Init, DiskType
<1>2. Table(stub)
  BY DEF Init, Table, AllFree
<1>3. NoUpload \in UploadType /\ NoUpload.stage # "data"
  BY WebFSAssumption DEF NoUpload, UploadType
<1>4. /\ linkd = {} /\ unacked = {} /\ webflag = [c \in Conns |-> {}]
      /\ rest = [c \in Conns |-> <<>>] /\ upload = [c \in Conns |-> NoUpload]
      /\ sending = NoConn /\ left = 0 /\ overlap = FALSE /\ torn = FALSE
  BY DEF Init
<1>5. IInv
  BY InitIInv
<1> QED BY <1>1, <1>2, <1>3, <1>4, <1>5, NoWords DEF TInv

(* Every run of the server is well typed: no read of an open file leaves   *)
(* the disk, no count of what is left of it or of the send buffer becomes  *)
(* negative, and an upload stays on the disk.                              *)
THEOREM WellTyped == Spec => []TypeOK
<1>1. TInv => TypeOK
  <2> SUFFICES ASSUME TInv PROVE TypeOK
    OBVIOUS
  <2>1. stub \in [Handles -> Stub \cup {Free}]
    BY DEF TInv, IInv, IsTable, Table
  <2>2. \A c \in Conns : Len(rest[c]) \in Nat
    <3>1. \A c \in Conns : rest[c] \in Seq(Word)
      BY DEF TInv
    <3> QED BY <3>1
  <2>3. upload \in [Conns -> [stage : {"none", "head", "data"}, img : Images \cup {None},
                           next : 0..DiskBlocks]]
    BY DEF TInv, UploadType
  <2> QED BY <2>1, <2>2, <2>3 DEF TInv, IInv, DiskType, TypeOK, FSTypeOK
<1>2. Init /\ [][Next]_vars => []TInv
  BY InitTInv, StepTInv, PTL
<1> QED BY <1>1, <1>2, PTL DEF Spec
-----------------------------------------------------------------------------
(* The pages that are recorded.  What a connection has when it is not      *)
(* linked, and what is known while its page is recorded.                   *)
Blank(c) ==
  /\ bffiles[c] = NoFiles /\ webflag[c] = {} /\ rest[c] = <<>>
  /\ upload[c].stage = "none" /\ page[c].img = None

BInv ==
  /\ TInv
  /\ page = [c \in Conns |-> page[c]]
  /\ \A c \in Conns \ linkd : Blank(c)
  /\ \A c \in Conns : page[c].img # None => "HEAD_OK" \in webflag[c] /\ upload[c].stage = "none"
  /\ sending # NoConn => sending \in linkd /\ MoreToSend(Conn(sending)) /\ left >= Window

(* A step of c leaves the others alone.                                    *)
Aside(c) ==
  \A d \in Conns \ {c} :
    /\ bffiles'[d] = bffiles[d] /\ webflag'[d] = webflag[d] /\ rest'[d] = rest[d]
    /\ upload'[d] = upload[d] /\ page'[d] = page[d] /\ (d \in linkd' <=> d \in linkd)

LEMMA Responds ==
  ASSUME NEW c, sending = NoConn, NEW u, NEW status, NEW redir, NEW len,
         Respond(c, u, status, redir, len)
  PROVE  /\ \E v : Become(c, v)
         /\ \/ sending' = NoConn
            \/ /\ sending' = c /\ left' \in Rooms
               /\ \E v : Become(c, v) /\ MoreToSend(v)
<1> DEFINE v == web_print_headers(u, status, redir, len)
           e == EndCallback(SetSCB(u, {"FCLOSE", "DISCONNECT"}))
<1>1. \/ MoreToSend(v) /\ StartSending(c, v)
      \/ UNCHANGED sending /\ \E x : Become(c, x)
  BY DEF Respond
<1> HIDE DEF v, e
<1>2. CASE MoreToSend(v) /\ StartSending(c, v)
  BY <1>2 DEF StartSending
<1>3. CASE UNCHANGED sending /\ \E x : Become(c, x)
  BY <1>3
<1> QED BY <1>1, <1>2, <1>3

(* What the steps of a connection do to it, and that they do no more.      *)
LEMMA Acts ==
  ASSUME BInv, NEW c \in Conns,
         \/ Request(c) \/ FormBegins(c) \/ FormEnds(c) \/ Sent(c)
         \/ UploadBegins(c) \/ UploadAccepted(c) \/ UploadRefused(c)
         \/ UploadBlock(c) \/ UploadEnds(c)
  PROVE  /\ Aside(c) /\ c \in linkd'
         /\ sending = NoConn
         /\ \/ sending' = NoConn
            \/ /\ sending' = c /\ left' \in Rooms /\ MoreToSend(Conn(c)')
         /\ page' = [d \in Conns |-> page'[d]]
<1>0. /\ bffiles = [d \in Conns |-> bffiles[d]] /\ webflag = [d \in Conns |-> webflag[d]]
      /\ upload = [d \in Conns |-> upload[d]] /\ page = [d \in Conns |-> page[d]]
  BY DEF BInv, TInv, IInv
<1>1. ASSUME NEW v, Become(c, v)
      PROVE  /\ \A d \in Conns \ {c} : bffiles'[d] = bffiles[d] /\ webflag'[d] = webflag[d]
             /\ Conn(c)'.flags = v.flags
  BY <1>0, <1>1 DEF Become, Conn
<1>2. ASSUME NEW v PROVE MoreToSend(v) = ("FOPEN" \in v.flags /\ v.flags \cap {"CLOSED", "DISCONNECT", "FCLOSE"} = {})
  BY DEF MoreToSend
<1> DEFINE Goal == /\ Aside(c) /\ c \in linkd' /\ sending = NoConn
                   /\ \/ sending' = NoConn
                      \/ /\ sending' = c /\ left' \in Rooms /\ MoreToSend(Conn(c)')
                   /\ page' = [d \in Conns |-> page'[d]]
<1>3. ASSUME sending = NoConn, c \in linkd', \A d \in Conns \ {c} : d \in linkd' <=> d \in linkd,
             UNCHANGED rest,
             UNCHANGED upload \/ \E x : upload' = [upload EXCEPT ![c] = x],
             UNCHANGED page \/ \E x : page' = [page EXCEPT ![c] = x],
             \E v : Become(c, v),
             \/ sending' = NoConn
             \/ sending' = c /\ left' \in Rooms /\ \E v : Become(c, v) /\ MoreToSend(v)
      PROVE  Goal
  <2>1. \A d \in Conns \ {c} : bffiles'[d] = bffiles[d] /\ webflag'[d] = webflag[d]
    BY <1>1, <1>3
  <2>2. \A d \in Conns \ {c} : upload'[d] = upload[d] /\ page'[d] = page[d]
    BY <1>0, <1>3
  <2>3. Aside(c)
    BY <1>3, <2>1, <2>2 DEF Aside
  <2>4. sending' = NoConn \/ (sending' = c /\ left' \in Rooms /\ MoreToSend(Conn(c)'))
    BY <1>1, <1>2, <1>3
  <2>5. page' = [d \in Conns |-> page'[d]]
    BY <1>0, <1>3
  <2> QED BY <1>3, <2>3, <2>4, <2>5
<1>4. ASSUME Request(c) \/ FormEnds(c) PROVE Goal
  <2>1. \E u, status, redir, len : Respond(c, u, status, redir, len)
    BY ZenonT(60), <1>4 DEF Request, FormEnds
  <2>2. /\ sending = NoConn /\ c \in linkd' /\ \A d \in Conns \ {c} : d \in linkd' <=> d \in linkd
        /\ UNCHANGED rest /\ UNCHANGED upload
        /\ UNCHANGED page \/ \E x : page' = [page EXCEPT ![c] = x]
    <3>1. CASE Request(c)
      <4>1. sending = NoConn /\ linkd' = linkd \cup {c} /\ UNCHANGED <<rest, upload>>
        BY <3>1 DEF Request
      <4>2. \E x : page' = [page EXCEPT ![c] = x]
        BY Zenon, <3>1 DEF Request
      <4> QED BY <4>1, <4>2
    <3>2. CASE FormEnds(c)
      BY <3>2 DEF FormEnds
    <3> QED BY <1>4, <3>1, <3>2
  <2>3. /\ \E v : Become(c, v)
        /\ sending' = NoConn \/ (sending' = c /\ left' \in Rooms /\ \E v : Become(c, v) /\ MoreToSend(v))
    BY <2>1, <2>2, Responds
  <2> HIDE DEF Goal
  <2> QED BY <1>3, <2>2, <2>3
<1>5. ASSUME FormBegins(c) \/ UploadBegins(c) PROVE Goal
  <2>1. \E v : Become(c, v)
    BY <1>5 DEF FormBegins, UploadBegins
  <2>2. /\ sending = NoConn /\ linkd' = linkd \cup {c} /\ UNCHANGED <<rest, page, sending>>
        /\ UNCHANGED upload \/ \E x : upload' = [upload EXCEPT ![c] = x]
    BY <1>5 DEF FormBegins, UploadBegins
  <2> HIDE DEF Goal
  <2> QED BY <1>3, <2>1, <2>2
<1>6. ASSUME Sent(c) PROVE Goal
  <2>1. MoreToSend(Conn(c)) /\ StartSending(c, Conn(c)) /\ sending = NoConn /\ c \in linkd
        /\ UNCHANGED <<linkd, rest, page, upload>>
    BY <1>6 DEF Sent, CanSend
  <2>2. /\ \E v : Become(c, v)
        /\ sending' = NoConn \/ (sending' = c /\ left' \in Rooms /\ \E v : Become(c, v) /\ MoreToSend(v))
    BY <2>1 DEF StartSending
  <2> HIDE DEF Goal
  <2> QED BY <1>3, <2>1, <2>2
<1>7. ASSUME UploadRefused(c) \/ UploadEnds(c) PROVE Goal
  <2>1. \E u, status, redir, len : Respond(c, u, status, redir, len)
    <3>1. UploadRefused(c) => \E u, status, redir, len : Respond(c, u, status, redir, len)
      BY ZenonT(60) DEF UploadRefused, UploadAnswered
    <3>2. UploadEnds(c) => \E u, status, redir, len : Respond(c, u, status, redir, len)
      BY ZenonT(60) DEF UploadEnds, UploadAnswered
    <3> QED BY <1>7, <3>1, <3>2
  <2>2. /\ sending = NoConn /\ c \in linkd /\ UNCHANGED <<linkd, rest, page>>
        /\ \E x : upload' = [upload EXCEPT ![c] = x]
    BY <1>7 DEF UploadRefused, UploadEnds, UploadAnswered, Uploads
  <2>3. /\ \E v : Become(c, v)
        /\ sending' = NoConn \/ (sending' = c /\ left' \in Rooms /\ \E v : Become(c, v) /\ MoreToSend(v))
    BY <2>1, <2>2, Responds
  <2> HIDE DEF Goal
  <2> QED BY <1>3, <2>2, <2>3
<1>8. ASSUME UploadAccepted(c) \/ UploadBlock(c) PROVE Goal
  <2>1. /\ sending = NoConn /\ c \in linkd
        /\ UNCHANGED <<linkd, rest, page, bffiles, webflag, sending>>
        /\ \A d \in Conns \ {c} : upload'[d] = upload[d]
    <3>1. CASE UploadAccepted(c)
      BY <1>0, <3>1 DEF UploadAccepted, Uploads
    <3>2. CASE UploadBlock(c)
      BY <1>0, <3>2 DEF UploadBlock, Uploads
    <3> QED BY <1>8, <3>1, <3>2
  <2> QED BY <1>0, <2>1 DEF Aside
<1> HIDE DEF Goal
<1>9. Goal
  BY <1>4, <1>5, <1>6, <1>7, <1>8
<1> QED BY <1>9 DEF Goal

LEMMA FlagRecords ==
  ASSUME NEW x, x = [stub |-> x.stub, files |-> x.files, flags |-> x.flags], NEW f
  PROVE  /\ SetSCB(x, f) = [stub |-> x.stub, files |-> x.files, flags |-> x.flags \cup f]
         /\ ClrSCB(x, f) = [stub |-> x.stub, files |-> x.files, flags |-> x.flags \ f]
  BY DEF SetSCB, ClrSCB

(* What a turn of the send loop keeps.                                     *)
Kept(w, v) ==
  /\ "HEAD_OK" \in w.flags => "HEAD_OK" \in v.flags
  /\ "CLOSED" \in v.flags => "CLOSED" \in w.flags

LEMMA SendKeeps ==
  ASSUME NEW w, Sound(w), NEW text
  PROVE  Kept(w, Send(w, text).w)
<1> DEFINE t == Send(w, text)
           Like(v) == v.flags \cap {"HEAD_OK", "CLOSED"} = w.flags \cap {"HEAD_OK", "CLOSED"}
           Tuple(v) == v = [stub |-> v.stub, files |-> v.files, flags |-> v.flags]
<1>1. ASSUME NEW v, NEW f, Like(v), Tuple(v), f \cap {"HEAD_OK", "CLOSED"} = {}
      PROVE  /\ Like(SetSCB(v, f)) /\ Tuple(SetSCB(v, f))
             /\ Like(ClrSCB(v, f)) /\ Tuple(ClrSCB(v, f))
  <2>1. SetSCB(v, f) = [stub |-> v.stub, files |-> v.files, flags |-> v.flags \cup f]
        /\ ClrSCB(v, f) = [stub |-> v.stub, files |-> v.files, flags |-> v.flags \ f]
    BY <1>1 DEF SetSCB, ClrSCB
  <2> QED BY <1>1, <2>1
<1>2. ASSUME NEW v, Like(v) PROVE Like(AtEnd(v))
  <2> DEFINE u == web_inc_fclose(v)
  <2>1. Tuple(u) /\ Like(u)
    BY <1>2 DEF web_inc_fclose
  <2>2. AtEnd(v) = u \/ AtEnd(v) = SetSCB(u, {"FCLOSE", "DISCONNECT"})
    BY DEF AtEnd
  <2> HIDE DEF u, Like, Tuple
  <2>3. Like(SetSCB(u, {"FCLOSE", "DISCONNECT"}))
    BY <1>1, <2>1
  <2> QED BY <2>1, <2>2, <2>3
<1>3. ASSUME NEW v, NEW str, Like(v), Tuple(v)
      PROVE  Like(SendVariable(v, str).w) /\ Like(SendCallback(v, str).w)
  <2>1. ASSUME NEW x PROVE Like(SendVariable(v, x).w)
    <3>1. Like(SetSCB(v, {"RETRYCB"})) /\ Like(ClrSCB(v, {"RETRYCB"}))
      <4> HIDE DEF Like, Tuple
      <4> QED BY <1>1, <1>3
    <3> HIDE DEF SetSCB, ClrSCB, Like
    <3>2. SendVariable(v, x).w \in {SetSCB(v, {"RETRYCB"}), ClrSCB(v, {"RETRYCB"})}
      BY DEF SendVariable, Turned
    <3> QED BY <3>1, <3>2
  <2>2. Like(web_inc_fopen(v, str[1].x))
    BY <1>3 DEF web_inc_fopen, web_inc_fp, SetSCB
  <2>3. \/ SendCallback(v, str).w = web_inc_fopen(v, str[1].x) \/ SendCallback(v, str).w = v
        \/ SendCallback(v, str) = SendVariable(v, Output[str[1].x])
    BY DEF SendCallback, Turned
  <2> HIDE DEF Like, Tuple
  <2> QED BY <1>3, <2>1, <2>2, <2>3
<1>0. Like(w) /\ Tuple(w)
  BY DEF Sound
<1>4. Like(SendBuiltin(w).w)
  <2>1. SendBuiltin(w).w = SetSCB(w, {"FCLOSE", "DISCONNECT"})
    BY DEF SendBuiltin, Turned
  <2> HIDE DEF Like, Tuple
  <2> QED BY <1>0, <1>1, <2>1
<1>5. Like(SendPlain(w).w)
  <2> DEFINE v == [w EXCEPT !.stub = Advance(@, w.files[0], Len(GetArray(w.stub, w.files[0], left)))]
  <2>1. Like(v) /\ Tuple(v)
    BY DEF Sound
  <2>2. SendPlain(w).w = v \/ SendPlain(w).w = SetSCB(v, {"FCLOSE", "DISCONNECT"})
    BY DEF SendPlain, Turned
  <2> HIDE DEF v, Like, Tuple
  <2> QED BY <1>1, <2>1, <2>2
<1>6. Like(SendParsed(w).w)
  <2> DEFINE n == UpTo(left, Window)
             buf == GetArray(w.stub, w.files[0], n)
             at == SelectInSeq(buf, LAMBDA x : x = Mark)
             To(k) == [w EXCEPT !.stub = Advance(@, w.files[0], k)]
             p == SendParsed(w)
  <2>1. \A k : Like(To(k)) /\ Tuple(To(k))
    BY DEF Sound
  <2>2. \/ p.w = SetSCB(To(at), {"FINDCB"})
        \/ p.w = ClrSCB(To(1), {"FINDCB"})
        \/ p = SendCallback(ClrSCB(To(at), {"FINDCB"}), SubSeq(buf, 1, at - 1))
        \/ p.w = ClrSCB(To(n), {"FINDCB"})
        \/ p.w = AtEnd(ClrSCB(To(Len(buf)), {"FINDCB"}))
        \/ p.w = AtEnd(w)
    <3> HIDE DEF n, buf, at, To, p
    <3>1. p =
            CASE at > 0 /\ "FINDCB" \notin w.flags ->
                   Turned(SetSCB(To(at), {"FINDCB"}), SubSeq(buf, 1, at - 1), <<>>, TRUE)
              [] at = 1 /\ "FINDCB" \in w.flags ->
                   Turned(ClrSCB(To(1), {"FINDCB"}), <<Mark>>, <<>>, TRUE)
              [] at > 1 /\ "FINDCB" \in w.flags ->
                   SendCallback(ClrSCB(To(at), {"FINDCB"}), SubSeq(buf, 1, at - 1))
              [] at = 0 /\ Len(buf) = n -> Turned(ClrSCB(To(n), {"FINDCB"}), buf, <<>>, TRUE)
              [] at = 0 /\ Len(buf) \in 1..n - 1 ->
                   Turned(AtEnd(ClrSCB(To(Len(buf)), {"FINDCB"})), buf, <<>>, TRUE)
              [] OTHER -> Turned(AtEnd(w), <<>>, <<>>, TRUE)
      BY DEF SendParsed, n, buf, at, To, p
    <3> QED BY <3>1 DEF Turned
  <2> HIDE DEF n, buf, at, To, p, Like, Tuple
  <2>3. \A k : /\ Like(SetSCB(To(k), {"FINDCB"})) /\ Like(ClrSCB(To(k), {"FINDCB"}))
               /\ Tuple(ClrSCB(To(k), {"FINDCB"}))
    BY <1>1, <2>1
  <2>4. Like(SendCallback(ClrSCB(To(at), {"FINDCB"}), SubSeq(buf, 1, at - 1)).w)
    BY <1>3, <2>3
  <2>5. Like(AtEnd(ClrSCB(To(Len(buf)), {"FINDCB"}))) /\ Like(AtEnd(w))
    BY <1>0, <1>2, <2>3
  <2>6. Like(p.w)
    BY <2>2, <2>3, <2>4, <2>5
  <2> QED BY <2>6 DEF p
<1>7. t = SendVariable(w, text) \/ t = SendBuiltin(w) \/ t = SendPlain(w) \/ t = SendParsed(w)
  BY DEF Send
<1>8. Like(SendVariable(w, text).w)
  <2> HIDE DEF Like, Tuple
  <2> QED BY <1>0, <1>3
<1> HIDE DEF t
<1>9. Like(t.w)
  <2> HIDE DEF Like
  <2> QED BY <1>4, <1>5, <1>6, <1>7, <1>8
<1>10. Kept(w, t.w)
  BY <1>9 DEF Kept
<1> QED BY <1>10 DEF t

LEMMA TurnActs ==
  ASSUME BInv, Turn, NEW c, c = sending
  PROVE  /\ c \in Conns /\ c \in linkd' /\ Aside(c)
         /\ page' = [d \in Conns |-> page'[d]]
         /\ "HEAD_OK" \in webflag[c] => "HEAD_OK" \in webflag'[c]
         /\ sending' # NoConn => sending' = c /\ left' >= Window /\ MoreToSend(Conn(c)')
<1> DEFINE t == Send(Conn(c), rest[c])
           go == /\ "FCALBACK" \in webflag[c]
                 /\ left - Len(t.out) >= Window
                 /\ t.w.flags \cap {"FCLOSE", "RETRYCB", "DISCONNECT"} = {}
           v == IF go THEN t.w ELSE EndCallback(t.w)
<1>1. /\ sending # NoConn /\ Become(c, v)
      /\ rest' = [rest EXCEPT ![c] = t.more]
      /\ left' = IF go THEN left - Len(t.out) ELSE 0
      /\ sending' = IF go THEN c ELSE NoConn
      /\ page' = [page EXCEPT ![c] = PageSent(@, t)]
      /\ UNCHANGED <<linkd, upload>>
  BY DEF Turn
<1>2. c \in Conns /\ c \in linkd /\ MoreToSend(Conn(c)) /\ Typed(Conn(c)) /\ Sound(Conn(c))
  <2>1. c \in Conns
    BY <1>1 DEF BInv, TInv, IInv
  <2> QED BY <1>1, <2>1, TypedConn DEF BInv, Typed
<1>3. Kept(Conn(c), t.w) /\ ("FCLOSE" \notin t.w.flags => "FOPEN" \in t.w.flags)
  BY <1>2, SendKeeps, StaysOpen DEF MoreToSend
<1>4. /\ bffiles = [d \in Conns |-> bffiles[d]] /\ webflag = [d \in Conns |-> webflag[d]]
      /\ page = [d \in Conns |-> page[d]] /\ rest = [d \in Conns |-> rest[d]]
  BY DEF BInv, TInv, IInv
<1>5. /\ bffiles' = [bffiles EXCEPT ![c] = v.files] /\ webflag' = [webflag EXCEPT ![c] = v.flags]
  BY <1>1 DEF Become
<1> HIDE DEF t, v
<1>6. Aside(c)
  BY <1>1, <1>2, <1>4, <1>5 DEF Aside
<1>7. page' = [d \in Conns |-> page'[d]] /\ c \in linkd'
  BY <1>1, <1>2, <1>4
<1>8. webflag'[c] = v.flags
  BY <1>2, <1>4, <1>5
<1>9. "HEAD_OK" \in t.w.flags => "HEAD_OK" \in v.flags
  <2>1. "HEAD_OK" \in t.w.flags => "HEAD_OK" \in EndCallback(t.w).flags
    <3>1. Sound(t.w)
      BY <1>2, Sending DEF Keeps, t
    <3> QED BY <3>1 DEF EndCallback, SetSCB, Close_web_conn, Sound
  <2> QED BY <2>1 DEF v
<1>10. ASSUME go PROVE left' >= Window /\ MoreToSend(Conn(c)')
  <2>1. left' >= Window
    BY <1>1, <1>10
  <2>2. Conn(c)'.flags = t.w.flags
    BY <1>8, <1>10 DEF Conn, v
  <2>3. "CLOSED" \notin t.w.flags
    BY <1>2, <1>3 DEF MoreToSend, Kept
  <2> QED BY <1>3, <1>10, <2>1, <2>2, <2>3 DEF MoreToSend
<1>11. sending' # NoConn => go
  BY <1>1
<1> HIDE DEF go
<1>12. "HEAD_OK" \in webflag[c] => "HEAD_OK" \in webflag'[c]
  BY <1>3, <1>8, <1>9 DEF Kept, Conn
<1>13. sending' # NoConn => sending' = c
  BY <1>1
<1> QED BY <1>2, <1>6, <1>7, <1>10, <1>11, <1>12, <1>13

LEMMA Blanks ==
  ASSUME BInv, NEW c, Aside(c), c \in linkd'
  PROVE  \A d \in Conns \ linkd' : Blank(d)'
<1> SUFFICES ASSUME NEW d \in Conns \ linkd' PROVE Blank(d)'
  OBVIOUS
<1>1. d \in Conns \ {c} /\ d \notin linkd
  BY DEF Aside
<1>2. Blank(d)
  BY <1>1 DEF BInv
<1> QED BY <1>1, <1>2 DEF Aside, Blank

LEMMA NoPageYet ==
  ASSUME BInv, NEW c \in Conns, c \notin linkd \/ upload[c].stage # "none" \/ "HEAD_OK" \notin webflag[c]
  PROVE  page[c].img = None
  BY DEF BInv, Blank

(* A page is recorded by a request that is complete.                       *)
LEMMA RequestFlags ==
  ASSUME BInv, NEW c \in Conns, Request(c)
  PROVE  "HEAD_OK" \in webflag'[c] /\ upload'[c].stage = "none"
<1>1. PICK name \in Asks[c], password \in BOOLEAN, get \in BOOLEAN :
        LET w == Conn(c)
            v == SetSCB(IF Opens(w, name) THEN webserver_open_file(w, name) ELSE w,
                        IF get THEN {"HEAD_OK"} ELSE {"HEAD_OK", "POST"})
            len == IF ~Opens(w, name) THEN 0 ELSE IF get THEN Size(name) ELSE FormLen
            status == Status(w, name, password)
        IN Respond(c, v, status, FALSE, len)
  BY DEF Request
<1> DEFINE w == Conn(c)
           u == IF Opens(w, name) THEN webserver_open_file(w, name) ELSE w
           f == IF get THEN {"HEAD_OK"} ELSE {"HEAD_OK", "POST"}
           v == SetSCB(u, f)
           len == IF ~Opens(w, name) THEN 0 ELSE IF get THEN Size(name) ELSE FormLen
           status == Status(w, name, password)
           Has1(x) == "HEAD_OK" \in x.flags /\ x = [stub |-> x.stub, files |-> x.files, flags |-> x.flags]
<1>2. Respond(c, v, status, FALSE, len)
  BY <1>1
<1>3. Keeps(w, u)
  BY Sounds, OpeningFile, KeepsItself DEF BInv, TInv
<1>4. Has1(v)
  <2>1. u = [stub |-> u.stub, files |-> u.files, flags |-> u.flags]
    BY <1>3 DEF Keeps, Sound
  <2> HIDE DEF u
  <2> QED BY <2>1 DEF SetSCB
<1> HIDE DEF w, u, f, len, status, v
<1>5. ASSUME NEW x, NEW g, Has1(x), "HEAD_OK" \notin g
      PROVE  Has1(SetSCB(x, g)) /\ Has1(ClrSCB(x, g))
  <2>1. SetSCB(x, g) = [stub |-> x.stub, files |-> x.files, flags |-> x.flags \cup g]
        /\ ClrSCB(x, g) = [stub |-> x.stub, files |-> x.files, flags |-> x.flags \ g]
    BY <1>5, FlagRecords
  <2> QED BY <1>5, <2>1
<1>6. ASSUME NEW x, Has1(x) PROVE Has1(EndCallback(x))
  <2>1. Has1(Close_web_conn(x))
    BY <1>6 DEF Close_web_conn
  <2> HIDE DEF Has1
  <2>2. Has1(SetSCB(Close_web_conn(x), {"DISCONNECT", "CLOSED"})) /\ Has1(SetSCB(x, {"CLOSED"}))
    BY <1>5, <1>6, <2>1
  <2> QED BY <1>6, <2>2 DEF EndCallback
<1>7. ASSUME NEW x, NEW n, Has1(x) PROVE Has1(web_inc_fopen(x, n)) /\ Has1(web_inc_fclose(x))
  <2>1. Has1(web_inc_fclose(x))
    BY <1>7 DEF web_inc_fclose
  <2>2. Has1(web_inc_fopen(x, n))
    BY <1>7 DEF web_inc_fopen, web_inc_fp, SetSCB
  <2> QED BY <2>1, <2>2
<1>8. Has1(web_print_headers(v, status, FALSE, len))
  <2>1. Has1(ErrorFile(v, status))
    <3> DEFINE x == ClrSCB(web_inc_fclose(v), {"FCALBACK", "RXDATA", "FCLOSE"})
    <3>1. Has1(x)
      <4> HIDE DEF Has1
      <4> QED BY <1>4, <1>5, <1>7
    <3> HIDE DEF x, Has1
    <3>2. ErrorFile(v, status) = x \/ ErrorFile(v, status) = web_inc_fopen(x, ErrorPage(status))
      BY DEF ErrorFile, x
    <3> QED BY <1>7, <3>1, <3>2
  <2> DEFINE x == IF status = 200 THEN v ELSE ErrorFile(v, status)
             y == web_print_headers(v, status, FALSE, len)
  <2> HIDE DEF Has1
  <2>2. Has1(x)
    BY <1>4, <2>1
  <2>3. \/ y = x \/ y = SetSCB(x, {"DISCONNECT", "CLOSED"})
        \/ y = SetSCB(x, {"FCLOSE", "DISCONNECT", "CLOSED"})
    BY DEF web_print_headers
  <2> HIDE DEF x, y
  <2>4. Has1(y)
    BY <1>5, <2>2, <2>3
  <2> QED BY <2>4 DEF y
<1> DEFINE y == web_print_headers(v, status, FALSE, len)
           e == EndCallback(SetSCB(v, {"FCLOSE", "DISCONNECT"}))
           e2 == EndCallback(SetSCB(y, {"FCLOSE", "DISCONNECT"}))
<1>9. Become(c, y) \/ Become(c, EndCallback(y)) \/ Become(c, e) \/ Become(c, e2)
  BY <1>2 DEF Respond, StartSending
<1>10. Has1(y) /\ Has1(EndCallback(y)) /\ Has1(e) /\ Has1(e2)
  <2> HIDE DEF Has1
  <2> QED BY <1>4, <1>5, <1>6, <1>8
<1>11. ASSUME NEW x, Become(c, x), Has1(x) PROVE "HEAD_OK" \in webflag'[c]
  BY <1>11 DEF Become, BInv, TInv
<1> HIDE DEF y, e, e2, Has1
<1>12. "HEAD_OK" \in webflag'[c]
  BY <1>9, <1>10, <1>11
<1>13. upload'[c].stage = "none"
  <2>1. c \notin linkd /\ UNCHANGED upload
    BY DEF Request
  <2> QED BY <2>1 DEF BInv, Blank
<1> QED BY <1>12, <1>13

LEMMA Holding ==
  ASSUME NEW bf, NEW d \in Conns, NEW i \in Slots, bf[d][i] \in Handles
  PROVE  Held(bf) # {}
  BY DEF Held

LEMMA FormsFlags ==
  ASSUME NEW c, FormBegins(c) \/ UploadBegins(c) \/ FormEnds(c)
  PROVE  c \notin linkd \/ "HEAD_OK" \notin webflag[c]
<1>1. CASE FormBegins(c)
  BY <1>1 DEF FormBegins
<1>2. CASE UploadBegins(c)
  BY <1>2 DEF UploadBegins
<1>3. CASE FormEnds(c)
  <2>1. webflag[c] \cap {"POST", "HEAD_OK"} = {"POST"}
    BY <1>3 DEF FormEnds
  <2> QED BY <2>1
<1> QED BY <1>1, <1>2, <1>3

LEMMA InitBInv == Init => BInv
<1> SUFFICES ASSUME Init PROVE BInv
  OBVIOUS
<1>1. /\ bffiles = [c \in Conns |-> NoFiles] /\ webflag = [c \in Conns |-> {}]
      /\ rest = [c \in Conns |-> <<>>] /\ upload = [c \in Conns |-> NoUpload]
      /\ page = [c \in Conns |-> NoPage] /\ sending = NoConn
  BY DEF Init
<1>2. \A c \in Conns : Blank(c)
  BY <1>1 DEF Blank, NoUpload, NoPage
<1>3. \A c \in Conns : page[c].img = None
  BY <1>2 DEF Blank
<1>4. page = [c \in Conns |-> page[c]]
  BY <1>1
<1> QED BY <1>1, <1>2, <1>3, <1>4, InitTInv DEF BInv

LEMMA StepBInv ==
  ASSUME BInv, [Next]_vars
  PROVE  BInv'
<1>0. TInv'
  BY StepTInv DEF BInv
<1>1. ASSUME NEW c \in Conns,
             \/ Request(c) \/ FormBegins(c) \/ FormEnds(c) \/ Sent(c)
             \/ UploadBegins(c) \/ UploadAccepted(c) \/ UploadRefused(c)
             \/ UploadBlock(c) \/ UploadEnds(c)
      PROVE  BInv'
  <2>1. /\ Aside(c) /\ c \in linkd'
        /\ sending' = NoConn \/ (sending' = c /\ left' \in Rooms /\ MoreToSend(Conn(c)'))
        /\ page' = [d \in Conns |-> page'[d]]
    BY <1>1, Acts
  <2>2. \A d \in Conns \ linkd' : Blank(d)'
    BY <2>1, Blanks
  <2>3. page'[c].img # None => "HEAD_OK" \in webflag'[c] /\ upload'[c].stage = "none"
    <3>1. CASE Request(c)
      BY <3>1, RequestFlags
    <3>2. CASE FormBegins(c) \/ UploadBegins(c) \/ FormEnds(c)
      <4>1. c \notin linkd \/ "HEAD_OK" \notin webflag[c]
        BY <3>2, FormsFlags
      <4>2. UNCHANGED page
        BY <3>2 DEF FormBegins, UploadBegins, FormEnds
      <4> QED BY <4>1, <4>2, NoPageYet
    <3>3. CASE UploadAccepted(c) \/ UploadRefused(c) \/ UploadBlock(c) \/ UploadEnds(c)
      <4>1. upload[c].stage # "none" /\ UNCHANGED page
        BY <3>3 DEF UploadAccepted, UploadRefused, UploadBlock, UploadEnds, Uploads
      <4> QED BY <4>1, NoPageYet
    <3>4. CASE Sent(c)
      <4>1. UNCHANGED <<page, upload>> /\ StartSending(c, Conn(c))
        BY <3>4 DEF Sent
      <4> DEFINE x == SetSCB(Conn(c), {"FCLOSE", "DISCONNECT"})
                 e == EndCallback(x)
      <4>2. Become(c, e) \/ Become(c, Conn(c))
        BY <4>1 DEF StartSending
      <4>3. "HEAD_OK" \in webflag[c] => "HEAD_OK" \in e.flags
        <5>1. x = [stub |-> stub, files |-> bffiles[c], flags |-> webflag[c] \cup {"FCLOSE", "DISCONNECT"}]
          BY DEF Conn, SetSCB
        <5> HIDE DEF x
        <5> QED BY <5>1 DEF EndCallback, SetSCB, Close_web_conn
      <4>4. Conn(c).flags = webflag[c] /\ webflag = [d \in Conns |-> webflag[d]]
        BY DEF Conn, BInv, TInv
      <4> HIDE DEF e
      <4>5. "HEAD_OK" \in webflag[c] => "HEAD_OK" \in webflag'[c]
        BY <4>2, <4>3, <4>4 DEF Become
      <4> QED BY <4>1, <4>5 DEF BInv
    <3> QED BY <1>1, <3>1, <3>2, <3>3, <3>4
  <2>4. \A d \in Conns : page'[d].img # None => "HEAD_OK" \in webflag'[d] /\ upload'[d].stage = "none"
    BY <2>1, <2>3 DEF Aside, BInv
  <2>5. sending' # NoConn => sending' \in linkd' /\ MoreToSend(Conn(sending))' /\ left' >= Window
    BY <2>1, WebSrvAssumption DEF Conn
  <2> QED BY <1>0, <2>1, <2>2, <2>4, <2>5 DEF BInv
<1>2. CASE Turn
  <2>1. PICK c \in Conns : c = sending
    BY <1>2 DEF Turn, BInv, TInv, IInv
  <2>2. /\ c \in linkd' /\ Aside(c) /\ page' = [d \in Conns |-> page'[d]]
        /\ "HEAD_OK" \in webflag[c] => "HEAD_OK" \in webflag'[c]
        /\ sending' # NoConn => sending' = c /\ left' >= Window /\ MoreToSend(Conn(c)')
    BY <1>2, <2>1, TurnActs
  <2>3. \A d \in Conns \ linkd' : Blank(d)'
    BY <2>2, Blanks
  <2>4. page'[c].img # None => "HEAD_OK" \in webflag'[c] /\ upload'[c].stage = "none"
    <3>1. page'[c].img # None => page[c].img # None
      <4>1. PICK t : page' = [page EXCEPT ![c] = PageSent(@, t)]
        BY <1>2, <2>1 DEF Turn
      <4>2. page'[c] = PageSent(page[c], t)
        BY <4>1 DEF BInv
      <4> QED BY <4>2 DEF PageSent, NoPage
    <3>2. UNCHANGED upload
      BY <1>2 DEF Turn
    <3> QED BY <2>2, <3>1, <3>2 DEF BInv
  <2>5. \A d \in Conns : page'[d].img # None => "HEAD_OK" \in webflag'[d] /\ upload'[d].stage = "none"
    BY <2>2, <2>4 DEF Aside, BInv
  <2>6. sending' # NoConn => sending' \in linkd' /\ MoreToSend(Conn(sending))' /\ left' >= Window
    BY <2>2 DEF Conn
  <2> QED BY <1>0, <2>2, <2>3, <2>5, <2>6 DEF BInv
<1>3. ASSUME NEW c \in Conns, Disconnect(c)
      PROVE  BInv'
  <2>1. /\ bffiles' = [bffiles EXCEPT ![c] = NoFiles] /\ webflag' = [webflag EXCEPT ![c] = {}]
        /\ rest' = [rest EXCEPT ![c] = <<>>] /\ upload' = [upload EXCEPT ![c] = NoUpload]
        /\ page' = [page EXCEPT ![c] = NoPage] /\ linkd' = linkd \ {c}
        /\ sending = NoConn /\ sending' = NoConn
    BY <1>3 DEF Disconnect
  <2>2. Blank(c)'
    BY <2>1 DEF Blank, NoUpload, NoPage, BInv, TInv, IInv
  <2>3. \A d \in Conns \ {c} : Blank(d) => Blank(d)'
    BY <2>1 DEF Blank, BInv, TInv, IInv
  <2>4. \A d \in Conns \ linkd' : Blank(d)'
    BY <2>1, <2>2, <2>3 DEF BInv
  <2>5. \A d \in Conns \ {c} : page'[d] = page[d] /\ webflag'[d] = webflag[d] /\ upload'[d] = upload[d]
    BY <2>1 DEF BInv, TInv
  <2>6. \A d \in Conns : page'[d].img # None => "HEAD_OK" \in webflag'[d] /\ upload'[d].stage = "none"
    BY <2>2, <2>5 DEF BInv, Blank
  <2>7. page' = [d \in Conns |-> page'[d]]
    BY <2>1 DEF BInv
  <2> QED BY <1>0, <2>1, <2>4, <2>6, <2>7 DEF BInv
<1>4. CASE Restart
  <2>1. /\ bffiles' = [c \in Conns |-> NoFiles] /\ webflag' = [c \in Conns |-> {}]
        /\ rest' = [c \in Conns |-> <<>>] /\ upload' = [c \in Conns |-> NoUpload]
        /\ page' = [c \in Conns |-> NoPage] /\ sending' = NoConn
    BY <1>4 DEF Restart
  <2>2. \A c \in Conns : Blank(c)'
    BY <2>1 DEF Blank, NoUpload, NoPage
  <2>3. page' = [c \in Conns |-> page'[c]] /\ \A c \in Conns : page'[c].img = None
    BY <2>1, <2>2 DEF Blank
  <2> QED BY <1>0, <2>1, <2>2, <2>3 DEF BInv
<1>5. CASE UNCHANGED vars
  <2>1. UNCHANGED <<stub, bffiles, webflag, rest, upload, page, sending, left, linkd>>
    BY <1>5 DEF vars
  <2> QED BY <1>0, <2>1 DEF BInv, Blank, Conn, MoreToSend
<1>6. Next => Turn \/ Restart \/ \E c \in Conns :
        \/ Request(c) \/ FormBegins(c) \/ FormEnds(c) \/ Sent(c)
        \/ UploadBegins(c) \/ UploadAccepted(c) \/ UploadRefused(c)
        \/ UploadBlock(c) \/ UploadEnds(c) \/ Disconnect(c)
  BY DEF Next
<1> QED BY <1>1, <1>2, <1>3, <1>4, <1>5, <1>6

(* A step that is not one of c's page: its files are read on from where    *)
(* they were, and from the same disk.                                      *)
Still(c) ==
  /\ bffiles'[c] = bffiles[c] /\ webflag'[c] = webflag[c]
  /\ rest'[c] = rest[c] /\ page'[c] = page[c]
  /\ (~overlap' /\ \E i \in Slots : bffiles[c][i] \in Handles) =>
       /\ ~overlap /\ UNCHANGED <<disk, numFiles>>
       /\ \A i \in Slots : bffiles[c][i] \in Handles =>
            stub'[bffiles[c][i]] = stub[bffiles[c][i]]

LEMMA Undisturbed ==
  ASSUME IInv, NEW c \in Conns, Moves(c, Conn(c)), NotTouched, NEW d \in Conns \ {c},
         bffiles'[d] = bffiles[d], ~overlap', \E i \in Slots : bffiles[d][i] \in Handles
  PROVE  /\ ~overlap
         /\ \A i \in Slots : bffiles[d][i] \in Handles => stub'[bffiles[d][i]] = stub[bffiles[d][i]]
<1>1. ~overlap
  BY Holding DEF NotTouched
<1>2. Owned(stub, bffiles)
  BY <1>1 DEF IInv
<1>3. Own(Conn(c))
  BY <1>2 DEF Own, Conn, Owned, Held, OpenHandles
<1>4. PICK v : Keeps(Conn(c), v) /\ stub' = v.stub
  BY DEF Moves
<1>5. Apart(Conn(c), v)
  BY <1>3, <1>4 DEF Keeps
<1>6. ASSUME NEW i \in Slots, bffiles[d][i] \in Handles
      PROVE  stub'[bffiles[d][i]] = stub[bffiles[d][i]]
  <2> DEFINE h == bffiles[d][i]
  <2>1. stub[h] # Free
    BY <1>2, <1>6 DEF Owned, Held, OpenHandles
  <2>2. ~Has(Conn(c), h)
    BY <1>2, <1>6 DEF Owned, Has, Conn
  <2> QED BY <1>4, <1>5, <1>6, <2>1, <2>2 DEF Apart, Conn
<1> QED BY <1>1, <1>6

LEMMA PageSteps ==
  ASSUME BInv, [Next]_vars, NEW d \in Conns
  PROVE  \/ Still(d)
         \/ page'[d].img = None
         \/ page'[d] = page[d] /\ ~MoreToSend(Conn(d)')
         \/ Request(d)
         \/ Turn /\ d = sending
<1> DEFINE Goal == \/ Still(d)
                   \/ page'[d].img = None
                   \/ page'[d] = page[d] /\ ~MoreToSend(Conn(d)')
                   \/ Request(d)
                   \/ Turn /\ d = sending
<1>0. IInv
  BY DEF BInv, TInv
<1>1. ASSUME NEW c \in Conns \ {d}, Moves(c, Conn(c)), NotTouched, Aside(c), UNCHANGED onDisk
      PROVE  Still(d)
  <2>1. /\ bffiles'[d] = bffiles[d] /\ webflag'[d] = webflag[d] /\ rest'[d] = rest[d] /\ page'[d] = page[d]
    BY <1>1 DEF Aside
  <2>2. UNCHANGED <<disk, numFiles>>
    BY <1>1 DEF onDisk
  <2>3. ASSUME ~overlap', \E i \in Slots : bffiles[d][i] \in Handles
        PROVE  ~overlap /\ \A i \in Slots : bffiles[d][i] \in Handles => stub'[bffiles[d][i]] = stub[bffiles[d][i]]
    BY <1>0, <1>1, <2>1, <2>3, Undisturbed
  <2> QED BY <2>1, <2>2, <2>3 DEF Still
<1>2. ASSUME NEW c \in Conns \ {d}, Touched, Aside(c)
      PROVE  Still(d)
  <2>1. /\ bffiles'[d] = bffiles[d] /\ webflag'[d] = webflag[d] /\ rest'[d] = rest[d] /\ page'[d] = page[d]
    BY <1>2 DEF Aside
  <2>2. (\E i \in Slots : bffiles[d][i] \in Handles) => overlap'
    BY <1>2, Holding DEF Touched
  <2> QED BY <2>1, <2>2 DEF Still
<1>3. ASSUME NEW c \in Conns \ {d},
             \/ Request(c) \/ FormBegins(c) \/ FormEnds(c) \/ Sent(c)
             \/ UploadBegins(c) \/ UploadAccepted(c) \/ UploadRefused(c)
             \/ UploadBlock(c) \/ UploadEnds(c)
      PROVE  Goal
  <2>1. Aside(c)
    BY <1>3, Acts
  <2>2. CASE Request(c) \/ FormBegins(c) \/ FormEnds(c) \/ Sent(c) \/ UploadBegins(c) \/ UploadRefused(c)
    <3>1. Moves(c, Conn(c))
      BY <1>0, <2>2, RequestMoves, FormBeginsMoves, FormEndsMoves, SentMoves, UploadBeginsMoves,
         UploadRefusedMoves
    <3>2. NotTouched /\ UNCHANGED onDisk
      BY <2>2 DEF Request, FormBegins, FormEnds, Sent, UploadBegins, UploadRefused
    <3> QED BY <1>1, <2>1, <3>1, <3>2
  <2>3. CASE UploadAccepted(c) \/ UploadBlock(c) \/ UploadEnds(c)
    <3>1. Touched
      BY <2>3 DEF UploadAccepted, UploadBlock, UploadEnds
    <3> QED BY <1>2, <2>1, <3>1
  <2> QED BY <1>3, <2>2, <2>3
<1>4. ASSUME NEW c \in Conns \ {d}, Disconnect(c)
      PROVE  Goal
  <2>1. Moves(c, Conn(c)) /\ NotTouched /\ UNCHANGED onDisk
    BY <1>0, <1>4, DisconnectMoves DEF Disconnect
  <2>2. Aside(c)
    BY <1>4 DEF Disconnect, Aside, BInv, TInv, IInv
  <2> QED BY <1>1, <2>1, <2>2
<1>5. ASSUME Turn PROVE Goal
  <2>1. PICK c \in Conns : c = sending
    BY <1>5 DEF Turn, BInv, TInv, IInv
  <2>2. CASE c # d
    <3>1. Aside(c)
      BY <1>5, <2>1, TurnActs
    <3>2. Moves(c, Conn(c)) /\ NotTouched /\ UNCHANGED onDisk
      BY <1>0, <1>5, <2>1, TurnMoves DEF Turn
    <3> QED BY <1>1, <2>2, <3>1, <3>2
  <2> QED BY <1>5, <2>1, <2>2
<1>6. ASSUME Restart PROVE Goal
  BY <1>6 DEF Restart, NoPage
<1>7. ASSUME UNCHANGED vars PROVE Goal
  <2>1. UNCHANGED <<stub, bffiles, webflag, rest, page, disk, numFiles, overlap>>
    BY <1>7 DEF vars
  <2> QED BY <2>1 DEF Still
<1>8. ASSUME FormBegins(d) \/ UploadBegins(d) \/ FormEnds(d) PROVE Goal
  <2>1. d \notin linkd \/ "HEAD_OK" \notin webflag[d]
    BY <1>8, FormsFlags
  <2>2. UNCHANGED page
    BY <1>8 DEF FormBegins, UploadBegins, FormEnds
  <2> QED BY <2>1, <2>2, NoPageYet
<1>9. ASSUME UploadAccepted(d) \/ UploadRefused(d) \/ UploadBlock(d) \/ UploadEnds(d) PROVE Goal
  <2>1. upload[d].stage # "none" /\ UNCHANGED page
    BY <1>9 DEF UploadAccepted, UploadRefused, UploadBlock, UploadEnds, Uploads
  <2> QED BY <2>1, NoPageYet
<1>10. ASSUME Disconnect(d) PROVE Goal
  BY <1>10 DEF Disconnect, NoPage, BInv
<1>11. ASSUME Sent(d) PROVE Goal
  <2>1. UNCHANGED <<onDisk, rest, page>> /\ NotTouched /\ StartSending(d, Conn(d))
    BY <1>11 DEF Sent
  <2> DEFINE e == EndCallback(SetSCB(Conn(d), {"FCLOSE", "DISCONNECT"}))
  <2>2. Become(d, e) \/ Become(d, Conn(d))
    BY <2>1 DEF StartSending
  <2>3. CASE Become(d, Conn(d))
    <3>1. stub' = stub /\ bffiles' = bffiles /\ webflag' = webflag
      BY <2>3 DEF Become, Conn, BInv, TInv, IInv
    <3>2. (~overlap' /\ \E i \in Slots : bffiles[d][i] \in Handles) => ~overlap
      BY <2>1, <3>1, Holding DEF NotTouched
    <3>3. UNCHANGED <<disk, numFiles>>
      BY <2>1 DEF onDisk
    <3>4. Still(d)
      BY <2>1, <3>1, <3>2, <3>3 DEF Still
    <3> QED BY <3>4
  <2>4. CASE Become(d, e)
    <3>1. "CLOSED" \in e.flags
      <4> DEFINE x == SetSCB(Conn(d), {"FCLOSE", "DISCONNECT"})
      <4>1. x = [stub |-> stub, files |-> bffiles[d], flags |-> webflag[d] \cup {"FCLOSE", "DISCONNECT"}]
        BY DEF Conn, SetSCB
      <4> HIDE DEF x
      <4>2. e = SetSCB(Close_web_conn(x), {"DISCONNECT", "CLOSED"})
        BY <4>1 DEF EndCallback, x
      <4> QED BY <4>2 DEF SetSCB, Close_web_conn
    <3> HIDE DEF e
    <3>2. webflag'[d] = e.flags
      BY <2>4 DEF Become, BInv, TInv
    <3>3. ~MoreToSend(Conn(d)')
      BY <3>1, <3>2 DEF MoreToSend, Conn
    <3> QED BY <2>1, <3>3
  <2> QED BY <2>2, <2>3, <2>4
<1> HIDE DEF Goal
<1>12. Next => Turn \/ Restart \/ \E c \in Conns :
        \/ Request(c) \/ FormBegins(c) \/ FormEnds(c) \/ Sent(c)
        \/ UploadBegins(c) \/ UploadAccepted(c) \/ UploadRefused(c)
        \/ UploadBlock(c) \/ UploadEnds(c) \/ Disconnect(c)
  BY DEF Next
<1>13. Request(d) => Goal
  BY DEF Goal
<1>14. Goal
  BY <1>3, <1>4, <1>5, <1>6, <1>7, <1>8, <1>9, <1>10, <1>11, <1>12, <1>13
<1> QED BY <1>14 DEF Goal
-----------------------------------------------------------------------------
(* A file of an image that is open, with p words of it read.               *)
At(v, f, p) == [addr |-> FileAddr[v][f] + p, rem |-> Len(FileData[v][f]) - p]

(* A connection with no file, and one with a file that was just opened.    *)
Tuple(w) == w = [stub |-> w.stub, files |-> w.files, flags |-> w.flags]
Outer(w) ==
  /\ Tuple(w)
  /\ \A i \in Slots \ {0} : w.files[i] = Invalid
  /\ w.flags \cap {"FINDCB", "RETRYCB"} = {}
Clear(w) == Outer(w) /\ w.files[0] = Invalid /\ "FCALBACK" \notin w.flags
AtStart(w, v, f) ==
  /\ Outer(w)
  /\ w.files[0] \in Handles /\ w.stub[w.files[0]] = At(v, f, 0)
  /\ ("FCALBACK" \in w.flags) = Directory[v][f].parsed

LEMMA OpensFresh ==
  ASSUME DiskType, NEW w, Sound(w), Clear(w), NEW name, CanOpen(w, name)
  PROVE  AtStart(web_inc_fopen(w, name), disk[0], Lookup(name))
<1> DEFINE v == disk[0]
           f == Lookup(name)
           h == FreeHandle(w.stub)
           s == [addr |-> FileAddr[v][f], rem |-> Len(FileData[v][f])]
           u == [w EXCEPT !.stub = WEBFSOpen(@, f)]
           x == web_inc_fp(u, h)
<1>1. HasHandle(w.stub) /\ v \in Images /\ f \in Files(v)
  BY Found DEF CanOpen
<1>2. h \in Handles
  BY Searching
<1>3. s = At(v, f, 0)
  <2>1. FileAddr[v][f] \in Nat /\ Len(FileData[v][f]) \in Nat
    BY <1>1, FilePlaces, FileWords
  <2> QED BY <2>1 DEF At
<1>4. u = [stub |-> [w.stub EXCEPT ![h] = s], files |-> w.files, flags |-> w.flags]
  BY DEF Sound, WEBFSOpen
<1>5. web_inc_fopen(w, name) = IF Directory[v][f].parsed THEN SetSCB(x, {"FCALBACK"}) ELSE x
  BY DEF web_inc_fopen
<1> HIDE DEF u, h, s, v, f
<1>6. /\ x.files = [i \in Slots |-> IF i = 0 THEN h ELSE w.files[i - 1]]
      /\ x.flags = w.flags \cup {"FOPEN"}
      /\ x.stub = WEBFSClose(u.stub, w.files[MaxNest - 1])
      /\ Tuple(x)
  BY <1>4 DEF web_inc_fp, Tuple
<1>7. x.files[0] = h /\ \A i \in Slots \ {0} : x.files[i] = Invalid
  <2>1. \A i \in Slots \ {0} : i - 1 \in Slots /\ w.files[i - 1] = Invalid
    BY Bounds DEF Clear, Outer
  <2> QED BY <1>6, <2>1, Bounds
<1>8. x.stub[h] = s
  <2>1. w.files[MaxNest - 1] = Invalid
    BY Bounds DEF Clear, Outer
  <2>2. h # Invalid
    BY <1>2, Bounds
  <2>3. u.stub[h] = s
    BY <1>2, <1>4 DEF Sound, IsTable
  <2> QED BY <1>2, <1>6, <2>1, <2>2, <2>3 DEF WEBFSClose
<1> HIDE DEF x
<1>9. /\ SetSCB(x, {"FCALBACK"}).stub = x.stub /\ SetSCB(x, {"FCALBACK"}).files = x.files
      /\ SetSCB(x, {"FCALBACK"}).flags = x.flags \cup {"FCALBACK"} /\ Tuple(SetSCB(x, {"FCALBACK"}))
  BY <1>6, FlagRecords DEF Tuple
<1>10. Directory[v][f].parsed \in BOOLEAN
  <2>1. Directory[v] \in Seq(Entry)
    BY <1>1, WebImageAssumption
  <2>2. Directory[v][f] \in Entry
    BY <1>1, <2>1 DEF Files
  <2> QED BY <2>2 DEF Entry
<1> DEFINE y == web_inc_fopen(w, name)
<1>11. /\ y.stub = x.stub /\ y.files = x.files /\ Tuple(y)
       /\ y.flags = IF Directory[v][f].parsed THEN w.flags \cup {"FOPEN", "FCALBACK"}
                    ELSE w.flags \cup {"FOPEN"}
  BY <1>5, <1>6, <1>9
<1> HIDE DEF y
<1>12. ("FCALBACK" \in y.flags) = Directory[v][f].parsed
  BY <1>10, <1>11 DEF Clear
<1>13. Outer(y)
  BY <1>7, <1>11 DEF Outer, Clear
<1>14. AtStart(y, v, f)
  BY <1>2, <1>3, <1>7, <1>8, <1>11, <1>12, <1>13 DEF AtStart
<1> QED BY <1>14 DEF y, v, f

LEMMA ClosesOuter ==
  ASSUME NEW w, Outer(w)
  PROVE  /\ Clear(web_inc_fclose(w)) /\ "FOPEN" \notin web_inc_fclose(w).flags
         /\ Tuple(web_inc_fclose(w))
<1> DEFINE fs == [i \in Slots |-> IF i = MaxNest - 1 THEN Invalid ELSE w.files[i + 1]]
           u == web_inc_fclose(w)
<1>1. \A i \in Slots : fs[i] = Invalid
  <2> SUFFICES ASSUME NEW i \in Slots, i # MaxNest - 1 PROVE w.files[i + 1] = Invalid
    OBVIOUS
  <2>1. i + 1 \in Slots \ {0}
    BY Bounds DEF Slots
  <2> QED BY <2>1 DEF Outer
<1>2. u = [stub |-> WEBFSClose(w.stub, w.files[0]), files |-> fs,
           flags |-> IF fs[0] = Invalid THEN w.flags \ {"FOPEN", "FCALBACK"} ELSE w.flags]
  BY DEF web_inc_fclose
<1> HIDE DEF fs, u
<1>3. fs[0] = Invalid
  BY <1>1, Bounds
<1>4. u.files = fs /\ u.flags = w.flags \ {"FOPEN", "FCALBACK"} /\ Tuple(u)
  BY <1>2, <1>3 DEF Tuple
<1>5. Clear(u) /\ "FOPEN" \notin u.flags
  BY <1>1, <1>3, <1>4 DEF Clear, Outer
<1> QED BY <1>4, <1>5 DEF u

LEMMA EndsClosed ==
  ASSUME NEW w, Tuple(w)
  PROVE  MoreToSend(EndCallback(w)) => EndCallback(w) = w /\ MoreToSend(w)
<1>1. CASE "FCLOSE" \in w.flags
  <2>1. EndCallback(w) = SetSCB(Close_web_conn(w), {"DISCONNECT", "CLOSED"})
    BY <1>1 DEF EndCallback
  <2>2. "CLOSED" \in EndCallback(w).flags
    BY <2>1 DEF SetSCB, Close_web_conn
  <2> QED BY <2>2 DEF MoreToSend
<1>2. CASE "FCLOSE" \notin w.flags /\ "DISCONNECT" \in w.flags
  <2>1. EndCallback(w) = SetSCB(w, {"CLOSED"})
    BY <1>2 DEF EndCallback
  <2>2. "CLOSED" \in EndCallback(w).flags
    BY <2>1, FlagRecords DEF Tuple
  <2> QED BY <2>2 DEF MoreToSend
<1>3. CASE "FCLOSE" \notin w.flags /\ "DISCONNECT" \notin w.flags
  BY <1>3 DEF EndCallback
<1> QED BY <1>1, <1>2, <1>3

LEMMA RespondsMore ==
  ASSUME BInv, NEW c \in Conns, NEW u, Sound(u), NEW status, NEW len,
         Respond(c, u, status, FALSE, len), MoreToSend(Conn(c)')
  PROVE  LET y == web_print_headers(u, status, FALSE, len)
         IN Conn(c)' = y /\ MoreToSend(y)
<1> DEFINE y == web_print_headers(u, status, FALSE, len)
           x1 == SetSCB(y, {"FCLOSE", "DISCONNECT"})
           x2 == SetSCB(u, {"FCLOSE", "DISCONNECT"})
<1>1. Become(c, y) \/ Become(c, EndCallback(y)) \/ Become(c, EndCallback(x1)) \/ Become(c, EndCallback(x2))
  BY DEF Respond, StartSending
<1>2. Sound(y) /\ Tuple(u) /\ Tuple(y)
  <2>1. Sound(y)
    BY Answering DEF Keeps
  <2> QED BY <2>1 DEF Sound, Tuple
<1> HIDE DEF y
<1>3. /\ Tuple(x1) /\ Tuple(x2) /\ "FCLOSE" \in x1.flags /\ "FCLOSE" \in x2.flags
  <2>1. /\ x1 = [stub |-> y.stub, files |-> y.files, flags |-> y.flags \cup {"FCLOSE", "DISCONNECT"}]
        /\ x2 = [stub |-> u.stub, files |-> u.files, flags |-> u.flags \cup {"FCLOSE", "DISCONNECT"}]
    BY <1>2, FlagRecords DEF Tuple
  <2> HIDE DEF x1, x2
  <2> QED BY <2>1 DEF Tuple
<1> HIDE DEF x1, x2
<1>4. ASSUME NEW x, Become(c, x)
      PROVE  /\ Conn(c)' = [stub |-> x.stub, files |-> x.files, flags |-> x.flags]
             /\ MoreToSend(Conn(c)') = MoreToSend(x)
  <2>1. stub' = x.stub /\ bffiles'[c] = x.files /\ webflag'[c] = x.flags
    BY <1>4 DEF Become, BInv, TInv, IInv
  <2>2. Conn(c)' = [stub |-> x.stub, files |-> x.files, flags |-> x.flags]
    BY <2>1 DEF Conn
  <2> QED BY <2>2 DEF MoreToSend
<1>5. ~Become(c, EndCallback(x1)) /\ ~Become(c, EndCallback(x2))
  <2>1. ASSUME NEW x, Tuple(x), "FCLOSE" \in x.flags PROVE ~Become(c, EndCallback(x))
    BY <1>4, <2>1, EndsClosed DEF MoreToSend
  <2> QED BY <1>3, <2>1
<1>6. Become(c, y) /\ MoreToSend(y)
  <2>1. CASE Become(c, y)
    BY <1>4, <2>1
  <2>2. CASE Become(c, EndCallback(y))
    BY <1>2, <1>4, <2>2, EndsClosed
  <2> QED BY <1>1, <1>5, <2>1, <2>2
<1> QED BY <1>2, <1>4, <1>6 DEF Tuple, y

LEMMA OuterFlags ==
  ASSUME NEW w, NEW f
  PROVE  /\ (Outer(w) /\ f \cap {"FINDCB", "RETRYCB"} = {}) => Outer(SetSCB(w, f))
         /\ Clear(w) => Clear(ClrSCB(w, f))
<1>1. Tuple(w) => /\ SetSCB(w, f) = [stub |-> w.stub, files |-> w.files, flags |-> w.flags \cup f]
                  /\ ClrSCB(w, f) = [stub |-> w.stub, files |-> w.files, flags |-> w.flags \ f]
  BY FlagRecords DEF Tuple
<1> QED BY <1>1 DEF Outer, Clear, Tuple

(* The names of the pages of errors are names of the disk.                 *)
LEMMA ErrorNames ==
  ASSUME NEW status
  PROVE  /\ Builtin(ErrorPage(status)) = Invalid /\ OnDisk(ErrorPage(status)) = ErrorPage(status)
<1>1. ErrorPage(status) \in {"401.htm", "404.htm", "4xx.htm"}
  BY DEF ErrorPage
<1> QED BY <1>1 DEF Builtin, OnDisk, Root, Cgi, Form

(* The page that a request records is the one whose file is open then, and *)
(* its length was announced.                                               *)
LEMMA Requested ==
  ASSUME BInv, NEW c \in Conns, Request(c), page'[c].img # None
  PROVE  /\ disk[0] \in Images /\ ~isWEBFSLocked /\ ~torn /\ ~overlap /\ numFiles # None
         /\ UNCHANGED <<disk, numFiles>> /\ rest'[c] = <<>>
         /\ \E f \in Files(disk[0]), s \in Int :
              /\ page'[c] = [img |-> disk[0], file |-> f, sent |-> <<>>, said |-> s, whole |-> FALSE]
              /\ PageFits[disk[0]][f]
              /\ MoreToSend(Conn(c)') => AtStart(Conn(c)', disk[0], f)
              /\ Named(disk[0], "401.htm") = {} => s = Len(FileData[disk[0]][f])
<1>1. PICK name \in Asks[c], password \in BOOLEAN, get \in BOOLEAN :
        LET w == Conn(c)
            v == SetSCB(IF Opens(w, name) THEN webserver_open_file(w, name) ELSE w,
                        IF get THEN {"HEAD_OK"} ELSE {"HEAD_OK", "POST"})
            len == IF ~Opens(w, name) THEN 0 ELSE IF get THEN Size(name) ELSE FormLen
            status == Status(w, name, password)
        IN /\ Respond(c, v, status, FALSE, len)
           /\ page' = [page EXCEPT ![c] =
                IF get THEN PageOf(web_print_headers(v, status, FALSE, len), status, name,
                                   Said(v, status, len))
                ELSE NoPage]
  BY DEF Request
<1> DEFINE w == Conn(c)
           opens == Opens(w, name)
           u == IF opens THEN webserver_open_file(w, name) ELSE w
           fl == IF get THEN {"HEAD_OK"} ELSE {"HEAD_OK", "POST"}
           v == SetSCB(u, fl)
           len == IF ~opens THEN 0 ELSE IF get THEN Size(name) ELSE FormLen
           status == Status(w, name, password)
           y == web_print_headers(v, status, FALSE, len)
           said == Said(v, status, len)
           f == Lookup(IF status = 200 THEN OnDisk(name) ELSE ErrorPage(status))
<1>2. /\ Respond(c, v, status, FALSE, len)
      /\ page' = [page EXCEPT ![c] = IF get THEN PageOf(y, status, name, said) ELSE NoPage]
  BY <1>1
<1>3. /\ c \notin linkd /\ UNCHANGED <<onDisk, rest>>
  BY DEF Request
<1>4. /\ page'[c] = IF get THEN PageOf(y, status, name, said) ELSE NoPage
  BY <1>2 DEF BInv
<1>5. /\ get /\ ~overlap /\ ~torn /\ MoreToSend(y) /\ ~(y.files[0] > MaxOpen)
      /\ PageFits[disk[0]][f]
      /\ page'[c] = [img |-> disk[0], file |-> f, sent |-> <<>>, said |-> said, whole |-> FALSE]
  <2> HIDE DEF y, status, said, f
  <2>1. page'[c] # NoPage
    BY DEF NoPage
  <2>2. get /\ page'[c] = PageOf(y, status, name, said)
    BY <1>4, <2>1
  <2>3. PageOf(y, status, name, said) =
          IF overlap \/ torn \/ ~MoreToSend(y) \/ y.files[0] > MaxOpen THEN NoPage
          ELSE IF ~PageFits[disk[0]][f] THEN NoPage
          ELSE [img |-> disk[0], file |-> f, sent |-> <<>>, said |-> said, whole |-> FALSE]
    BY DEF PageOf, f
  <2> QED BY <2>1, <2>2, <2>3
<1>6. Sound(w) /\ DiskType /\ rest[c] = <<>> /\ Clear(w) /\ "FOPEN" \notin w.flags
      /\ w.stub = stub
  <2>1. Blank(c)
    BY <1>3 DEF BInv
  <2>2. Sound(w) /\ DiskType
    BY Sounds DEF BInv, TInv
  <2>3. w.files = NoFiles /\ w.flags = {} /\ w.stub = stub
    BY <2>1 DEF Conn, Blank
  <2>4. Clear(w)
    BY <2>2, <2>3, Bounds DEF Clear, Outer, Tuple, Sound, NoFiles
  <2> QED BY <2>1, <2>2, <2>3, <2>4 DEF Blank
<1> HIDE DEF w
<1>7. Keeps(w, u) /\ Sound(v)
  <2>1. Keeps(w, u)
    BY <1>6, OpeningFile, KeepsItself
  <2> HIDE DEF u, fl
  <2> QED BY <2>1, Flagging2 DEF Keeps
<1>8. MoreToSend(Conn(c)') => Conn(c)' = y
  <2> HIDE DEF v, status, len
  <2> QED BY <1>2, <1>7, RespondsMore
(* The file that was asked for.                                            *)
<1>9. Outer(u) /\ Outer(v)
  <2>1. ASSUME opens, Builtin(name) # Invalid PROVE Outer(u)
    <3>1. u = web_inc_fp(w, Builtin(name))
      BY <2>1 DEF webserver_open_file
    <3>2. \A i \in Slots \ {0} : i - 1 \in Slots /\ w.files[i - 1] = Invalid
      BY <1>6, Bounds DEF Clear, Outer
    <3> QED BY <1>6, <3>1, <3>2 DEF web_inc_fp, Outer, Clear, Tuple
  <2>2. ASSUME opens, Builtin(name) = Invalid PROVE Outer(u)
    <3>1. CanOpen(w, OnDisk(name)) /\ u = web_inc_fopen(w, OnDisk(name))
      BY <2>2 DEF webserver_open_file, Opens
    <3> QED BY <1>6, <3>1, OpensFresh DEF AtStart
  <2>3. ASSUME ~opens PROVE Outer(u)
    BY <1>6, <2>3 DEF Clear
  <2>4. Outer(u)
    BY <2>1, <2>2, <2>3
  <2>5. fl \cap {"FINDCB", "RETRYCB"} = {}
    OBVIOUS
  <2> HIDE DEF u, fl
  <2> QED BY <2>4, <2>5, OuterFlags
<1> DEFINE z == IF status = 200 THEN v ELSE ErrorFile(v, status)
<1>10. y = z /\ "FOPEN" \in z.flags
  <2>1. Tuple(z)
    <3>1. Tuple(v) /\ Sound(v)
      BY <1>7 DEF Sound, Tuple
    <3> DEFINE x == ClrSCB(web_inc_fclose(v), {"FCALBACK", "RXDATA", "FCLOSE"})
    <3> HIDE DEF v
    <3>2. Tuple(x)
      <4>1. Tuple(web_inc_fclose(v))
        BY DEF web_inc_fclose, Tuple
      <4> QED BY <4>1, FlagRecords DEF Tuple
    <3> HIDE DEF x
    <3>3. Tuple(web_inc_fopen(x, ErrorPage(status)))
      BY DEF web_inc_fopen, web_inc_fp, SetSCB, Tuple
    <3>4. ErrorFile(v, status) = x \/ ErrorFile(v, status) = web_inc_fopen(x, ErrorPage(status))
      BY DEF ErrorFile, x
    <3> QED BY <3>1, <3>2, <3>3, <3>4
  <2> HIDE DEF z
  <2>2. y = IF "FOPEN" \notin z.flags THEN SetSCB(z, {"DISCONNECT", "CLOSED"})
            ELSE IF said = 0 THEN SetSCB(z, {"FCLOSE", "DISCONNECT", "CLOSED"}) ELSE z
    BY DEF web_print_headers, z
  <2>3. /\ SetSCB(z, {"DISCONNECT", "CLOSED"}).flags = z.flags \cup {"DISCONNECT", "CLOSED"}
        /\ SetSCB(z, {"FCLOSE", "DISCONNECT", "CLOSED"}).flags = z.flags \cup {"FCLOSE", "DISCONNECT", "CLOSED"}
    BY <2>1, FlagRecords DEF Tuple
  <2> HIDE DEF y
  <2>4. "CLOSED" \notin y.flags
    BY <1>5 DEF MoreToSend
  <2> QED BY <2>2, <2>3, <2>4
<1> DEFINE Goal == /\ AtStart(y, disk[0], f) /\ f # 0 /\ ~isWEBFSLocked /\ said \in Int
                   /\ Named(disk[0], "401.htm") = {} => said = Len(FileData[disk[0]][f])
<1>14. ASSUME NEW n, n # 0, disk[0] \in Images, n \in Files(disk[0])
       PROVE  Len(FileData[disk[0]][n]) \in Nat
  BY <1>14, FileWords
<1>11. ASSUME status = 200 PROVE Goal
  <2>1. opens /\ y = SetSCB(u, fl) /\ f = Lookup(OnDisk(name))
    <3>1. opens
      BY <1>11 DEF Status
    <3>2. z = v /\ f = Lookup(OnDisk(name))
      BY <1>11
    <3> HIDE DEF y, z, f, u, fl, opens
    <3> QED BY <1>10, <3>1, <3>2 DEF v
  <2>2. u.files = y.files /\ u.stub = y.stub /\ y.flags = u.flags \cup fl
    <3>1. Tuple(u)
      BY <1>9 DEF Outer
    <3> HIDE DEF u, fl, y, f
    <3> QED BY <2>1, <3>1, FlagRecords DEF Tuple
  <2>3. Builtin(name) = Invalid
    <3> SUFFICES ASSUME Builtin(name) # Invalid PROVE FALSE
      OBVIOUS
    <3>1. Builtin(name) \in {NODISK, WEBCGI, UPLOAD}
      BY DEF Builtin
    <3>2. u.files[0] = Builtin(name)
      BY <2>1, Bounds DEF webserver_open_file, web_inc_fp
    <3> HIDE DEF u
    <3>3. y.files[0] \in {NODISK, WEBCGI, UPLOAD}
      BY <2>2, <3>1, <3>2
    <3> HIDE DEF y
    <3> QED BY <1>5, <3>3, WebFSAssumption DEF NODISK, WEBCGI, UPLOAD
  <2>4. CanOpen(w, OnDisk(name)) /\ u = web_inc_fopen(w, OnDisk(name))
    BY <2>1, <2>3 DEF webserver_open_file, Opens
  <2>5. AtStart(u, disk[0], f)
    BY <1>6, <2>1, <2>4, OpensFresh
  <2>6. AtStart(y, disk[0], f)
    <3>1. ("FCALBACK" \in y.flags) = ("FCALBACK" \in u.flags)
      <4>1. "FCALBACK" \notin fl
        OBVIOUS
      <4> HIDE DEF y, u, fl
      <4> QED BY <2>2, <4>1
    <3>2. Outer(y)
      <4>1. y = v
        <5> HIDE DEF y, u, fl, f, opens
        <5> QED BY <2>1 DEF v
      <4> HIDE DEF y, v
      <4> QED BY <1>9, <4>1
    <3> HIDE DEF y, u, f
    <3> QED BY <2>2, <2>5, <3>1, <3>2 DEF AtStart
  <2>7. said = Len(FileData[disk[0]][f])
    <3>1. ~HasErrorPage(v, status)
      BY <1>11 DEF HasErrorPage
    <3>2. len = Size(name)
      BY <1>5, <2>1
    <3>3. Size(name) = Len(FileData[disk[0]][f])
      BY <2>1, <2>3 DEF Size
    <3>4. Size(name) \in Nat
      <4>1. f # 0 /\ disk[0] \in Images /\ f \in Files(disk[0])
        BY <1>6, <2>1, <2>4, Found DEF CanOpen
      <4> HIDE DEF f
      <4> QED BY <1>14, <3>3, <4>1
    <3> HIDE DEF v, f, status, len
    <3> QED BY <3>1, <3>2, <3>3, <3>4 DEF Said
  <2>8. f # 0 /\ ~isWEBFSLocked
    BY <2>1, <2>4 DEF CanOpen
  <2>9. said \in Int
    <3>1. disk[0] \in Images /\ f \in Files(disk[0])
      BY <1>6, <2>8, Found
    <3> HIDE DEF f, said
    <3> QED BY <1>14, <2>7, <2>8, <3>1
  <2> QED BY <2>6, <2>7, <2>8, <2>9
(* The page of an error.                                                   *)
<1>12. ASSUME status # 200 PROVE Goal
  <2> DEFINE x0 == web_inc_fclose(v)
             x == ClrSCB(x0, {"FCALBACK", "RXDATA", "FCLOSE"})
             ep == ErrorPage(status)
  <2>1. Clear(x0) /\ "FOPEN" \notin x0.flags /\ Tuple(x0) /\ Keeps(v, x0) /\ Sound(x0)
    <3> HIDE DEF v
    <3>1. Keeps(v, x0)
      BY <1>7, Leaving
    <3> QED BY <1>9, <3>1, ClosesOuter DEF Keeps
  <2> HIDE DEF x0
  <2>2. x.stub = x0.stub /\ "FOPEN" \notin x.flags /\ Sound(x) /\ Clear(x)
    <3>1. x = [stub |-> x0.stub, files |-> x0.files, flags |-> x0.flags \ {"FCALBACK", "RXDATA", "FCLOSE"}]
      BY <2>1, FlagRecords DEF Tuple
    <3>2. Clear(x)
      BY <2>1, OuterFlags
    <3> HIDE DEF x
    <3> QED BY <2>1, <3>1, <3>2 DEF Sound
  <2> HIDE DEF x, ep
  <2>3. HasErrorPage(v, status) /\ y = web_inc_fopen(x, ep) /\ CanOpen(x0, ep)
    <3>1. y = ErrorFile(v, status) /\ "FOPEN" \in y.flags
      BY <1>10, <1>12
    <3>2. ErrorFile(v, status) = IF HasErrorPage(v, status) THEN web_inc_fopen(x, ep) ELSE x
      BY DEF ErrorFile, x, x0, ep
    <3> HIDE DEF y, v
    <3>3. HasErrorPage(v, status)
      BY <2>2, <3>1, <3>2
    <3>4. CanOpen(x0, ep)
      BY <3>3 DEF HasErrorPage, x0, ep
    <3> QED BY <3>1, <3>2, <3>3, <3>4
  <2>4. CanOpen(x, ep)
    BY <2>2, <2>3 DEF CanOpen
  <2>5. f = Lookup(ep)
    BY <1>12 DEF ep
  <2>6. AtStart(y, disk[0], f)
    <3> HIDE DEF f, y
    <3> QED BY <1>6, <2>2, <2>3, <2>4, <2>5, OpensFresh
  <2>7. f # 0 /\ ~isWEBFSLocked /\ disk[0] \in Images /\ f \in Files(disk[0])
    <3> HIDE DEF f
    <3> QED BY <1>6, <2>4, <2>5, Found DEF CanOpen
  <2>8. Size(ep) = Len(FileData[disk[0]][f]) /\ Size(ep) \in Nat
    <3>1. Size(ep) = Len(FileData[disk[0]][Lookup(ep)])
      BY ErrorNames DEF Size, ep
    <3> HIDE DEF f
    <3> QED BY <1>14, <2>5, <2>7, <3>1
  <2>9. said = len + Size(ep)
    <3> HIDE DEF v, status, len
    <3> QED BY <2>3 DEF Said, ep
  <2>10. status = 401 \/ (status = 404 /\ len = 0)
    BY <1>12 DEF Status
  <2>11. len \in Int
    <3>1. CASE ~opens
      BY <3>1
    <3>2. CASE opens
      <4>1. len = Size(name)
        BY <1>5, <3>2
      <4>2. CASE Builtin(name) # Invalid
        BY <4>1, <4>2 DEF Size
      <4>3. CASE Builtin(name) = Invalid
        <5>1. Lookup(OnDisk(name)) # 0
          BY <3>2, <4>3 DEF Opens, CanOpen
        <5>2. Size(name) = Len(FileData[disk[0]][Lookup(OnDisk(name))])
          BY <4>3 DEF Size
        <5>3. disk[0] \in Images /\ Lookup(OnDisk(name)) \in Files(disk[0])
          BY <1>6, <5>1, Found
        <5> HIDE DEF len
        <5> QED BY <1>14, <4>1, <5>1, <5>2, <5>3
      <4> QED BY <4>2, <4>3
    <3> QED BY <3>1, <3>2
  <2>12. Named(disk[0], "401.htm") = {} => status # 401
    <3> SUFFICES ASSUME Named(disk[0], "401.htm") = {}, status = 401 PROVE FALSE
      OBVIOUS
    <3>1. ep = "401.htm"
      BY DEF ep, ErrorPage
    <3>2. Lookup("401.htm") = 0
      BY DEF Lookup
    <3> HIDE DEF f
    <3> QED BY <2>5, <2>7, <3>1, <3>2
  <2> HIDE DEF f, y, len, status, said
  <2>13. said \in Int /\ (Named(disk[0], "401.htm") = {} => said = Len(FileData[disk[0]][f]))
    BY <2>8, <2>9, <2>10, <2>11, <2>12
  <2> QED BY <2>6, <2>7, <2>13
<1> HIDE DEF y, status, said, f, v, u, len, z
<1>13. Goal
  BY <1>11, <1>12
<1>15. disk[0] \in Images /\ f \in Files(disk[0]) /\ numFiles # None
  <2>1. disk[0] \in Images /\ f \in Files(disk[0])
    BY <1>6, <1>13, Found DEF f
  <2>2. numFiles # None
    BY <1>13 DEF f, Lookup
  <2> QED BY <2>1, <2>2
<1>16. UNCHANGED <<disk, numFiles>> /\ rest'[c] = <<>>
  BY <1>3, <1>6 DEF onDisk
<1>17. MoreToSend(Conn(c)') => AtStart(Conn(c)', disk[0], f)
  BY <1>8, <1>13
<1> QED BY <1>5, <1>13, <1>15, <1>16, <1>17

(* A turn after which the page goes on.                                    *)
LEMMA TurnGoesOn ==
  ASSUME BInv, Turn, NEW c \in Conns, c = sending, MoreToSend(Conn(c)')
  PROVE  LET t == Send(Conn(c), rest[c])
         IN Conn(c)' = t.w /\ {"FCLOSE", "DISCONNECT"} \cap t.w.flags = {}
<1> DEFINE t == Send(Conn(c), rest[c])
           go == /\ "FCALBACK" \in webflag[c]
                 /\ left - Len(t.out) >= Window
                 /\ t.w.flags \cap {"FCLOSE", "RETRYCB", "DISCONNECT"} = {}
           x == IF go THEN t.w ELSE EndCallback(t.w)
<1>1. Become(c, x)
  BY DEF Turn
<1>2. Tuple(t.w)
  <2>1. Sound(Conn(c))
    BY Sounds DEF BInv, TInv
  <2>2. Keeps(Conn(c), t.w)
    BY <2>1, Sending
  <2> QED BY <2>2 DEF Keeps, Sound, Tuple
<1> HIDE DEF t
<1>3. stub' = x.stub /\ bffiles'[c] = x.files /\ webflag'[c] = x.flags
  <2> HIDE DEF x
  <2> QED BY <1>1 DEF Become, BInv, TInv, IInv
<1>4. Conn(c)' = [stub |-> x.stub, files |-> x.files, flags |-> x.flags] /\ MoreToSend(x)
  <2> HIDE DEF x
  <2>1. Conn(c)' = [stub |-> x.stub, files |-> x.files, flags |-> x.flags]
    BY <1>3 DEF Conn
  <2> QED BY <2>1 DEF MoreToSend
<1>5. x = t.w
  <2>1. CASE go
    BY <2>1
  <2>2. CASE ~go
    BY <1>2, <1>4, <2>2, EndsClosed
  <2> QED BY <2>1, <2>2
<1> HIDE DEF x
<1>6. Conn(c)' = t.w
  BY <1>2, <1>4, <1>5 DEF Tuple
<1>7. {"FCLOSE", "DISCONNECT"} \cap t.w.flags = {}
  BY <1>4, <1>5 DEF MoreToSend
<1> QED BY <1>6, <1>7 DEF t

LEMMA PageTurn ==
  ASSUME BInv, Turn, NEW c \in Conns, c = sending, page'[c].img # None
  PROVE  LET t == Send(Conn(c), rest[c])
         IN /\ page[c].img # None /\ ~overlap /\ t.fits
            /\ page'[c] = [page[c] EXCEPT !.sent = @ \o t.out, !.whole = "FCLOSE" \in t.w.flags]
            /\ rest'[c] = t.more /\ MoreToSend(Conn(c)) /\ left >= Window
            /\ UNCHANGED <<disk, numFiles>>
<1> DEFINE t == Send(Conn(c), rest[c])
<1>1. /\ page' = [page EXCEPT ![c] = PageSent(@, t)] /\ rest' = [rest EXCEPT ![c] = t.more]
      /\ UNCHANGED onDisk /\ sending # NoConn
  BY DEF Turn
<1> HIDE DEF t
<1>2. page'[c] = PageSent(page[c], t) /\ rest'[c] = t.more
  BY <1>1 DEF BInv, TInv
<1>3. PageSent(page[c], t) # NoPage
  BY <1>2 DEF NoPage
<1>4. /\ page[c].img # None /\ ~overlap /\ t.fits
      /\ page'[c] = [page[c] EXCEPT !.sent = @ \o t.out, !.whole = "FCLOSE" \in t.w.flags]
  BY <1>2, <1>3 DEF PageSent
<1>5. MoreToSend(Conn(c)) /\ left >= Window
  BY <1>1 DEF BInv
<1> QED BY <1>1, <1>2, <1>4, <1>5 DEF t, onDisk
-----------------------------------------------------------------------------
(* A file that is not parsed, of which sent was read.                      *)
PlainAt(w, v, f, sent) ==
  /\ w.flags \cap {"FCALBACK", "RETRYCB"} = {}
  /\ w.files[0] \in Handles
  /\ Len(sent) <= Len(FileData[v][f])
  /\ w.stub[w.files[0]] = At(v, f, Len(sent))

(* What is known of a page of a file that is not parsed, also when an      *)
(* upload writes the disk under it.                                        *)
LPage(p, w, o) ==
  IF p.img = None THEN ~p.whole
  ELSE
    /\ p.img \in Images /\ p.file \in Files(p.img)
    /\ p = [img |-> p.img, file |-> p.file, sent |-> p.sent, said |-> p.said, whole |-> p.whole]
    /\ Named(p.img, "401.htm") = {} => p.said = Len(FileData[p.img][p.file])
    /\ ~Directory[p.img][p.file].parsed =>
         /\ p.sent \in Seq(Word)
         /\ p.whole => Len(p.sent) = Len(FileData[p.img][p.file])
         /\ MoreToSend(w) => w.files[0] \in Handles
         /\ (~o /\ MoreToSend(w)) => PlainAt(w, p.img, p.file, p.sent)

LInv == BInv /\ \A c \in Conns : LPage(page[c], Conn(c), overlap)

(* A turn of the send loop for such a page.                                *)
LEMMA PlainTurn ==
  ASSUME DiskType, left \in Nat, NEW w, Typed(w), MoreToSend(w),
         NEW v \in Images, NEW f \in Files(v), NEW sent \in Seq(Word),
         PlainAt(w, v, f, sent), NEW text
  PROVE  LET t == Send(w, text)
         IN /\ sent \o t.out \in Seq(Word) /\ Len(sent \o t.out) <= Len(FileData[v][f])
            /\ t.out = GetArray(w.stub, w.files[0], left)
            /\ "FCLOSE" \in t.w.flags => Len(sent \o t.out) = Len(FileData[v][f])
            /\ "FCLOSE" \notin t.w.flags => PlainAt(t.w, v, f, sent \o t.out)
<1> DEFINE h == w.files[0]
           n == Len(FileData[v][f])
           p == Len(sent)
           data == GetArray(w.stub, h, left)
           u == [w EXCEPT !.stub = Advance(@, h, Len(data))]
           x == IF Len(data) < left THEN SetSCB(u, {"FCLOSE", "DISCONNECT"}) ELSE u
<1>1. h \in Handles /\ ~(h > MaxOpen) /\ h <= MaxOpen
  BY WebFSAssumption DEF PlainAt, Handles
<1>2. n \in Nat /\ p \in Nat /\ p <= n /\ FileAddr[v][f] \in Nat
  BY FileWords, FilePlaces DEF PlainAt
<1>3. w.stub[h] = [addr |-> FileAddr[v][f] + p, rem |-> n - p]
  BY DEF PlainAt, At
<1>4. w.stub[h] # Free
  BY <1>3, OpenIsNotFree
<1>5. data \in Seq(Word) /\ Len(data) = GetLen(w.stub, h, left)
  BY <1>1, ReadsWords DEF Typed
<1>6. Send(w, text) = Turned(x, data, <<>>, TRUE)
  <2>1. Send(w, text) = SendPlain(w)
    BY <1>1 DEF Send, PlainAt
  <2> QED BY <2>1 DEF SendPlain
<1>7. Len(data) = IF left < n - p THEN left ELSE n - p
  BY <1>3, <1>4, <1>5 DEF GetLen
<1>8. /\ u = [stub |-> Advance(w.stub, h, Len(data)), files |-> w.files, flags |-> w.flags]
  BY DEF Typed, Sound
<1>9. Advance(w.stub, h, Len(data))[h] = [addr |-> w.stub[h].addr + Len(data), rem |-> w.stub[h].rem - Len(data)]
  BY <1>1, <1>4 DEF Advance, Typed, Sound, IsTable
<1> HIDE DEF data, u, n, h
<1>10. u.stub[h] = [addr |-> FileAddr[v][f] + p + Len(data), rem |-> n - p - Len(data)]
  BY <1>3, <1>8, <1>9
<1>11. Len(sent \o data) = p + Len(data) /\ sent \o data \in Seq(Word) /\ Len(data) \in Nat
  BY <1>5
<1>12. x.flags = IF Len(data) < left THEN w.flags \cup {"FCLOSE", "DISCONNECT"} ELSE w.flags
  <2>1. u.flags = w.flags /\ u = [stub |-> u.stub, files |-> u.files, flags |-> u.flags]
    BY <1>8
  <2>2. SetSCB(u, {"FCLOSE", "DISCONNECT"}).flags = u.flags \cup {"FCLOSE", "DISCONNECT"}
    BY <2>1, FlagRecords
  <2> QED BY <2>1, <2>2
<1>13. CASE Len(data) < left
  <2>1. Len(data) = n - p
    BY <1>7, <1>13
  <2>2. "FCLOSE" \in x.flags
    BY <1>12, <1>13
  <2> HIDE DEF x
  <2>3. Len(sent \o data) = n
    BY <1>2, <1>11, <2>1
  <2> QED BY <1>2, <1>6, <1>11, <2>2, <2>3 DEF Turned, n, data, h
<1>14. CASE ~(Len(data) < left)
  <2>1. x = u /\ Len(data) = left /\ p + Len(data) <= n
    BY <1>2, <1>7, <1>14
  <2>2. u.flags = w.flags /\ u.files = w.files /\ "FCLOSE" \notin u.flags
    BY <1>8 DEF MoreToSend
  <2>3. u.stub[h] = At(v, f, Len(sent \o data))
    BY <1>2, <1>10, <1>11, <2>1 DEF At, n
  <2> HIDE DEF x
  <2>4. PlainAt(u, v, f, sent \o data)
    BY <1>11, <2>1, <2>2, <2>3 DEF PlainAt, n, h
  <2> QED BY <1>6, <1>11, <2>1, <2>2, <2>4 DEF Turned, n, data, h
<1> QED BY <1>13, <1>14

(* A page that is not recorded is not said to be whole.                    *)
LEMMA NotWhole ==
  ASSUME BInv, [Next]_vars, NEW d \in Conns, LPage(page[d], Conn(d), overlap), page'[d].img = None
  PROVE  ~page'[d].whole
<1>1. NoPage.whole = FALSE
  BY DEF NoPage
<1>2. page'[d] = page[d] => ~page'[d].whole
  BY DEF LPage
<1>3. ASSUME NEW c \in Conns, Request(c) PROVE ~page'[d].whole
  <2>1. ASSUME NEW v, NEW status, NEW name, NEW len PROVE PageOf(v, status, name, len).whole = FALSE
    BY <1>1 DEF PageOf
  <2>2. PICK get, v, status, name, len :
          page' = [page EXCEPT ![c] = IF get THEN PageOf(v, status, name, len) ELSE NoPage]
    BY Zenon, <1>3 DEF Request
  <2> QED BY <1>1, <1>2, <2>1, <2>2 DEF BInv
<1>4. ASSUME Turn PROVE ~page'[d].whole
  <2>1. PICK c, t : page' = [page EXCEPT ![c] = PageSent(@, t)]
    BY <1>4 DEF Turn
  <2>2. page'[d] = page[d] \/ page'[d] = PageSent(page[d], t)
    BY <2>1 DEF BInv
  <2>3. ASSUME page[d].img # None, PageSent(page[d], t) # NoPage
        PROVE  PageSent(page[d], t).img # None
    <3>1. page[d] = [img |-> page[d].img, file |-> page[d].file, sent |-> page[d].sent,
                     said |-> page[d].said, whole |-> page[d].whole]
      BY <2>3 DEF LPage
    <3>2. PageSent(page[d], t) = [page[d] EXCEPT !.sent = @ \o t.out, !.whole = "FCLOSE" \in t.w.flags]
      BY <2>3 DEF PageSent
    <3>3. PageSent(page[d], t).img = page[d].img
      BY <3>1, <3>2
    <3> QED BY <2>3, <3>3
  <2>4. page[d].img = None => PageSent(page[d], t) = NoPage
    BY DEF PageSent
  <2> QED BY <1>1, <1>2, <2>2, <2>3, <2>4
<1>5. ASSUME Restart PROVE ~page'[d].whole
  BY <1>1, <1>5 DEF Restart
<1>6. ASSUME NEW c \in Conns, Disconnect(c) PROVE ~page'[d].whole
  BY <1>1, <1>2, <1>6 DEF Disconnect, BInv
<1>7. ASSUME UNCHANGED page PROVE ~page'[d].whole
  BY <1>2, <1>7
<1>8. ASSUME NEW c \in Conns,
             \/ FormBegins(c) \/ FormEnds(c) \/ Sent(c) \/ UploadBegins(c) \/ UploadAccepted(c)
             \/ UploadRefused(c) \/ UploadBlock(c) \/ UploadEnds(c)
      PROVE  UNCHANGED page
  BY <1>8 DEF FormBegins, FormEnds, Sent, UploadBegins, UploadAccepted, UploadRefused,
              UploadBlock, UploadEnds
<1>9. UNCHANGED vars => UNCHANGED page
  BY DEF vars
<1> QED BY <1>3, <1>4, <1>5, <1>6, <1>7, <1>8, <1>9 DEF Next

LEMMA StepLInv ==
  ASSUME LInv, [Next]_vars
  PROVE  LInv'
<1>0. BInv /\ BInv'
  BY StepBInv DEF LInv
<1> SUFFICES ASSUME NEW c \in Conns PROVE LPage(page[c], Conn(c), overlap)'
  BY <1>0 DEF LInv
<1>1. LPage(page[c], Conn(c), overlap)
  BY DEF LInv
<1>2. CASE Still(c)
  <2> DEFINE p == page[c]
  <2>1. /\ page'[c] = p /\ Conn(c)'.files = Conn(c).files /\ Conn(c)'.flags = Conn(c).flags
    BY <1>2 DEF Still, Conn
  <2>2. MoreToSend(Conn(c)') = MoreToSend(Conn(c))
    BY <2>1 DEF MoreToSend
  <2>3. ASSUME ~overlap', bffiles[c][0] \in Handles
        PROVE  ~overlap /\ Conn(c)'.stub[Conn(c).files[0]] = Conn(c).stub[Conn(c).files[0]]
    BY <1>2, <2>3, Bounds DEF Still, Conn
  <2>4. bffiles[c][0] = Conn(c).files[0]
    BY DEF Conn
  <2>5. ASSUME NEW v, NEW f, NEW s, ~overlap', Conn(c).files[0] \in Handles,
               ~overlap => PlainAt(Conn(c), v, f, s)
        PROVE  PlainAt(Conn(c)', v, f, s)
    BY <2>1, <2>3, <2>4, <2>5 DEF PlainAt
  <2> HIDE DEF p
  <2> QED BY <1>1, <2>1, <2>2, <2>5 DEF LPage, p
<1>3. CASE page'[c].img = None
  BY <1>0, <1>1, <1>3, NotWhole DEF LPage
<1>4. CASE page'[c] = page[c] /\ ~MoreToSend(Conn(c)')
  BY <1>1, <1>4 DEF LPage
<1>5. CASE Request(c) /\ page'[c].img # None
  <2>1. disk[0] \in Images
    BY <1>0, <1>5, Requested
  <2>2. PICK f \in Files(disk[0]), s \in Int :
          /\ page'[c] = [img |-> disk[0], file |-> f, sent |-> <<>>, said |-> s, whole |-> FALSE]
          /\ MoreToSend(Conn(c)') => AtStart(Conn(c)', disk[0], f)
          /\ Named(disk[0], "401.htm") = {} => s = Len(FileData[disk[0]][f])
    BY <1>0, <1>5, Requested
  <2>3. <<>> \in Seq(Word) /\ Len(<<>>) = 0 /\ Len(FileData[disk[0]][f]) \in Nat
    BY <2>1, FileWords
  <2>4. ASSUME MoreToSend(Conn(c)'), ~Directory[disk[0]][f].parsed
        PROVE  PlainAt(Conn(c)', disk[0], f, <<>>)
    <3> DEFINE x == Conn(c)'
    <3>1. AtStart(x, disk[0], f)
      BY <2>2, <2>4
    <3> HIDE DEF x
    <3>2. x.files[0] \in Handles /\ x.stub[x.files[0]] = At(disk[0], f, 0)
          /\ x.flags \cap {"FINDCB", "RETRYCB"} = {}
          /\ ("FCALBACK" \in x.flags) = Directory[disk[0]][f].parsed
      BY <3>1 DEF AtStart, Outer
    <3>3. "FCALBACK" \notin x.flags
      BY <2>4, <3>2
    <3>4. x.flags \cap {"FCALBACK", "RETRYCB"} = {}
      BY <3>2, <3>3
    <3>5. PlainAt(x, disk[0], f, <<>>)
      BY <2>3, <3>2, <3>4 DEF PlainAt
    <3> QED BY <3>5 DEF x
  <2>5. ASSUME NEW v, NEW g, NEW x, PlainAt(x, v, g, <<>>) PROVE x.files[0] \in Handles
    BY <2>5 DEF PlainAt
  <2> HIDE DEF PlainAt
  <2> QED BY <2>1, <2>2, <2>3, <2>4, <2>5 DEF LPage
<1>6. CASE Turn /\ c = sending /\ page'[c].img # None
  <2> DEFINE t == Send(Conn(c), rest[c])
             p == page[c]
             v == p.img
             f == p.file
  <2>1. /\ p.img # None /\ ~overlap
        /\ page'[c] = [p EXCEPT !.sent = @ \o t.out, !.whole = "FCLOSE" \in t.w.flags]
        /\ MoreToSend(Conn(c))
    BY Zenon, <1>0, <1>6, PageTurn
  <2>2. Typed(Conn(c)) /\ DiskType /\ left \in Nat
    BY <1>0, TypedConn DEF BInv, TInv
  <2>3. MoreToSend(Conn(c)') => Conn(c)' = t.w /\ "FCLOSE" \notin t.w.flags
    BY <1>0, <1>6, TurnGoesOn
  <2> HIDE DEF t, p
  <2>4. /\ v \in Images /\ f \in Files(v)
        /\ p = [img |-> p.img, file |-> p.file, sent |-> p.sent, said |-> p.said, whole |-> p.whole]
    BY <1>1, <2>1 DEF LPage, p
  <2>5. page'[c] = [img |-> v, file |-> f, sent |-> p.sent \o t.out, said |-> p.said,
                    whole |-> ("FCLOSE" \in t.w.flags)]
    BY <2>1, <2>4
  <2>6. ASSUME ~Directory[v][f].parsed
        PROVE  /\ p.sent \o t.out \in Seq(Word)
               /\ "FCLOSE" \in t.w.flags => Len(p.sent \o t.out) = Len(FileData[v][f])
               /\ "FCLOSE" \notin t.w.flags => PlainAt(t.w, v, f, p.sent \o t.out)
    <3>1. p.sent \in Seq(Word) /\ PlainAt(Conn(c), v, f, p.sent)
      BY <1>1, <2>1, <2>6 DEF LPage, p
    <3> QED BY <2>1, <2>2, <2>4, <3>1, PlainTurn DEF t
  <2>7. ASSUME NEW u, NEW g, NEW x, NEW s, PlainAt(x, u, g, s) PROVE x.files[0] \in Handles
    BY <2>7 DEF PlainAt
  <2>8. Named(v, "401.htm") = {} => p.said = Len(FileData[v][f])
    BY <1>1, <2>1 DEF LPage, p
  <2> HIDE DEF PlainAt, v, f
  <2> DEFINE q == page'[c]
  <2> HIDE DEF q
  <2>9. /\ q.img = v /\ q.file = f /\ q.sent = p.sent \o t.out /\ q.said = p.said
        /\ q.whole = ("FCLOSE" \in t.w.flags)
        /\ q = [img |-> q.img, file |-> q.file, sent |-> q.sent, said |-> q.said, whole |-> q.whole]
    <3> DEFINE full == "FCLOSE" \in t.w.flags
               s == p.sent \o t.out
    <3>1. q = [img |-> v, file |-> f, sent |-> s, said |-> p.said, whole |-> full]
      BY <2>5 DEF q
    <3> HIDE DEF full, s
    <3>2. /\ q.img = v /\ q.file = f /\ q.sent = s /\ q.said = p.said /\ q.whole = full
      BY <3>1
    <3> QED BY <3>1, <3>2 DEF full, s
  <2>10. ~Directory[v][f].parsed => (MoreToSend(Conn(c)') =>
           Conn(c)'.files[0] \in Handles /\ PlainAt(Conn(c)', v, f, p.sent \o t.out))
    BY <2>3, <2>6, <2>7
  <2>11. LPage(q, Conn(c)', overlap')
    <3> DEFINE x == Conn(c)'
               o == overlap'
               full == "FCLOSE" \in t.w.flags
               s == p.sent \o t.out
               parsed == Directory[v][f].parsed
    <3>1. q.img # None /\ q.img \in Images /\ q.file \in Files(q.img)
      BY <2>4, <2>9, WebFSAssumption
    <3>2. Named(q.img, "401.htm") = {} => q.said = Len(FileData[q.img][q.file])
      BY <2>8, <2>9
    <3>3. ~parsed => /\ s \in Seq(Word)
                     /\ full => Len(s) = Len(FileData[v][f])
                     /\ MoreToSend(x) => x.files[0] \in Handles /\ PlainAt(x, v, f, s)
      BY <2>6, <2>10
    <3>4. q.sent = s /\ q.whole = full /\ Directory[q.img][q.file].parsed = parsed
      BY <2>9
    <3> HIDE DEF x, o, full, s, parsed
    <3>5. ~Directory[q.img][q.file].parsed =>
            /\ q.sent \in Seq(Word)
            /\ q.whole => Len(q.sent) = Len(FileData[q.img][q.file])
            /\ MoreToSend(x) => x.files[0] \in Handles
            /\ (~o /\ MoreToSend(x)) => PlainAt(x, q.img, q.file, q.sent)
      <4>1. q.img = v /\ q.file = f
        BY <2>9
      <4>2. ASSUME ~Directory[q.img][q.file].parsed
            PROVE  /\ s \in Seq(Word)
                   /\ full => Len(s) = Len(FileData[v][f])
                   /\ MoreToSend(x) => x.files[0] \in Handles /\ PlainAt(x, v, f, s)
        BY Zenon, <3>3, <3>4, <4>2
      <4>3. q.whole => full
        BY Zenon, <3>4
      <4> HIDE DEF q
      <4>4. /\ Len(FileData[q.img][q.file]) = Len(FileData[v][f]) /\ Len(q.sent) = Len(s)
            /\ s \in Seq(Word) => q.sent \in Seq(Word)
            /\ PlainAt(x, v, f, s) => PlainAt(x, q.img, q.file, q.sent)
        <5>1. q.img = v /\ q.file = f /\ q.sent = s
          BY <3>4, <4>1
        <5> HIDE DEF PlainAt
        <5> QED BY <5>1
      <4> HIDE DEF PlainAt
      <4> QED BY Zenon, <4>2, <4>3, <4>4
    <3>6. LPage(q, x, o)
      BY <2>9, <3>1, <3>2, <3>5 DEF LPage
    <3> QED BY <3>6 DEF x, o
  <2> QED BY <2>11 DEF q
<1> QED BY <1>0, <1>2, <1>3, <1>4, <1>5, <1>6, PageSteps

LEMMA InitLInv == Init => LInv
<1> SUFFICES ASSUME Init PROVE LInv
  OBVIOUS
<1>1. \A c \in Conns : page[c].img = None /\ ~page[c].whole
  BY DEF Init, NoPage
<1> QED BY <1>1, InitBInv DEF LInv, LPage

(* The length that is announced for a file that is not parsed is what is   *)
(* sent of it, also when the disk is written meanwhile, on a disk without  *)
(* a page for error 401 (content_len keeps the length of the page that the *)
(* password was asked for).                                                *)
THEOREM LengthIsSent ==
  ASSUME \A v \in Images : Named(v, "401.htm") = {}
  PROVE  Spec => []LengthSaid
<1>1. LInv => LengthSaid
  <2> SUFFICES ASSUME LInv, NEW c \in Conns, page[c].whole,
                      ~Directory[page[c].img][page[c].file].parsed
               PROVE  Len(page[c].sent) = page[c].said
    BY DEF LengthSaid
  <2>1. LPage(page[c], Conn(c), overlap)
    BY DEF LInv
  <2> QED BY <2>1 DEF LPage
<1>2. Init /\ [][Next]_vars => []LInv
  BY InitLInv, StepLInv, PTL
<1> QED BY <1>1, <1>2, PTL DEF Spec
-----------------------------------------------------------------------------
(* The recursive definitions of Fits and Page say what they seem to.       *)
IncludesFit(d, v, f) ==
  Directory[v][f].parsed =>
    \A i \in 1..Len(Directory[v][f].parts) :
      LET p == Directory[v][f].parts[i]
      IN (p.kind = "inc" /\ IncludeOf(v, p) # 0) => Fits[d - 1][v][IncludeOf(v, p)]

LEMMA FitsRule ==
  ASSUME NEW d \in 0..MaxNest, NEW v \in Images, NEW f \in Files(v)
  PROVE  Fits[d][v][f] = (d > 0 /\ IncludesFit(d, v, f))
<1> DEFINE Body(g, e) == [u \in Images |-> [x \in Files(u) |->
             e > 0 /\ (Directory[u][x].parsed =>
               \A i \in 1..Len(Directory[u][x].parts) : LET p == Directory[u][x].parts[i] IN
                 (p.kind = "inc" /\ IncludeOf(u, p) # 0) => g[u][IncludeOf(u, p)])]]
           Upto(m, h) == h = [e \in 0..m |-> h[e]] /\ \A e \in 0..m : h[e] = Body(h[e - 1], e)
           bad == {m \in 0..MaxNest : ~\E h : Upto(m, h)}
<1>0. MaxNest \in Nat
  BY WebSrvAssumption
<1>1. ASSUME NEW g, NEW h PROVE Body(g, 0) = Body(h, 0)
  OBVIOUS
<1>2. Fits = CHOOSE g : g = [e \in 0..MaxNest |-> Body(g[e - 1], e)]
  BY DEF Fits
<1>3. ASSUME NEW g
      PROVE  Body(g, d)[v][f] = (
               d > 0 /\ (Directory[v][f].parsed =>
                 \A i \in 1..Len(Directory[v][f].parts) : LET p == Directory[v][f].parts[i] IN
                   (p.kind = "inc" /\ IncludeOf(v, p) # 0) => g[v][IncludeOf(v, p)]))
  OBVIOUS
<1> HIDE DEF Body
<1>4. ASSUME bad # {} PROVE FALSE
  <2>1. bad \in SUBSET Nat
    BY <1>0
  <2>2. PICK m \in bad : \A k \in bad : m <= k
    <3> HIDE DEF bad
    <3> QED BY <1>4, <2>1, LeastElement
  <2>3. m \in 0..MaxNest /\ ~\E h : Upto(m, h)
    <3> HIDE DEF Upto
    <3> QED BY <2>2
  <2>4. CASE m = 0
    <3> DEFINE h == [e \in 0..0 |-> Body(0, 0)]
    <3>1. Upto(0, h)
      <4>1. h[0] = Body(0, 0) /\ Body(0, 0) = Body(h[0 - 1], 0)
        BY <1>1
      <4> QED BY <4>1
    <3> QED BY <2>3, <2>4, <3>1
  <2>5. CASE m # 0
    <3>1. m - 1 \in 0..MaxNest /\ ~(m <= m - 1) /\ m \in Nat
      BY <1>0, <2>3, <2>5
    <3>2. PICK h : Upto(m - 1, h)
      <4> HIDE DEF Upto
      <4> QED BY <2>2, <3>1
    <3> DEFINE G == [e \in 0..m |-> IF e = m THEN Body(h[m - 1], m) ELSE h[e]]
    <3>3. ASSUME NEW e \in 0..m PROVE G[e] = Body(G[e - 1], e)
      <4>1. CASE e = m
        <5>1. m - 1 \in 0..m /\ m - 1 # m /\ m \in 0..m
          BY <3>1, <2>5
        <5> QED BY <4>1, <5>1
      <4>2. CASE e # m /\ e = 0
        <5>1. 0 \in 0..m - 1 /\ 0 \in 0..m
          BY <3>1, <2>5
        <5>2. G[0] = h[0] /\ h[0] = Body(h[0 - 1], 0)
          BY <3>2, <4>2, <5>1
        <5> HIDE DEF G
        <5> QED BY <1>1, <4>2, <5>2
      <4>3. CASE e # m /\ e # 0
        <5>1. e \in 0..m - 1 /\ e - 1 \in 0..m /\ e - 1 # m
          BY <3>1, <4>3
        <5>2. G[e] = h[e] /\ h[e] = Body(h[e - 1], e) /\ G[e - 1] = h[e - 1]
          BY <3>2, <4>3, <5>1
        <5> QED BY <5>2
      <4> QED BY <4>1, <4>2, <4>3
    <3>4. Upto(m, G)
      BY <3>3
    <3> QED BY <2>3, <3>4
  <2> QED BY <2>4, <2>5
<1>5. PICK h : Upto(MaxNest, h)
  <2> HIDE DEF Upto
  <2> QED BY <1>0, <1>4
<1>6. h = [e \in 0..MaxNest |-> Body(h[e - 1], e)]
  BY <1>5
<1>7. Fits = [e \in 0..MaxNest |-> Body(Fits[e - 1], e)]
  BY <1>2, <1>6
<1>8. Fits[d] = Body(Fits[d - 1], d)
  BY <1>7
<1> QED BY <1>3, <1>8 DEF IncludesFit

(* What the parts of a file become when d files may be open.               *)
Piece(v, d, p) ==
  CASE p.kind = "text"  -> <<p>>
    [] p.kind = "tilde" -> <<Mark>>
    [] p.kind = "call"  -> Output[p.x]
    [] OTHER -> IF IncludeOf(v, p) = 0 THEN <<NoFile>> ELSE Page[d - 1][v][IncludeOf(v, p)]
Pieces(v, f, d) ==
  [i \in 1..Len(Directory[v][f].parts) |-> Piece(v, d, Directory[v][f].parts[i])]

LEMMA PageRule ==
  ASSUME NEW d \in 0..MaxNest, NEW v \in Images, NEW f \in Files(v)
  PROVE  Page[d][v][f] = IF ~Fits[d][v][f] THEN <<>>
                         ELSE IF ~Directory[v][f].parsed THEN FileData[v][f]
                         ELSE FlattenSeq(Pieces(v, f, d))
<1> DEFINE Part1(g, u, p) ==
             CASE p.kind = "text"  -> <<p>>
               [] p.kind = "tilde" -> <<Mark>>
               [] p.kind = "call"  -> Output[p.x]
               [] OTHER -> IF IncludeOf(u, p) = 0 THEN <<NoFile>> ELSE g[u][IncludeOf(u, p)]
           Body(g, e) == [u \in Images |-> [x \in Files(u) |->
             IF ~Fits[e][u][x] THEN <<>>
             ELSE IF ~Directory[u][x].parsed THEN FileData[u][x]
             ELSE FlattenSeq([i \in 1..Len(Directory[u][x].parts) |->
                    LET p == Directory[u][x].parts[i] IN Part1(g, u, p)])]]
           Upto(m, h) == h = [e \in 0..m |-> h[e]] /\ \A e \in 0..m : h[e] = Body(h[e - 1], e)
           bad == {m \in 0..MaxNest : ~\E h : Upto(m, h)}
<1>0. MaxNest \in Nat /\ 0 \in 0..MaxNest
  BY WebSrvAssumption
<1>1. ASSUME NEW g, NEW h PROVE Body(g, 0) = Body(h, 0)
  <2>1. ASSUME NEW u \in Images, NEW x \in Files(u) PROVE Fits[0][u][x] = FALSE
    <3>1. Fits[0][u][x] = (0 > 0 /\ IncludesFit(0, u, x))
      BY <1>0, FitsRule
    <3>2. ~(0 > 0)
      OBVIOUS
    <3> QED BY Zenon, <3>1, <3>2
  <2> HIDE DEF Part1
  <2>2. ASSUME NEW k PROVE Body(k, 0) = [u \in Images |-> [x \in Files(u) |-> <<>>]]
    BY <2>1
  <2> HIDE DEF Body
  <2> QED BY <2>2
<1>2. Page = CHOOSE g : g = [e \in 0..MaxNest |-> Body(g[e - 1], e)]
  BY DEF Page
<1>3. ASSUME NEW g
      PROVE  Body(g, d)[v][f] =
             IF ~Fits[d][v][f] THEN <<>>
             ELSE IF ~Directory[v][f].parsed THEN FileData[v][f]
             ELSE FlattenSeq([i \in 1..Len(Directory[v][f].parts) |->
                    Part1(g, v, Directory[v][f].parts[i])])
  <2> HIDE DEF Part1
  <2> QED OBVIOUS
<1>4. Pieces(v, f, d) = [i \in 1..Len(Directory[v][f].parts) |->
                          Part1(Page[d - 1], v, Directory[v][f].parts[i])]
  BY DEF Pieces, Piece
<1> HIDE DEF Body, Part1
<1>5. ASSUME bad # {} PROVE FALSE
  <2>1. bad \in SUBSET Nat
    BY <1>0
  <2>2. PICK m \in bad : \A k \in bad : m <= k
    <3> HIDE DEF bad
    <3> QED BY <1>5, <2>1, LeastElement
  <2>3. m \in 0..MaxNest /\ ~\E h : Upto(m, h)
    <3> HIDE DEF Upto
    <3> QED BY <2>2
  <2>4. CASE m = 0
    <3> DEFINE h == [e \in 0..0 |-> Body(0, 0)]
    <3>1. Upto(0, h)
      <4>1. h[0] = Body(0, 0) /\ Body(0, 0) = Body(h[0 - 1], 0)
        BY <1>1
      <4> QED BY <4>1
    <3> QED BY <2>3, <2>4, <3>1
  <2>5. CASE m # 0
    <3>1. m - 1 \in 0..MaxNest /\ ~(m <= m - 1) /\ m \in Nat
      BY <1>0, <2>3, <2>5
    <3>2. PICK h : Upto(m - 1, h)
      <4> HIDE DEF Upto
      <4> QED BY <2>2, <3>1
    <3> DEFINE G == [e \in 0..m |-> IF e = m THEN Body(h[m - 1], m) ELSE h[e]]
    <3>3. ASSUME NEW e \in 0..m PROVE G[e] = Body(G[e - 1], e)
      <4>1. CASE e = m
        <5>1. m - 1 \in 0..m /\ m - 1 # m /\ m \in 0..m
          BY <3>1, <2>5
        <5> QED BY <4>1, <5>1
      <4>2. CASE e # m /\ e = 0
        <5>1. 0 \in 0..m - 1 /\ 0 \in 0..m
          BY <3>1, <2>5
        <5>2. G[0] = h[0] /\ h[0] = Body(h[0 - 1], 0)
          BY <3>2, <4>2, <5>1
        <5> HIDE DEF G
        <5> QED BY <1>1, <4>2, <5>2
      <4>3. CASE e # m /\ e # 0
        <5>1. e \in 0..m - 1 /\ e - 1 \in 0..m /\ e - 1 # m
          BY <3>1, <4>3
        <5>2. G[e] = h[e] /\ h[e] = Body(h[e - 1], e) /\ G[e - 1] = h[e - 1]
          BY <3>2, <4>3, <5>1
        <5> QED BY <5>2
      <4> QED BY <4>1, <4>2, <4>3
    <3>4. Upto(m, G)
      BY <3>3
    <3> QED BY <2>3, <3>4
  <2> QED BY <2>4, <2>5
<1>6. PICK h : Upto(MaxNest, h)
  <2> HIDE DEF Upto
  <2> QED BY <1>0, <1>5
<1>7. h = [e \in 0..MaxNest |-> Body(h[e - 1], e)]
  BY <1>6
<1>8. Page = [e \in 0..MaxNest |-> Body(Page[e - 1], e)]
  BY <1>2, <1>7
<1>9. Page[d] = Body(Page[d - 1], d)
  BY <1>8
<1> QED BY <1>3, <1>4, <1>9

(* What a page is made of.                                                 *)
OutWord == Word \cup {NoFile}

LEMMA Regrouped == \A a, b, c \in Seq(OutWord) : (a \o b) \o c = a \o (b \o c)
  BY Regroup

(* The words of the parts of a file, and what was read and what was said   *)
(* when j of its parts are done.                                           *)
Runs(v, f) == [i \in 1..Len(Directory[v][f].parts) |-> Words(Directory[v][f].parts[i])]
Behind(v, f) == CHOOSE F : Joined(Word, Runs(v, f), F)
Spoken(v, f, d) == CHOOSE F : Joined(OutWord, Pieces(v, f, d), F)

TextOnly(v, f) ==
  \A i \in 1..Len(Directory[v][f].parts) : Directory[v][f].parts[i].kind = "text"
Told(v, f) == Directory[v][f].parsed \/ TextOnly(v, f)

LEMMA PartFacts ==
  ASSUME NEW v \in Images, NEW f \in Files(v)
  PROVE  /\ Len(Directory[v][f].parts) \in Nat
         /\ Directory[v][f].parsed \in BOOLEAN
         /\ \A i \in 1..Len(Directory[v][f].parts) :
              /\ Directory[v][f].parts[i] \in Parts
              /\ Directory[v][f].parts[i].kind = "call" =>
                   Output[Directory[v][f].parts[i].x] \in Seq(Texts)
<1>1. Directory[v][f] \in Entry
  BY WebImageAssumption DEF Files
<1>2. Directory[v][f].parts \in Seq(Parts) /\ Directory[v][f].parsed \in BOOLEAN
  BY <1>1 DEF Entry
<1>3. ASSUME NEW i \in 1..Len(Directory[v][f].parts), Directory[v][f].parts[i].kind = "call"
      PROVE  Output[Directory[v][f].parts[i].x] \in Seq(Texts)
  <2>1. Directory[v][f].parts[i].x \in DOMAIN Output
    BY <1>3, WebImageAssumption
  <2> QED BY <2>1, WebImageAssumption
<1> QED BY <1>2, <1>3

LEMMA RunFacts ==
  ASSUME NEW v \in Images, NEW f \in Files(v)
  PROVE  /\ Runs(v, f) \in Seq(Seq(Word)) /\ Len(Runs(v, f)) = Len(Directory[v][f].parts)
         /\ Joined(Word, Runs(v, f), Behind(v, f))
         /\ FileData[v][f] = Behind(v, f)[Len(Directory[v][f].parts)]
<1> DEFINE ps == Directory[v][f].parts
           n == Len(ps)
<1>1. n \in Nat
  BY PartFacts
<1>2. ASSUME NEW i \in 1..n PROVE Words(ps[i]) \in Seq(Word)
  <2> DEFINE p == ps[i]
  <2>1. p \in Parts /\ (p.kind = "call" => p.x \in DOMAIN Output)
    BY PartFacts, WebImageAssumption
  <2> HIDE DEF p
  <2>2. p \in Word /\ Mark \in Word
    BY <2>1, WordFacts DEF Word
  <2>3. <<p>> \in Seq(Word) /\ <<Mark, Mark>> \in Seq(Word) /\ <<Mark, p, Mark>> \in Seq(Word)
    BY <2>2
  <2>4. Words(p) \in {<<p>>, <<Mark, Mark>>, <<Mark, p, Mark>>}
    BY DEF Words
  <2>5. Words(p) \in Seq(Word)
    BY <2>3, <2>4
  <2> QED BY <2>5 DEF p
<1>3. Runs(v, f) = [i \in 1..n |-> Words(ps[i])]
  BY DEF Runs
<1>4. Runs(v, f) \in Seq(Seq(Word)) /\ Len(Runs(v, f)) = n
  <2> HIDE DEF n, ps
  <2> QED BY <1>1, <1>2, <1>3
<1>5. Joined(Word, Runs(v, f), Behind(v, f))
  BY <1>4, JoinedExists DEF Behind
<1>6. FileData[v][f] = FlattenSeq(Runs(v, f))
  BY DEF FileData, Runs
<1>7. FlattenSeq(Runs(v, f)) = Behind(v, f)[n]
  <2> HIDE DEF n
  <2> QED BY <1>4, <1>5, FlattenIsJoined
<1> QED BY <1>4, <1>5, <1>6, <1>7

LEMMA Included ==
  ASSUME NEW v \in Images, NEW p, IncludeOf(v, p) # 0
  PROVE  /\ IncludeOf(v, p) \in Files(v) /\ IncludeOf(v, p) = Find(v, p.x)
         /\ Named(v, p.x) # {} /\ ~Directory[v][Find(v, p.x)].zipped
<1>1. Named(v, p.x) # {} /\ IncludeOf(v, p) = Find(v, p.x) /\ ~Directory[v][Find(v, p.x)].zipped
  BY DEF IncludeOf
<1> DEFINE N == Named(v, p.x)
<1>2. N \subseteq Files(v) /\ N \in SUBSET Nat
  BY DEF Named, Files
<1>3. \E f \in N : \A g \in N : f <= g
  BY <1>1, <1>2, LeastElement
<1>4. Find(v, p.x) \in N
  BY <1>3 DEF Find
<1> QED BY <1>1, <1>2, <1>4

LEMMA PieceIn ==
  ASSUME NEW d, NEW v \in Images, NEW f \in Files(v),
         NEW i \in 1..Len(Directory[v][f].parts),
         Directory[v][f].parts[i].kind = "inc" =>
           \A g \in Files(v) : Page[d - 1][v][g] \in Seq(OutWord)
  PROVE  Piece(v, d, Directory[v][f].parts[i]) \in Seq(OutWord)
<1> DEFINE p == Directory[v][f].parts[i]
<1>1. p \in Parts /\ (p.kind = "call" => Output[p.x] \in Seq(Texts))
  BY PartFacts
<1>2. p.kind \in {"text", "tilde", "call", "inc"}
  BY <1>1 DEF Parts
<1> HIDE DEF p
<1>3. NoFile \in OutWord /\ Mark \in OutWord
  BY WordFacts DEF OutWord
<1>4. CASE p.kind = "text"
  <2>1. p \in OutWord
    BY <1>1, <1>4 DEF OutWord, Word
  <2> QED BY <1>4, <2>1 DEF Piece, p
<1>5. CASE p.kind = "tilde"
  BY <1>3, <1>5 DEF Piece, p
<1>6. CASE p.kind = "call"
  <2>1. Texts \subseteq OutWord
    BY DEF Texts, Word, Parts, OutWord
  <2>2. Output[p.x] \in Seq(OutWord)
    BY <1>1, <1>6, <2>1
  <2>3. Piece(v, d, p) = Output[p.x]
    BY <1>6 DEF Piece
  <2> QED BY <2>2, <2>3 DEF p
<1>7. CASE p.kind = "inc"
  <2>1. Piece(v, d, p) = IF IncludeOf(v, p) = 0 THEN <<NoFile>> ELSE Page[d - 1][v][IncludeOf(v, p)]
    BY <1>7 DEF Piece
  <2>2. IncludeOf(v, p) # 0 => Page[d - 1][v][IncludeOf(v, p)] \in Seq(OutWord)
    BY <1>7, Included DEF p
  <2>3. <<NoFile>> \in Seq(OutWord)
    BY <1>3
  <2> QED BY <2>1, <2>2, <2>3 DEF p
<1> QED BY <1>2, <1>4, <1>5, <1>6, <1>7

LEMMA PageWords ==
  ASSUME NEW d \in 0..MaxNest, NEW v \in Images, NEW f \in Files(v)
  PROVE  Page[d][v][f] \in Seq(OutWord)
<1> DEFINE Good(e) == \A u \in Images : \A g \in Files(u) : Page[e][u][g] \in Seq(OutWord)
           bad == {e \in 0..MaxNest : ~Good(e)}
<1>0. MaxNest \in Nat
  BY WebSrvAssumption
<1>1. ASSUME bad # {} PROVE FALSE
  <2>1. bad \in SUBSET Nat
    BY <1>0
  <2>2. PICK e \in bad : \A k \in bad : e <= k
    <3> HIDE DEF bad
    <3> QED BY <1>1, <2>1, LeastElement
  <2>3. e \in 0..MaxNest /\ ~Good(e)
    <3> HIDE DEF Good
    <3> QED BY <2>2
  <2>4a. PICK u \in Images : \E g \in Files(u) : Page[e][u][g] \notin Seq(OutWord)
    BY <2>3
  <2>4. PICK g \in Files(u) : Page[e][u][g] \notin Seq(OutWord)
    BY <2>4a
  <2>5. e # 0 => Good(e - 1)
    <3> HIDE DEF Good
    <3>1. e # 0 => e - 1 \in 0..MaxNest /\ ~(e <= e - 1)
      BY <1>0, <2>3
    <3> QED BY <2>2, <3>1
  <2>6. Page[e][u][g] = IF ~Fits[e][u][g] THEN <<>>
                        ELSE IF ~Directory[u][g].parsed THEN FileData[u][g]
                        ELSE FlattenSeq(Pieces(u, g, e))
    BY <2>3, PageRule
  <2>7. Fits[e][u][g] => e > 0
    BY <2>3, FitsRule
  <2>8. <<>> \in Seq(OutWord)
    OBVIOUS
  <2>9. FileData[u][g] \in Seq(OutWord)
    <3>1. Word \subseteq OutWord
      BY DEF OutWord
    <3> QED BY <3>1, FileWords
  <2>10. e > 0 => FlattenSeq(Pieces(u, g, e)) \in Seq(OutWord)
    <3> SUFFICES ASSUME e > 0 PROVE FlattenSeq(Pieces(u, g, e)) \in Seq(OutWord)
      OBVIOUS
    <3> DEFINE n == Len(Directory[u][g].parts)
    <3>1. \A i \in 1..n : Piece(u, e, Directory[u][g].parts[i]) \in Seq(OutWord)
      <4>1. \A x \in Files(u) : Page[e - 1][u][x] \in Seq(OutWord)
        BY <2>5
      <4> QED BY <4>1, PieceIn
    <3>2. n \in Nat
      BY PartFacts
    <3>3. Pieces(u, g, e) = [i \in 1..n |-> Piece(u, e, Directory[u][g].parts[i])]
      BY DEF Pieces
    <3> HIDE DEF n
    <3>4. Pieces(u, g, e) \in Seq(Seq(OutWord))
      BY <3>1, <3>2, <3>3
    <3> QED BY <3>4, FlattenFacts
  <2> QED BY <2>4, <2>6, <2>7, <2>8, <2>9, <2>10
<1>2. Good(d)
  <2> HIDE DEF Good
  <2> QED BY <1>1
<1> QED BY <1>2

LEMMA PieceFacts ==
  ASSUME NEW d \in 0..MaxNest, NEW v \in Images, NEW f \in Files(v), Fits[d][v][f], Told(v, f)
  PROVE  /\ Pieces(v, f, d) \in Seq(Seq(OutWord))
         /\ Len(Pieces(v, f, d)) = Len(Directory[v][f].parts)
         /\ Joined(OutWord, Pieces(v, f, d), Spoken(v, f, d))
         /\ Page[d][v][f] = Spoken(v, f, d)[Len(Directory[v][f].parts)]
         /\ d > 0
<1> DEFINE ps == Directory[v][f].parts
           n == Len(ps)
<1>0. n \in Nat /\ MaxNest \in Nat
  BY PartFacts, WebSrvAssumption
<1>1. d > 0
  BY FitsRule
<1>2. \A i \in 1..n : Piece(v, d, ps[i]) \in Seq(OutWord)
  <2>1. d - 1 \in 0..MaxNest
    BY <1>0, <1>1
  <2>2. \A g \in Files(v) : Page[d - 1][v][g] \in Seq(OutWord)
    BY <2>1, PageWords
  <2> QED BY <2>2, PieceIn
<1>3. Pieces(v, f, d) = [i \in 1..n |-> Piece(v, d, ps[i])]
  BY DEF Pieces
<1>4. Pieces(v, f, d) \in Seq(Seq(OutWord)) /\ Len(Pieces(v, f, d)) = n
  <2> HIDE DEF n, ps
  <2> QED BY <1>0, <1>2, <1>3
<1>5. Joined(OutWord, Pieces(v, f, d), Spoken(v, f, d))
  BY <1>4, JoinedExists DEF Spoken
<1>6. FlattenSeq(Pieces(v, f, d)) = Spoken(v, f, d)[n]
  <2> HIDE DEF n
  <2> QED BY <1>4, <1>5, FlattenIsJoined
<1>7. Page[d][v][f] = FlattenSeq(Pieces(v, f, d))
  <2>1. CASE Directory[v][f].parsed
    BY <2>1, PageRule
  <2>2. CASE ~Directory[v][f].parsed
    <3>1. Page[d][v][f] = FileData[v][f]
      BY <2>2, PageRule
    <3>2. \A i \in 1..n : ps[i].kind = "text"
      BY <2>2 DEF Told, TextOnly
    <3>3. \A i \in 1..n : Words(ps[i]) = Piece(v, d, ps[i])
      BY <3>2 DEF Words, Piece
    <3>4. Runs(v, f) = Pieces(v, f, d)
      <4>1. Runs(v, f) = [i \in 1..n |-> Words(ps[i])]
        BY DEF Runs
      <4> HIDE DEF n, ps
      <4> QED BY <1>3, <3>3, <4>1
    <3>5. FileData[v][f] = FlattenSeq(Runs(v, f))
      BY DEF FileData, Runs
    <3> QED BY <3>1, <3>4, <3>5
  <2> QED BY <2>1, <2>2
<1> QED BY <1>1, <1>4, <1>5, <1>6, <1>7

(* The next part of a file of which j are done: where its words are, and   *)
(* what it becomes.                                                        *)
NextPart(v, f, d, j) ==
  LET p == Directory[v][f].parts[j + 1]
      q == Len(Behind(v, f)[j])
      D == FileData[v][f]
      piece == Pieces(v, f, d)[j + 1]
  IN /\ p.kind \in {"text", "tilde", "call", "inc"}
     /\ piece \in Seq(OutWord) /\ piece = Piece(v, d, p)
     /\ Spoken(v, f, d)[j + 1] = Spoken(v, f, d)[j] \o piece
     /\ p.kind = "text" =>
          q + 1 <= Len(D) /\ D[q + 1] = p /\ Len(Behind(v, f)[j + 1]) = q + 1
     /\ p.kind = "tilde" =>
          /\ q + 2 <= Len(D) /\ D[q + 1] = Mark /\ D[q + 2] = Mark
          /\ Len(Behind(v, f)[j + 1]) = q + 2
     /\ p.kind \in {"call", "inc"} =>
          /\ q + 3 <= Len(D) /\ D[q + 1] = Mark /\ D[q + 2] = p /\ D[q + 3] = Mark
          /\ Len(Behind(v, f)[j + 1]) = q + 3

LEMMA Progress ==
  ASSUME NEW d \in 0..MaxNest, NEW v \in Images, NEW f \in Files(v), Fits[d][v][f], Told(v, f)
  PROVE  LET n == Len(Directory[v][f].parts)
         IN /\ n \in Nat
            /\ Behind(v, f)[0] = <<>> /\ Spoken(v, f, d)[0] = <<>>
            /\ \A j \in 0..n : /\ Spoken(v, f, d)[j] \in Seq(OutWord)
                               /\ Begins(Spoken(v, f, d)[j], Page[d][v][f])
                               /\ Len(Behind(v, f)[j]) \in Nat
                               /\ Len(Behind(v, f)[j]) <= Len(FileData[v][f])
            /\ Len(Behind(v, f)[n]) = Len(FileData[v][f])
            /\ Spoken(v, f, d)[n] = Page[d][v][f]
            /\ \A j \in 0..n - 1 : NextPart(v, f, d, j)
<1> DEFINE n == Len(Directory[v][f].parts)
           B == Behind(v, f)
           P == Spoken(v, f, d)
           R == Runs(v, f)
           Q == Pieces(v, f, d)
           D == FileData[v][f]
<1>1. /\ n \in Nat /\ R \in Seq(Seq(Word)) /\ Len(R) = n /\ Joined(Word, R, B) /\ D = B[n]
      /\ Q \in Seq(Seq(OutWord)) /\ Len(Q) = n /\ Joined(OutWord, Q, P) /\ Page[d][v][f] = P[n]
  BY PartFacts, RunFacts, PieceFacts
<1>2. B \in [0..n -> Seq(Word)] /\ B[0] = <<>> /\ P \in [0..n -> Seq(OutWord)] /\ P[0] = <<>>
  BY <1>1 DEF Joined
<1> HIDE DEF B, P, R, Q, D, n
<1>3. ASSUME NEW j \in 0..n
      PROVE  /\ P[j] \in Seq(OutWord) /\ Begins(P[j], P[n])
             /\ Len(B[j]) \in Nat /\ Len(B[j]) <= Len(D)
  <2>1. n \in 0..n /\ B[j] \in Seq(Word) /\ P[j] \in Seq(OutWord)
    BY <1>1, <1>2
  <2>2. Begins(P[j], P[n]) /\ Begins(B[j], B[n])
    BY <1>1, <2>1, JoinedBegins
  <2> QED BY <1>1, <2>1, <2>2 DEF Begins
<1>4. ASSUME NEW j \in 0..n - 1 PROVE NextPart(v, f, d, j)
  <2> DEFINE p == Directory[v][f].parts[j + 1]
             q == Len(B[j])
             piece == Q[j + 1]
             run == R[j + 1]
             b == Len(B[j + 1])
  <2>1. j + 1 \in 1..n /\ (j + 1) - 1 = j /\ j \in 0..n
    BY <1>1
  <2>2. p \in Parts /\ p.kind \in {"text", "tilde", "call", "inc"}
    <3>1. p \in Parts
      BY <2>1, PartFacts DEF n
    <3> QED BY <3>1 DEF Parts
  <2>3. piece = Piece(v, d, p) /\ run = Words(p)
    BY <2>1 DEF Q, R, Pieces, Runs, n
  <2>4. piece \in Seq(OutWord) /\ P[j + 1] = P[j] \o piece
    <3>1. piece \in Seq(OutWord)
      BY <1>1, <2>1
    <3>2. P[j + 1] = P[(j + 1) - 1] \o Q[j + 1]
      BY <1>1, <2>1 DEF Joined
    <3> QED BY <2>1, <3>1, <3>2
  <2>5. b = q + Len(run) /\ b <= Len(D) /\ Within(run, q, D) /\ q \in Nat
    <3>1. /\ Len(B[j + 1]) = Len(B[(j + 1) - 1]) + Len(R[j + 1]) /\ Len(B[j + 1]) <= Len(B[Len(R)])
          /\ Within(R[j + 1], Len(B[(j + 1) - 1]), B[Len(R)])
      <4> DEFINE i == j + 1
      <4>1. i \in 1..Len(R)
        BY <1>1, <2>1
      <4> HIDE DEF i
      <4>2. /\ Len(B[i]) = Len(B[i - 1]) + Len(R[i]) /\ Len(B[i]) <= Len(B[Len(R)])
            /\ Within(R[i], Len(B[i - 1]), B[Len(R)])
        BY Zenon, <1>1, <4>1, JoinedAt
      <4> QED BY <4>2 DEF i
    <3> QED BY <1>1, <1>3, <2>1, <3>1
  <2> HIDE DEF p, q, piece, run, b
  <2>6. ASSUME p.kind = "text"
        PROVE  q + 1 <= Len(D) /\ D[q + 1] = p /\ b = q + 1
    <3>1. run = <<p>>
      BY <2>3, <2>6 DEF Words
    <3> QED BY <2>5, <3>1 DEF Within
  <2>7. ASSUME p.kind = "tilde"
        PROVE  q + 2 <= Len(D) /\ D[q + 1] = Mark /\ D[q + 2] = Mark /\ b = q + 2
    <3>1. run = <<Mark, Mark>>
      BY <2>3, <2>7 DEF Words
    <3>2. Len(run) = 2 /\ run[1] = Mark /\ run[2] = Mark
      BY <3>1
    <3> HIDE DEF Within
    <3>3. 1 \in 1..Len(run) /\ 2 \in 1..Len(run)
      BY <3>2
    <3>4. D[q + 1] = run[1] /\ D[q + 2] = run[2]
      BY <2>5, <3>3 DEF Within
    <3> QED BY <2>5, <3>2, <3>4
  <2>8. ASSUME p.kind \in {"call", "inc"}
        PROVE  q + 3 <= Len(D) /\ D[q + 1] = Mark /\ D[q + 2] = p /\ D[q + 3] = Mark /\ b = q + 3
    <3>1. run = <<Mark, p, Mark>>
      BY <2>3, <2>8 DEF Words
    <3>2. Len(run) = 3 /\ run[1] = Mark /\ run[2] = p /\ run[3] = Mark
      BY <3>1
    <3>3. 1 \in 1..Len(run) /\ 2 \in 1..Len(run) /\ 3 \in 1..Len(run)
      BY <3>2
    <3>4. D[q + 1] = run[1] /\ D[q + 2] = run[2] /\ D[q + 3] = run[3]
      BY <2>5, <3>3 DEF Within
    <3> QED BY <2>5, <3>2, <3>4
  <2> QED BY <2>2, <2>3, <2>4, <2>6, <2>7, <2>8 DEF NextPart, p, q, piece, run, b, B, P, Q, R, D
<1> QED BY <1>1, <1>2, <1>3, <1>4 DEF n, B, P, D
-----------------------------------------------------------------------------
Count(v, f, j) == j \in 0..Len(Directory[v][f].parts)

(* The disk is that of one image.                                          *)
HoldsAll(v) == numFiles # None /\ \A b \in 0..Blocks(v) - 1 : disk[b] = v

(* What is read of a file from its word q on.                              *)
IsRead(v, f, q, n, buf) ==
  /\ q \in Nat /\ q <= Len(FileData[v][f])
  /\ buf \in Seq(Word)
  /\ Len(buf) = IF n < Len(FileData[v][f]) - q THEN n ELSE Len(FileData[v][f]) - q
  /\ \A i \in 1..Len(buf) : buf[i] = FileData[v][f][q + i]

LEMMA Slice ==
  ASSUME NEW v \in Images, HoldsAll(v), NEW f \in Files(v), NEW st, NEW h,
         NEW p \in Nat, p <= Len(FileData[v][f]), st[h] = At(v, f, p), NEW n \in Nat
  PROVE  IsRead(v, f, p, n, GetArray(st, h, n))
<1> DEFINE D == FileData[v][f]
           L == Len(D)
           buf == GetArray(st, h, n)
           m == IF n < L - p THEN n ELSE L - p
           a == FileAddr[v][f]
           I == ImageData[v]
<1>1. D \in Seq(Word) /\ L \in Nat /\ I \in Seq(Word) /\ a \in Nat /\ a + L <= Len(I) /\ p <= L
  BY FileWords, FilePlaces
<1>2. \A i \in 1..L : I[a + i] = D[i]
  BY FilePlaces
<1>3. st[h] # Free /\ st[h].addr = a + p /\ st[h].rem = L - p
  BY OpenIsNotFree DEF At
<1>4. \A k \in Nat : k < Len(I) => k \div BlockWords \in 0..Blocks(v) - 1
  BY BlockFacts
<1>5. buf = [i \in 1..m |-> WordAt(a + p + i - 1)]
  BY <1>3 DEF GetArray, GetLen
<1> HIDE DEF a, I, L, buf
<1>6. m \in Nat /\ m <= L - p
  BY <1>1
<1> HIDE DEF m
<1>7. ASSUME NEW i \in 1..m PROVE WordAt(a + p + i - 1) = D[p + i] /\ D[p + i] \in Word
  <2> DEFINE k == a + p + i - 1
  <2>1. k \in Nat /\ k < Len(I) /\ k + 1 = a + (p + i) /\ p + i \in 1..L
    BY <1>1, <1>6
  <2> HIDE DEF k
  <2>2. disk[k \div BlockWords] = v
    BY <1>4, <2>1 DEF HoldsAll
  <2>3. WordAt(k) = IF v = None \/ k >= Len(I) THEN Junk ELSE I[k + 1]
    BY <2>2 DEF WordAt, I
  <2>4. WordAt(k) = I[k + 1]
    BY <1>1, <2>1, <2>3, WebFSAssumption
  <2>5. I[k + 1] = D[p + i]
    BY <1>2, <2>1
  <2>6. D[p + i] \in Word
    BY <1>1, <2>1 DEF L
  <2> QED BY <2>4, <2>5, <2>6 DEF k
<1> HIDE DEF D
<1>8. buf \in Seq(Word) /\ Len(buf) = m /\ \A i \in 1..m : buf[i] = D[p + i]
  BY <1>5, <1>6, <1>7
<1>9. IsRead(v, f, p, n, buf)
  BY <1>1, <1>8 DEF IsRead, m, D, L
<1> QED BY <1>9 DEF buf

(* A run of words without a mark is as many parts that are text.           *)
GoesBy(v, f, d, j, m, out) ==
  /\ Count(v, f, j + m) /\ j + m \in Nat
  /\ Len(Behind(v, f)[j + m]) = Len(Behind(v, f)[j]) + m
  /\ Spoken(v, f, d)[j + m] = Spoken(v, f, d)[j] \o out
LEMMA RunOfTexts ==
  ASSUME NEW d \in 0..MaxNest, NEW v \in Images, NEW f \in Files(v), Fits[d][v][f], Told(v, f),
         NEW j \in 0..Len(Directory[v][f].parts), NEW buf \in Seq(Word),
         Len(Behind(v, f)[j]) + Len(buf) <= Len(FileData[v][f]),
         \A i \in 1..Len(buf) : buf[i] = FileData[v][f][Len(Behind(v, f)[j]) + i],
         NEW m \in 0..Len(buf), \A i \in 1..m : buf[i] # Mark
  PROVE  GoesBy(v, f, d, j, m, SubSeq(buf, 1, m))
<1> DEFINE n == Len(Directory[v][f].parts)
           B == Behind(v, f)
           P == Spoken(v, f, d)
           D == FileData[v][f]
           L == Len(D)
           q == Len(B[j])
<1>1. /\ n \in Nat /\ Len(B[n]) = L /\ q \in Nat /\ P[j] \in Seq(OutWord)
      /\ \A i \in 0..n - 1 : NextPart(v, f, d, i)
  BY Zenon, Progress
<1>2. ASSUME NEW i \in 0..n - 1, D[Len(B[i]) + 1] # Mark
      PROVE  /\ Len(B[i + 1]) = Len(B[i]) + 1
             /\ P[i + 1] = P[i] \o <<D[Len(B[i]) + 1]>>
  <2> DEFINE p == Directory[v][f].parts[i + 1]
  <2>1. NextPart(v, f, d, i)
    BY <1>1
  <2>2. p.kind = "text"
    BY <1>2, <2>1 DEF NextPart
  <2>3. /\ D[Len(B[i]) + 1] = p /\ Len(B[i + 1]) = Len(B[i]) + 1
        /\ P[i + 1] = P[i] \o Piece(v, d, p)
    BY <2>1, <2>2 DEF NextPart
  <2>4. Piece(v, d, p) = <<p>>
    BY <2>2 DEF Piece
  <2> QED BY <2>3, <2>4
<1>3. Len(buf) \in Nat /\ Len(buf) <= L - q /\ L \in Nat
  BY <1>1, FileWords
<1>4. \A i \in 1..Len(buf) : buf[i] = D[q + i]
  OBVIOUS
<1> HIDE DEF n, B, P, D, L, q
<1> DEFINE Good(k) == /\ j + k \in 0..n /\ Len(B[j + k]) = q + k
                      /\ P[j + k] = P[j] \o SubSeq(buf, 1, k)
           bad == {k \in 0..m : ~Good(k)}
<1>5. ASSUME bad # {} PROVE FALSE
  <2>1. bad \in SUBSET Nat
    BY <1>3
  <2>2. PICK k \in bad : \A i \in bad : k <= i
    <3> HIDE DEF bad
    <3> QED BY <1>5, <2>1, LeastElement
  <2>3. k \in 0..m /\ ~Good(k)
    <3> HIDE DEF Good
    <3> QED BY <2>2
  <2>4. k # 0
    <3> SUFFICES ASSUME k = 0 PROVE FALSE
      OBVIOUS
    <3>1. SubSeq(buf, 1, 0) = <<>> /\ P[j] \o <<>> = P[j] /\ j + 0 = j
      BY <1>1 DEF n
    <3>2. j \in 0..n /\ Len(B[j]) = q + 0
      BY <1>1 DEF n, q
    <3>3. Good(0)
      BY <3>1, <3>2
    <3> QED BY <2>3, <3>3
  <2>5. k - 1 \in 0..m /\ ~(k <= k - 1) /\ k \in 1..Len(buf) /\ k \in 1..m
    BY <1>3, <2>3, <2>4
  <2>6. Good(k - 1)
    <3> HIDE DEF Good
    <3> QED BY <2>2, <2>5
  <2> DEFINE i == j + (k - 1)
  <2>7. i \in 0..n /\ Len(B[i]) = q + (k - 1) /\ P[i] = P[j] \o SubSeq(buf, 1, k - 1)
    BY <2>6
  <2>8. i + 1 = j + k /\ j \in Nat
    BY <2>5 DEF n
  <2> HIDE DEF i
  <2>9. i # n
    BY <1>1, <1>3, <2>5, <2>7
  <2>10. i \in 0..n - 1 /\ i + 1 \in 0..n
    BY <1>1, <2>7, <2>9
  <2>11. D[Len(B[i]) + 1] = buf[k] /\ buf[k] # Mark
    <3>1. Len(B[i]) + 1 = q + k
      BY <1>1, <2>5, <2>7
    <3> QED BY <1>4, <2>5, <3>1
  <2>12. Len(B[i + 1]) = Len(B[i]) + 1 /\ P[i + 1] = P[i] \o <<buf[k]>>
    BY <1>2, <2>10, <2>11
  <2>13. P[i + 1] = P[j] \o SubSeq(buf, 1, k)
    <3> DEFINE s == SubSeq(buf, 1, k - 1)
               e == buf[k]
               u == P[j]
    <3>1. SubSeq(buf, 1, k) = s \o <<e>> /\ s \in Seq(OutWord) /\ e \in OutWord
      <4>1. buf \in Seq(OutWord)
        BY DEF OutWord
      <4>2. s \in Seq(OutWord) /\ Len(s) = k - 1 /\ e \in OutWord /\ \A x \in 1..k - 1 : s[x] = buf[x]
        BY <2>5, <4>1
      <4> DEFINE x == SubSeq(buf, 1, k)
                 y == s \o <<e>>
      <4>3. x \in Seq(OutWord) /\ Len(x) = k /\ \A z \in 1..k : x[z] = buf[z]
        BY <2>5, <4>1
      <4> HIDE DEF s, x
      <4>4. y \in Seq(OutWord) /\ Len(y) = k /\ y[k] = e /\ \A z \in 1..k - 1 : y[z] = s[z]
        BY SMTT(30), <2>5, <4>2
      <4> HIDE DEF y
      <4>5. \A z \in 1..k : x[z] = y[z]
        <5>1. \A z \in 1..k : z = k \/ z \in 1..k - 1
          BY <2>5
        <5> QED BY <4>2, <4>3, <4>4, <5>1
      <4>6. x = y
        BY <4>3, <4>4, <4>5
      <4> QED BY <4>2, <4>6 DEF x, y
    <3>2. u \in Seq(OutWord)
      BY <1>1
    <3> HIDE DEF s, e, u
    <3>3. (u \o s) \o <<e>> = u \o (s \o <<e>>)
      <4>1. <<e>> \in Seq(OutWord)
        BY <3>1
      <4> DEFINE t == <<e>>
      <4>2. t \in Seq(OutWord) /\ s \in Seq(OutWord) /\ u \in Seq(OutWord)
        BY Zenon, <3>1, <3>2, <4>1
      <4> HIDE DEF t
      <4>3. (u \o s) \o t = u \o (s \o t)
        BY Zenon, <4>2, Regrouped
      <4> QED BY <4>3 DEF t
    <3> QED BY <2>7, <2>12, <3>1, <3>3 DEF s, e, u
  <2>14. Good(k)
    <3>1. j + k \in 0..n /\ P[j + k] = P[j] \o SubSeq(buf, 1, k)
      BY <2>8, <2>10, <2>13
    <3>2. Len(B[i + 1]) = q + k
      BY <1>1, <2>5, <2>7, <2>12
    <3>3. Len(B[j + k]) = q + k
      BY <2>8, <3>2
    <3> QED BY <3>1, <3>3
  <2> QED BY <2>3, <2>14
<1>6. Good(m)
  <2> HIDE DEF Good
  <2>1. m \in 0..m
    BY <1>3
  <2> QED BY <1>5, <2>1
<1>7. j + m \in Nat
  BY <1>1, <1>6
<1> QED BY <1>6, <1>7 DEF n, B, P, q, GoesBy, Count

(* Behind such a run: the end of the file, or a part that is not text.     *)
LEMMA BehindRun ==
  ASSUME NEW d \in 0..MaxNest, NEW v \in Images, NEW f \in Files(v), Fits[d][v][f], Told(v, f),
         NEW j \in 0..Len(Directory[v][f].parts)
  PROVE  LET q == Len(Behind(v, f)[j])
         IN /\ q = Len(FileData[v][f]) => j = Len(Directory[v][f].parts)
            /\ q < Len(FileData[v][f]) => j < Len(Directory[v][f].parts)
            /\ (q < Len(FileData[v][f]) /\ FileData[v][f][q + 1] = Mark) =>
                 Directory[v][f].parts[j + 1].kind # "text"
<1> DEFINE n == Len(Directory[v][f].parts)
           q == Len(Behind(v, f)[j])
           D == FileData[v][f]
           p == Directory[v][f].parts[j + 1]
<1>1. n \in Nat /\ Len(Behind(v, f)[n]) = Len(D) /\ q \in Nat /\ Len(D) \in Nat
  BY Progress, FileWords
<1>2. j # n => NextPart(v, f, d, j) /\ j < n
  <2>1. j # n => j \in 0..n - 1
    BY <1>1
  <2> QED BY <1>1, <2>1, Progress
<1>3. NextPart(v, f, d, j) => q < Len(D)
  <2> DEFINE L == Len(D)
  <2>1. NextPart(v, f, d, j) => q + 1 <= L \/ q + 2 <= L \/ q + 3 <= L
    <3>1. NextPart(v, f, d, j) => p.kind \in {"text", "tilde", "call", "inc"}
      BY DEF NextPart
    <3>2. (NextPart(v, f, d, j) /\ p.kind = "text") => q + 1 <= L
      BY DEF NextPart
    <3>3. (NextPart(v, f, d, j) /\ p.kind = "tilde") => q + 2 <= L
      BY DEF NextPart
    <3>4. (NextPart(v, f, d, j) /\ p.kind \in {"call", "inc"}) => q + 3 <= L
      BY DEF NextPart
    <3> HIDE DEF p, q, L
    <3> QED BY <3>1, <3>2, <3>3, <3>4
  <2>2. q \in Nat /\ L \in Nat
    BY <1>1
  <2> HIDE DEF q, L
  <2>3. NextPart(v, f, d, j) => q < L
    BY <2>1, <2>2
  <2> QED BY <2>3 DEF L
<1>4. (NextPart(v, f, d, j) /\ p.kind = "text") => D[q + 1] # Mark
  BY WordFacts DEF NextPart
<1> HIDE DEF n, q, D, p
<1>5. q = Len(D) => j = n
  BY <1>1, <1>2, <1>3
<1>6. q < Len(D) => j < n
  <2>1. j = n => q = Len(D)
    BY <1>1 DEF q, n
  <2> QED BY <1>1, <1>2, <2>1
<1>7. (q < Len(D) /\ D[q + 1] = Mark) => p.kind # "text"
  BY <1>1, <1>2, <1>4, <1>6
<1> QED BY <1>5, <1>6, <1>7 DEF n, q, D, p
-----------------------------------------------------------------------------
(* The files that are open for a page of image v.  Of k files the one in   *)
(* place i is done up to e = fr[i]: done parts of it, before which the     *)
(* page said before.  The file in place i - 1 is the next part of it.      *)
Depth(k, i) == MaxNest + 1 + i - k
Begun(f, j, said) == [file |-> f, done |-> j, before |-> said]
IsFrame(v, d, whole, e) ==
  /\ e = Begun(e.file, e.done, e.before)
  /\ e.file \in Files(v) /\ Told(v, e.file) /\ Fits[d][v][e.file]
  /\ e.done \in 0..Len(Directory[v][e.file].parts)
  /\ e.before \in Seq(OutWord)
  /\ Begins(e.before \o Page[d][v][e.file], whole)
Includes(v, d, e, g) ==
  /\ e.done < Len(Directory[v][e.file].parts)
  /\ Directory[v][e.file].parts[e.done + 1].kind = "inc"
  /\ IncludeOf(v, Directory[v][e.file].parts[e.done + 1]) = g.file
  /\ g.before = e.before \o Spoken(v, e.file, d)[e.done]
Reads(v, e, b) == At(v, e.file, Len(Behind(v, e.file)[e.done]) + b)
Resumes(v, e) == At(v, e.file, Len(Behind(v, e.file)[e.done + 1]))

Stack(v, whole, w, k, fr) ==
  /\ k \in 1..MaxNest
  /\ \A i \in 0..k - 1 : w.files[i] \in Handles /\ IsFrame(v, Depth(k, i), whole, fr[i])
  /\ \A i \in 1..k - 1 : /\ Includes(v, Depth(k, i), fr[i], fr[i - 1])
                         /\ w.stub[w.files[i]] = Resumes(v, fr[i])
  /\ \A i \in k..MaxNest - 1 : w.files[i] = Invalid
  /\ fr[k - 1].before = <<>> /\ Page[MaxNest][v][fr[k - 1].file] = whole

(* Parts of a file, the next part of which is file g, and w when file g    *)
(* was opened through h.                                                   *)
NextFile(v, e, g) ==
  /\ e.done < Len(Directory[v][e.file].parts)
  /\ Directory[v][e.file].parts[e.done + 1].kind = "inc"
  /\ g = IncludeOf(v, Directory[v][e.file].parts[e.done + 1]) /\ g # 0
Pushes(v, w, u, h, g) ==
  /\ h \in Handles /\ w.stub[h] = Free /\ u.stub[h] = At(v, g, 0)
  /\ u.files = [i \in Slots |-> IF i = 0 THEN h ELSE w.files[i - 1]]
  /\ w.files[MaxNest - 1] = Invalid => \A x \in Handles \ {h} : u.stub[x] = w.stub[x]
Same(w, u) ==
  /\ u.files = w.files
  /\ \A h \in Handles \ {w.files[0]} : u.stub[h] = w.stub[h]

LEMMA Depths ==
  ASSUME NEW k \in 1..MaxNest
  PROVE  /\ MaxNest \in Nat /\ k \in Nat /\ k - 1 \in 0..k - 1 /\ 0 \in 0..k - 1
         /\ \A i \in 0..k - 1 : Depth(k, i) \in 1..MaxNest /\ Depth(k, i) \in 0..MaxNest /\ i \in Slots
         /\ \A i \in 1..k - 1 : Depth(k, i) - 1 = Depth(k, i - 1) /\ i \in Slots /\ i - 1 \in 0..k - 1
         /\ Depth(k, k - 1) = MaxNest /\ Depth(k, 0) = MaxNest + 1 - k
<1>1. MaxNest \in Nat /\ k \in Nat
  BY WebSrvAssumption
<1> QED BY <1>1 DEF Depth, Slots

(* Parts of the innermost file are done.                                   *)
LEMMA DoneOn ==
  ASSUME NEW v \in Images, NEW whole, NEW w, NEW k, NEW fr, Stack(v, whole, w, k, fr), Own(w),
         NEW w2, Same(w, w2), NEW j, Count(v, fr[0].file, j)
  PROVE  \E fs : /\ Stack(v, whole, w2, k, fs)
                 /\ fs[0] = Begun(fr[0].file, j, fr[0].before)
<1> DEFINE e == Begun(fr[0].file, j, fr[0].before)
           fs == [i \in 0..k - 1 |-> IF i = 0 THEN e ELSE fr[i]]
<1>1. k \in 1..MaxNest
  BY DEF Stack
<1>2. fs[0] = e /\ (\A i \in 1..k - 1 : fs[i] = fr[i])
  BY <1>1, Depths
<1>3. e.file = fr[0].file /\ e.before = fr[0].before /\ e.done = j /\ e = Begun(e.file, e.done, e.before)
  BY DEF Begun
<1> HIDE DEF fs, e
<1>4. ASSUME NEW i \in 0..k - 1
      PROVE  w2.files[i] \in Handles /\ IsFrame(v, Depth(k, i), whole, fs[i])
  <2>1. w.files[i] \in Handles /\ IsFrame(v, Depth(k, i), whole, fr[i])
    BY DEF Stack
  <2>2. CASE i = 0
    <3>1. IsFrame(v, Depth(k, i), whole, e)
      BY <1>3, <2>1, <2>2 DEF IsFrame, Count
    <3> QED BY <1>2, <2>1, <2>2, <3>1 DEF Same
  <2>3. CASE i # 0
    <3>1. i \in 1..k - 1
      BY <1>1, <2>3, Depths
    <3> QED BY <1>2, <2>1, <3>1 DEF Same
  <2> QED BY <2>2, <2>3
<1>5. ASSUME NEW i \in 1..k - 1
      PROVE  /\ Includes(v, Depth(k, i), fs[i], fs[i - 1])
             /\ w2.stub[w2.files[i]] = Resumes(v, fs[i])
  <2>1. Includes(v, Depth(k, i), fr[i], fr[i - 1]) /\ w.stub[w.files[i]] = Resumes(v, fr[i])
    BY DEF Stack
  <2>2. w.files[i] \in Handles /\ w.files[i] # w.files[0]
    <3>1. i \in 0..k - 1 /\ i \in Slots /\ 0 \in Slots /\ i # 0
      BY <1>1, Depths
    <3>2. w.files[i] \in Handles
      BY <3>1 DEF Stack
    <3> QED BY <3>1, <3>2 DEF Own
  <2>3. fs[i - 1].file = fr[i - 1].file /\ fs[i - 1].before = fr[i - 1].before
    <3>1. i - 1 = 0 \/ i - 1 \in 1..k - 1
      <4>1. k \in Nat
        BY Zenon, <1>1, Depths
      <4> QED BY <4>1
    <3> QED BY <1>2, <1>3, <3>1
  <2>4. Includes(v, Depth(k, i), fs[i], fs[i - 1])
    BY Zenon, <1>2, <2>1, <2>3 DEF Includes
  <2> QED BY <1>2, <2>1, <2>2, <2>4 DEF Same
<1>6. fs[k - 1].file = fr[k - 1].file /\ fs[k - 1].before = fr[k - 1].before
  <2>1. k - 1 = 0 \/ k - 1 \in 1..k - 1
    BY <1>1, Depths
  <2> QED BY <1>2, <1>3, <2>1
<1>6a. \A i \in k..MaxNest - 1 : w2.files[i] = Invalid
  BY DEF Stack, Same
<1>6b. fs[k - 1].before = <<>> /\ Page[MaxNest][v][fs[k - 1].file] = whole
  BY <1>6 DEF Stack
<1>7. Stack(v, whole, w2, k, fs)
  BY <1>1, <1>4, <1>5, <1>6a, <1>6b DEF Stack
<1> QED BY <1>2, <1>7 DEF e

(* What the page has said when j parts of a file are done is the beginning *)
(* of the page.                                                            *)
LEMMA SaidBegins ==
  ASSUME NEW v \in Images, NEW d \in 0..MaxNest, NEW whole \in Seq(OutWord), NEW e,
         IsFrame(v, d, whole, e)
  PROVE  /\ e.before \o Spoken(v, e.file, d)[e.done] \in Seq(OutWord)
         /\ Begins(e.before \o Spoken(v, e.file, d)[e.done], whole)
<1> DEFINE s == Spoken(v, e.file, d)[e.done]
           p == Page[d][v][e.file]
           b == e.before
<1>1. s \in Seq(OutWord) /\ Begins(s, p) /\ p \in Seq(OutWord)
  BY Progress, PageWords DEF IsFrame
<1>2. b \in Seq(OutWord) /\ Begins(b \o p, whole)
  BY DEF IsFrame
<1> HIDE DEF s, p, b
<1>3. Begins(b \o s, b \o p)
  BY <1>1, <1>2, BeginsOn
<1>4. b \o s \in Seq(OutWord) /\ b \o p \in Seq(OutWord)
  BY <1>1, <1>2
<1>5. Begins(b \o s, whole)
  <2> DEFINE x == b \o s
             y == b \o p
  <2>1. x \in Seq(OutWord) /\ y \in Seq(OutWord) /\ Begins(x, y) /\ Begins(y, whole)
    BY <1>2, <1>3, <1>4
  <2> HIDE DEF x, y
  <2>2. Begins(x, whole)
    BY <2>1, BeginsOn
  <2> QED BY <2>2 DEF x
<1> QED BY <1>4, <1>5 DEF s, b

(* A file is included: it is the innermost now.                            *)
LEMMA Pushed ==
  ASSUME NEW v \in Images, NEW whole \in Seq(OutWord), NEW w, NEW k, NEW fr,
         Stack(v, whole, w, k, fr), Own(w),
         NEW g, NextFile(v, fr[0], g), Told(v, g),
         NEW h, NEW u, Pushes(v, w, u, h, g), w.stub[w.files[0]] = Resumes(v, fr[0])
  PROVE  /\ k < MaxNest
         /\ \E fs : /\ Stack(v, whole, u, k + 1, fs)
                    /\ fs[0] = Begun(g, 0, fr[0].before \o Spoken(v, fr[0].file, Depth(k, 0))[fr[0].done])
<1> DEFINE a == fr[0]
           d == Depth(k, 0)
           said == a.before \o Spoken(v, a.file, d)[a.done]
           e == Begun(g, 0, said)
           fs == [i \in 0..k |-> IF i = 0 THEN e ELSE fr[i - 1]]
           n == Len(Directory[v][a.file].parts)
<1>1. k \in 1..MaxNest /\ MaxNest \in Nat /\ k \in Nat
  BY Depths DEF Stack
<1>2. IsFrame(v, d, whole, a) /\ w.files[0] \in Handles /\ d \in 1..MaxNest /\ d = MaxNest + 1 - k
  BY <1>1, Depths DEF Stack
<1>3. a.file \in Files(v) /\ Told(v, a.file) /\ Fits[d][v][a.file] /\ a.done \in 0..n /\ n \in Nat
  BY Zenon, <1>2, PartFacts DEF IsFrame
<1>3a. /\ a.done < n /\ Directory[v][a.file].parts[a.done + 1].kind = "inc"
       /\ g = IncludeOf(v, Directory[v][a.file].parts[a.done + 1]) /\ g # 0
  BY Zenon DEF NextFile
<1>4. d \in 0..MaxNest /\ d - 1 \in 0..MaxNest /\ a.done + 1 \in 1..n /\ a.done \in 0..n - 1
  <2> DEFINE x == a.done
  <2>1. x \in 0..n /\ x < n /\ n \in Nat
    BY Zenon, <1>3, <1>3a
  <2> HIDE DEF n, d, x
  <2>2. x + 1 \in 1..n /\ x \in 0..n - 1
    BY <2>1
  <2>3. d \in 0..MaxNest /\ d - 1 \in 0..MaxNest
    BY <1>1, <1>2
  <2> QED BY Zenon, <2>2, <2>3 DEF x
<1>5. g \in Files(v)
  BY Zenon, <1>3a, Included
<1>6. Directory[v][a.file].parsed
  BY Zenon, <1>3, <1>3a, <1>4 DEF Told, TextOnly
<1> HIDE DEF d, a, n
<1>7. Fits[d - 1][v][g]
  <2>1. IncludesFit(d, v, a.file)
    BY <1>3, <1>4, FitsRule
  <2> QED BY Zenon, <1>3a, <1>4, <1>6, <2>1 DEF IncludesFit, n
<1>8. d - 1 > 0
  BY <1>4, <1>5, <1>7, FitsRule
<1>9. k < MaxNest
  BY <1>1, <1>2, <1>8
<1>10. NextPart(v, a.file, d, a.done) /\ said \in Seq(OutWord)
  <2>1. NextPart(v, a.file, d, a.done)
    BY <1>3, <1>4, Progress DEF n
  <2>2. IsFrame(v, d, whole, a) /\ d \in 0..MaxNest
    BY <1>2, <1>4
  <2> HIDE DEF NextPart
  <2> QED BY <2>1, <2>2, SaidBegins
<1>11. /\ Spoken(v, a.file, d)[a.done + 1] = Spoken(v, a.file, d)[a.done] \o Page[d - 1][v][g]
  <2> DEFINE p == Directory[v][a.file].parts[a.done + 1]
  <2>1. Spoken(v, a.file, d)[a.done + 1] = Spoken(v, a.file, d)[a.done] \o Piece(v, d, p)
    BY Zenon, <1>10 DEF NextPart
  <2>2. Piece(v, d, p) = Page[d - 1][v][g]
    BY <1>3a DEF Piece
  <2> QED BY Zenon, <2>1, <2>2
<1>12. Begins(said \o Page[d - 1][v][g], whole)
  <2> DEFINE s == Spoken(v, a.file, d)[a.done]
             t == Spoken(v, a.file, d)[a.done + 1]
             p == Page[d][v][a.file]
             q == Page[d - 1][v][g]
             b == a.before
  <2>1. s \in Seq(OutWord) /\ t \in Seq(OutWord) /\ Begins(t, p) /\ p \in Seq(OutWord)
        /\ q \in Seq(OutWord) /\ b \in Seq(OutWord) /\ Begins(b \o p, whole) /\ t = s \o q
    <3>1. a.done + 1 \in 0..n
      BY <1>3, <1>4
    <3>2. s \in Seq(OutWord) /\ t \in Seq(OutWord) /\ Begins(t, p)
      BY <1>3, <1>4, <3>1, Progress DEF n
    <3>3. p \in Seq(OutWord) /\ q \in Seq(OutWord)
      BY <1>3, <1>4, <1>5, PageWords
    <3> QED BY Zenon, <1>2, <1>11, <3>2, <3>3 DEF IsFrame
  <2> HIDE DEF s, t, p, q, b
  <2>2a. Begins(b \o t, b \o p)
    BY <2>1, BeginsOn
  <2>2. Begins(b \o t, b \o p) /\ b \o t \in Seq(OutWord) /\ b \o p \in Seq(OutWord)
    BY <2>1, <2>2a
  <2> DEFINE x == b \o t
             y == b \o p
  <2>3. x \in Seq(OutWord) /\ y \in Seq(OutWord) /\ Begins(x, y) /\ Begins(y, whole)
    BY <2>1, <2>2
  <2> HIDE DEF x, y
  <2>4. Begins(x, whole)
    BY <2>3, BeginsOn
  <2>5. (b \o s) \o q = b \o (s \o q)
    BY SMTT(30), <2>1
  <2>6. (b \o s) \o q = x
    BY <2>1, <2>5 DEF x
  <2> QED BY Zenon, <2>4, <2>6 DEF b, s, q
<1> HIDE DEF said
<1>13. e.file = g /\ e.done = 0 /\ e.before = said /\ e = Begun(e.file, e.done, e.before)
  BY DEF Begun
<1>14. fs[0] = e /\ (\A i \in 1..k : fs[i] = fr[i - 1])
  BY <1>1
<1> HIDE DEF e, fs
<1>15. IsFrame(v, d - 1, whole, e)
  <2>1. Len(Directory[v][g].parts) \in Nat
    BY <1>5, PartFacts
  <2> QED BY <1>5, <1>7, <1>10, <1>12, <1>13, <2>1 DEF IsFrame
<1>15a. /\ h \in Handles /\ w.stub[h] = Free /\ u.stub[h] = At(v, g, 0)
        /\ u.files = [i \in Slots |-> IF i = 0 THEN h ELSE w.files[i - 1]]
        /\ \A x \in Handles \ {h} : u.stub[x] = w.stub[x]
  <2>1. MaxNest - 1 \in k..MaxNest - 1
    BY <1>1, <1>9
  <2>2. w.files[MaxNest - 1] = Invalid
    BY <2>1 DEF Stack
  <2> QED BY <2>2 DEF Pushes
<1>16. \A i \in 0..k - 1 : i \in Slots /\ i + 1 \in Slots /\ u.files[i + 1] = w.files[i]
  BY <1>1, <1>9, <1>15a DEF Slots
<1>17. u.files[0] = h
  BY <1>15a, Bounds
<1>18. /\ \A i \in 1..k : Depth(k + 1, i) = Depth(k, i - 1) /\ i - 1 \in 0..k - 1
       /\ Depth(k + 1, 0) = d - 1 /\ k + 1 \in 1..MaxNest
  BY <1>1, <1>9 DEF Depth, d
<1>19. ASSUME NEW i \in 0..k
       PROVE  u.files[i] \in Handles /\ IsFrame(v, Depth(k + 1, i), whole, fs[i])
  <2>1. CASE i = 0
    BY <1>14, <1>15, <1>15a, <1>17, <1>18, <2>1
  <2>2. CASE i # 0
    <3> DEFINE j == i - 1
    <3>1. i \in 1..k /\ j \in 0..k - 1 /\ j + 1 = i
      BY <1>1, <2>2
    <3> HIDE DEF j
    <3>2. w.files[j] \in Handles /\ IsFrame(v, Depth(k, j), whole, fr[j])
      BY <3>1 DEF Stack
    <3>3. fs[i] = fr[j] /\ Depth(k + 1, i) = Depth(k, j) /\ u.files[i] = w.files[j]
      BY <1>14, <1>16, <1>18, <3>1 DEF j
    <3> QED BY <3>2, <3>3
  <2> QED BY <2>1, <2>2
<1>20. ASSUME NEW j \in 0..k - 1
       PROVE  u.stub[u.files[j + 1]] = Resumes(v, fr[j])
  <2>1. w.files[j] \in Handles /\ w.stub[w.files[j]] = Resumes(v, fr[j])
    <3>1. CASE j = 0
      BY <1>2, <3>1
    <3>2. CASE j # 0
      <4>1. j \in 1..k - 1
        BY <1>1, <3>2
      <4> QED BY <4>1 DEF Stack
    <3> QED BY <3>1, <3>2
  <2>2. w.files[j] # h
    BY <1>15a, <2>1, OpenIsNotFree DEF Resumes, At
  <2> QED BY <1>15a, <1>16, <2>1, <2>2
<1>21. ASSUME NEW i \in 1..k
       PROVE  /\ Includes(v, Depth(k + 1, i), fs[i], fs[i - 1])
              /\ u.stub[u.files[i]] = Resumes(v, fs[i])
  <2> DEFINE j == i - 1
  <2>1. j \in 0..k - 1 /\ j + 1 = i /\ fs[i] = fr[j] /\ Depth(k + 1, i) = Depth(k, j)
    BY <1>1, <1>14, <1>18
  <2>2. u.stub[u.files[i]] = Resumes(v, fs[i])
    <3> HIDE DEF j
    <3> QED BY <1>20, <2>1
  <2>3. CASE i = 1
    <3>1. fs[i - 1] = e /\ fs[i] = a /\ Depth(k + 1, i) = d
      BY <1>14, <1>18, <2>3 DEF a, d
    <3>2. Includes(v, d, a, e)
      BY Zenon, <1>3a, <1>13 DEF Includes, said, n
    <3> QED BY <2>2, <3>1, <3>2
  <2>4. CASE i # 1
    <3>1. j \in 1..k - 1 /\ i - 1 \in 1..k /\ fs[i - 1] = fr[j - 1]
      <4>1. j \in 1..k - 1 /\ i - 1 \in 1..k /\ (i - 1) - 1 = j - 1
        BY <1>1, <2>4
      <4> QED BY <1>14, <4>1
    <3>2. Includes(v, Depth(k, j), fr[j], fr[j - 1])
      <4> HIDE DEF j
      <4> QED BY <3>1 DEF Stack
    <3> HIDE DEF j
    <3> QED BY <2>1, <2>2, <3>1, <3>2
  <2> QED BY <2>3, <2>4
<1>22. ASSUME NEW i \in k + 1..MaxNest - 1 PROVE u.files[i] = Invalid
  <2>1. i \in Slots /\ i # 0 /\ i - 1 \in k..MaxNest - 1
    BY <1>1, <1>22 DEF Slots
  <2>2. w.files[i - 1] = Invalid
    BY <2>1 DEF Stack
  <2> QED BY <1>15a, <2>1, <2>2
<1>23. fs[(k + 1) - 1].before = <<>> /\ Page[MaxNest][v][fs[(k + 1) - 1].file] = whole
  <2>1. (k + 1) - 1 = k /\ k \in 1..k
    BY <1>1
  <2>2. fs[k] = fr[k - 1]
    BY <1>14, <2>1
  <2> QED BY <2>1, <2>2 DEF Stack
<1>24. Stack(v, whole, u, k + 1, fs)
  <2>1. (k + 1) - 1 = k
    BY <1>1
  <2> QED BY <1>18, <1>19, <1>21, <1>22, <1>23, <2>1 DEF Stack
<1> QED BY <1>9, <1>14, <1>24 DEF e, said, a, d

AllDone(v, e) == e.done = Len(Directory[v][e.file].parts)
Ready(w) == Tuple(w) /\ {"FOPEN", "FCALBACK"} \subseteq w.flags /\ "FCLOSE" \notin w.flags

(* What a file adds that is included.                                      *)
GoesOn(v, d, a, e) ==
  /\ a.done + 1 \in 0..Len(Directory[v][a.file].parts)
  /\ a.before \o Spoken(v, a.file, d)[a.done + 1] = e.before \o Page[d - 1][v][e.file]

LEMMA SaidByFile ==
  ASSUME NEW v \in Images, NEW whole \in Seq(OutWord), NEW d \in 1..MaxNest, NEW a, NEW e,
         IsFrame(v, d, whole, a), IsFrame(v, d - 1, whole, e), Includes(v, d, a, e)
  PROVE  GoesOn(v, d, a, e)
<1> DEFINE n == Len(Directory[v][a.file].parts)
           p == Directory[v][a.file].parts[a.done + 1]
           x == a.done
<1>1. a.file \in Files(v) /\ Told(v, a.file) /\ Fits[d][v][a.file] /\ x \in 0..n /\ n \in Nat
      /\ a.before \in Seq(OutWord)
  BY PartFacts DEF IsFrame
<1>2. x < n /\ p.kind = "inc" /\ IncludeOf(v, p) = e.file /\ e.before = a.before \o Spoken(v, a.file, d)[x]
  BY DEF Includes
<1>3. MaxNest \in Nat
  BY WebSrvAssumption
<1> HIDE DEF n, x
<1>4. d \in 0..MaxNest /\ d - 1 \in 0..MaxNest
  BY <1>3
<1>5. x + 1 \in 0..n /\ x \in 0..n - 1 /\ x \in 0..n
  BY <1>1, <1>2
<1>6. NextPart(v, a.file, d, x) /\ Spoken(v, a.file, d)[x] \in Seq(OutWord)
  BY <1>1, <1>4, <1>5, Progress DEF n
<1>7. e.file \in Files(v)
  BY DEF IsFrame
<1>8. e.file # 0
  BY <1>7 DEF Files
<1>9. Spoken(v, a.file, d)[x + 1] = Spoken(v, a.file, d)[x] \o Page[d - 1][v][e.file]
  <2>1. Spoken(v, a.file, d)[x + 1] = Spoken(v, a.file, d)[x] \o Piece(v, d, p)
    BY Zenon, <1>6 DEF NextPart, x
  <2>2. Piece(v, d, p) = Page[d - 1][v][e.file]
    BY <1>2, <1>8 DEF Piece
  <2> QED BY Zenon, <2>1, <2>2
<1>10. Page[d - 1][v][e.file] \in Seq(OutWord)
  BY Zenon, <1>4, <1>7, PageWords
<1>11. a.before \o (Spoken(v, a.file, d)[x] \o Page[d - 1][v][e.file]) =
       (a.before \o Spoken(v, a.file, d)[x]) \o Page[d - 1][v][e.file]
  <2> DEFINE s == Spoken(v, a.file, d)[x]
             q == Page[d - 1][v][e.file]
             b == a.before
  <2>1. s \in Seq(OutWord) /\ q \in Seq(OutWord) /\ b \in Seq(OutWord)
    BY <1>1, <1>6, <1>10
  <2> HIDE DEF s, q, b
  <2>2. b \o (s \o q) = (b \o s) \o q
    BY <2>1
  <2> QED BY Zenon, <2>2 DEF s, q, b
<1> QED BY Zenon, <1>2, <1>5, <1>9, <1>11 DEF GoesOn, x, n

(* The innermost file is closed at its end: the file that includes it goes *)
(* on, or the page is whole.                                               *)
Closes(v, whole, w, said, u) ==
  \/ "FCLOSE" \in u.flags /\ said = whole
  \/ /\ u.flags = w.flags /\ Tuple(u)
     /\ \E m, fs : /\ Stack(v, whole, u, m, fs)
                   /\ u.stub[u.files[0]] = Reads(v, fs[0], 0)
                   /\ said = fs[0].before \o Spoken(v, fs[0].file, Depth(m, 0))[fs[0].done]

LEMMA Popped ==
  ASSUME NEW v \in Images, NEW whole \in Seq(OutWord), NEW w, NEW k, NEW fr,
         Stack(v, whole, w, k, fr), Own(w), Ready(w)
  PROVE  Closes(v, whole, w, fr[0].before \o Page[Depth(k, 0)][v][fr[0].file], AtEnd(w))
<1> DEFINE u0 == web_inc_fclose(w)
           fi == [i \in Slots |-> IF i = MaxNest - 1 THEN Invalid ELSE w.files[i + 1]]
           u == AtEnd(w)
           said == fr[0].before \o Page[Depth(k, 0)][v][fr[0].file]
<1>1. k \in 1..MaxNest /\ MaxNest \in Nat /\ k \in Nat
  BY Depths DEF Stack
<1>2. u0 = [stub |-> WEBFSClose(w.stub, w.files[0]), files |-> fi,
            flags |-> IF fi[0] = Invalid THEN w.flags \ {"FOPEN", "FCALBACK"} ELSE w.flags]
  BY DEF web_inc_fclose
<1>3. u = IF "FOPEN" \in u0.flags THEN u0 ELSE SetSCB(u0, {"FCLOSE", "DISCONNECT"})
  BY DEF AtEnd
<1> HIDE DEF u0, fi, u
<1>4. u0.files = fi /\ u0.stub = WEBFSClose(w.stub, w.files[0]) /\ Tuple(u0)
      /\ u0.flags = IF fi[0] = Invalid THEN w.flags \ {"FOPEN", "FCALBACK"} ELSE w.flags
  BY <1>2 DEF Tuple
<1>5. CASE k = 1
  <2>1. fi[0] = Invalid
    <3>1. CASE MaxNest = 1
      BY <3>1, Bounds DEF fi
    <3>2. CASE MaxNest # 1
      <4>1. 0 \in Slots /\ 0 # MaxNest - 1 /\ 0 + 1 \in k..MaxNest - 1
        BY <1>1, <1>5, <3>2, Bounds
      <4>2. w.files[0 + 1] = Invalid
        BY <4>1 DEF Stack
      <4> QED BY <4>1, <4>2 DEF fi
    <3> QED BY <3>1, <3>2
  <2>2. "FOPEN" \notin u0.flags
    BY <1>4, <2>1
  <2>3. "FCLOSE" \in u.flags
    BY <1>3, <1>4, <2>2, FlagRecords DEF Tuple
  <2>4. Depth(k, 0) = MaxNest /\ k - 1 = 0
    BY <1>1, <1>5 DEF Depth
  <2>5. fr[0].before = <<>> /\ Page[MaxNest][v][fr[0].file] = whole
    BY <2>4 DEF Stack
  <2>6. said = whole
    BY <2>4, <2>5
  <2> QED BY <2>3, <2>6 DEF Closes, u
<1>6. CASE k # 1
  <2> DEFINE a == fr[1]
             e == Begun(a.file, a.done + 1, a.before)
             m == k - 1
             fs == [i \in 0..m - 1 |-> IF i = 0 THEN e ELSE fr[i + 1]]
             d == Depth(k, 1)
  <2>1. m \in 1..MaxNest /\ m \in Nat /\ 1 \in 1..k - 1 /\ 1 \in 0..k - 1 /\ 0 \in 0..k - 1
    BY <1>1, <1>6
  <2>2. \A i \in 0..m - 1 : i \in Slots /\ i # MaxNest - 1 /\ i + 1 \in 1..k - 1 /\ i + 1 \in 0..k - 1
                            /\ i + 1 \in Slots /\ Depth(m, i) = Depth(k, i + 1)
    BY <1>1, <1>6 DEF Slots, Depth
  <2>3. \A i \in 0..m - 1 : fi[i] = w.files[i + 1]
    BY <2>2 DEF fi
  <2>4. d \in 1..MaxNest /\ d - 1 = Depth(k, 0) /\ Depth(m, 0) = d
    BY <1>1, <1>6 DEF Depth
  <2>5. IsFrame(v, d, whole, a) /\ IsFrame(v, d - 1, whole, fr[0]) /\ Includes(v, d, a, fr[1 - 1])
        /\ w.stub[w.files[1]] = Resumes(v, a)
    <3>1. IsFrame(v, Depth(k, 1), whole, fr[1]) /\ IsFrame(v, Depth(k, 0), whole, fr[0])
      BY <2>1 DEF Stack
    <3>2. Includes(v, Depth(k, 1), fr[1], fr[1 - 1]) /\ w.stub[w.files[1]] = Resumes(v, fr[1])
      BY Zenon, <2>1 DEF Stack
    <3> QED BY <2>4, <3>1, <3>2
  <2> HIDE DEF d, fs, e, m, a
  <2>6. /\ a.done + 1 \in 0..Len(Directory[v][a.file].parts)
        /\ a.before \o Spoken(v, a.file, d)[a.done + 1] = said
    <3>1. 1 - 1 = 0
      OBVIOUS
    <3>2. Includes(v, d, a, fr[0])
      BY Zenon, <2>5, <3>1
    <3>3. /\ a.done + 1 \in 0..Len(Directory[v][a.file].parts)
          /\ a.before \o Spoken(v, a.file, d)[a.done + 1] = fr[0].before \o Page[d - 1][v][fr[0].file]
      <4>1. GoesOn(v, d, a, fr[0])
        BY <2>4, <2>5, <3>2, SaidByFile
      <4> QED BY <4>1 DEF GoesOn
    <3> QED BY Zenon, <2>4, <3>3
  <2>7. e.file = a.file /\ e.done = a.done + 1 /\ e.before = a.before /\ e = Begun(e.file, e.done, e.before)
    BY Zenon DEF e, Begun
  <2>8. IsFrame(v, d, whole, e)
    BY Zenon, <2>5, <2>6, <2>7 DEF IsFrame
  <2>9. fs[0] = e /\ \A i \in 1..m - 1 : fs[i] = fr[i + 1]
    BY <2>1 DEF fs
  <2>10. fi[0] # Invalid
    <3>1. 0 \in 0..m - 1 /\ 0 + 1 \in 0..k - 1
      BY <1>1, <1>6 DEF m
    <3>2. w.files[0 + 1] \in Handles
      BY <3>1 DEF Stack
    <3> QED BY <2>3, <3>1, <3>2, Bounds
  <2>11. u = u0 /\ u.flags = w.flags /\ u.files = fi /\ u.stub = WEBFSClose(w.stub, w.files[0]) /\ Tuple(u)
    BY <1>3, <1>4, <2>10 DEF Ready
  <2>12. ASSUME NEW i \in 0..m - 1
         PROVE  u.files[i] \in Handles /\ IsFrame(v, Depth(m, i), whole, fs[i])
    <3>1. u.files[i] = w.files[i + 1] /\ w.files[i + 1] \in Handles /\ Depth(m, i) = Depth(k, i + 1)
          /\ IsFrame(v, Depth(k, i + 1), whole, fr[i + 1])
      BY <2>2, <2>3, <2>11 DEF Stack
    <3>2. CASE i = 0
      BY <2>4, <2>8, <2>9, <3>1, <3>2
    <3>3. CASE i # 0
      <4>1. i \in 1..m - 1
        BY <2>1, <3>3
      <4> QED BY <2>9, <3>1, <4>1
    <3> QED BY <3>2, <3>3
  <2>13. ASSUME NEW i \in 0..m - 1
         PROVE  u.stub[u.files[i]] = Resumes(v, fr[i + 1])
    <3> DEFINE j == i + 1
    <3>1. j \in 1..k - 1 /\ j \in 0..k - 1 /\ j \in Slots /\ j # 0 /\ u.files[i] = w.files[j]
      BY <2>1, <2>2, <2>3, <2>11
    <3> HIDE DEF j
    <3>2. w.files[j] \in Handles /\ w.stub[w.files[j]] = Resumes(v, fr[j])
      BY <3>1 DEF Stack
    <3>3. w.files[j] # w.files[0]
      BY <3>1, <3>2, Bounds DEF Own
    <3>4. u.stub[w.files[j]] = w.stub[w.files[j]]
      BY <2>11, <3>2, <3>3 DEF WEBFSClose
    <3> QED BY <3>1, <3>2, <3>4 DEF j
  <2>14. ASSUME NEW i \in 1..m - 1
         PROVE  /\ Includes(v, Depth(m, i), fs[i], fs[i - 1])
                /\ u.stub[u.files[i]] = Resumes(v, fs[i])
    <3> DEFINE j == i + 1
    <3>1. i \in 0..m - 1 /\ j \in 1..k - 1 /\ fs[i] = fr[j] /\ Depth(m, i) = Depth(k, j) /\ j - 1 = i
      BY <2>1, <2>2, <2>9
    <3>2. u.stub[u.files[i]] = Resumes(v, fs[i])
      BY <2>13, <3>1
    <3> HIDE DEF j
    <3>3. Includes(v, Depth(k, j), fr[j], fr[j - 1])
      BY <3>1 DEF Stack
    <3>4. fs[i - 1].file = fr[i].file /\ fs[i - 1].before = fr[i].before
      <4>1. CASE i = 1
        <5>1. i - 1 = 0
          BY <4>1
        <5> QED BY <2>7, <2>9, <4>1, <5>1 DEF a
      <4>2. CASE i # 1
        <5>1. i - 1 \in 1..m - 1 /\ (i - 1) + 1 = i
          BY <2>1, <4>2
        <5> QED BY <2>9, <5>1
      <4> QED BY <4>1, <4>2
    <3>5. Includes(v, Depth(m, i), fs[i], fs[i - 1])
      BY Zenon, <3>1, <3>3, <3>4 DEF Includes
    <3> QED BY <3>2, <3>5
  <2>15. ASSUME NEW i \in m..MaxNest - 1 PROVE u.files[i] = Invalid
    <3>1. i \in Slots
      BY <1>1, <2>1 DEF Slots
    <3>2. CASE i = MaxNest - 1
      BY <2>11, <3>1, <3>2 DEF fi
    <3>3. CASE i # MaxNest - 1
      <4>1. i + 1 \in k..MaxNest - 1
        BY <1>1, <3>3 DEF m
      <4>2. w.files[i + 1] = Invalid
        BY <4>1 DEF Stack
      <4> QED BY <2>11, <3>1, <3>3, <4>2 DEF fi
    <3> QED BY <3>2, <3>3
  <2>16. fs[m - 1].before = <<>> /\ Page[MaxNest][v][fs[m - 1].file] = whole
    <3>1. fr[k - 1].before = <<>> /\ Page[MaxNest][v][fr[k - 1].file] = whole
      BY DEF Stack
    <3>2. CASE m = 1
      <4>1. m - 1 = 0 /\ k - 1 = 1
        BY <3>2 DEF m
      <4> QED BY <2>7, <2>9, <3>1, <4>1 DEF a
    <3>3. CASE m # 1
      <4>1. m - 1 \in 1..m - 1 /\ (m - 1) + 1 = k - 1
        BY <1>1, <2>1, <3>3 DEF m
      <4> QED BY <2>9, <3>1, <4>1
    <3> QED BY <3>2, <3>3
  <2>17. Stack(v, whole, u, m, fs)
    BY <2>1, <2>12, <2>14, <2>15, <2>16 DEF Stack
  <2>18. u.stub[u.files[0]] = Reads(v, fs[0], 0)
    <3>1. 0 \in 0..m - 1 /\ 0 + 1 = 1
      BY <2>1
    <3>2. u.stub[u.files[0]] = Resumes(v, a)
      BY Zenon, <2>13, <3>1 DEF a
    <3>3. Len(Behind(v, a.file)[a.done + 1]) \in Nat
      <4>1. a.file \in Files(v) /\ Told(v, a.file) /\ Fits[d][v][a.file] /\ d \in 0..MaxNest
        BY <1>1, <2>4, <2>5 DEF IsFrame
      <4> QED BY <2>6, <4>1, Progress
    <3>4. Len(Behind(v, a.file)[a.done + 1]) + 0 = Len(Behind(v, a.file)[a.done + 1])
      BY <3>3
    <3> QED BY <2>7, <2>9, <3>2, <3>4 DEF Reads, Resumes
  <2>19. said = fs[0].before \o Spoken(v, fs[0].file, Depth(m, 0))[fs[0].done]
    BY Zenon, <2>4, <2>6, <2>7, <2>9
  <2> HIDE DEF said
  <2> QED BY Zenon, <2>11, <2>17, <2>18, <2>19 DEF Closes, u, said
<1> QED BY <1>5, <1>6

(* The innermost file of w is f, with j parts done; the mark before the    *)
(* next part was read when FINDCB is set.                                  *)
Ahead(w) == IF "FINDCB" \in w.flags THEN 1 ELSE 0
Stands(v, w, f, j) ==
  /\ w.stub[w.files[0]] = At(v, f, Len(Behind(v, f)[j]) + Ahead(w))
  /\ "FINDCB" \in w.flags => /\ j < Len(Directory[v][f].parts)
                             /\ Directory[v][f].parts[j + 1].kind # "text"
                             /\ "RETRYCB" \notin w.flags

(* Of a page that is parsed sent was sent, and a variable has text still   *)
(* to write.                                                               *)
SaidIs(v, e, d, said) == said = e.before \o Spoken(v, e.file, d)[e.done]
ParsedAt(v, whole, w, sent, text) ==
  /\ Tuple(w) /\ {"FOPEN", "FCALBACK"} \subseteq w.flags
  /\ sent \in Seq(OutWord) /\ text \in Seq(Word)
  /\ "RETRYCB" \notin w.flags => text = <<>>
  /\ \E k, fr : /\ Stack(v, whole, w, k, fr)
                /\ Stands(v, w, fr[0].file, fr[0].done)
                /\ SaidIs(v, fr[0], Depth(k, 0), sent \o text)

(* A turn after which the page is whole, or goes on.                       *)
After(v, whole, sent, t) ==
  \/ ~t.fits
  \/ "FCLOSE" \in t.w.flags /\ sent \o t.out = whole
  \/ "FCLOSE" \notin t.w.flags /\ ParsedAt(v, whole, t.w, sent \o t.out, t.more)

(* The innermost file is read up to word p, and the flags are others.      *)
MovedTo(w, u, v, f, p, flags) ==
  /\ Same(w, u) /\ Tuple(u) /\ u.flags = flags
  /\ u.stub[u.files[0]] = At(v, f, p)

LEMMA Moved ==
  ASSUME NEW w, Sound(w), w.files[0] \in Handles, NEW v \in Images, NEW f \in Files(v),
         NEW p \in Nat, w.stub[w.files[0]] = At(v, f, p), NEW k \in Nat, NEW fl
  PROVE  LET u == [w EXCEPT !.stub = Advance(@, w.files[0], k)]
         IN /\ MovedTo(w, SetSCB(u, fl), v, f, p + k, w.flags \cup fl)
            /\ MovedTo(w, ClrSCB(u, fl), v, f, p + k, w.flags \ fl)
<1> DEFINE h == w.files[0]
           st == Advance(w.stub, h, k)
           u == [w EXCEPT !.stub = Advance(@, h, k)]
<1>1. u = [stub |-> st, files |-> w.files, flags |-> w.flags]
  BY DEF Sound
<1>2. FileAddr[v][f] \in Nat /\ Len(FileData[v][f]) \in Nat
  BY FileWords, FilePlaces
<1>3. \A g \in Handles \ {h} : st[g] = w.stub[g]
  BY DEF Advance, Sound, IsTable
<1>4. st[h] = At(v, f, p + k)
  <2> DEFINE a == FileAddr[v][f]
             n == Len(FileData[v][f])
  <2>1. w.stub[h] = [addr |-> a + p, rem |-> n - p] /\ w.stub[h] # Free
    BY OpenIsNotFree DEF At
  <2>2. st[h] = [addr |-> (a + p) + k, rem |-> (n - p) - k]
    BY <2>1 DEF Advance, Sound, IsTable
  <2> HIDE DEF a, n, st, h
  <2>3. (a + p) + k = a + (p + k) /\ (n - p) - k = n - (p + k)
    BY <1>2 DEF a, n
  <2> QED BY <2>2, <2>3 DEF At, a, n
<1> HIDE DEF st, u
<1>5. /\ SetSCB(u, fl) = [stub |-> st, files |-> w.files, flags |-> w.flags \cup fl]
      /\ ClrSCB(u, fl) = [stub |-> st, files |-> w.files, flags |-> w.flags \ fl]
  <2>1. u = [stub |-> u.stub, files |-> u.files, flags |-> u.flags]
        /\ u.stub = st /\ u.files = w.files /\ u.flags = w.flags
    BY <1>1
  <2> QED BY <2>1, FlagRecords
<1> DEFINE x == SetSCB(u, fl)
           y == ClrSCB(u, fl)
<1>6. /\ x.stub = st /\ x.files = w.files /\ x.flags = w.flags \cup fl /\ Tuple(x)
      /\ y.stub = st /\ y.files = w.files /\ y.flags = w.flags \ fl /\ Tuple(y)
  BY <1>5 DEF Tuple
<1> HIDE DEF x, y
<1>7. MovedTo(w, x, v, f, p + k, w.flags \cup fl) /\ MovedTo(w, y, v, f, p + k, w.flags \ fl)
  BY <1>3, <1>4, <1>6 DEF MovedTo, Same
<1> QED BY <1>7 DEF x, y, u

(* The page goes on in the innermost file.                                 *)
LEMMA Placed ==
  ASSUME NEW v \in Images, NEW whole, NEW w, NEW k, NEW fr, Stack(v, whole, w, k, fr), Own(w),
         NEW u, Same(w, u), Tuple(u), {"FOPEN", "FCALBACK"} \subseteq u.flags,
         NEW j, Count(v, fr[0].file, j), Stands(v, u, fr[0].file, j),
         NEW sent \in Seq(OutWord), NEW text \in Seq(Word), "RETRYCB" \notin u.flags => text = <<>>,
         SaidIs(v, Begun(fr[0].file, j, fr[0].before), Depth(k, 0), sent \o text)
  PROVE  ParsedAt(v, whole, u, sent, text)
<1>1. PICK fs : Stack(v, whole, u, k, fs) /\ fs[0] = Begun(fr[0].file, j, fr[0].before)
  BY DoneOn
<1>2. fs[0].file = fr[0].file /\ fs[0].done = j
  BY <1>1 DEF Begun
<1>3. Stands(v, u, fs[0].file, fs[0].done) /\ SaidIs(v, fs[0], Depth(k, 0), sent \o text)
  BY <1>1, <1>2
<1> QED BY <1>1, <1>3 DEF ParsedAt

LEMMA Looks ==
  ASSUME NEW v \in Images, HoldsAll(v), NEW d \in 0..MaxNest, NEW whole, NEW e, IsFrame(v, d, whole, e),
         NEW w, Stands(v, w, e.file, e.done), NEW n \in Nat
  PROVE  IsRead(v, e.file, Len(Behind(v, e.file)[e.done]) + Ahead(w), n, GetArray(w.stub, w.files[0], n))
<1> DEFINE f == e.file
           j == e.done
           q == Len(Behind(v, f)[j])
           L == Len(FileData[v][f])
           parts == Len(Directory[v][f].parts)
           p == q + Ahead(w)
           h == w.files[0]
           buf == GetArray(w.stub, h, n)
<1>1. f \in Files(v) /\ Told(v, f) /\ Fits[d][v][f] /\ j \in 0..parts /\ parts \in Nat /\ L \in Nat
  BY PartFacts, FileWords DEF IsFrame
<1>2. q \in Nat /\ q <= L
  BY <1>1, Progress
<1>3. Ahead(w) \in {0, 1} /\ (Ahead(w) = 1 => "FINDCB" \in w.flags)
  BY DEF Ahead
<1>4. "FINDCB" \in w.flags => q < L
  <2> SUFFICES ASSUME "FINDCB" \in w.flags PROVE q < L
    OBVIOUS
  <2>1. j < parts
    BY DEF Stands
  <2> HIDE DEF q, L, parts, j, f
  <2>2. q # L
    <3>1. q = L => j = parts
      BY <1>1, BehindRun DEF q, L, parts, j, f
    <3> QED BY <1>1, <2>1, <3>1
  <2> QED BY <1>1, <1>2, <2>2
<1>5. p \in Nat /\ p <= L
  <2> HIDE DEF q, L, f, j
  <2> QED BY <1>1, <1>2, <1>3, <1>4
<1>6. w.stub[h] = At(v, f, p)
  BY DEF Stands
<1> HIDE DEF p, h, f
<1>7. IsRead(v, f, p, n, buf)
  <2>1. p \in Nat /\ p <= Len(FileData[v][f]) /\ f \in Files(v)
    BY <1>1, <1>5
  <2> QED BY <1>6, <2>1, Slice
<1> QED BY <1>7 DEF p, h, f, buf

(* A page variable writes.                                                 *)
LEMMA Varies ==
  ASSUME left \in Nat, NEW v \in Images, NEW whole, NEW w, NEW k, NEW fr, Stack(v, whole, w, k, fr), Own(w),
         Ready(w), "FINDCB" \notin w.flags, NEW j, Count(v, fr[0].file, j),
         Stands(v, w, fr[0].file, j), NEW sent \in Seq(OutWord), NEW text \in Seq(Word),
         SaidIs(v, Begun(fr[0].file, j, fr[0].before), Depth(k, 0), sent \o text)
  PROVE  After(v, whole, sent, SendVariable(w, text))
<1> DEFINE n == UpTo(Len(text), left)
           u == IF n < Len(text) THEN SetSCB(w, {"RETRYCB"}) ELSE ClrSCB(w, {"RETRYCB"})
           out == SubSeq(text, 1, n)
           more == SubSeq(text, n + 1, Len(text))
<1>1. SendVariable(w, text) = Turned(u, out, more, TRUE)
  BY DEF SendVariable
<1>2. n \in 0..Len(text)
  BY DEF UpTo
<1>3. /\ Tuple(u) /\ u.stub = w.stub /\ u.files = w.files
      /\ u.flags = IF n < Len(text) THEN w.flags \cup {"RETRYCB"} ELSE w.flags \ {"RETRYCB"}
  <2> HIDE DEF n
  <2>1. /\ SetSCB(w, {"RETRYCB"}) = [stub |-> w.stub, files |-> w.files, flags |-> w.flags \cup {"RETRYCB"}]
        /\ ClrSCB(w, {"RETRYCB"}) = [stub |-> w.stub, files |-> w.files, flags |-> w.flags \ {"RETRYCB"}]
    BY FlagRecords DEF Ready, Tuple
  <2>2. CASE n < Len(text)
    BY <2>1, <2>2 DEF Tuple
  <2>3. CASE ~(n < Len(text))
    BY <2>1, <2>3 DEF Tuple
  <2> QED BY <2>2, <2>3
<1>4. /\ out \in Seq(Word) /\ more \in Seq(Word) /\ out \o more = text
      /\ n = Len(text) => more = <<>>
  <2> HIDE DEF n
  <2>1. out \in Seq(Word) /\ Len(out) = n /\ (\A i \in 1..n : out[i] = text[i])
        /\ more \in Seq(Word) /\ Len(more) = Len(text) - n
        /\ \A i \in 1..Len(text) - n : more[i] = text[n + i]
    BY <1>2
  <2> HIDE DEF out, more
  <2>2. out \o more = text
    <3> DEFINE x == out \o more
    <3>0. Joins(Word, out, more, x)
      BY <2>1, ConcatFacts
    <3>1. x \in Seq(Word) /\ Len(x) = Len(text) /\ Len(text) \in Nat
          /\ \A i \in 1..Len(text) : x[i] = IF i <= n THEN out[i] ELSE more[i - n]
      BY <1>2, <2>1, <3>0 DEF Joins
    <3> HIDE DEF x
    <3>2. \A i \in 1..Len(text) : x[i] = text[i]
      <4> SUFFICES ASSUME NEW i \in 1..Len(text) PROVE x[i] = text[i]
        OBVIOUS
      <4>1. CASE i <= n
        <5>1. i \in 1..n
          BY <1>2, <4>1
        <5> QED BY <2>1, <3>1, <4>1, <5>1
      <4>2. CASE ~(i <= n)
        <5>1. i - n \in 1..Len(text) - n /\ n + (i - n) = i
          BY <1>2, <4>2
        <5> QED BY <2>1, <3>1, <4>2, <5>1
      <4> QED BY <4>1, <4>2
    <3>3. x = text
      BY <3>1, <3>2
    <3> QED BY <3>3 DEF x
  <2>3. n = Len(text) => more = <<>>
    <3>1. n = Len(text) => Len(more) = 0
      BY <1>2, <2>1
    <3> QED BY <2>1, <3>1
  <2> QED BY <2>1, <2>2, <2>3
<1> HIDE DEF n, u, out, more
<1>5. "RETRYCB" \notin u.flags => more = <<>>
  <2>1. "RETRYCB" \notin u.flags => ~(n < Len(text))
    BY <1>3
  <2>2. ~(n < Len(text)) => n = Len(text)
    BY <1>2
  <2> QED BY <1>4, <2>1, <2>2
<1>6. sent \o out \in Seq(OutWord) /\ (sent \o out) \o more = sent \o text
  <2>1. Word \subseteq OutWord
    BY DEF OutWord
  <2>2. out \in Seq(OutWord) /\ more \in Seq(OutWord)
    BY <1>4, <2>1
  <2>3. (sent \o out) \o more = sent \o (out \o more)
    BY <2>2
  <2> QED BY <1>4, <2>2, <2>3
<1>7. Same(w, u) /\ Stands(v, u, fr[0].file, j) /\ "FCLOSE" \notin u.flags
      /\ {"FOPEN", "FCALBACK"} \subseteq u.flags
  BY <1>3 DEF Same, Stands, Ready, Ahead
<1> DEFINE s == sent \o out
<1>8. SaidIs(v, Begun(fr[0].file, j, fr[0].before), Depth(k, 0), s \o more)
  BY <1>6
<1> HIDE DEF s
<1>9. ParsedAt(v, whole, u, s, more)
  BY <1>3, <1>4, <1>5, <1>6, <1>7, <1>8, Placed DEF s
<1> QED BY <1>1, <1>7, <1>9 DEF After, Turned, s

(* A page that is parsed, before a turn in which no variable goes on.      *)
Here(v, whole, w, k, fr, sent) ==
  /\ Stack(v, whole, w, k, fr) /\ Own(w) /\ Sound(w) /\ Ready(w)
  /\ "RETRYCB" \notin w.flags
  /\ Stands(v, w, fr[0].file, fr[0].done)
  /\ sent \in Seq(OutWord) /\ SaidIs(v, fr[0], Depth(k, 0), sent)

LEMMA HereFacts ==
  ASSUME NEW v \in Images, NEW whole, NEW w, NEW k, NEW fr, NEW sent, Here(v, whole, w, k, fr, sent)
  PROVE  /\ Depth(k, 0) \in 0..MaxNest /\ IsFrame(v, Depth(k, 0), whole, fr[0])
         /\ fr[0].file \in Files(v) /\ Told(v, fr[0].file) /\ Fits[Depth(k, 0)][v][fr[0].file]
         /\ fr[0].done \in 0..Len(Directory[v][fr[0].file].parts)
         /\ fr[0].before \in Seq(OutWord)
         /\ w.files[0] \in Handles
<1>1. k \in 1..MaxNest
  BY DEF Here, Stack
<1>2. Depth(k, 0) \in 0..MaxNest /\ 0 \in 0..k - 1
  BY <1>1, Depths
<1>3. IsFrame(v, Depth(k, 0), whole, fr[0]) /\ w.files[0] \in Handles
  BY Zenon, <1>2 DEF Here, Stack
<1> QED BY <1>2, <1>3 DEF IsFrame

(* The innermost file ends.                                                *)
LEMMA FileEnds ==
  ASSUME NEW v \in Images, NEW whole \in Seq(OutWord), NEW u, NEW k, NEW fs,
         Stack(v, whole, u, k, fs), Own(u), Ready(u), u.flags \cap {"FINDCB", "RETRYCB"} = {},
         AllDone(v, fs[0]), NEW s, NEW out, s \o out \in Seq(OutWord),
         SaidIs(v, fs[0], Depth(k, 0), s \o out)
  PROVE  After(v, whole, s, Turned(AtEnd(u), out, <<>>, TRUE))
<1> DEFINE sent == s \o out
           x == AtEnd(u)
           d == Depth(k, 0)
<1>1. k \in 1..MaxNest
  BY DEF Stack
<1>2. d \in 0..MaxNest /\ IsFrame(v, d, whole, fs[0])
  BY <1>1, Depths DEF Stack
<1>3. Page[d][v][fs[0].file] = Spoken(v, fs[0].file, d)[fs[0].done]
  <2> HIDE DEF d
  <2> QED BY <1>2, PieceFacts DEF IsFrame, AllDone
<1>4. sent = fs[0].before \o Page[d][v][fs[0].file]
  BY <1>3 DEF SaidIs
<1>5. Closes(v, whole, u, sent, x)
  BY <1>4, Popped
<1> HIDE DEF sent, x
<1>6. CASE "FCLOSE" \in x.flags /\ sent = whole
  BY <1>6 DEF After, Turned, x, sent
<1>7. CASE /\ x.flags = u.flags /\ Tuple(x)
           /\ \E m, ft : /\ Stack(v, whole, x, m, ft)
                         /\ x.stub[x.files[0]] = Reads(v, ft[0], 0)
                         /\ sent = ft[0].before \o Spoken(v, ft[0].file, Depth(m, 0))[ft[0].done]
  <2>1. PICK m, ft : /\ Stack(v, whole, x, m, ft)
                     /\ x.stub[x.files[0]] = Reads(v, ft[0], 0)
                     /\ sent = ft[0].before \o Spoken(v, ft[0].file, Depth(m, 0))[ft[0].done]
    BY <1>7
  <2>2. Ahead(x) = 0 /\ "FINDCB" \notin x.flags /\ "RETRYCB" \notin x.flags
    BY Zenon, <1>7 DEF Ahead
  <2>3. Stands(v, x, ft[0].file, ft[0].done)
    BY <2>1, <2>2 DEF Stands, Reads
  <2>4. sent \in Seq(OutWord) /\ sent \o <<>> = sent
    BY DEF sent
  <2>5. SaidIs(v, ft[0], Depth(m, 0), sent \o <<>>)
    BY <2>1, <2>4 DEF SaidIs
  <2>6. <<>> \in Seq(Word) /\ {"FOPEN", "FCALBACK"} \subseteq x.flags /\ "FCLOSE" \notin x.flags
    BY <1>7 DEF Ready
  <2>7. ParsedAt(v, whole, x, sent, <<>>)
    BY <1>7, <2>1, <2>3, <2>4, <2>5, <2>6 DEF ParsedAt
  <2> QED BY Zenon, <2>6, <2>7 DEF After, Turned, x, sent
<1> QED BY <1>5, <1>6, <1>7 DEF Closes

(* Texts are read, up to part j of the file.                               *)
Reaches(v, d, e, sent, j, m, out) ==
  /\ Count(v, e.file, j) /\ j \in Nat
  /\ Len(Behind(v, e.file)[j]) = Len(Behind(v, e.file)[e.done]) + m
  /\ sent \o out \in Seq(OutWord)
  /\ SaidIs(v, Begun(e.file, j, e.before), d, sent \o out)

LEMMA TextsRead ==
  ASSUME NEW v \in Images, HoldsAll(v), NEW whole, NEW w, NEW k, NEW fr, NEW sent,
         Here(v, whole, w, k, fr, sent), "FINDCB" \notin w.flags, NEW n \in Nat,
         NEW buf, buf = GetArray(w.stub, w.files[0], n),
         NEW m \in 0..Len(buf), \A i \in 1..m : buf[i] # Mark
  PROVE  /\ Reaches(v, Depth(k, 0), fr[0], sent, fr[0].done + m, m, SubSeq(buf, 1, m))
         /\ IsRead(v, fr[0].file, Len(Behind(v, fr[0].file)[fr[0].done]), n, buf)
<1> DEFINE d == Depth(k, 0)
           f == fr[0].file
           j == fr[0].done
           b == fr[0].before
           q == Len(Behind(v, f)[j])
           L == Len(FileData[v][f])
           out == SubSeq(buf, 1, m)
<1>1. /\ d \in 0..MaxNest /\ IsFrame(v, d, whole, fr[0]) /\ f \in Files(v) /\ Told(v, f)
      /\ Fits[d][v][f] /\ j \in 0..Len(Directory[v][f].parts) /\ b \in Seq(OutWord)
  BY Zenon, HereFacts
<1>2. sent \in Seq(OutWord) /\ sent = b \o Spoken(v, f, d)[j] /\ Spoken(v, f, d)[j] \in Seq(OutWord)
      /\ q \in Nat /\ Len(Directory[v][f].parts) \in Nat
  BY <1>1, Progress DEF Here, SaidIs
<1> HIDE DEF d
<1>3. IsRead(v, f, q, n, buf)
  <2>1. IsRead(v, f, q + Ahead(w), n, buf)
    BY <1>1, Looks DEF Here
  <2>2. q + Ahead(w) = q
    BY <1>2 DEF Ahead
  <2> QED BY <2>1, <2>2
<1>4. buf \in Seq(Word) /\ q + Len(buf) <= L /\ \A i \in 1..Len(buf) : buf[i] = FileData[v][f][q + i]
  <2>1. L \in Nat
    BY <1>1, FileWords
  <2>2. /\ buf \in Seq(Word) /\ q <= L /\ Len(buf) = IF n < L - q THEN n ELSE L - q
        /\ \A i \in 1..Len(buf) : buf[i] = FileData[v][f][q + i]
    BY Zenon, <1>3 DEF IsRead
  <2> HIDE DEF q, L
  <2>3. q \in Nat /\ L \in Nat /\ Len(buf) \in Nat
    BY Zenon, <1>2, <2>1, <2>2, LenIsNat
  <2>4. q + Len(buf) <= L
    BY <2>2, <2>3
  <2> QED BY <2>2, <2>4
<1>5. /\ Count(v, f, j + m) /\ j + m \in Nat
      /\ Len(Behind(v, f)[j + m]) = q + m
      /\ Spoken(v, f, d)[j + m] = Spoken(v, f, d)[j] \o out
  <2> HIDE DEF f, j
  <2>1. GoesBy(v, f, d, j, m, out)
    BY <1>1, <1>4, RunOfTexts
  <2> QED BY <2>1 DEF GoesBy
<1>6. out \in Seq(OutWord)
  <2>1. buf \in Seq(OutWord)
    BY <1>4 DEF OutWord
  <2> QED BY <2>1
<1>7. sent \o out \in Seq(OutWord) /\ sent \o out = b \o Spoken(v, f, d)[j + m]
  <2> DEFINE s == Spoken(v, f, d)[j]
  <2> HIDE DEF s, out, b
  <2>1. sent \in Seq(OutWord) /\ s \in Seq(OutWord) /\ sent = b \o s /\ out \in Seq(OutWord) /\ b \in Seq(OutWord)
    BY <1>1, <1>2, <1>6 DEF s
  <2>2. sent \o out \in Seq(OutWord) /\ (b \o s) \o out = b \o (s \o out)
    BY SMTT(30), <2>1
  <2> QED BY Zenon, <1>5, <2>1, <2>2 DEF s
<1>8. Reaches(v, d, fr[0], sent, j + m, m, out)
  <2> DEFINE e == Begun(f, j + m, b)
  <2>1. e.file = f /\ e.done = j + m /\ e.before = b
    BY DEF Begun
  <2> HIDE DEF e, out
  <2>2. SaidIs(v, e, d, sent \o out)
    BY <1>7, <2>1 DEF SaidIs
  <2>3. Count(v, f, j + m) /\ j + m \in Nat
    BY <1>5
  <2> QED BY Zenon, <1>5, <1>7, <2>2, <2>3 DEF Reaches, e
<1> QED BY <1>3, <1>8 DEF d

(* A mark is found, the texts before it are sent.                          *)
LEMMA AtAMark ==
  ASSUME NEW v \in Images, HoldsAll(v), NEW whole, NEW w, NEW k, NEW fr, NEW sent,
         Here(v, whole, w, k, fr, sent), "FINDCB" \notin w.flags, NEW n \in Nat,
         NEW buf, buf = GetArray(w.stub, w.files[0], n),
         NEW at \in 1..Len(buf), buf[at] = Mark, \A i \in 1..at - 1 : buf[i] # Mark
  PROVE  LET u == SetSCB([w EXCEPT !.stub = Advance(@, w.files[0], at)], {"FINDCB"})
         IN After(v, whole, sent, Turned(u, SubSeq(buf, 1, at - 1), <<>>, TRUE))
<1> DEFINE d == Depth(k, 0)
           f == fr[0].file
           m == at - 1
           j == fr[0].done + m
           q == Len(Behind(v, f)[fr[0].done])
           L == Len(FileData[v][f])
           out == SubSeq(buf, 1, m)
           u == SetSCB([w EXCEPT !.stub = Advance(@, w.files[0], at)], {"FINDCB"})
           r == Len(Behind(v, f)[j])
           N == Len(Directory[v][f].parts)
<1>1. d \in 0..MaxNest /\ f \in Files(v) /\ Told(v, f) /\ Fits[d][v][f] /\ w.files[0] \in Handles
      /\ fr[0].done \in 0..N
  BY HereFacts
<1>2. m \in 0..Len(buf) /\ at \in Nat /\ m + 1 = at
  OBVIOUS
<1> HIDE DEF d, m, out
<1>3. Reaches(v, d, fr[0], sent, j, m, out) /\ IsRead(v, f, q, n, buf)
  <2>1. \A i \in 1..m : buf[i] # Mark
    BY DEF m
  <2> QED BY <1>2, <2>1, TextsRead DEF d, out
<1> HIDE DEF f, j, q
<1>4. /\ r = q + m /\ q \in Nat /\ q + at <= L /\ L \in Nat /\ FileData[v][f][q + at] = Mark
  <2>1. r = q + m
    BY <1>3 DEF Reaches, f, q
  <2>2. L \in Nat
    BY <1>1, FileWords
  <2>3. /\ q \in Nat /\ q <= L /\ Len(buf) = IF n < L - q THEN n ELSE L - q
        /\ FileData[v][f][q + at] = buf[at]
    BY <1>3 DEF IsRead
  <2> HIDE DEF L, r
  <2>4. Len(buf) <= L - q
    BY <2>2, <2>3
  <2>5. at <= Len(buf) /\ Len(buf) \in Nat
    BY <1>3 DEF IsRead
  <2>6. q + at <= L
    <3> DEFINE z == Len(buf)
    <3>1. z <= L - q /\ at <= z /\ z \in Nat
      BY <2>4, <2>5
    <3> HIDE DEF z
    <3> QED BY <1>2, <2>2, <2>3, <3>1
  <2> QED BY <2>1, <2>2, <2>3, <2>6
<1>5. Count(v, f, j) /\ sent \o out \in Seq(OutWord) /\ SaidIs(v, Begun(f, j, fr[0].before), d, sent \o out)
  BY <1>3 DEF Reaches, f
<1>6. j < N /\ Directory[v][f].parts[j + 1].kind # "text"
  <2>1. r < L /\ r + 1 = q + at
    <3> HIDE DEF r, L
    <3> QED BY <1>2, <1>4
  <2>2. j \in 0..N
    BY <1>5 DEF Count
  <2> QED BY <1>1, <1>4, <2>1, <2>2, BehindRun
<1>7. MovedTo(w, u, v, f, q + at, w.flags \cup {"FINDCB"})
  <2>1. w.stub[w.files[0]] = At(v, f, q)
    <3>1. w.stub[w.files[0]] = At(v, f, q + Ahead(w))
      BY DEF Here, Stands, f, q
    <3>2. q + Ahead(w) = q
      BY <1>4 DEF Ahead
    <3> QED BY <3>1, <3>2
  <2>2. Sound(w)
    BY DEF Here
  <2> QED BY <1>1, <1>2, <1>4, <2>1, <2>2, Moved
<1> HIDE DEF u
<1>8. Stands(v, u, f, j)
  <2>1. Ahead(u) = 1 /\ u.stub[u.files[0]] = At(v, f, q + at) /\ "RETRYCB" \notin u.flags
    BY <1>7 DEF MovedTo, Ahead, Here
  <2>2. q + at = r + 1
    <3> HIDE DEF r
    <3> QED BY <1>2, <1>4
  <2> QED BY <1>6, <2>1, <2>2 DEF Stands
<1>9. Same(w, u) /\ Tuple(u) /\ {"FOPEN", "FCALBACK"} \subseteq u.flags /\ "FCLOSE" \notin u.flags
  BY <1>7 DEF MovedTo, Here, Ready
<1> DEFINE s == sent \o out
<1>10. s \in Seq(OutWord) /\ s \o <<>> = s /\ <<>> \in Seq(Word)
  BY <1>5
<1>11. SaidIs(v, Begun(f, j, fr[0].before), d, s \o <<>>)
  BY <1>5, <1>10
<1> HIDE DEF s
<1>12. ParsedAt(v, whole, u, s, <<>>)
  <2>1. Stack(v, whole, w, k, fr) /\ Own(w)
    BY DEF Here
  <2> QED BY <1>5, <1>8, <1>9, <1>10, <1>11, <2>1, Placed DEF f, d
<1> QED BY <1>9, <1>12 DEF After, Turned, s, u, out, m

(* A full buffer of texts is sent.                                         *)
LEMMA InTheTexts ==
  ASSUME NEW v \in Images, HoldsAll(v), NEW whole, NEW w, NEW k, NEW fr, NEW sent,
         Here(v, whole, w, k, fr, sent), "FINDCB" \notin w.flags, NEW n \in Nat,
         NEW buf, buf = GetArray(w.stub, w.files[0], n),
         Len(buf) = n, \A i \in 1..n : buf[i] # Mark
  PROVE  LET u == ClrSCB([w EXCEPT !.stub = Advance(@, w.files[0], n)], {"FINDCB"})
         IN After(v, whole, sent, Turned(u, buf, <<>>, TRUE))
<1> DEFINE d == Depth(k, 0)
           f == fr[0].file
           j == fr[0].done + n
           q == Len(Behind(v, f)[fr[0].done])
           u == ClrSCB([w EXCEPT !.stub = Advance(@, w.files[0], n)], {"FINDCB"})
<1>1. d \in 0..MaxNest /\ f \in Files(v) /\ w.files[0] \in Handles
  BY HereFacts
<1> HIDE DEF d
<1>2. n \in 0..Len(buf)
  OBVIOUS
<1>3. Reaches(v, d, fr[0], sent, j, n, SubSeq(buf, 1, n)) /\ IsRead(v, f, q, n, buf)
  BY <1>2, TextsRead DEF d
<1> HIDE DEF f, j, q
<1>4. SubSeq(buf, 1, n) = buf /\ q \in Nat
  BY <1>3 DEF IsRead
<1>5. /\ Count(v, f, j) /\ sent \o buf \in Seq(OutWord) /\ SaidIs(v, Begun(f, j, fr[0].before), d, sent \o buf)
      /\ Len(Behind(v, f)[j]) = q + n
  BY <1>3, <1>4 DEF Reaches, f, q
<1>6. MovedTo(w, u, v, f, q + n, w.flags \ {"FINDCB"})
  <2>1. w.stub[w.files[0]] = At(v, f, q)
    <3>1. w.stub[w.files[0]] = At(v, f, q + Ahead(w))
      BY DEF Here, Stands, f, q
    <3>2. q + Ahead(w) = q
      BY <1>4 DEF Ahead
    <3> QED BY <3>1, <3>2
  <2>2. Sound(w)
    BY DEF Here
  <2> QED BY <1>1, <1>4, <2>1, <2>2, Moved
<1> HIDE DEF u
<1>7. Stands(v, u, f, j)
  <2>1. Ahead(u) = 0 /\ u.stub[u.files[0]] = At(v, f, q + n) /\ "FINDCB" \notin u.flags
    BY <1>6 DEF MovedTo, Ahead
  <2>2. q + n = (q + n) + 0
    BY <1>4
  <2> QED BY <1>5, <2>1, <2>2 DEF Stands
<1>8. Same(w, u) /\ Tuple(u) /\ {"FOPEN", "FCALBACK"} \subseteq u.flags /\ "FCLOSE" \notin u.flags
  BY <1>6 DEF MovedTo, Here, Ready
<1> DEFINE s == sent \o buf
<1>9. s \in Seq(OutWord) /\ s \o <<>> = s /\ <<>> \in Seq(Word)
  BY <1>5
<1>10. SaidIs(v, Begun(f, j, fr[0].before), d, s \o <<>>)
  BY <1>5, <1>9
<1> HIDE DEF s
<1>11. ParsedAt(v, whole, u, s, <<>>)
  <2>1. Stack(v, whole, w, k, fr) /\ Own(w)
    BY DEF Here
  <2> QED BY <1>5, <1>7, <1>8, <1>9, <1>10, <2>1, Placed DEF f, d
<1> QED BY <1>8, <1>11 DEF After, Turned, s, u

LEMMA OwnsOn ==
  ASSUME NEW w, Own(w), NEW u, Same(w, u), NEW v, NEW f, NEW p, u.stub[u.files[0]] = At(v, f, p)
  PROVE  Own(u)
<1>1. u.files = w.files /\ u.stub[w.files[0]] # Free
  BY OpenIsNotFree DEF Same, At
<1>2. ASSUME NEW i \in Slots, w.files[i] \in Handles PROVE u.stub[w.files[i]] # Free
  <2>1. CASE w.files[i] = w.files[0]
    BY <1>1, <2>1
  <2>2. CASE w.files[i] # w.files[0]
    BY <1>2, <2>2 DEF Same, Own
  <2> QED BY <2>1, <2>2
<1> QED BY <1>1, <1>2 DEF Own

(* The last texts of a file are sent, or none are left.                    *)
LEMMA AtTheLast ==
  ASSUME NEW v \in Images, HoldsAll(v), NEW whole \in Seq(OutWord), NEW w, NEW k, NEW fr, NEW sent,
         Here(v, whole, w, k, fr, sent), "FINDCB" \notin w.flags, NEW n \in Nat,
         NEW buf, buf = GetArray(w.stub, w.files[0], n),
         Len(buf) < n, \A i \in 1..Len(buf) : buf[i] # Mark
  PROVE  LET u == ClrSCB([w EXCEPT !.stub = Advance(@, w.files[0], Len(buf))], {"FINDCB"})
         IN /\ After(v, whole, sent, Turned(AtEnd(u), buf, <<>>, TRUE))
            /\ Len(buf) = 0 => After(v, whole, sent, Turned(AtEnd(w), <<>>, <<>>, TRUE))
<1> DEFINE d == Depth(k, 0)
           f == fr[0].file
           m == Len(buf)
           j == fr[0].done + m
           q == Len(Behind(v, f)[fr[0].done])
           L == Len(FileData[v][f])
           r == Len(Behind(v, f)[j])
           N == Len(Directory[v][f].parts)
           u == ClrSCB([w EXCEPT !.stub = Advance(@, w.files[0], m)], {"FINDCB"})
<1>1. d \in 0..MaxNest /\ f \in Files(v) /\ Told(v, f) /\ Fits[d][v][f] /\ w.files[0] \in Handles
      /\ fr[0].done \in 0..N
  BY HereFacts
<1>2. m \in 0..Len(buf) /\ m \in Nat
  <2>1. f \in Files(v) /\ d \in 0..MaxNest /\ IsFrame(v, d, whole, fr[0])
    BY HereFacts
  <2> HIDE DEF d, f
  <2>2. IsRead(v, fr[0].file, Len(Behind(v, fr[0].file)[fr[0].done]) + Ahead(w), n, buf)
    BY Zenon, <2>1, Looks DEF Here
  <2>3. buf \in Seq(Word)
    BY <2>2 DEF IsRead
  <2> QED BY <2>3
<1> HIDE DEF d, m
<1>3. Reaches(v, d, fr[0], sent, j, m, SubSeq(buf, 1, m)) /\ IsRead(v, f, q, n, buf)
  <2>1. \A i \in 1..m : buf[i] # Mark
    BY DEF m
  <2> QED BY <1>2, <2>1, TextsRead DEF d
<1> HIDE DEF f, j, q
<1>4. SubSeq(buf, 1, m) = buf /\ q \in Nat
  BY <1>3 DEF IsRead, m
<1>5. /\ Count(v, f, j) /\ sent \o buf \in Seq(OutWord) /\ SaidIs(v, Begun(f, j, fr[0].before), d, sent \o buf)
      /\ r = q + m
  BY <1>3, <1>4 DEF Reaches, f, q
<1>6. r = L
  <2>1. L \in Nat
    BY <1>1, FileWords
  <2>2. q \in Nat /\ q <= L /\ m = IF n < L - q THEN n ELSE L - q
    BY <1>3 DEF IsRead, m
  <2>3. m < n
    BY DEF m
  <2> HIDE DEF L, r
  <2> QED BY <1>2, <1>5, <2>1, <2>2, <2>3
<1>7. j = N
  BY <1>1, <1>5, <1>6, BehindRun DEF Count
<1>8. MovedTo(w, u, v, f, q + m, w.flags \ {"FINDCB"})
  <2>1. w.stub[w.files[0]] = At(v, f, q)
    <3>1. w.stub[w.files[0]] = At(v, f, q + Ahead(w))
      BY DEF Here, Stands, f, q
    <3>2. q + Ahead(w) = q
      BY <1>4 DEF Ahead
    <3> QED BY <3>1, <3>2
  <2>2. Sound(w)
    BY DEF Here
  <2> QED BY <1>1, <1>2, <1>4, <2>1, <2>2, Moved
<1> HIDE DEF u
<1>9. Own(u) /\ Ready(u) /\ Same(w, u) /\ u.flags \cap {"FINDCB", "RETRYCB"} = {}
  <2>1. Own(u)
    BY <1>8, OwnsOn DEF MovedTo, Here
  <2> QED BY <1>8, <2>1 DEF MovedTo, Here, Ready
<1>10. PICK fs : Stack(v, whole, u, k, fs) /\ fs[0] = Begun(f, j, fr[0].before)
  BY <1>5, <1>9, DoneOn DEF Here, f
<1>11. AllDone(v, fs[0]) /\ SaidIs(v, fs[0], d, sent \o buf)
  <2>1. fs[0].file = f /\ fs[0].done = j
    BY <1>10 DEF Begun
  <2> QED BY <1>5, <1>7, <1>10, <2>1 DEF AllDone
<1>12. After(v, whole, sent, Turned(AtEnd(u), buf, <<>>, TRUE))
  BY <1>5, <1>9, <1>10, <1>11, FileEnds DEF d
<1>13. ASSUME m = 0 PROVE After(v, whole, sent, Turned(AtEnd(w), <<>>, <<>>, TRUE))
  <2>1. Stack(v, whole, w, k, fr) /\ Own(w) /\ Ready(w) /\ w.flags \cap {"FINDCB", "RETRYCB"} = {}
    BY DEF Here
  <2>2. AllDone(v, fr[0])
    <3>1. fr[0].done = j
      <4>1. N \in Nat
        BY <1>1, PartFacts
      <4> QED BY <1>1, <1>13, <4>1 DEF j
    <3> QED BY <1>7, <3>1 DEF AllDone, f
  <2>3. sent \o <<>> = sent /\ sent \in Seq(OutWord)
    BY DEF Here
  <2>4. SaidIs(v, fr[0], Depth(k, 0), sent \o <<>>) /\ sent \o <<>> \in Seq(OutWord)
    BY <2>3 DEF Here
  <2> QED BY <2>1, <2>2, <2>4, FileEnds
<1> QED BY <1>12, <1>13 DEF u, m

(* A part is done.                                                         *)
Unfinished(v, e) == e.done < Len(Directory[v][e.file].parts)
Becomes(v, d, e, out) == out = Piece(v, d, Directory[v][e.file].parts[e.done + 1])
LEMMA PartSaid ==
  ASSUME NEW v \in Images, NEW whole, NEW d \in 0..MaxNest, NEW e, IsFrame(v, d, whole, e),
         Unfinished(v, e), NEW sent \in Seq(OutWord), SaidIs(v, e, d, sent),
         NEW out, Becomes(v, d, e, out)
  PROVE  /\ Count(v, e.file, e.done + 1) /\ sent \o out \in Seq(OutWord)
         /\ SaidIs(v, Begun(e.file, e.done + 1, e.before), d, sent \o out)
         /\ NextPart(v, e.file, d, e.done)
<1> DEFINE f == e.file
           j == e.done
           b == e.before
           s == Spoken(v, f, d)[j]
           N == Len(Directory[v][f].parts)
           x == Begun(f, j + 1, b)
<1>1. f \in Files(v) /\ Told(v, f) /\ Fits[d][v][f] /\ j \in 0..N /\ N \in Nat /\ b \in Seq(OutWord)
  BY PartFacts DEF IsFrame
<1>2. j \in 0..N - 1 /\ j + 1 \in 0..N
  <2>1. j < N
    BY DEF Unfinished
  <2> HIDE DEF N, j
  <2> QED BY <1>1, <2>1
<1> HIDE DEF N
<1>3. NextPart(v, f, d, j) /\ s \in Seq(OutWord)
  BY Zenon, <1>1, <1>2, Progress DEF N
<1>4. out \in Seq(OutWord) /\ Spoken(v, f, d)[j + 1] = s \o out
  BY Zenon, <1>3 DEF NextPart, Becomes
<1>5. sent = b \o s
  BY DEF SaidIs
<1>6. x.file = f /\ x.done = j + 1 /\ x.before = b
  BY DEF Begun
<1> HIDE DEF s, x
<1>7. sent \o out \in Seq(OutWord) /\ sent \o out = b \o (s \o out)
  <2> HIDE DEF b
  <2>1. s \in Seq(OutWord) /\ b \in Seq(OutWord) /\ out \in Seq(OutWord) /\ sent = b \o s
    BY <1>1, <1>3, <1>4, <1>5
  <2>2. sent \o out \in Seq(OutWord)
    BY <2>1
  <2>3. (b \o s) \o out = b \o (s \o out)
    BY <2>1, Regroup
  <2> QED BY <2>1, <2>2, <2>3
<1>8. SaidIs(v, x, d, sent \o out)
  BY Zenon, <1>4, <1>6, <1>7 DEF SaidIs
<1> QED BY <1>2, <1>3, <1>7, <1>8 DEF Count, N, x

(* Behind a mark: another, or a part and a mark.                           *)
Marked(p, buf) ==
  /\ p.kind \in {"tilde", "call", "inc"}
  /\ p.kind = "tilde" => Len(buf) >= 1 /\ buf[1] = Mark
  /\ p.kind \in {"call", "inc"} => Len(buf) >= 2 /\ buf[1] = p /\ p # Mark /\ buf[2] = Mark

LEMMA BehindAMark ==
  ASSUME NEW v \in Images, HoldsAll(v), NEW whole, NEW w, NEW k, NEW fr, NEW sent,
         Here(v, whole, w, k, fr, sent), "FINDCB" \in w.flags, NEW n \in Nat, n >= 2,
         NEW buf, buf = GetArray(w.stub, w.files[0], n)
  PROVE  /\ Marked(Directory[v][fr[0].file].parts[fr[0].done + 1], buf) /\ buf \in Seq(Word)
         /\ Unfinished(v, fr[0])
<1> DEFINE d == Depth(k, 0)
           f == fr[0].file
           j == fr[0].done
           p == Directory[v][f].parts[j + 1]
           q == Len(Behind(v, f)[j])
           D == FileData[v][f]
<1>1. d \in 0..MaxNest /\ IsFrame(v, d, whole, fr[0]) /\ f \in Files(v)
  BY Zenon, HereFacts
<1>2. j < Len(Directory[v][f].parts) /\ p.kind # "text" /\ Ahead(w) = 1
  BY DEF Here, Stands, Ahead
<1> HIDE DEF d
<1>3. NextPart(v, f, d, j)
  <2>1. Unfinished(v, fr[0])
    BY <1>2 DEF Unfinished
  <2> DEFINE out == Piece(v, d, p)
  <2>2. Becomes(v, d, fr[0], out)
    BY DEF Becomes
  <2> HIDE DEF out
  <2> QED BY <1>1, <2>1, <2>2, PartSaid DEF Here, d
<1>4. IsRead(v, f, q + 1, n, buf)
  BY <1>1, <1>2, Looks DEF Here
<1>5. /\ buf \in Seq(Word) /\ q + 1 \in Nat /\ q \in Nat
      /\ Len(buf) = IF n < Len(D) - (q + 1) THEN n ELSE Len(D) - (q + 1)
      /\ \A i \in 1..Len(buf) : buf[i] = D[(q + 1) + i]
      /\ Len(D) \in Nat /\ Len(buf) \in Nat
  <2>1. d \in 0..MaxNest /\ Told(v, f) /\ Fits[d][v][f] /\ j \in 0..Len(Directory[v][f].parts)
    BY <1>1 DEF IsFrame
  <2>2. q \in Nat /\ Len(D) \in Nat
    BY SMTT(30), <1>1, <2>1, FileWords, Progress
  <2> HIDE DEF q, D
  <2>3. /\ buf \in Seq(Word) /\ q + 1 \in Nat
        /\ Len(buf) = IF n < Len(D) - (q + 1) THEN n ELSE Len(D) - (q + 1)
        /\ \A i \in 1..Len(buf) : buf[i] = D[(q + 1) + i]
    BY <1>4 DEF IsRead, D
  <2>4. Len(buf) \in Nat
    BY <2>3
  <2> QED BY <2>2, <2>3, <2>4
<1>6. /\ p.kind \in {"tilde", "call", "inc"}
      /\ p.kind = "tilde" => q + 2 <= Len(D) /\ D[q + 2] = Mark
      /\ p.kind \in {"call", "inc"} => q + 3 <= Len(D) /\ D[q + 2] = p /\ D[q + 3] = Mark
  BY Zenon, <1>2, <1>3 DEF NextPart
<1> DEFINE L == Len(D)
           l == Len(buf)
<1> HIDE DEF q, D, p
<1>7. L \in Nat /\ l \in Nat /\ q \in Nat /\ l = IF n < L - (q + 1) THEN n ELSE L - (q + 1)
  BY <1>5
<1>8. l >= 1 => buf[1] = D[q + 2]
  <2>1. l >= 1 => 1 \in 1..l /\ (q + 1) + 1 = q + 2
    BY <1>7
  <2> QED BY <1>5, <2>1
<1>9. l >= 2 => buf[2] = D[q + 3]
  <2>1. l >= 2 => 2 \in 1..l /\ (q + 1) + 2 = q + 3
    BY <1>7
  <2> QED BY <1>5, <2>1
<1>10. q + 2 <= L => l >= 1
  <2> HIDE DEF l, L
  <2> QED BY <1>7
<1>11. q + 3 <= L => l >= 2 /\ l >= 1
  <2> HIDE DEF l, L
  <2> QED BY <1>7
<1>12. p.kind \in {"call", "inc"} => p # Mark
  BY DEF Mark, Part
<1>13. Marked(p, buf)
  BY <1>6, <1>8, <1>9, <1>10, <1>11, <1>12 DEF Marked
<1> QED BY <1>2, <1>5, <1>13 DEF p, Unfinished

(* The next part was read up to and with its last mark, and out was said   *)
(* of it: the file goes on behind it.                                      *)
LEMMA NextIsDone ==
  ASSUME NEW v \in Images, NEW whole, NEW w, NEW k, NEW fr, NEW sent,
         Here(v, whole, w, k, fr, sent), Unfinished(v, fr[0]),
         NEW u, MovedTo(w, u, v, fr[0].file, Len(Behind(v, fr[0].file)[fr[0].done + 1]), w.flags \ {"FINDCB"}),
         NEW out, Becomes(v, Depth(k, 0), fr[0], out)
  PROVE  /\ Stands(v, u, fr[0].file, fr[0].done + 1) /\ Count(v, fr[0].file, fr[0].done + 1)
         /\ SaidIs(v, Begun(fr[0].file, fr[0].done + 1, fr[0].before), Depth(k, 0), sent \o out)
         /\ sent \o out \in Seq(OutWord)
         /\ Ready(u) /\ Own(u) /\ Same(w, u) /\ u.flags \cap {"FINDCB", "RETRYCB"} = {}
<1> DEFINE d == Depth(k, 0)
           f == fr[0].file
           j == fr[0].done + 1
           r == Len(Behind(v, f)[j])
<1>1. d \in 0..MaxNest /\ IsFrame(v, d, whole, fr[0]) /\ f \in Files(v) /\ Told(v, f) /\ Fits[d][v][f]
  BY HereFacts
<1>2. /\ Count(v, f, j) /\ sent \o out \in Seq(OutWord)
      /\ SaidIs(v, Begun(f, j, fr[0].before), d, sent \o out)
  <2> HIDE DEF d
  <2> QED BY <1>1, PartSaid DEF Here, d
<1>3. r \in Nat
  BY <1>1, <1>2, Progress DEF Count
<1>4. Stands(v, u, f, j)
  <2> HIDE DEF f, j
  <2>1. u.stub[u.files[0]] = At(v, f, r) /\ "FINDCB" \notin u.flags /\ Ahead(u) = 0
    BY DEF MovedTo, Ahead, f, j
  <2>2. r + 0 = r
    BY <1>3
  <2> QED BY <2>1, <2>2 DEF Stands
<1>5. Own(u)
  BY OwnsOn DEF MovedTo, Here
<1>6. Ready(u) /\ Same(w, u) /\ u.flags \cap {"FINDCB", "RETRYCB"} = {}
  BY DEF MovedTo, Here, Ready
<1> QED BY <1>2, <1>4, <1>5, <1>6

(* Such a part that is said at once.                                       *)
LEMMA NextIsSaid ==
  ASSUME NEW v \in Images, NEW whole, NEW w, NEW k, NEW fr, NEW sent,
         Here(v, whole, w, k, fr, sent), Unfinished(v, fr[0]),
         NEW u, MovedTo(w, u, v, fr[0].file, Len(Behind(v, fr[0].file)[fr[0].done + 1]), w.flags \ {"FINDCB"}),
         NEW out, Becomes(v, Depth(k, 0), fr[0], out), NEW fits
  PROVE  After(v, whole, sent, Turned(u, out, <<>>, fits))
<1> DEFINE j == fr[0].done + 1
           s == sent \o out
<1>1. /\ Stands(v, u, fr[0].file, j) /\ Count(v, fr[0].file, j) /\ s \in Seq(OutWord)
      /\ SaidIs(v, Begun(fr[0].file, j, fr[0].before), Depth(k, 0), s)
      /\ Ready(u) /\ Same(w, u)
  BY NextIsDone
<1> HIDE DEF j, s
<1>2. s \o <<>> = s /\ <<>> \in Seq(Word)
  BY <1>1
<1>3. SaidIs(v, Begun(fr[0].file, j, fr[0].before), Depth(k, 0), s \o <<>>)
  BY <1>1, <1>2
<1>4. Stack(v, whole, w, k, fr) /\ Own(w) /\ Tuple(u) /\ {"FOPEN", "FCALBACK"} \subseteq u.flags
      /\ "FCLOSE" \notin u.flags
  BY <1>1 DEF Here, Ready
<1>5. ParsedAt(v, whole, u, s, <<>>)
  BY Zenon, <1>1, <1>2, <1>3, <1>4, Placed
<1> QED BY <1>4, <1>5 DEF After, Turned, s

(* Up to where the next part reaches.                                      *)
LEMMA ToTheNext ==
  ASSUME NEW v \in Images, NEW whole, NEW w, NEW k, NEW fr, NEW sent,
         Here(v, whole, w, k, fr, sent), "FINDCB" \in w.flags, Unfinished(v, fr[0]), NEW n \in Nat,
         Directory[v][fr[0].file].parts[fr[0].done + 1].kind = "tilde" => n = 1,
         Directory[v][fr[0].file].parts[fr[0].done + 1].kind \in {"call", "inc"} => n = 2
  PROVE  LET u == ClrSCB([w EXCEPT !.stub = Advance(@, w.files[0], n)], {"FINDCB"})
         IN /\ MovedTo(w, u, v, fr[0].file, Len(Behind(v, fr[0].file)[fr[0].done + 1]), w.flags \ {"FINDCB"})
            /\ Sound(u)
<1> DEFINE d == Depth(k, 0)
           f == fr[0].file
           j == fr[0].done
           p == Directory[v][f].parts[j + 1]
           q == Len(Behind(v, f)[j])
           r == Len(Behind(v, f)[j + 1])
           u0 == [w EXCEPT !.stub = Advance(@, w.files[0], n)]
           u == ClrSCB(u0, {"FINDCB"})
<1>1. d \in 0..MaxNest /\ IsFrame(v, d, whole, fr[0]) /\ f \in Files(v) /\ w.files[0] \in Handles
      /\ Told(v, f) /\ Fits[d][v][f] /\ j \in 0..Len(Directory[v][f].parts)
  BY Zenon, HereFacts
<1>2. p.kind # "text" /\ Ahead(w) = 1
  BY Zenon DEF Here, Stands, Ahead
<1>3. NextPart(v, f, d, j)
  <2> DEFINE out == Piece(v, d, p)
  <2>1. Becomes(v, d, fr[0], out)
    BY Zenon DEF Becomes
  <2> HIDE DEF out, d
  <2> QED BY <1>1, <2>1, PartSaid DEF Here, d
<1>4. q \in Nat
  BY <1>1, Progress
<1>5. r = (q + 1) + n
  <2>1. (p.kind = "tilde" /\ r = q + 2) \/ (p.kind \in {"call", "inc"} /\ r = q + 3)
    BY Zenon, <1>2, <1>3 DEF NextPart
  <2>2. (n = 1 /\ r = q + 2) \/ (n = 2 /\ r = q + 3)
    BY Zenon, <2>1
  <2> HIDE DEF q, r
  <2> QED BY <1>4, <2>2
<1>6. w.stub[w.files[0]] = At(v, f, q + 1)
  BY Zenon, <1>2 DEF Here, Stands
<1>7. MovedTo(w, u, v, f, (q + 1) + n, w.flags \ {"FINDCB"})
  <2>1. q + 1 \in Nat /\ Sound(w)
    BY <1>4 DEF Here
  <2> HIDE DEF q, f
  <2> QED BY Zenon, <1>1, <1>6, <2>1, Moved
<1>8. Sound(u)
  <2>1. Keeps(w, u0)
    <3>1. Has(w, w.files[0])
      BY Bounds DEF Has
    <3> QED BY <3>1, Reading DEF Here
  <2> HIDE DEF u0
  <2> QED BY Zenon, <2>1, Flagging2 DEF Keeps
<1> HIDE DEF u
<1>9. MovedTo(w, u, v, f, r, w.flags \ {"FINDCB"})
  BY Zenon, <1>5, <1>7
<1> QED BY <1>8, <1>9 DEF u

(* A page variable.                                                        *)
LEMMA AtAVariable ==
  ASSUME left \in Nat, NEW v \in Images, NEW whole, NEW w, NEW k, NEW fr, NEW sent,
         Here(v, whole, w, k, fr, sent), Unfinished(v, fr[0]),
         NEW u, MovedTo(w, u, v, fr[0].file, Len(Behind(v, fr[0].file)[fr[0].done + 1]), w.flags \ {"FINDCB"}),
         NEW p, p = Directory[v][fr[0].file].parts[fr[0].done + 1], p.kind = "call"
  PROVE  After(v, whole, sent, SendCallback(u, <<p>>))
<1> DEFINE text == Output[p.x]
           j == fr[0].done + 1
           N == Len(Directory[v][fr[0].file].parts)
<1>1. fr[0].file \in Files(v) /\ fr[0].done \in 0..N /\ N \in Nat
  BY HereFacts, PartFacts
<1>2. j \in 1..N
  <2>1. fr[0].done < N
    BY DEF Unfinished
  <2> DEFINE z == fr[0].done
  <2> HIDE DEF z, N
  <2>2. z + 1 \in 1..N
    BY <1>1, <2>1 DEF z
  <2> QED BY <2>2 DEF z
<1>3. text \in Seq(Texts)
  BY <1>1, <1>2, PartFacts
<1>4. text \in Seq(Word)
  <2>1. Texts \subseteq Word
    BY DEF Texts, Word, Parts
  <2> HIDE DEF text
  <2> QED BY <1>3, <2>1
<1>5. Becomes(v, Depth(k, 0), fr[0], text)
  BY DEF Becomes, Piece
<1> HIDE DEF text, j
<1>6. /\ Stands(v, u, fr[0].file, j) /\ Count(v, fr[0].file, j)
      /\ SaidIs(v, Begun(fr[0].file, j, fr[0].before), Depth(k, 0), sent \o text)
      /\ Ready(u) /\ Own(u) /\ Same(w, u) /\ u.flags \cap {"FINDCB", "RETRYCB"} = {}
  BY Zenon, <1>5, NextIsDone DEF j
<1>7. sent \in Seq(OutWord) /\ Stack(v, whole, w, k, fr) /\ Own(w)
  BY DEF Here
<1>8. PICK fs : Stack(v, whole, u, k, fs) /\ fs[0] = Begun(fr[0].file, j, fr[0].before)
  BY <1>6, <1>7, DoneOn
<1>9. fs[0].file = fr[0].file /\ fs[0].before = fr[0].before
  BY <1>8 DEF Begun
<1>10. After(v, whole, sent, SendVariable(u, text))
  BY Zenon, <1>4, <1>6, <1>7, <1>8, <1>9, Varies
<1>11. SendCallback(u, <<p>>) = SendVariable(u, text)
  BY Zenon DEF SendCallback, text
<1> QED BY Zenon, <1>10, <1>11
-----------------------------------------------------------------------------
(* A file that is included is parsed as the page is, whatever its flag in  *)
(* the FAT says: it has to be text when the flag is not set.               *)
PlainIncludes(v) ==
  \A f \in Files(v) : Directory[v][f].parsed =>
    \A i \in 1..Len(Directory[v][f].parts) :
      LET p == Directory[v][f].parts[i]
      IN (p.kind = "inc" /\ IncludeOf(v, p) # 0) => Told(v, IncludeOf(v, p))

LEMMA OnThisDisk ==
  ASSUME NEW v \in Images, HoldsAll(v)
  PROVE  /\ disk[0] = v
         /\ \A name : Lookup(name) = IF Named(v, name) = {} THEN 0 ELSE Find(v, name)
<1>1. disk[0] = v
  <2>1. 0 \in 0..Blocks(v) - 1
    BY BlockFacts, WebFSAssumption
  <2> QED BY <2>1 DEF HoldsAll
<1>2. v # None /\ numFiles # None
  BY WebFSAssumption DEF HoldsAll
<1> QED BY <1>1, <1>2 DEF Lookup

(* What the name between two marks says, and what the server makes of it.  *)
LEMMA Resolved ==
  ASSUME NEW v \in Images, HoldsAll(v), NEW u, Ready(u), NEW p
  PROVE  /\ CanInclude(u, p.x) =>
              /\ IncludeOf(v, p) # 0 /\ Lookup(p.x) = IncludeOf(v, p) /\ HasHandle(u.stub)
         /\ ~CanInclude(u, p.x) =>
              (IncludeOf(v, p) = 0 \/ ~(Lookup(p.x) = 0 \/ CanOpen(u, p.x)))
<1>1. /\ disk[0] = v
      /\ Lookup(p.x) = IF Named(v, p.x) = {} THEN 0 ELSE Find(v, p.x)
  BY OnThisDisk
<1>2. "FOPEN" \in u.flags
  BY DEF Ready
<1>3. CanInclude(u, p.x) <=> (CanOpen(u, p.x) /\ ~Directory[v][Lookup(p.x)].zipped)
  BY <1>1, <1>2 DEF CanInclude, Zipped
<1>4. ASSUME CanInclude(u, p.x)
      PROVE  IncludeOf(v, p) # 0 /\ Lookup(p.x) = IncludeOf(v, p) /\ HasHandle(u.stub)
  <2>1. Lookup(p.x) # 0 /\ HasHandle(u.stub) /\ ~Directory[v][Lookup(p.x)].zipped
    BY <1>3, <1>4 DEF CanOpen
  <2>2. Named(v, p.x) # {} /\ Lookup(p.x) = Find(v, p.x)
    BY <1>1, <2>1
  <2> QED BY <2>1, <2>2 DEF IncludeOf
<1>5. ASSUME ~CanInclude(u, p.x), IncludeOf(v, p) # 0, Lookup(p.x) = 0 \/ CanOpen(u, p.x)
      PROVE  FALSE
  <2>1. Named(v, p.x) # {} /\ ~Directory[v][Find(v, p.x)].zipped /\ IncludeOf(v, p) = Find(v, p.x)
    BY <1>5 DEF IncludeOf
  <2>2. Lookup(p.x) = Find(v, p.x) /\ Lookup(p.x) # 0
    BY <1>1, <1>5, <2>1
  <2> QED BY <1>3, <1>5, <2>1, <2>2
<1> QED BY <1>4, <1>5

LEMMA Pushing ==
  ASSUME NEW v \in Images, HoldsAll(v), NEW w, Sound(w), Own(w), Ready(w), NEW name,
         NEW g \in Files(v), Lookup(name) = g
  PROVE  LET u == web_inc_fopen(w, name)
         IN Pushes(v, w, u, FreeHandle(w.stub), g) /\ Tuple(u) /\ u.flags = w.flags
<1> DEFINE h == FreeHandle(w.stub)
           s == [addr |-> FileAddr[v][g], rem |-> Len(FileData[v][g])]
           u == [w EXCEPT !.stub = WEBFSOpen(@, Lookup(name))]
           x == web_inc_fp(u, h)
           y == web_inc_fopen(w, name)
           last == w.files[MaxNest - 1]
<1>1. h \in Handles /\ w.stub[h] = Free
  BY Searching
<1>2. s = At(v, g, 0)
  <2>1. FileAddr[v][g] \in Nat /\ Len(FileData[v][g]) \in Nat
    BY FilePlaces, FileWords
  <2> QED BY <2>1 DEF At
<1>3. disk[0] = v
  BY OnThisDisk
<1>4. u = [stub |-> [w.stub EXCEPT ![h] = s], files |-> w.files, flags |-> w.flags]
  BY <1>3 DEF Sound, WEBFSOpen
<1>5. y = IF Directory[v][g].parsed THEN SetSCB(x, {"FCALBACK"}) ELSE x
  BY <1>3 DEF web_inc_fopen
<1> HIDE DEF u, h, s, y
<1>6. /\ x.files = [i \in Slots |-> IF i = 0 THEN h ELSE w.files[i - 1]]
      /\ x.flags = w.flags \cup {"FOPEN"}
      /\ x.stub = WEBFSClose(u.stub, last)
      /\ Tuple(x)
  BY <1>4 DEF web_inc_fp, Tuple
<1>7. h # last
  <2>1. last \in Handles => w.stub[last] # Free
    BY Bounds DEF Own
  <2> QED BY <1>1, <2>1
<1>8. u.stub[h] = s /\ \A z \in Handles \ {h} : u.stub[z] = w.stub[z]
  BY <1>1, <1>4 DEF Sound, IsTable
<1> HIDE DEF x, last
<1>9. x.stub[h] = s
  BY <1>1, <1>6, <1>7, <1>8 DEF WEBFSClose
<1>10. last = Invalid => \A z \in Handles \ {h} : x.stub[z] = w.stub[z]
  BY <1>6, <1>8, Bounds DEF WEBFSClose
<1>11. /\ y.stub = x.stub /\ y.files = x.files /\ Tuple(y)
       /\ y.flags = x.flags \cup {"FCALBACK"} \/ y.flags = x.flags
  <2>1. SetSCB(x, {"FCALBACK"}) =
          [stub |-> x.stub, files |-> x.files, flags |-> x.flags \cup {"FCALBACK"}]
    BY <1>6, FlagRecords DEF Tuple
  <2>2. CASE Directory[v][g].parsed
    BY <1>5, <2>1, <2>2 DEF Tuple
  <2>3. CASE ~Directory[v][g].parsed
    BY <1>5, <1>6, <2>3
  <2> QED BY <2>2, <2>3
<1>12. y.flags = w.flags
  BY <1>6, <1>11 DEF Ready
<1>13. Pushes(v, w, y, h, g)
  BY <1>1, <1>2, <1>6, <1>9, <1>10, <1>11 DEF Pushes, last
<1> QED BY <1>11, <1>12, <1>13 DEF h, y

(* A file is included, or there is none to include.                        *)
LEMMA AtAnInclude ==
  ASSUME NEW v \in Images, HoldsAll(v), PlainIncludes(v), NEW whole \in Seq(OutWord),
         NEW w, NEW k, NEW fr, NEW sent,
         Here(v, whole, w, k, fr, sent), Unfinished(v, fr[0]),
         NEW u, MovedTo(w, u, v, fr[0].file, Len(Behind(v, fr[0].file)[fr[0].done + 1]), w.flags \ {"FINDCB"}),
         Sound(u),
         NEW p, p = Directory[v][fr[0].file].parts[fr[0].done + 1], p.kind = "inc"
  PROVE  After(v, whole, sent, SendCallback(u, <<p>>))
<1> DEFINE f == fr[0].file
           j == fr[0].done
           g == IncludeOf(v, p)
           x == web_inc_fopen(u, p.x)
           fits == Lookup(p.x) = 0 \/ CanOpen(u, p.x)
<1>1. /\ Depth(k, 0) \in 0..MaxNest /\ f \in Files(v) /\ Told(v, f) /\ w.files[0] \in Handles
      /\ j \in 0..Len(Directory[v][f].parts) /\ Len(Directory[v][f].parts) \in Nat
  BY HereFacts, PartFacts
<1>2. Ready(u) /\ Same(w, u) /\ u.flags \cap {"FINDCB", "RETRYCB"} = {}
      /\ u.stub[u.files[0]] = At(v, f, Len(Behind(v, f)[j + 1]))
  BY DEF MovedTo, Here, Ready
<1>3. Own(u)
  BY Zenon, <1>2, OwnsOn DEF Here
<1>4. SendCallback(u, <<p>>) =
        IF CanInclude(u, p.x) THEN Turned(x, <<>>, <<>>, TRUE)
        ELSE Turned(u, <<NoFile>>, <<>>, fits)
  BY Zenon DEF SendCallback
<1> HIDE DEF x
<1>5. CASE ~CanInclude(u, p.x)
  <2>1. CASE ~fits
    <3>1. ~Turned(u, <<NoFile>>, <<>>, fits).fits
      BY Zenon, <2>1 DEF Turned
    <3> QED BY Zenon, <1>4, <1>5, <3>1 DEF After
  <2>2. CASE fits
    <3>1. g = 0
      BY Zenon, <1>2, <1>5, <2>2, Resolved
    <3>2. Becomes(v, Depth(k, 0), fr[0], <<NoFile>>)
      BY <3>1 DEF Becomes, Piece
    <3> HIDE DEF fits
    <3>3. After(v, whole, sent, Turned(u, <<NoFile>>, <<>>, fits))
      BY Zenon, <3>2, NextIsSaid
    <3> QED BY <1>4, <1>5, <3>3
  <2> QED BY Zenon, <2>1, <2>2
<1>6. CASE CanInclude(u, p.x)
  <2>1. g # 0 /\ Lookup(p.x) = g /\ HasHandle(u.stub)
    BY Zenon, <1>2, <1>6, Resolved
  <2>2. g \in Files(v)
    BY Zenon, <2>1, Included
  <2>3. Pushes(v, u, x, FreeHandle(u.stub), g) /\ Tuple(x) /\ x.flags = u.flags
    BY Zenon, <1>2, <1>3, <2>1, <2>2, Pushing DEF x
  <2>4. Stack(v, whole, w, k, fr) /\ Own(w) /\ Count(v, f, j)
    BY <1>1 DEF Here, Count
  <2>5. PICK fs : Stack(v, whole, u, k, fs) /\ fs[0] = Begun(f, j, fr[0].before)
    BY <1>2, <2>4, DoneOn
  <2>6. fs[0].file = f /\ fs[0].done = j /\ fs[0].before = fr[0].before
    BY <2>5 DEF Begun
  <2>7. NextFile(v, fs[0], g)
    BY Zenon, <2>1, <2>6 DEF NextFile, Unfinished
  <2>8. Told(v, g)
    <3> DEFINE N == Len(Directory[v][f].parts)
    <3>1. j < N
      BY DEF Unfinished
    <3> HIDE DEF N, j
    <3>2. j + 1 \in 1..N
      BY <1>1, <3>1 DEF N, j
    <3>3. Directory[v][f].parsed
      BY <1>1, <3>2 DEF Told, TextOnly, N, j
    <3> QED BY Zenon, <1>1, <2>1, <3>2, <3>3 DEF PlainIncludes, N, j
  <2>9. u.stub[u.files[0]] = Resumes(v, fs[0])
    BY <1>2, <2>6 DEF Resumes
  <2> DEFINE said == fs[0].before \o Spoken(v, fs[0].file, Depth(k, 0))[fs[0].done]
  <2>10. said = sent /\ sent \in Seq(OutWord)
    BY Zenon, <2>6 DEF Here, SaidIs
  <2> HIDE DEF g
  <2>11. /\ k < MaxNest
         /\ \E fs1 : Stack(v, whole, x, k + 1, fs1) /\ fs1[0] = Begun(g, 0, said)
    BY SMTT(30), <1>3, <2>3, <2>5, <2>7, <2>8, <2>9, Pushed
  <2> HIDE DEF said
  <2>12. PICK ft : Stack(v, whole, x, k + 1, ft) /\ ft[0] = Begun(g, 0, said)
    BY <2>11
  <2> DEFINE m == k + 1
             d == Depth(m, 0)
  <2>13. ft[0].file = g /\ ft[0].done = 0 /\ ft[0].before = sent
    BY <2>10, <2>12 DEF Begun
  <2>14. d \in 0..MaxNest /\ IsFrame(v, d, whole, ft[0])
    <3>1. m \in 1..MaxNest
      BY <2>12 DEF Stack
    <3> HIDE DEF m
    <3>2. Depth(m, 0) \in 0..MaxNest /\ 0 \in 0..m - 1
      BY Zenon, <3>1, Depths
    <3> QED BY <2>12, <3>2 DEF Stack, m
  <2> HIDE DEF d, m
  <2>15. Behind(v, g)[0] = <<>> /\ Spoken(v, g, d)[0] = <<>>
    BY <2>2, <2>13, <2>14, Progress DEF IsFrame
  <2>16. Stands(v, x, g, 0)
    <3>1. x.files[0] = FreeHandle(u.stub) /\ x.stub[FreeHandle(u.stub)] = At(v, g, 0)
      BY <2>3, Bounds DEF Pushes
    <3>2. "FINDCB" \notin x.flags /\ Ahead(x) = 0
      BY <1>2, <2>3 DEF Ahead
    <3>3. Len(Behind(v, g)[0]) + 0 = 0
      BY <2>15
    <3> QED BY <3>1, <3>2, <3>3 DEF Stands
  <2>17. sent \o <<>> = sent /\ <<>> \in Seq(Word)
    BY <2>10
  <2>18. SaidIs(v, ft[0], d, sent \o <<>>)
    BY <2>10, <2>13, <2>15, <2>17 DEF SaidIs
  <2>19. {"FOPEN", "FCALBACK"} \subseteq x.flags /\ "FCLOSE" \notin x.flags
    BY <1>2, <2>3 DEF Ready
  <2>20. ParsedAt(v, whole, x, sent, <<>>)
    BY <2>3, <2>10, <2>12, <2>13, <2>16, <2>17, <2>18, <2>19 DEF ParsedAt, d, m
  <2>21. After(v, whole, sent, Turned(x, <<>>, <<>>, TRUE))
    BY <2>17, <2>19, <2>20 DEF After, Turned
  <2> QED BY Zenon, <1>4, <1>6, <2>21
<1> QED BY Zenon, <1>5, <1>6

(* A mark, the name of a variable or that of a file is read behind a mark. *)
LEMMA BetweenMarks ==
  ASSUME NEW v \in Images, HoldsAll(v), PlainIncludes(v), NEW whole \in Seq(OutWord),
         left \in Nat, NEW w, NEW k, NEW fr, NEW sent,
         Here(v, whole, w, k, fr, sent), "FINDCB" \in w.flags, Unfinished(v, fr[0]),
         NEW buf \in Seq(Word), Marked(Directory[v][fr[0].file].parts[fr[0].done + 1], buf),
         NEW at \in 0..Len(buf),
         at > 0 => buf[at] = Mark /\ \A i \in 1..at - 1 : buf[i] # Mark,
         at = 0 => \A i \in 1..Len(buf) : buf[i] # Mark
  PROVE  LET To(n) == ClrSCB([w EXCEPT !.stub = Advance(@, w.files[0], n)], {"FINDCB"})
         IN /\ at > 0
            /\ at = 1 => After(v, whole, sent, Turned(To(1), <<Mark>>, <<>>, TRUE))
            /\ at > 1 => After(v, whole, sent, SendCallback(To(at), SubSeq(buf, 1, at - 1)))
<1> DEFINE To(n) == ClrSCB([w EXCEPT !.stub = Advance(@, w.files[0], n)], {"FINDCB"})
           p == Directory[v][fr[0].file].parts[fr[0].done + 1]
<1>1. Len(buf) \in Nat
  OBVIOUS
<1>2. ASSUME p.kind = "tilde"
      PROVE  at = 1 /\ After(v, whole, sent, Turned(To(1), <<Mark>>, <<>>, TRUE))
  <2>1. Len(buf) >= 1 /\ buf[1] = Mark
    BY <1>2 DEF Marked
  <2>2. 1 \in 1..Len(buf)
    BY <1>1, <2>1
  <2>3. at # 0
    BY <2>1, <2>2
  <2>4. ~(at > 1)
    <3>1. at > 1 => 1 \in 1..at - 1
      BY <1>1
    <3>2. at > 1 => at > 0
      BY <1>1
    <3> QED BY <2>1, <3>1, <3>2
  <2>5. at = 1
    BY <1>1, <2>3, <2>4
  <2> DEFINE u == To(1)
  <2>6. MovedTo(w, u, v, fr[0].file, Len(Behind(v, fr[0].file)[fr[0].done + 1]), w.flags \ {"FINDCB"})
    <3>1. 1 \in Nat /\ (p.kind = "tilde" => 1 = 1) /\ (p.kind \in {"call", "inc"} => 1 = 2)
      BY Zenon, <1>2
    <3> QED BY Zenon, <3>1, ToTheNext
  <2>7. Becomes(v, Depth(k, 0), fr[0], <<Mark>>)
    BY <1>2 DEF Becomes, Piece
  <2> HIDE DEF u
  <2>8. After(v, whole, sent, Turned(u, <<Mark>>, <<>>, TRUE))
    BY Zenon, <2>6, <2>7, NextIsSaid
  <2> QED BY <2>5, <2>8 DEF u
<1>3. ASSUME p.kind \in {"call", "inc"}
      PROVE  at = 2 /\ After(v, whole, sent, SendCallback(To(at), SubSeq(buf, 1, at - 1)))
  <2>1. Len(buf) >= 2 /\ buf[1] = p /\ p # Mark /\ buf[2] = Mark
    BY <1>3 DEF Marked
  <2>2. 1 \in 1..Len(buf) /\ 2 \in 1..Len(buf)
    BY SMTT(30), <1>1, <2>1
  <2>3. at # 0 /\ at # 1
    BY SMTT(30), <2>1, <2>2
  <2>4. ~(at > 2)
    <3>1. at > 2 => 2 \in 1..at - 1
      BY <1>1
    <3>2. at > 2 => at > 0
      BY <1>1
    <3> QED BY <2>1, <3>1, <3>2
  <2>5. at = 2
    BY <1>1, <2>3, <2>4
  <2>6. SubSeq(buf, 1, at - 1) = <<p>>
    <3> DEFINE s == SubSeq(buf, 1, 1)
    <3>1. s \in Seq(Word) /\ Len(s) = 1 /\ s[1] = buf[1]
      <4>1. buf \in Seq(Word)
        BY Zenon, <1>1
      <4> QED BY Zenon, <2>2, <4>1, FirstOf
    <3> HIDE DEF s, p
    <3>2. s = <<p>>
      BY <2>1, <3>1
    <3>3. at - 1 = 1
      BY <2>5
    <3> QED BY Zenon, <3>2, <3>3 DEF s, p
  <2> DEFINE u == To(2)
  <2>7. /\ MovedTo(w, u, v, fr[0].file, Len(Behind(v, fr[0].file)[fr[0].done + 1]), w.flags \ {"FINDCB"})
        /\ Sound(u)
    <3>1. 2 \in Nat /\ (p.kind = "tilde" => 2 = 1) /\ (p.kind \in {"call", "inc"} => 2 = 2)
      BY Zenon, <1>3
    <3> QED BY Zenon, <3>1, ToTheNext
  <2> HIDE DEF u
  <2> DEFINE x == p
  <2>8. x = Directory[v][fr[0].file].parts[fr[0].done + 1] /\ x.kind \in {"call", "inc"}
    BY Zenon, <1>3
  <2> HIDE DEF x
  <2>9. After(v, whole, sent, SendCallback(u, <<x>>))
    <3>1. CASE x.kind = "call"
      BY Zenon, <2>7, <2>8, <3>1, AtAVariable
    <3>2. CASE x.kind = "inc"
      BY Zenon, <2>7, <2>8, <3>2, AtAnInclude
    <3> QED BY Zenon, <2>8, <3>1, <3>2
  <2> QED BY Zenon, <2>5, <2>6, <2>9 DEF u, x
<1>4. p.kind \in {"tilde", "call", "inc"}
  BY DEF Marked
<1> HIDE DEF To, p
<1>5. at = 1 \/ at = 2
  BY <1>2, <1>3, <1>4
<1>6. at > 0
  BY <1>5
<1>7. at = 1 => After(v, whole, sent, Turned(To(1), <<Mark>>, <<>>, TRUE))
  <2>1. at = 1 => at # 2
    OBVIOUS
  <2> QED BY <1>2, <1>3, <1>4, <2>1
<1>8. at > 1 => After(v, whole, sent, SendCallback(To(at), SubSeq(buf, 1, at - 1)))
  <2>1. at > 1 => at # 1
    BY <1>1
  <2> QED BY <1>2, <1>3, <1>4, <2>1
<1> QED BY <1>6, <1>7, <1>8 DEF To

LEMMA ParsedTurn ==
  ASSUME NEW v \in Images, HoldsAll(v), PlainIncludes(v), NEW whole \in Seq(OutWord),
         left \in Nat, left >= Window, Window >= 2, NEW w, NEW k, NEW fr, NEW sent,
         Here(v, whole, w, k, fr, sent)
  PROVE  After(v, whole, sent, SendParsed(w))
<1> DEFINE h == w.files[0]
           n == UpTo(left, Window)
           buf == GetArray(w.stub, h, n)
           at == SelectInSeq(buf, LAMBDA x : x = Mark)
           To(i) == [w EXCEPT !.stub = Advance(@, h, i)]
           r1 == Turned(SetSCB(To(at), {"FINDCB"}), SubSeq(buf, 1, at - 1), <<>>, TRUE)
           r2 == Turned(ClrSCB(To(1), {"FINDCB"}), <<Mark>>, <<>>, TRUE)
           r3 == SendCallback(ClrSCB(To(at), {"FINDCB"}), SubSeq(buf, 1, at - 1))
           r4 == Turned(ClrSCB(To(n), {"FINDCB"}), buf, <<>>, TRUE)
           r5 == Turned(AtEnd(ClrSCB(To(Len(buf)), {"FINDCB"})), buf, <<>>, TRUE)
           r6 == Turned(AtEnd(w), <<>>, <<>>, TRUE)
           find == "FINDCB" \in w.flags
           A(t) == After(v, whole, sent, t)
<1>1. n \in Nat /\ n >= 2
  BY WebSrvAssumption DEF UpTo
<1>2. SendParsed(w) =
        CASE at > 0 /\ ~find -> r1
          [] at = 1 /\ find -> r2
          [] at > 1 /\ find -> r3
          [] at = 0 /\ Len(buf) = n -> r4
          [] at = 0 /\ Len(buf) \in 1..n - 1 -> r5
          [] OTHER -> r6
  BY DEF SendParsed
<1>3. Depth(k, 0) \in 0..MaxNest /\ IsFrame(v, Depth(k, 0), whole, fr[0])
  BY HereFacts
<1> HIDE DEF n
<1>4. /\ buf \in Seq(Word) /\ Len(buf) \in Nat /\ Len(buf) <= n
  <2> DEFINE f == fr[0].file
             p == Len(Behind(v, f)[fr[0].done]) + Ahead(w)
             d == Depth(k, 0)
  <2>1. IsRead(v, f, p, n, buf)
    <3> HIDE DEF d
    <3> QED BY <1>1, <1>3, Looks DEF Here, d
  <2>2. Len(FileData[v][f]) \in Nat
    BY <1>3, FileWords DEF IsFrame
  <2> HIDE DEF buf, f, p
  <2>3. /\ buf \in Seq(Word) /\ p \in Nat
        /\ Len(buf) = IF n < Len(FileData[v][f]) - p THEN n ELSE Len(FileData[v][f]) - p
    BY <2>1 DEF IsRead
  <2> QED BY <1>1, <2>2, <2>3
<1> HIDE DEF buf
<1>5. /\ at \in 0..Len(buf)
      /\ at > 0 => buf[at] = Mark /\ \A i \in 1..at - 1 : buf[i] # Mark
      /\ at = 0 => \A i \in 1..Len(buf) : buf[i] # Mark
  BY <1>4, FirstMark
<1> HIDE DEF at
<1>6. ASSUME ~find, at > 0 PROVE A(r1)
  <2>1. at \in 1..Len(buf)
    BY <1>4, <1>5, <1>6
  <2> QED BY <1>1, <1>5, <1>6, <2>1, AtAMark DEF buf
<1>7. ASSUME ~find, at = 0, Len(buf) = n PROVE A(r4)
  BY <1>1, <1>5, <1>7, InTheTexts DEF buf
<1>8. ASSUME ~find, at = 0, Len(buf) # n
      PROVE  A(r5) /\ (Len(buf) = 0 => A(r6))
  <2>1. Len(buf) < n
    BY <1>1, <1>4, <1>8
  <2> QED BY <1>1, <1>5, <1>8, <2>1, AtTheLast DEF buf
<1>9. ASSUME find
      PROVE  /\ at > 0
             /\ at = 1 => A(r2)
             /\ at > 1 => A(r3)
  <2>1. Marked(Directory[v][fr[0].file].parts[fr[0].done + 1], buf) /\ Unfinished(v, fr[0])
    BY <1>1, <1>9, BehindAMark DEF buf
  <2> QED BY <1>4, <1>5, <1>9, <2>1, BetweenMarks
<1> HIDE DEF r1, r2, r3, r4, r5, r6, find, A, To
<1>10. CASE at > 0 /\ ~find
  BY <1>2, <1>6, <1>10 DEF A
<1>11. CASE at = 1 /\ find
  BY <1>2, <1>9, <1>11 DEF A
<1>12. CASE at > 1 /\ find
  <2>1. at # 1
    BY <1>4, <1>5, <1>12
  <2>2. SendParsed(w) = r3
    BY <1>2, <1>12, <2>1
  <2> QED BY <1>9, <1>12, <2>2 DEF A
<1>13. CASE at = 0 /\ ~find
  <2>1. ~(at > 0) /\ ~(at = 1) /\ ~(at > 1)
    BY <1>13
  <2>2. CASE Len(buf) = n
    <3>1. SendParsed(w) = r4
      BY <1>2, <1>13, <2>1, <2>2
    <3> QED BY <1>7, <1>13, <2>2, <3>1 DEF A
  <2>3. CASE Len(buf) # n /\ Len(buf) \in 1..n - 1
    <3>1. SendParsed(w) = r5
      BY <1>2, <1>13, <2>1, <2>3
    <3> QED BY <1>8, <1>13, <2>3, <3>1 DEF A
  <2>4. CASE Len(buf) # n /\ Len(buf) \notin 1..n - 1
    <3>1. Len(buf) = 0
      BY <1>1, <1>4, <2>4
    <3>2. SendParsed(w) = r6
      BY <1>2, <1>13, <2>1, <2>4
    <3> QED BY <1>8, <1>13, <2>4, <3>1, <3>2 DEF A
  <2> QED BY <2>2, <2>3, <2>4
<1>14. at = 0 \/ at = 1 \/ at > 1
  BY <1>4, <1>5
<1>15. at = 1 \/ at > 1 => at > 0
  BY <1>4, <1>5
<1>16. find => at # 0
  BY <1>4, <1>5, <1>9
<1> QED BY <1>10, <1>11, <1>12, <1>13, <1>14, <1>15, <1>16

(* A turn of the loop for a page that is parsed.                           *)
LEMMA PageGoesOn ==
  ASSUME NEW v \in Images, HoldsAll(v), PlainIncludes(v), NEW whole \in Seq(OutWord),
         left \in Nat, left >= Window, Window >= 2, NEW w, Sound(w), Own(w), "FCLOSE" \notin w.flags,
         NEW sent, NEW text, ParsedAt(v, whole, w, sent, text)
  PROVE  After(v, whole, sent, Send(w, text))
<1>1. /\ Tuple(w) /\ {"FOPEN", "FCALBACK"} \subseteq w.flags
      /\ sent \in Seq(OutWord) /\ text \in Seq(Word)
      /\ "RETRYCB" \notin w.flags => text = <<>>
  BY DEF ParsedAt
<1>2. PICK k, fr : /\ Stack(v, whole, w, k, fr)
                   /\ Stands(v, w, fr[0].file, fr[0].done)
                   /\ SaidIs(v, fr[0], Depth(k, 0), sent \o text)
  BY DEF ParsedAt
<1>3. Ready(w)
  BY <1>1 DEF Ready
<1>4. k \in 1..MaxNest
  BY <1>2 DEF Stack
<1>5. IsFrame(v, Depth(k, 0), whole, fr[0]) /\ w.files[0] \in Handles
  <2>1. 0 \in 0..k - 1
    BY <1>4, Depths
  <2> QED BY <1>2, <2>1 DEF Stack
<1>6. CASE "RETRYCB" \in w.flags
  <2>1. Send(w, text) = SendVariable(w, text)
    <3>1. ~(w.files[0] > MaxOpen)
      BY <1>5, WebFSAssumption DEF Handles
    <3> QED BY <1>1, <1>6, <3>1 DEF Send
  <2>2. "FINDCB" \notin w.flags
    BY <1>2, <1>6 DEF Stands
  <2>3. Count(v, fr[0].file, fr[0].done) /\ fr[0] = Begun(fr[0].file, fr[0].done, fr[0].before)
    BY <1>5 DEF IsFrame, Count
  <2>4. SaidIs(v, Begun(fr[0].file, fr[0].done, fr[0].before), Depth(k, 0), sent \o text)
    BY <1>2, <2>3
  <2>5. After(v, whole, sent, SendVariable(w, text))
    BY <1>1, <1>2, <1>3, <2>2, <2>3, <2>4, Varies
  <2> QED BY <2>1, <2>5
<1>7. CASE "RETRYCB" \notin w.flags
  <2>1. sent \o text = sent
    BY <1>1, <1>7
  <2>2. Here(v, whole, w, k, fr, sent)
    BY <1>1, <1>2, <1>3, <1>7, <2>1 DEF Here
  <2>3. After(v, whole, sent, SendParsed(w))
    BY <2>2, ParsedTurn
  <2>4. ~(w.files[0] > MaxOpen)
    BY <1>5, WebFSAssumption DEF Handles
  <2>5. Send(w, text) = SendParsed(w)
    BY <1>1, <1>7, <2>4 DEF Send
  <2> QED BY <2>3, <2>5
<1> QED BY <1>6, <1>7
-----------------------------------------------------------------------------
(* What is known of a page that is recorded: what was sent begins it, and  *)
(* while the disk is not touched the connection stands where that ends.    *)
PPage(p, w, text, o) ==
  p.img # None =>
    LET whole == Page[MaxNest][p.img][p.file]
    IN /\ p.sent \in Seq(OutWord) /\ Begins(p.sent, whole)
       /\ p.whole => p.sent = whole
       /\ Fits[MaxNest][p.img][p.file]
       /\ (Directory[p.img][p.file].parsed /\ MoreToSend(w)) => w.files[0] \in Handles
       /\ (~o /\ MoreToSend(w)) =>
            /\ HoldsAll(p.img)
            /\ Directory[p.img][p.file].parsed => ParsedAt(p.img, whole, w, p.sent, text)

(* The inductive invariant of the pages.                                   *)
PInv == LInv /\ \A c \in Conns : PPage(page[c], Conn(c), rest[c], overlap)

LEMMA ParsedFacts ==
  ASSUME NEW v \in Images, NEW whole \in Seq(OutWord), NEW w, NEW sent, NEW text,
         ParsedAt(v, whole, w, sent, text)
  PROVE  sent \in Seq(OutWord) /\ Begins(sent, whole) /\ w.files[0] \in Handles
<1>1. sent \in Seq(OutWord) /\ text \in Seq(OutWord)
  BY DEF ParsedAt, OutWord
<1>2. PICK k, fr : Stack(v, whole, w, k, fr) /\ SaidIs(v, fr[0], Depth(k, 0), sent \o text)
  BY DEF ParsedAt
<1>3. k \in 1..MaxNest
  BY <1>2 DEF Stack
<1>4. Depth(k, 0) \in 0..MaxNest /\ IsFrame(v, Depth(k, 0), whole, fr[0]) /\ w.files[0] \in Handles
  <2>1. 0 \in 0..k - 1 /\ Depth(k, 0) \in 0..MaxNest
    BY <1>3, Depths
  <2> QED BY <1>2, <2>1 DEF Stack
<1> DEFINE x == sent \o text
           said == fr[0].before \o Spoken(v, fr[0].file, Depth(k, 0))[fr[0].done]
<1>5. said \in Seq(OutWord) /\ Begins(said, whole)
  BY <1>4, SaidBegins
<1>6. x = said
  BY <1>2 DEF SaidIs
<1>7. Begins(sent, x)
  BY <1>1, BeginsFacts
<1> HIDE DEF x, said
<1>8. x \in Seq(OutWord) /\ Begins(x, whole)
  BY <1>5, <1>6
<1>9. Begins(sent, whole)
  BY <1>1, <1>7, <1>8, BeginsOn
<1> QED BY <1>1, <1>4, <1>9

(* A page that is parsed stays where it is.                                *)
LEMMA ParsedStill ==
  ASSUME NEW v, NEW whole, NEW w, NEW sent, NEW text, ParsedAt(v, whole, w, sent, text),
         NEW u, Tuple(u), u.files = w.files, u.flags = w.flags,
         \A i \in Slots : w.files[i] \in Handles => u.stub[w.files[i]] = w.stub[w.files[i]]
  PROVE  ParsedAt(v, whole, u, sent, text)
<1>1. PICK k, fr : /\ Stack(v, whole, w, k, fr)
                   /\ Stands(v, w, fr[0].file, fr[0].done)
                   /\ SaidIs(v, fr[0], Depth(k, 0), sent \o text)
  BY DEF ParsedAt
<1>2. k \in 1..MaxNest
  BY <1>1 DEF Stack
<1>3. \A i \in 0..k - 1 : w.files[i] \in Handles /\ u.stub[u.files[i]] = w.stub[w.files[i]]
  <2> SUFFICES ASSUME NEW i \in 0..k - 1
               PROVE  w.files[i] \in Handles /\ u.stub[u.files[i]] = w.stub[w.files[i]]
    OBVIOUS
  <2>1. i \in Slots
    BY <1>2, Depths
  <2>2. w.files[i] \in Handles
    BY <1>1 DEF Stack
  <2> QED BY <2>1, <2>2
<1>4. Stack(v, whole, u, k, fr)
  <2>1. \A i \in 1..k - 1 : i \in 0..k - 1
    BY <1>2, Depths
  <2> QED BY <1>1, <1>3, <2>1 DEF Stack
<1>5. Stands(v, u, fr[0].file, fr[0].done)
  <2>1. 0 \in 0..k - 1
    BY <1>2, Depths
  <2> QED BY <1>1, <1>3, <2>1 DEF Stands, Ahead
<1> QED BY <1>1, <1>4, <1>5 DEF ParsedAt

(* The page begins.                                                        *)
LEMMA ParsedBegins ==
  ASSUME NEW v \in Images, NEW f \in Files(v), Fits[MaxNest][v][f], Directory[v][f].parsed,
         NEW w, AtStart(w, v, f), MoreToSend(w)
  PROVE  ParsedAt(v, Page[MaxNest][v][f], w, <<>>, <<>>)
<1> DEFINE e == Begun(f, 0, <<>>)
           fr == [i \in {0} |-> e]
           whole == Page[MaxNest][v][f]
<1>1. e.file = f /\ e.done = 0 /\ e.before = <<>> /\ e = Begun(e.file, e.done, e.before)
  BY DEF Begun
<1>2. fr[0] = e
  OBVIOUS
<1> HIDE DEF e, fr
<1>3. MaxNest \in Nat /\ MaxNest \in 0..MaxNest /\ 1 \in 1..MaxNest /\ Depth(1, 0) = MaxNest
  BY WebSrvAssumption DEF Depth
<1>4. whole \in Seq(OutWord)
  BY <1>3, PageWords
<1>5. Told(v, f) /\ Len(Directory[v][f].parts) \in Nat
  BY PartFacts DEF Told
<1>6. Behind(v, f)[0] = <<>> /\ Spoken(v, f, MaxNest)[0] = <<>>
  BY <1>3, <1>5, Progress
<1>7. Begins(<<>> \o whole, whole)
  <2> HIDE DEF whole
  <2>1. <<>> \o whole = whole
    BY <1>4
  <2> QED BY <1>4, <2>1, BeginsFacts
<1> HIDE DEF whole
<1>8. IsFrame(v, MaxNest, whole, e)
  <2>1. 0 \in 0..Len(Directory[v][f].parts) /\ <<>> \in Seq(OutWord)
    BY <1>5
  <2> QED BY <1>1, <1>5, <1>7, <2>1 DEF IsFrame, whole
<1>9. /\ w.files[0] \in Handles /\ w.stub[w.files[0]] = At(v, f, 0) /\ Tuple(w)
      /\ \A i \in Slots \ {0} : w.files[i] = Invalid
      /\ "FINDCB" \notin w.flags /\ "RETRYCB" \notin w.flags /\ {"FOPEN", "FCALBACK"} \subseteq w.flags
  BY DEF AtStart, Outer, MoreToSend
<1>10. Stack(v, whole, w, 1, fr)
  <2>1. \A i \in 0..1 - 1 : i = 0
    OBVIOUS
  <2>2. \A i \in 1..1 - 1 : FALSE
    OBVIOUS
  <2>3. \A i \in 1..MaxNest - 1 : i \in Slots \ {0}
    BY <1>3 DEF Slots
  <2>4. fr[1 - 1] = e
    BY <1>2
  <2>5. Page[MaxNest][v][e.file] = whole
    BY <1>1 DEF whole
  <2> QED BY <1>1, <1>2, <1>3, <1>8, <1>9, <2>1, <2>2, <2>3, <2>4, <2>5 DEF Stack
<1>11. Stands(v, w, f, 0)
  <2>1. Len(Behind(v, f)[0]) + 0 = 0
    BY <1>6
  <2>2. Ahead(w) = 0
    BY <1>9 DEF Ahead
  <2> QED BY <1>9, <2>1, <2>2 DEF Stands
<1>12. SaidIs(v, e, MaxNest, <<>> \o <<>>)
  BY <1>1, <1>6 DEF SaidIs
<1>13. <<>> \in Seq(OutWord) /\ <<>> \in Seq(Word)
  OBVIOUS
<1>14. ParsedAt(v, whole, w, <<>>, <<>>)
  BY <1>1, <1>2, <1>3, <1>9, <1>10, <1>11, <1>12, <1>13 DEF ParsedAt
<1> QED BY <1>14 DEF whole

(* The words that are read of a file go on where what was sent ends.       *)
LEMMA ReadsOn ==
  ASSUME NEW v \in Images, NEW f \in Files(v), NEW sent \in Seq(OutWord),
         Begins(sent, FileData[v][f]), NEW n, NEW out, IsRead(v, f, Len(sent), n, out)
  PROVE  sent \o out \in Seq(OutWord) /\ Begins(sent \o out, FileData[v][f])
<1> DEFINE D == FileData[v][f]
           L == Len(D)
           p == Len(sent)
           x == sent \o out
           l == Len(out)
<1>1. /\ out \in Seq(OutWord) /\ p \in Nat /\ p <= L /\ l = IF n < L - p THEN n ELSE L - p
      /\ \A i \in 1..l : out[i] = D[p + i]
  BY DEF IsRead, OutWord
<1>2. L \in Nat /\ l \in Nat /\ \A i \in 1..p : D[i] = sent[i]
  BY <1>1, FileWords DEF Begins
<1>3. Joins(OutWord, sent, out, x)
  BY <1>1, ConcatFacts
<1> HIDE DEF D, x
<1>4. x \in Seq(OutWord) /\ Len(x) = p + l /\ \A i \in 1..p + l : x[i] = IF i <= p THEN sent[i] ELSE out[i - p]
  BY SMTT(30), <1>3 DEF Joins
<1> HIDE DEF L, p, l
<1>5. p + l <= L
  BY <1>1, <1>2
<1>6. ASSUME NEW i \in 1..p + l PROVE D[i] = x[i]
  <2>1. CASE i <= p
    <3>1. i \in 1..p
      BY <1>1, <1>2, <2>1
    <3> QED BY <1>2, <1>4, <2>1, <3>1
  <2>2. CASE ~(i <= p)
    <3>1. i - p \in 1..l /\ p + (i - p) = i
      BY <1>1, <1>2, <2>2
    <3> QED BY <1>1, <1>4, <2>2, <3>1
  <2> QED BY <2>1, <2>2
<1>7. Begins(x, D)
  BY <1>4, <1>5, <1>6 DEF Begins, L
<1> QED BY <1>4, <1>7 DEF x, D

(* A disk that is not locked and is whole holds all of an image.           *)
LEMMA HoldsAllNow ==
  ASSUME UnlockedIsWhole, ~isWEBFSLocked, ~torn, numFiles # None, disk[0] \in Images
  PROVE  HoldsAll(disk[0])
<1>1. PICK v \in Images : \A b \in 0..Blocks(v) - 1 : disk[b] = v
  BY DEF UnlockedIsWhole, Whole
<1>2. disk[0] = v
  <2>1. 0 \in 0..Blocks(v) - 1
    BY BlockFacts, WebFSAssumption
  <2> QED BY <1>1, <2>1
<1> QED BY <1>1, <1>2 DEF HoldsAll

(* Steps that are not the page's.                                          *)
LEMMA PageStill ==
  ASSUME PInv, NEW c \in Conns, Still(c)
  PROVE  PPage(page[c], Conn(c), rest[c], overlap)'
<1> DEFINE p == page[c]
           w == Conn(c)
           u == Conn(c)'
           text == rest[c]
           whole == Page[MaxNest][p.img][p.file]
           parsed == Directory[p.img][p.file].parsed
<1>1. PPage(p, w, text, overlap) /\ LPage(p, w, overlap)
  BY DEF PInv, LInv
<1>2. page'[c] = p /\ rest'[c] = text /\ u.files = w.files /\ u.flags = w.flags /\ Tuple(u)
  BY DEF Still, Conn, Tuple
<1>3. MoreToSend(u) = MoreToSend(w)
  BY <1>2 DEF MoreToSend
<1>4. ASSUME p.img # None, MoreToSend(w) PROVE w.files[0] \in Handles
  BY <1>1, <1>4 DEF PPage, LPage
<1>5. ASSUME ~overlap', w.files[0] \in Handles
      PROVE  /\ ~overlap /\ UNCHANGED <<disk, numFiles>>
             /\ \A i \in Slots : w.files[i] \in Handles => u.stub[w.files[i]] = w.stub[w.files[i]]
  BY <1>5, Bounds DEF Still, Conn
<1> HIDE DEF w, u, p, text
<1>7. ASSUME ~overlap', MoreToSend(u), p.img # None
      PROVE  HoldsAll(p.img)' /\ (parsed => ParsedAt(p.img, whole, u, p.sent, text))
  <2>1. w.files[0] \in Handles
    BY <1>3, <1>4, <1>7
  <2>2. /\ ~overlap /\ UNCHANGED <<disk, numFiles>>
        /\ \A i \in Slots : w.files[i] \in Handles => u.stub[w.files[i]] = w.stub[w.files[i]]
    BY <1>5, <1>7, <2>1
  <2>3. HoldsAll(p.img) /\ (parsed => ParsedAt(p.img, whole, w, p.sent, text))
    BY <1>1, <1>3, <1>7, <2>2 DEF PPage
  <2>4. parsed => ParsedAt(p.img, whole, u, p.sent, text)
    BY <1>2, <2>2, <2>3, ParsedStill
  <2>5. HoldsAll(p.img)'
    <3>1. \A v : HoldsAll(v) => numFiles' # None /\ \A b \in 0..Blocks(v) - 1 : disk'[b] = v
      BY <2>2 DEF HoldsAll
    <3>2. numFiles' # None /\ \A b \in 0..Blocks(p.img) - 1 : disk'[b] = p.img
      BY <2>3, <3>1
    <3>3. page'[c] = p
      BY <1>2
    <3> QED BY <3>2, <3>3 DEF HoldsAll, p
  <2> QED BY <2>4, <2>5
<1> QED BY <1>1, <1>2, <1>3, <1>4, <1>7 DEF PPage, p, u, text

(* What a turn of the send loop adds to a page.                            *)
Adds(p, t) ==
  LET whole == Page[MaxNest][p.img][p.file]
      s == p.sent \o t.out
  IN /\ s \in Seq(OutWord) /\ Begins(s, whole)
     /\ "FCLOSE" \in t.w.flags => s = whole
     /\ (Directory[p.img][p.file].parsed /\ "FCLOSE" \notin t.w.flags) =>
          ParsedAt(p.img, whole, t.w, s, t.more)

LEMMA AddsParsed ==
  ASSUME NEW p, p.img \in Images, p.file \in Files(p.img), p.sent \in Seq(OutWord),
         HoldsAll(p.img), PlainIncludes(p.img), left \in Nat, left >= Window, Window >= 2,
         NEW w, Sound(w), Own(w), "FCLOSE" \notin w.flags,
         NEW text, ParsedAt(p.img, Page[MaxNest][p.img][p.file], w, p.sent, text),
         Send(w, text).fits
  PROVE  Adds(p, Send(w, text))
<1> DEFINE whole == Page[MaxNest][p.img][p.file]
           t == Send(w, text)
           s == p.sent \o t.out
<1>1. MaxNest \in 0..MaxNest
  BY WebSrvAssumption
<1>2. whole \in Seq(OutWord)
  BY <1>1, PageWords
<1> HIDE DEF whole
<1>3. After(p.img, whole, p.sent, t)
  BY Zenon, <1>2, PageGoesOn DEF whole
<1> HIDE DEF t
<1>4. CASE "FCLOSE" \in t.w.flags
  <2>1. s = whole
    BY <1>3, <1>4 DEF After, t
  <2>2. Begins(whole, whole)
    BY <1>2, BeginsFacts
  <2> HIDE DEF s
  <2>3. s \in Seq(OutWord) /\ Begins(s, whole)
    BY <1>2, <2>1, <2>2
  <2> QED BY <1>4, <2>1, <2>3 DEF Adds, s, t, whole
<1>5. CASE "FCLOSE" \notin t.w.flags
  <2>1. ParsedAt(p.img, whole, t.w, s, t.more)
    BY <1>3, <1>5 DEF After, t
  <2> HIDE DEF s
  <2>2. s \in Seq(OutWord) /\ Begins(s, whole)
    BY <1>2, <2>1, ParsedFacts
  <2> QED BY <1>5, <2>1, <2>2 DEF Adds, s, t, whole
<1> QED BY <1>4, <1>5

LEMMA AddsPlain ==
  ASSUME DiskType, left \in Nat,
         NEW p, p.img \in Images, p.file \in Files(p.img), p.sent \in Seq(OutWord),
         p.sent \in Seq(Word), HoldsAll(p.img), Fits[MaxNest][p.img][p.file],
         ~Directory[p.img][p.file].parsed,
         Begins(p.sent, Page[MaxNest][p.img][p.file]),
         NEW w, Typed(w), MoreToSend(w), PlainAt(w, p.img, p.file, p.sent), NEW text
  PROVE  Adds(p, Send(w, text))
<1> DEFINE whole == Page[MaxNest][p.img][p.file]
           D == FileData[p.img][p.file]
           t == Send(w, text)
           s == p.sent \o t.out
<1>1. MaxNest \in 0..MaxNest
  BY WebSrvAssumption
<1>2. whole = D
  BY <1>1, PageRule
<1>3. whole \in Seq(OutWord)
  BY <1>1, PageWords
<1>4. /\ t.out = GetArray(w.stub, w.files[0], left)
      /\ "FCLOSE" \in t.w.flags => Len(s) = Len(D)
  <2> DEFINE v == p.img
             f == p.file
             sent == p.sent
  <2>1. v \in Images /\ f \in Files(v) /\ sent \in Seq(Word) /\ PlainAt(w, v, f, sent)
    OBVIOUS
  <2>2. /\ t.out = GetArray(w.stub, w.files[0], left)
        /\ "FCLOSE" \in t.w.flags => Len(sent \o t.out) = Len(FileData[v][f])
    <3> HIDE DEF v, f, sent
    <3> QED BY <2>1, PlainTurn
  <2> QED BY <2>2
<1>5. /\ w.stub[w.files[0]] = At(p.img, p.file, Len(p.sent)) /\ Len(p.sent) <= Len(D)
      /\ Len(p.sent) \in Nat
  BY DEF PlainAt
<1> HIDE DEF t, whole
<1>6. IsRead(p.img, p.file, Len(p.sent), left, t.out)
  BY <1>4, <1>5, Slice
<1>7. s \in Seq(OutWord) /\ Begins(s, D)
  <2>1. Begins(p.sent, D)
    BY <1>2 DEF whole
  <2> HIDE DEF D
  <2> QED BY <1>6, <2>1, ReadsOn DEF D
<1> HIDE DEF s, D
<1>8. "FCLOSE" \in t.w.flags => s = whole
  <2> SUFFICES ASSUME "FCLOSE" \in t.w.flags PROVE s = whole
    OBVIOUS
  <2>1. Len(s) = Len(whole) /\ Begins(s, whole)
    BY <1>2, <1>4, <1>7
  <2> QED BY <1>3, <1>7, <2>1, BeginsFacts
<1>9. s \in Seq(OutWord) /\ Begins(s, whole)
  BY <1>2, <1>7
<1> QED BY <1>8, <1>9 DEF Adds, s, t, whole

LEMMA PageAdds ==
  ASSUME PInv, Turn, NEW c \in Conns, c = sending, page'[c].img # None, Window >= 2,
         NEW p, p = page[c], PlainIncludes(p.img)
  PROVE  Adds(p, Send(Conn(c), rest[c]))
<1> DEFINE w == Conn(c)
           text == rest[c]
<1>1. BInv /\ LPage(p, w, overlap) /\ PPage(p, w, text, overlap)
  BY DEF PInv, LInv
<1>2. /\ p.img # None /\ ~overlap /\ Send(w, text).fits
      /\ MoreToSend(w) /\ left >= Window
  BY Zenon, <1>1, PageTurn
<1>3. Typed(w) /\ Sound(w) /\ DiskType /\ left \in Nat
  BY <1>1, TypedConn DEF BInv, TInv, Typed
<1>4. Own(w)
  <2>1. Owned(stub, bffiles)
    BY <1>1, <1>2 DEF BInv, TInv, IInv
  <2> QED BY <2>1 DEF Own, Conn, Owned, Held, OpenHandles
<1> HIDE DEF w, text
<1>5. "FCLOSE" \notin w.flags
  BY <1>2 DEF MoreToSend
<1>6. /\ p.img \in Images /\ p.file \in Files(p.img) /\ p.sent \in Seq(OutWord) /\ HoldsAll(p.img)
      /\ Begins(p.sent, Page[MaxNest][p.img][p.file]) /\ Fits[MaxNest][p.img][p.file]
  BY <1>1, <1>2 DEF LPage, PPage
<1>7. CASE Directory[p.img][p.file].parsed
  <2>1. ParsedAt(p.img, Page[MaxNest][p.img][p.file], w, p.sent, text)
    BY <1>1, <1>2, <1>7 DEF PPage
  <2> QED BY <1>2, <1>3, <1>4, <1>5, <1>6, <2>1, AddsParsed DEF w, text
<1>8. CASE ~Directory[p.img][p.file].parsed
  <2>1. p.sent \in Seq(Word) /\ PlainAt(w, p.img, p.file, p.sent)
    BY <1>1, <1>2, <1>8 DEF LPage
  <2> QED BY <1>2, <1>3, <1>6, <1>8, <2>1, AddsPlain DEF w, text
<1> QED BY <1>7, <1>8

(* The pages stay what they are said to be.                                *)
LEMMA StepPInv ==
  ASSUME PInv, UnlockedIsWhole, [Next]_vars, Window >= 2, \A v \in Images : PlainIncludes(v)
  PROVE  PInv'
<1>0. BInv /\ LInv' /\ BInv'
  BY StepLInv DEF PInv, LInv
<1> SUFFICES ASSUME NEW c \in Conns PROVE PPage(page[c], Conn(c), rest[c], overlap)'
  BY <1>0 DEF PInv
<1>1. PPage(page[c], Conn(c), rest[c], overlap)
  BY DEF PInv
<1>2. CASE Still(c)
  BY <1>2, PageStill
<1>3. CASE page'[c].img = None
  BY <1>3 DEF PPage
<1>4. CASE page'[c] = page[c] /\ ~MoreToSend(Conn(c)')
  BY <1>1, <1>4 DEF PPage
<1>5. CASE Request(c) /\ page'[c].img # None
  <2>1. /\ disk[0] \in Images /\ ~isWEBFSLocked /\ ~torn /\ numFiles # None
        /\ UNCHANGED <<disk, numFiles>> /\ rest'[c] = <<>>
    BY <1>0, <1>5, Requested
  <2>2. PICK f \in Files(disk[0]), n \in Int :
          /\ page'[c] = [img |-> disk[0], file |-> f, sent |-> <<>>, said |-> n, whole |-> FALSE]
          /\ PageFits[disk[0]][f]
          /\ MoreToSend(Conn(c)') => AtStart(Conn(c)', disk[0], f)
    BY <1>0, <1>5, Requested
  <2> DEFINE v == disk[0]
             whole == Page[MaxNest][v][f]
             u == Conn(c)'
             p == page'[c]
             parsed == Directory[v][f].parsed
  <2>3. p.img = v /\ p.file = f /\ p.sent = <<>> /\ ~p.whole
    BY <2>2
  <2>4. Fits[MaxNest][v][f]
    BY <2>1, <2>2 DEF PageFits
  <2>5. <<>> \in Seq(OutWord) /\ Begins(<<>>, whole)
    <3>1. MaxNest \in 0..MaxNest
      BY WebSrvAssumption
    <3>2. whole \in Seq(OutWord)
      BY <2>1, <3>1, PageWords
    <3> HIDE DEF whole
    <3> QED BY <3>2, BeginsFacts
  <2>6. numFiles' # None /\ \A b \in 0..Blocks(v) - 1 : disk'[b] = v
    BY <2>1, HoldsAllNow DEF HoldsAll
  <2>7. ASSUME MoreToSend(u), parsed
        PROVE  ParsedAt(v, whole, u, <<>>, <<>>) /\ u.files[0] \in Handles
    <3>1. AtStart(u, v, f)
      BY <2>2, <2>7
    <3> HIDE DEF u
    <3>2. u.files[0] \in Handles
      BY <3>1 DEF AtStart
    <3> QED BY <2>1, <2>4, <2>7, <3>1, <3>2, ParsedBegins
  <2> HIDE DEF p, u, v, whole, parsed
  <2>8. HoldsAll(page[c].img)'
    BY <2>3, <2>6 DEF HoldsAll, p
  <2>9. /\ p.sent \in Seq(OutWord) /\ Begins(p.sent, whole) /\ ~p.whole
        /\ (parsed /\ MoreToSend(u)) => u.files[0] \in Handles
        /\ (parsed /\ MoreToSend(u)) => ParsedAt(v, whole, u, p.sent, rest'[c])
    BY <2>1, <2>3, <2>5, <2>7
  <2>10. whole = Page[MaxNest][p.img][p.file] /\ parsed = Directory[p.img][p.file].parsed
         /\ Fits[MaxNest][p.img][p.file]
    BY Zenon, <2>3, <2>4 DEF whole, parsed
  <2> QED BY <2>3, <2>8, <2>9, <2>10 DEF PPage, p, u
<1>6. CASE Turn /\ c = sending /\ page'[c].img # None
  <2> DEFINE t == Send(Conn(c), rest[c])
             q == page[c]
             p == page'[c]
             u == Conn(c)'
  <2>1. /\ q.img # None /\ ~overlap /\ UNCHANGED <<disk, numFiles>> /\ rest'[c] = t.more
        /\ p = [q EXCEPT !.sent = @ \o t.out, !.whole = "FCLOSE" \in t.w.flags]
        /\ MoreToSend(Conn(c))
    BY Zenon, <1>0, <1>6, PageTurn
  <2>2. LPage(q, Conn(c), overlap)
    BY DEF PInv, LInv
  <2>3. q.img \in Images
        /\ q = [img |-> q.img, file |-> q.file, sent |-> q.sent, said |-> q.said, whole |-> q.whole]
    BY <2>1, <2>2 DEF LPage
  <2>4. Adds(q, t)
    BY <1>6, <2>3, PageAdds
  <2>5. MoreToSend(u) => u = t.w /\ "FCLOSE" \notin t.w.flags
    BY <1>0, <1>6, TurnGoesOn
  <2>6. HoldsAll(q.img) /\ Fits[MaxNest][q.img][q.file]
    BY <1>1, <2>1 DEF PPage
  <2>7. numFiles' # None /\ \A b \in 0..Blocks(q.img) - 1 : disk'[b] = q.img
    BY <2>1, <2>6 DEF HoldsAll
  <2> HIDE DEF t, q, p, u
  <2>8. p.img = q.img /\ p.file = q.file /\ p.sent = q.sent \o t.out
        /\ p.whole = ("FCLOSE" \in t.w.flags)
    <3> DEFINE s == q.sent \o t.out
               full == "FCLOSE" \in t.w.flags
    <3>1. p = [img |-> q.img, file |-> q.file, sent |-> s, said |-> q.said, whole |-> full]
      BY <2>1, <2>3
    <3> HIDE DEF s, full
    <3>2. p.img = q.img /\ p.file = q.file /\ p.sent = s /\ p.whole = full
      BY <3>1
    <3> QED BY <3>2 DEF s, full
  <2>9. HoldsAll(page[c].img)'
    BY <2>7, <2>8 DEF HoldsAll, p
  <2> DEFINE whole == Page[MaxNest][p.img][p.file]
             parsed == Directory[p.img][p.file].parsed
  <2>10. /\ p.sent \in Seq(OutWord) /\ Begins(p.sent, whole)
         /\ p.whole => p.sent = whole
         /\ (parsed /\ "FCLOSE" \notin t.w.flags) => ParsedAt(p.img, whole, t.w, p.sent, t.more)
    BY <2>4, <2>8 DEF Adds
  <2>11. p.img \in Images /\ p.file \in Files(p.img) /\ Fits[MaxNest][p.img][p.file]
    BY <2>1, <2>2, <2>6, <2>8 DEF LPage
  <2>12. whole \in Seq(OutWord)
    <3>1. MaxNest \in 0..MaxNest
      BY WebSrvAssumption
    <3> QED BY <2>11, <3>1, PageWords
  <2> HIDE DEF whole, parsed
  <2>13. ASSUME MoreToSend(u), parsed
         PROVE  ParsedAt(p.img, whole, u, p.sent, rest'[c]) /\ u.files[0] \in Handles
    <3>1. ParsedAt(p.img, whole, u, p.sent, rest'[c])
      BY <2>1, <2>5, <2>10, <2>13
    <3> QED BY <2>11, <2>12, <3>1, ParsedFacts
  <2> QED BY <2>9, <2>10, <2>11, <2>13 DEF PPage, p, u, whole, parsed
<1> QED BY <1>0, <1>2, <1>3, <1>4, <1>5, <1>6, PageSteps

LEMMA InitPInv == Init => PInv
<1> SUFFICES ASSUME Init PROVE PInv
  OBVIOUS
<1>1. \A c \in Conns : page[c].img = None
  BY DEF Init, NoPage
<1> QED BY <1>1, InitLInv DEF PInv, PPage

LEMMA PagesRight == PInv => PageFaithful
<1> SUFFICES ASSUME PInv, NEW c \in Conns, page[c].img # None
             PROVE  LET whole == WholePage[page[c].img][page[c].file] IN
                    /\ IsPrefix(page[c].sent, whole)
                    /\ page[c].whole => page[c].sent = whole
  BY DEF PageFaithful
<1> DEFINE v == page[c].img
           f == page[c].file
           whole == Page[MaxNest][v][f]
<1>1. LPage(page[c], Conn(c), overlap) /\ PPage(page[c], Conn(c), rest[c], overlap)
  BY Zenon DEF PInv, LInv
<1>2. v \in Images /\ f \in Files(v) /\ page[c].sent \in Seq(OutWord) /\ Begins(page[c].sent, whole)
      /\ (page[c].whole => page[c].sent = whole)
  BY <1>1 DEF LPage, PPage
<1>3. WholePage[v][f] = whole
  BY <1>2 DEF WholePage
<1>4. whole \in Seq(OutWord)
  <2>1. MaxNest \in 0..MaxNest
    BY WebSrvAssumption
  <2> QED BY <1>2, <2>1, PageWords
<1> HIDE DEF whole
<1>5. IsPrefix(page[c].sent, whole)
  BY <1>2, <1>4, BeginsFacts
<1> QED BY <1>2, <1>3, <1>5

(* Every page arrives as its image has it, whatever room each call of the  *)
(* send loop had: marks, variables that write in pieces, and includes of   *)
(* files, however deep, while other connections send pages and one uploads.*)
(* The send buffer holds a mark and a word at least, and an included file  *)
(* that is not parsed has no marks in it.                                  *)
THEOREM PagesArrive ==
  ASSUME Window >= 2, \A v \in Images : PlainIncludes(v)
  PROVE  Spec /\ []OneUpload => []PageFaithful
<1> DEFINE Inv == PInv /\ UInv
<1>1. Init => Inv
  BY InitPInv, InitUInv
<1>2. Inv /\ OneUpload /\ [Next]_vars => Inv'
  <2>1. UInv => UnlockedIsWhole
    BY DEF UInv
  <2> QED BY <2>1, StepPInv, StepUInv
<1>3. Inv => PageFaithful
  BY PagesRight
<1> HIDE DEF Inv
<1>4. Init /\ [][Next]_vars /\ []OneUpload => []Inv
  BY <1>1, <1>2, PTL
<1> QED BY <1>3, <1>4, PTL DEF Spec
=============================================================================
