------------------------------ MODULE DrainProofs ------------------------------
(***************************************************************************)
(* The drain of the per-CPU maps, for every number of CPUs, every set of   *)
(* fields and every interleaving of the programs' loads and stores with    *)
(* the drain's copying and zeroing.                                        *)
(***************************************************************************)
EXTENDS Drain, TLAPS

(* A program loads a word before it stores it, and only words of the map   *)
(* it is updating.                                                         *)
UpdatesInOrder ==
  \A c \in CPUs :
    /\ stored[c] \subseteq loaded[c]
    /\ upd[c] = "none" => loaded[c] = {}
    /\ upd[c] # "none" => loaded[c] \subseteq Words(upd[c])

(* While a CPU's value is in the gap and nothing has overlapped its drain, *)
(* its program is not inside an update of it.                              *)
GapIsQuiet ==
  \A m \in Maps, c \in CPUs :
    InGap(m, c) /\ ~overlap[m][c] => upd[c] # m

(* Some words of CPU c's value of m are zeroed and others are not yet.     *)
PartlyZeroed(m, c) ==
  dpc = "zero" /\ dmap = m /\ dcpu = c /\ dtodo # Words(m)

(* The words of CPU c's value of m account for the samples completed since *)
(* the last zeroing, those already stored also for the one being added;    *)
(* those loaded and not yet stored were right when they were loaded.       *)
CellsRight(m, c) ==
  \A w \in Words(m) :
    /\ cell[c][w] = since[m][c] \cup
         (IF upd[c] = m /\ w \in stored[c] THEN sample[c] ELSE {})
    /\ upd[c] = m /\ w \in loaded[c] \ stored[c] => reg[c][w] = since[m][c]

Settled ==
  \A m \in Maps, c \in CPUs :
    ~suspect[m][c] /\ ~PartlyZeroed(m, c) => CellsRight(m, c)

(* What a drain without an overlap has zeroed stays zero.                  *)
ZeroedStaysZero ==
  \A m \in Maps, c \in CPUs :
    PartlyZeroed(m, c) /\ ~overlap[m][c] =>
      \A w \in Words(m) \ dtodo : cell[c][w] = {}

(* Word w of CPU c's value of m is copied, and the value not yet zeroed.   *)
Copied(m, c, w) ==
  /\ dmap = m
  /\ \/ dpc = "copy" /\ (c < dcpu \/ (c = dcpu /\ w \notin dtodo))
     \/ dpc = "zero" /\ c >= dcpu

(* CPU c's part of m in the window being built is closed.                  *)
Closed(m, c) ==
  \/ m = "summary" /\ dmap = "topk"
  \/ dmap = m /\ dpc = "zero" /\ c < dcpu

CopiesRight ==
  \A m \in Maps, c \in CPUs : \A w \in Words(m) :
    /\ Copied(m, c, w) /\ ~overlap[m][c] /\ ~suspect[m][c] =>
         copy[c][w] = since[m][c]
    /\ Closed(m, c) /\ clean[m][c] => copy[c][w] = expect[m][c]

IInv == /\ TypeOK /\ UpdatesInOrder /\ GapIsQuiet /\ Settled
        /\ ZeroedStaysZero /\ CopiesRight /\ CleanWindowsExact

-------------------------------------------------------------------------------
(* The two maps share no word. *)
LEMMA WordsOfMaps ==
  /\ \A m \in Maps : Words(m) \subseteq AllWords /\ Words(m) # {}
  /\ \A m, k \in Maps : \A w \in Words(m) : w \in Words(k) => k = m
BY DrainAssumption DEF Maps, Words, AllWords

(* CPUs are numbered from 0. *)
LEMMA CPUsAreNumbers ==
  /\ NCPU \in Nat \ {0} /\ CPUs \subseteq Int /\ 0 \in CPUs
  /\ \A c \in CPUs : 0 <= c /\ c < NCPU
  /\ \A c \in CPUs : c + 1 < NCPU => c + 1 \in CPUs
BY DrainAssumption DEF CPUs

LEMMA InitIInv == Init => IInv
<1> SUFFICES ASSUME Init
             PROVE  IInv
  OBVIOUS
<1> USE DEF Init, PerMap, NoWords
<1>1. << >> \in Seq(Window) /\ Len(<< >>) = 0
  OBVIOUS
<1>2. TypeOK
  <2>1. cell \in Cells /\ reg \in Cells /\ copy \in Cells
    BY DEF Cells
  <2>2. dtodo \subseteq Words(dmap) /\ dmap \in Maps /\ dcpu \in CPUs
    BY CPUsAreNumbers DEF Maps
  <2>3. /\ since \in [Maps -> [CPUs -> SUBSET Samples]]
        /\ expect \in [Maps -> [CPUs -> SUBSET Samples]]
    OBVIOUS
  <2>4. /\ overlap \in [Maps -> [CPUs -> BOOLEAN]]
        /\ suspect \in [Maps -> [CPUs -> BOOLEAN]]
        /\ clean \in [Maps -> [CPUs -> BOOLEAN]]
    BY Zenon
  <2>5. /\ upd \in [CPUs -> Maps \cup {"none"}]
        /\ sample \in [CPUs -> SUBSET Samples]
        /\ loaded \in [CPUs -> SUBSET AllWords]
        /\ stored \in [CPUs -> SUBSET AllWords]
        /\ started \subseteq Samples
    OBVIOUS
  <2> QED
    BY <1>1, <2>1, <2>2, <2>3, <2>4, <2>5 DEF TypeOK
<1>3. UpdatesInOrder
  BY DEF UpdatesInOrder
<1>4. GapIsQuiet /\ ZeroedStaysZero
  BY DEF GapIsQuiet, ZeroedStaysZero, InGap, PartlyZeroed
<1>5. Settled
  BY WordsOfMaps DEF Settled, CellsRight
<1>6. CopiesRight
  BY DEF CopiesRight, Copied, Closed
<1>7. CleanWindowsExact
  BY DEF CleanWindowsExact
<1> QED
  BY <1>2, <1>3, <1>4, <1>5, <1>6, <1>7 DEF IInv

-------------------------------------------------------------------------------
(***************************************************************************)
(* What the steps of CPU c's program have in common: they touch nothing of *)
(* the drain, nothing of another CPU, and nothing of a map the program is  *)
(* neither in before the step nor after it.                                *)
(***************************************************************************)
ProgramFrame(c) ==
  /\ UNCHANGED <<drainVars, suspect, expect, clean>>
  /\ NoteOverlap(c)
  /\ \A d \in CPUs \ {c} :
       /\ cell'[d] = cell[d] /\ reg'[d] = reg[d] /\ upd'[d] = upd[d]
       /\ sample'[d] = sample[d] /\ loaded'[d] = loaded[d]
       /\ stored'[d] = stored[d]
       /\ \A m \in Maps : since'[m][d] = since[m][d]
  /\ \A m \in Maps \ {upd[c], upd'[c]} :
       /\ since'[m][c] = since[m][c]
       /\ \A w \in Words(m) : cell'[c][w] = cell[c][w]

LEMMA OverlapNoted ==
  ASSUME TypeOK, NEW c \in CPUs, NoteOverlap(c)
  PROVE  /\ overlap' \in [Maps -> [CPUs -> BOOLEAN]]
         /\ \A m \in Maps, d \in CPUs :
              ~overlap'[m][d] =>
                /\ ~overlap[m][d]
                /\ d = c /\ InGap(m, c) => m # upd[c] /\ m # upd'[c]
<1>1. overlap' \in [Maps -> [CPUs -> BOOLEAN]]
  BY Zenon DEF NoteOverlap, TypeOK
<1>2. ASSUME NEW m \in Maps, NEW d \in CPUs
      PROVE  overlap'[m][d] <=>
               \/ overlap[m][d]
               \/ d = c /\ m \in {upd[c], upd'[c]} /\ InGap(m, c)
  BY Zenon DEF NoteOverlap, TypeOK
<1> QED
  BY <1>1, <1>2, Zenon

(* A step of a program disturbs neither the copies, nor the zeroed words,  *)
(* nor the windows, unless it is noted as an overlap.                      *)
LEMMA ProgramKeepsDrain ==
  ASSUME IInv, NEW c \in CPUs, ProgramFrame(c)
  PROVE  GapIsQuiet' /\ ZeroedStaysZero' /\ CopiesRight' /\ CleanWindowsExact'
<1> USE DEF IInv, ProgramFrame, drainVars
<1>1. \A m \in Maps, d \in CPUs :
        ~overlap'[m][d] => /\ ~overlap[m][d]
                           /\ d = c /\ InGap(m, c) => m # upd[c] /\ m # upd'[c]
  BY OverlapNoted
<1>2. \A m \in Maps, d \in CPUs : InGap(m, d)' <=> InGap(m, d)
  BY DEF InGap
<1>3. GapIsQuiet'
  BY <1>1, <1>2 DEF GapIsQuiet
<1>4. ASSUME NEW m \in Maps, NEW d \in CPUs, ~overlap'[m][d], InGap(m, d)
      PROVE  /\ since'[m][d] = since[m][d]
             /\ \A w \in Words(m) : cell'[d][w] = cell[d][w]
  BY <1>1, <1>4
<1>5. ZeroedStaysZero'
  <2> SUFFICES ASSUME NEW m \in Maps, NEW d \in CPUs, PartlyZeroed(m, d),
                      ~overlap'[m][d], NEW w \in Words(m) \ dtodo
               PROVE  cell'[d][w] = {}
    BY DEF ZeroedStaysZero, PartlyZeroed
  <2>1. InGap(m, d)
    BY CPUsAreNumbers DEF InGap, PartlyZeroed
  <2> QED
    BY <1>1, <1>4, <2>1 DEF ZeroedStaysZero
<1>6. CopiesRight'
  <2> SUFFICES ASSUME NEW m \in Maps, NEW d \in CPUs, NEW w \in Words(m)
               PROVE  /\ Copied(m, d, w) /\ ~overlap'[m][d] /\ ~suspect[m][d] =>
                           copy[d][w] = since'[m][d]
                      /\ Closed(m, d) /\ clean[m][d] => copy[d][w] = expect[m][d]
    BY DEF CopiesRight, Copied, Closed
  <2>1. Copied(m, d, w) => InGap(m, d)
    BY DEF InGap, Copied
  <2> QED
    BY <1>1, <1>4, <2>1 DEF CopiesRight
<1>7. CleanWindowsExact'
  BY DEF CleanWindowsExact
<1> QED
  BY <1>3, <1>5, <1>6, <1>7

(* Only the map the program is in, before the step or after it, needs a   *)
(* look of its own.                                                        *)
LEMMA ProgramKeepsSettled ==
  ASSUME IInv, NEW c \in CPUs, ProgramFrame(c),
         \A m \in Maps \cap {upd[c], upd'[c]} :
           CellsRight(m, c) => CellsRight(m, c)'
  PROVE  Settled'
<1> SUFFICES ASSUME NEW m \in Maps, NEW d \in CPUs, ~suspect[m][d],
                    ~PartlyZeroed(m, d)
             PROVE  CellsRight(m, d)'
  BY DEF Settled, ProgramFrame, PartlyZeroed, drainVars
<1>1. CellsRight(m, d)
  BY DEF IInv, Settled
<1>2. CASE d # c
  BY <1>1, <1>2 DEF CellsRight, ProgramFrame
<1>3. CASE d = c /\ m \notin {upd[c], upd'[c]}
  BY <1>1, <1>3 DEF CellsRight, ProgramFrame
<1>4. CASE d = c /\ m \in {upd[c], upd'[c]}
  BY <1>1, <1>4
<1> QED
  BY <1>2, <1>3, <1>4

LEMMA BeginUpdateIInv ==
  ASSUME IInv, NEW c \in CPUs, NEW k \in Samples, BeginUpdate(c, k)
  PROVE  IInv'
<1> USE DEF IInv, BeginUpdate, drainVars
<1>1. upd'[c] = "summary" /\ upd[c] = "none" /\ sample'[c] = {k}
  BY DEF TypeOK
<1>2. ProgramFrame(c)
  BY DEF TypeOK, ProgramFrame
<1>3. TypeOK'
  <2>1. overlap' \in [Maps -> [CPUs -> BOOLEAN]]
    BY OverlapNoted
  <2>2. upd' \in [CPUs -> Maps \cup {"none"}] /\ sample' \in [CPUs -> SUBSET Samples]
    BY DEF TypeOK, Maps
  <2> QED
    BY <2>1, <2>2 DEF TypeOK
<1>4. UpdatesInOrder'
  BY <1>1, <1>2 DEF UpdatesInOrder, ProgramFrame
<1>5. Settled'
  <2>1. loaded[c] = {} /\ stored[c] = {}
    BY <1>1 DEF UpdatesInOrder
  <2>2. \A m \in Maps : CellsRight(m, c) => CellsRight(m, c)'
    BY <1>1, <2>1 DEF CellsRight
  <2> QED
    BY <1>2, <2>2, ProgramKeepsSettled
<1> QED
  BY <1>2, <1>3, <1>4, <1>5, ProgramKeepsDrain

LEMMA LoadIInv ==
  ASSUME IInv, NEW c \in CPUs, NEW w \in AllWords, Load(c, w)
  PROVE  IInv'
<1> USE DEF IInv, Load, drainVars
<1>1. /\ upd[c] \in Maps /\ upd' = upd /\ w \in Words(upd[c]) \ loaded[c]
      /\ loaded'[c] = loaded[c] \cup {w}
      /\ \A v \in AllWords : reg'[c][v] = IF v = w THEN cell[c][w] ELSE reg[c][v]
  BY DEF TypeOK, Cells
<1>2. ProgramFrame(c)
  BY DEF TypeOK, ProgramFrame
<1>3. TypeOK'
  <2>1. overlap' \in [Maps -> [CPUs -> BOOLEAN]]
    BY OverlapNoted
  <2>2. reg' \in Cells /\ loaded' \in [CPUs -> SUBSET AllWords]
    BY DEF TypeOK, Cells
  <2> QED
    BY <2>1, <2>2 DEF TypeOK
<1>4. UpdatesInOrder'
  BY <1>1, <1>2 DEF UpdatesInOrder, ProgramFrame
<1>5. Settled'
  <2>1. w \notin stored[c]
    BY <1>1 DEF UpdatesInOrder
  <2>2. ASSUME NEW m \in Maps, CellsRight(m, c), NEW v \in Words(m)
        PROVE  /\ cell'[c][v] = since'[m][c] \cup
                    (IF upd'[c] = m /\ v \in stored'[c] THEN sample'[c] ELSE {})
               /\ upd'[c] = m /\ v \in loaded'[c] \ stored'[c] => reg'[c][v] = since'[m][c]
    <3>1. UNCHANGED <<cell, since, upd, stored, sample>> /\ v \in AllWords
      BY WordsOfMaps
    <3> HIDE DEF Load, IInv, drainVars
    <3>2. /\ cell[c][v] = since[m][c] \cup
               (IF upd[c] = m /\ v \in stored[c] THEN sample[c] ELSE {})
          /\ upd[c] = m /\ v \in loaded[c] \ stored[c] => reg[c][v] = since[m][c]
      BY <2>2 DEF CellsRight
    <3>3. CASE v = w
      <4>1. v \notin stored[c] /\ reg'[c][v] = cell[c][v]
        BY <1>1, <2>1, <3>1, <3>3
      <4> QED
        BY <3>1, <3>2, <4>1
    <3>4. CASE v # w
      <4>1. reg'[c][v] = reg[c][v] /\ (v \in loaded'[c] <=> v \in loaded[c])
        BY <1>1, <3>1, <3>4
      <4> QED
        BY <3>1, <3>2, <4>1
    <3> QED
      BY <3>3, <3>4
  <2>3. \A m \in Maps : CellsRight(m, c) => CellsRight(m, c)'
    <3> HIDE DEF Load, IInv, drainVars
    <3> QED
      BY <2>2 DEF CellsRight, Words
  <2> QED
    BY <1>2, <2>3, ProgramKeepsSettled
<1> QED
  BY <1>2, <1>3, <1>4, <1>5, ProgramKeepsDrain

LEMMA StoreIInv ==
  ASSUME IInv, NEW c \in CPUs, NEW w \in AllWords, Store(c, w)
  PROVE  IInv'
<1> USE DEF IInv, drainVars
<1> DEFINE m == upd[c]
<1>1. /\ m \in Maps /\ w \in loaded[c] \ stored[c] /\ w \in Words(m)
      /\ loaded[c] \subseteq Words(m) /\ stored[c] \subseteq loaded[c]
  BY DEF TypeOK, UpdatesInOrder, Store
<1>2. /\ \A d \in CPUs, v \in AllWords :
           cell'[d][v] = IF d = c /\ v = w THEN reg[c][w] \cup sample[c]
                         ELSE cell[d][v]
      /\ cell' \in Cells
      /\ \A d \in CPUs \ {c} : cell'[d] = cell[d]
  BY DEF TypeOK, Cells, Store
<1>3. CASE stored[c] \cup {w} = Words(m)
  <2>1. EndUpdate(c)
    BY <1>3 DEF Store
  <2>2. /\ upd' \in [CPUs -> Maps \cup {"none"}]
        /\ upd'[c] = IF m = "summary" THEN "topk" ELSE "none"
        /\ \A d \in CPUs \ {c} : upd'[d] = upd[d]
    BY <2>1 DEF TypeOK, EndUpdate, Maps
  <2>3. /\ loaded' \in [CPUs -> SUBSET AllWords] /\ stored' \in [CPUs -> SUBSET AllWords]
        /\ reg' \in Cells
        /\ loaded'[c] = {} /\ stored'[c] = {}
        /\ \A d \in CPUs \ {c} : loaded'[d] = loaded[d] /\ stored'[d] = stored[d]
                                  /\ reg'[d] = reg[d]
    BY <2>1 DEF TypeOK, EndUpdate, Cells, NoWords
  <2>4. /\ since' \in [Maps -> [CPUs -> SUBSET Samples]]
        /\ \A k \in Maps, d \in CPUs :
             since'[k][d] = IF k = m /\ d = c THEN since[m][c] \cup sample[c]
                            ELSE since[k][d]
    BY <2>1, <1>1 DEF TypeOK, EndUpdate
  <2>5. ProgramFrame(c)
    BY <1>1, <1>2, <2>2, <2>3, <2>4, WordsOfMaps DEF ProgramFrame, Store
  <2>6. TypeOK'
    <3>1. overlap' \in [Maps -> [CPUs -> BOOLEAN]]
      BY OverlapNoted DEF Store
    <3> QED
      BY <1>2, <2>2, <2>3, <2>4, <3>1 DEF TypeOK, Store
  <2>7. UpdatesInOrder'
    BY <2>2, <2>3 DEF UpdatesInOrder
  <2>8. Settled'
    <3> SUFFICES ASSUME NEW k \in Maps \cap {upd[c], upd'[c]}, CellsRight(k, c)
                 PROVE  CellsRight(k, c)'
      BY <2>5, ProgramKeepsSettled
    <3>1. CASE k = m
      BY <3>1, <1>1, <1>2, <1>3, <2>2, <2>3, <2>4, WordsOfMaps DEF CellsRight, Store
    <3>2. CASE k # m
      BY <3>2, <1>1, <1>2, <2>2, <2>3, <2>4, WordsOfMaps DEF CellsRight
    <3> QED
      BY <3>1, <3>2
  <2> QED
    BY <2>5, <2>6, <2>7, <2>8, ProgramKeepsDrain
<1>4. CASE stored[c] \cup {w} # Words(m)
  <2>0. /\ UNCHANGED <<upd, reg, loaded, since, sample>>
        /\ stored' = [stored EXCEPT ![c] = @ \cup {w}]
    BY <1>4 DEF Store
  <2>1. /\ UNCHANGED <<upd, reg, loaded, since, sample>>
        /\ stored' \in [CPUs -> SUBSET AllWords]
        /\ stored'[c] = stored[c] \cup {w}
        /\ \A d \in CPUs \ {c} : stored'[d] = stored[d]
    BY <2>0 DEF TypeOK
  <2>2. ProgramFrame(c)
    BY <1>1, <1>2, <2>1, WordsOfMaps DEF ProgramFrame, Store
  <2>3. TypeOK'
    <3>1. overlap' \in [Maps -> [CPUs -> BOOLEAN]]
      BY OverlapNoted DEF Store
    <3> QED
      BY <1>2, <2>1, <3>1 DEF TypeOK, Store
  <2>4. UpdatesInOrder'
    BY <1>1, <2>1 DEF UpdatesInOrder
  <2>5. CellsRight(m, c) => CellsRight(m, c)'
    BY <1>1, <1>2, <2>1, WordsOfMaps DEF CellsRight
  <2>6. Settled'
    BY <2>1, <2>2, <2>5, ProgramKeepsSettled
  <2> QED
    BY <2>2, <2>3, <2>4, <2>6, ProgramKeepsDrain
<1> QED
  BY <1>3, <1>4

-------------------------------------------------------------------------------
LEMMA StartDrainIInv == IInv /\ StartDrain => IInv'
<1> SUFFICES ASSUME IInv, StartDrain
             PROVE  IInv'
  OBVIOUS
<1> USE DEF IInv, StartDrain, progVars, histVars
<1>1. dmap' = "summary" /\ dpc' = "copy" /\ dcpu' = 0 /\ dtodo' = Words(dmap')
  OBVIOUS
<1>2. TypeOK'
  BY CPUsAreNumbers DEF TypeOK, Maps, Cells, NoWords
<1>3. UpdatesInOrder'
  BY DEF UpdatesInOrder
<1>4. \A m \in Maps, c \in CPUs : ~InGap(m, c)'
  BY <1>1, CPUsAreNumbers DEF InGap
<1>5. GapIsQuiet'
  BY <1>4 DEF GapIsQuiet
<1>6. \A m \in Maps, c \in CPUs : ~PartlyZeroed(m, c) /\ ~PartlyZeroed(m, c)'
  BY <1>1 DEF PartlyZeroed
<1>7. Settled' /\ ZeroedStaysZero'
  BY <1>6 DEF Settled, ZeroedStaysZero, CellsRight
<1>8. CopiesRight'
  BY <1>1, CPUsAreNumbers DEF CopiesRight, Copied, Closed
<1>9. CleanWindowsExact'
  BY DEF CleanWindowsExact
<1> QED
  BY <1>2, <1>3, <1>5, <1>7, <1>8, <1>9

(* Where the copying stands after a word: nothing else enters the gap, and *)
(* nothing else counts as copied.                                          *)
LEMMA AfterCopy ==
  ASSUME TypeOK, NEW w \in AllWords, CopyWord(w)
  PROVE  /\ dpc' \in {"copy", "zero"} /\ dcpu' \in CPUs
         /\ dtodo' \subseteq Words(dmap)
         /\ dpc' = "zero" => dcpu' = 0 /\ dtodo' = Words(dmap)
         /\ \A m \in Maps, c \in CPUs :
              InGap(m, c)' => InGap(m, c) \/ (m = dmap /\ c = dcpu)
         /\ \A m \in Maps, c \in CPUs : \A v \in Words(m) :
              Copied(m, c, v)' =>
                Copied(m, c, v) \/ (m = dmap /\ c = dcpu /\ v = w)
<1> USE CPUsAreNumbers DEF CopyWord, AdvanceCopy
<1>1. dpc = "copy" /\ w \in dtodo /\ dcpu \in CPUs /\ dtodo \subseteq Words(dmap) /\ dmap' = dmap
  BY DEF TypeOK
<1>2. CASE dtodo \ {w} # {}
  BY <1>1, <1>2 DEF InGap, Copied
<1>3. CASE dtodo \ {w} = {} /\ dcpu + 1 < NCPU
  <2>1. dtodo' = Words(dmap) /\ dcpu' = dcpu + 1 /\ dpc' = dpc
    BY <1>3
  <2> QED
    BY <1>1, <1>3, <2>1 DEF InGap, Copied
<1>4. CASE dtodo \ {w} = {} /\ ~(dcpu + 1 < NCPU)
  <2>1. dtodo' = Words(dmap) /\ dcpu' = 0 /\ dpc' = "zero"
    BY <1>4
  <2> QED
    BY <1>1, <1>4, <2>1 DEF InGap, Copied
<1> QED
  BY <1>2, <1>3, <1>4

LEMMA CopyWordIInv ==
  ASSUME IInv, NEW w \in AllWords, CopyWord(w)
  PROVE  IInv'
<1> USE DEF IInv, progVars
<1> DEFINE m == dmap
           c == dcpu
<1>1. /\ dpc = "copy" /\ w \in dtodo /\ m \in Maps /\ c \in CPUs /\ dtodo \subseteq Words(m)
      /\ UNCHANGED <<dmap, windows, progVars, since, suspect, expect, clean>>
  BY DEF TypeOK, CopyWord
<1>2. /\ copy' \in Cells
      /\ \A d \in CPUs, v \in AllWords :
           copy'[d][v] = IF d = c /\ v = w THEN cell[c][w] ELSE copy[d][v]
  BY DEF TypeOK, Cells, CopyWord
<1>3. overlap' \in [Maps -> [CPUs -> BOOLEAN]]
  BY Zenon DEF TypeOK, CopyWord
<1>4. \A k \in Maps, d \in CPUs :
        k # m \/ d # c => overlap'[k][d] = overlap[k][d]
  BY DEF TypeOK, CopyWord
<1>5. overlap'[m][c] = IF dtodo = Words(m) THEN upd[c] = m ELSE overlap[m][c]
  BY Zenon, <1>1 DEF TypeOK, CopyWord
<1>6. ~overlap'[m][c] => upd[c] # m
  <2>1. dtodo # Words(m) => InGap(m, c)
    BY <1>1 DEF InGap
  <2> QED
    BY <1>1, <1>5, <2>1 DEF GapIsQuiet
<1>7. TypeOK'
  BY <1>1, <1>2, <1>3, AfterCopy DEF TypeOK
<1>8. UpdatesInOrder'
  BY <1>1 DEF UpdatesInOrder
<1>9. GapIsQuiet'
  BY <1>1, <1>4, <1>6, AfterCopy DEF GapIsQuiet
<1>10. \A k \in Maps, d \in CPUs : ~PartlyZeroed(k, d) /\ ~PartlyZeroed(k, d)'
  BY <1>1, AfterCopy DEF PartlyZeroed
<1>11. Settled' /\ ZeroedStaysZero'
  BY <1>1, <1>10 DEF Settled, ZeroedStaysZero, CellsRight
<1>12. CopiesRight'
  <2> SUFFICES ASSUME NEW k \in Maps, NEW d \in CPUs, NEW v \in Words(k)
               PROVE  /\ Copied(k, d, v)' /\ ~overlap'[k][d] /\ ~suspect[k][d] =>
                           copy'[d][v] = since[k][d]
                      /\ Closed(k, d)' /\ clean[k][d] => copy'[d][v] = expect[k][d]
    BY <1>1 DEF CopiesRight
  <2>1. v \in AllWords
    BY WordsOfMaps
  <2>2. ASSUME Copied(k, d, v)', ~overlap'[k][d], ~suspect[k][d]
        PROVE  copy'[d][v] = since[k][d]
    <3>1. CASE k = m /\ d = c /\ v = w
      <4>1. CellsRight(m, c) /\ upd[c] # m
        BY <1>1, <1>6, <1>10, <2>2, <3>1 DEF Settled
      <4>2. cell[c][w] = since[m][c]
        BY <3>1, <4>1 DEF CellsRight
      <4> QED
        BY <1>2, <2>1, <3>1, <4>2
    <3>2. CASE ~(k = m /\ d = c /\ v = w)
      <4>1. Copied(k, d, v)
        BY <2>2, <3>2, AfterCopy
      <4>2. ~overlap[k][d]
        <5>1. k = m /\ d = c => v \notin dtodo
          BY <1>1, <4>1, CPUsAreNumbers DEF Copied
        <5>2. k = m /\ d = c => dtodo # Words(m)
          BY <5>1
        <5> QED
          BY <1>4, <1>5, <2>2, <5>2
      <4>3. copy'[d][v] = copy[d][v]
        BY <1>1, <1>2, <2>1, <3>2, WordsOfMaps
      <4> QED
        BY <2>2, <4>1, <4>2, <4>3 DEF CopiesRight
    <3> QED
      BY <3>1, <3>2
  <2>3. ASSUME Closed(k, d)', clean[k][d]
        PROVE  copy'[d][v] = expect[k][d]
    <3>1. k = "summary" /\ m = "topk"
      BY <1>1, <2>3, AfterCopy, CPUsAreNumbers DEF Closed
    <3>2. copy'[d][v] = copy[d][v]
      BY <1>1, <1>2, <2>1, <3>1, WordsOfMaps
    <3> QED
      BY <2>3, <3>1, <3>2 DEF CopiesRight, Closed
  <2> QED
    BY <2>2, <2>3
<1>13. CleanWindowsExact'
  BY <1>1 DEF CleanWindowsExact
<1> QED
  BY <1>7, <1>8, <1>9, <1>11, <1>12, <1>13

-------------------------------------------------------------------------------
(* What zeroing a word needs of the state before it. *)
LEMMA ZeroWordFacts ==
  ASSUME IInv, NEW w \in AllWords, ZeroWord(w)
  PROVE  /\ dpc = "zero" /\ w \in dtodo /\ dmap \in Maps /\ dcpu \in CPUs
         /\ dtodo \subseteq Words(dmap)
         /\ UNCHANGED <<upd, sample, reg, loaded, stored, started, copy, overlap>>
         /\ cell' \in Cells
         /\ \A d \in CPUs, v \in AllWords :
              cell'[d][v] = IF d = dcpu /\ v = w THEN {} ELSE cell[d][v]
         /\ ~overlap[dmap][dcpu] =>
              /\ upd[dcpu] # dmap
              /\ \A v \in Words(dmap) \ (dtodo \ {w}) : cell'[dcpu][v] = {}
<1> USE DEF IInv
<1>1. /\ dpc = "zero" /\ w \in dtodo /\ dmap \in Maps /\ dcpu \in CPUs
      /\ dtodo \subseteq Words(dmap)
      /\ UNCHANGED <<upd, sample, reg, loaded, stored, started, copy, overlap>>
  BY DEF TypeOK, ZeroWord
<1>2. /\ cell' \in Cells
      /\ \A d \in CPUs, v \in AllWords :
           cell'[d][v] = IF d = dcpu /\ v = w THEN {} ELSE cell[d][v]
  BY DEF TypeOK, Cells, ZeroWord, ResetValue
<1>3. ASSUME ~overlap[dmap][dcpu]
      PROVE  upd[dcpu] # dmap
  <2>1. InGap(dmap, dcpu)
    BY <1>1, CPUsAreNumbers DEF InGap
  <2> QED
    BY <1>1, <1>3, <2>1 DEF GapIsQuiet
<1>4. ASSUME ~overlap[dmap][dcpu], NEW v \in Words(dmap) \ (dtodo \ {w})
      PROVE  cell'[dcpu][v] = {}
  <2>1. v \in AllWords
    BY <1>1, WordsOfMaps
  <2>2. CASE v = w
    BY <1>1, <1>2, <2>1, <2>2
  <2>3. CASE v # w
    <3>1. PartlyZeroed(dmap, dcpu)
      BY <1>1, <2>3 DEF PartlyZeroed
    <3>2. cell[dcpu][v] = {}
      BY <1>1, <1>4, <2>3, <3>1 DEF ZeroedStaysZero
    <3> QED
      BY <1>1, <1>2, <2>1, <2>3, <3>2
  <2> QED
    BY <2>2, <2>3
<1> QED
  BY <1>1, <1>2, <1>3, <1>4

(* Zeroing a word, not the last of the CPU's. *)
LEMMA ZeroWordMoreIInv ==
  ASSUME IInv, NEW w \in AllWords, ZeroWord(w), dtodo # {w}
  PROVE  IInv'
<1> USE DEF IInv
<1>1. /\ dtodo' = dtodo \ {w}
      /\ UNCHANGED <<dpc, dmap, dcpu, windows, since, suspect, expect, clean>>
  BY DEF ZeroWord
<1>2. /\ dpc = "zero" /\ w \in dtodo /\ dmap \in Maps /\ dcpu \in CPUs
      /\ dtodo \subseteq Words(dmap)
      /\ UNCHANGED <<upd, sample, reg, loaded, stored, started, copy, overlap>>
      /\ cell' \in Cells
  BY ZeroWordFacts
<1>3. TypeOK'
  BY <1>1, <1>2 DEF TypeOK
<1>4. UpdatesInOrder'
  BY <1>2 DEF UpdatesInOrder
<1>5. GapIsQuiet'
  BY <1>1, <1>2 DEF GapIsQuiet, InGap
<1>6. PartlyZeroed(dmap, dcpu)'
  BY <1>1, <1>2 DEF PartlyZeroed
<1>7. Settled'
  <2> SUFFICES ASSUME NEW m \in Maps, NEW c \in CPUs, ~suspect[m][c],
                      ~PartlyZeroed(m, c)'
               PROVE  CellsRight(m, c)'
    BY <1>1 DEF Settled
  <2>1. ~(m = dmap /\ c = dcpu)
    BY <1>1, <1>6
  <2>2. CellsRight(m, c)
    BY <2>1 DEF Settled, PartlyZeroed
  <2>3. \A v \in Words(m) : cell'[c][v] = cell[c][v]
    BY <1>2, <2>1, ZeroWordFacts, WordsOfMaps
  <2> QED
    BY <1>1, <1>2, <2>2, <2>3 DEF CellsRight
<1>8. ZeroedStaysZero'
  BY <1>1, <1>2, ZeroWordFacts DEF ZeroedStaysZero, PartlyZeroed
<1>9. CopiesRight'
  BY <1>1, <1>2 DEF CopiesRight, Copied, Closed
<1>10. CleanWindowsExact'
  BY <1>1 DEF CleanWindowsExact
<1> QED
  BY <1>3, <1>4, <1>5, <1>7, <1>8, <1>9, <1>10

(* What is known of CPU dcpu once its last word is zeroed, and of the      *)
(* window it is part of.                                                   *)
LEMMA CloseCpuFacts ==
  ASSUME IInv, NEW w \in AllWords, ZeroWord(w), dtodo = {w}
  PROVE  /\ since' \in [Maps -> [CPUs -> SUBSET Samples]]
         /\ expect' \in [Maps -> [CPUs -> SUBSET Samples]]
         /\ suspect' \in [Maps -> [CPUs -> BOOLEAN]]
         /\ clean' \in [Maps -> [CPUs -> BOOLEAN]]
         /\ \A m \in Maps, c \in CPUs : m # dmap \/ c # dcpu =>
              /\ since'[m][c] = since[m][c] /\ expect'[m][c] = expect[m][c]
              /\ suspect'[m][c] = suspect[m][c] /\ clean'[m][c] = clean[m][c]
         /\ \A m \in Maps, c \in CPUs : ~suspect'[m][c] => CellsRight(m, c)'
         /\ \A m \in Maps, c \in CPUs :
              (Closed(m, c) \/ (m = dmap /\ c = dcpu)) /\ clean'[m][c] =>
                \A v \in Words(m) : copy[c][v] = expect'[m][c]
<1> USE DEF IInv
<1> DEFINE m == dmap
           c == dcpu
<1>1. CloseCpu
  BY DEF ZeroWord
<1>2. /\ dpc = "zero" /\ w \in dtodo /\ m \in Maps /\ c \in CPUs
      /\ dtodo \subseteq Words(m)
      /\ UNCHANGED <<upd, sample, reg, loaded, stored, started, copy, overlap>>
  BY ZeroWordFacts
<1>3. /\ since' \in [Maps -> [CPUs -> SUBSET Samples]]
      /\ expect' \in [Maps -> [CPUs -> SUBSET Samples]]
      /\ since'[m][c] = {} /\ expect'[m][c] = since[m][c]
      /\ \A k \in Maps, d \in CPUs : k # m \/ d # c =>
           since'[k][d] = since[k][d] /\ expect'[k][d] = expect[k][d]
  BY <1>1, <1>2 DEF CloseCpu, TypeOK
<1>4. /\ suspect' \in [Maps -> [CPUs -> BOOLEAN]]
      /\ suspect'[m][c] = overlap[m][c]
  BY <1>1, <1>2, Zenon DEF CloseCpu, TypeOK
<1>5. /\ clean' \in [Maps -> [CPUs -> BOOLEAN]]
      /\ clean'[m][c] = (~overlap[m][c] /\ ~suspect[m][c])
  BY <1>1, <1>2, Zenon DEF CloseCpu, TypeOK
<1>6. \A k \in Maps, d \in CPUs : k # m \/ d # c =>
        suspect'[k][d] = suspect[k][d] /\ clean'[k][d] = clean[k][d]
  BY <1>1 DEF CloseCpu, TypeOK
<1>7. ASSUME NEW k \in Maps, NEW d \in CPUs, ~suspect'[k][d]
      PROVE  CellsRight(k, d)'
  <2>1. CASE k = m /\ d = c
    BY <1>2, <1>3, <1>4, <1>7, <2>1, ZeroWordFacts DEF CellsRight
  <2>2. CASE k # m \/ d # c
    <3>1. CellsRight(k, d)
      BY <1>6, <1>7, <2>2 DEF Settled, PartlyZeroed
    <3>2. \A v \in Words(k) : cell'[d][v] = cell[d][v]
      BY <1>2, <2>2, ZeroWordFacts, WordsOfMaps
    <3> QED
      BY <1>2, <1>3, <2>2, <3>1, <3>2 DEF CellsRight
  <2> QED
    BY <2>1, <2>2
<1>8. ASSUME NEW k \in Maps, NEW d \in CPUs, clean'[k][d],
             Closed(k, d) \/ (k = m /\ d = c), NEW v \in Words(k)
      PROVE  copy[d][v] = expect'[k][d]
  <2>1. CASE k = m /\ d = c
    <3>1. Copied(m, c, v)
      BY <1>2, CPUsAreNumbers DEF Copied
    <3> QED
      BY <1>2, <1>3, <1>5, <1>8, <2>1, <3>1 DEF CopiesRight
  <2>2. CASE k # m \/ d # c
    BY <1>3, <1>6, <1>8, <2>2 DEF CopiesRight
  <2> QED
    BY <2>1, <2>2
<1> QED
  BY <1>3, <1>4, <1>5, <1>6, <1>7, <1>8

(* Zeroing the last word of a CPU's value: the next CPU, the next map, or  *)
(* the end of the window.                                                  *)
LEMMA ZeroWordLastIInv ==
  ASSUME IInv, NEW w \in AllWords, ZeroWord(w), dtodo = {w}
  PROVE  IInv'
<1> USE DEF IInv
<1>1. /\ dpc = "zero" /\ w \in dtodo /\ dmap \in Maps /\ dcpu \in CPUs
      /\ dtodo \subseteq Words(dmap)
      /\ UNCHANGED <<upd, sample, reg, loaded, stored, started, copy, overlap>>
      /\ cell' \in Cells
  BY ZeroWordFacts
<1>2. UpdatesInOrder'
  BY <1>1 DEF UpdatesInOrder
<1>3. /\ dcpu' \in CPUs /\ dmap' \in Maps /\ dtodo' \subseteq Words(dmap')
      /\ dpc' \in {"idle", "copy", "zero"} /\ (dpc' = "idle" \/ dtodo' = Words(dmap'))
      /\ dpc' = "zero" => dmap' = dmap /\ dcpu' = dcpu + 1
      /\ dpc' # "zero" => dmap' = "topk" /\ dcpu' = 0 /\ dcpu + 1 >= NCPU
  BY <1>1, CPUsAreNumbers DEF ZeroWord, CloseMap, Maps, Words
<1>4. \A m \in Maps, c \in CPUs : InGap(m, c)' => InGap(m, c)
  BY <1>1, <1>3, CPUsAreNumbers DEF InGap
<1>5. GapIsQuiet'
  BY <1>1, <1>4 DEF GapIsQuiet
<1>6. \A m \in Maps, c \in CPUs : ~PartlyZeroed(m, c)'
  BY <1>3 DEF PartlyZeroed
<1>7. Settled' /\ ZeroedStaysZero'
  BY <1>6, CloseCpuFacts DEF Settled, ZeroedStaysZero
<1>8. CopiesRight'
  <2> SUFFICES ASSUME NEW m \in Maps, NEW c \in CPUs, NEW v \in Words(m)
               PROVE  /\ Copied(m, c, v)' /\ ~overlap[m][c] /\ ~suspect'[m][c] =>
                           copy[c][v] = since'[m][c]
                      /\ Closed(m, c)' /\ clean'[m][c] => copy[c][v] = expect'[m][c]
    BY <1>1 DEF CopiesRight
  <2>1. Copied(m, c, v)' => Copied(m, c, v) /\ c # dcpu
    BY <1>1, <1>3, CPUsAreNumbers DEF Copied
  <2>2. Closed(m, c)' => Closed(m, c) \/ (m = dmap /\ c = dcpu)
    BY <1>1, <1>3, CPUsAreNumbers DEF Closed, Maps
  <2>3. c # dcpu => since'[m][c] = since[m][c] /\ suspect'[m][c] = suspect[m][c]
    BY CloseCpuFacts
  <2>4. Copied(m, c, v)' /\ ~overlap[m][c] /\ ~suspect'[m][c] => copy[c][v] = since'[m][c]
    BY <2>1, <2>3 DEF CopiesRight
  <2>5. Closed(m, c)' /\ clean'[m][c] => copy[c][v] = expect'[m][c]
    BY <2>2, CloseCpuFacts
  <2> QED
    BY <2>4, <2>5
<1>9. /\ windows' \in Seq(Window)
      /\ CleanWindowsExact'
  <2>1. CASE windows' = windows
    BY <2>1 DEF TypeOK, CleanWindowsExact
  <2>2. CASE windows' # windows
    <3> DEFINE win == [got |-> copy, expect |-> expect', clean |-> clean']
    <3>1. windows' = Append(windows, win) /\ dmap = "topk" /\ dcpu + 1 >= NCPU
      BY <2>2, <1>1, CPUsAreNumbers DEF ZeroWord, CloseMap, TypeOK, Maps
    <3>2. win \in Window
      BY CloseCpuFacts DEF TypeOK, Window
    <3>3. windows' \in Seq(Window) /\ Len(windows') = Len(windows) + 1 /\ Len(windows) \in Nat
      BY <3>1, <3>2 DEF TypeOK
    <3>4. /\ \A i \in 1 .. Len(windows) : windows'[i] = windows[i]
          /\ windows'[Len(windows) + 1] = win
      BY <3>1, <3>2 DEF TypeOK
    <3>5. \A m \in Maps, c \in CPUs : Closed(m, c) \/ (m = dmap /\ c = dcpu)
      BY <1>1, <3>1, CPUsAreNumbers DEF Closed, Maps
    <3>6. \A m \in Maps, c \in CPUs :
            win.clean[m][c] => \A v \in Words(m) : win.got[c][v] = win.expect[m][c]
      BY <3>5, CloseCpuFacts
    <3> HIDE DEF win
    <3>7. CleanWindowsExact'
      <4> SUFFICES ASSUME NEW i \in 1 .. Len(windows'), NEW m \in Maps, NEW c \in CPUs,
                          windows'[i].clean[m][c], NEW v \in Words(m)
                   PROVE  windows'[i].got[c][v] = windows'[i].expect[m][c]
        BY DEF CleanWindowsExact
      <4>1. CASE i \in 1 .. Len(windows)
        BY <3>4, <4>1 DEF CleanWindowsExact
      <4>2. CASE i = Len(windows) + 1
        BY <3>4, <3>6, <4>2
      <4> QED
        BY <3>3, <4>1, <4>2
    <3> QED
      BY <3>3, <3>7
  <2> QED
    BY <2>1, <2>2
<1>10. TypeOK'
  BY <1>1, <1>3, <1>9, CloseCpuFacts DEF TypeOK
<1> QED
  BY <1>2, <1>5, <1>7, <1>8, <1>9, <1>10

LEMMA StutterIInv == IInv /\ UNCHANGED vars => IInv'
<1> SUFFICES ASSUME IInv, UNCHANGED vars
             PROVE  IInv'
  OBVIOUS
<1> USE DEF vars, progVars, drainVars, histVars
<1>1. TypeOK'
  BY DEF IInv, TypeOK
<1>2. UpdatesInOrder' /\ GapIsQuiet'
  BY DEF IInv, UpdatesInOrder, GapIsQuiet, InGap
<1>3. Settled' /\ ZeroedStaysZero'
  BY DEF IInv, Settled, ZeroedStaysZero, CellsRight, PartlyZeroed
<1>4. CopiesRight' /\ CleanWindowsExact'
  BY DEF IInv, CopiesRight, Copied, Closed, CleanWindowsExact
<1> QED
  BY <1>1, <1>2, <1>3, <1>4 DEF IInv

(* Every step of a program or of the drain keeps what the words account    *)
(* for: the invariant the three theorems follow from.                      *)
THEOREM DrainInvariant == Spec => []IInv
<1>1. IInv /\ [Next]_vars => IInv'
  <2> SUFFICES ASSUME IInv, [Next]_vars
               PROVE  IInv'
    OBVIOUS
  <2>1. CASE \E c \in CPUs : Program(c)
    <3> PICK c \in CPUs : Program(c)
      BY <2>1
    <3>1. CASE \E k \in Samples : BeginUpdate(c, k)
      BY <3>1, BeginUpdateIInv
    <3>2. CASE \E w \in AllWords : Load(c, w)
      BY <3>2, LoadIInv
    <3>3. CASE \E w \in AllWords : Store(c, w)
      BY <3>3, StoreIInv
    <3> QED
      BY <3>1, <3>2, <3>3 DEF Program
  <2>2. CASE Userspace
    <3>1. CASE StartDrain
      BY <3>1, StartDrainIInv
    <3>2. CASE \E w \in AllWords : CopyWord(w)
      BY <3>2, CopyWordIInv
    <3>3. CASE \E w \in AllWords : ZeroWord(w)
      BY <3>3, ZeroWordMoreIInv, ZeroWordLastIInv
    <3> QED
      BY <2>2, <3>1, <3>2, <3>3 DEF Userspace
  <2>3. CASE UNCHANGED vars
    BY <2>3, StutterIInv
  <2> QED
    BY <2>1, <2>2, <2>3 DEF Next
<1> QED
  BY InitIInv, <1>1, PTL DEF Spec

(* The drain and the programs keep their words, maps and windows typed. *)
THEOREM DrainTypeCorrect == Spec => []TypeOK
<1>1. IInv => TypeOK
  BY DEF IInv
<1> QED
  BY <1>1, DrainInvariant, PTL

(***************************************************************************)
(* Where no update of a CPU's value overlapped this drain of it or the     *)
(* last, the stored window has, in every word, exactly the samples that    *)
(* completed between the two: drain_and_reset_summaries and                *)
(* drain_and_reset_topk lose, double and tear nothing themselves.          *)
(***************************************************************************)
THEOREM DrainCleanWindowsExact == Spec => []CleanWindowsExact
<1>1. IInv => CleanWindowsExact
  BY DEF IInv
<1> QED
  BY <1>1, DrainInvariant, PTL

(***************************************************************************)
(* One drain of a CPU's value without an overlap repairs whatever earlier  *)
(* overlaps did to it: torn words and samples that came back.              *)
(***************************************************************************)
THEOREM QuietDrainRepairsCells == Spec => []QuietDrainRepairs
<1>1. IInv => QuietDrainRepairs
  <2> SUFFICES ASSUME IInv, NEW m \in Maps, NEW c \in CPUs,
                      ~suspect[m][c], upd[c] # m, ~InGap(m, c), NEW w \in Words(m)
               PROVE  cell[c][w] = since[m][c]
    BY DEF QuietDrainRepairs
  <2>1. ~PartlyZeroed(m, c)
    BY CPUsAreNumbers DEF PartlyZeroed, InGap
  <2>2. CellsRight(m, c)
    BY <2>1 DEF IInv, Settled
  <2> QED
    BY <2>2 DEF CellsRight
<1> QED
  BY <1>1, DrainInvariant, PTL
================================================================================
