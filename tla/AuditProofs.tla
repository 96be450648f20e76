------------------------------- MODULE AuditProofs ------------------------------
(***************************************************************************)
(* Proofs about the audit as a gate, for any shapes of history, any files, *)
(* claims and keys, and any number of runs of the tests.                   *)
(***************************************************************************)
EXTENDS Audit, TestResultsProofs

(* Every state of the history, of the DAG and of a run is well typed.      *)
THEOREM AuditTypeCorrect == Spec => []TypeOK
<1>1. Init => TypeOK
  <2>1. SUFFICES ASSUME Init PROVE TypeOK
    OBVIOUS
  <2>2. parents \in Shapes /\ head \in DOMAIN parents
    <3>1. parents \in Seq(Seq(Nat)) /\ parents # << >>
      BY <2>1, AuditAssumption DEF Init
    <3>2. 1 \in DOMAIN parents
      BY <3>1, LenProperties, EmptySeq
    <3>3. QED
      BY <2>1, <3>2 DEF Init
  <2>3. EmptySnapshot \in Snapshot /\ DOMAIN EmptySnapshot = {}
    BY SnapshotIs DEF EmptySnapshot
  <2>4. EmptySnapshot \in [DOMAIN EmptySnapshot -> {NoCommit} \cup DOMAIN parents]
    BY <2>3 DEF EmptySnapshot
  <2>5. QED
    BY <2>1, <2>2, <2>3, <2>4 DEF Init, TypeOK, Idle
<1>2. ASSUME TypeOK, [Next]_vars PROVE TypeOK'
  <2>1. UNCHANGED history
    BY <1>2 DEF Next, MoveHead, StartRun, RecordRun, vars
  <2>2. parents' \in Shapes /\ trees' \in [DOMAIN parents' -> Tree]
    BY <1>2, <2>1 DEF TypeOK, history
  <2>3. CASE MoveHead
    BY <1>2, <2>1, <2>2, <2>3 DEF MoveHead, testVars, history, TypeOK
  <2>4. CASE StartRun
    <3>1. PICK ran \in {head, NoCommit} :
            session' = [pc |-> "running", sha |-> head, ran |-> ran]
      BY <2>4 DEF StartRun
    <3>2. /\ session'.pc = "running" /\ session'.sha \in DOMAIN parents'
          /\ session'.ran \in DOMAIN parents' \cup {NoCommit}
      BY <1>2, <2>1, <3>1 DEF TypeOK, history
    <3>3. QED
      BY <1>2, <2>1, <2>2, <2>4, <3>2 DEF StartRun, history, TypeOK
  <2>5. CASE RecordRun
    <3>1. PICK report \in Reports, sha \in {session.sha, head} :
            LET b == BatchOf(report, sha, clock') IN
            /\ current' = AddBatch(current, b)
            /\ ranOn' = [k \in DOMAIN current' |->
                           IF current'[k] = ObservationOf(b) THEN session.ran ELSE ranOn[k]]
            /\ session' = Idle(report.failed)
      BY <2>5 DEF RecordRun
    <3> DEFINE b == BatchOf(report, sha, clock')
    <3>2. /\ head' = head /\ parents' = parents /\ clock' = clock + 1 /\ clock' \in Times
          /\ session.pc = "running"
      BY <2>5 DEF RecordRun, history
    <3>3. /\ current \in Snapshot /\ sha \in DOMAIN parents /\ clock' \in Nat
          /\ session.ran \in {NoCommit} \cup DOMAIN parents
      BY <1>2, <3>2 DEF TypeOK
    <3>4. sha \in Shas
      BY <1>2, <3>3, AuditAssumption DEF TypeOK
    <3>5. b.keys = report.keys /\ b.failed = report.failed /\ b.purges = report.purges
      BY DEF BatchOf
    <3>6. current' \in Snapshot
          /\ \A k \in DOMAIN current' : k \in DOMAIN current \/ current'[k] = ObservationOf(b)
      <4>1. CASE IsEmitted(report)
        <5>1. b \in Batch
          BY <3>2, <3>4, <4>1 DEF Batch, Emitted
        <5>2. current' = AddBatch(current, b)
          BY <3>1
        <5> HIDE DEF b
        <5>3. /\ current' \in Snapshot
              /\ DOMAIN current' = (DOMAIN current \ Purged(b)) \cup b.keys
              /\ \A k \in b.keys \ DOMAIN current : current'[k] = ObservationOf(b)
          <6>1. PICK s \in Snapshot, c \in Batch : s = current /\ c = b
            BY <3>3, <5>1
          <6>2. /\ AddBatch(s, c) \in Snapshot
                /\ DOMAIN AddBatch(s, c) = (DOMAIN s \ Purged(c)) \cup c.keys
                /\ \A k \in c.keys \ DOMAIN s : AddBatch(s, c)[k] = ObservationOf(c)
            BY AddBatchIs
          <6>3. QED
            BY <5>2, <6>1, <6>2, Zenon
        <5>4. QED
          BY <5>3, Zenon DEF b
      <4>2. CASE ~IsEmitted(report)
        <5>1. b.keys = {} /\ ~b.purges
          BY <3>5, <4>2 DEF IsEmitted
        <5>2. current = [k \in DOMAIN current |-> current[k]]
          BY <3>3, SnapshotIs
        <5> HIDE DEF b
        <5>3. AddBatch(current, b) = current
          BY <5>1, <5>2 DEF AddBatch, Add, PurgeFailed
        <5>4. QED
          BY <3>1, <3>3, <5>3 DEF b
      <4>3. QED
        BY <4>1, <4>2
    <3>7. ranOn' \in [DOMAIN current' -> {NoCommit} \cup DOMAIN parents']
      <4> HIDE DEF b
      <4>1. \A k \in DOMAIN current : ranOn[k] \in {NoCommit} \cup DOMAIN parents
        BY <1>2 DEF TypeOK
      <4>2. ranOn' = [k \in DOMAIN current' |->
                        IF current'[k] = ObservationOf(b) THEN session.ran ELSE ranOn[k]]
        BY <3>1 DEF b
      <4>3. QED
        BY <3>2, <3>3, <3>6, <4>1, <4>2
    <3>8. session'.pc = "idle" /\ session'.failed \subseteq Keys
      BY <3>1, ReportTyped DEF Idle
    <3>9. QED
      BY <1>2, <2>1, <2>2, <3>2, <3>3, <3>6, <3>7, <3>8 DEF TypeOK
  <2>6. CASE UNCHANGED vars
    BY <1>2, <2>6 DEF vars, testVars, history, TypeOK
  <2>7. QED
    BY <1>2, <2>3, <2>4, <2>5, <2>6 DEF Next
<1>3. QED
  BY <1>1, <1>2, PTL DEF Spec

-------------------------------------------------------------------------------
(* Parents come before their children. *)
LEMMA ShapeTyped ==
  ASSUME TypeOK
  PROVE  /\ Len(parents) \in Nat \ {0} /\ DOMAIN parents = 1 .. Len(parents)
         /\ head \in 1 .. Len(parents)
         /\ \A i \in 1 .. Len(parents) :
              /\ DOMAIN parents[i] = 1 .. Len(parents[i]) /\ Len(parents[i]) \in 0 .. 2
              /\ \A n \in DOMAIN parents[i] : parents[i][n] \in 1 .. i - 1
              /\ i > 1 => 1 \in DOMAIN parents[i]
<1>1. parents \in Seq(Seq(Nat)) /\ parents # << >> /\ head \in DOMAIN parents
  BY AuditAssumption DEF TypeOK
<1>2. Len(parents) \in Nat \ {0} /\ DOMAIN parents = 1 .. Len(parents)
  BY <1>1, LenProperties, EmptySeq
<1>3. ASSUME NEW i \in 1 .. Len(parents)
      PROVE  /\ DOMAIN parents[i] = 1 .. Len(parents[i]) /\ Len(parents[i]) \in 0 .. 2
             /\ \A n \in DOMAIN parents[i] : parents[i][n] \in 1 .. i - 1
             /\ i > 1 => 1 \in DOMAIN parents[i]
  <2>1. parents[i] \in Seq(1 .. i - 1) /\ Len(parents[i]) <= 2
        /\ (i > 1 => parents[i] # << >>)
    BY <1>2, AuditAssumption DEF TypeOK
  <2>2. Len(parents[i]) \in Nat /\ DOMAIN parents[i] = 1 .. Len(parents[i])
    BY <2>1, LenProperties
  <2>3. \A n \in DOMAIN parents[i] : parents[i][n] \in 1 .. i - 1
    BY <2>1, <2>2, ElementOfSeq
  <2>4. i > 1 => 1 \in DOMAIN parents[i]
    BY <2>1, <2>2, EmptySeq
  <2>5. Len(parents[i]) \in 0 .. 2
    <3>1. \A m \in Nat : m <= 2 => m \in 0 .. 2
      OBVIOUS
    <3>2. QED
      BY <2>1, <2>2, <3>1, Zenon
  <2>6. QED
    BY <2>2, <2>3, <2>4, <2>5, Zenon
<1>4. QED
  BY <1>1, <1>2, <1>3

(* The two functions that git computes along the parents.                  *)
IsAnc(anc) ==
  anc = [i \in DOMAIN parents |-> {i} \cup UNION {anc[p] : p \in ToSet(parents[i])}]

Same(f, i) == {n \in DOMAIN parents[i] : trees[parents[i][n]][f] = trees[i][f]}

IsTouch(touch, f) ==
  touch = [i \in DOMAIN parents |->
             IF Same(f, i) # {} THEN touch[parents[i][Min(Same(f, i))]]
             ELSE IF parents[i] = << >> /\ trees[i][f] = Absent THEN NoCommit ELSE i]

(* Of the parents with the same contents there is a first. *)
LEMMA SameHasMin ==
  ASSUME TypeOK, NEW f, NEW i \in 1 .. Len(parents), Same(f, i) # {}
  PROVE  /\ Min(Same(f, i)) \in DOMAIN parents[i]
         /\ parents[i][Min(Same(f, i))] \in 1 .. i - 1
         /\ trees[parents[i][Min(Same(f, i))]][f] = trees[i][f]
<1>1. Same(f, i) \subseteq DOMAIN parents[i] /\ DOMAIN parents[i] \subseteq Nat
  BY ShapeTyped DEF Same
<1>2. \E n \in Same(f, i) : \A m \in Same(f, i) : n <= m
  BY <1>1, LeastNat
<1>3. Min(Same(f, i)) \in Same(f, i)
  BY <1>2 DEF Min
<1>4. QED
  BY <1>1, <1>3, ShapeTyped DEF Same

(* They exist, being computed from the first commit on. *)
LEMMA AncExists ==
  ASSUME TypeOK
  PROVE  \E anc : IsAnc(anc)
<1> DEFINE n == Len(parents)
           Step(anc, i) == {i} \cup UNION {anc[p] : p \in ToSet(parents[i])}
           Upto(anc, m) == /\ anc = [i \in 1 .. m |-> anc[i]]
                           /\ \A i \in 1 .. m : anc[i] = Step(anc, i)
           S == {m \in Nat : m <= n => \E anc : Upto(anc, m)}
<1>1. /\ n \in Nat /\ DOMAIN parents = 1 .. n
      /\ \A i \in 1 .. n : \A p \in ToSet(parents[i]) : p \in 1 .. i - 1
  BY ShapeTyped DEF ToSet
<1>2. 0 \in S
  <2>1. Upto([i \in 1 .. 0 |-> {}], 0)
    OBVIOUS
  <2>2. QED
    BY <2>1
<1> HIDE DEF Upto
<1>3. ASSUME NEW m \in Nat, m \in S PROVE m + 1 \in S
  <2>1. SUFFICES ASSUME m + 1 <= n PROVE \E anc : Upto(anc, m + 1)
    OBVIOUS
  <2> HIDE DEF n
  <2>2. m <= n
    BY <1>1, <2>1
  <2>3. PICK old : Upto(old, m)
    BY <1>3, <2>2
  <2> USE DEF Upto
  <2> DEFINE anc == [i \in 1 .. m + 1 |-> IF i <= m THEN old[i] ELSE Step(old, i)]
  <2>4. \A i \in 1 .. m + 1 : \A p \in ToSet(parents[i]) : p \in 1 .. m /\ anc[p] = old[p]
    <3>1. \A i \in 1 .. m + 1 : i \in 1 .. n /\ \A p \in 1 .. i - 1 : p \in 1 .. m
      BY <1>1, <2>1
    <3>2. \A p \in 1 .. m : anc[p] = old[p]
      OBVIOUS
    <3>3. QED
      BY <1>1, <3>1, <3>2
  <2>5. \A i \in 1 .. m + 1 : anc[i] = Step(old, i)
    <3>1. \A i \in 1 .. m + 1 : i <= m => i \in 1 .. m
      OBVIOUS
    <3>2. QED
      BY <2>3, <3>1
  <2>6. anc = [i \in 1 .. m + 1 |-> anc[i]]
    OBVIOUS
  <2> HIDE DEF anc
  <2>7. \A i \in 1 .. m + 1 : Step(old, i) = Step(anc, i)
    BY <2>4
  <2>8. Upto(anc, m + 1)
    BY <2>5, <2>6, <2>7
  <2> HIDE DEF Upto
  <2>9. QED
    BY <2>8
<1> HIDE DEF S
<1>4. Nat \subseteq S
  BY <1>2, <1>3, SetInduction
<1>5. PICK anc : Upto(anc, n)
  BY <1>1, <1>4 DEF S
<1>6. IsAnc(anc)
  BY <1>1, <1>5 DEF IsAnc, Upto
<1>7. QED
  BY <1>6

LEMMA TouchExists ==
  ASSUME TypeOK, NEW f
  PROVE  \E touch : IsTouch(touch, f)
<1> DEFINE n == Len(parents)
           From(i) == parents[i][Min(Same(f, i))]
           Own(i)  == IF parents[i] = << >> /\ trees[i][f] = Absent THEN NoCommit ELSE i
           Step(touch, i) == IF Same(f, i) # {} THEN touch[From(i)] ELSE Own(i)
           Upto(touch, m) == /\ touch = [i \in 1 .. m |-> touch[i]]
                             /\ \A i \in 1 .. m : touch[i] = Step(touch, i)
           S == {m \in Nat : m <= n => \E touch : Upto(touch, m)}
<1>1. /\ n \in Nat /\ DOMAIN parents = 1 .. n
      /\ \A i \in 1 .. n : Same(f, i) # {} => From(i) \in 1 .. i - 1
  BY ShapeTyped, SameHasMin
<1> HIDE DEF From, Own
<1>2. 0 \in S
  <2>1. Upto([i \in 1 .. 0 |-> {}], 0)
    OBVIOUS
  <2>2. QED
    BY <2>1
<1> HIDE DEF Upto
<1>3. ASSUME NEW m \in Nat, m \in S PROVE m + 1 \in S
  <2>1. SUFFICES ASSUME m + 1 <= n PROVE \E touch : Upto(touch, m + 1)
    OBVIOUS
  <2> HIDE DEF n
  <2>2. m <= n
    BY <1>1, <2>1
  <2>3. PICK old : Upto(old, m)
    BY <1>3, <2>2
  <2> USE DEF Upto
  <2> DEFINE touch == [i \in 1 .. m + 1 |-> IF i <= m THEN old[i] ELSE Step(old, i)]
  <2>4. \A i \in 1 .. m + 1 : Same(f, i) # {} => touch[From(i)] = old[From(i)]
    <3>1. \A i \in 1 .. m + 1 : i \in 1 .. n /\ \A p \in 1 .. i - 1 : p \in 1 .. m
      BY <1>1, <2>1
    <3>2. \A p \in 1 .. m : touch[p] = old[p]
      OBVIOUS
    <3>3. QED
      BY <1>1, <3>1, <3>2
  <2>5. \A i \in 1 .. m + 1 : touch[i] = Step(old, i)
    <3>1. \A i \in 1 .. m + 1 : i <= m => i \in 1 .. m
      OBVIOUS
    <3>2. QED
      BY <2>3, <3>1
  <2>6. touch = [i \in 1 .. m + 1 |-> touch[i]]
    OBVIOUS
  <2> HIDE DEF touch
  <2>7. \A i \in 1 .. m + 1 : Step(old, i) = Step(touch, i)
    BY <2>4
  <2>8. QED
    BY <2>5, <2>6, <2>7
<1> HIDE DEF S
<1>4. Nat \subseteq S
  BY <1>2, <1>3, SetInduction
<1>5. PICK touch : Upto(touch, n)
  BY <1>1, <1>4 DEF S
<1>6. IsTouch(touch, f)
  BY <1>1, <1>5 DEF IsTouch, From, Own, Upto
<1>7. QED
  BY <1>6

(* The ancestors of a commit are it and those of its parents; they are not *)
(* after it, and their ancestors are its own.                              *)
LEMMA AncestorFacts ==
  ASSUME TypeOK, NEW c \in 1 .. Len(parents)
  PROVE  /\ c \in Ancestors(c) /\ Ancestors(c) \subseteq 1 .. c
         /\ \A a \in Ancestors(c) : a = c \/ \E n \in DOMAIN parents[c] : a \in Ancestors(parents[c][n])
         /\ \A n \in DOMAIN parents[c] : Ancestors(parents[c][n]) \subseteq Ancestors(c)
         /\ \A b \in Ancestors(c) : Ancestors(b) \subseteq Ancestors(c)
<1> DEFINE n == Len(parents)
<1>1. /\ n \in Nat /\ DOMAIN parents = 1 .. n
      /\ \A i \in 1 .. n : \A k \in DOMAIN parents[i] : parents[i][k] \in 1 .. i - 1
  BY ShapeTyped
<1>2. PICK anc : IsAnc(anc) /\ \A i : Ancestors(i) = anc[i]
  <2>1. IsAnc(CHOOSE anc : IsAnc(anc))
    BY AncExists
  <2>2. \A i : Ancestors(i) = (CHOOSE anc : IsAnc(anc))[i]
    BY DEF Ancestors, IsAnc
  <2>3. QED
    BY <2>1, <2>2
<1>3. ASSUME NEW i \in 1 .. n
      PROVE  Ancestors(i) = {i} \cup UNION {Ancestors(parents[i][k]) : k \in DOMAIN parents[i]}
  <2>1. Ancestors(i) = {i} \cup UNION {anc[p] : p \in ToSet(parents[i])}
    BY <1>1, <1>2 DEF IsAnc
  <2>2. UNION {anc[p] : p \in ToSet(parents[i])}
          = UNION {Ancestors(parents[i][k]) : k \in DOMAIN parents[i]}
    BY <1>2 DEF ToSet
  <2>3. QED
    BY <2>1, <2>2
<1> HIDE DEF n
<1>4. ASSUME NEW i \in 1 .. n
      PROVE  /\ i \in Ancestors(i)
             /\ \A k \in DOMAIN parents[i] : Ancestors(parents[i][k]) \subseteq Ancestors(i)
             /\ \A a \in Ancestors(i) :
                  a = i \/ \E k \in DOMAIN parents[i] : a \in Ancestors(parents[i][k])
  BY <1>3
<1> DEFINE Good(i) == /\ Ancestors(i) \subseteq 1 .. i
                      /\ \A b \in Ancestors(i) : Ancestors(b) \subseteq Ancestors(i)
           S == {m \in Nat : \A i \in 1 .. n : i <= m => Good(i)}
<1>5. 0 \in S
  OBVIOUS
<1>6. ASSUME NEW m \in Nat, m \in S PROVE m + 1 \in S
  <2>1. SUFFICES ASSUME m + 1 \in 1 .. n PROVE Good(m + 1)
    <3>1. \A i \in 1 .. n : i <= m + 1 => i <= m \/ i = m + 1
      BY <1>1
    <3> HIDE DEF Good
    <3>2. QED
      BY <1>6, <3>1
  <2>2. \A k \in DOMAIN parents[m + 1] : Good(parents[m + 1][k]) /\ parents[m + 1][k] \in 1 .. m
    <3> HIDE DEF Good
    <3>1. \A k \in DOMAIN parents[m + 1] :
            parents[m + 1][k] \in 1 .. n /\ parents[m + 1][k] \in 1 .. m /\ parents[m + 1][k] <= m
      <4>1. \A p \in 1 .. (m + 1) - 1 : p \in 1 .. n /\ p \in 1 .. m /\ p <= m
        BY <1>1, <2>1
      <4>2. QED
        BY <1>1, <2>1, <4>1
    <3>2. QED
      BY <1>6, <3>1
  <2>3. Ancestors(m + 1) \subseteq 1 .. m + 1
    <3>1. \A k \in 1 .. m : 1 .. k \subseteq 1 .. m + 1
      OBVIOUS
    <3>2. m + 1 \in 1 .. m + 1
      OBVIOUS
    <3>3. \A k \in DOMAIN parents[m + 1] : Ancestors(parents[m + 1][k]) \subseteq 1 .. m + 1
      BY <2>2, <3>1, Zenon
    <3>4. \A a \in Ancestors(m + 1) :
            a = m + 1 \/ \E k \in DOMAIN parents[m + 1] : a \in Ancestors(parents[m + 1][k])
      BY <1>4, <2>1, Zenon
    <3>5. QED
      BY <3>2, <3>3, <3>4, Zenon
  <2>4. ASSUME NEW b \in Ancestors(m + 1) PROVE Ancestors(b) \subseteq Ancestors(m + 1)
    <3>1. CASE b = m + 1
      BY <3>1
    <3>2. CASE \E k \in DOMAIN parents[m + 1] : b \in Ancestors(parents[m + 1][k])
      <4>1. PICK k \in DOMAIN parents[m + 1] : b \in Ancestors(parents[m + 1][k])
        BY <3>2
      <4>2. Ancestors(b) \subseteq Ancestors(parents[m + 1][k])
        BY <2>2, <4>1
      <4>3. Ancestors(parents[m + 1][k]) \subseteq Ancestors(m + 1)
        BY <1>4, <2>1
      <4>4. QED
        BY <4>2, <4>3
    <3>3. QED
      BY <1>4, <2>1, <3>1, <3>2
  <2>5. QED
    BY <2>3, <2>4
<1> HIDE DEF S
<1>7. Nat \subseteq S
  BY <1>5, <1>6, SetInduction
<1>8. Good(c)
  <2>1. c \in Nat /\ c \in 1 .. n /\ c <= c
    BY <1>1 DEF n
  <2>2. c \in S
    BY <1>7, <2>1
  <2>3. QED
    BY <2>1, <2>2 DEF S
<1>9. QED
  BY <1>4, <1>8 DEF n

(* What git log -1 answers: the commit itself where a file has other       *)
(* contents than in every parent, and else what it answers for a parent    *)
(* with the same contents.                                                 *)
LEMMA TouchFacts ==
  ASSUME TypeOK, NEW f
  PROVE  \E touch :
           /\ LastTouchFile(f) = touch[head]
           /\ \A i \in 1 .. Len(parents) :
                \/ \E n \in DOMAIN parents[i] : /\ trees[parents[i][n]][f] = trees[i][f]
                                                /\ touch[i] = touch[parents[i][n]]
                \/ touch[i] = i /\ ~\E n \in DOMAIN parents[i] : trees[parents[i][n]][f] = trees[i][f]
                \/ touch[i] = NoCommit /\ trees[i][f] = Absent /\ parents[i] = << >>
<1> DEFINE touch == CHOOSE t : IsTouch(t, f)
<1>1. IsTouch(touch, f)
  BY TouchExists
<1>2. LastTouchFile(f) = touch[head]
  BY DEF LastTouchFile, IsTouch, Same
<1> HIDE DEF touch
<1>3. ASSUME NEW i \in 1 .. Len(parents)
      PROVE  \/ \E n \in DOMAIN parents[i] : /\ trees[parents[i][n]][f] = trees[i][f]
                                             /\ touch[i] = touch[parents[i][n]]
             \/ touch[i] = i /\ ~\E n \in DOMAIN parents[i] : trees[parents[i][n]][f] = trees[i][f]
             \/ touch[i] = NoCommit /\ trees[i][f] = Absent /\ parents[i] = << >>
  <2>1. i \in DOMAIN parents
    BY ShapeTyped
  <2>2. touch[i] = IF Same(f, i) # {} THEN touch[parents[i][Min(Same(f, i))]]
                   ELSE IF parents[i] = << >> /\ trees[i][f] = Absent THEN NoCommit ELSE i
    BY <1>1, <2>1 DEF IsTouch
  <2>3. CASE Same(f, i) # {}
    BY <2>2, <2>3, SameHasMin
  <2>4. CASE Same(f, i) = {}
    <3>1. ~\E n \in DOMAIN parents[i] : trees[parents[i][n]][f] = trees[i][f]
      BY <2>4 DEF Same
    <3>2. QED
      BY <2>2, <2>4, <3>1
  <2>5. QED
    BY <2>3, <2>4
<1>4. QED
  BY <1>2, <1>3

(* What is at HEAD was last changed by HEAD or by an ancestor of it. *)
LEMMA TouchIsAncestor ==
  ASSUME TypeOK, NEW f
  PROVE  /\ LastTouchFile(f) \in {NoCommit} \cup Ancestors(head)
         /\ trees[head][f] # Absent => LastTouchFile(f) # NoCommit
<1> DEFINE n == Len(parents)
<1>1. PICK touch :
        /\ LastTouchFile(f) = touch[head]
        /\ \A i \in 1 .. n :
             \/ \E k \in DOMAIN parents[i] : /\ trees[parents[i][k]][f] = trees[i][f]
                                             /\ touch[i] = touch[parents[i][k]]
             \/ touch[i] = i /\ ~\E k \in DOMAIN parents[i] : trees[parents[i][k]][f] = trees[i][f]
             \/ touch[i] = NoCommit /\ trees[i][f] = Absent /\ parents[i] = << >>
  BY TouchFacts
<1> DEFINE Good(i) == /\ touch[i] \in {NoCommit} \cup Ancestors(i)
                      /\ trees[i][f] # Absent => touch[i] # NoCommit
           S == {m \in Nat : \A i \in 1 .. n : i <= m => Good(i)}
<1>2. n \in Nat /\ head \in 1 .. n
  BY ShapeTyped
<1>3. 0 \in S
  BY <1>2
<1>4. ASSUME NEW m \in Nat, m \in S PROVE m + 1 \in S
  <2>1. SUFFICES ASSUME NEW i \in 1 .. n, i = m + 1 PROVE Good(i)
    <3>1. \A i \in 1 .. n : i <= m + 1 => i <= m \/ i = m + 1
      BY <1>2
    <3> HIDE DEF Good
    <3>2. QED
      BY <1>4, <3>1
  <2>2. i \in Ancestors(i) /\ NoCommit \notin {i}
    BY <2>1, <1>2, AncestorFacts DEF NoCommit
  <2>3. CASE \E k \in DOMAIN parents[i] : /\ trees[parents[i][k]][f] = trees[i][f]
                                          /\ touch[i] = touch[parents[i][k]]
    <3>1. PICK k \in DOMAIN parents[i] : /\ trees[parents[i][k]][f] = trees[i][f]
                                         /\ touch[i] = touch[parents[i][k]]
      BY <2>3
    <3>2. parents[i][k] \in 1 .. i - 1
      BY ShapeTyped
    <3>3. parents[i][k] \in 1 .. n /\ parents[i][k] <= m
      BY <1>2, <2>1, <3>2
    <3>4. Good(parents[i][k])
      BY <1>4, <3>3
    <3>5. Ancestors(parents[i][k]) \subseteq Ancestors(i)
      BY AncestorFacts
    <3>6. QED
      BY <3>1, <3>4, <3>5
  <2>4. CASE touch[i] = i
    BY <2>2, <2>4
  <2>5. CASE touch[i] = NoCommit /\ trees[i][f] = Absent
    BY <2>5
  <2>6. QED
    BY <1>1, <2>3, <2>4, <2>5
<1> HIDE DEF S
<1>5. Nat \subseteq S
  BY <1>3, <1>4, SetInduction
<1>6. head \in S /\ head <= head
  BY <1>2, <1>5
<1>7. Good(head)
  BY <1>2, <1>6 DEF S
<1>8. QED
  BY <1>1, <1>7

(* Without a merge since, a commit at or after the last change of a file   *)
(* has the file as it is at HEAD.                                          *)
LEMMA SameSinceTouch ==
  ASSUME TypeOK, NEW f, NEW sha \in Ancestors(head),
         LastTouchFile(f) \in Ancestors(sha),
         \A m \in Ancestors(head) \ Ancestors(sha) : Len(parents[m]) <= 1
  PROVE  trees[sha][f] = trees[head][f]
<1> DEFINE n == Len(parents)
<1>1. PICK touch :
        /\ LastTouchFile(f) = touch[head]
        /\ \A i \in 1 .. n :
             \/ \E k \in DOMAIN parents[i] : /\ trees[parents[i][k]][f] = trees[i][f]
                                             /\ touch[i] = touch[parents[i][k]]
             \/ touch[i] = i /\ ~\E k \in DOMAIN parents[i] : trees[parents[i][k]][f] = trees[i][f]
             \/ touch[i] = NoCommit /\ trees[i][f] = Absent /\ parents[i] = << >>
  BY TouchFacts
<1>2. n \in Nat /\ head \in 1 .. n /\ sha \in 1 .. n /\ sha <= head
  <2>1. n \in Nat /\ head \in 1 .. n
    BY ShapeTyped
  <2>2. sha \in 1 .. head
    BY <2>1, AncestorFacts
  <2>3. QED
    BY <2>1, <2>2
<1>3. Ancestors(sha) \subseteq 1 .. sha
  BY <1>2, AncestorFacts
<1> DEFINE Between(i) == /\ sha \in Ancestors(i) /\ i \in Ancestors(head)
                         /\ touch[i] \in Ancestors(sha)
           S == {m \in Nat : \A i \in 1 .. n : i <= m /\ Between(i) => trees[sha][f] = trees[i][f]}
<1>4. 0 \in S
  BY <1>2
<1>5. ASSUME NEW m \in Nat, m \in S PROVE m + 1 \in S
  <2>1. SUFFICES ASSUME NEW i \in 1 .. n, i = m + 1, Between(i)
                 PROVE  trees[sha][f] = trees[i][f]
    <3>1. \A i \in 1 .. n : i <= m + 1 => i <= m \/ i = m + 1
      BY <1>2
    <3> HIDE DEF Between
    <3>2. QED
      BY <1>5, <3>1
  <2>2. SUFFICES ASSUME i # sha PROVE trees[sha][f] = trees[i][f]
    OBVIOUS
  <2>3. i \notin Ancestors(sha)
    <3>1. sha \in 1 .. i
      BY <2>1, AncestorFacts
    <3>2. ~(i \in 1 .. sha)
      BY <1>2, <2>2, <3>1
    <3>3. QED
      BY <1>3, <3>2
  <2>4. PICK k \in DOMAIN parents[i] : sha \in Ancestors(parents[i][k])
    BY <2>1, <2>2, AncestorFacts
  <2>5. \A j \in DOMAIN parents[i] : j = k
    <3>1. DOMAIN parents[i] = 1 .. Len(parents[i]) /\ Len(parents[i]) \in 0 .. 2
      BY ShapeTyped
    <3>2. Len(parents[i]) <= 1
      BY <2>1, <2>3
    <3>3. QED
      BY <3>1, <3>2
  <2> DEFINE p == parents[i][k]
  <2>6. trees[p][f] = trees[i][f] /\ touch[i] = touch[p]
    <3>1. touch[i] # i
      BY <2>1, <2>3
    <3>2. touch[i] # NoCommit
      BY <1>2, <1>3, <2>1 DEF NoCommit
    <3>3. PICK j \in DOMAIN parents[i] : /\ trees[parents[i][j]][f] = trees[i][f]
                                         /\ touch[i] = touch[parents[i][j]]
      BY <1>1, <3>1, <3>2
    <3>4. QED
      BY <2>5, <3>3
  <2>7. p \in 1 .. n /\ p <= m
    <3>1. p \in 1 .. i - 1
      BY ShapeTyped
    <3>2. QED
      BY <1>2, <2>1, <3>1
  <2>8. Between(p)
    <3>1. p \in Ancestors(p) /\ Ancestors(p) \subseteq Ancestors(i)
      BY <2>7, AncestorFacts
    <3>2. Ancestors(i) \subseteq Ancestors(head)
      BY <1>2, <2>1, AncestorFacts
    <3>3. QED
      BY <2>1, <2>4, <2>6, <3>1, <3>2
  <2>9. QED
    BY <1>5, <2>6, <2>7, <2>8
<1> HIDE DEF S
<1>6. Nat \subseteq S
  BY <1>4, <1>5, SetInduction
<1>7. head \in S /\ head <= head
  BY <1>2, <1>6
<1>8. head \in Ancestors(head)
  BY <1>2, AncestorFacts
<1>9. QED
  BY <1>1, <1>2, <1>7, <1>8 DEF S

-------------------------------------------------------------------------------
(* The issues of D015 are those of the pairs of a test and an environment. *)
PairIssues(claim, ref, env) ==
  IF NoCommit \in LastTouches(claim) THEN {"untracked_file"}
  ELSE CheckOnePair(ref, env, LastTouches(claim))

LEMMA PairsAre ==
  ASSUME NEW ontology
  PROVE  /\ \A c \in Claims(ontology) : c.status = "tested" =>
              \A r \in c.verification, e \in c.environments :
                [claim |-> c, ref |-> r, env |-> e] \in Pairs(ontology)
         /\ \A p \in Pairs(ontology) :
              /\ p.claim \in Claims(ontology) /\ p.claim.status = "tested"
              /\ p.ref \in p.claim.verification /\ p.env \in p.claim.environments
<1> DEFINE Tested == {c \in Claims(ontology) : c.status = "tested"}
           Of(c) == {[claim |-> c, ref |-> r, env |-> e] : r \in c.verification, e \in c.environments}
<1>1. Pairs(ontology) = UNION {Of(c) : c \in Tested}
  BY DEF Pairs
<1>2. ASSUME NEW c \in Claims(ontology), c.status = "tested",
             NEW r \in c.verification, NEW e \in c.environments
      PROVE  [claim |-> c, ref |-> r, env |-> e] \in Pairs(ontology)
  <2>1. c \in Tested /\ [claim |-> c, ref |-> r, env |-> e] \in Of(c)
    BY <1>2
  <2> HIDE DEF Tested, Of
  <2>2. QED
    BY <1>1, <2>1, Zenon
<1>3. ASSUME NEW p \in Pairs(ontology)
      PROVE  /\ p.claim \in Claims(ontology) /\ p.claim.status = "tested"
             /\ p.ref \in p.claim.verification /\ p.env \in p.claim.environments
  <2>1. PICK c \in Tested : p \in Of(c)
    <3> HIDE DEF Tested, Of
    <3>1. QED
      BY <1>1, Zenon
  <2>2. PICK r \in c.verification, e \in c.environments : p = [claim |-> c, ref |-> r, env |-> e]
    BY <2>1
  <2>3. p.claim = c /\ p.ref = r /\ p.env = e
    BY <2>2
  <2>4. QED
    BY <2>1, <2>3
<1>4. QED
  BY <1>2, <1>3

LEMMA IssuesAre ==
  ASSUME NEW ontology
  PROVE  /\ \A p \in Pairs(ontology) :
              PairIssues(p.claim, p.ref, p.env) \subseteq FreshnessIssues(ontology)
         /\ \A x \in FreshnessIssues(ontology) :
              \E p \in Pairs(ontology) : x \in PairIssues(p.claim, p.ref, p.env)
<1> DEFINE Refs(c) == IF c.status = "tested" THEN c.verification ELSE {}
           Envs(c) == c.environments
           Each(c) == {PairIssues(c, r, e) : r \in Refs(c), e \in Envs(c)}
<1>1. FreshnessIssues(ontology) = UNION {CheckClaimFreshness(c) : c \in Claims(ontology)}
  BY DEF FreshnessIssues
<1>2. \A c : CheckClaimFreshness(c) = UNION Each(c)
  BY DEF CheckClaimFreshness, PairIssues
<1>3. ASSUME NEW p \in Pairs(ontology)
      PROVE  PairIssues(p.claim, p.ref, p.env) \subseteq FreshnessIssues(ontology)
  <2>1. PICK c \in Claims(ontology) : \E r, e : c = p.claim /\ r = p.ref /\ e = p.env
    BY PairsAre
  <2> DEFINE r == p.ref
             e == p.env
  <2>2. r \in Refs(c) /\ e \in Envs(c)
    BY <2>1, PairsAre
  <2>3. PairIssues(c, r, e) \in Each(c)
    <3> HIDE DEF Refs, Envs
    <3>1. QED
      BY <2>2
  <2> HIDE DEF Each
  <2>4. PairIssues(c, r, e) \subseteq CheckClaimFreshness(c)
    BY <1>2, <2>3
  <2>5. QED
    BY <1>1, <2>1, <2>4, Zenon
<1>4. ASSUME NEW x \in FreshnessIssues(ontology)
      PROVE  \E p \in Pairs(ontology) : x \in PairIssues(p.claim, p.ref, p.env)
  <2>1. PICK c \in Claims(ontology) : x \in CheckClaimFreshness(c)
    BY <1>1
  <2>2. PICK y \in Each(c) : x \in y
    <3> HIDE DEF Each
    <3>1. QED
      BY <1>2, <2>1
  <2>3. PICK r \in Refs(c), e \in Envs(c) : y = PairIssues(c, r, e)
    <3> HIDE DEF Refs, Envs
    <3>1. QED
      BY <2>2
  <2>4. c.status = "tested" /\ r \in c.verification /\ e \in c.environments
    BY <2>3
  <2> DEFINE p == [claim |-> c, ref |-> r, env |-> e]
  <2>5. p \in Pairs(ontology)
    BY <2>4, PairsAre
  <2>6. p.claim = c /\ p.ref = r /\ p.env = e
    OBVIOUS
  <2>7. QED
    BY <2>2, <2>3, <2>5, <2>6
<1>5. QED
  BY <1>3, <1>4

(* A pair that adds nothing to the gate has a fresh pass, or no record     *)
(* where the bootstrap flag lets it go.                                    *)
LEMMA PairCleared ==
  ASSUME NEW ontology, NEW flags, NEW p \in Pairs(ontology),
         FreshnessIssues(ontology) \cap GatingModes(flags) = {}
  PROVE  \/ flags.bootstrap /\ Matching(p.ref, p.env) = {}
         \/ /\ NoCommit \notin LastTouches(p.claim)
            /\ \E k \in Matching(p.ref, p.env) :
                 IsFreshResult(current[k].sha, LastTouches(p.claim))
<1>1. \A x \in PairIssues(p.claim, p.ref, p.env) : x \notin GatingModes(flags)
  BY IssuesAre
<1>2. NoCommit \notin LastTouches(p.claim)
  BY <1>1 DEF PairIssues, GatingModes
<1>3. \A x \in CheckOnePair(p.ref, p.env, LastTouches(p.claim)) : x \notin GatingModes(flags)
  BY <1>1, <1>2 DEF PairIssues
<1>4. CASE Matching(p.ref, p.env) = {}
  <2>1. ClassifyNoMatch(p.ref) \notin GatingModes(flags)
    BY <1>3, <1>4 DEF CheckOnePair
  <2>2. ClassifyNoMatch(p.ref) \in {"runner_forgot", "env_never_exercised"}
    BY DEF ClassifyNoMatch
  <2>3. flags.bootstrap
    BY <2>1, <2>2 DEF GatingModes
  <2>4. QED
    BY <1>4, <2>3
<1>5. CASE Matching(p.ref, p.env) # {}
  <2>1. "stale_result" \notin CheckOnePair(p.ref, p.env, LastTouches(p.claim))
    BY <1>3 DEF GatingModes
  <2>2. \E k \in Matching(p.ref, p.env) :
          IsFreshResult(current[k].sha, LastTouches(p.claim))
    BY <1>5, <2>1 DEF CheckOnePair
  <2>3. QED
    BY <1>2, <2>2
<1>6. QED
  BY <1>4, <1>5

(* Where the gate lets a push through, each test of a tested claim has     *)
(* passed on the contents that the claim's files have at HEAD, given       *)
(* records that say what they seem to: for any history with any number of  *)
(* commits, branches and merges.                                           *)
THEOREM GateIsSound == Spec => []GateMeansTested
<1>1. TypeOK => GateMeansTested
  <2>1. SUFFICES ASSUME TypeOK, \A k \in DOMAIN current : RanOnItsCommit(k) /\ NoMergeSince(k),
                        NEW ontology \in Ontologies, NEW flags \in {GateFlags, BootstrapFlags},
                        FreshnessIssues(ontology) \cap GatingModes(flags) = {},
                        NEW p \in Pairs(ontology)
                 PROVE  \/ flags.bootstrap /\ Matching(p.ref, p.env) = {}
                        \/ \E k \in Matching(p.ref, p.env) :
                             \A f \in FilesOf(p.claim) : trees[ranOn[k]][f] = trees[head][f]
    BY DEF GateMeansTested
  <2>2. SUFFICES ASSUME NEW k \in Matching(p.ref, p.env),
                        IsFreshResult(current[k].sha, LastTouches(p.claim)),
                        NEW f \in FilesOf(p.claim)
                 PROVE  trees[ranOn[k]][f] = trees[head][f]
    BY <2>1, PairCleared
  <2>3. current[k].sha \in Ancestors(head)
    BY <2>2 DEF IsFreshResult, IsAncestor
  <2>4. LastTouchFile(f) \in Ancestors(current[k].sha)
    BY <2>2 DEF IsFreshResult, IsAtOrAfter, IsAncestor, LastTouches
  <2>5. /\ \A m \in Ancestors(head) \ Ancestors(current[k].sha) : Len(parents[m]) <= 1
        /\ trees[ranOn[k]] = trees[current[k].sha]
    BY <2>1, <2>2 DEF Matching, NoMergeSince, RanOnItsCommit
  <2>6. trees[current[k].sha][f] = trees[head][f]
    BY <2>1, <2>3, <2>4, <2>5, SameSinceTouch
  <2>7. QED
    BY <2>5, <2>6
<1>2. QED
  BY <1>1, AuditTypeCorrect, PTL

(* Running everything once at HEAD clears the gate, whatever the history   *)
(* that led there and whatever passes were recorded before.                *)
THEOREM RunClearsTheGate == Spec => []RunAtHeadClears
<1>1. TypeOK => RunAtHeadClears
  <2>1. SUFFICES ASSUME TypeOK, NEW ontology \in Ontologies,
                        ~ToolingError(ontology), ~StaticGap(ontology, trees[head]),
                        \A p \in Pairs(ontology) :
                          \E k \in Matching(p.ref, p.env) : current[k].sha = head,
                        BudgetIssues(ontology) = {}
                 PROVE  ExitCode(ontology, trees[head], GateFlags) = 0
    BY DEF RunAtHeadClears
  <2>2. ASSUME NEW p \in Pairs(ontology) PROVE PairIssues(p.claim, p.ref, p.env) = {}
    <3>1. ASSUME NEW f \in FilesOf(p.claim) PROVE trees[head][f] # Absent
      <4>1. PICK r \in RefsOf(p.claim) : ParsesRef(r) /\ f = r.path
        BY DEF FilesOf
      <4>2. ResolveRef(r, trees[head]) = "ok"
        BY <2>1, <4>1, PairsAre DEF StaticGap, RowHasGap, ParsesRef
      <4>3. QED
        BY <4>1, <4>2 DEF ResolveRef
    <3>2. ASSUME NEW t \in LastTouches(p.claim) PROVE t # NoCommit /\ t \in Ancestors(head)
      BY <2>1, <3>1, TouchIsAncestor DEF LastTouches
    <3>3. PICK k \in Matching(p.ref, p.env) : current[k].sha = head
      BY <2>1
    <3>4. head \in Ancestors(head)
      BY <2>1, ShapeTyped, AncestorFacts
    <3>5. IsFreshResult(current[k].sha, LastTouches(p.claim))
      BY <3>2, <3>3, <3>4 DEF IsFreshResult, IsAtOrAfter, IsAncestor
    <3>6. CheckOnePair(p.ref, p.env, LastTouches(p.claim)) = {}
      BY <3>3, <3>5 DEF CheckOnePair
    <3>7. QED
      BY <3>2, <3>6 DEF PairIssues
  <2>3. FreshnessIssues(ontology) = {}
    BY <2>2, IssuesAre
  <2>4. ~DynamicGap(ontology, GateFlags)
    BY <2>1, <2>3 DEF DynamicGap
  <2>5. QED
    BY <2>1, <2>4 DEF ExitCode, HasAnyGap
<1>2. QED
  BY <1>1, AuditTypeCorrect, PTL

(* No claim passes the gate for want of evidence. *)
THEOREM NoLieIsTested == Spec => []TestedClaimsHaveEvidence
<1>1. TypeOK => TestedClaimsHaveEvidence
  <2>1. SUFFICES ASSUME TypeOK, NEW ontology \in Ontologies,
                        ~ToolingError(ontology), ~DynamicGap(ontology, GateFlags),
                        NEW claim \in Claims(ontology), claim.status = "tested",
                        NEW work \in WorkTree, ~StaticGap(ontology, work)
                 PROVE  /\ claim.verification # {}
                        /\ \A ref \in claim.verification :
                             \/ IsBlank(ref) /\ claim.environments = {}
                             \/ /\ ResolveRef(ref, work) = "ok"
                                /\ \A env \in claim.environments :
                                     \E k \in Matching(ref, env) : IsAncestor(current[k].sha, head)
    BY DEF TestedClaimsHaveEvidence
  <2>2. ~RowHasGap(claim, work)
    BY <2>1 DEF StaticGap
  <2>3. claim.verification # {}
    BY <2>1, <2>2 DEF RowHasGap, CheckStatusRefsConsistency
  <2>4. FreshnessIssues(ontology) \cap GatingModes(GateFlags) = {}
    BY <2>1 DEF DynamicGap, GateFlags
  <2>5. ASSUME NEW ref \in claim.verification, NEW env \in claim.environments
        PROVE  \E k \in Matching(ref, env) : IsAncestor(current[k].sha, head)
    <3> DEFINE p == [claim |-> claim, ref |-> ref, env |-> env]
    <3>1. p \in Pairs(ontology)
      BY <2>1, PairsAre
    <3>2. p.claim = claim /\ p.ref = ref /\ p.env = env /\ ~GateFlags.bootstrap
      BY DEF GateFlags
    <3> HIDE DEF p
    <3>3. \E k \in Matching(ref, env) : IsFreshResult(current[k].sha, LastTouches(claim))
      BY <2>4, <3>1, <3>2, PairCleared
    <3>4. QED
      BY <3>3 DEF IsFreshResult
  <2>6. ASSUME NEW ref \in claim.verification, IsBlank(ref) PROVE claim.environments = {}
    <3>1. \A k \in DOMAIN current : ~IsBlank(k.ref)
      BY <2>1, SnapshotIs, KeysAssumption DEF TypeOK
    <3>2. \A env : Matching(ref, env) = {}
      BY <2>6, <3>1 DEF Matching
    <3>3. QED
      BY <2>5, <3>2
  <2>7. ASSUME NEW ref \in claim.verification, ~IsBlank(ref) PROVE ResolveRef(ref, work) = "ok"
    BY <2>2, <2>7 DEF RowHasGap, RefsOf
  <2>8. QED
    BY <2>3, <2>5, <2>6, <2>7
<1>2. QED
  BY <1>1, AuditTypeCorrect, PTL
===============================================================================
