------------------------ MODULE AdapterStore_proofs ------------------------
(***************************************************************************)
(* Theorems about AdapterStore, for any finite set of stages, any runs and *)
(* any lora dicts.                                                         *)
(***************************************************************************)
EXTENDS AdapterStore, FiniteSetTheorems, TLAPS

(***************************************************************************)
(* The inductive invariant                                                 *)
(***************************************************************************)
Outcomes == {"loaded", "merged", "nothing found", "disagree", "size mismatch"}
Broken == {"unreadable", "no config"}

\* A finished save is on the disk; one past its weights has written them.
DiskInv == \A s \in Stages :
  /\ saved[s] # None => weights[s] = saved[s] /\ config[s] = saved[s] /\ saving[s] = "idle"
  /\ saving[s] \in {"between", "config"} => weights[s] = training[s]

\* Where the loop over the directories is.
LoopInv ==
  /\ load.at = "weights" => load.dir = None
  /\ load.at = "config" => load.dir \in Stages \ load.left
  /\ load.at \in Outcomes => load.dir = None /\ load.left = {}

\* What was read of a whole half is what was saved, and a whole half is no
\* reason to give up.
WholeInv ==
  /\ load.at \in Broken => load.whole # Stages
  /\ \A s \in load.whole :
       /\ saved[s] # None
       /\ load.at \in Reading \cup Outcomes /\ s \notin load.left =>
            /\ load.state[s] = saved[s]
            /\ s # load.dir => load.shapes[s] = saved[s]

\* Weights once begun stay, and are read.
BegunInv == \A s \in load.begun :
  /\ weights[s] # None
  /\ load.at \in Reading \cup Outcomes /\ s \notin load.left => load.state[s] # None

\* How a load ended follows from what it read.
OutcomeInv ==
  /\ load.at = "nothing found" => Found = {}
  /\ load.at = "disagree" => Cardinality(Shapes) > 1
  /\ load.at = "size mismatch" => \E s \in Found : ~Fits(s)
  /\ Loaded => ~(Cardinality(Shapes) > 1)

(***************************************************************************)
(* Types                                                                   *)
(***************************************************************************)
\* Type correctness: whatever order stages save, crash and are loaded in, a
\* file holds one run's content or a torn one, and a stage that is in
\* save_lora_adapters has adapters to save.
THEOREM TypeCorrect == Spec => []TypeOK
<1>1. Init => TypeOK
  BY DEF Init, TypeOK, Load
<1>2. TypeOK /\ [Next]_vars => TypeOK'
  <2> SUFFICES ASSUME TypeOK, [Next]_vars PROVE TypeOK'
    OBVIOUS
  <2> USE RunsAssumption, StagesAssumption DEF TypeOK
  <2>1. ASSUME NEW s \in Stages, NEW run \in Runs, Train(s, run) PROVE TypeOK'
    BY <2>1 DEF Train, diskVars
  <2>2. ASSUME NEW s \in Stages, OpenWeights(s) PROVE TypeOK'
    <3>1. load' \in Load
      BY <2>2 DEF OpenWeights, Load
    <3> QED
      BY <2>2, <3>1 DEF OpenWeights, Goto
  <2>3. ASSUME NEW s \in Stages, WriteWeights(s) PROVE TypeOK'
    BY <2>3 DEF WriteWeights, Goto
  <2>4. ASSUME NEW s \in Stages, OpenConfig(s) PROVE TypeOK'
    BY <2>4 DEF OpenConfig, Goto
  <2>5. ASSUME NEW s \in Stages, WriteConfig(s) PROVE TypeOK'
    BY <2>5 DEF WriteConfig, Goto
  <2>6. ASSUME NEW s \in Stages, Crash(s) PROVE TypeOK'
    BY <2>6 DEF Crash, Goto, diskVars
  <2>7. CASE StartLoad
    <3>1. load' \in Load
      BY <2>7 DEF StartLoad, Load
    <3> QED
      BY <2>7, <3>1 DEF StartLoad, diskVars, stageVars
  <2>8. ASSUME NEW s \in Stages, ReadWeights(s) PROVE TypeOK'
    <3>1. load' \in Load
      <4>1. CASE weights[s] = None
        BY <2>8, <4>1 DEF ReadWeights, Load
      <4>2. CASE weights[s] = Torn
        BY <2>8, <4>2 DEF ReadWeights, Load
      <4>3. CASE weights[s] \notin {None, Torn}
        BY <2>8, <4>3 DEF ReadWeights, Load
      <4> QED
        BY <4>1, <4>2, <4>3
    <3> QED
      BY <2>8, <3>1 DEF ReadWeights, diskVars, stageVars
  <2>9. CASE ReadConfig
    <3>1. load' \in Load
      <4>1. CASE config[load.dir] = None
        BY <2>9, <4>1 DEF ReadConfig, Load
      <4>2. CASE config[load.dir] = Torn
        BY <2>9, <4>2 DEF ReadConfig, Load
      <4>3. CASE config[load.dir] \notin {None, Torn}
        BY <2>9, <4>3 DEF ReadConfig, Load
      <4> QED
        BY <4>1, <4>2, <4>3
    <3> QED
      BY <2>9, <3>1 DEF ReadConfig, diskVars, stageVars
  <2>10. CASE Assemble
    <3>1. load' \in Load
      BY <2>10 DEF Assemble, Load
    <3> QED
      BY <2>10, <3>1 DEF Assemble, diskVars, stageVars
  <2>11. CASE Merge
    <3>1. load' \in Load
      BY <2>11 DEF Merge, Load
    <3> QED
      BY <2>11, <3>1 DEF Merge, diskVars, stageVars
  <2>12. CASE UNCHANGED vars
    BY <2>12 DEF vars, diskVars, stageVars
  <2> QED
    BY <2>1, <2>2, <2>3, <2>4, <2>5, <2>6, <2>7, <2>8, <2>9, <2>10, <2>11, <2>12 DEF Next
<1> QED
  BY <1>1, <1>2, PTL DEF Spec

(***************************************************************************)
(* What a step does to the files and to the load                           *)
(***************************************************************************)
\* A save and a load never leave a file that a finished save wrote half changed
\* and still count it as saved.
LEMMA DiskStep ==
  ASSUME TypeOK, DiskInv, [Next]_vars
  PROVE  DiskInv'
<1> USE RunsAssumption, StagesAssumption DEF TypeOK, DiskInv
<1>1. ASSUME NEW s \in Stages, NEW run \in Runs, Train(s, run) PROVE DiskInv'
  BY <1>1 DEF Train, diskVars
<1>2. ASSUME NEW s \in Stages, OpenWeights(s) PROVE DiskInv'
  BY <1>2 DEF OpenWeights, Goto
<1>3. ASSUME NEW s \in Stages, WriteWeights(s) PROVE DiskInv'
  BY <1>3 DEF WriteWeights, Goto
<1>4. ASSUME NEW s \in Stages, OpenConfig(s) PROVE DiskInv'
  BY <1>4 DEF OpenConfig, Goto
<1>5. ASSUME NEW s \in Stages, WriteConfig(s) PROVE DiskInv'
  BY <1>5 DEF WriteConfig, Goto
<1>6. ASSUME NEW s \in Stages, Crash(s) PROVE DiskInv'
  BY <1>6 DEF Crash, Goto, diskVars
<1>7. CASE UNCHANGED <<diskVars, stageVars>>
  BY <1>7 DEF diskVars, stageVars
<1> QED
  BY <1>1, <1>2, <1>3, <1>4, <1>5, <1>6, <1>7
  DEF Next, StartLoad, ReadWeights, ReadConfig, Assemble, Merge, vars

\* Every step keeps what the loader's loop knows.
LEMMA LoopStep ==
  ASSUME TypeOK, LoopInv, [Next]_vars
  PROVE  LoopInv'
<1> USE RunsAssumption, StagesAssumption DEF TypeOK, Load, LoopInv, Outcomes
<1>1. ASSUME NEW s \in Stages, OpenWeights(s) PROVE LoopInv'
  BY <1>1 DEF OpenWeights
<1>2. CASE UNCHANGED load
  BY <1>2
<1>3. CASE StartLoad
  BY <1>3 DEF StartLoad
<1>4. ASSUME NEW s \in Stages, ReadWeights(s) PROVE LoopInv'
  <2>1. CASE weights[s] = None
    BY <1>4, <2>1 DEF ReadWeights
  <2>2. CASE weights[s] = Torn
    BY <1>4, <2>2 DEF ReadWeights
  <2>3. CASE weights[s] \notin {None, Torn}
    BY <1>4, <2>3 DEF ReadWeights
  <2> QED
    BY <2>1, <2>2, <2>3
<1>5. CASE ReadConfig
  <2>1. CASE config[load.dir] = None
    BY <1>5, <2>1 DEF ReadConfig
  <2>2. CASE config[load.dir] = Torn
    BY <1>5, <2>2 DEF ReadConfig
  <2>3. CASE config[load.dir] \notin {None, Torn}
    BY <1>5, <2>3 DEF ReadConfig
  <2> QED
    BY <2>1, <2>2, <2>3
<1>6. CASE Assemble
  BY <1>6 DEF Assemble
<1>7. CASE Merge
  BY <1>7 DEF Merge
<1> QED
  BY <1>1, <1>2, <1>3, <1>4, <1>5, <1>6, <1>7
  DEF Next, Train, WriteWeights, OpenConfig, WriteConfig, Crash, vars

\* The files of a finished save are of its run.
LEMMA SavedFiles ==
  ASSUME TypeOK, DiskInv, NEW s \in Stages, saved[s] # None
  PROVE  weights[s] = saved[s] /\ config[s] = saved[s] /\ saved[s] \in Runs
BY DEF TypeOK, DiskInv

\* A whole half is read as it was saved: its files are of one run, and stay so
\* until its stage saves again, which makes it no longer whole.
LEMMA WholeStep ==
  ASSUME TypeOK, DiskInv, LoopInv, WholeInv, [Next]_vars
  PROVE  WholeInv'
<1> USE RunsAssumption, StagesAssumption DEF TypeOK, Load, WholeInv, Outcomes, Broken, Reading
<1>1. ASSUME NEW s \in Stages, OpenWeights(s) PROVE WholeInv'
  BY <1>1 DEF OpenWeights
<1>2. CASE UNCHANGED <<load, saved>>
  BY <1>2
<1>3. ASSUME NEW s \in Stages, WriteConfig(s) PROVE WholeInv'
  <2>1. s \notin load.whole
    BY <1>3 DEF WriteConfig, DiskInv
  <2> QED
    BY <1>3, <2>1 DEF WriteConfig
<1>4. CASE StartLoad
  BY <1>4 DEF StartLoad, diskVars, stageVars
<1>5. ASSUME NEW s \in Stages, ReadWeights(s) PROVE WholeInv'
  <2>1. ASSUME s \in load.whole PROVE weights[s] = saved[s] /\ saved[s] \in Runs
    BY <2>1, SavedFiles
  <2>2. load.dir = None
    BY <1>5 DEF ReadWeights, LoopInv
  <2>3. CASE weights[s] = None
    BY <1>5, <2>1, <2>2, <2>3 DEF ReadWeights, diskVars, stageVars
  <2>4. CASE weights[s] = Torn
    BY <1>5, <2>1, <2>2, <2>4 DEF ReadWeights, diskVars, stageVars
  <2>5. CASE weights[s] \notin {None, Torn}
    <3>1. /\ load' = [load EXCEPT !.at = "config", !.dir = s, !.left = @ \ {s},
                                  !.state[s] = weights[s]]
          /\ saved' = saved
      BY <1>5, <2>5 DEF ReadWeights, stageVars
    <3>2. load'.at = "config" /\ load'.whole = load.whole
      BY <3>1
    <3>3. ASSUME NEW t \in load.whole, t \notin load'.left
          PROVE  load'.state[t] = saved[t] /\ (t # load'.dir => load'.shapes[t] = saved[t])
      <4>1. t \in load.left => t = s
        BY <3>1, <3>3
      <4>2. CASE t = s
        BY <2>1, <3>1, <4>2
      <4>3. CASE t # s
        <5>1. load.at = "weights" /\ t \notin load.left
          BY <1>5, <4>1, <4>3 DEF ReadWeights
        <5>2. load.state[t] = saved[t] /\ load.shapes[t] = saved[t]
          BY <2>2, <5>1
        <5> QED
          BY <3>1, <4>3, <5>2
      <4> QED
        BY <4>2, <4>3
    <3> QED
      BY <3>1, <3>2, <3>3
  <2> QED
    BY <2>3, <2>4, <2>5
<1>6. CASE ReadConfig
  <2> DEFINE s == load.dir
  <2>1. s \in Stages /\ s \notin load.left
    BY <1>6 DEF ReadConfig, LoopInv
  <2>2. ASSUME s \in load.whole PROVE config[s] = saved[s] /\ saved[s] \in Runs
    BY <2>1, <2>2, SavedFiles
  <2> HIDE DEF s
  <2>3. CASE config[s] = None
    BY <1>6, <2>1, <2>2, <2>3 DEF ReadConfig, diskVars, stageVars, s
  <2>4. CASE config[s] = Torn
    BY <1>6, <2>1, <2>2, <2>4 DEF ReadConfig, diskVars, stageVars, s
  <2>5. CASE config[s] \notin {None, Torn}
    BY <1>6, <2>1, <2>2, <2>5 DEF ReadConfig, diskVars, stageVars, s
  <2> QED
    BY <2>3, <2>4, <2>5
<1>7. CASE Assemble
  BY <1>7 DEF Assemble, diskVars, stageVars
<1>8. CASE Merge
  BY <1>8 DEF Merge, diskVars, stageVars
<1> QED
  BY <1>1, <1>2, <1>3, <1>4, <1>5, <1>6, <1>7, <1>8
  DEF Next, Train, WriteWeights, OpenConfig, Crash, vars, stageVars

\* Once there are weights in a directory there always are, whole or torn.
LEMMA BegunStep ==
  ASSUME TypeOK, LoopInv, BegunInv, [Next]_vars
  PROVE  BegunInv'
<1> USE RunsAssumption, StagesAssumption DEF TypeOK, Load, BegunInv, Outcomes, Reading
<1>1. ASSUME NEW s \in Stages, OpenWeights(s) PROVE BegunInv'
  BY <1>1 DEF OpenWeights
<1>2. CASE UNCHANGED <<load, weights>>
  BY <1>2
<1>3. ASSUME NEW s \in Stages, WriteWeights(s) PROVE BegunInv'
  BY <1>3 DEF WriteWeights
<1>4. CASE StartLoad
  BY <1>4 DEF StartLoad, diskVars, stageVars
<1>5. ASSUME NEW s \in Stages, ReadWeights(s) PROVE BegunInv'
  <2>1. CASE weights[s] = None
    BY <1>5, <2>1 DEF ReadWeights, diskVars
  <2>2. CASE weights[s] = Torn
    BY <1>5, <2>2 DEF ReadWeights, diskVars
  <2>3. CASE weights[s] \notin {None, Torn}
    BY <1>5, <2>3 DEF ReadWeights, diskVars
  <2> QED
    BY <2>1, <2>2, <2>3
<1>6. CASE ReadConfig
  <2>1. CASE config[load.dir] = None
    BY <1>6, <2>1 DEF ReadConfig, diskVars
  <2>2. CASE config[load.dir] = Torn
    BY <1>6, <2>2 DEF ReadConfig, diskVars
  <2>3. CASE config[load.dir] \notin {None, Torn}
    BY <1>6, <2>3 DEF ReadConfig, diskVars
  <2> QED
    BY <2>1, <2>2, <2>3
<1>7. CASE Assemble
  BY <1>7 DEF Assemble, diskVars
<1>8. CASE Merge
  BY <1>8 DEF Merge, diskVars
<1> QED
  BY <1>1, <1>2, <1>3, <1>4, <1>5, <1>6, <1>7, <1>8
  DEF Next, Train, OpenConfig, WriteConfig, Crash, vars, diskVars

\* What a load read is all that counts for its outcome.
LEMMA SameRead ==
  ASSUME load'.shapes = load.shapes, load'.state = load.state
  PROVE  Found' = Found /\ Shapes' = Shapes /\ \A s : Fits(s)' = Fits(s)
<1>1. Found' = Found
  BY DEF Found
<1>2. Shapes' = Shapes
  BY <1>1 DEF Shapes
<1>3. Adapted' = Adapted
  BY <1>1 DEF Adapted
<1> QED
  BY <1>1, <1>2, <1>3 DEF Fits

\* Every step keeps what is known of how a load ended.
LEMMA OutcomeStep ==
  ASSUME TypeOK, OutcomeInv, [Next]_vars
  PROVE  OutcomeInv'
<1>0. load \in Load
  BY DEF TypeOK
<1>1. ASSUME NEW s \in Stages, OpenWeights(s) PROVE OutcomeInv'
  <2>1. load'.at = load.at /\ load'.shapes = load.shapes /\ load'.state = load.state
    BY <1>0, <1>1 DEF OpenWeights, Load
  <2> QED
    BY <2>1, SameRead DEF OutcomeInv, Loaded
<1>2. CASE UNCHANGED load
  BY <1>2, SameRead DEF OutcomeInv, Loaded
<1>3. CASE StartLoad
  <2>1. load'.at = "weights"
    BY <1>3 DEF StartLoad
  <2> QED
    BY <2>1 DEF OutcomeInv, Loaded
<1>4. ASSUME NEW s \in Stages, ReadWeights(s) PROVE OutcomeInv'
  <2>1. load'.at \in {"weights", "config", "unreadable"}
    BY <1>0, <1>4 DEF ReadWeights, Load
  <2> QED
    BY <2>1 DEF OutcomeInv, Loaded
<1>5. CASE ReadConfig
  <2>1. load'.at \in {"weights", "unreadable", "no config"}
    BY <1>0, <1>5 DEF ReadConfig, Load
  <2> QED
    BY <2>1 DEF OutcomeInv, Loaded
<1>6. CASE Assemble
  <2>1. load'.shapes = load.shapes /\ load'.state = load.state
    BY <1>0, <1>6 DEF Assemble, Load
  <2>2. load'.at = IF Found = {} THEN "nothing found"
                   ELSE IF Cardinality(Shapes) > 1 THEN "disagree"
                   ELSE IF \E s \in Found : ~Fits(s) THEN "size mismatch"
                   ELSE "loaded"
    BY <1>0, <1>6 DEF Assemble, Load
  <2>3. Found' = Found /\ Shapes' = Shapes /\ \A s : Fits(s)' = Fits(s)
    BY <2>1, SameRead
  <2>4. CASE Found = {}
    BY <2>2, <2>3, <2>4 DEF OutcomeInv, Loaded
  <2>5. CASE Found # {} /\ Cardinality(Shapes) > 1
    BY <2>2, <2>3, <2>5 DEF OutcomeInv, Loaded
  <2>6. CASE Found # {} /\ ~(Cardinality(Shapes) > 1) /\ \E s \in Found : ~Fits(s)
    BY <2>2, <2>3, <2>6 DEF OutcomeInv, Loaded
  <2>7. CASE Found # {} /\ ~(Cardinality(Shapes) > 1) /\ ~\E s \in Found : ~Fits(s)
    BY <2>2, <2>3, <2>7 DEF OutcomeInv, Loaded
  <2> QED
    BY <2>4, <2>5, <2>6, <2>7
<1>7. CASE Merge
  <2>1. load.at = "loaded" /\ load'.at = "merged" /\ load'.shapes = load.shapes
        /\ load'.state = load.state
    BY <1>0, <1>7 DEF Merge, Load
  <2> QED
    BY <2>1, SameRead DEF OutcomeInv, Loaded
<1> QED
  BY <1>1, <1>2, <1>3, <1>4, <1>5, <1>6, <1>7
  DEF Next, Train, WriteWeights, OpenConfig, WriteConfig, Crash, vars

(***************************************************************************)
(* The invariant and what follows from it                                  *)
(***************************************************************************)
StoreInv == DiskInv /\ LoopInv /\ WholeInv /\ BegunInv /\ OutcomeInv

\* A finished save is on the disk whole, a load in progress has read of a whole
\* half exactly what was saved, and how a load ended follows from what it read.
THEOREM StoreInvariant == Spec => []StoreInv
<1>1. Init => StoreInv
  <2> SUFFICES ASSUME Init PROVE StoreInv
    OBVIOUS
  <2>1. DiskInv
    BY DEF Init, DiskInv
  <2>2. LoopInv /\ WholeInv /\ BegunInv /\ OutcomeInv
    BY DEF Init, LoopInv, WholeInv, BegunInv, OutcomeInv, Loaded, Outcomes, Broken
  <2> QED
    BY <2>1, <2>2 DEF StoreInv
<1>2. TypeOK /\ StoreInv /\ [Next]_vars => StoreInv'
  BY DiskStep, LoopStep, WholeStep, BegunStep, OutcomeStep DEF StoreInv
<1> QED
  BY <1>1, <1>2, TypeCorrect, PTL DEF Spec

\* The loader has read finitely many shapes.
LEMMA FiniteShapes == IsFiniteSet(Shapes)
<1> DEFINE Shape == [s \in Found |-> Payload(s, load.shapes[s]).shape]
<1>1. IsFiniteSet(Found)
  <2>1. Found \in SUBSET Stages
    BY DEF Found
  <2> QED
    BY <2>1, StagesAssumption, FS_Subset
<1>2. Shape \in Surjection(Found, Shapes)
  BY DEF Shapes, Surjection
<1> QED
  BY <1>1, <1>2, FS_Surjection

\* Shapes has at most one element just when all halves have one shape.
LEMMA OneShape ==
  ~(Cardinality(Shapes) > 1) <=> \A a, b \in Shapes : a = b
<1>1. ASSUME NEW a \in Shapes, NEW b \in Shapes, a # b PROVE Cardinality(Shapes) > 1
  <2>1. Cardinality({a}) = 1 /\ IsFiniteSet({a})
    BY FS_Singleton
  <2>2. Cardinality({a} \cup {b}) = 2
    BY <1>1, <2>1, FS_AddElement
  <2>3. Cardinality({a} \cup {b}) <= Cardinality(Shapes)
    <3>1. {a} \cup {b} \in SUBSET Shapes
      OBVIOUS
    <3> QED
      BY <3>1, FiniteShapes, FS_Subset
  <2>4. Cardinality(Shapes) \in Nat
    BY FiniteShapes, FS_CardinalityType
  <2> QED
    BY <2>2, <2>3, <2>4
<1>2. ASSUME \A a, b \in Shapes : a = b PROVE ~(Cardinality(Shapes) > 1)
  <2>1. CASE Shapes = {}
    BY <2>1, FS_EmptySet
  <2>2. CASE Shapes # {}
    <3>1. PICK a : Shapes = {a}
      BY <1>2, <2>2
    <3>2. Cardinality(Shapes) = 1
      BY <3>1, FS_Singleton
    <3> QED
      BY <3>2
  <2> QED
    BY <2>1, <2>2
<1> QED
  BY <1>1, <1>2

\* A directory of a whole half that was read counts as found.
LEMMA WholeIsFound ==
  ASSUME TypeOK, StoreInv, load.at \in Outcomes, NEW s \in load.whole
  PROVE  /\ s \in Found
         /\ load.state[s] = saved[s] /\ load.shapes[s] = saved[s] /\ saved[s] \in Runs
<1>1. s \in Stages
  BY DEF TypeOK, Load
<1>2. s # load.dir /\ s \notin load.left
  BY <1>1, StagesAssumption DEF StoreInv, LoopInv
<1>3. load.state[s] = saved[s] /\ load.shapes[s] = saved[s] /\ saved[s] # None
  BY <1>2 DEF StoreInv, WholeInv
<1>4. saved[s] \in Runs
  BY <1>1, <1>3 DEF TypeOK
<1> QED
  BY <1>1, <1>3, <1>4 DEF Found

\* Whatever crashes, saves and loads overlap: a half that was saved completely
\* and not written since a load began is loaded with its own weights, all of its
\* targets and its own rank and scaling, or the load fails.
THEOREM WholeHalvesAreLoaded == Spec => []WholeHalvesComeBack
<1>1. TypeOK /\ StoreInv => WholeHalvesComeBack
  <2> SUFFICES ASSUME TypeOK, StoreInv, Loaded, NEW s \in load.whole
               PROVE  LET half == Payload(s, saved[s]) IN
                      /\ load.state[s] = saved[s]
                      /\ half.targets \subseteq Adapted
                      /\ \A other \in Found : Payload(other, load.shapes[other]).shape = half.shape
    BY DEF WholeHalvesComeBack
  <2>1. load.at \in Outcomes
    BY DEF Loaded, Outcomes
  <2>2. s \in Found /\ load.state[s] = saved[s] /\ load.shapes[s] = saved[s]
    BY <2>1, WholeIsFound
  <2>3. Payload(s, saved[s]).targets \subseteq Adapted
    BY <2>2 DEF Adapted
  <2>4. \A a, b \in Shapes : a = b
    BY OneShape DEF StoreInv, OutcomeInv
  <2>5. ASSUME NEW other \in Found
        PROVE  Payload(other, load.shapes[other]).shape = Payload(s, saved[s]).shape
    <3>1. Payload(s, saved[s]).shape \in Shapes
      BY <2>2 DEF Shapes
    <3>2. Payload(other, load.shapes[other]).shape \in Shapes
      BY DEF Shapes
    <3> QED
      BY <2>4, <3>1, <3>2
  <2> QED
    BY <2>2, <2>3, <2>5
<1> QED
  BY <1>1, TypeCorrect, StoreInvariant, PTL

\* Weights that were there, whole or torn, when a load began are loaded, or the
\* load fails: only a directory no save had got to is passed over.
THEOREM StartedSavesAreLoaded == Spec => []StartedSavesAreNoticed
<1>1. TypeOK /\ StoreInv => StartedSavesAreNoticed
  <2> SUFFICES ASSUME TypeOK, StoreInv, Loaded, NEW s \in load.begun PROVE load.state[s] # None
    BY DEF StartedSavesAreNoticed
  <2>1. load.at \in Outcomes
    BY DEF Loaded, Outcomes
  <2>2. load.left = {}
    BY <2>1 DEF StoreInv, LoopInv
  <2> QED
    BY <2>1, <2>2 DEF StoreInv, BegunInv
<1> QED
  BY <1>1, TypeCorrect, StoreInvariant, PTL

\* Once every half is whole, stages with equal fingerprints in their manifests are
\* loaded, and those that are loaded were trained at one rank and scaling.
THEOREM FingerprintsDecide == Spec => []EqualFingerprintsReassemble
<1>1. TypeOK /\ StoreInv => EqualFingerprintsReassemble
  <2> DEFINE print(s) == Fingerprint(LoraSpec[saved[s]][s])
             shape(s) == <<print(s).r, print(s).alpha>>
  <2> SUFFICES ASSUME TypeOK, StoreInv, Done, load.whole = Stages
               PROVE  /\ (\A s, t \in Stages : print(s) = print(t)) => Loaded
                      /\ Loaded => \A s, t \in Stages :
                                     print(s).r = print(t).r /\ print(s).alpha = print(t).alpha
    BY DEF EqualFingerprintsReassemble
  <2>1. load.at \in Outcomes
    BY DEF Done, Reading, Outcomes, TypeOK, Load, StoreInv, WholeInv, Broken
  <2>2. \A s \in Stages : /\ s \in Found /\ load.state[s] = saved[s]
                           /\ load.shapes[s] = saved[s] /\ saved[s] \in Runs
    BY <2>1, WholeIsFound
  <2>3. Found = Stages
    BY <2>2 DEF Found
  <2>4. \A s \in Stages : Fits(s)
    BY <2>2 DEF Fits
  <2>5. Loaded <=> ~(Cardinality(Shapes) > 1)
    BY <2>1, <2>3, <2>4, StagesAssumption DEF StoreInv, OutcomeInv, Loaded, Outcomes
  <2>6. \A s \in Stages : Payload(s, load.shapes[s]).shape = shape(s)
    BY <2>2 DEF Payload, Fingerprint
  <2>7. \A a : a \in Shapes <=> \E s \in Stages : a = shape(s)
    BY <2>3, <2>6 DEF Shapes
  <2> HIDE DEF print
  <2>8. ASSUME \A s, t \in Stages : print(s) = print(t) PROVE Loaded
    <3>1. \A s, t \in Stages : shape(s) = shape(t)
      BY <2>8
    <3> HIDE DEF shape
    <3>2. \A a, b \in Shapes : a = b
      BY <2>7, <3>1
    <3> QED
      BY <2>5, <3>2, OneShape
  <2>9. ASSUME Loaded, NEW s \in Stages, NEW t \in Stages
        PROVE  print(s).r = print(t).r /\ print(s).alpha = print(t).alpha
    <3>1. \A a, b \in Shapes : a = b
      BY <2>5, <2>9, OneShape
    <3>2. shape(s) = shape(t)
      BY <2>7, <3>1
    <3> QED
      BY <3>2
  <2> QED
    BY <2>8, <2>9
<1> QED
  BY <1>1, TypeCorrect, StoreInvariant, PTL
=============================================================================
