--------------------------- MODULE AdapterStore ---------------------------
(***************************************************************************)
(* The saving half of split/torch/finetune/lora.py: each stage saves its   *)
(* adapters into a directory of its own, weights first and then their      *)
(* config, each file written in place; a loader reads the directories one  *)
(* after another and puts the halves together on a base model.  A stage    *)
(* may save over an older run's files, and may crash anywhere; the loader  *)
(* may run meanwhile.                                                      *)
(*                                                                         *)
(* A run is one fine-tuning of the whole model.  What a stage writes is    *)
(* determined by the run, so a file is the run it is from.  alpha stands   *)
(* for alpha and dropout, which the code treats alike.                     *)
(***************************************************************************)
EXTENDS Integers, FiniteSets

CONSTANTS
  Stages,       \* the stages, and their directories
  Runs,         \* the fine-tuning runs
  LoraSpec,     \* LoraSpec[run][s]: the lora dict stage s was given
  Projections,  \* suffixes of the modules that can be adapted
  Detected,     \* what default_target_modules finds on the base model
  None, Torn

ASSUME RunsAssumption == None \notin Runs /\ Torn \notin Runs /\ None # Torn
ASSUME StagesAssumption == None \notin Stages /\ IsFiniteSet(Stages) /\ Stages # {}

\* None stands for a key the dict does not have.
LoraDict == [r : Nat \cup {None}, alpha : Nat \cup {None},
             target_modules : {None} \cup SUBSET Projections]
ASSUME LoraSpecAssumption == LoraSpec \in [Runs -> [Stages -> LoraDict]]
ASSUME DetectedAssumption == Detected \subseteq Projections

Get(value, default) == IF value = None THEN default ELSE value
Targets(lora) == IF lora.target_modules \in {None, {}} THEN Detected ELSE lora.target_modules

\* What a stage's manifest records of its effective config.
Fingerprint(lora) ==
  [r |-> Get(lora.r, 8), alpha |-> Get(lora.alpha, 16), targets |-> Targets(lora)]

\* Fault: the injection has another default rank than the fingerprint.
Payload_OtherDefault(s, run) ==
  LET lora == LoraSpec[run][s]
  IN [shape |-> <<Get(lora.r, 16), Get(lora.alpha, 16)>>, targets |-> {s} \X Targets(lora)]

\* The config of the adapters stage s trains in a run, which is what it saves.
\* Its targets are qualified by the stage's own blocks.
Payload(s, run) ==
  LET lora == LoraSpec[run][s]
  IN [shape |-> <<Get(lora.r, 8), Get(lora.alpha, 16)>>, targets |-> {s} \X Targets(lora)]

Rank(shape) == shape[1]

VARIABLES
  weights,   \* weights[s]: the run adapter_model.safetensors is from
  config,    \* config[s]: the run adapter_config.json is from
  training,  \* training[s]: the run whose adapters stage s has in memory
  saving,    \* saving[s]: where stage s is in save_lora_adapters
  load,      \* the loader's locals, and how its last call ended
  saved      \* saved[s]: the run of the last save, None while or after it
             \* is unfinished (a history)

diskVars == <<weights, config>>
stageVars == <<training, saving, saved>>
vars == <<diskVars, stageVars, load>>

\* state[s], shapes[s]: the run whose weights and config were read from
\* directory s.  whole and begun are histories: the directories that held a
\* finished save at the start and were not written since, and those that had
\* weights, whole or torn, at the start.
Load == [at : {"idle", "weights", "config", "loaded", "merged", "unreadable", "no config",
               "nothing found", "disagree", "size mismatch"},
         left : SUBSET Stages, dir : Stages \cup {None},
         state : [Stages -> Runs \cup {None}], shapes : [Stages -> Runs \cup {None}],
         whole : SUBSET Stages, begun : SUBSET Stages]

Init ==
  /\ weights = [s \in Stages |-> None] /\ config = [s \in Stages |-> None]
  /\ training = [s \in Stages |-> None] /\ saving = [s \in Stages |-> "idle"]
  /\ saved = [s \in Stages |-> None]
  /\ load = [at |-> "idle", left |-> {}, dir |-> None, state |-> [s \in Stages |-> None],
             shapes |-> [s \in Stages |-> None], whole |-> {}, begun |-> {}]

(***************************************************************************)
(* A stage                                                                 *)
(***************************************************************************)
Train(s, run) ==
  /\ saving[s] = "idle"
  /\ training' = [training EXCEPT ![s] = run]
  /\ UNCHANGED <<diskVars, saving, saved, load>>

Goto(s, place) == saving' = [saving EXCEPT ![s] = place]

\* Opening the file truncates what was there.  A model without adapters is
\* refused before.
OpenWeights(s) ==
  /\ saving[s] = "idle" /\ training[s] # None
  /\ weights' = [weights EXCEPT ![s] = Torn]
  /\ Goto(s, "weights")
  /\ saved' = [saved EXCEPT ![s] = None]
  /\ load' = [load EXCEPT !.whole = @ \ {s}]
  /\ UNCHANGED <<config, training>>

WriteWeights(s) ==
  /\ saving[s] = "weights"
  /\ weights' = [weights EXCEPT ![s] = training[s]]
  /\ Goto(s, "between")
  /\ UNCHANGED <<config, training, saved, load>>

OpenConfig(s) ==
  /\ saving[s] = "between"
  /\ config' = [config EXCEPT ![s] = Torn]
  /\ Goto(s, "config")
  /\ UNCHANGED <<weights, training, saved, load>>

WriteConfig(s) ==
  /\ saving[s] = "config"
  /\ config' = [config EXCEPT ![s] = training[s]]
  /\ saved' = [saved EXCEPT ![s] = training[s]]
  /\ Goto(s, "idle")
  /\ UNCHANGED <<weights, training, load>>

\* Fault: the restarted process goes on where it was.
Crash_Resumes(s) ==
  /\ training[s] # None
  /\ training' = [training EXCEPT ![s] = None]
  /\ UNCHANGED <<diskVars, saving, saved, load>>

\* The process is gone, and with it the adapters it trained; the files stay.
Crash(s) ==
  /\ training[s] # None
  /\ training' = [training EXCEPT ![s] = None]
  /\ Goto(s, "idle")
  /\ UNCHANGED <<diskVars, saved, load>>

(***************************************************************************)
(* load_lora_adapters and merge_lora                                       *)
(***************************************************************************)
Reading == {"weights", "config"}

StartLoad ==
  /\ load.at \notin Reading
  /\ load' = [at |-> "weights", left |-> Stages, dir |-> None,
              state |-> [s \in Stages |-> None], shapes |-> [s \in Stages |-> None],
              whole |-> {s \in Stages : saved[s] # None},
              begun |-> {s \in Stages : weights[s] # None}]
  /\ UNCHANGED <<diskVars, stageVars>>

\* A directory without weights is skipped; a torn file does not parse.
ReadWeights(s) ==
  /\ load.at = "weights" /\ s \in load.left
  /\ load' = CASE weights[s] = None -> [load EXCEPT !.left = @ \ {s}]
               [] weights[s] = Torn -> [load EXCEPT !.at = "unreadable"]
               [] OTHER -> [load EXCEPT !.at = "config", !.dir = s, !.left = @ \ {s},
                                        !.state[s] = weights[s]]
  /\ UNCHANGED <<diskVars, stageVars>>

\* Fault: a directory without a config is skipped like one without weights.
ReadConfig_Lenient ==
  /\ load.at = "config"
  /\ LET s == load.dir IN
     load' = CASE config[s] = None -> [load EXCEPT !.at = "weights", !.dir = None, !.state[s] = None]
               [] config[s] = Torn -> [load EXCEPT !.at = "unreadable"]
               [] OTHER -> [load EXCEPT !.at = "weights", !.dir = None, !.shapes[s] = config[s]]
  /\ UNCHANGED <<diskVars, stageVars>>

ReadConfig ==
  /\ load.at = "config"
  /\ LET s == load.dir IN
     load' = CASE config[s] = None -> [load EXCEPT !.at = "no config"]
               [] config[s] = Torn -> [load EXCEPT !.at = "unreadable"]
               [] OTHER -> [load EXCEPT !.at = "weights", !.dir = None, !.shapes[s] = config[s]]
  /\ UNCHANGED <<diskVars, stageVars>>

Found == {s \in Stages : load.shapes[s] # None}

\* Fault: only the ranks of the halves are compared.
Shapes_RankOnly == {Rank(Payload(s, load.shapes[s]).shape) : s \in Found}

Shapes == {Payload(s, load.shapes[s]).shape : s \in Found}

\* apply_lora makes adapters for every target, of the configs' rank; weights of
\* another rank do not fit into them.
Adapted == UNION {Payload(s, load.shapes[s]).targets : s \in Found}
Fits(s) ==
  LET trained == Payload(s, load.state[s])
      made == Payload(s, load.shapes[s])
  IN trained.targets \cap Adapted # {} => Rank(trained.shape) = Rank(made.shape)

Assemble ==
  /\ load.at = "weights" /\ load.left = {}
  /\ load' = [load EXCEPT !.at = IF Found = {} THEN "nothing found"
                                 ELSE IF Cardinality(Shapes) > 1 THEN "disagree"
                                 ELSE IF \E s \in Found : ~Fits(s) THEN "size mismatch"
                                 ELSE "loaded"]
  /\ UNCHANGED <<diskVars, stageVars>>

\* Folds the loaded adapters into the base weights.
Merge ==
  /\ load.at = "loaded"
  /\ load' = [load EXCEPT !.at = "merged"]
  /\ UNCHANGED <<diskVars, stageVars>>

Next ==
  \/ \E s \in Stages :
       \/ \E run \in Runs : Train(s, run)
       \/ OpenWeights(s) \/ WriteWeights(s) \/ OpenConfig(s) \/ WriteConfig(s)
       \/ Crash(s) \/ ReadWeights(s)
  \/ StartLoad \/ ReadConfig \/ Assemble \/ Merge

Spec == Init /\ [][Next]_vars

(***************************************************************************)
(* Properties                                                              *)
(***************************************************************************)
\* Every variable has its type; a stage that saves has adapters to save.
TypeOK ==
  /\ weights \in [Stages -> Runs \cup {None, Torn}]
  /\ config \in [Stages -> Runs \cup {None, Torn}]
  /\ training \in [Stages -> Runs \cup {None}]
  /\ saving \in [Stages -> {"idle", "weights", "between", "config"}]
  /\ \A s \in Stages : saving[s] # "idle" => training[s] # None
  /\ saved \in [Stages -> Runs \cup {None}]
  /\ load \in Load

Loaded == load.at \in {"loaded", "merged"}
Done == load.at \notin Reading \cup {"idle"}

\* A half that was saved completely, and not written since the load began, is
\* loaded completely: its run's weights, all of its targets, at its run's rank
\* and scaling, whatever state a crash or a save under way left the other
\* directories in.  Otherwise the load fails.
WholeHalvesComeBack ==
  Loaded => \A s \in load.whole :
    LET half == Payload(s, saved[s]) IN
    /\ load.state[s] = saved[s]
    /\ half.targets \subseteq Adapted
    /\ \A other \in Found : Payload(other, load.shapes[other]).shape = half.shape

\* A directory without weights is skipped in silence (lora.py:360), but only if
\* no save had ever got to its weights: one that crashed after that makes the
\* load fail, or is loaded.
StartedSavesAreNoticed == Loaded => \A s \in load.begun : load.state[s] # None

\* Once every half is whole, stages whose manifests have one fingerprint are
\* never refused (keys one stage's dict leaves out count as the values the
\* other's spells out), and stages that loaded trained at one rank and scaling
\* ("if the halves disagree on rank or scaling", lora.py:345-346).
EqualFingerprintsReassemble ==
  Done /\ load.whole = Stages =>
    LET print(s) == Fingerprint(LoraSpec[saved[s]][s]) IN
    /\ (\A s, t \in Stages : print(s) = print(t)) => Loaded
    /\ Loaded => \A s, t \in Stages :
                   print(s).r = print(t).r /\ print(s).alpha = print(t).alpha

\* A load fails "if the halves disagree on rank or scaling - which would make the
\* reassembled model wrong" (lora.py:345-346): the adapters that were loaded were
\* trained at one rank and scaling.
DisagreeingHalvesAreRefused ==
  Loaded => \A s, t \in Found :
              Payload(s, load.state[s]).shape = Payload(t, load.state[t]).shape
=============================================================================
