---------------------------- MODULE StagePicker ----------------------------
(***************************************************************************)
(* Choosing a pipeline and one of its stages, in the form of a deal        *)
(* (features/deals/deal-form.tsx) and in the panel that converts a lead    *)
(* (features/leads/lead-conversion-panel.tsx).  The stages of a pipeline   *)
(* are loaded when it is chosen, and answers may come in another order.    *)
(***************************************************************************)
EXTENDS Naturals, Sequences

CONSTANTS
    StagesOf,   \* StagesOf[p]: the sequence of the stages of pipeline p
    MaxPicks    \* bound: loads of stages started in one behaviour

Pipelines == DOMAIN StagesOf
Unset == "unset"   \* the empty string of a select box
StageSet(p) == {StagesOf[p][i] : i \in DOMAIN StagesOf[p]}
AllStages == UNION {StageSet(p) : p \in Pipelines}

ASSUME PickerAssumption ==
    /\ MaxPicks \in Nat \ {0}
    /\ Unset \notin Pipelines
    /\ \A p \in Pipelines : StagesOf[p] \in Seq(StageSet(p))

VARIABLES
    picker,       \* "dealForm" or "conversionPanel"
    pick,         \* pipelineId and stageId of the form
    offered,      \* pipeline of the stages offered, or Unset
    stagesBusy,   \* isLoadingStages
    run,          \* loads started: the deal form's isActive belongs to the last
    stageLoads,   \* loads in flight
    raced         \* a pipeline was chosen while the stages of another were loaded

pickerVars == <<picker, pick, offered, stagesBusy, run, stageLoads, raced>>

First(p) == IF StagesOf[p] = <<>> THEN Unset ELSE Head(StagesOf[p])

\* The stage chosen is one of those loaded, or there is none to take instead.
Keeps(p) == pick.stage \in StageSet(p) \/ First(p) = pick.stage

PickerInit ==
    /\ picker \in {"dealForm", "conversionPanel"}
    /\ offered = Unset /\ raced = FALSE
    /\ \/ /\ pick = [pipeline |-> Unset, stage |-> Unset]
          /\ stagesBusy = FALSE /\ run = 0 /\ stageLoads = {}
       \/ /\ picker = "dealForm"   \* the form of a stored deal
          /\ pick \in [pipeline : Pipelines, stage : AllStages]
          /\ pick.stage \in StageSet(pick.pipeline)
          /\ stagesBusy = TRUE /\ run = 1
          /\ stageLoads = {[run |-> 1, pipeline |-> pick.pipeline]}

\* Another run of the effect, after the answer done: it loads the stages of the
\* pipeline chosen, if one is.
LoadStages(p, done) ==
    /\ run' = run + 1
    /\ IF p = Unset
       THEN stageLoads' = stageLoads \ done /\ UNCHANGED <<stagesBusy, raced>>
       ELSE /\ stageLoads' = (stageLoads \ done) \cup {[run |-> run + 1, pipeline |-> p]}
            /\ stagesBusy' = TRUE
            /\ raced' = (raced \/ stageLoads \ done # {})

\* Bound: the answer to the last load may start one more.
RoomToPick == run + 1 < MaxPicks

\* The deal form: the effect runs when the pipeline or the stage changes.
DealPipeline ==
    /\ picker = "dealForm" /\ RoomToPick
    /\ \E p \in (Pipelines \cup {Unset}) \ {pick.pipeline} :
          pick' = [pipeline |-> p, stage |-> Unset] /\ LoadStages(p, {})
    /\ UNCHANGED <<picker, offered>>

\* The select box is disabled while stages are loaded and when there are none.
DealStage ==
    /\ picker = "dealForm" /\ RoomToPick
    /\ pick.pipeline # Unset /\ ~stagesBusy /\ offered # Unset
    /\ StagesOf[offered] # <<>>
    /\ \E s \in (StageSet(offered) \cup {Unset}) \ {pick.stage} : pick' = [pick EXCEPT !.stage = s]
    /\ LoadStages(pick.pipeline, {})
    /\ UNCHANGED <<picker, offered>>

\* Mutant: every answer counts, of the active run or not.
DealStagesOfAnyRun ==
    /\ picker = "dealForm"
    /\ \E l \in stageLoads :
          /\ offered' = l.pipeline /\ stagesBusy' = FALSE
          /\ stageLoads' = stageLoads \ {l}
          /\ pick' = IF Keeps(l.pipeline) THEN pick ELSE [pick EXCEPT !.stage = First(l.pipeline)]
    /\ UNCHANGED <<picker, run, raced>>

\* The answer of a run that is not active is ignored.  The active one takes the
\* first stage unless the stage chosen is among those loaded.
DealStages ==
    /\ picker = "dealForm"
    /\ \E l \in stageLoads, ok \in BOOLEAN :
          \/ /\ l.run # run
             /\ stageLoads' = stageLoads \ {l}
             /\ UNCHANGED <<pick, offered, stagesBusy, run, raced>>
          \/ /\ l.run = run /\ (~ok \/ Keeps(l.pipeline))
             /\ stageLoads' = stageLoads \ {l}
             /\ offered' = IF ok THEN l.pipeline ELSE Unset
             /\ stagesBusy' = FALSE
             /\ UNCHANGED <<pick, run, raced>>
          \/ /\ l.run = run /\ ok /\ ~Keeps(l.pipeline)
             /\ pick' = [pick EXCEPT !.stage = First(l.pipeline)]
             /\ offered' = l.pipeline
             /\ LoadStages(pick.pipeline, {l})
    /\ UNCHANGED picker

\* The conversion panel: selectPipeline, and its answer, which nothing guards.
PanelPipeline ==
    /\ picker = "conversionPanel" /\ RoomToPick
    /\ \E p \in (Pipelines \cup {Unset}) \ {pick.pipeline} :
          pick' = [pipeline |-> p, stage |-> Unset] /\ LoadStages(p, {})
    /\ offered' = Unset
    /\ UNCHANGED picker

PanelStage ==
    /\ picker = "conversionPanel"
    /\ pick.pipeline # Unset /\ ~stagesBusy /\ offered # Unset
    /\ StagesOf[offered] # <<>>
    /\ \E s \in (StageSet(offered) \cup {Unset}) \ {pick.stage} : pick' = [pick EXCEPT !.stage = s]
    /\ UNCHANGED <<picker, offered, stagesBusy, run, stageLoads, raced>>

PanelStages ==
    /\ picker = "conversionPanel"
    /\ \E l \in stageLoads, ok \in BOOLEAN :
          /\ stageLoads' = stageLoads \ {l}
          /\ stagesBusy' = FALSE
          /\ offered' = IF ok THEN l.pipeline ELSE offered
          /\ pick' = IF ok /\ StagesOf[l.pipeline] # <<>>
                     THEN [pick EXCEPT !.stage = First(l.pipeline)] ELSE pick
    /\ UNCHANGED <<picker, run, raced>>

PickerNext ==
    \/ DealPipeline \/ DealStage \/ DealStages
    \/ PanelPipeline \/ PanelStage \/ PanelStages

PickerSpec == PickerInit /\ [][PickerNext]_pickerVars

-----------------------------------------------------------------------------
Choice == [pipeline : Pipelines \cup {Unset}, stage : AllStages \cup {Unset}]

PickerTypeOK ==
    /\ picker \in {"dealForm", "conversionPanel"}
    /\ pick \in Choice
    /\ offered \in Pipelines \cup {Unset}
    /\ stagesBusy \in BOOLEAN /\ raced \in BOOLEAN
    /\ run \in 0..MaxPicks
    /\ stageLoads \subseteq [run : 1..MaxPicks, pipeline : Pipelines]

\* canSubmit: both are chosen.
CanSubmit == pick.pipeline # Unset /\ pick.stage # Unset

\* A deal is submitted with a stage of its own pipeline, however the answers of
\* the stage loads come in.  The panel only promises it when a pipeline was not
\* changed while stages were loaded: the backend refuses the rest.
SubmitsItsStage ==
    CanSubmit /\ (picker = "dealForm" \/ ~raced) => pick.stage \in StageSet(pick.pipeline)
=============================================================================
