---------------------------- MODULE Pages_proofs ----------------------------
(***************************************************************************)
(* What is proved of the parts of the client other than the list pages:    *)
(* the choice of a stage, the studios, the pages of records, the inbox,    *)
(* the board and the way of a call.  Each section has one part, which      *)
(* shares no state with the others.                                        *)
(***************************************************************************)
EXTENDS StagePicker, Studios, DetailPages, Inbox, SalesBoard, Routes, FiniteSetTheorems, TLAPS

\* Of a finite set one more or one less.
LEMMA OneMoreOrLess ==
  ASSUME NEW S, IsFiniteSet(S), NEW m
  PROVE  /\ Cardinality(S) \in Nat
         /\ IsFiniteSet(S \cup {m}) /\ Cardinality(S \cup {m}) \in Nat
         /\ Cardinality(S \cup {m}) <= Cardinality(S) + 1
         /\ IsFiniteSet(S \ {m}) /\ Cardinality(S \ {m}) \in Nat
         /\ Cardinality(S \ {m}) <= Cardinality(S)
         /\ m \in S => Cardinality(S \ {m}) + 1 = Cardinality(S)
<1>1. Cardinality(S) \in Nat
  BY FS_CardinalityType
<1>2. /\ IsFiniteSet(S \cup {m})
      /\ Cardinality(S \cup {m}) = IF m \in S THEN Cardinality(S) ELSE Cardinality(S) + 1
  BY FS_AddElement
<1>3. /\ IsFiniteSet(S \ {m})
      /\ Cardinality(S \ {m}) = IF m \in S THEN Cardinality(S) - 1 ELSE Cardinality(S)
  BY FS_RemoveElement
<1>4. Cardinality(S \ {m}) \in Nat
  BY <1>3, FS_CardinalityType
<1> QED
  BY <1>1, <1>2, <1>3, <1>4

-----------------------------------------------------------------------------
(* The choice of a stage: a deal is submitted with a stage of the pipeline *)
(* chosen, for any pipelines and stages and answers in any order.          *)

USE PickerAssumption

\* The deal form: a load in flight belongs to an earlier run or to the pipeline
\* chosen, and at the bound its answer starts no further load.
ActiveLoadIsOfPipeline ==
    picker = "dealForm" =>
        \A l \in stageLoads :
            /\ l.run <= run
            /\ l.run = run => /\ l.pipeline = pick.pipeline
                              /\ run = MaxPicks => Keeps(l.pipeline)

\* The panel, while pipelines were not changed under a load: every load in flight
\* is of the pipeline chosen.
LoadsAreOfPipeline ==
    picker = "conversionPanel" /\ ~raced /\ pick.pipeline # Unset =>
        \A l \in stageLoads : l.pipeline = pick.pipeline

\* Where a stage can be chosen, the stages offered are the pipeline's.
OffersItsStages ==
    /\ pick.pipeline # Unset /\ offered # Unset
    /\ (picker = "dealForm" /\ ~stagesBusy) \/ (picker = "conversionPanel" /\ ~raced)
    => offered = pick.pipeline

PickerInv ==
    /\ PickerTypeOK /\ ActiveLoadIsOfPipeline /\ LoadsAreOfPipeline
    /\ OffersItsStages /\ SubmitsItsStage

-----------------------------------------------------------------------------
\* The stage taken when the one chosen is not among those loaded.
LEMMA FirstIsAStage ==
  ASSUME NEW p \in Pipelines
  PROVE  /\ First(p) \in StageSet(p) \/ First(p) = Unset
         /\ First(p) \in AllStages \cup {Unset}
         /\ StagesOf[p] # <<>> => First(p) \in StageSet(p)
<1>1. CASE StagesOf[p] = <<>>
  BY <1>1 DEF First
<1>2. CASE StagesOf[p] # <<>>
  <2>1. StagesOf[p] \in Seq(StageSet(p))
    OBVIOUS
  <2>2. Head(StagesOf[p]) \in StageSet(p)
    <3> DEFINE S == StageSet(p)
               s == StagesOf[p]
    <3>1. s \in Seq(S) /\ s # <<>>
      BY <1>2, <2>1
    <3> HIDE DEF S, s
    <3>2. Head(s) \in S
      BY <3>1
    <3> QED
      BY <3>2 DEF S, s
  <2> QED
    BY <1>2, <2>2 DEF First, AllStages
<1> QED
  BY <1>1, <1>2

LEMMA PickerInitial == PickerInit => PickerInv
<1> SUFFICES ASSUME PickerInit PROVE PickerInv
  OBVIOUS
<1>5. picker \in {"dealForm", "conversionPanel"} /\ offered = Unset /\ raced = FALSE
  BY DEF PickerInit
<1>1. PickerTypeOK
  <2>1. CASE pick = [pipeline |-> Unset, stage |-> Unset] /\ stagesBusy = FALSE
             /\ run = 0 /\ stageLoads = {}
    <3>1. pick \in Choice
      BY <2>1 DEF Choice
    <3>2. stagesBusy \in BOOLEAN /\ raced \in BOOLEAN
      BY <1>5, <2>1
    <3>3. run \in 0..MaxPicks /\ stageLoads \subseteq [run : 1..MaxPicks, pipeline : Pipelines]
      BY <2>1, <3>1
    <3> QED
      BY <1>5, <3>1, <3>2, <3>3 DEF PickerTypeOK
  <2>2. CASE pick \in [pipeline : Pipelines, stage : AllStages] /\ stagesBusy = TRUE /\ run = 1
             /\ stageLoads = {[run |-> 1, pipeline |-> pick.pipeline]}
    <3>1. pick \in Choice /\ pick.pipeline \in Pipelines
      BY <2>2 DEF Choice
    <3>2. stagesBusy \in BOOLEAN /\ raced \in BOOLEAN
      BY <1>5, <2>2
    <3>3. run \in 0..MaxPicks /\ stageLoads \subseteq [run : 1..MaxPicks, pipeline : Pipelines]
      BY <2>2, <3>1
    <3> QED
      BY <1>5, <3>1, <3>2, <3>3 DEF PickerTypeOK
  <2> QED
    BY <2>1, <2>2 DEF PickerInit
<1>2. ActiveLoadIsOfPipeline
  BY DEF PickerInit, ActiveLoadIsOfPipeline, Keeps
<1>3. LoadsAreOfPipeline /\ OffersItsStages
  BY DEF PickerInit, LoadsAreOfPipeline, OffersItsStages
<1>4. SubmitsItsStage
  BY DEF PickerInit, SubmitsItsStage, CanSubmit
<1> QED
  BY <1>1, <1>2, <1>3, <1>4 DEF PickerInv

LEMMA PipelineChosen == ASSUME PickerInv, DealPipeline \/ PanelPipeline PROVE PickerInv'
<1>1. PICK p \in Pipelines \cup {Unset} :
          pick' = [pipeline |-> p, stage |-> Unset] /\ LoadStages(p, {})
  BY DEF DealPipeline, PanelPipeline
<1>2. /\ RoomToPick /\ UNCHANGED picker
      /\ offered' = offered \/ offered' = Unset
      /\ picker = "conversionPanel" => offered' = Unset
  BY DEF DealPipeline, PanelPipeline
<1>3. run \in 0..MaxPicks /\ run' = run + 1 /\ run' < MaxPicks
  BY <1>1, <1>2 DEF LoadStages, RoomToPick, PickerInv, PickerTypeOK
<1>4. /\ p = Unset => stageLoads' = stageLoads /\ UNCHANGED <<stagesBusy, raced>>
      /\ p # Unset => /\ stageLoads' = stageLoads \cup {[run |-> run + 1, pipeline |-> p]}
                      /\ stagesBusy' = TRUE
                      /\ raced' = (raced \/ stageLoads # {})
  BY <1>1 DEF LoadStages
<1>5. pick' \in Choice /\ pick'.pipeline = p /\ pick'.stage = Unset
  BY <1>1 DEF Choice
<1>6. PickerTypeOK'
  <2>1. stagesBusy' \in BOOLEAN /\ raced' \in BOOLEAN
    BY <1>4 DEF PickerInv, PickerTypeOK
  <2>2. stageLoads' \subseteq [run : 1..MaxPicks, pipeline : Pipelines]
    BY <1>1, <1>3, <1>4 DEF PickerInv, PickerTypeOK
  <2> QED
    BY <1>2, <1>3, <1>5, <2>1, <2>2 DEF PickerInv, PickerTypeOK
<1>7. ActiveLoadIsOfPipeline'
  <2> SUFFICES ASSUME picker' = "dealForm", NEW l \in stageLoads'
               PROVE  l.run <= run' /\ (l.run = run' => l.pipeline = pick'.pipeline)
    BY <1>3 DEF ActiveLoadIsOfPipeline
  <2>1. CASE l \in stageLoads
    <3>1. l.run \in Nat /\ l.run <= run
      BY <1>2, <2>1 DEF PickerInv, PickerTypeOK, ActiveLoadIsOfPipeline
    <3> QED
      BY <1>3, <3>1
  <2>2. CASE l \notin stageLoads
    <3>1. p # Unset /\ l = [run |-> run + 1, pipeline |-> p]
      BY <1>4, <2>2
    <3> QED
      BY <1>3, <1>5, <3>1
  <2> QED
    BY <2>1, <2>2
<1>8. LoadsAreOfPipeline'
  <2> SUFFICES ASSUME picker' = "conversionPanel", ~raced', p # Unset, NEW l \in stageLoads'
               PROVE  l.pipeline = p
    BY <1>5 DEF LoadsAreOfPipeline
  <2>1. stageLoads = {}
    BY <1>4
  <2> QED
    BY <1>4, <2>1
<1>9. OffersItsStages' /\ SubmitsItsStage'
  BY <1>2, <1>4, <1>5 DEF OffersItsStages, SubmitsItsStage, CanSubmit
<1> QED
  BY <1>6, <1>7, <1>8, <1>9 DEF PickerInv

LEMMA StageChosen == ASSUME PickerInv, DealStage \/ PanelStage PROVE PickerInv'
<1>1. PICK s \in StageSet(offered) \cup {Unset} :
          /\ pick' = [pick EXCEPT !.stage = s]
          /\ pick.pipeline # Unset /\ ~stagesBusy /\ offered # Unset
          /\ UNCHANGED <<picker, offered>>
  BY DEF DealStage, PanelStage
<1>2. pick \in Choice /\ offered \in Pipelines
  BY <1>1 DEF PickerInv, PickerTypeOK
<1>3. pick' \in Choice /\ pick'.pipeline = pick.pipeline /\ pick'.stage = s
  BY <1>1, <1>2 DEF Choice, AllStages
<1>4. picker' = "dealForm" \/ ~raced => offered = pick.pipeline
  BY <1>1 DEF PickerInv, PickerTypeOK, OffersItsStages
<1>5. raced => raced'
  BY DEF DealStage, PanelStage, LoadStages
<1>6. SubmitsItsStage'
  BY <1>1, <1>3, <1>4, <1>5 DEF SubmitsItsStage, CanSubmit
<1>7. CASE DealStage
  <2>1. picker = "dealForm" /\ RoomToPick /\ LoadStages(pick.pipeline, {})
    BY <1>7 DEF DealStage
  <2>2. run \in 0..MaxPicks /\ run' = run + 1 /\ run' < MaxPicks
    BY <2>1 DEF LoadStages, RoomToPick, PickerInv, PickerTypeOK
  <2>3. /\ stageLoads' = stageLoads \cup {[run |-> run + 1, pipeline |-> pick.pipeline]}
        /\ stagesBusy' = TRUE /\ raced' = (raced \/ stageLoads # {})
    BY <1>1, <2>1 DEF LoadStages
  <2>4. stagesBusy' \in BOOLEAN /\ raced' \in BOOLEAN
    BY <2>3
  <2>5. stageLoads' \subseteq [run : 1..MaxPicks, pipeline : Pipelines]
    BY <1>1, <1>2, <2>2, <2>3 DEF PickerInv, PickerTypeOK, Choice
  <2>6. PickerTypeOK'
    BY <1>1, <1>3, <2>2, <2>4, <2>5 DEF PickerInv, PickerTypeOK
  <2>7. ActiveLoadIsOfPipeline'
    <3> SUFFICES ASSUME NEW l \in stageLoads'
                 PROVE  l.run <= run' /\ (l.run = run' => l.pipeline = pick'.pipeline)
      BY <2>2 DEF ActiveLoadIsOfPipeline
    <3>1. CASE l \in stageLoads
      <4>1. l.run \in Nat /\ l.run <= run
        BY <2>1, <3>1 DEF PickerInv, PickerTypeOK, ActiveLoadIsOfPipeline
      <4> QED
        BY <2>2, <4>1
    <3>2. CASE l = [run |-> run + 1, pipeline |-> pick.pipeline]
      BY <1>3, <2>2, <3>2
    <3> QED
      BY <2>3, <3>1, <3>2
  <2>8. LoadsAreOfPipeline' /\ OffersItsStages'
    BY <1>1, <2>1, <2>3 DEF LoadsAreOfPipeline, OffersItsStages
  <2> QED
    BY <1>6, <2>6, <2>7, <2>8 DEF PickerInv
<1>8. CASE PanelStage
  <2>1. picker = "conversionPanel" /\ UNCHANGED <<stagesBusy, run, stageLoads, raced>>
    BY <1>8 DEF PanelStage
  <2>2. PickerTypeOK'
    BY <1>1, <1>3, <2>1 DEF PickerInv, PickerTypeOK
  <2>3. ActiveLoadIsOfPipeline' /\ LoadsAreOfPipeline' /\ OffersItsStages'
    BY <1>1, <1>3, <2>1
       DEF PickerInv, ActiveLoadIsOfPipeline, LoadsAreOfPipeline, OffersItsStages
  <2> QED
    BY <1>6, <2>2, <2>3 DEF PickerInv
<1> QED
  BY <1>7, <1>8

LEMMA DealAnswered == ASSUME PickerInv, DealStages PROVE PickerInv'
<1>1. PICK l \in stageLoads, ok \in BOOLEAN :
          \/ /\ l.run # run
             /\ stageLoads' = stageLoads \ {l}
             /\ UNCHANGED <<pick, offered, stagesBusy, run, raced>>
          \/ /\ l.run = run
             /\ stageLoads' = stageLoads \ {l}
             /\ offered' = IF ok THEN l.pipeline ELSE Unset
             /\ stagesBusy' = FALSE
             /\ UNCHANGED <<pick, run, raced>>
          \/ /\ l.run = run /\ ~Keeps(l.pipeline)
             /\ pick' = [pick EXCEPT !.stage = First(l.pipeline)]
             /\ offered' = l.pipeline
             /\ LoadStages(pick.pipeline, {l})
  BY DEF DealStages
<1>2. picker = "dealForm" /\ picker' = "dealForm"
  BY DEF DealStages
<1>3. /\ l.pipeline \in Pipelines /\ pick \in Choice /\ run \in 0..MaxPicks
      /\ l.run = run => /\ l.pipeline = pick.pipeline
                        /\ run = MaxPicks => Keeps(l.pipeline)
  BY <1>2 DEF PickerInv, PickerTypeOK, ActiveLoadIsOfPipeline
<1>4. CASE /\ l.run # run
           /\ stageLoads' = stageLoads \ {l}
           /\ UNCHANGED <<pick, offered, stagesBusy, run, raced>>
  BY <1>2, <1>4 DEF PickerInv, PickerTypeOK, ActiveLoadIsOfPipeline, LoadsAreOfPipeline,
     OffersItsStages, SubmitsItsStage, CanSubmit, Keeps
<1>5. CASE /\ l.run = run
           /\ stageLoads' = stageLoads \ {l}
           /\ offered' = IF ok THEN l.pipeline ELSE Unset
           /\ stagesBusy' = FALSE
           /\ UNCHANGED <<pick, run, raced>>
  <2>1. stagesBusy' \in BOOLEAN
    BY <1>5
  <2>2. offered' \in Pipelines \cup {Unset}
    BY <1>3, <1>5
  <2>3. PickerTypeOK'
    BY <1>2, <1>5, <2>1, <2>2 DEF PickerInv, PickerTypeOK
  <2>4. ActiveLoadIsOfPipeline'
    BY <1>2, <1>5 DEF PickerInv, ActiveLoadIsOfPipeline, Keeps
  <2>5. LoadsAreOfPipeline' /\ OffersItsStages' /\ SubmitsItsStage'
    BY <1>2, <1>3, <1>5
       DEF PickerInv, LoadsAreOfPipeline, OffersItsStages, SubmitsItsStage, CanSubmit
  <2> QED
    BY <2>3, <2>4, <2>5 DEF PickerInv
<1>6. CASE /\ l.run = run /\ ~Keeps(l.pipeline)
           /\ pick' = [pick EXCEPT !.stage = First(l.pipeline)]
           /\ offered' = l.pipeline
           /\ LoadStages(pick.pipeline, {l})
  <2>1. pick.pipeline = l.pipeline /\ pick.pipeline # Unset /\ run < MaxPicks
    BY <1>3, <1>6
  <2>2. /\ run' = run + 1 /\ run' \in 1..MaxPicks
        /\ stageLoads' = (stageLoads \ {l}) \cup {[run |-> run + 1, pipeline |-> pick.pipeline]}
        /\ stagesBusy' = TRUE /\ raced' = (raced \/ stageLoads \ {l} # {})
    BY <1>3, <1>6, <2>1 DEF LoadStages
  <2>3. First(l.pipeline) \in AllStages \cup {Unset}
    BY <1>3, FirstIsAStage
  <2>4. /\ pick' \in Choice /\ pick'.pipeline = pick.pipeline
        /\ pick'.stage = First(l.pipeline)
    BY <1>3, <1>6, <2>3 DEF Choice
  <2>5. stagesBusy' \in BOOLEAN /\ raced' \in BOOLEAN
    BY <2>2
  <2>6. stageLoads' \subseteq [run : 1..MaxPicks, pipeline : Pipelines]
    BY <1>3, <2>1, <2>2 DEF PickerInv, PickerTypeOK
  <2>7. PickerTypeOK'
    BY <1>2, <1>3, <1>6, <2>2, <2>4, <2>5, <2>6 DEF PickerTypeOK
  <2>8. ActiveLoadIsOfPipeline'
    <3> SUFFICES ASSUME NEW k \in stageLoads'
                 PROVE  /\ k.run <= run'
                        /\ k.run = run' => k.pipeline = pick'.pipeline /\ Keeps(k.pipeline)'
      BY DEF ActiveLoadIsOfPipeline, Keeps
    <3>1. CASE k \in stageLoads
      <4>1. k.run \in Nat /\ k.run <= run
        BY <1>2, <3>1 DEF PickerInv, PickerTypeOK, ActiveLoadIsOfPipeline
      <4> QED
        BY <1>3, <2>2, <4>1
    <3>2. CASE k = [run |-> run + 1, pipeline |-> pick.pipeline]
      BY <2>1, <2>2, <2>4, <3>2 DEF Keeps
    <3> QED
      BY <2>2, <3>1, <3>2
  <2>9. LoadsAreOfPipeline' /\ OffersItsStages'
    BY <1>2, <2>2 DEF LoadsAreOfPipeline, OffersItsStages
  <2>10. SubmitsItsStage'
    BY <1>3, <2>1, <2>4, FirstIsAStage DEF SubmitsItsStage, CanSubmit
  <2> QED
    BY <2>7, <2>8, <2>9, <2>10 DEF PickerInv
<1> QED
  BY <1>1, <1>4, <1>5, <1>6

LEMMA PanelAnswered == ASSUME PickerInv, PanelStages PROVE PickerInv'
<1>1. PICK l \in stageLoads, ok \in BOOLEAN :
          /\ stageLoads' = stageLoads \ {l}
          /\ stagesBusy' = FALSE
          /\ offered' = IF ok THEN l.pipeline ELSE offered
          /\ pick' = IF ok /\ StagesOf[l.pipeline] # <<>>
                     THEN [pick EXCEPT !.stage = First(l.pipeline)] ELSE pick
  BY DEF PanelStages
<1>2. picker = "conversionPanel" /\ UNCHANGED <<picker, run, raced>>
  BY DEF PanelStages
<1>3. l.pipeline \in Pipelines /\ pick \in Choice
  BY DEF PickerInv, PickerTypeOK
<1>4. /\ pick' \in Choice /\ pick'.pipeline = pick.pipeline
      /\ pick' = pick \/ pick'.stage \in StageSet(l.pipeline)
  <2>1. CASE ok /\ StagesOf[l.pipeline] # <<>>
    BY <1>1, <1>3, <2>1, FirstIsAStage DEF Choice
  <2>2. CASE ~(ok /\ StagesOf[l.pipeline] # <<>>)
    BY <1>1, <1>3, <2>2
  <2> QED
    BY <2>1, <2>2
<1>5. ~raced /\ pick.pipeline # Unset => l.pipeline = pick.pipeline
  BY <1>2 DEF PickerInv, LoadsAreOfPipeline
<1>6. stagesBusy' \in BOOLEAN /\ offered' \in Pipelines \cup {Unset}
  BY <1>1, <1>3 DEF PickerInv, PickerTypeOK
<1>7. PickerTypeOK'
  BY <1>1, <1>2, <1>4, <1>6 DEF PickerInv, PickerTypeOK
<1>8. ActiveLoadIsOfPipeline' /\ LoadsAreOfPipeline'
  BY <1>1, <1>2, <1>4 DEF PickerInv, ActiveLoadIsOfPipeline, LoadsAreOfPipeline
<1>9. OffersItsStages'
  <2> SUFFICES ASSUME pick'.pipeline # Unset, offered' # Unset, ~raced'
               PROVE  offered' = pick'.pipeline
    BY <1>2 DEF OffersItsStages
  <2>1. l.pipeline = pick.pipeline
    BY <1>2, <1>4, <1>5
  <2> QED
    BY <1>1, <1>2, <1>4, <2>1 DEF PickerInv, OffersItsStages
<1>10. SubmitsItsStage'
  BY <1>2, <1>4, <1>5 DEF PickerInv, SubmitsItsStage, CanSubmit
<1> QED
  BY <1>7, <1>8, <1>9, <1>10 DEF PickerInv

LEMMA PickerInductive == ASSUME PickerInv, [PickerNext]_pickerVars PROVE PickerInv'
<1>1. CASE UNCHANGED pickerVars
  BY <1>1 DEF pickerVars, PickerInv, PickerTypeOK, ActiveLoadIsOfPipeline, LoadsAreOfPipeline,
     OffersItsStages, SubmitsItsStage, CanSubmit, Keeps
<1> QED
  BY <1>1, PipelineChosen, StageChosen, DealAnswered, PanelAnswered DEF PickerNext

-----------------------------------------------------------------------------
\* Every behaviour of a stage picker keeps the invariant.
THEOREM PickerInvariant == PickerSpec => []PickerInv
<1>1. PickerInit => PickerInv
  BY PickerInitial
<1>2. PickerInv /\ [PickerNext]_pickerVars => PickerInv'
  BY PickerInductive
<1> QED
  BY <1>1, <1>2, PTL DEF PickerSpec

\* deal-form.tsx and lead-conversion-panel.tsx: the stage submitted is one of the
\* pipeline's.
THEOREM PickerSubmits == PickerSpec => []SubmitsItsStage
<1>1. PickerInv => SubmitsItsStage
  BY DEF PickerInv
<1> QED
  BY <1>1, PickerInvariant, PTL

\* Type correctness of the choice of a stage.
THEOREM PickerTypes == PickerSpec => []PickerTypeOK
<1>1. PickerInv => PickerTypeOK
  BY DEF PickerInv
<1> QED
  BY <1>1, PickerInvariant, PTL

HIDE PickerAssumption

-----------------------------------------------------------------------------
(* The studios: one that has loaded all its collections shows its own      *)
(* saves in each, for any of the studios and any number of loads, saves    *)
(* and changes by others.                                                  *)

USE StudioAssumption

Afters == studio.flagged \cup studio.unflagged \cup {"none"}
FetchRecords == [run : Nat, after : Afters, got : [studio.parts -> Int]]
StudioSaveRecords == [op : studio.flagged \cup studio.unflagged,
                      answer : {"none", "made", "refused"}, edition : Nat]

StudioShape ==
    /\ edition \in Nat /\ saved \in Nat /\ studioRun \in Nat
    /\ display \in [studio.parts -> Int]
    /\ fetches \subseteq FetchRecords
    /\ studioSaves \subseteq StudioSaveRecords

\* What the page was told it made, or is about to be told, is stored.
SavedIsStored ==
    /\ saved <= edition
    /\ \A s \in studioSaves : s.answer = "made" => s.edition <= edition

\* The last load reads what is at least as new as the page's saves.
LastFetchIsFresh ==
    \A f \in fetches :
        /\ f.run <= studioRun
        /\ f.run = studioRun =>
              \A p \in studio.parts : f.got[p] # Unread /\ f.got[p] # Broken => f.got[p] >= saved

\* A load that was started alone stays alone.
LoneFetchIsLast == ~crossed => \A f \in fetches : f.run = studioRun

StudioInv ==
    /\ StudioShape /\ SavedIsStored /\ LastFetchIsFresh /\ LoneFetchIsLast
    /\ StudioShowsOwnSaves

-----------------------------------------------------------------------------
LEMMA NewFetch ==
  ASSUME NEW n \in Nat, NEW op \in Afters
  PROVE  /\ Fetch(n, op) \in FetchRecords /\ Fetch(n, op).run = n
         /\ \A p \in studio.parts : Fetch(n, op).got[p] = Unread
  BY DEF Fetch, FetchRecords, Unread

LEMMA StudioInitial == StudioInit => StudioInv
<1> SUFFICES ASSUME StudioInit PROVE StudioInv
  OBVIOUS
<1>1. PICK s \in StudioPages : ShowStudio(s)
  BY DEF StudioInit
<1>2. /\ studio = s /\ edition = 1 /\ display = [p \in studio.parts |-> 0] /\ studioBusy = TRUE
      /\ studioRun = 1 /\ fetches = {Fetch(1, "none")} /\ studioSaves = {} /\ saved = 0
  BY <1>1 DEF ShowStudio
<1>3. /\ Fetch(1, "none") \in FetchRecords /\ Fetch(1, "none").run = 1
      /\ \A p \in studio.parts : Fetch(1, "none").got[p] = Unread
  BY NewFetch DEF Afters
<1>4. StudioShape
  BY <1>2, <1>3 DEF StudioShape
<1>5. SavedIsStored /\ LastFetchIsFresh /\ LoneFetchIsLast /\ StudioShowsOwnSaves
  BY <1>2, <1>3 DEF SavedIsStored, LastFetchIsFresh, LoneFetchIsLast, StudioShowsOwnSaves
<1> QED
  BY <1>4, <1>5 DEF StudioInv

\* A new load leaves the others behind, and only the page's saves change saved.
LEMMA StartLoadStep ==
  ASSUME StudioInv, NEW op \in Afters, StartLoad(op), UNCHANGED studio
  PROVE  /\ studioRun' = studioRun + 1 /\ studioRun' \in Nat /\ studioBusy' = TRUE
         /\ fetches' \subseteq FetchRecords
         /\ LastFetchIsFresh' /\ LoneFetchIsLast'
<1> DEFINE new == Fetch(studioRun + 1, op)
<1>1. studioRun \in Nat /\ studioRun' = studioRun + 1 /\ studioBusy' = TRUE
      /\ fetches' = fetches \cup {new} /\ crossed' = (fetches # {})
  BY DEF StartLoad, StudioInv, StudioShape
<1>2. new \in FetchRecords /\ new.run = studioRun + 1 /\ \A p \in studio.parts : new.got[p] = Unread
  BY <1>1, NewFetch
<1> HIDE DEF new
<1>3. fetches' \subseteq FetchRecords
  BY <1>1, <1>2 DEF StudioInv, StudioShape
<1>4. LastFetchIsFresh'
  <2>1. \A f \in fetches : f.run \in Nat /\ f.run <= studioRun
    BY DEF StudioInv, StudioShape, LastFetchIsFresh, FetchRecords
  <2> QED
    BY <1>1, <1>2, <2>1 DEF LastFetchIsFresh
<1>5. LoneFetchIsLast'
  <2> SUFFICES ASSUME ~crossed', NEW f \in fetches' PROVE f.run = studioRun'
    BY DEF LoneFetchIsLast
  <2>1. fetches = {}
    BY <1>1
  <2> QED
    BY <1>1, <1>2, <2>1
<1> QED
  BY <1>1, <1>3, <1>4, <1>5

LEMMA ServeFetchKeeps == ASSUME StudioInv, ServeFetch PROVE StudioInv'
<1>1. PICK f \in fetches, p \in studio.parts, a \in {edition, Broken} :
          fetches' = (fetches \ {f}) \cup {[f EXCEPT !.got[p] = a]}
  BY DEF ServeFetch
<1>2. UNCHANGED <<studio, edition, display, studioBusy, spoilt, studioRun, studioSaves, saved, crossed>>
  BY DEF ServeFetch
<1>3. f \in FetchRecords /\ edition \in Nat /\ saved <= edition
  BY DEF StudioInv, StudioShape, SavedIsStored
<1> DEFINE m == [f EXCEPT !.got[p] = a]
<1>4. m \in FetchRecords /\ m.run = f.run /\ m.got = [f.got EXCEPT ![p] = a]
  BY <1>3 DEF FetchRecords, Broken
<1> HIDE DEF m
<1>5. fetches' \subseteq fetches \cup {m}
  BY <1>1 DEF m
<1>6. StudioShape'
  BY <1>2, <1>4, <1>5 DEF StudioInv, StudioShape, FetchRecords, Afters, StudioSaveRecords
<1>7. SavedIsStored' /\ LoneFetchIsLast' /\ StudioShowsOwnSaves'
  BY <1>2, <1>4, <1>5 DEF StudioInv, SavedIsStored, LoneFetchIsLast, StudioShowsOwnSaves
<1>8. LastFetchIsFresh'
  <2>1. ASSUME NEW q \in studio.parts, m.run = studioRun, m.got[q] # Unread, m.got[q] # Broken
        PROVE  m.got[q] >= saved
    <3>1. m.got[q] = IF q = p THEN a ELSE f.got[q]
      BY <1>3, <1>4 DEF FetchRecords
    <3> QED
      BY <1>3, <1>4, <2>1, <3>1 DEF StudioInv, LastFetchIsFresh
  <2> QED
    BY <1>2, <1>4, <1>5, <2>1 DEF StudioInv, LastFetchIsFresh
<1> QED
  BY <1>6, <1>7, <1>8 DEF StudioInv

LEMMA FetchOverKeeps == ASSUME StudioInv, FetchOver PROVE StudioInv'
<1>1. PICK f \in fetches : Over(f) /\ EndFetch(f)
  BY DEF FetchOver
<1>2. UNCHANGED <<studio, edition, studioRun, studioSaves, saved, crossed>>
      /\ fetches' \subseteq fetches
  BY <1>1 DEF FetchOver, EndFetch
<1>3. f \in FetchRecords
  BY DEF StudioInv, StudioShape
<1>4. SavedIsStored' /\ LastFetchIsFresh' /\ LoneFetchIsLast'
  BY <1>2 DEF StudioInv, SavedIsStored, LastFetchIsFresh, LoneFetchIsLast
<1>5. CASE studio.guarded /\ f.run # studioRun
  <2>1. UNCHANGED <<display, studioBusy, spoilt>>
    BY <1>1, <1>5 DEF EndFetch
  <2> QED
    BY <1>2, <1>4, <2>1 DEF StudioInv, StudioShape, StudioShowsOwnSaves, FetchRecords, Afters,
       StudioSaveRecords
<1>6. CASE ~(studio.guarded /\ f.run # studioRun)
  <2>1. display' = Displayed(f) /\ studioBusy' = FALSE /\ spoilt' = (Failures(f) # {})
    BY <1>1, <1>6 DEF EndFetch
  <2>2. display' \in [studio.parts -> Int]
    BY <1>3, <2>1 DEF Displayed, StudioInv, StudioShape, FetchRecords
  <2>3. StudioShape'
    BY <1>2, <2>2 DEF StudioInv, StudioShape, FetchRecords, Afters, StudioSaveRecords
  <2>4. StudioShowsOwnSaves'
    <3> SUFFICES ASSUME ~spoilt', studio.guarded \/ ~crossed, NEW p \in studio.parts
                 PROVE  display'[p] >= saved
      BY <1>2 DEF StudioShowsOwnSaves
    <3>1. Failures(f) = {}
      BY <2>1
    <3>2. f.got[p] # Unread /\ f.got[p] # Broken
      BY <1>1, <3>1 DEF Over, FailsWhole, Failures
    <3>3. display'[p] = f.got[p]
      BY <2>1, <3>1, <3>2 DEF Displayed, FailsWhole
    <3>4. f.run = studioRun
      BY <1>6 DEF StudioInv, LoneFetchIsLast
    <3> QED
      BY <3>2, <3>3, <3>4 DEF StudioInv, LastFetchIsFresh
  <2> QED
    BY <1>4, <2>3, <2>4 DEF StudioInv
<1> QED
  BY <1>5, <1>6

LEMMA RefreshKeeps == ASSUME StudioInv, RefreshStudio PROVE StudioInv'
<1>1. StartLoad("none") /\ UNCHANGED <<studio, edition, display, spoilt, studioSaves, flag, saved>>
  BY DEF RefreshStudio
<1>2. "none" \in Afters
  BY DEF Afters
<1>3. /\ studioRun' \in Nat /\ studioBusy' = TRUE /\ fetches' \subseteq FetchRecords
      /\ LastFetchIsFresh' /\ LoneFetchIsLast'
  BY <1>1, <1>2, StartLoadStep
<1>4. StudioShape'
  BY <1>1, <1>3 DEF StudioInv, StudioShape, FetchRecords, Afters, StudioSaveRecords
<1>5. SavedIsStored' /\ StudioShowsOwnSaves'
  BY <1>1, <1>3 DEF StudioInv, SavedIsStored, StudioShowsOwnSaves
<1> QED
  BY <1>3, <1>4, <1>5 DEF StudioInv

LEMMA SendKeeps == ASSUME StudioInv, SendStudioSave PROVE StudioInv'
<1>1. PICK op \in studio.flagged \cup studio.unflagged :
          studioSaves' = studioSaves \cup {[op |-> op, answer |-> "none", edition |-> 0]}
  BY DEF SendStudioSave
<1>2. UNCHANGED <<studio, edition, display, studioBusy, spoilt, studioRun, fetches, saved, crossed>>
  BY DEF SendStudioSave
<1>3. StudioShape'
  BY <1>1, <1>2 DEF StudioInv, StudioShape, FetchRecords, Afters, StudioSaveRecords
<1>4. SavedIsStored'
  BY <1>1, <1>2 DEF StudioInv, SavedIsStored
<1>5. LastFetchIsFresh' /\ LoneFetchIsLast' /\ StudioShowsOwnSaves'
  BY <1>2 DEF StudioInv, LastFetchIsFresh, LoneFetchIsLast, StudioShowsOwnSaves
<1> QED
  BY <1>3, <1>4, <1>5 DEF StudioInv

LEMMA ServeKeeps == ASSUME StudioInv, NEW op, ServeStudioSave(op) PROVE StudioInv'
<1>1. UNCHANGED <<studio, display, studioBusy, spoilt, studioRun, fetches, saved, crossed>>
  BY DEF ServeStudioSave
<1>2. edition \in Nat
  BY DEF StudioInv, StudioShape
<1>3. PICK m \in StudioSaveRecords :
          /\ studioSaves' \subseteq studioSaves \cup {m}
          /\ edition' \in Nat /\ edition <= edition'
          /\ m.answer = "made" => m.edition <= edition'
  <2>1. PICK s \in studioSaves :
           \/ /\ edition' = edition + 1
              /\ \E a \in {"made", "refused"} :
                    studioSaves' = (studioSaves \ {s}) \cup
                      {[s EXCEPT !.answer = a, !.edition = edition + 1]}
           \/ /\ studioSaves' = (studioSaves \ {s}) \cup {[s EXCEPT !.answer = "refused"]}
              /\ UNCHANGED edition
    BY DEF ServeStudioSave
  <2>2. s \in StudioSaveRecords
    BY DEF StudioInv, StudioShape
  <2>3. ASSUME edition' = edition + 1, NEW a \in {"made", "refused"},
               studioSaves' = (studioSaves \ {s}) \cup
                 {[s EXCEPT !.answer = a, !.edition = edition + 1]}
        PROVE  \E m \in StudioSaveRecords :
                  /\ studioSaves' \subseteq studioSaves \cup {m}
                  /\ m.answer = "made" => m.edition <= edition'
    <3>4. PICK k \in Nat : k = edition + 1
      BY <1>2
    <3> DEFINE m == [s EXCEPT !.answer = a, !.edition = k]
    <3>1. m \in StudioSaveRecords /\ m.edition = k
      BY <2>2 DEF StudioSaveRecords
    <3>2. studioSaves' \subseteq studioSaves \cup {m}
      BY <2>3, <3>4, Zenon
    <3>3. m.edition <= edition'
      BY <1>2, <2>3, <3>1, <3>4
    <3> HIDE DEF m
    <3> QED
      BY <3>1, <3>2, <3>3, Zenon
  <2>4. ASSUME UNCHANGED edition,
               studioSaves' = (studioSaves \ {s}) \cup {[s EXCEPT !.answer = "refused"]}
        PROVE  \E m \in StudioSaveRecords :
                  /\ studioSaves' \subseteq studioSaves \cup {m}
                  /\ m.answer = "made" => m.edition <= edition'
    <3> DEFINE m == [s EXCEPT !.answer = "refused"]
    <3>1. m \in StudioSaveRecords /\ m.answer # "made"
      BY <2>2 DEF StudioSaveRecords
    <3>2. studioSaves' \subseteq studioSaves \cup {m}
      BY <2>4
    <3> HIDE DEF m
    <3> QED
      BY <3>1, <3>2, Zenon
  <2>5. edition' = edition + 1 \/ edition' = edition
    BY <2>1
  <2>6. edition' \in Nat /\ edition <= edition'
    BY <1>2, <2>5
  <2>7. \E m \in StudioSaveRecords :
           /\ studioSaves' \subseteq studioSaves \cup {m}
           /\ m.answer = "made" => m.edition <= edition'
    BY <2>1, <2>3, <2>4, Zenon
  <2> QED
    BY <2>6, <2>7, Zenon
<1>6. StudioShape'
  BY <1>1, <1>3 DEF StudioInv, StudioShape, FetchRecords, Afters, StudioSaveRecords
<1>7. SavedIsStored'
  <2>1. \A x \in studioSaves : x.edition \in Nat
    BY DEF StudioInv, StudioShape, StudioSaveRecords
  <2>2. saved \in Nat
    BY DEF StudioInv, StudioShape
  <2>3. m.edition \in Nat
    BY DEF StudioSaveRecords
  <2> QED
    BY <1>1, <1>2, <1>3, <2>1, <2>2, <2>3 DEF StudioInv, SavedIsStored
<1>8. LastFetchIsFresh' /\ LoneFetchIsLast' /\ StudioShowsOwnSaves'
  BY <1>1 DEF StudioInv, LastFetchIsFresh, LoneFetchIsLast, StudioShowsOwnSaves
<1> QED
  BY <1>6, <1>7, <1>8 DEF StudioInv

LEMMA AnsweredKeeps == ASSUME StudioInv, NEW op, StudioSaveAnswered(op) PROVE StudioInv'
<1>1. PICK s \in studioSaves :
          /\ s.answer # "none" /\ studioSaves' = studioSaves \ {s}
          /\ \/ /\ s.answer = "refused"
                /\ spoilt' = (spoilt \/ s.op = "markDone")
                /\ UNCHANGED <<saved, studioRun, fetches, studioBusy, crossed>>
             \/ /\ s.answer # "refused"
                /\ saved' = IF s.edition > saved THEN s.edition ELSE saved
                /\ StartLoad(s.op) /\ UNCHANGED spoilt
  BY DEF StudioSaveAnswered
<1>2. UNCHANGED <<studio, edition, display>>
  BY DEF StudioSaveAnswered
<1>3. s \in StudioSaveRecords
  BY DEF StudioInv, StudioShape
<1>4. CASE /\ s.answer = "refused"
           /\ spoilt' = (spoilt \/ s.op = "markDone")
           /\ UNCHANGED <<saved, studioRun, fetches, studioBusy, crossed>>
  <2>1. StudioShape' /\ SavedIsStored'
    BY <1>1, <1>2, <1>4 DEF StudioInv, StudioShape, FetchRecords, Afters, StudioSaveRecords,
       SavedIsStored
  <2>2. LastFetchIsFresh' /\ LoneFetchIsLast'
    BY <1>2, <1>4 DEF StudioInv, LastFetchIsFresh, LoneFetchIsLast
  <2>3. spoilt => spoilt'
    BY <1>4
  <2>4. StudioShowsOwnSaves'
    BY <1>2, <1>4, <2>3 DEF StudioInv, StudioShowsOwnSaves
  <2> QED
    BY <2>1, <2>2, <2>4 DEF StudioInv
<1>5. CASE /\ s.answer # "refused"
           /\ saved' = IF s.edition > saved THEN s.edition ELSE saved
           /\ StartLoad(s.op) /\ UNCHANGED spoilt
  <2>1. s.op \in Afters /\ s.edition \in Nat /\ s.edition <= edition
    BY <1>1, <1>3, <1>5 DEF StudioSaveRecords, Afters, StudioInv, SavedIsStored
  <2>2. saved' \in Nat /\ saved' <= edition
    BY <1>5, <2>1 DEF StudioInv, StudioShape, SavedIsStored
  <2>3. /\ studioRun' \in Nat /\ studioBusy' = TRUE /\ fetches' \subseteq FetchRecords
        /\ LastFetchIsFresh' /\ LoneFetchIsLast'
    BY <1>2, <1>5, <2>1, StartLoadStep
  <2>4. StudioShape'
    BY <1>1, <1>2, <2>2, <2>3 DEF StudioInv, StudioShape, FetchRecords, Afters, StudioSaveRecords
  <2>5. SavedIsStored' /\ StudioShowsOwnSaves'
    BY <1>1, <1>2, <2>2, <2>3 DEF StudioInv, SavedIsStored, StudioShowsOwnSaves
  <2> QED
    BY <2>3, <2>4, <2>5 DEF StudioInv
<1> QED
  BY <1>1, <1>4, <1>5

LEMMA OthersKeep == ASSUME StudioInv, OthersChange PROVE StudioInv'
<1>1. /\ edition' = edition + 1 /\ edition \in Nat
      /\ UNCHANGED <<studio, display, studioBusy, spoilt, studioRun, fetches, studioSaves, saved,
                     crossed>>
  BY DEF OthersChange, StudioInv, StudioShape
<1>2. StudioShape'
  BY <1>1 DEF StudioInv, StudioShape, FetchRecords, Afters, StudioSaveRecords
<1>3. SavedIsStored'
  <2>1. saved \in Nat /\ \A x \in studioSaves : x.edition \in Nat
    BY DEF StudioInv, StudioShape, StudioSaveRecords
  <2> QED
    BY <1>1, <2>1 DEF StudioInv, SavedIsStored
<1>4. LastFetchIsFresh' /\ LoneFetchIsLast' /\ StudioShowsOwnSaves'
  BY <1>1 DEF StudioInv, LastFetchIsFresh, LoneFetchIsLast, StudioShowsOwnSaves
<1> QED
  BY <1>2, <1>3, <1>4 DEF StudioInv

LEMMA StudioInductive == ASSUME StudioInv, [StudioNext]_studioVars PROVE StudioInv'
<1>1. CASE UNCHANGED studioVars
  BY <1>1 DEF studioVars, StudioInv, StudioShape, FetchRecords, Afters, StudioSaveRecords,
     SavedIsStored, LastFetchIsFresh, LoneFetchIsLast, StudioShowsOwnSaves
<1> QED
  BY <1>1, ServeFetchKeeps, FetchOverKeeps, RefreshKeeps, SendKeeps, ServeKeeps, AnsweredKeeps,
     OthersKeep DEF StudioNext

-----------------------------------------------------------------------------
\* Every behaviour of a studio keeps the invariant.
THEOREM StudioInvariant == StudioSpec => []StudioInv
<1>1. StudioInit => StudioInv
  BY StudioInitial
<1>2. StudioInv /\ [StudioNext]_studioVars => StudioInv'
  BY StudioInductive
<1> QED
  BY <1>1, <1>2, PTL DEF StudioSpec

\* The studios and the planner: after all collections are loaded, each shows the
\* saves the page was told it made.
THEOREM StudioShows == StudioSpec => []StudioShowsOwnSaves
<1>1. StudioInv => StudioShowsOwnSaves
  BY DEF StudioInv
<1> QED
  BY <1>1, StudioInvariant, PTL

\* Saves under way leave room for the load each may end with.
RoomForSaves == IsFiniteSet(studioSaves) /\ studioRun + Cardinality(studioSaves) <= MaxStudioRuns

StudioTypeInv == StudioTypeOK /\ RoomForSaves

TypedFetches == [run : 1..MaxStudioRuns, after : studio.flagged \cup studio.unflagged \cup {"none"},
                 got : [studio.parts -> -1..MaxChanges]]
TypedSaves == [op : studio.flagged \cup studio.unflagged, answer : {"none", "made", "refused"},
               edition : 0..MaxChanges]

LEMMA StudioTypesInitial == StudioInit => StudioTypeInv
<1> SUFFICES ASSUME StudioInit PROVE StudioTypeInv
  OBVIOUS
<1>1. PICK s \in StudioPages : ShowStudio(s)
  BY DEF StudioInit
<1>2. /\ studio = s /\ edition = 1 /\ display = [p \in studio.parts |-> 0] /\ saved = 0
      /\ studioRun = 1 /\ fetches = {Fetch(1, "none")} /\ studioSaves = {}
      /\ {studioBusy, spoilt, flag, crossed} \subseteq BOOLEAN
  BY <1>1 DEF ShowStudio
<1>3. Fetch(1, "none") \in TypedFetches
  BY DEF Fetch, Unread, TypedFetches
<1>4. StudioTypeOK
  BY <1>2, <1>3 DEF StudioTypeOK, TypedFetches
<1>5. RoomForSaves
  BY <1>2, FS_EmptySet DEF RoomForSaves
<1> QED
  BY <1>4, <1>5 DEF StudioTypeInv

\* A load that starts within the bound is a load.
LEMMA StartLoadTypes ==
  ASSUME StudioTypeInv, NEW op \in studio.flagged \cup studio.unflagged \cup {"none"}, StartLoad(op),
         IsFiniteSet(studioSaves'), Cardinality(studioSaves') \in Nat,
         studioRun + 1 + Cardinality(studioSaves') <= MaxStudioRuns,
         UNCHANGED <<studio, edition, display>>, saved' \in 0..MaxChanges,
         studioSaves' \subseteq TypedSaves, {spoilt', flag'} \subseteq BOOLEAN
  PROVE  StudioTypeInv'
<1>1. studioRun \in 1..MaxStudioRuns /\ fetches \subseteq TypedFetches
  BY DEF StudioTypeInv, StudioTypeOK, TypedFetches
<1>2. studioRun' = studioRun + 1 /\ studioBusy' = TRUE /\ crossed' \in BOOLEAN
      /\ fetches' = fetches \cup {Fetch(studioRun + 1, op)}
  BY DEF StartLoad
<1>3. studioRun' \in 1..MaxStudioRuns
  BY <1>1, <1>2
<1>4. Fetch(studioRun + 1, op) \in TypedFetches
  BY <1>2, <1>3 DEF Fetch, Unread, TypedFetches
<1>5. StudioTypeOK'
  BY <1>1, <1>2, <1>3, <1>4 DEF StudioTypeInv, StudioTypeOK, TypedFetches, TypedSaves
<1>6. RoomForSaves'
  BY <1>2 DEF RoomForSaves
<1> QED
  BY <1>5, <1>6 DEF StudioTypeInv

LEMMA ServeFetchTypes == ASSUME StudioTypeInv, ServeFetch PROVE StudioTypeInv'
<1>1. PICK f \in fetches, p \in studio.parts, a \in {edition, Broken} :
          fetches' = (fetches \ {f}) \cup {[f EXCEPT !.got[p] = a]}
  BY DEF ServeFetch
<1>2. UNCHANGED <<studio, edition, display, studioBusy, spoilt, studioRun, studioSaves, flag, saved,
                  crossed>>
  BY DEF ServeFetch
<1>3. f \in TypedFetches /\ a \in -1..MaxChanges
  BY DEF StudioTypeInv, StudioTypeOK, TypedFetches, Broken
<1>4. [f EXCEPT !.got[p] = a] \in TypedFetches
  BY <1>3 DEF TypedFetches
<1>5. fetches' \subseteq TypedFetches
  BY <1>1, <1>4 DEF StudioTypeInv, StudioTypeOK, TypedFetches
<1> QED
  BY <1>2, <1>5 DEF StudioTypeInv, StudioTypeOK, TypedFetches, RoomForSaves

LEMMA FetchOverTypes == ASSUME StudioTypeInv, FetchOver PROVE StudioTypeInv'
<1>1. PICK f \in fetches : EndFetch(f)
  BY DEF FetchOver
<1>2. UNCHANGED <<studio, edition, studioRun, studioSaves, saved, crossed>>
  BY DEF FetchOver
<1>3. f \in TypedFetches
  BY DEF StudioTypeInv, StudioTypeOK, TypedFetches
<1>4. Displayed(f) \in [studio.parts -> 0..MaxChanges]
  <2>1. f.got \in [studio.parts -> -1..MaxChanges] /\ display \in [studio.parts -> 0..MaxChanges]
    BY <1>3 DEF TypedFetches, StudioTypeInv, StudioTypeOK
  <2> QED
    BY <2>1 DEF Displayed, Broken, Unread
<1>5. /\ fetches' \subseteq fetches /\ flag' \in BOOLEAN
      /\ \/ UNCHANGED <<display, studioBusy, spoilt>>
         \/ display' = Displayed(f) /\ studioBusy' \in BOOLEAN /\ spoilt' \in BOOLEAN
  BY <1>1 DEF EndFetch
<1>6. display' \in [studio.parts -> 0..MaxChanges] /\ {studioBusy', spoilt', flag'} \subseteq BOOLEAN
  BY <1>4, <1>5 DEF StudioTypeInv, StudioTypeOK
<1> QED
  BY <1>2, <1>5, <1>6 DEF StudioTypeInv, StudioTypeOK, RoomForSaves

LEMMA RefreshTypes == ASSUME StudioTypeInv, RefreshStudio PROVE StudioTypeInv'
<1>1. /\ StartLoad("none") /\ RoomForFetch
      /\ UNCHANGED <<studio, edition, display, spoilt, studioSaves, flag, saved>>
  BY DEF RefreshStudio
<1>2. /\ saved \in 0..MaxChanges /\ studioSaves \subseteq TypedSaves /\ studioRun \in Nat
      /\ {spoilt, flag} \subseteq BOOLEAN
  BY DEF StudioTypeInv, StudioTypeOK, TypedSaves
<1>3. IsFiniteSet(studioSaves) /\ Cardinality(studioSaves) \in Nat
  BY FS_CardinalityType DEF StudioTypeInv, RoomForSaves
<1>4. studioRun + 1 + Cardinality(studioSaves') <= MaxStudioRuns
  BY <1>1, <1>2, <1>3 DEF RoomForFetch
<1>5. TypedSaves' = TypedSaves
  BY <1>1 DEF TypedSaves
<1> QED
  BY <1>1, <1>2, <1>3, <1>4, StartLoadTypes

LEMMA SendTypes == ASSUME StudioTypeInv, SendStudioSave PROVE StudioTypeInv'
<1>1. PICK op \in studio.flagged \cup studio.unflagged :
          /\ studioSaves' = studioSaves \cup {[op |-> op, answer |-> "none", edition |-> 0]}
          /\ flag' = (flag \/ op \in studio.flagged)
  BY DEF SendStudioSave
<1>2. /\ UNCHANGED <<studio, edition, display, studioBusy, spoilt, studioRun, fetches, saved, crossed>>
      /\ RoomForFetch
  BY DEF SendStudioSave
<1>3. studioSaves' \subseteq TypedSaves
  <2>1. [op |-> op, answer |-> "none", edition |-> 0] \in TypedSaves
    BY DEF TypedSaves
  <2> QED
    BY <1>1, <2>1 DEF StudioTypeInv, StudioTypeOK, TypedSaves
<1>4. /\ IsFiniteSet(studioSaves') /\ Cardinality(studioSaves') \in Nat
      /\ Cardinality(studioSaves') <= Cardinality(studioSaves) + 1 /\ Cardinality(studioSaves) \in Nat
  BY <1>1, OneMoreOrLess DEF StudioTypeInv, RoomForSaves
<1>5. studioRun \in Nat
  BY DEF StudioTypeInv, StudioTypeOK
<1>6. RoomForSaves'
  BY <1>2, <1>4, <1>5 DEF RoomForFetch, RoomForSaves
<1>7. flag' \in BOOLEAN
  BY <1>1
<1>8. StudioTypeOK'
  BY <1>2, <1>3, <1>7 DEF StudioTypeInv, StudioTypeOK, TypedSaves
<1> QED
  BY <1>6, <1>8 DEF StudioTypeInv

LEMMA ServeSaveTypes == ASSUME StudioTypeInv, NEW op, ServeStudioSave(op) PROVE StudioTypeInv'
<1>1. PICK s \in studioSaves :
         \/ /\ edition < MaxChanges /\ edition' = edition + 1
            /\ \E a \in {"made", "refused"} :
                  studioSaves' = (studioSaves \ {s}) \cup
                    {[s EXCEPT !.answer = a, !.edition = edition + 1]}
         \/ /\ studioSaves' = (studioSaves \ {s}) \cup {[s EXCEPT !.answer = "refused"]}
            /\ UNCHANGED edition
  BY DEF ServeStudioSave
<1>2. UNCHANGED <<studio, display, studioBusy, spoilt, studioRun, fetches, flag, saved, crossed>>
  BY DEF ServeStudioSave
<1>3. s \in TypedSaves /\ studioSaves \subseteq TypedSaves /\ edition \in 1..MaxChanges
  BY DEF StudioTypeInv, StudioTypeOK, TypedSaves
<1>4. edition' \in 1..MaxChanges
  BY <1>1, <1>3
<1>5. \E new \in TypedSaves : studioSaves' = (studioSaves \ {s}) \cup {new}
  <2>1. CASE /\ edition < MaxChanges
             /\ \E a \in {"made", "refused"} :
                   studioSaves' = (studioSaves \ {s}) \cup
                     {[s EXCEPT !.answer = a, !.edition = edition + 1]}
    <3>1. PICK a \in {"made", "refused"} :
            studioSaves' = (studioSaves \ {s}) \cup {[s EXCEPT !.answer = a, !.edition = edition + 1]}
      BY <2>1
    <3>2. edition + 1 \in 0..MaxChanges
      BY <1>3, <2>1
    <3>3. [s EXCEPT !.answer = a, !.edition = edition + 1] \in TypedSaves
      BY <1>3, <3>2 DEF TypedSaves
    <3> QED
      BY <3>1, <3>3, Zenon
  <2>2. CASE studioSaves' = (studioSaves \ {s}) \cup {[s EXCEPT !.answer = "refused"]}
    <3>1. [s EXCEPT !.answer = "refused"] \in TypedSaves
      BY <1>3 DEF TypedSaves
    <3> QED
      BY <2>2, <3>1, Zenon
  <2> QED
    BY <1>1, <2>1, <2>2
<1>6. PICK new \in TypedSaves : studioSaves' = (studioSaves \ {s}) \cup {new}
  BY <1>5
<1>7. /\ IsFiniteSet(studioSaves \ {s}) /\ Cardinality(studioSaves \ {s}) \in Nat
      /\ Cardinality(studioSaves \ {s}) + 1 = Cardinality(studioSaves)
  BY OneMoreOrLess DEF StudioTypeInv, RoomForSaves
<1>8. /\ IsFiniteSet(studioSaves') /\ Cardinality(studioSaves') \in Nat
      /\ Cardinality(studioSaves') <= Cardinality(studioSaves \ {s}) + 1
  BY <1>6, <1>7, OneMoreOrLess
<1>9. RoomForSaves'
  BY <1>2, <1>7, <1>8 DEF StudioTypeInv, StudioTypeOK, RoomForSaves
<1>10. StudioTypeOK'
  BY <1>2, <1>3, <1>4, <1>6 DEF StudioTypeInv, StudioTypeOK, TypedSaves
<1> QED
  BY <1>9, <1>10 DEF StudioTypeInv

LEMMA SaveAnsweredTypes == ASSUME StudioTypeInv, NEW op, StudioSaveAnswered(op) PROVE StudioTypeInv'
<1>1. PICK s \in studioSaves :
          /\ studioSaves' = studioSaves \ {s}
          /\ \/ /\ flag' = (flag /\ s.op \notin studio.flagged)
                /\ spoilt' = (spoilt \/ s.op = "markDone")
                /\ UNCHANGED <<saved, studioRun, fetches, studioBusy, crossed>>
             \/ /\ saved' = IF s.edition > saved THEN s.edition ELSE saved
                /\ StartLoad(s.op) /\ UNCHANGED <<flag, spoilt>>
  BY DEF StudioSaveAnswered
<1>2. UNCHANGED <<studio, edition, display>>
  BY DEF StudioSaveAnswered
<1>3. s \in TypedSaves /\ studioSaves' \subseteq TypedSaves
  BY <1>1 DEF StudioTypeInv, StudioTypeOK, TypedSaves
<1>4. /\ IsFiniteSet(studioSaves') /\ Cardinality(studioSaves') \in Nat
      /\ Cardinality(studioSaves') + 1 = Cardinality(studioSaves)
  BY <1>1, OneMoreOrLess DEF StudioTypeInv, RoomForSaves
<1>5. studioRun \in Nat /\ studioRun + 1 + Cardinality(studioSaves') <= MaxStudioRuns
  BY <1>4 DEF StudioTypeInv, StudioTypeOK, RoomForSaves
<1>6. CASE /\ flag' = (flag /\ s.op \notin studio.flagged)
           /\ spoilt' = (spoilt \/ s.op = "markDone")
           /\ UNCHANGED <<saved, studioRun, fetches, studioBusy, crossed>>
  <2>1. {flag', spoilt'} \subseteq BOOLEAN
    BY <1>6 DEF StudioTypeInv, StudioTypeOK
  <2>2. StudioTypeOK'
    BY <1>2, <1>3, <1>6, <2>1 DEF StudioTypeInv, StudioTypeOK, TypedSaves
  <2>3. RoomForSaves'
    BY <1>4, <1>5, <1>6 DEF RoomForSaves
  <2> QED
    BY <2>2, <2>3 DEF StudioTypeInv
<1>7. CASE /\ saved' = IF s.edition > saved THEN s.edition ELSE saved
           /\ StartLoad(s.op) /\ UNCHANGED <<flag, spoilt>>
  <2>1. s.op \in studio.flagged \cup studio.unflagged \cup {"none"} /\ s.edition \in 0..MaxChanges
    BY <1>3 DEF TypedSaves
  <2>2. saved' \in 0..MaxChanges /\ {spoilt', flag'} \subseteq BOOLEAN
    BY <1>7, <2>1 DEF StudioTypeInv, StudioTypeOK
  <2> QED
    BY <1>2, <1>3, <1>4, <1>5, <1>7, <2>1, <2>2, StartLoadTypes
<1> QED
  BY <1>1, <1>6, <1>7

LEMMA OthersChangeTypes == ASSUME StudioTypeInv, OthersChange PROVE StudioTypeInv'
<1>1. /\ edition' = edition + 1 /\ edition < MaxChanges
      /\ UNCHANGED <<studio, display, studioBusy, spoilt, studioRun, fetches, studioSaves, flag, saved,
                     crossed>>
  BY DEF OthersChange
<1>2. edition' \in 1..MaxChanges
  BY <1>1 DEF StudioTypeInv, StudioTypeOK
<1> QED
  BY <1>1, <1>2 DEF StudioTypeInv, StudioTypeOK, RoomForSaves

LEMMA StudioTypesInductive == ASSUME StudioTypeInv, [StudioNext]_studioVars PROVE StudioTypeInv'
<1>1. CASE UNCHANGED studioVars
  BY <1>1 DEF studioVars, StudioTypeInv, StudioTypeOK, RoomForSaves
<1> QED
  BY <1>1, ServeFetchTypes, FetchOverTypes, RefreshTypes, SendTypes, ServeSaveTypes,
     SaveAnsweredTypes, OthersChangeTypes DEF StudioNext

\* What a studio shows, loads and saves is at all times an edition that exists, of
\* the collections of the page that is open, within the bounds.
THEOREM StudioTypes == StudioSpec => []StudioTypeOK
<1>1. StudioInit => StudioTypeInv
  BY StudioTypesInitial
<1>2. StudioTypeInv /\ [StudioNext]_studioVars => StudioTypeInv'
  BY StudioTypesInductive
<1>3. StudioTypeInv => StudioTypeOK
  BY DEF StudioTypeInv
<1> QED
  BY <1>1, <1>2, <1>3, PTL DEF StudioSpec

HIDE StudioAssumption

-----------------------------------------------------------------------------
(* Record pages: what is shown never goes back and holds the page's own    *)
(* saves.                                                                  *)

USE DetailAssumption

\* The flag a request holds: which one depends on the request alone.
FlagOf(op) ==
    CASE op = "delete" -> "isDeleting"
      [] op = "convert" -> "isSubmittingConversion"
      [] OTHER -> "isSaving"

BringsRecord(c) == c.answer.state = "got"

\* Requests are the page's own, hold their flags while the page is there, and no
\* two hold the same; the load has the page to itself.
CallsHoldFlags ==
    /\ \A c \in calls : c.op \in DOMAIN detail.ops \cup {"load", "reload"}
    /\ ~left => \A c \in calls : c.op # "load" => FlagOf(c.op) \in flags
    /\ \A c, e \in calls :
          c.op # "load" /\ e.op # "load" /\ FlagOf(c.op) = FlagOf(e.op) => c = e
    /\ \A c \in calls : c.op = "load" => calls = {c} /\ record = NoRecord

\* Where saves do not overlap there is one request, deletion aside.
OneCall ==
    OneSaveAtATime => \A c, e \in calls : c.op # "delete" /\ e.op # "delete" => c = e

\* Nothing the page knows or is about to be told is newer than the stored record.
StoredIsNewest ==
    stored # NoRecord =>
        /\ record.version <= stored.version /\ acked <= stored.version
        /\ \A c \in calls : BringsRecord(c) => c.answer.record.version <= stored.version

\* An answer on its way is not older than what is shown and what was told.
AnswersAreNewer ==
    OneSaveAtATime => \A c \in calls : BringsRecord(c) /\ c.op # "delete" =>
        c.answer.record.version >= record.version /\ c.answer.record.version >= acked

\* Behind its own saves the page is only while it loads again, or shows an error.
BehindOnlyToReload ==
    OneSaveAtATime /\ ~problem /\ ~left /\ record.version < acked =>
        \E c \in calls : c.op = "reload"

DetailInv ==
    /\ DetailTypeOK /\ CallsHoldFlags /\ OneCall /\ StoredIsNewest
    /\ AnswersAreNewer /\ BehindOnlyToReload /\ ShowsOwnSaves

-----------------------------------------------------------------------------

LEMMA DetailHasOps ==
  ASSUME NEW f, NEW more
  PROVE  /\ DOMAIN Detail(f, more).ops = {"update", "delete"} \cup more
         /\ \A op \in DOMAIN Detail(f, more).ops : Detail(f, more).ops[op] = FlagOf(op)
  BY DEF Detail, FlagOf

LEMMA DetailOps ==
  ASSUME NEW d \in AllDetails
  PROVE  /\ DOMAIN d.ops \subseteq Ops \ {"load", "reload"}
         /\ \A op \in DOMAIN d.ops : d.ops[op] = FlagOf(op)
<1>1. \A f, more : /\ DOMAIN Detail(f, more).ops = {"update", "delete"} \cup more
                   /\ \A op \in DOMAIN Detail(f, more).ops : Detail(f, more).ops[op] = FlagOf(op)
  BY DetailHasOps
<1>2. \E f : \/ d = Detail(f, {}) \/ d = Detail(f, {"convert"}) \/ d = Detail(f, {"assign"})
             \/ d = Detail(f, {"stage", "deleteStage"})
  BY DEF AllDetails, ContactDetail, CompanyDetail, LeadDetail, DealDetail, TaskDetail,
         ActivityDetail, NoteDetail, TagDetail, PipelineDetail
<1> QED
  BY <1>1, <1>2 DEF Ops

DetailAnswers == {Pending, Denied} \cup [state : {"got"}, record : Records]

LEMMA AnswerShapes ==
  /\ Pending.state = "pending" /\ Denied.state = "denied"
  /\ Pending \in DetailAnswers /\ Denied \in DetailAnswers
  /\ \A r \in Records : Got(r) \in DetailAnswers /\ Got(r).state = "got" /\ Got(r).record = r
  /\ \A a \in DetailAnswers :
       \/ a = Pending \/ a = Denied
       \/ a.state = "got" /\ a.record \in Records
  BY DEF DetailAnswers, Pending, Denied, Got

LEMMA CallFields ==
  ASSUME DetailTypeOK, NEW c \in calls
  PROVE  c.op \in Ops /\ c.answer \in DetailAnswers
  BY DEF DetailTypeOK, DetailAnswers

LEMMA RecordFields ==
  ASSUME DetailTypeOK
  PROVE  /\ stored.version \in 0 .. MaxVersion /\ record.version \in 0 .. MaxVersion
         /\ acked \in 0 .. MaxVersion /\ MaxVersion \in Nat
         /\ detail \in AllDetails
  BY DEF DetailTypeOK, Records

LEMMA NoRecordIs == NoRecord \in Records /\ NoRecord.version = 0
  BY DEF NoRecord, Records

LEMMA DetailInitial == DetailInit => DetailInv
<1> SUFFICES ASSUME NEW d \in Details, Showing(d) PROVE DetailInv
  BY DEF DetailInit
<1>1. calls = {[op |-> "load", answer |-> Pending]}
  BY DEF Showing
<1>2. \A c \in calls : c.op = "load" /\ c.answer = Pending
  BY <1>1
<1>3. DetailTypeOK
  <2>1. [op |-> "load", answer |-> Pending] \in
           [op : Ops, answer : {Pending, Denied} \cup [state : {"got"}, record : Records]]
    BY DEF Ops
  <2>2. stored \in Records
    BY DEF Showing, Records
  <2>3. 0 \in 0 .. MaxVersion
    OBVIOUS
  <2>4. calls \subseteq [op : Ops, answer : {Pending, Denied} \cup [state : {"got"}, record : Records]]
    BY <1>1, <2>1
  <2> QED
    BY <2>2, <2>3, <2>4, NoRecordIs DEF Showing, DetailTypeOK
<1>4. CallsHoldFlags
  BY <1>1, <1>2 DEF Showing, CallsHoldFlags
<1>5. OneCall
  BY <1>1 DEF OneCall
<1>6. StoredIsNewest /\ AnswersAreNewer
  BY <1>2, AnswerShapes, NoRecordIs DEF Showing, StoredIsNewest, AnswersAreNewer, BringsRecord
<1>7. BehindOnlyToReload /\ ShowsOwnSaves
  BY NoRecordIs DEF Showing, BehindOnlyToReload, ShowsOwnSaves
<1> QED
  BY <1>3, <1>4, <1>5, <1>6, <1>7 DEF DetailInv

\* Forms do not matter to the invariant.
LEMMA DetailFormsInv ==
  ASSUME DetailInv, open' \subseteq {"edit", "convert", "addStage", "editStage"},
         UNCHANGED <<detail, stored, record, problem, flags, calls, left, acked, overlapped>>
  PROVE  DetailInv'
<1>1. DetailTypeOK'
  BY DEF DetailInv, DetailTypeOK
<1> QED
  BY <1>1 DEF DetailInv, CallsHoldFlags, OneCall, StoredIsNewest, AnswersAreNewer,
             BehindOnlyToReload, ShowsOwnSaves, OneSaveAtATime, BringsRecord

LEMMA ToggleFormInv ==
  ASSUME DetailInv, ToggleForm
  PROVE  DetailInv'
<1>1. open \subseteq {"edit", "convert", "addStage", "editStage"}
  BY DEF DetailInv, DetailTypeOK
<1>2. PICK f \in {"edit", "convert", "addStage", "editStage"} :
        open' = CASE f \in open -> open \ {f}
                  [] f = "edit" -> (open \ {"convert"}) \cup {f}
                  [] f = "convert" -> (open \ {"edit"}) \cup {f}
                  [] f = "addStage" -> (open \ {"editStage"}) \cup {f}
                  [] OTHER -> open \cup {f}
  BY DEF ToggleForm
<1>3. open' \subseteq {"edit", "convert", "addStage", "editStage"}
  BY <1>1, <1>2
<1> QED
  BY <1>3, DetailFormsInv DEF ToggleForm

LEMMA SubmitInv ==
  ASSUME DetailInv, Submit
  PROVE  DetailInv'
<1>1. PICK op \in DOMAIN detail.ops :
        /\ detail.ops[op] \notin flags
        /\ flags' = flags \cup {detail.ops[op]}
        /\ calls' = calls \cup {[op |-> op, answer |-> Pending]}
        /\ overlapped' = (overlapped \/ flags \ {"isDeleting"} # {})
  BY DEF Submit
<1> DEFINE new == [op |-> op, answer |-> Pending]
<1>2. /\ record # NoRecord /\ ~left
      /\ UNCHANGED <<detail, stored, record, problem, open, left, acked>>
  BY DEF Submit, Loaded
<1>3. op \in Ops \ {"load", "reload"} /\ detail.ops[op] = FlagOf(op)
  BY DetailOps, RecordFields DEF DetailInv
<1>4. new.op = op /\ new.answer = Pending /\ ~BringsRecord(new)
  BY AnswerShapes DEF BringsRecord
<1> HIDE DEF new
<1>5. calls' = calls \cup {new}
  BY <1>1 DEF new
<1>6. \A c \in calls : c.op # "load" /\ FlagOf(c.op) \in flags
  BY <1>2 DEF DetailInv, CallsHoldFlags
<1>7. DetailTypeOK'
  <2>1. new \in [op : Ops, answer : {Pending, Denied} \cup [state : {"got"}, record : Records]]
    BY <1>3 DEF new
  <2>2. FlagOf(op) \in Flags
    BY DEF FlagOf, Flags
  <2>3. overlapped' \in BOOLEAN
    BY <1>1 DEF DetailInv, DetailTypeOK
  <2> QED
    BY <1>1, <1>2, <1>3, <1>5, <2>1, <2>2, <2>3 DEF DetailInv, DetailTypeOK
<1>8. CallsHoldFlags'
  BY <1>1, <1>2, <1>3, <1>4, <1>5, <1>6 DEF DetailInv, CallsHoldFlags
<1>9. OneSaveAtATime' => OneSaveAtATime
  BY <1>1, <1>2 DEF OneSaveAtATime
<1>10. OneCall'
  <2> SUFFICES ASSUME OneSaveAtATime', op # "delete", NEW c \in calls, c.op # "delete" PROVE FALSE
    BY <1>4, <1>5, <1>9 DEF DetailInv, OneCall
  <2>1. FlagOf(c.op) # "isDeleting" /\ FlagOf(c.op) \in flags
    BY <1>6 DEF FlagOf
  <2>2. "convert" \notin DOMAIN detail.ops
    BY <1>1, <1>2, <2>1 DEF OneSaveAtATime
  <2>3. op # "convert" /\ c.op # "convert"
    BY <2>2 DEF DetailInv, CallsHoldFlags
  <2>4. FlagOf(c.op) = FlagOf(op)
    BY <2>3 DEF FlagOf
  <2> QED
    BY <1>1, <1>3, <2>1, <2>4
<1>11. StoredIsNewest' /\ AnswersAreNewer'
  BY <1>2, <1>4, <1>5, <1>9 DEF DetailInv, StoredIsNewest, AnswersAreNewer, BringsRecord
<1>12. BehindOnlyToReload'
  BY <1>2, <1>5, <1>9 DEF DetailInv, BehindOnlyToReload
<1>13. ShowsOwnSaves'
  BY <1>1, <1>2, <1>9 DEF DetailInv, ShowsOwnSaves
<1> QED
  BY <1>7, <1>8, <1>10, <1>11, <1>12, <1>13 DEF DetailInv

LEMMA OthersEditInv ==
  ASSUME DetailInv, OthersEdit
  PROVE  DetailInv'
<1>1. /\ stored # NoRecord
      /\ UNCHANGED <<detail, record, problem, flags, open, calls, left, acked, overlapped>>
      /\ \/ stored.version < MaxVersion /\ stored' = Newer(stored.links)
         \/ stored' = NoRecord
  BY DEF OthersEdit
<1>2. stored' \in Records /\ (stored' # NoRecord => stored'.version >= stored.version)
  <2>1. CASE stored' = NoRecord
    BY <2>1, NoRecordIs
  <2>2. CASE stored.version < MaxVersion /\ stored' = Newer(stored.links)
    BY <2>2, RecordFields DEF DetailInv, DetailTypeOK, Newer, Records
  <2> QED
    BY <1>1, <2>1, <2>2
<1>3. DetailTypeOK'
  BY <1>1, <1>2 DEF DetailInv, DetailTypeOK
<1>4. StoredIsNewest'
  <2> SUFFICES ASSUME stored' # NoRecord
               PROVE  /\ record.version <= stored'.version /\ acked <= stored'.version
                      /\ \A c \in calls : BringsRecord(c) => c.answer.record.version <= stored'.version
    BY <1>1 DEF StoredIsNewest, BringsRecord
  <2>1. stored.version \in Nat /\ stored'.version \in Nat /\ stored'.version >= stored.version
    BY <1>2, RecordFields DEF DetailInv, Records
  <2>2. \A c \in calls : BringsRecord(c) => c.answer.record.version \in Nat
    BY CallFields, AnswerShapes DEF DetailInv, BringsRecord, Records
  <2> QED
    BY <1>1, <2>1, <2>2, RecordFields DEF DetailInv, StoredIsNewest
<1> QED
  BY <1>1, <1>3, <1>4 DEF DetailInv, CallsHoldFlags, OneCall, AnswersAreNewer,
                         BehindOnlyToReload, ShowsOwnSaves, OneSaveAtATime, BringsRecord

\* One request is served: its answer is refused, or what the record is then.
LEMMA ServeCallInv ==
  ASSUME DetailInv, NEW op \in Ops, ServeCall(op)
  PROVE  DetailInv'
<1>1. PICK c \in calls : /\ c.op = op /\ c.answer = Pending
                         /\ \/ /\ stored # NoRecord
                               /\ \E r \in Written(op), lost \in BOOLEAN :
                                     /\ r.version <= MaxVersion
                                     /\ stored' = r
                                     /\ calls' = (calls \ {c}) \cup
                                          {[c EXCEPT !.answer = IF lost THEN Denied ELSE Got(r)]}
                            \/ /\ calls' = (calls \ {c}) \cup {[c EXCEPT !.answer = Denied]}
                               /\ UNCHANGED stored
  BY DEF ServeCall
<1>2. UNCHANGED <<detail, record, problem, flags, open, left, acked, overlapped>>
  BY DEF ServeCall
<1>3. c.op \in Ops /\ c.answer \in DetailAnswers /\ c = [op |-> c.op, answer |-> c.answer]
  BY CallFields DEF DetailInv, DetailTypeOK
<1>4. \A r \in Written(op) : stored # NoRecord /\ r.version <= MaxVersion =>
        /\ r \in Records
        /\ r # NoRecord => r.version >= stored.version
        /\ op # "delete" => r.version >= stored.version
  <2> SUFFICES ASSUME NEW r \in Written(op), stored # NoRecord, r.version <= MaxVersion
               PROVE  /\ r \in Records
                      /\ r # NoRecord => r.version >= stored.version
                      /\ op # "delete" => r.version >= stored.version
    OBVIOUS
  <2>1. stored.version \in Nat /\ stored.links \in SUBSET Links
    BY DEF DetailInv, DetailTypeOK, Records
  <2>2. detail.form.chosen \subseteq Links
    <3>1. detail \in AllDetails
      BY RecordFields DEF DetailInv
    <3>2. \A f, more : Detail(f, more).form = f
      BY DEF Detail
    <3> QED
      BY <3>1, <3>2 DEF AllDetails, ContactDetail, CompanyDetail, LeadDetail, DealDetail, TaskDetail,
             ActivityDetail, NoteDetail, TagDetail, PipelineDetail, ContactForm, CompanyForm, LeadForm,
             DealForm, TaskForm, ActivityForm, NoteForm, TagForm, PipelineForm, Form, Links
  <2>3. \A L \in SUBSET Links : Newer(L).version = stored.version + 1 /\ Newer(L).links = L
                                /\ (stored.version + 1 <= MaxVersion => Newer(L) \in Records)
    BY <2>1 DEF Newer, Records
  <2>4. CASE op = "delete"
    BY <2>4, NoRecordIs DEF Written
  <2>5. CASE op \in {"load", "reload", "assign"}
    <3>1. r = stored
      BY <2>5 DEF Written
    <3> QED
      BY <2>1, <3>1 DEF DetailInv, DetailTypeOK
  <2>6. CASE op \notin {"delete", "load", "reload", "assign"}
    <3>1. PICK L \in SUBSET Links : r = Newer(L)
      <4>1. CASE op = "update"
        <5>1. PICK k \in SUBSET detail.form.chosen :
                 r = Newer((stored.links \ (detail.form.chosen \cup detail.form.nulls)) \cup k)
          BY <2>6, <4>1 DEF Written
        <5> QED
          BY <2>1, <2>2, <5>1
      <4>2. CASE op # "update"
        <5>1. r = Newer(stored.links)
          BY <2>6, <4>2 DEF Written
        <5> QED
          BY <2>1, <5>1
      <4> QED
        BY <4>1, <4>2
    <3> QED
      BY <2>1, <2>3, <3>1
  <2> QED
    BY <2>4, <2>5, <2>6
<1>5. PICK a \in DetailAnswers :
        /\ calls' = (calls \ {c}) \cup {[op |-> op, answer |-> a]}
        /\ \/ a = Denied
           \/ stored # NoRecord /\ a = Got(stored') /\ stored' \in Records
        /\ stored' \in Records
        /\ stored' = stored \/ stored # NoRecord
        /\ stored' # NoRecord => stored'.version >= stored.version
        /\ op # "delete" => stored'.version >= stored.version
  <2>1. \A a : [c EXCEPT !.answer = a] = [op |-> op, answer |-> a]
    BY <1>1, <1>3
  <2>2. CASE stored # NoRecord /\ \E r \in Written(op), lost \in BOOLEAN :
                                     /\ r.version <= MaxVersion
                                     /\ stored' = r
                                     /\ calls' = (calls \ {c}) \cup
                                          {[c EXCEPT !.answer = IF lost THEN Denied ELSE Got(r)]}
    <3>1. PICK r \in Written(op), lost \in BOOLEAN :
             /\ r.version <= MaxVersion
             /\ stored' = r
             /\ calls' = (calls \ {c}) \cup {[op |-> op, answer |-> IF lost THEN Denied ELSE Got(r)]}
      BY <2>1, <2>2
    <3>2. r \in Records
      BY <1>4, <2>2, <3>1
    <3>3. (IF lost THEN Denied ELSE Got(r)) \in DetailAnswers
      BY <3>2, AnswerShapes
    <3> QED
      BY <1>4, <2>2, <3>1, <3>2, <3>3
  <2>3. CASE calls' = (calls \ {c}) \cup {[c EXCEPT !.answer = Denied]} /\ UNCHANGED stored
    <3>1. stored \in Records /\ stored.version \in Nat
      BY DEF DetailInv, DetailTypeOK, Records
    <3>2. /\ Denied \in DetailAnswers
          /\ calls' = (calls \ {c}) \cup {[op |-> op, answer |-> Denied]}
      BY <2>1, <2>3, AnswerShapes
    <3>3. stored' = stored /\ stored'.version >= stored.version
      BY <2>3, <3>1
    <3> QED
      BY <3>1, <3>2, <3>3
  <2> QED
    BY <1>1, <2>2, <2>3
<1> DEFINE new == [op |-> op, answer |-> a]
<1>6. new.op = op /\ new.answer = a
  OBVIOUS
<1>7. new \in [op : Ops, answer : {Pending, Denied} \cup [state : {"got"}, record : Records]]
  BY DEF DetailAnswers
<1> HIDE DEF new
<1>8. calls' = (calls \ {c}) \cup {new}
  BY <1>5 DEF new
<1>9. DetailTypeOK'
  BY <1>2, <1>5, <1>7, <1>8 DEF DetailInv, DetailTypeOK
<1>10. CallsHoldFlags'
  <2>1. (\A e \in calls : e.op \in DOMAIN detail.ops \cup {"load", "reload"})'
    BY <1>1, <1>2, <1>6, <1>8 DEF DetailInv, CallsHoldFlags
  <2>2. (~left => \A e \in calls : e.op # "load" => FlagOf(e.op) \in flags)'
    BY <1>1, <1>2, <1>6, <1>8 DEF DetailInv, CallsHoldFlags
  <2>3. (\A e, f \in calls :
           e.op # "load" /\ f.op # "load" /\ FlagOf(e.op) = FlagOf(f.op) => e = f)'
    <3>1. ASSUME NEW e \in calls \ {c}, e.op # "load", op # "load", FlagOf(e.op) = FlagOf(op)
          PROVE  FALSE
      BY <1>1, <3>1 DEF DetailInv, CallsHoldFlags
    <3> QED
      BY <1>1, <1>6, <1>8, <3>1 DEF DetailInv, CallsHoldFlags
  <2>4. (\A e \in calls : e.op = "load" => calls = {e} /\ record = NoRecord)'
    <3>1. ASSUME NEW e \in calls, e.op = "load"
          PROVE  calls = {e} /\ record = NoRecord
      BY <3>1 DEF DetailInv, CallsHoldFlags
    <3>2. ASSUME NEW e \in calls', e.op = "load" PROVE calls' = {e} /\ record' = NoRecord
      <4>1. \E f \in calls : f.op = "load"
        BY <1>1, <1>6, <1>8, <3>2
      <4>2. calls = {c} /\ record = NoRecord
        BY <3>1, <4>1
      <4> QED
        BY <1>2, <1>8, <3>2, <4>2
    <3> QED
      BY <3>2
  <2> QED
    BY <2>1, <2>2, <2>3, <2>4 DEF CallsHoldFlags
<1>11. OneSaveAtATime' <=> OneSaveAtATime
  BY <1>2 DEF OneSaveAtATime
<1>12. OneCall'
  BY <1>1, <1>6, <1>8, <1>11 DEF DetailInv, OneCall
<1>13. ASSUME NEW e \in calls, BringsRecord(e) PROVE e.answer.record.version \in Nat
  BY <1>13, CallFields, AnswerShapes DEF DetailInv, BringsRecord, Records
<1>14. BringsRecord(new) => stored # NoRecord /\ new.answer.record = stored'
  BY <1>5, <1>6, AnswerShapes DEF BringsRecord
<1>15. /\ stored.version \in Nat /\ stored'.version \in Nat
       /\ record.version \in Nat /\ acked \in Nat
  BY <1>5, RecordFields DEF DetailInv, Records
<1>16. StoredIsNewest'
  <2> SUFFICES ASSUME stored' # NoRecord
               PROVE  /\ record'.version <= stored'.version /\ acked' <= stored'.version
                      /\ \A e \in calls' : BringsRecord(e) => e.answer.record.version <= stored'.version
    BY DEF StoredIsNewest, BringsRecord
  <2>1. stored # NoRecord /\ stored'.version >= stored.version
    BY <1>5
  <2> QED
    BY <1>2, <1>8, <1>13, <1>14, <1>15, <2>1 DEF DetailInv, StoredIsNewest
<1>17. AnswersAreNewer'
  <2> SUFFICES ASSUME OneSaveAtATime, NEW e \in calls', BringsRecord(e), e.op # "delete"
               PROVE  e.answer.record.version >= record.version /\ e.answer.record.version >= acked
    BY <1>2, <1>11 DEF AnswersAreNewer, BringsRecord
  <2>1. CASE e = new
    <3>1. stored # NoRecord /\ e.answer.record = stored' /\ stored'.version >= stored.version
      BY <1>5, <1>6, <1>14, <2>1
    <3>2. record.version <= stored.version /\ acked <= stored.version
      BY <3>1 DEF DetailInv, StoredIsNewest
    <3> QED
      BY <1>15, <3>1, <3>2
  <2>2. CASE e \in calls
    BY <2>2 DEF DetailInv, AnswersAreNewer
  <2> QED
    BY <1>8, <2>1, <2>2
<1>18. BehindOnlyToReload'
  BY <1>1, <1>2, <1>6, <1>8, <1>11 DEF DetailInv, BehindOnlyToReload
<1>19. ShowsOwnSaves'
  BY <1>2, <1>11 DEF DetailInv, ShowsOwnSaves
<1> QED
  BY <1>9, <1>10, <1>12, <1>16, <1>17, <1>18, <1>19 DEF DetailInv

\* What is left of the requests when one is answered.
AllBut(c) == calls \ {c}
Again == [op |-> "reload", answer |-> Pending]
Restarts(c) == c.op \in {"stage", "deleteStage"} /\ c.answer # Denied

\* The page is there and one of its requests is answered: what the page does.
LEMMA TakeIs ==
  ASSUME DetailInv, NEW c \in calls, c.answer # Pending, Take(c)
  PROVE  LET kept == flags \ {FlagOf(c.op)}
             r == c.answer.record
         IN  \/ /\ c.op \in {"load", "reload"} /\ UNCHANGED <<left, acked>>
                /\ flags' = IF c.op = "load" THEN flags ELSE kept
                /\ \/ c.answer = Denied /\ record' = record /\ problem' = TRUE
                   \/ BringsRecord(c) /\ record' = r /\ problem' = FALSE
             \/ /\ c.op = "assign" /\ flags' = kept
                /\ UNCHANGED <<record, problem, left, acked>>
             \/ /\ c.op \notin {"load", "reload", "assign"} /\ c.answer = Denied
                /\ flags' = kept /\ problem' = TRUE /\ UNCHANGED <<record, left, acked>>
             \/ /\ c.op = "delete" /\ BringsRecord(c)
                /\ left' = TRUE /\ UNCHANGED <<record, problem, flags, acked>>
             \/ /\ c.op \in {"stage", "deleteStage"} /\ BringsRecord(c)
                /\ acked' = IF r.version > acked THEN r.version ELSE acked
                /\ UNCHANGED <<record, problem, flags, left>>
             \/ /\ c.op \in {"update", "convert"} /\ BringsRecord(c)
                /\ record' = r /\ problem' = FALSE /\ flags' = kept
                /\ acked' = IF r.version > acked THEN r.version ELSE acked
                /\ UNCHANGED left
<1>1. c.op \in Ops /\ (c.answer = Denied \/ BringsRecord(c)) /\ ~(c.answer = Denied /\ BringsRecord(c))
  BY CallFields, AnswerShapes DEF DetailInv, BringsRecord
<1>2. c.op \notin {"load", "reload"} => detail.ops[c.op] = FlagOf(c.op)
  BY DetailOps, RecordFields DEF DetailInv, CallsHoldFlags
<1>3. FlagOf("reload") = "isSaving"
  BY DEF FlagOf
<1>4. CASE c.op = "load"
  BY <1>1, <1>4 DEF Take, Shows
<1>5. CASE c.op = "reload"
  BY <1>1, <1>3, <1>5 DEF Take, Shows
<1>6. CASE c.op = "assign"
  BY <1>1, <1>2, <1>6 DEF Take, Ends
<1>7. CASE c.op \notin {"load", "reload", "assign"} /\ c.answer = Denied
  BY <1>1, <1>2, <1>7 DEF Take, Ends
<1>8. CASE c.op = "delete" /\ BringsRecord(c)
  BY <1>1, <1>8 DEF Take
<1>9. CASE c.op \in {"stage", "deleteStage"} /\ BringsRecord(c)
  BY <1>1, <1>9 DEF Take, Told
<1>10. CASE c.op \in {"update", "convert"} /\ BringsRecord(c)
  BY <1>1, <1>2, <1>10 DEF Take, Shows, Ends, Told
<1> QED
  BY <1>1, <1>4, <1>5, <1>6, <1>7, <1>8, <1>9, <1>10 DEF Ops

LEMMA ReceiveCallIs ==
  ASSUME DetailInv, NEW op \in Ops, ReceiveCall(op)
  PROVE  \E c \in calls :
            /\ c.op = op /\ c.answer # Pending
            /\ calls' = AllBut(c) \cup (IF Restarts(c) THEN {Again} ELSE {})
            /\ \/ left /\ UNCHANGED <<record, problem, flags, open, left, acked>>
               \/ ~left /\ Take(c)
            /\ UNCHANGED <<detail, stored, overlapped>>
<1>1. PICK c \in calls :
         /\ c.op = op /\ c.answer # Pending
         /\ calls' = (calls \ {c}) \cup
                {[op |-> "reload", answer |-> Pending] :
                    x \in {y \in {c} : op \in {"stage", "deleteStage"} /\ y.answer # Denied}}
         /\ IF left THEN UNCHANGED <<record, problem, flags, open, left, acked>> ELSE Take(c)
  BY DEF ReceiveCall
<1>2. {[op |-> "reload", answer |-> Pending] :
                    x \in {y \in {c} : op \in {"stage", "deleteStage"} /\ y.answer # Denied}}
        = IF Restarts(c) THEN {Again} ELSE {}
  BY <1>1 DEF Restarts, Again
<1> QED
  BY <1>1, <1>2 DEF ReceiveCall, AllBut

LEMMA TakeKeepsOpen ==
  ASSUME DetailInv, NEW c \in calls, Take(c)
  PROVE  open' \subseteq {"edit", "convert", "addStage", "editStage"}
<1>1. open' \subseteq open
  BY DEF Take
<1> QED
  BY <1>1 DEF DetailInv, DetailTypeOK

\* A step that takes answered request c away and, after a stage's save, loads again.
LEMMA ReceiveInv ==
  ASSUME DetailInv, NEW op \in Ops, ReceiveCall(op)
  PROVE  DetailInv'
<1>1. PICK c \in calls :
            /\ c.op = op /\ c.answer # Pending
            /\ calls' = AllBut(c) \cup (IF Restarts(c) THEN {Again} ELSE {})
            /\ \/ left /\ UNCHANGED <<record, problem, flags, open, left, acked>>
               \/ ~left /\ Take(c)
            /\ UNCHANGED <<detail, stored, overlapped>>
  BY ReceiveCallIs
<1>2. /\ c.op \in Ops
      /\ c.answer = Denied \/ BringsRecord(c)
      /\ ~(c.answer = Denied /\ BringsRecord(c))
      /\ BringsRecord(c) => c.answer.record \in Records /\ c.answer.record.version \in 0 .. MaxVersion
      /\ Restarts(c) <=> c.op \in {"stage", "deleteStage"} /\ BringsRecord(c)
  BY <1>1, CallFields, AnswerShapes DEF DetailInv, BringsRecord, Restarts, Records
<1>3. Again.op = "reload" /\ Again.answer = Pending /\ ~BringsRecord(Again)
      /\ Again \in [op : Ops, answer : {Pending, Denied} \cup [state : {"got"}, record : Records]]
  BY AnswerShapes DEF Again, BringsRecord, Ops
<1>4. FlagOf("reload") = "isSaving" /\ FlagOf("stage") = "isSaving" /\ FlagOf("deleteStage") = "isSaving"
  BY DEF FlagOf
<1>5. \A e \in calls' : e \in AllBut(c) \/ (Restarts(c) /\ e = Again)
  BY <1>1
<1>6. \A e \in AllBut(c) : e \in calls /\ e # c
  BY DEF AllBut
<1>7. OneSaveAtATime' <=> OneSaveAtATime
  BY <1>1 DEF OneSaveAtATime
<1>8. /\ record \in Records /\ record.version \in Nat /\ acked \in 0 .. MaxVersion /\ flags \subseteq Flags
      /\ problem \in BOOLEAN /\ left \in BOOLEAN
  BY RecordFields DEF DetailInv, DetailTypeOK, Records
\* What the page does, and what that says of its own state.
<1>9. /\ record' \in Records /\ acked' \in 0 .. MaxVersion /\ flags' \subseteq Flags
      /\ problem' \in BOOLEAN /\ left' \in BOOLEAN
      /\ open' \subseteq {"edit", "convert", "addStage", "editStage"}
      /\ left => left'
      /\ flags \ {FlagOf(c.op)} \subseteq flags'
      /\ Restarts(c) => flags' = flags
      /\ record' = record \/ (BringsRecord(c) /\ record' = c.answer.record /\ c.op # "delete")
      /\ acked' = acked
         \/ (BringsRecord(c) /\ acked' = c.answer.record.version /\ c.op # "delete")
  <2>1. CASE left
    <3>1. UNCHANGED <<record, problem, flags, open, left, acked>>
      BY <1>1, <2>1
    <3>2. open \subseteq {"edit", "convert", "addStage", "editStage"}
      BY DEF DetailInv, DetailTypeOK
    <3> QED
      BY <1>8, <3>1, <3>2
  <2>2. CASE ~left
    <3>1. Take(c)
      BY <1>1, <2>2
    <3>2. open' \subseteq {"edit", "convert", "addStage", "editStage"}
      BY <3>1, TakeKeepsOpen
    <3>3. /\ record' \in Records /\ acked' \in 0 .. MaxVersion
          /\ record' = record \/ (BringsRecord(c) /\ record' = c.answer.record /\ c.op # "delete")
          /\ acked' = acked
             \/ (BringsRecord(c) /\ acked' = c.answer.record.version /\ c.op # "delete")
      BY <1>1, <1>2, <1>8, <3>1, TakeIs
    <3>4. /\ flags' \subseteq Flags
          /\ flags \ {FlagOf(c.op)} \subseteq flags'
          /\ Restarts(c) => flags' = flags
      BY <1>1, <1>2, <1>8, <3>1, TakeIs
    <3>5. problem' \in BOOLEAN /\ left' \in BOOLEAN
      BY <1>1, <1>8, <3>1, TakeIs
    <3> QED
      BY <2>2, <3>2, <3>3, <3>4, <3>5
  <2> QED
    BY <2>1, <2>2
<1>10. DetailTypeOK'
  BY <1>1, <1>3, <1>5, <1>6, <1>9 DEF DetailInv, DetailTypeOK
<1>11. \A e \in AllBut(c) : e.op # "load"
  BY DEF AllBut, DetailInv, CallsHoldFlags
<1>12. \A e \in AllBut(c) : c.op # "load" => FlagOf(e.op) # FlagOf(c.op)
  BY <1>6, <1>11 DEF DetailInv, CallsHoldFlags
<1>13. CallsHoldFlags'
  <2>1. (\A e \in calls : e.op \in DOMAIN detail.ops \cup {"load", "reload"})'
    BY <1>1, <1>3, <1>5, <1>6 DEF DetailInv, CallsHoldFlags
  <2>2. (~left => \A e \in calls : e.op # "load" => FlagOf(e.op) \in flags)'
    <3> SUFFICES ASSUME ~left', NEW e \in calls' PROVE FlagOf(e.op) \in flags'
      OBVIOUS
    <3>1. ~left
      BY <1>9
    <3>2. CASE e \in AllBut(c)
      <4>1. FlagOf(e.op) \in flags
        BY <1>6, <1>11, <3>1, <3>2 DEF DetailInv, CallsHoldFlags
      <4>2. c.op # "load"
        BY <1>6, <3>2 DEF DetailInv, CallsHoldFlags
      <4> QED
        BY <1>9, <1>12, <3>2, <4>1, <4>2
    <3>3. CASE Restarts(c) /\ e = Again
      <4>1. FlagOf(c.op) \in flags /\ FlagOf(c.op) = "isSaving"
        BY <1>2, <1>4, <3>1, <3>3 DEF DetailInv, CallsHoldFlags
      <4> QED
        BY <1>3, <1>4, <1>9, <3>3, <4>1
    <3> QED
      BY <1>5, <3>2, <3>3
  <2>3. (\A e, f \in calls :
           e.op # "load" /\ f.op # "load" /\ FlagOf(e.op) = FlagOf(f.op) => e = f)'
    <3>1. ASSUME NEW e \in AllBut(c), Restarts(c) PROVE FlagOf(e.op) # FlagOf("reload")
      BY <1>2, <1>4, <1>12, <3>1
    <3> QED
      BY <1>3, <1>5, <1>6, <3>1 DEF DetailInv, CallsHoldFlags
  <2>4. (\A e \in calls : e.op = "load" => calls = {e} /\ record = NoRecord)'
    BY <1>3, <1>5, <1>11
  <2> QED
    BY <2>1, <2>2, <2>3, <2>4 DEF CallsHoldFlags
<1>14. OneCall'
  BY <1>2, <1>3, <1>5, <1>6, <1>7 DEF DetailInv, OneCall
<1>15. StoredIsNewest'
  BY <1>1, <1>3, <1>5, <1>6, <1>9 DEF DetailInv, StoredIsNewest, BringsRecord
<1>16. OneSaveAtATime /\ c.op # "delete" => \A e \in AllBut(c) : e.op = "delete"
  BY <1>6 DEF DetailInv, OneCall
<1>17. AnswersAreNewer'
  BY <1>3, <1>5, <1>6, <1>7, <1>9, <1>16 DEF DetailInv, AnswersAreNewer, BringsRecord
<1>18. OneSaveAtATime /\ BringsRecord(c) /\ c.op # "delete" =>
         c.answer.record.version >= record.version /\ c.answer.record.version >= acked
  BY DEF DetailInv, AnswersAreNewer
<1>19. BehindOnlyToReload' /\ ShowsOwnSaves'
  <2>1. CASE left
    <3>1. left' /\ UNCHANGED <<record, problem, flags, acked>>
      BY <1>1, <1>9, <2>1
    <3> QED
      BY <1>7, <3>1 DEF DetailInv, BehindOnlyToReload, ShowsOwnSaves
  <2>2. CASE ~left /\ OneSaveAtATime
    <3>1. CASE c.op \in {"load", "reload"} /\ UNCHANGED <<left, acked>>
               /\ (\/ c.answer = Denied /\ record' = record /\ problem' = TRUE
                   \/ BringsRecord(c) /\ record' = c.answer.record /\ problem' = FALSE)
      BY <1>2, <1>8, <1>18, <2>2, <3>1 DEF BehindOnlyToReload, ShowsOwnSaves
    <3>2. CASE c.op = "assign" /\ UNCHANGED <<record, problem, left, acked>>
      <4>1. \A e \in calls : e.op # "reload"
        BY <1>6, <1>16, <2>2, <3>2 DEF AllBut
      <4>2. problem \/ record.version >= acked
        BY <1>8, <2>2, <4>1 DEF DetailInv, BehindOnlyToReload
      <4> QED
        BY <1>8, <3>2, <4>2 DEF BehindOnlyToReload, ShowsOwnSaves
    <3>3. CASE problem' = TRUE
      BY <3>3 DEF BehindOnlyToReload, ShowsOwnSaves
    <3>4. CASE left' /\ UNCHANGED <<record, problem, flags, acked>>
      BY <1>7, <3>4 DEF DetailInv, BehindOnlyToReload, ShowsOwnSaves
    <3>5. CASE c.op \in {"stage", "deleteStage"} /\ BringsRecord(c)
               /\ UNCHANGED <<record, problem, flags, left>>
      <4>1. Again \in calls'
        BY <1>1, <1>2, <3>5
      <4>2. "isSaving" \in flags'
        BY <1>4, <2>2, <3>5 DEF DetailInv, CallsHoldFlags
      <4> QED
        BY <1>3, <4>1, <4>2 DEF BehindOnlyToReload, ShowsOwnSaves
    <3>6. CASE /\ c.op \in {"update", "convert"} /\ BringsRecord(c)
               /\ record' = c.answer.record
               /\ acked' = IF c.answer.record.version > acked THEN c.answer.record.version ELSE acked
      BY <1>2, <1>8, <1>18, <2>2, <3>6 DEF BehindOnlyToReload, ShowsOwnSaves
    <3> QED
      BY <1>1, <2>2, <3>1, <3>2, <3>3, <3>4, <3>5, <3>6, TakeIs
  <2>3. CASE ~OneSaveAtATime
    BY <1>7, <2>3 DEF BehindOnlyToReload, ShowsOwnSaves
  <2> QED
    BY <2>1, <2>2, <2>3
<1> QED
  BY <1>10, <1>13, <1>14, <1>15, <1>17, <1>19 DEF DetailInv

LEMMA DetailInductive == DetailInv /\ [DetailNext]_detailVars => DetailInv'
<1> SUFFICES ASSUME DetailInv, [DetailNext]_detailVars PROVE DetailInv'
  OBVIOUS
<1>1. CASE ToggleForm
  BY <1>1, ToggleFormInv
<1>2. CASE Submit
  BY <1>2, SubmitInv
<1>3. CASE OthersEdit
  BY <1>3, OthersEditInv
<1>4. ASSUME NEW op \in Ops, ServeCall(op) PROVE DetailInv'
  BY <1>4, ServeCallInv
<1>5. ASSUME NEW op \in Ops, ReceiveCall(op) PROVE DetailInv'
  BY <1>5, ReceiveInv
<1>6. CASE UNCHANGED detailVars
  BY <1>6, DetailFormsInv DEF detailVars, DetailInv, DetailTypeOK
<1> QED
  BY <1>1, <1>2, <1>3, <1>4, <1>5, <1>6 DEF DetailNext

\* What a step shows is not older than what was shown.
LEMMA DetailForward ==
  ASSUME DetailInv, [DetailNext]_detailVars, OneSaveAtATime
  PROVE  record'.version >= record.version
<1>1. record.version \in Nat
  BY RecordFields DEF DetailInv
<1>2. CASE record' = record
  BY <1>1, <1>2
<1>3. ASSUME NEW op \in Ops, ReceiveCall(op), record' # record
      PROVE  record'.version >= record.version
  <2>1. PICK c \in calls : c.answer # Pending /\ Take(c)
    BY <1>3, ReceiveCallIs
  <2>2. BringsRecord(c) /\ record' = c.answer.record /\ c.op # "delete"
    BY <1>3, <2>1, TakeIs
  <2> QED
    BY <2>2 DEF DetailInv, AnswersAreNewer
<1> QED
  BY <1>2, <1>3 DEF DetailNext, detailVars, ToggleForm, Submit, OthersEdit, ServeCall

\* The invariant the theorems rest on: which flag each request holds, what it may
\* bring, and when the page may be behind its own saves.
THEOREM DetailInvariant == DetailSpec => []DetailInv
  BY DetailInitial, DetailInductive, PTL DEF DetailSpec

\* Type correctness of a record page.
THEOREM DetailTypes == DetailSpec => []DetailTypeOK
  BY DetailInvariant, PTL DEF DetailInv

\* A record page that is idle and shows no error shows every change it was told it
\* made, for any version bound and any of the nine pages.
THEOREM DetailShowsOwnSaves == DetailSpec => []ShowsOwnSaves
  BY DetailInvariant, PTL DEF DetailInv

\* The record on the page never goes back to a version before the one shown.
THEOREM DetailNeverGoesBack == DetailSpec => ShownNeverGoesBack
<1>1. DetailInv /\ [DetailNext]_detailVars =>
        [OneSaveAtATime => record'.version >= record.version]_detailVars
  BY DetailForward
<1> QED
  BY <1>1, DetailInvariant, PTL DEF DetailSpec, ShownNeverGoesBack

\* Leads, deals and activities apart, no form sends a reference it does not offer.
LEMMA FormsWithoutNulls ==
  ASSUME Details \cap {LeadDetail, DealDetail, ActivityDetail} = {}
  PROVE  \A d \in Details : d.form.nulls = {}
<1>1. \A f, more : Detail(f, more).form = f
  BY DEF Detail
<1>2. \A f \in {ContactForm, CompanyForm, TaskForm, NoteForm, TagForm, PipelineForm} : f.nulls = {}
  BY DEF ContactForm, CompanyForm, TaskForm, NoteForm, TagForm, PipelineForm, Form
<1>3. \A d \in {ContactDetail, CompanyDetail, TaskDetail, NoteDetail, TagDetail, PipelineDetail} :
          d.form.nulls = {}
  BY <1>1, <1>2 DEF ContactDetail, CompanyDetail, TaskDetail, NoteDetail, TagDetail, PipelineDetail
<1> QED
  BY <1>3, DetailAssumption DEF AllDetails

\* On the pages of companies, contacts, tasks, notes, tags and pipelines an edit
\* keeps the references its form does not offer, whatever requests cross or are
\* lost: what the code breaks for leads, deals and activities is their forms' doing.
THEOREM OtherFormsKeepLinks ==
  ASSUME Details \cap {LeadDetail, DealDetail, ActivityDetail} = {}
  PROVE  DetailSpec => EditKeepsLinks
<1>1. DetailTypeOK /\ [DetailNext]_detailVars =>
        [stored' # NoRecord => stored.links \ detail.form.chosen \subseteq stored'.links]_detailVars
  <2> SUFFICES ASSUME DetailTypeOK, DetailNext, stored' # NoRecord
               PROVE  stored.links \ detail.form.chosen \subseteq stored'.links
    OBVIOUS
  <2>1. detail.form.nulls = {}
    BY FormsWithoutNulls DEF DetailTypeOK
  <2>2. \A links : Newer(links).links = links
    BY DEF Newer
  <2>3. ASSUME NEW op, NEW r \in Written(op), r # NoRecord
        PROVE  stored.links \ detail.form.chosen \subseteq r.links
    <3>1. CASE op = "update"
      <4>1. PICK c \in SUBSET detail.form.chosen :
              r = Newer((stored.links \ (detail.form.chosen \cup detail.form.nulls)) \cup c)
        BY <2>3, <3>1 DEF Written
      <4> QED
        BY <2>1, <2>2, <4>1
    <3>2. CASE op # "update"
      BY <2>2, <2>3, <3>2 DEF Written
    <3> QED
      BY <3>1, <3>2
  <2>4. CASE OthersEdit
    BY <2>2, <2>4 DEF OthersEdit
  <2>5. ASSUME NEW op, ServeCall(op)
        PROVE  stored.links \ detail.form.chosen \subseteq stored'.links
    <3>1. stored' = stored \/ stored' \in Written(op)
      BY <2>5 DEF ServeCall
    <3> QED
      BY <2>3, <3>1
  <2>6. CASE UNCHANGED stored
    BY <2>6
  <2> QED
    BY <2>4, <2>5, <2>6 DEF DetailNext, ToggleForm, Submit, ReceiveCall
<1>2. DetailSpec => []DetailTypeOK
  BY DetailTypes
<1> QED
  BY <1>1, <1>2, PTL DEF DetailSpec, EditKeepsLinks

HIDE DetailAssumption

-----------------------------------------------------------------------------
(* The inbox: the rows it shows as unread and the rows it has selected.    *)

USE InboxAssumption

\* The loads in flight: one a run, the last one while the list is busy.
LoadsShape ==
    /\ viewRun \in Nat
    /\ \A l \in viewLoads : DOMAIN l = {"run", "view", "answer"} /\ l.run \in Nat /\ l.run <= viewRun
    /\ \A l, k \in viewLoads : l.run = k.run => l = k
    /\ \A l \in viewLoads : l.run = viewRun => viewBusy

\* What an answer said is read is read, and stays so.
ToldIsRead ==
    /\ notice \in [Notices -> {"unborn", "unread", "read"}]
    /\ \A n \in toldRead : n \in Notices /\ notice[n] = "read"
    /\ \A m \in marks :
          /\ DOMAIN m = {"kind", "ids", "view", "answer", "shown"}
          /\ m.ids \subseteq Notices
          /\ m.answer \notin {NoAnswer, Failed} =>
               \A n \in m.answer.ids : n \in Notices /\ notice[n] = "read"

\* Unless the view changed meanwhile, a mark under way was sent from this view, so
\* that its answer starts a new run.
MarksAreOfThisView == ~turned => \A m \in marks : m.view = view

\* The last run brings no row as unread that an answer said is read.
LastRunIsNews ==
    ~turned => \A l \in viewLoads :
        l.run = viewRun /\ l.answer \notin {NoAnswer, Failed} =>
            \A n \in DOMAIN l.answer.unread : l.answer.unread[n] => n \notin toldRead

\* Rows are selected only from a list that is displayed.
SelectedAreShown ==
    ~blind => /\ AtRest => selected \subseteq UnreadShown
              /\ ~AtRest => selected = {}

InboxInv ==
    /\ LoadsShape /\ ToldIsRead /\ MarksAreOfThisView /\ LastRunIsNews
    /\ SelectedAreShown /\ ShowsOwnMarks

-----------------------------------------------------------------------------

LEMMA PageNowUnread ==
  ASSUME NEW v
  PROVE  /\ PageNow(v) # NoAnswer /\ PageNow(v) # Failed
         /\ \A n \in DOMAIN PageNow(v).unread : PageNow(v).unread[n] => notice[n] = "unread"
<1> DEFINE found == {i \in DOMAIN Newest : InState(Newest[i], v.read)}
           on == {Newest[i] : i \in {k \in found : Cardinality({j \in found : j <= k}) = v.page}}
           shown == [n \in on |-> notice[n] = "unread"]
           total == Cardinality(found)
<1>1. PageNow(v) = [state |-> "served", total |-> total, unread |-> shown]
  BY DEF PageNow
<1>2. \A n \in DOMAIN shown : shown[n] => notice[n] = "unread"
  OBVIOUS
<1> HIDE DEF found, on, shown, total
<1>3. PageNow(v).state = "served" /\ PageNow(v).unread = shown
  BY <1>1
<1>4. NoAnswer.state = "none" /\ Failed.state = "failed"
  BY DEF NoAnswer, Failed
<1> QED
  BY <1>2, <1>3, <1>4

LEMMA InboxInitial == InboxInit => InboxInv
<1> SUFFICES ASSUME InboxInit PROVE InboxInv
  OBVIOUS
<1>1. viewLoads = {[run |-> 1, view |-> view, answer |-> NoAnswer]}
  BY DEF InboxInit
<1>2. \A l \in viewLoads : DOMAIN l = {"run", "view", "answer"} /\ l.run = 1 /\ l.answer = NoAnswer
  BY <1>1
<1>3. LoadsShape
  BY <1>1, <1>2 DEF InboxInit, LoadsShape
<1>4. ToldIsRead
  <2>1. notice \in [Notices -> {"unborn", "unread", "read"}]
    BY DEF InboxInit
  <2> QED
    BY <2>1 DEF InboxInit, ToldIsRead
<1>5. MarksAreOfThisView /\ LastRunIsNews /\ SelectedAreShown /\ ShowsOwnMarks
  BY <1>2 DEF InboxInit, MarksAreOfThisView, LastRunIsNews, SelectedAreShown, ShowsOwnMarks
<1> QED
  BY <1>3, <1>4, <1>5 DEF InboxInv

\* A load that starts is the last one, and has no answer yet.
LEMMA LoadViewInv ==
  ASSUME InboxInv, NEW v, NEW pending, LoadView(v, pending), marks' = pending,
         pending \subseteq marks, ~blind => selected' = {}, ToldIsRead', blind' = blind
  PROVE  InboxInv'
<1> DEFINE new == [run |-> viewRun + 1, view |-> v, answer |-> NoAnswer]
<1>1. viewLoads' = viewLoads \cup {new}
  BY DEF LoadView
<1>2. DOMAIN new = {"run", "view", "answer"} /\ new.run = viewRun + 1 /\ new.answer = NoAnswer
  OBVIOUS
<1> HIDE DEF new
<1>3. /\ viewRun \in Nat /\ viewRun' = viewRun + 1
      /\ \A l \in viewLoads : l.run \in Nat /\ l.run <= viewRun
  BY DEF InboxInv, LoadsShape, LoadView
<1>4. LoadsShape'
  BY <1>1, <1>2, <1>3 DEF InboxInv, LoadsShape, LoadView
<1>5. \A l \in viewLoads' : l.run = viewRun' => l.answer = NoAnswer
  BY <1>1, <1>2, <1>3
<1>6. LastRunIsNews'
  BY <1>5 DEF LastRunIsNews, NoAnswer
<1>7. MarksAreOfThisView'
  BY DEF InboxInv, MarksAreOfThisView, LoadView
<1>8. SelectedAreShown' /\ ShowsOwnMarks'
  BY DEF SelectedAreShown, ShowsOwnMarks, AtRest, LoadView
<1> QED
  BY <1>4, <1>6, <1>7, <1>8 DEF InboxInv

LEMMA ServePageInv ==
  ASSUME InboxInv, ServePage
  PROVE  InboxInv'
<1>1. PICK l \in viewLoads, ok \in BOOLEAN :
        /\ l.answer = NoAnswer
        /\ viewLoads' = (viewLoads \ {l}) \cup
             {[l EXCEPT !.answer = IF ok THEN PageNow(l.view) ELSE Failed]}
  BY DEF ServePage
<1>2. PICK new : new = [l EXCEPT !.answer = IF ok THEN PageNow(l.view) ELSE Failed]
  OBVIOUS
<1>3. DOMAIN l = {"run", "view", "answer"}
  BY <1>1 DEF InboxInv, LoadsShape
<1>4. /\ DOMAIN new = DOMAIN l /\ new.run = l.run
      /\ new.answer = IF ok THEN PageNow(l.view) ELSE Failed
  BY <1>2, <1>3
<1>5. viewLoads' = (viewLoads \ {l}) \cup {new}
  BY <1>1, <1>2
<1>6. LoadsShape'
  BY <1>1, <1>4, <1>5 DEF InboxInv, LoadsShape, ServePage
<1>7. LastRunIsNews'
  <2> SUFFICES ASSUME ~turned, NEW k \in viewLoads', k.run = viewRun,
                      k.answer \notin {NoAnswer, Failed},
                      NEW n \in DOMAIN k.answer.unread, k.answer.unread[n]
               PROVE  n \notin toldRead
    BY DEF LastRunIsNews, ServePage
  <2>1. CASE k \in viewLoads
    BY <2>1 DEF InboxInv, LastRunIsNews
  <2>2. CASE k = new
    <3>1. k.answer = PageNow(l.view)
      BY <1>4, <2>2
    <3>2. notice[n] = "unread"
      BY <3>1, PageNowUnread
    <3> QED
      BY <3>2 DEF InboxInv, ToldIsRead
  <2> QED
    BY <1>5, <2>1, <2>2
<1>8. ToldIsRead' /\ MarksAreOfThisView' /\ SelectedAreShown' /\ ShowsOwnMarks'
  BY DEF ServePage, InboxInv, ToldIsRead, MarksAreOfThisView, SelectedAreShown, ShowsOwnMarks,
         AtRest, UnreadShown
<1> QED
  BY <1>6, <1>7, <1>8 DEF InboxInv

LEMMA PageArrivesInv ==
  ASSUME InboxInv, PageArrives
  PROVE  InboxInv'
<1>1. PICK l \in viewLoads :
        /\ l.answer # NoAnswer
        /\ viewLoads' = viewLoads \ {l}
        /\ IF l.run = viewRun
           THEN /\ viewBusy' = FALSE
                /\ viewError' = (l.answer = Failed)
                /\ items' = IF l.answer = Failed THEN items
                            ELSE [view |-> l.view, unread |-> l.answer.unread,
                                  total |-> l.answer.total]
           ELSE UNCHANGED <<viewBusy, viewError, items>>
  BY DEF PageArrives
<1>2. LoadsShape'
  BY <1>1 DEF InboxInv, LoadsShape, PageArrives
<1>3. ToldIsRead' /\ MarksAreOfThisView' /\ LastRunIsNews'
  BY <1>1 DEF InboxInv, ToldIsRead, MarksAreOfThisView, LastRunIsNews, PageArrives
<1>4. CASE l.run # viewRun
  <2>1. SelectedAreShown' /\ ShowsOwnMarks'
    BY <1>1, <1>4 DEF PageArrives, InboxInv, SelectedAreShown, ShowsOwnMarks, AtRest, UnreadShown
  <2> QED
    BY <1>2, <1>3, <2>1 DEF InboxInv
<1>5. CASE l.run = viewRun
  <2>1. viewBusy
    BY <1>5 DEF InboxInv, LoadsShape
  <2>2. ~blind => selected = {}
    BY <2>1 DEF InboxInv, SelectedAreShown, AtRest
  <2>3. SelectedAreShown'
    BY <2>2 DEF SelectedAreShown, PageArrives
  <2>4. ShowsOwnMarks'
    <3>1. CASE l.answer = Failed
      BY <1>1, <1>5, <3>1 DEF ShowsOwnMarks, AtRest
    <3>2. CASE l.answer # Failed
      <4>1. items'.unread = l.answer.unread
        BY <1>1, <1>5, <3>2
      <4>2. ~turned => \A n \in DOMAIN l.answer.unread : l.answer.unread[n] => n \notin toldRead
        BY <1>1, <1>5, <3>2 DEF InboxInv, LastRunIsNews
      <4> QED
        BY <4>1, <4>2 DEF ShowsOwnMarks, UnreadShown, PageArrives
    <3> QED
      BY <3>1, <3>2
  <2> QED
    BY <1>2, <1>3, <2>3, <2>4 DEF InboxInv
<1> QED
  BY <1>4, <1>5

LEMMA GoToInv ==
  ASSUME InboxInv, GoTo
  PROVE  InboxInv'
<1>1. PICK v : LoadView(v, marks)
  BY DEF GoTo
<1>2. ToldIsRead'
  BY DEF GoTo, InboxInv, ToldIsRead
<1> QED
  BY <1>1, <1>2, LoadViewInv DEF GoTo

LEMMA LoadAgainInv ==
  ASSUME InboxInv, LoadAgain
  PROVE  InboxInv'
<1>1. ToldIsRead'
  BY DEF LoadAgain, InboxInv, ToldIsRead
<1>2. ~blind => selected' = {}
  BY DEF LoadAgain, InboxInv, SelectedAreShown, AtRest
<1> QED
  BY <1>1, <1>2, LoadViewInv DEF LoadAgain

LEMMA SelectInv ==
  ASSUME InboxInv, Select
  PROVE  InboxInv'
<1>1. LoadsShape' /\ ToldIsRead' /\ MarksAreOfThisView' /\ LastRunIsNews' /\ ShowsOwnMarks'
  BY DEF Select, InboxInv, LoadsShape, ToldIsRead, MarksAreOfThisView, LastRunIsNews,
         ShowsOwnMarks, AtRest, UnreadShown
<1>2. UnreadShown' = UnreadShown
  BY DEF Select, UnreadShown
<1>3. SelectedAreShown'
  BY <1>2 DEF Select, InboxInv, SelectedAreShown, AtRest
<1> QED
  BY <1>1, <1>3 DEF InboxInv

LEMMA MarkInv ==
  ASSUME InboxInv, Mark
  PROVE  InboxInv'
<1>1. PICK k \in {"one", "selected", "all"}, ids \in SUBSET Notices :
        marks' = marks \cup {[kind |-> k, ids |-> ids, view |-> view, answer |-> NoAnswer,
                              shown |-> Cardinality(DOMAIN items.unread)]}
  BY DEF Mark
<1>2. PICK new : new = [kind |-> k, ids |-> ids, view |-> view, answer |-> NoAnswer,
                        shown |-> Cardinality(DOMAIN items.unread)]
  OBVIOUS
<1>3. /\ DOMAIN new = {"kind", "ids", "view", "answer", "shown"}
      /\ new.ids = ids /\ new.view = view /\ new.answer = NoAnswer
  BY <1>2
<1>4. marks' = marks \cup {new}
  BY <1>1, <1>2
<1>5. ToldIsRead' /\ MarksAreOfThisView'
  BY <1>3, <1>4 DEF Mark, InboxInv, ToldIsRead, MarksAreOfThisView
<1>6. LoadsShape' /\ LastRunIsNews' /\ SelectedAreShown' /\ ShowsOwnMarks'
  BY DEF Mark, InboxInv, LoadsShape, LastRunIsNews, SelectedAreShown, ShowsOwnMarks, AtRest,
         UnreadShown
<1> QED
  BY <1>5, <1>6 DEF InboxInv

LEMMA ServeMarkInv ==
  ASSUME InboxInv, ServeMark
  PROVE  InboxInv'
<1>1. PICK m, meant, a :
        /\ m \in marks /\ meant \in SUBSET Notices
        /\ \/ /\ notice' = [n \in Notices |-> IF n \in meant THEN "read" ELSE notice[n]]
              /\ a \in {Failed, [state |-> "marked", ids |-> meant]}
           \/ notice' = notice /\ a = Failed
        /\ marks' = (marks \ {m}) \cup {[m EXCEPT !.answer = a]}
  <2>1. PICK m \in marks :
          LET meant == IF m.kind = "all" THEN {n \in Notices : notice[n] = "unread"} ELSE m.ids
          IN  \/ /\ notice' = [n \in Notices |-> IF n \in meant THEN "read" ELSE notice[n]]
                 /\ \E a \in {Failed, [state |-> "marked", ids |-> meant]} :
                       marks' = (marks \ {m}) \cup {[m EXCEPT !.answer = a]}
              \/ /\ marks' = (marks \ {m}) \cup {[m EXCEPT !.answer = Failed]}
                 /\ UNCHANGED notice
    BY DEF ServeMark
  <2>2. m.ids \in SUBSET Notices
    BY DEF InboxInv, ToldIsRead
  <2>3. (IF m.kind = "all" THEN {n \in Notices : notice[n] = "unread"} ELSE m.ids) \in SUBSET Notices
    BY <2>2
  <2> QED
    BY <2>1, <2>3
<1>2. PICK new : new = [m EXCEPT !.answer = a]
  OBVIOUS
<1>3. /\ DOMAIN new = {"kind", "ids", "view", "answer", "shown"}
      /\ new.ids = m.ids /\ new.view = m.view /\ new.answer = a /\ m.ids \subseteq Notices
  <2>1. DOMAIN m = {"kind", "ids", "view", "answer", "shown"} /\ m.ids \subseteq Notices
    BY <1>1 DEF InboxInv, ToldIsRead
  <2> QED
    BY <1>2, <2>1
<1>4. marks' = (marks \ {m}) \cup {new}
  BY <1>1, <1>2
<1>5. a # Failed => a.ids = meant
  BY <1>1
<1>6. notice' \in [Notices -> {"unborn", "unread", "read"}]
  BY <1>1 DEF InboxInv, ToldIsRead
<1>7. \A n \in Notices : notice[n] = "read" => notice'[n] = "read"
  BY <1>1
<1>8. a # Failed => \A n \in a.ids : n \in Notices /\ notice'[n] = "read"
  BY <1>1, <1>5
<1>9. ToldIsRead'
  BY <1>3, <1>4, <1>6, <1>7, <1>8 DEF ServeMark, InboxInv, ToldIsRead
<1>10. MarksAreOfThisView'
  BY <1>3, <1>4 DEF ServeMark, InboxInv, MarksAreOfThisView
<1>11. LoadsShape' /\ LastRunIsNews' /\ SelectedAreShown' /\ ShowsOwnMarks'
  BY DEF ServeMark, InboxInv, LoadsShape, LastRunIsNews, SelectedAreShown, ShowsOwnMarks, AtRest,
         UnreadShown
<1> QED
  BY <1>9, <1>10, <1>11 DEF InboxInv

LEMMA MarkAnsweredInv ==
  ASSUME InboxInv, MarkAnswered
  PROVE  InboxInv'
<1>1. PICK m \in marks :
        /\ m.answer # NoAnswer
        /\ marks' = marks \ {m}
        /\ IF m.answer = Failed
           THEN UNCHANGED <<selected, asked, view, viewRun, viewLoads, viewBusy, turned, toldRead>>
           ELSE toldRead' = toldRead \cup m.answer.ids /\ Refresh(m)
  BY DEF MarkAnswered
<1>2. CASE m.answer = Failed
  BY <1>1, <1>2 DEF MarkAnswered, InboxInv, LoadsShape, ToldIsRead, MarksAreOfThisView,
                    LastRunIsNews, SelectedAreShown, ShowsOwnMarks, AtRest, UnreadShown
<1>3. CASE m.answer # Failed
  <2>1. ToldIsRead'
    BY <1>1, <1>3 DEF MarkAnswered, InboxInv, ToldIsRead
  <2>2. selected' = {} /\ blind' = blind
    BY <1>1, <1>3 DEF Refresh, MarkAnswered
  <2>3. CASE \E v : LoadView(v, marks \ {m})
    BY <1>1, <2>1, <2>2, <2>3, LoadViewInv
  <2>4. CASE NextPage(m) # m.view.page /\ NextPage(m) = view.page
    <3>1. UNCHANGED <<view, viewRun, viewLoads, viewBusy, turned>>
      BY <1>1, <1>3, <2>4 DEF Refresh
    <3>2. m.view # view
      BY <2>4
    <3>3. turned
      BY <3>2 DEF InboxInv, MarksAreOfThisView
    <3>4. LoadsShape' /\ MarksAreOfThisView' /\ LastRunIsNews' /\ SelectedAreShown' /\ ShowsOwnMarks'
      BY <2>2, <3>1, <3>3 DEF MarkAnswered, InboxInv, LoadsShape, MarksAreOfThisView,
           LastRunIsNews, SelectedAreShown, ShowsOwnMarks, AtRest, UnreadShown
    <3> QED
      BY <2>1, <3>4 DEF InboxInv
  <2> QED
    BY <1>1, <1>3, <2>3, <2>4 DEF Refresh
<1> QED
  BY <1>2, <1>3

LEMMA NoticeArrivesInv ==
  ASSUME InboxInv, NoticeArrives
  PROVE  InboxInv'
<1>1. PICK n \in Notices : notice[n] = "unborn" /\ notice' = [notice EXCEPT ![n] = "unread"]
  BY DEF NoticeArrives
<1>2. /\ notice' \in [Notices -> {"unborn", "unread", "read"}]
      /\ \A k \in Notices : notice[k] = "read" => notice'[k] = "read"
  BY <1>1 DEF InboxInv, ToldIsRead
<1>3. ToldIsRead'
  BY <1>2 DEF NoticeArrives, pageVars, InboxInv, ToldIsRead
<1>4. LoadsShape' /\ MarksAreOfThisView' /\ LastRunIsNews' /\ SelectedAreShown' /\ ShowsOwnMarks'
  BY DEF NoticeArrives, pageVars, InboxInv, LoadsShape, MarksAreOfThisView, LastRunIsNews,
         SelectedAreShown, ShowsOwnMarks, AtRest, UnreadShown
<1> QED
  BY <1>3, <1>4 DEF InboxInv

\* The bell and the inbox share only the notifications.
LEMMA BellInv ==
  ASSUME InboxInv, UNCHANGED <<notice, pageVars>>
  PROVE  InboxInv'
  BY DEF pageVars, InboxInv, LoadsShape, ToldIsRead, MarksAreOfThisView, LastRunIsNews,
         SelectedAreShown, ShowsOwnMarks, AtRest, UnreadShown

LEMMA InboxInductive == InboxInv /\ [InboxNext]_inboxVars => InboxInv'
<1> SUFFICES ASSUME InboxInv, [InboxNext]_inboxVars PROVE InboxInv'
  OBVIOUS
<1>1. CASE ServePage
  BY <1>1, ServePageInv
<1>2. CASE PageArrives
  BY <1>2, PageArrivesInv
<1>3. CASE GoTo
  BY <1>3, GoToInv
<1>4. CASE LoadAgain
  BY <1>4, LoadAgainInv
<1>5. CASE Select
  BY <1>5, SelectInv
<1>6. CASE Mark
  BY <1>6, MarkInv
<1>7. CASE ServeMark
  BY <1>7, ServeMarkInv
<1>8. CASE MarkAnswered
  BY <1>8, MarkAnsweredInv
<1>9. CASE NoticeArrives
  BY <1>9, NoticeArrivesInv
<1>10. CASE Poll \/ ServeCount \/ ShowOrHideTab \/ \E c \in Counts : CountArrives(c)
  BY <1>10, BellInv DEF Poll, ServeCount, ShowOrHideTab, CountArrives
<1>11. CASE UNCHANGED inboxVars
  BY <1>11, BellInv DEF inboxVars, pageVars
<1> QED
  BY <1>1, <1>2, <1>3, <1>4, <1>5, <1>6, <1>7, <1>8, <1>9, <1>10, <1>11 DEF InboxNext

\* The inbox keeps its invariant through every interleaving of loads, filters,
\* selections, marks, their answers and new notifications.
THEOREM InboxInvariant == InboxSpec => []InboxInv
  BY InboxInitial, InboxInductive, PTL DEF InboxSpec

\* A notification an answer of "mark read" said is read is not shown as unread
\* by a list at rest, unless the view changed while a mark was under way.
THEOREM InboxShowsOwnMarks == InboxSpec => []ShowsOwnMarks
<1>1. InboxInv => ShowsOwnMarks
  BY DEF InboxInv
<1> QED
  BY <1>1, InboxInvariant, PTL

\* "Mark selected read" marks rows shown as unread, unless they were selected
\* while the list was not displayed.
THEOREM InboxSelectsWhatIsShown == InboxSpec => []SelectsWhatIsShown
<1>1. InboxInv => SelectsWhatIsShown
  BY DEF InboxInv, SelectedAreShown, SelectsWhatIsShown
<1> QED
  BY <1>1, InboxInvariant, PTL

\* Marks under way leave room for the load each may end with.
RoomForMarks == IsFiniteSet(marks) /\ viewRun + Cardinality(marks) <= MaxInboxRuns

\* An answer on its way is a page of the notifications.
AnswersArePages ==
    \A l \in viewLoads : l.answer \notin {NoAnswer, Failed} =>
        DOMAIN l.answer.unread \subseteq Notices /\ l.answer.total \in 0..Len(Newest)

InboxTypeInv == InboxTypeOK /\ RoomForMarks /\ AnswersArePages

LEMMA NewestIsSequence ==
  /\ Len(Newest) \in Nat /\ DOMAIN Newest = 1..Len(Newest)
  /\ \A i \in DOMAIN Newest : Newest[i] \in Notices
  /\ IsFiniteSet(DOMAIN Newest) /\ Cardinality(DOMAIN Newest) = Len(Newest)
<1>1. Len(Newest) \in Nat /\ DOMAIN Newest = 1..Len(Newest)
  OBVIOUS
<1>2. \A i \in DOMAIN Newest : Newest[i] \in Notices
  BY DEF Notices
<1>3. /\ IsFiniteSet(1..Len(Newest))
      /\ Cardinality(1..Len(Newest)) = IF 1 > Len(Newest) THEN 0 ELSE Len(Newest) - 1 + 1
  BY <1>1, FS_Interval
<1> QED
  BY <1>1, <1>2, <1>3

LEMMA NoticesAreFinite == IsFiniteSet(Notices) /\ Cardinality(Notices) <= Len(Newest)
<1>1. Newest \in [DOMAIN Newest -> Notices]
  BY NewestIsSequence
<1>2. Newest \in Surjection(DOMAIN Newest, Notices)
  BY <1>1 DEF Surjection, Notices
<1>3. IsFiniteSet(Notices) /\ Cardinality(Notices) <= Cardinality(DOMAIN Newest)
  BY <1>2, NewestIsSequence, FS_Surjection
<1> QED
  BY <1>3, NewestIsSequence

LEMMA UnreadCountIsCount == {UnreadCount} \in Counts
<1> DEFINE unread == {n \in Notices : notice[n] = "unread"}
<1>1. unread \in SUBSET Notices
  OBVIOUS
<1>2. IsFiniteSet(unread) /\ Cardinality(unread) <= Cardinality(Notices)
  BY <1>1, NoticesAreFinite, FS_Subset
<1>3. Cardinality(unread) \in Nat /\ Cardinality(Notices) \in Nat
  BY <1>2, NoticesAreFinite, FS_CardinalityType
<1>4. Cardinality(unread) \in 0..Len(Newest)
  BY <1>2, <1>3, NoticesAreFinite, NewestIsSequence
<1> QED
  BY <1>4 DEF UnreadCount, Counts

\* A page of the notifications holds notifications, and counts no more than there are.
LEMMA PageNowTypes ==
  ASSUME NEW v
  PROVE  /\ DOMAIN PageNow(v).unread \subseteq Notices
         /\ PageNow(v).total \in 0..Len(Newest)
<1> DEFINE found == {i \in DOMAIN Newest : InState(Newest[i], v.read)}
           on == {Newest[i] : i \in {k \in found : Cardinality({j \in found : j <= k}) = v.page}}
           shown == [n \in on |-> notice[n] = "unread"]
           total == Cardinality(found)
<1>1. PageNow(v) = [state |-> "served", total |-> total, unread |-> shown]
  BY DEF PageNow
<1>2. on \subseteq Notices /\ DOMAIN shown = on
  BY DEF Notices
<1>3. total \in 0..Len(Newest)
  <2>1. found \in SUBSET DOMAIN Newest
    OBVIOUS
  <2> HIDE DEF found
  <2>2. IsFiniteSet(found) /\ Cardinality(found) <= Cardinality(DOMAIN Newest)
    BY <2>1, NewestIsSequence, FS_Subset
  <2>3. Cardinality(found) \in Nat
    BY <2>2, FS_CardinalityType
  <2> QED
    BY <2>2, <2>3, NewestIsSequence
<1> HIDE DEF found, on, shown, total
<1>4. PageNow(v).unread = shown /\ PageNow(v).total = total
  BY <1>1
<1> QED
  BY <1>2, <1>3, <1>4

LEMMA InboxTypesInitial == InboxInit => InboxTypeInv
<1> SUFFICES ASSUME InboxInit PROVE InboxTypeInv
  OBVIOUS
<1>1. view = [page |-> 1, read |-> "all"] /\ view \in Views
  BY DEF InboxInit, Views, ReadStates
<1>2. items = [view |-> view, unread |-> [n \in {} |-> TRUE], total |-> 0]
  BY DEF InboxInit
<1>3. items.view = view /\ DOMAIN items.unread = {} /\ items.total = 0
  BY <1>2
<1>4. viewLoads = {[run |-> 1, view |-> view, answer |-> NoAnswer]}
  BY DEF InboxInit
<1>5. \A l \in viewLoads : l.run = 1 /\ l.view = view /\ l.answer = NoAnswer
  BY <1>4
<1>6. Unknown \in Counts
  BY DEF Counts
<1>7. notice \in [Notices -> {"unborn", "unread", "read"}]
  BY DEF InboxInit
<1>8. InboxTypeOK
  <2>1. /\ viewRun = 1 /\ viewRun \in 1..MaxInboxRuns /\ asked \in 0..MaxCounts
        /\ items.total \in 0..Len(Newest)
    BY <1>3, NewestIsSequence DEF InboxInit
  <2>2. \A l \in viewLoads : l.run \in 1..viewRun /\ l.view \in Views
    BY <1>1, <1>5, <2>1
  <2>3. {viewBusy, viewError, turned, blind, visible} \subseteq BOOLEAN
    BY DEF InboxInit
  <2>4. /\ selected = {} /\ toldRead = {} /\ marks = {} /\ counted = {} /\ bell \in Counts
    BY <1>6 DEF InboxInit
  <2> QED
    BY <1>1, <1>3, <1>7, <2>1, <2>2, <2>3, <2>4 DEF InboxTypeOK
<1>9. RoomForMarks
  <2>1. marks = {} /\ viewRun = 1
    BY DEF InboxInit
  <2> QED
    BY <2>1, FS_EmptySet DEF RoomForMarks
<1> QED
  BY <1>5, <1>8, <1>9 DEF InboxTypeInv, AnswersArePages

\* A load starts within the bound.
LEMMA LoadViewTypes ==
  ASSUME InboxTypeInv, NEW v \in Views, NEW pending, LoadView(v, pending), IsFiniteSet(marks'),
         viewRun + 1 + Cardinality(marks') <= MaxInboxRuns
  PROVE  /\ view' \in Views /\ viewRun' \in 1..MaxInboxRuns /\ viewBusy' = TRUE
         /\ \A l \in viewLoads' : l.run \in 1..viewRun' /\ l.view \in Views
         /\ RoomForMarks' /\ AnswersArePages'
         /\ turned \in BOOLEAN /\ turned' \in BOOLEAN
<1>1. PICK new : new = [run |-> viewRun + 1, view |-> v, answer |-> NoAnswer]
  OBVIOUS
<1>2. new.run = viewRun + 1 /\ new.view = v /\ new.answer = NoAnswer
  BY <1>1
<1>3. viewLoads' = viewLoads \cup {new}
  BY <1>1 DEF LoadView
<1>4. Cardinality(marks') \in Nat
  BY FS_CardinalityType
<1>5. /\ viewRun \in 1..MaxInboxRuns /\ turned \in BOOLEAN
      /\ \A l \in viewLoads : l.run \in 1..viewRun /\ l.view \in Views
  BY DEF InboxTypeInv, InboxTypeOK
<1>6. viewRun' = viewRun + 1 /\ viewRun' \in 1..MaxInboxRuns
  BY <1>4, <1>5 DEF LoadView
<1>7. \A l \in viewLoads' : l.run \in 1..viewRun' /\ l.view \in Views
  BY <1>2, <1>3, <1>5, <1>6
<1>8. RoomForMarks'
  BY <1>6 DEF RoomForMarks
<1>9. AnswersArePages'
  BY <1>2, <1>3 DEF InboxTypeInv, AnswersArePages
<1> QED
  BY <1>5, <1>6, <1>7, <1>8, <1>9 DEF LoadView

LEMMA ServePageTypes ==
  ASSUME InboxInv, InboxTypeInv, ServePage
  PROVE  InboxTypeInv'
<1>1. PICK l \in viewLoads, ok \in BOOLEAN :
        viewLoads' = (viewLoads \ {l}) \cup
          {[l EXCEPT !.answer = IF ok THEN PageNow(l.view) ELSE Failed]}
  BY DEF ServePage
<1>2. PICK answered : answered = [l EXCEPT !.answer = IF ok THEN PageNow(l.view) ELSE Failed]
  OBVIOUS
<1>3. DOMAIN l = {"run", "view", "answer"}
  BY DEF InboxInv, LoadsShape
<1>4. /\ answered.run = l.run /\ answered.view = l.view
      /\ answered.answer = IF ok THEN PageNow(l.view) ELSE Failed
  BY <1>2, <1>3
<1>5. viewLoads' = (viewLoads \ {l}) \cup {answered}
  BY <1>1, <1>2
<1>6. \A k \in viewLoads' : k.run \in 1..viewRun /\ k.view \in Views
  BY <1>4, <1>5 DEF InboxTypeInv, InboxTypeOK
<1>7. AnswersArePages'
  BY <1>4, <1>5, PageNowTypes DEF InboxTypeInv, AnswersArePages
<1>8. InboxTypeOK' /\ RoomForMarks'
  BY <1>6 DEF ServePage, bellVars, InboxTypeInv, InboxTypeOK, RoomForMarks
<1> QED
  BY <1>7, <1>8 DEF InboxTypeInv

LEMMA PageArrivesTypes ==
  ASSUME InboxInv, InboxTypeInv, PageArrives
  PROVE  InboxTypeInv'
<1>1. PICK l \in viewLoads :
        /\ l.answer # NoAnswer
        /\ viewLoads' = viewLoads \ {l}
        /\ IF l.run = viewRun
           THEN /\ viewBusy' = FALSE
                /\ viewError' = (l.answer = Failed)
                /\ items' = IF l.answer = Failed THEN items
                            ELSE [view |-> l.view, unread |-> l.answer.unread,
                                  total |-> l.answer.total]
           ELSE UNCHANGED <<viewBusy, viewError, items>>
  BY DEF PageArrives
<1>2. items' = items \/ /\ items'.view = l.view /\ items'.unread = l.answer.unread
                        /\ items'.total = l.answer.total /\ l.answer # Failed
  BY <1>1
<1>3. /\ items'.view \in Views /\ DOMAIN items'.unread \subseteq Notices
      /\ items'.total \in 0..Len(Newest)
  BY <1>1, <1>2 DEF InboxTypeInv, InboxTypeOK, AnswersArePages
<1>4. {viewBusy', viewError', turned', blind', visible'} \subseteq BOOLEAN
  BY <1>1 DEF PageArrives, bellVars, InboxTypeInv, InboxTypeOK
<1>5. InboxTypeOK'
  BY <1>1, <1>3, <1>4 DEF PageArrives, bellVars, InboxTypeInv, InboxTypeOK
<1>6. RoomForMarks' /\ AnswersArePages'
  BY <1>1 DEF PageArrives, InboxTypeInv, RoomForMarks, AnswersArePages
<1> QED
  BY <1>5, <1>6 DEF InboxTypeInv

LEMMA GoToTypes ==
  ASSUME InboxTypeInv, GoTo
  PROVE  InboxTypeInv'
<1>1. PICK v : /\ LoadView(v, marks)
               /\ \/ \E r \in ReadStates : v = [page |-> 1, read |-> r]
                  \/ \E n \in 1..items.total : v = [view EXCEPT !.page = n]
  BY DEF GoTo
<1>2. view \in Views /\ items.total \in 0..Len(Newest)
  BY DEF InboxTypeInv, InboxTypeOK
<1>3. v \in Views
  <2>1. CASE \E r \in ReadStates : v = [page |-> 1, read |-> r]
    BY <2>1 DEF Views
  <2>2. CASE \E n \in 1..items.total : v = [view EXCEPT !.page = n]
    <3>1. \A n \in 1..items.total : n \in DOMAIN Newest
      BY <1>2, NewestIsSequence
    <3> QED
      BY <1>2, <2>2, <3>1 DEF Views
  <2> QED
    BY <1>1, <2>1, <2>2
<1>4. IsFiniteSet(marks) /\ Cardinality(marks) \in Nat /\ viewRun \in Nat /\ marks' = marks
  BY FS_CardinalityType DEF InboxTypeInv, RoomForMarks, InboxTypeOK, GoTo
<1>5. viewRun + 1 + Cardinality(marks') <= MaxInboxRuns
  BY <1>4 DEF GoTo, InboxRoom
<1>6. /\ view' \in Views /\ viewRun' \in 1..MaxInboxRuns /\ viewBusy' = TRUE
      /\ \A l \in viewLoads' : l.run \in 1..viewRun' /\ l.view \in Views
      /\ RoomForMarks' /\ AnswersArePages' /\ turned' \in BOOLEAN
  BY <1>1, <1>3, <1>4, <1>5, LoadViewTypes
<1>7. InboxTypeOK'
  BY <1>6 DEF GoTo, bellVars, InboxTypeInv, InboxTypeOK
<1> QED
  BY <1>6, <1>7 DEF InboxTypeInv

LEMMA LoadAgainTypes ==
  ASSUME InboxTypeInv, LoadAgain
  PROVE  InboxTypeInv'
<1>1. IsFiniteSet(marks) /\ Cardinality(marks) \in Nat /\ viewRun \in Nat /\ view \in Views
  BY FS_CardinalityType DEF InboxTypeInv, RoomForMarks, InboxTypeOK
<1>2. marks' = marks /\ viewRun + 1 + Cardinality(marks') <= MaxInboxRuns
  BY <1>1 DEF LoadAgain, InboxRoom
<1>3. /\ view' \in Views /\ viewRun' \in 1..MaxInboxRuns /\ viewBusy' = TRUE
      /\ \A l \in viewLoads' : l.run \in 1..viewRun' /\ l.view \in Views
      /\ RoomForMarks' /\ AnswersArePages' /\ turned' \in BOOLEAN
  BY <1>1, <1>2, LoadViewTypes DEF LoadAgain
<1>4. InboxTypeOK'
  BY <1>3 DEF LoadAgain, bellVars, InboxTypeInv, InboxTypeOK
<1> QED
  BY <1>3, <1>4 DEF InboxTypeInv

LEMMA SelectTypes ==
  ASSUME InboxTypeInv, Select
  PROVE  InboxTypeInv'
<1>1. UnreadShown \subseteq Notices
  BY DEF InboxTypeInv, InboxTypeOK, UnreadShown
<1>2. selected' \subseteq Notices
  BY <1>1 DEF Select, InboxTypeInv, InboxTypeOK
<1>3. {viewBusy', viewError', turned', blind', visible'} \subseteq BOOLEAN
  BY DEF Select, bellVars, InboxTypeInv, InboxTypeOK
<1>4. InboxTypeOK'
  BY <1>2, <1>3 DEF Select, bellVars, InboxTypeInv, InboxTypeOK
<1>5. RoomForMarks' /\ AnswersArePages'
  BY DEF Select, InboxTypeInv, RoomForMarks, AnswersArePages
<1> QED
  BY <1>4, <1>5 DEF InboxTypeInv

LEMMA MarkTypes ==
  ASSUME InboxTypeInv, Mark
  PROVE  InboxTypeInv'
<1>1. PICK k \in {"one", "selected", "all"}, ids \in SUBSET Notices :
        marks' = marks \cup {[kind |-> k, ids |-> ids, view |-> view, answer |-> NoAnswer,
                              shown |-> Cardinality(DOMAIN items.unread)]}
  BY DEF Mark
<1>2. PICK new : new = [kind |-> k, ids |-> ids, view |-> view, answer |-> NoAnswer,
                        shown |-> Cardinality(DOMAIN items.unread)]
  OBVIOUS
<1>3. marks' = marks \cup {new} /\ new.ids = ids /\ new.view = view
  BY <1>1, <1>2
<1>4. \A m \in marks' : m.ids \subseteq Notices /\ m.view \in Views
  BY <1>3 DEF InboxTypeInv, InboxTypeOK
<1>5. RoomForMarks'
  <2>1. viewRun' = viewRun /\ viewRun \in Nat /\ IsFiniteSet(marks)
        /\ viewRun + Cardinality(marks) + 1 < MaxInboxRuns
    BY DEF Mark, RoomToMark, InboxTypeInv, InboxTypeOK, RoomForMarks
  <2>2. /\ IsFiniteSet(marks') /\ Cardinality(marks') \in Nat /\ Cardinality(marks) \in Nat
        /\ Cardinality(marks') <= Cardinality(marks) + 1
    BY <1>3, <2>1, OneMoreOrLess
  <2> QED
    BY <2>1, <2>2 DEF RoomForMarks
<1>6. InboxTypeOK' /\ AnswersArePages'
  BY <1>4 DEF Mark, bellVars, InboxTypeInv, InboxTypeOK, AnswersArePages
<1> QED
  BY <1>5, <1>6 DEF InboxTypeInv

LEMMA ServeMarkTypes ==
  ASSUME InboxInv, InboxInv', InboxTypeInv, ServeMark
  PROVE  InboxTypeInv'
<1>1. PICK m, a : m \in marks /\ marks' = (marks \ {m}) \cup {[m EXCEPT !.answer = a]}
  BY DEF ServeMark
<1> m \in marks
  BY <1>1
<1>2. PICK new : new = [m EXCEPT !.answer = a]
  OBVIOUS
<1>3. DOMAIN m = {"kind", "ids", "view", "answer", "shown"}
  BY DEF InboxInv, ToldIsRead
<1>4. marks' = (marks \ {m}) \cup {new} /\ new.ids = m.ids /\ new.view = m.view
  BY <1>1, <1>2, <1>3
<1>5. \A k \in marks' : k.ids \subseteq Notices /\ k.view \in Views
  BY <1>4 DEF InboxTypeInv, InboxTypeOK
<1>6. RoomForMarks'
  <2>1. IsFiniteSet(marks) /\ viewRun' = viewRun /\ viewRun \in Nat
        /\ viewRun + Cardinality(marks) <= MaxInboxRuns
    BY DEF ServeMark, InboxTypeInv, InboxTypeOK, RoomForMarks
  <2> DEFINE others == marks \ {m}
  <2>2. /\ IsFiniteSet(others) /\ Cardinality(others) \in Nat /\ Cardinality(marks) \in Nat
        /\ Cardinality(others) + 1 = Cardinality(marks)
    BY <2>1, OneMoreOrLess
  <2> HIDE DEF others
  <2>3. /\ IsFiniteSet(others \cup {new})
        /\ Cardinality(others \cup {new}) = IF new \in others THEN Cardinality(others)
                                            ELSE Cardinality(others) + 1
    BY <2>2, FS_AddElement
  <2>4. marks' = others \cup {new}
    BY <1>4 DEF others
  <2> QED
    BY <2>1, <2>2, <2>3, <2>4 DEF RoomForMarks
<1>7. notice' \in [Notices -> {"unborn", "unread", "read"}]
  BY DEF InboxInv, ToldIsRead
<1>8. InboxTypeOK' /\ AnswersArePages'
  BY <1>5, <1>7 DEF ServeMark, bellVars, InboxTypeInv, InboxTypeOK, AnswersArePages
<1> QED
  BY <1>6, <1>8 DEF InboxTypeInv

\* A mark goes to a page that exists.
LEMMA NextPageExists ==
  ASSUME NEW m, m.view \in Views
  PROVE  NextPage(m) \in {1} \cup DOMAIN Newest
<1>1. m.view.page \in {1} \cup DOMAIN Newest
  BY DEF Views
<1>2. m.view.page > 1 => m.view.page - 1 \in DOMAIN Newest
  BY <1>1, NewestIsSequence
<1>3. \/ NextPage(m) = 1 \/ NextPage(m) = m.view.page
      \/ (m.view.page > 1 /\ NextPage(m) = m.view.page - 1)
  BY ZenonT(30) DEF NextPage
<1> QED
  BY <1>1, <1>2, <1>3

LEMMA RingTypes ==
  ASSUME asked \in 0..MaxCounts, Ring
  PROVE  asked' \in 0..MaxCounts
  BY DEF Ring

LEMMA MarkAnsweredTypes ==
  ASSUME InboxInv', InboxTypeInv, MarkAnswered
  PROVE  InboxTypeInv'
<1>1. PICK m \in marks :
        /\ marks' = marks \ {m}
        /\ IF m.answer = Failed
           THEN UNCHANGED <<selected, asked, view, viewRun, viewLoads, viewBusy, turned, toldRead>>
           ELSE toldRead' = toldRead \cup m.answer.ids /\ Refresh(m)
  BY DEF MarkAnswered
<1>2. UNCHANGED <<notice, items, viewError, blind, bell, counted, visible>>
  BY DEF MarkAnswered
<1>3. /\ IsFiniteSet(marks) /\ viewRun \in 1..MaxInboxRuns
      /\ viewRun + Cardinality(marks) <= MaxInboxRuns
  BY DEF InboxTypeInv, InboxTypeOK, RoomForMarks
<1>4. /\ IsFiniteSet(marks') /\ Cardinality(marks') \in Nat
      /\ Cardinality(marks') + 1 = Cardinality(marks)
  BY <1>1, <1>3, OneMoreOrLess
<1>5. viewRun + 1 + Cardinality(marks') <= MaxInboxRuns
  BY <1>3, <1>4
<1>6. toldRead' \subseteq Notices
  BY DEF InboxInv, ToldIsRead
<1>7. /\ selected' \subseteq Notices /\ asked' \in 0..MaxCounts
      /\ UNCHANGED <<view, viewRun, viewLoads, viewBusy, turned>>
         \/ \E v \in Views : LoadView(v, marks \ {m})
  <2>1. CASE m.answer = Failed
    BY <1>1, <2>1 DEF InboxTypeInv, InboxTypeOK
  <2>2. CASE m.answer # Failed
    <3>1. Refresh(m) /\ asked \in 0..MaxCounts /\ view \in Views /\ m.view \in Views
      BY <1>1, <2>2 DEF InboxTypeInv, InboxTypeOK
    <3>2. selected' = {} /\ asked' \in 0..MaxCounts
      BY <3>1, RingTypes DEF Refresh
    <3>3. [view EXCEPT !.page = NextPage(m)] \in Views
      BY <3>1, NextPageExists DEF Views
    <3> QED
      BY <3>1, <3>2, <3>3 DEF Refresh
  <2> QED
    BY <2>1, <2>2
<1>8. /\ view' \in Views /\ viewRun' \in 1..MaxInboxRuns
      /\ {viewBusy', viewError', turned', blind', visible'} \subseteq BOOLEAN
      /\ \A l \in viewLoads' : l.run \in 1..viewRun' /\ l.view \in Views
      /\ RoomForMarks' /\ AnswersArePages'
  <2>1. CASE UNCHANGED <<view, viewRun, viewLoads, viewBusy, turned>>
    BY <1>2, <1>3, <1>4, <2>1 DEF InboxTypeInv, InboxTypeOK, RoomForMarks, AnswersArePages
  <2>2. CASE \E v \in Views : LoadView(v, marks \ {m})
    <3>1. PICK v \in Views : LoadView(v, marks \ {m})
      BY <2>2
    <3>2. /\ view' \in Views /\ viewRun' \in 1..MaxInboxRuns /\ viewBusy' = TRUE
          /\ \A l \in viewLoads' : l.run \in 1..viewRun' /\ l.view \in Views
          /\ RoomForMarks' /\ AnswersArePages' /\ turned' \in BOOLEAN
      BY <1>4, <1>5, <3>1, LoadViewTypes
    <3> QED
      BY <1>2, <3>2 DEF InboxTypeInv, InboxTypeOK
  <2> QED
    BY <1>7, <2>1, <2>2
<1>9. InboxTypeOK'
  BY <1>1, <1>2, <1>6, <1>7, <1>8 DEF InboxTypeInv, InboxTypeOK
<1> QED
  BY <1>8, <1>9 DEF InboxTypeInv

LEMMA NoticeArrivesTypes ==
  ASSUME InboxInv', InboxTypeInv, NoticeArrives
  PROVE  InboxTypeInv'
<1>1. notice' \in [Notices -> {"unborn", "unread", "read"}]
  BY DEF InboxInv, ToldIsRead
<1> QED
  BY <1>1 DEF NoticeArrives, pageVars, bellVars, InboxTypeInv, InboxTypeOK, RoomForMarks, AnswersArePages

LEMMA BellTypes ==
  ASSUME InboxTypeInv, Poll \/ ServeCount \/ ShowOrHideTab \/ \E c \in Counts : CountArrives(c)
  PROVE  InboxTypeInv'
<1>1. /\ asked \in 0..MaxCounts /\ bell \in Counts /\ counted \subseteq Counts
      /\ visible \in BOOLEAN
  BY DEF InboxTypeInv, InboxTypeOK
<1>2. /\ UNCHANGED <<notice, pageVars>>
      /\ asked' \in 0..MaxCounts /\ bell' \in Counts /\ counted' \subseteq Counts
      /\ visible' \in BOOLEAN
  <2>1. CASE Poll
    BY <1>1, <2>1, RingTypes DEF Poll
  <2>2. CASE ServeCount
    <3>1. Unknown \in Counts
      BY DEF Counts
    <3>2. asked' \in 0..MaxCounts
      BY <1>1, <2>2 DEF ServeCount
    <3>3. counted' \subseteq Counts
      BY <1>1, <2>2, <3>1, UnreadCountIsCount DEF ServeCount
    <3> QED
      BY <1>1, <2>2, <3>2, <3>3 DEF ServeCount
  <2>3. CASE ShowOrHideTab
    BY <1>1, <2>3, RingTypes DEF ShowOrHideTab
  <2>4. CASE \E c \in Counts : CountArrives(c)
    BY <1>1, <2>4 DEF CountArrives
  <2> QED
    BY <2>1, <2>2, <2>3, <2>4
<1>3. {viewBusy', viewError', turned', blind', visible'} \subseteq BOOLEAN
  BY <1>2 DEF pageVars, InboxTypeInv, InboxTypeOK
<1>4. InboxTypeOK'
  BY <1>2, <1>3 DEF pageVars, InboxTypeInv, InboxTypeOK
<1>5. RoomForMarks' /\ AnswersArePages'
  BY <1>2 DEF pageVars, InboxTypeInv, RoomForMarks, AnswersArePages
<1> QED
  BY <1>4, <1>5 DEF InboxTypeInv

LEMMA InboxTypesInductive == InboxInv /\ InboxInv' /\ InboxTypeInv /\ [InboxNext]_inboxVars => InboxTypeInv'
<1> SUFFICES ASSUME InboxInv, InboxInv', InboxTypeInv, [InboxNext]_inboxVars PROVE InboxTypeInv'
  OBVIOUS
<1>1. CASE UNCHANGED inboxVars
  BY <1>1 DEF inboxVars, InboxTypeInv, InboxTypeOK, RoomForMarks, AnswersArePages
<1> QED
  BY <1>1, ServePageTypes, PageArrivesTypes, GoToTypes, LoadAgainTypes, SelectTypes, MarkTypes,
     ServeMarkTypes, MarkAnsweredTypes, NoticeArrivesTypes, BellTypes DEF InboxNext

\* Pages, selections, marks and counts keep their types, for any notifications: no
\* page beyond the last is asked for, and the bell counts what there can be.
THEOREM InboxTypes == InboxSpec => []InboxTypeOK
<1>1. InboxTypeInv => InboxTypeOK
  BY DEF InboxTypeInv
<1> QED
  BY <1>1, InboxTypesInitial, InboxTypesInductive, InboxInvariant, PTL DEF InboxSpec

HIDE InboxAssumption

-----------------------------------------------------------------------------
(* The board: moves that overlap nothing are kept or undone as a whole.    *)

USE BoardAssumption

\* Deals as shown, read or put aside that are not newer than the stored ones, nor
\* older than what answers told, and are the stored ones where they are as new.
Fresh(deals, rows, versions) ==
    \A d \in DOMAIN deals :
        /\ d \in BoardDeals
        /\ deals[d].version \in Nat /\ versions[d] <= deals[d].version
        /\ deals[d].version <= rows[d].version
        /\ deals[d].version = rows[d].version => deals[d] = rows[d]

\* The loads in flight: one a run, the last one while the board is busy.
BoardShape ==
    /\ chosen \in BoardPipeSet \cup {NotChosen}
    /\ DOMAIN board = {"pipeline", "deals"} /\ board.pipeline \in BoardPipeSet \cup {NotChosen}
    /\ DOMAIN board.deals \subseteq BoardDeals
    /\ boardRun \in Nat
    /\ \A l \in boardLoads :
          /\ DOMAIN l = {"run", "pipeline", "read", "clean"}
          /\ l.run \in Nat /\ l.run <= boardRun
          /\ l.pipeline \in BoardPipeSet \cup {NotChosen}
          /\ l.pipeline = NotChosen => DOMAIN l.read = {}
          /\ DOMAIN l.read \subseteq BoardDeals
          /\ l.run = boardRun => boardBusy
    /\ \A l, k \in boardLoads : l.run = k.run => l = k
    /\ \A m \in moves : /\ DOMAIN m = {"deal", "stage", "previous", "answer", "version"}
                        /\ m.deal \in BoardDeals /\ DOMAIN m.previous \subseteq BoardDeals
                        /\ m.answer \in {"none", "moved", "failed"}

\* What answers told, or are about to tell, is stored.
ToldIsStored ==
    /\ DOMAIN dealRow = BoardDeals /\ told \in [BoardDeals -> Nat]
    /\ \A d \in BoardDeals : dealRow[d].version \in Nat /\ told[d] <= dealRow[d].version
    /\ \A m \in moves : m.version \in Nat /\ m.version <= dealRow[m.deal].version

\* The last load, when no move was under way as it began, is alone and reads deals
\* that can be shown.
CleanLoadIsAlone ==
    \A l \in boardLoads : l.run = boardRun /\ l.clean => moves = {} /\ Fresh(l.read, dealRow, told)

\* The move under way on a board that is not disturbed: what it would come back to
\* can be shown, and what it leads to as well.
LoneMove(m) ==
    /\ Fresh(m.previous, dealRow, told)
    /\ DOMAIN m.previous = DOMAIN board.deals /\ m.deal \in DOMAIN board.deals
    /\ \A e \in DOMAIN board.deals \ {m.deal} : board.deals[e] = m.previous[e]
    /\ m.answer = "moved" =>
          /\ told[m.deal] <= m.version
          /\ m.version = dealRow[m.deal].version =>
                dealRow[m.deal] = [stage |-> m.stage, version |-> m.version]

Undisturbed ==
    ~disturbed =>
        /\ board.pipeline # NotChosen => DOMAIN board.deals = DealsOf(board.pipeline)
        /\ board.pipeline # NotChosen /\ moves = {} => Fresh(board.deals, dealRow, told)
        /\ moves # {} => ~boardBusy /\ board.pipeline # NotChosen
        /\ \A m, k \in moves : m = k
        /\ \A m \in moves : LoneMove(m)

BoardInv == BoardShape /\ ToldIsStored /\ CleanLoadIsAlone /\ Undisturbed

-----------------------------------------------------------------------------

LEMMA PipelineDeals ==
  /\ \A p \in BoardPipeSet : DealsOf(p) \subseteq BoardDeals
  /\ Head(BoardPipelines) \in BoardPipeSet
<1>1. \A p \in BoardPipeSet : DealsOf(p) \subseteq BoardDeals
  BY DEF BoardDeals
<1>2. Head(BoardPipelines) \in BoardPipeSet
  BY BoardAssumption
<1> QED
  BY <1>1, <1>2

LEMMA BoardInitial == BoardInit => BoardInv
<1> SUFFICES ASSUME BoardInit PROVE BoardInv
  OBVIOUS
<1>1. boardLoads = {[run |-> 1, pipeline |-> NotChosen, read |-> NoDeals, clean |-> TRUE]}
  BY DEF BoardInit
<1>2. \A l \in boardLoads :
        /\ DOMAIN l = {"run", "pipeline", "read", "clean"} /\ l.run = 1
        /\ l.pipeline = NotChosen /\ l.read = NoDeals
  BY <1>1
<1>3. DOMAIN NoDeals = {}
  BY DEF NoDeals
<1>4. board.pipeline = NotChosen /\ board.deals = NoDeals /\ DOMAIN board = {"pipeline", "deals"}
  BY DEF BoardInit
<1>5. BoardShape
  BY <1>1, <1>2, <1>3, <1>4 DEF BoardInit, BoardShape
<1>6. ToldIsStored
  <2>1. \A d \in BoardDeals : dealRow[d].version = 1
    BY DEF BoardInit
  <2>2. \A d \in BoardDeals : told[d] = 0
    BY DEF BoardInit
  <2>3. told \in [BoardDeals -> Nat] /\ DOMAIN dealRow = BoardDeals /\ moves = {}
    BY DEF BoardInit
  <2> QED
    BY <2>1, <2>2, <2>3 DEF ToldIsStored
<1>7. CleanLoadIsAlone /\ Undisturbed
  BY <1>2, <1>3, <1>4 DEF BoardInit, CleanLoadIsAlone, Undisturbed, Fresh
<1> QED
  BY <1>5, <1>6, <1>7 DEF BoardInv

\* A load that starts is the last one and has read nothing yet.
LEMMA BootstrapInv ==
  ASSUME BoardInv, NEW done, Bootstrap(done), chosen' \in BoardPipeSet \cup {NotChosen},
         UNCHANGED <<board, moves, dealRow, told>>,
         ~disturbed' => ~disturbed /\ moves = {}
  PROVE  BoardInv'
<1>1. PICK new : new = [run |-> boardRun + 1, pipeline |-> NotChosen, read |-> NoDeals,
                        clean |-> moves = {}]
  OBVIOUS
<1>2. /\ DOMAIN new = {"run", "pipeline", "read", "clean"} /\ new.run = boardRun + 1
      /\ new.pipeline = NotChosen /\ new.read = NoDeals /\ new.clean = (moves = {})
  BY <1>1
<1>3. boardLoads' = (boardLoads \ done) \cup {new} /\ boardRun' = boardRun + 1 /\ boardBusy'
  BY <1>1 DEF Bootstrap
<1>4. DOMAIN NoDeals = {}
  BY DEF NoDeals
<1>5. boardRun \in Nat /\ \A l \in boardLoads : l.run \in Nat /\ l.run <= boardRun
  BY DEF BoardInv, BoardShape
<1>6. BoardShape'
  BY <1>2, <1>3, <1>4, <1>5 DEF BoardInv, BoardShape
<1>7. CleanLoadIsAlone'
  <2>1. \A l \in boardLoads' : l.run = boardRun' => l = new
    BY <1>2, <1>3, <1>5
  <2>2. new.clean => moves' = {}
    BY <1>2
  <2> QED
    BY <1>2, <1>4, <2>1, <2>2 DEF CleanLoadIsAlone, Fresh
<1>8. ToldIsStored' /\ Undisturbed'
  BY DEF BoardInv, ToldIsStored, Undisturbed
<1> QED
  BY <1>6, <1>7, <1>8 DEF BoardInv

LEMMA PipelinesArriveInv ==
  ASSUME BoardInv, PipelinesArrive
  PROVE  BoardInv'
<1>1. PICK l \in boardLoads :
        /\ l.pipeline = NotChosen
        /\ \/ /\ l.run # boardRun
              /\ boardLoads' = boardLoads \ {l}
              /\ UNCHANGED <<chosen, boardBusy, boardRun>>
           \/ /\ l.run = boardRun /\ chosen = NotChosen
              /\ chosen' = Head(BoardPipelines)
              /\ Bootstrap({l})
           \/ /\ l.run = boardRun /\ chosen # NotChosen
              /\ boardLoads' = (boardLoads \ {l}) \cup {[l EXCEPT !.pipeline = chosen]}
              /\ UNCHANGED <<chosen, boardBusy, boardRun>>
  BY DEF PipelinesArrive
<1>2. UNCHANGED <<board, boardError, moves, dealRow, told, disturbed>>
  BY DEF PipelinesArrive
<1>3. ToldIsStored'
  BY <1>2 DEF BoardInv, ToldIsStored
<1>4. CASE boardLoads' = boardLoads \ {l} /\ UNCHANGED <<chosen, boardBusy, boardRun>>
  BY <1>2, <1>3, <1>4 DEF BoardInv, BoardShape, CleanLoadIsAlone, Undisturbed, LoneMove
<1>5. CASE l.run = boardRun /\ chosen' = Head(BoardPipelines) /\ Bootstrap({l})
  <2>1. boardBusy
    BY <1>5 DEF BoardInv, BoardShape
  <2>2. ~disturbed => moves = {}
    BY <2>1 DEF BoardInv, Undisturbed
  <2> QED
    BY <1>2, <1>5, <2>2, BootstrapInv, PipelineDeals
<1>6. CASE /\ l.run = boardRun
           /\ boardLoads' = (boardLoads \ {l}) \cup {[l EXCEPT !.pipeline = chosen]}
           /\ UNCHANGED <<chosen, boardBusy, boardRun>>
  <2>1. PICK new : new = [l EXCEPT !.pipeline = chosen]
    OBVIOUS
  <2>2. DOMAIN l = {"run", "pipeline", "read", "clean"} /\ DOMAIN l.read = {}
    BY <1>1 DEF BoardInv, BoardShape
  <2>3. /\ DOMAIN new = {"run", "pipeline", "read", "clean"} /\ new.run = l.run
        /\ new.pipeline = chosen /\ new.read = l.read /\ new.clean = l.clean
    BY <2>1, <2>2
  <2>4. boardLoads' = (boardLoads \ {l}) \cup {new}
    BY <1>6, <2>1
  <2>5. BoardShape'
    BY <1>2, <1>6, <2>2, <2>3, <2>4 DEF BoardInv, BoardShape
  <2>6. CleanLoadIsAlone'
    BY <1>2, <1>6, <2>3, <2>4 DEF BoardInv, CleanLoadIsAlone
  <2>7. Undisturbed'
    BY <1>2, <1>6 DEF BoardInv, Undisturbed, LoneMove
  <2> QED
    BY <1>3, <2>5, <2>6, <2>7 DEF BoardInv
<1> QED
  BY <1>1, <1>4, <1>5, <1>6

LEMMA ReadPageInv ==
  ASSUME BoardInv, ReadPage
  PROVE  BoardInv'
<1>1. PICK l \in {x \in boardLoads : x.pipeline # NotChosen /\ DOMAIN x.read # DealsOf(x.pipeline)} :
        \E i \in DOMAIN PagesOf[l.pipeline] :
           LET d == PagesOf[l.pipeline][i]
           IN  /\ d \notin DOMAIN l.read
               /\ \A j \in 1..(i - 1) : PagesOf[l.pipeline][j] \in DOMAIN l.read
               /\ boardLoads' = (boardLoads \ {l}) \cup
                    {[l EXCEPT !.read = [e \in DOMAIN l.read \cup {d} |->
                                            IF e = d THEN dealRow[d] ELSE l.read[e]]]}
  BY DEF ReadPage
<1>2. PICK d \in DealsOf(l.pipeline) :
        boardLoads' = (boardLoads \ {l}) \cup
          {[l EXCEPT !.read = [e \in DOMAIN l.read \cup {d} |->
                                  IF e = d THEN dealRow[d] ELSE l.read[e]]]}
  BY <1>1 DEF DealsOf
<1>3. UNCHANGED <<chosen, board, boardBusy, boardError, boardRun, moves, dealRow, told, disturbed>>
  BY DEF ReadPage
<1>4. DOMAIN l = {"run", "pipeline", "read", "clean"} /\ d \in BoardDeals
  BY <1>1, PipelineDeals DEF BoardInv, BoardShape
<1>5. PICK read : read = [e \in DOMAIN l.read \cup {d} |-> IF e = d THEN dealRow[d] ELSE l.read[e]]
  OBVIOUS
<1>6. PICK new : new = [l EXCEPT !.read = read]
  OBVIOUS
<1>7. /\ DOMAIN new = {"run", "pipeline", "read", "clean"} /\ new.run = l.run
      /\ new.pipeline = l.pipeline /\ new.read = read /\ new.clean = l.clean
  BY <1>4, <1>6
<1>8. boardLoads' = (boardLoads \ {l}) \cup {new}
  BY <1>2, <1>5, <1>6
<1>9. Fresh(l.read, dealRow, told) => Fresh(read, dealRow, told)
  BY <1>4, <1>5 DEF Fresh, BoardInv, ToldIsStored
<1>10. BoardShape'
  <2>1. DOMAIN read \subseteq BoardDeals
    BY <1>4, <1>5 DEF BoardInv, BoardShape
  <2> QED
    BY <1>1, <1>3, <1>7, <1>8, <2>1 DEF BoardInv, BoardShape
<1>11. CleanLoadIsAlone'
  BY <1>3, <1>7, <1>8, <1>9 DEF BoardInv, CleanLoadIsAlone
<1>12. ToldIsStored' /\ Undisturbed'
  BY <1>3 DEF BoardInv, ToldIsStored, Undisturbed, LoneMove
<1> QED
  BY <1>10, <1>11, <1>12 DEF BoardInv

LEMMA BoardArrivesInv ==
  ASSUME BoardInv, BoardArrives
  PROVE  BoardInv'
<1>1. PICK l \in boardLoads :
        /\ l.pipeline # NotChosen /\ DOMAIN l.read = DealsOf(l.pipeline)
        /\ boardLoads' = boardLoads \ {l}
        /\ IF l.run = boardRun
           THEN /\ board' = [pipeline |-> l.pipeline, deals |-> l.read]
                /\ boardError' = FALSE /\ boardBusy' = FALSE
                /\ disturbed' = ~l.clean
           ELSE UNCHANGED <<board, boardError, boardBusy, disturbed>>
  BY DEF BoardArrives
<1>2. UNCHANGED <<chosen, boardRun, moves, dealRow, told>>
  BY DEF BoardArrives
<1>3. ToldIsStored' /\ CleanLoadIsAlone'
  BY <1>1, <1>2 DEF BoardInv, ToldIsStored, CleanLoadIsAlone
<1>4. CASE l.run # boardRun
  BY <1>1, <1>2, <1>3, <1>4 DEF BoardInv, BoardShape, Undisturbed, LoneMove
<1>5. CASE l.run = boardRun
  <2>1. board' = [pipeline |-> l.pipeline, deals |-> l.read]
    BY <1>1, <1>5
  <2>2. /\ DOMAIN board' = {"pipeline", "deals"} /\ board'.pipeline = l.pipeline
        /\ board'.deals = l.read
    BY <2>1
  <2>3. BoardShape'
    BY <1>1, <1>2, <1>5, <2>2 DEF BoardInv, BoardShape
  <2>4. l.clean => moves = {} /\ Fresh(l.read, dealRow, told)
    BY <1>5 DEF BoardInv, CleanLoadIsAlone
  <2>5. Undisturbed'
    BY <1>1, <1>2, <1>5, <2>2, <2>4 DEF Undisturbed
  <2> QED
    BY <1>3, <2>3, <2>5 DEF BoardInv
<1> QED
  BY <1>4, <1>5

LEMMA BoardFailsInv ==
  ASSUME BoardInv, BoardFails
  PROVE  BoardInv'
<1>1. PICK l \in boardLoads :
        /\ boardLoads' = boardLoads \ {l}
        /\ IF l.run = boardRun THEN boardError' = TRUE /\ boardBusy' = FALSE
           ELSE UNCHANGED <<boardError, boardBusy>>
  BY DEF BoardFails
<1>2. UNCHANGED <<chosen, board, boardRun, moves, dealRow, told, disturbed>>
  BY DEF BoardFails
<1>3. BoardShape'
  BY <1>1, <1>2 DEF BoardInv, BoardShape
<1>4. ToldIsStored' /\ CleanLoadIsAlone' /\ Undisturbed'
  BY <1>1, <1>2 DEF BoardInv, ToldIsStored, CleanLoadIsAlone, Undisturbed, LoneMove
<1> QED
  BY <1>3, <1>4 DEF BoardInv

LEMMA ReloadInv ==
  ASSUME BoardInv, Reload
  PROVE  BoardInv'
<1>1. chosen' \in BoardPipeSet \cup {NotChosen}
  BY DEF Reload, BoardInv, BoardShape
<1> QED
  BY <1>1, BootstrapInv DEF Reload

LEMMA MoveDealInv ==
  ASSUME BoardInv, MoveDeal
  PROVE  BoardInv'
<1>1. PICK d \in DOMAIN board.deals, s \in ColumnsOf[board.pipeline] :
        /\ moves' = moves \cup {[deal |-> d, stage |-> s, previous |-> board.deals,
                                 answer |-> "none", version |-> 0]}
        /\ board' = [board EXCEPT !.deals[d].stage = s]
  BY DEF MoveDeal
<1>2. /\ UNCHANGED <<chosen, boardBusy, boardRun, boardLoads, dealRow, told>>
      /\ ~boardBusy /\ board.pipeline # NotChosen /\ disturbed' = (disturbed \/ moves # {})
  BY DEF MoveDeal
<1>3. PICK new : new = [deal |-> d, stage |-> s, previous |-> board.deals, answer |-> "none",
                        version |-> 0]
  OBVIOUS
<1>4. /\ DOMAIN new = {"deal", "stage", "previous", "answer", "version"} /\ new.deal = d
      /\ new.previous = board.deals /\ new.answer = "none" /\ new.version = 0
  BY <1>3
<1>5. moves' = moves \cup {new}
  BY <1>1, <1>3
<1>6. PICK card : board' = [board EXCEPT !.deals = [board.deals EXCEPT ![d] = card]]
  <2> DEFINE moved == [board.deals[d] EXCEPT !.stage = s]
  <2>1. board' = [board EXCEPT !.deals = [board.deals EXCEPT ![d] = moved]]
    BY <1>1
  <2> QED
    BY <2>1
<1>7. /\ DOMAIN board' = {"pipeline", "deals"} /\ board'.pipeline = board.pipeline
      /\ board'.deals = [board.deals EXCEPT ![d] = card]
  BY <1>6 DEF BoardInv, BoardShape
<1>8. /\ DOMAIN board'.deals = DOMAIN board.deals
      /\ \A e \in DOMAIN board.deals \ {d} : board'.deals[e] = board.deals[e]
  BY <1>7
<1>9. \A l \in boardLoads : l.run # boardRun
  BY <1>2 DEF BoardInv, BoardShape
<1>10. CleanLoadIsAlone'
  BY <1>2, <1>9 DEF CleanLoadIsAlone
<1>11. BoardShape'
  BY <1>2, <1>4, <1>5, <1>7, <1>8 DEF BoardInv, BoardShape
<1>12. ToldIsStored'
  <2>1. d \in BoardDeals /\ 0 <= dealRow[d].version
    BY DEF BoardInv, BoardShape, ToldIsStored
  <2> QED
    BY <1>2, <1>4, <1>5, <2>1 DEF BoardInv, ToldIsStored
<1>13. Undisturbed'
  <2> SUFFICES ASSUME ~disturbed, moves = {} PROVE Undisturbed'
    BY <1>2 DEF Undisturbed
  <2>1. moves' = {new}
    BY <1>5
  <2>2. Fresh(board.deals, dealRow, told) /\ DOMAIN board.deals = DealsOf(board.pipeline)
    BY <1>2 DEF BoardInv, Undisturbed
  <2>3. LoneMove(new)'
    BY <1>2, <1>4, <1>8, <2>2 DEF LoneMove
  <2> QED
    BY <1>2, <1>7, <1>8, <2>1, <2>2, <2>3 DEF Undisturbed
<1> QED
  BY <1>10, <1>11, <1>12, <1>13 DEF BoardInv

\* A stored deal that moves becomes newer than any that was shown.
LEMMA MovedRow ==
  ASSUME BoardInv, NEW d \in BoardDeals, NEW s, Moved(d, s)
  PROVE  /\ dealRow'[d] = [stage |-> s, version |-> dealRow[d].version + 1]
         /\ dealRow'[d].version = dealRow[d].version + 1 /\ dealRow[d].version \in Nat
         /\ DOMAIN dealRow' = BoardDeals
         /\ \A e \in BoardDeals : /\ e # d => dealRow'[e] = dealRow[e]
                                  /\ dealRow'[e].version \in Nat
                                  /\ dealRow[e].version <= dealRow'[e].version
         /\ \A deals : Fresh(deals, dealRow, told) => Fresh(deals, dealRow', told)
<1>1. PICK row : row = [stage |-> s, version |-> dealRow[d].version + 1]
  OBVIOUS
<1>2. row.version = dealRow[d].version + 1
  BY <1>1
<1>3. dealRow' = [dealRow EXCEPT ![d] = row]
  BY <1>1 DEF Moved
<1>4. DOMAIN dealRow = BoardDeals /\ \A e \in BoardDeals : dealRow[e].version \in Nat
  BY DEF BoardInv, ToldIsStored
<1>5. dealRow'[d] = row /\ \A e \in BoardDeals : e # d => dealRow'[e] = dealRow[e]
  BY <1>3, <1>4
<1>6. DOMAIN dealRow' = BoardDeals
  BY <1>3, <1>4
<1>7. \A e \in BoardDeals : dealRow'[e].version \in Nat /\ dealRow[e].version <= dealRow'[e].version
  BY <1>2, <1>4, <1>5
<1>8. \A deals : Fresh(deals, dealRow, told) => Fresh(deals, dealRow', told)
  BY <1>2, <1>4, <1>5 DEF Fresh
<1> QED
  BY <1>1, <1>2, <1>4, <1>5, <1>6, <1>7, <1>8

LEMMA OthersMoveInv ==
  ASSUME BoardInv, OthersMove
  PROVE  BoardInv'
<1>1. PICK d, s : d \in BoardDeals /\ Moved(d, s)
  BY PipelineDeals DEF OthersMove
<1>2. UNCHANGED <<chosen, board, boardBusy, boardError, boardRun, boardLoads, moves, told, disturbed>>
  BY DEF OthersMove
<1>3. /\ dealRow'[d].version = dealRow[d].version + 1 /\ dealRow[d].version \in Nat
      /\ DOMAIN dealRow' = BoardDeals
      /\ \A e \in BoardDeals : /\ e # d => dealRow'[e] = dealRow[e]
                               /\ dealRow'[e].version \in Nat
                               /\ dealRow[e].version <= dealRow'[e].version
      /\ \A deals : Fresh(deals, dealRow, told) => Fresh(deals, dealRow', told)
  BY <1>1, MovedRow
<1>4. BoardShape'
  BY <1>2 DEF BoardInv, BoardShape
<1>5. ToldIsStored'
  BY <1>2, <1>3 DEF BoardInv, BoardShape, ToldIsStored
<1>6. CleanLoadIsAlone'
  BY <1>2, <1>3 DEF BoardInv, CleanLoadIsAlone
<1>7. Undisturbed'
  <2>1. \A m \in moves : m.version \in Nat /\ m.version <= dealRow[m.deal].version /\ m.deal \in BoardDeals
    BY DEF BoardInv, BoardShape, ToldIsStored
  <2>2. \A m \in moves : LoneMove(m) => LoneMove(m)'
    BY <1>2, <1>3, <2>1 DEF LoneMove
  <2> QED
    BY <1>2, <1>3, <2>2 DEF BoardInv, Undisturbed
<1> QED
  BY <1>4, <1>5, <1>6, <1>7 DEF BoardInv

LEMMA ServeMoveInv ==
  ASSUME BoardInv, ServeMove
  PROVE  BoardInv'
<1>1. UNCHANGED <<chosen, board, boardBusy, boardError, boardRun, boardLoads, told, disturbed>>
  BY DEF ServeMove
<1>2. PICK m \in moves :
        \/ /\ Moved(m.deal, m.stage)
           /\ \E a \in {"moved", "failed"} :
                 moves' = (moves \ {m}) \cup
                   {[m EXCEPT !.answer = a, !.version = dealRow[m.deal].version + 1]}
        \/ /\ moves' = (moves \ {m}) \cup {[m EXCEPT !.answer = "failed"]}
           /\ UNCHANGED dealRow
  BY DEF ServeMove
<1>3. /\ DOMAIN m = {"deal", "stage", "previous", "answer", "version"} /\ m.deal \in BoardDeals
      /\ DOMAIN m.previous \subseteq BoardDeals
      /\ m.version \in Nat /\ m.version <= dealRow[m.deal].version
      /\ dealRow[m.deal].version \in Nat
  BY DEF BoardInv, BoardShape, ToldIsStored
<1>4. \A k \in moves : /\ k.version \in Nat /\ k.deal \in BoardDeals
                       /\ k.version <= dealRow[k.deal].version
  BY DEF BoardInv, BoardShape, ToldIsStored
<1>5. CleanLoadIsAlone'
  <2>1. ~\E l \in boardLoads : l.run = boardRun /\ l.clean
    BY DEF BoardInv, CleanLoadIsAlone
  <2> QED
    BY <1>1, <2>1 DEF CleanLoadIsAlone
<1>6. CASE /\ Moved(m.deal, m.stage)
           /\ \E a \in {"moved", "failed"} :
                 moves' = (moves \ {m}) \cup
                   {[m EXCEPT !.answer = a, !.version = dealRow[m.deal].version + 1]}
  <2>1. PICK a \in {"moved", "failed"} :
          moves' = (moves \ {m}) \cup
            {[m EXCEPT !.answer = a, !.version = dealRow[m.deal].version + 1]}
    BY <1>6
  <2>2. PICK new : new = [m EXCEPT !.answer = a, !.version = dealRow[m.deal].version + 1]
    OBVIOUS
  <2>3. /\ DOMAIN new = {"deal", "stage", "previous", "answer", "version"}
        /\ new.deal = m.deal /\ new.stage = m.stage /\ new.previous = m.previous /\ new.answer = a
        /\ new.version = dealRow[m.deal].version + 1
    BY <1>3, <2>2
  <2>4. moves' = (moves \ {m}) \cup {new}
    BY <2>1, <2>2
  <2>5. /\ dealRow'[m.deal] = [stage |-> m.stage, version |-> dealRow[m.deal].version + 1]
        /\ dealRow'[m.deal].version = dealRow[m.deal].version + 1
        /\ DOMAIN dealRow' = BoardDeals
        /\ \A e \in BoardDeals : /\ e # m.deal => dealRow'[e] = dealRow[e]
                                 /\ dealRow'[e].version \in Nat
                                 /\ dealRow[e].version <= dealRow'[e].version
        /\ \A deals : Fresh(deals, dealRow, told) => Fresh(deals, dealRow', told)
    BY <1>3, <1>6, MovedRow
  <2>6. BoardShape'
    BY <1>1, <1>3, <2>3, <2>4 DEF BoardInv, BoardShape
  <2>7. ToldIsStored'
    <3>1. /\ told' = told /\ told \in [BoardDeals -> Nat]
          /\ \A e \in BoardDeals : dealRow[e].version \in Nat /\ told[e] <= dealRow[e].version
      BY <1>1 DEF BoardInv, ToldIsStored
    <3>2. \A e \in BoardDeals : dealRow'[e].version \in Nat /\ told[e] <= dealRow'[e].version
      BY <2>5, <3>1
    <3>3. \A k \in moves' : k.version \in Nat /\ k.version <= dealRow'[k.deal].version
      BY <1>3, <1>4, <2>3, <2>4, <2>5
    <3> QED
      BY <2>5, <3>1, <3>2, <3>3 DEF ToldIsStored
  <2>8. Undisturbed'
    <3> SUFFICES ASSUME ~disturbed PROVE Undisturbed'
      BY <1>1 DEF Undisturbed
    <3>1. moves' = {new} /\ LoneMove(m) /\ ~boardBusy /\ board.pipeline # NotChosen
      BY <2>4 DEF BoardInv, Undisturbed
    <3>2. told[m.deal] <= new.version
      BY <1>3, <2>3 DEF BoardInv, ToldIsStored
    <3>3. LoneMove(new)'
      BY <1>1, <2>3, <2>5, <3>1, <3>2 DEF LoneMove
    <3> QED
      BY <1>1, <3>1, <3>3 DEF BoardInv, Undisturbed
  <2> QED
    BY <1>5, <2>6, <2>7, <2>8 DEF BoardInv
<1>7. CASE moves' = (moves \ {m}) \cup {[m EXCEPT !.answer = "failed"]} /\ UNCHANGED dealRow
  <2>1. PICK new : new = [m EXCEPT !.answer = "failed"]
    OBVIOUS
  <2>2. /\ DOMAIN new = {"deal", "stage", "previous", "answer", "version"}
        /\ new.deal = m.deal /\ new.previous = m.previous /\ new.version = m.version
        /\ new.answer = "failed"
    BY <1>3, <2>1
  <2>3. moves' = (moves \ {m}) \cup {new}
    BY <1>7, <2>1
  <2>4. BoardShape'
    BY <1>1, <1>3, <2>2, <2>3 DEF BoardInv, BoardShape
  <2>5. ToldIsStored'
    BY <1>1, <1>3, <1>4, <1>7, <2>2, <2>3 DEF BoardInv, ToldIsStored
  <2>6. Undisturbed'
    <3> SUFFICES ASSUME ~disturbed PROVE Undisturbed'
      BY <1>1 DEF Undisturbed
    <3>1. moves' = {new} /\ LoneMove(m) /\ ~boardBusy /\ board.pipeline # NotChosen
      BY <2>3 DEF BoardInv, Undisturbed
    <3>2. LoneMove(new)'
      BY <1>1, <1>7, <2>2, <3>1 DEF LoneMove
    <3> QED
      BY <1>1, <3>1, <3>2 DEF BoardInv, Undisturbed
  <2> QED
    BY <1>5, <2>4, <2>5, <2>6 DEF BoardInv
<1> QED
  BY <1>2, <1>6, <1>7

LEMMA MoveAnsweredInv ==
  ASSUME BoardInv, MoveAnswered
  PROVE  BoardInv'
<1>1. UNCHANGED <<chosen, boardBusy, boardRun, boardLoads, dealRow, disturbed>>
  BY DEF MoveAnswered
<1>2. PICK m \in moves :
        /\ m.answer # "none"
        /\ moves' = moves \ {m}
        /\ IF m.answer = "failed"
           THEN /\ board' = [board EXCEPT !.deals = m.previous]
                /\ boardError' = TRUE
                /\ UNCHANGED told
           ELSE /\ board' = IF m.deal \in DOMAIN board.deals
                            THEN [board EXCEPT !.deals[m.deal] =
                                     [stage |-> m.stage, version |-> m.version]]
                            ELSE board
                /\ told' = [told EXCEPT ![m.deal] = IF m.version > @ THEN m.version ELSE @]
                /\ UNCHANGED boardError
  BY DEF MoveAnswered
<1>3. /\ m.deal \in BoardDeals /\ DOMAIN m.previous \subseteq BoardDeals
      /\ m.version \in Nat /\ m.version <= dealRow[m.deal].version
      /\ dealRow[m.deal].version \in Nat /\ told \in [BoardDeals -> Nat]
      /\ DOMAIN board = {"pipeline", "deals"} /\ DOMAIN board.deals \subseteq BoardDeals
  BY DEF BoardInv, BoardShape, ToldIsStored
<1>4. CleanLoadIsAlone'
  <2>1. ~\E l \in boardLoads : l.run = boardRun /\ l.clean
    BY DEF BoardInv, CleanLoadIsAlone
  <2> QED
    BY <1>1, <2>1 DEF CleanLoadIsAlone
<1>5. CASE m.answer = "failed"
  <2>1. /\ DOMAIN board' = {"pipeline", "deals"} /\ board'.pipeline = board.pipeline
        /\ board'.deals = m.previous /\ told' = told
    BY <1>2, <1>3, <1>5
  <2>2. BoardShape'
    BY <1>1, <1>2, <1>3, <2>1 DEF BoardInv, BoardShape
  <2>3. ToldIsStored'
    BY <1>1, <1>2, <2>1 DEF BoardInv, ToldIsStored
  <2>4. Undisturbed'
    BY <1>1, <1>2, <2>1 DEF BoardInv, Undisturbed, LoneMove
  <2> QED
    BY <1>4, <2>2, <2>3, <2>4 DEF BoardInv
<1>6. CASE m.answer # "failed"
  <2>1. told' = [told EXCEPT ![m.deal] = IF m.version > @ THEN m.version ELSE @]
    BY <1>2, <1>6
  <2>2. /\ told' \in [BoardDeals -> Nat]
        /\ told'[m.deal] = IF m.version > told[m.deal] THEN m.version ELSE told[m.deal]
        /\ \A e \in BoardDeals : e # m.deal => told'[e] = told[e]
    BY <1>3, <2>1
  <2>3. ToldIsStored'
    BY <1>1, <1>2, <1>3, <2>2 DEF BoardInv, ToldIsStored
  <2>4. PICK card : card = [stage |-> m.stage, version |-> m.version]
    OBVIOUS
  <2>5. card.version = m.version
    BY <2>4
  <2>6. m.deal \in DOMAIN board.deals => board' = [board EXCEPT !.deals = [board.deals EXCEPT ![m.deal] = card]]
    BY <1>2, <1>6, <2>4
  <2>7. /\ DOMAIN board' = {"pipeline", "deals"} /\ board'.pipeline = board.pipeline
        /\ DOMAIN board'.deals = DOMAIN board.deals
        /\ m.deal \in DOMAIN board.deals =>
             /\ board'.deals[m.deal] = card
             /\ \A e \in DOMAIN board.deals : e # m.deal => board'.deals[e] = board.deals[e]
    <3>1. CASE m.deal \in DOMAIN board.deals
      <4>1. /\ DOMAIN board' = {"pipeline", "deals"} /\ board'.pipeline = board.pipeline
            /\ board'.deals = [board.deals EXCEPT ![m.deal] = card]
        BY <1>3, <2>6, <3>1
      <4> QED
        BY <4>1, <3>1
    <3>2. CASE m.deal \notin DOMAIN board.deals
      BY <1>2, <1>3, <1>6, <3>2
    <3> QED
      BY <3>1, <3>2
  <2>8. BoardShape'
    BY <1>1, <1>2, <1>3, <2>7 DEF BoardInv, BoardShape
  <2>9. Undisturbed'
    <3> SUFFICES ASSUME ~disturbed PROVE Undisturbed'
      BY <1>1 DEF Undisturbed
    <3>1. LoneMove(m) /\ moves' = {} /\ DOMAIN board.deals = DealsOf(board.pipeline)
      BY <1>2 DEF BoardInv, Undisturbed
    <3>2. Fresh(board'.deals, dealRow, told')
      <4> SUFFICES ASSUME NEW e \in DOMAIN board'.deals
          PROVE  /\ e \in BoardDeals
                 /\ board'.deals[e].version \in Nat /\ told'[e] <= board'.deals[e].version
                 /\ board'.deals[e].version <= dealRow[e].version
                 /\ board'.deals[e].version = dealRow[e].version => board'.deals[e] = dealRow[e]
        BY DEF Fresh
      <4>1. CASE e = m.deal
        <5>1. board'.deals[e] = card /\ m.answer = "moved"
          BY <1>2, <1>6, <2>7, <3>1, <4>1 DEF LoneMove, BoardInv, BoardShape
        <5> QED
          BY <1>3, <2>2, <2>4, <2>5, <3>1, <4>1, <5>1 DEF LoneMove
      <4>2. CASE e # m.deal
        BY <1>3, <2>2, <2>7, <3>1, <4>2 DEF LoneMove, Fresh
      <4> QED
        BY <4>1, <4>2
    <3> QED
      BY <1>1, <2>7, <3>1, <3>2 DEF Undisturbed
  <2> QED
    BY <1>4, <2>3, <2>8, <2>9 DEF BoardInv
<1> QED
  BY <1>5, <1>6

LEMMA BoardInductive == BoardInv /\ [BoardNext]_boardVars => BoardInv'
<1> SUFFICES ASSUME BoardInv, [BoardNext]_boardVars PROVE BoardInv'
  OBVIOUS
<1>1. CASE PipelinesArrive
  BY <1>1, PipelinesArriveInv
<1>2. CASE ReadPage
  BY <1>2, ReadPageInv
<1>3. CASE BoardArrives
  BY <1>3, BoardArrivesInv
<1>4. CASE BoardFails
  BY <1>4, BoardFailsInv
<1>5. CASE Reload
  BY <1>5, ReloadInv
<1>6. CASE MoveDeal
  BY <1>6, MoveDealInv
<1>7. CASE ServeMove
  BY <1>7, ServeMoveInv
<1>8. CASE MoveAnswered
  BY <1>8, MoveAnsweredInv
<1>9. CASE OthersMove
  BY <1>9, OthersMoveInv
<1>10. CASE UNCHANGED boardVars
  BY <1>10 DEF boardVars, BoardInv, BoardShape, ToldIsStored, CleanLoadIsAlone, Undisturbed, LoneMove
<1> QED
  BY <1>1, <1>2, <1>3, <1>4, <1>5, <1>6, <1>7, <1>8, <1>9, <1>10 DEF BoardNext

\* The board keeps its invariant whatever moves, loads and changes by others
\* overlap, for any pipelines and any number of deals.
THEOREM BoardInvariant == BoardSpec => []BoardInv
  BY BoardInitial, BoardInductive, PTL DEF BoardSpec

LEMMA UndisturbedKeepsMoves == BoardInv => BoardKeepsMoves
<1> SUFFICES ASSUME BoardInv, ~disturbed, moves = {}, board.pipeline # NotChosen
    PROVE  /\ DOMAIN board.deals = DealsOf(board.pipeline)
           /\ \A d \in DOMAIN board.deals :
                 /\ board.deals[d].version >= told[d]
                 /\ board.deals[d].version = dealRow[d].version => board.deals[d] = dealRow[d]
  BY DEF BoardKeepsMoves
<1>1. DOMAIN board.deals = DealsOf(board.pipeline) /\ Fresh(board.deals, dealRow, told)
  BY DEF BoardInv, Undisturbed
<1>2. told \in [BoardDeals -> Nat]
  BY DEF BoardInv, ToldIsStored
<1> QED
  BY <1>1, <1>2 DEF Fresh

\* A board at rest shows each deal of its pipeline at least as new as the answers
\* to its moves reported, also after a failed move brought back the deals of
\* before, as long as no move overlapped another one or a load.
THEOREM BoardKeeps == BoardSpec => []BoardKeepsMoves
  BY UndisturbedKeepsMoves, BoardInvariant, PTL

\* The first load leaves room for the one it starts.
RoomForFirst == boardRun + (IF chosen = NotChosen THEN 1 ELSE 0) <= MaxBoardRuns

\* What loads have read and moves lead to are stages and versions of deals.
ReadsAndMovesTyped ==
    /\ \A l \in boardLoads : l.read \in [DOMAIN l.read -> DealStates]
    /\ \A m \in moves : /\ m.stage \in UNION {ColumnsOf[p] : p \in BoardPipeSet}
                        /\ m.answer = "moved" => m.version \in 1..MaxDealVersion

BoardTypeInv == BoardTypeOK /\ RoomForFirst /\ ReadsAndMovesTyped

AllColumns == UNION {ColumnsOf[p] : p \in BoardPipeSet}

LEMMA DealStatesAre ==
  /\ \A r \in DealStates : r.stage \in AllColumns /\ r.version \in 1..MaxDealVersion
  /\ \A s \in AllColumns, v \in 1..MaxDealVersion : [stage |-> s, version |-> v] \in DealStates
  BY DEF DealStates, AllColumns

\* Deals that are shown are all of one pipeline, or none.
LEMMA DealMapsAre ==
  /\ NoDeals \in DealMaps
  /\ \A p \in BoardPipeSet : \A f \in [DealsOf(p) -> DealStates] : f \in DealMaps
  /\ \A f \in DealMaps : \A d \in DOMAIN f : f[d] \in DealStates
  /\ \A f \in DealMaps : \A d \in DOMAIN f : \A r \in DealStates : [f EXCEPT ![d] = r] \in DealMaps
<1>1. DOMAIN NoDeals = {}
  BY DEF NoDeals
<1>2. \A f \in DealMaps : f = NoDeals \/ \E p \in BoardPipeSet : f \in [DealsOf(p) -> DealStates]
  BY DEF DealMaps
<1>3. \A p \in BoardPipeSet : \A f \in [DealsOf(p) -> DealStates] : f \in DealMaps
  BY DEF DealMaps
<1>4. NoDeals \in DealMaps
  BY DEF DealMaps
<1>5. ASSUME NEW f \in DealMaps, NEW d \in DOMAIN f, NEW r \in DealStates
      PROVE  f[d] \in DealStates /\ [f EXCEPT ![d] = r] \in DealMaps
  <2>1. PICK p \in BoardPipeSet : f \in [DealsOf(p) -> DealStates]
    BY <1>1, <1>2
  <2>2. [f EXCEPT ![d] = r] \in [DealsOf(p) -> DealStates]
    BY <2>1
  <2> QED
    BY <1>3, <2>1, <2>2
<1>6. \A f \in DealMaps : \A d \in DOMAIN f : f[d] \in DealStates
  <2> SUFFICES ASSUME NEW f \in DealMaps, NEW d \in DOMAIN f PROVE f[d] \in DealStates
    OBVIOUS
  <2>1. PICK p \in BoardPipeSet : f \in [DealsOf(p) -> DealStates]
    BY <1>1, <1>2
  <2> QED
    BY <2>1
<1> QED
  BY <1>3, <1>4, <1>5, <1>6

LEMMA BoardTypesInitial == BoardInit => BoardTypeInv
<1> SUFFICES ASSUME BoardInit PROVE BoardTypeInv
  OBVIOUS
<1>1. boardLoads = {[run |-> 1, pipeline |-> NotChosen, read |-> NoDeals, clean |-> TRUE]}
  BY DEF BoardInit
<1>2. \A l \in boardLoads : l.run = 1 /\ l.pipeline = NotChosen /\ l.read = NoDeals
  BY <1>1
<1>3. DOMAIN NoDeals = {}
  BY DEF NoDeals
<1>4. board.pipeline = NotChosen /\ board.deals = NoDeals /\ moves = {}
  BY DEF BoardInit
<1>5. dealRow \in [BoardDeals -> DealStates]
  <2>1. dealRow \in [BoardDeals -> [stage : AllColumns, version : {1}]]
    BY DEF BoardInit, AllColumns
  <2>2. [stage : AllColumns, version : {1}] \subseteq DealStates
    BY DEF DealStates, AllColumns
  <2> QED
    BY <2>1, <2>2
<1>6. told \in [BoardDeals -> 0..MaxDealVersion]
  BY DEF BoardInit
<1>7. /\ boardRun = 1 /\ 2 <= MaxBoardRuns /\ boardRun \in 1..MaxBoardRuns /\ chosen = NotChosen
      /\ {boardBusy, boardError, disturbed} \subseteq BOOLEAN
  <2>1. 2 <= MaxBoardRuns /\ 1 \in 1..MaxBoardRuns
    OBVIOUS
  <2>2. boardRun = 1 /\ chosen = NotChosen /\ {boardBusy, boardError, disturbed} \subseteq BOOLEAN
    BY DEF BoardInit
  <2> QED
    BY <2>1, <2>2
<1>8. \A l \in boardLoads : l.run \in 1..boardRun
  BY <1>2, <1>7
<1>9. BoardTypeOK
  BY <1>2, <1>3, <1>4, <1>5, <1>6, <1>7, <1>8, DealMapsAre DEF BoardTypeOK
<1>10. RoomForFirst /\ ReadsAndMovesTyped
  <2>1. NoDeals \in [{} -> DealStates]
    BY DEF NoDeals
  <2>2. ReadsAndMovesTyped
    BY <1>2, <1>3, <1>4, <2>1 DEF ReadsAndMovesTyped
  <2>3. RoomForFirst
    BY <1>7 DEF RoomForFirst
  <2> QED
    BY <2>2, <2>3
<1> QED
  BY <1>9, <1>10 DEF BoardTypeInv

\* A load starts within the bound, and has read nothing.
LEMMA BootstrapTypes ==
  ASSUME BoardTypeInv, BoardInv', NEW done, Bootstrap(done), RoomForFirst',
         UNCHANGED <<board, boardError, moves, dealRow, told>>, disturbed' \in BOOLEAN
  PROVE  BoardTypeInv'
<1>1. PICK new : new = [run |-> boardRun + 1, pipeline |-> NotChosen, read |-> NoDeals,
                        clean |-> moves = {}]
  OBVIOUS
<1>2. new.run = boardRun + 1 /\ new.pipeline = NotChosen /\ new.read = NoDeals
  BY <1>1
<1>3. boardLoads' = (boardLoads \ done) \cup {new} /\ boardRun' = boardRun + 1 /\ boardBusy' = TRUE
  BY <1>1 DEF Bootstrap
<1>4. DOMAIN NoDeals = {}
  BY DEF NoDeals
<1>5. boardRun \in Nat \ {0} /\ \A l \in boardLoads : l.run \in 1..boardRun
  BY DEF BoardTypeInv, BoardTypeOK
<1>6. boardRun' \in 1..MaxBoardRuns
  BY <1>3, <1>5 DEF RoomForFirst
<1>7. \A l \in boardLoads' : /\ l.run \in 1..boardRun'
                             /\ l.pipeline \in BoardPipeSet \cup {NotChosen}
                             /\ DOMAIN l.read \subseteq BoardDeals
  BY <1>2, <1>3, <1>4, <1>5 DEF BoardTypeInv, BoardTypeOK
<1>8. chosen' \in BoardPipeSet \cup {NotChosen}
  BY DEF BoardInv, BoardShape
<1>9. {boardBusy', boardError', disturbed'} \subseteq BOOLEAN
  BY <1>3 DEF BoardTypeInv, BoardTypeOK
<1>10. BoardTypeOK'
  BY <1>6, <1>7, <1>8, <1>9 DEF BoardTypeInv, BoardTypeOK
<1>11. ReadsAndMovesTyped'
  <2>1. NoDeals \in [{} -> DealStates]
    BY DEF NoDeals
  <2> QED
    BY <2>1, <1>2, <1>3, <1>4 DEF BoardTypeInv, ReadsAndMovesTyped
<1> QED
  BY <1>10, <1>11 DEF BoardTypeInv

LEMMA PipelinesArriveTypes ==
  ASSUME BoardInv, BoardInv', BoardTypeInv, PipelinesArrive
  PROVE  BoardTypeInv'
<1>1. PICK l \in boardLoads :
        \/ /\ boardLoads' = boardLoads \ {l}
           /\ UNCHANGED <<chosen, boardBusy, boardRun>>
        \/ /\ chosen = NotChosen
           /\ chosen' = Head(BoardPipelines)
           /\ Bootstrap({l})
        \/ /\ boardLoads' = (boardLoads \ {l}) \cup {[l EXCEPT !.pipeline = chosen]}
           /\ UNCHANGED <<chosen, boardBusy, boardRun>>
  BY DEF PipelinesArrive
<1>2. UNCHANGED <<board, boardError, moves, dealRow, told, disturbed>>
  BY DEF PipelinesArrive
<1>3. CASE boardLoads' = boardLoads \ {l} /\ UNCHANGED <<chosen, boardBusy, boardRun>>
  BY <1>2, <1>3 DEF BoardTypeInv, BoardTypeOK, RoomForFirst, ReadsAndMovesTyped
<1>4. CASE chosen = NotChosen /\ chosen' = Head(BoardPipelines) /\ Bootstrap({l})
  <2>1. boardRun' = boardRun + 1 /\ boardRun + 1 <= MaxBoardRuns /\ boardRun \in 1..MaxBoardRuns
    BY <1>4 DEF Bootstrap, BoardTypeInv, BoardTypeOK, RoomForFirst
  <2>2. chosen' # NotChosen
    BY <1>4, PipelineDeals
  <2>3. RoomForFirst'
    BY <2>1, <2>2 DEF RoomForFirst
  <2>4. disturbed' \in BOOLEAN
    BY <1>2 DEF BoardTypeInv, BoardTypeOK
  <2> QED
    BY <1>2, <1>4, <2>3, <2>4, BootstrapTypes
<1>5. CASE /\ boardLoads' = (boardLoads \ {l}) \cup {[l EXCEPT !.pipeline = chosen]}
           /\ UNCHANGED <<chosen, boardBusy, boardRun>>
  <2>1. PICK new : new = [l EXCEPT !.pipeline = chosen]
    OBVIOUS
  <2>2. DOMAIN l = {"run", "pipeline", "read", "clean"}
    BY DEF BoardInv, BoardShape
  <2>3. new.run = l.run /\ new.pipeline = chosen /\ new.read = l.read
    BY <2>1, <2>2
  <2>4. boardLoads' = (boardLoads \ {l}) \cup {new}
    BY <1>5, <2>1
  <2>5. \A k \in boardLoads' : /\ k.run \in 1..boardRun
                               /\ k.pipeline \in BoardPipeSet \cup {NotChosen}
                               /\ DOMAIN k.read \subseteq BoardDeals
                               /\ k.read \in [DOMAIN k.read -> DealStates]
    BY <2>3, <2>4 DEF BoardTypeInv, BoardTypeOK, ReadsAndMovesTyped
  <2> QED
    BY <1>2, <1>5, <2>5 DEF BoardTypeInv, BoardTypeOK, RoomForFirst, ReadsAndMovesTyped
<1> QED
  BY <1>1, <1>3, <1>4, <1>5

LEMMA ReadPageTypes ==
  ASSUME BoardInv, BoardTypeInv, ReadPage
  PROVE  BoardTypeInv'
<1>1. PICK l \in {x \in boardLoads : x.pipeline # NotChosen /\ DOMAIN x.read # DealsOf(x.pipeline)} :
        \E i \in DOMAIN PagesOf[l.pipeline] :
           LET d == PagesOf[l.pipeline][i]
           IN  /\ d \notin DOMAIN l.read
               /\ \A j \in 1..(i - 1) : PagesOf[l.pipeline][j] \in DOMAIN l.read
               /\ boardLoads' = (boardLoads \ {l}) \cup
                    {[l EXCEPT !.read = [e \in DOMAIN l.read \cup {d} |->
                                            IF e = d THEN dealRow[d] ELSE l.read[e]]]}
  BY DEF ReadPage
<1>2. PICK d \in DealsOf(l.pipeline) :
        boardLoads' = (boardLoads \ {l}) \cup
          {[l EXCEPT !.read = [e \in DOMAIN l.read \cup {d} |->
                                 IF e = d THEN dealRow[d] ELSE l.read[e]]]}
  BY <1>1 DEF DealsOf
<1>3. DOMAIN l = {"run", "pipeline", "read", "clean"} /\ d \in BoardDeals
  BY <1>1, PipelineDeals DEF BoardInv, BoardShape
<1>4. PICK read : read = [e \in DOMAIN l.read \cup {d} |-> IF e = d THEN dealRow[d] ELSE l.read[e]]
  OBVIOUS
<1>5. PICK new : new = [l EXCEPT !.read = read]
  OBVIOUS
<1>6. new.run = l.run /\ new.pipeline = l.pipeline /\ new.read = read
  BY <1>3, <1>5
<1>7. boardLoads' = (boardLoads \ {l}) \cup {new}
  BY <1>2, <1>4, <1>5
<1>8. /\ l.run \in 1..boardRun /\ l.pipeline \in BoardPipeSet \cup {NotChosen}
      /\ DOMAIN l.read \subseteq BoardDeals /\ dealRow[d] \in DealStates
      /\ l.read \in [DOMAIN l.read -> DealStates]
  BY <1>3 DEF BoardTypeInv, BoardTypeOK, ReadsAndMovesTyped
<1>9. DOMAIN read \subseteq BoardDeals /\ read \in [DOMAIN read -> DealStates]
  BY <1>3, <1>4, <1>8
<1>10. \A k \in boardLoads' : /\ k.run \in 1..boardRun
                              /\ k.pipeline \in BoardPipeSet \cup {NotChosen}
                              /\ DOMAIN k.read \subseteq BoardDeals
                              /\ k.read \in [DOMAIN k.read -> DealStates]
  BY <1>6, <1>7, <1>8, <1>9 DEF BoardTypeInv, BoardTypeOK, ReadsAndMovesTyped
<1> QED
  BY <1>10 DEF ReadPage, BoardTypeInv, BoardTypeOK, RoomForFirst, ReadsAndMovesTyped

LEMMA BoardArrivesTypes ==
  ASSUME BoardInv, BoardTypeInv, BoardArrives
  PROVE  BoardTypeInv'
<1>1. PICK l \in boardLoads :
        /\ l.pipeline # NotChosen /\ DOMAIN l.read = DealsOf(l.pipeline)
        /\ boardLoads' = boardLoads \ {l}
        /\ IF l.run = boardRun
           THEN /\ board' = [pipeline |-> l.pipeline, deals |-> l.read]
                /\ boardError' = FALSE /\ boardBusy' = FALSE
                /\ disturbed' = ~l.clean
           ELSE UNCHANGED <<board, boardError, boardBusy, disturbed>>
  BY DEF BoardArrives
<1>2. board' = board \/ (board'.pipeline = l.pipeline /\ board'.deals = l.read)
  BY <1>1
<1>3. l.read \in DealMaps /\ l.pipeline \in BoardPipeSet
  <2>1. l.pipeline \in BoardPipeSet /\ l.read \in [DOMAIN l.read -> DealStates]
    BY <1>1 DEF BoardTypeInv, BoardTypeOK, ReadsAndMovesTyped
  <2> QED
    BY <1>1, <2>1, DealMapsAre
<1>4. board'.pipeline \in BoardPipeSet \cup {NotChosen} /\ board'.deals \in DealMaps
  BY <1>2, <1>3 DEF BoardTypeInv, BoardTypeOK
<1>5. {boardBusy', boardError', disturbed'} \subseteq BOOLEAN
  BY <1>1 DEF BoardTypeInv, BoardTypeOK
<1>6. BoardTypeOK'
  BY <1>1, <1>4, <1>5 DEF BoardArrives, BoardTypeInv, BoardTypeOK
<1>7. RoomForFirst' /\ ReadsAndMovesTyped'
  BY <1>1 DEF BoardArrives, BoardTypeInv, RoomForFirst, ReadsAndMovesTyped
<1> QED
  BY <1>6, <1>7 DEF BoardTypeInv

LEMMA BoardFailsTypes ==
  ASSUME BoardTypeInv, BoardFails
  PROVE  BoardTypeInv'
<1>1. PICK l \in boardLoads :
        /\ boardLoads' = boardLoads \ {l}
        /\ IF l.run = boardRun THEN boardError' = TRUE /\ boardBusy' = FALSE
           ELSE UNCHANGED <<boardError, boardBusy>>
  BY DEF BoardFails
<1>2. {boardBusy', boardError', disturbed'} \subseteq BOOLEAN
  BY <1>1 DEF BoardFails, BoardTypeInv, BoardTypeOK
<1> QED
  BY <1>1, <1>2 DEF BoardFails, BoardTypeInv, BoardTypeOK, RoomForFirst, ReadsAndMovesTyped

LEMMA ReloadTypes ==
  ASSUME BoardInv', BoardTypeInv, Reload
  PROVE  BoardTypeInv'
<1>1. Bootstrap({}) /\ RoomForLoad
  BY DEF Reload
<1>2. chosen' = NotChosen => chosen = NotChosen
  <2>1. \/ chosen' = chosen
        \/ chosen # NotChosen /\ chosen' \in BoardPipeSet \ {chosen}
    BY DEF Reload
  <2> QED
    BY <2>1
<1>3. UNCHANGED <<board, boardError, moves, dealRow, told>>
  BY DEF Reload
<1>4. disturbed' \in BOOLEAN
  BY DEF Reload
<1>5. boardRun' = boardRun + 1
  BY <1>1 DEF Bootstrap
<1>6. boardRun \in 1..MaxBoardRuns
  BY DEF BoardTypeInv, BoardTypeOK
<1>7. RoomForFirst'
  BY <1>1, <1>2, <1>5, <1>6 DEF RoomForFirst, RoomForLoad
<1> QED
  BY <1>1, <1>3, <1>4, <1>7, BootstrapTypes

LEMMA MoveDealTypes ==
  ASSUME BoardInv, BoardTypeInv, MoveDeal
  PROVE  BoardTypeInv'
<1>1. PICK d \in DOMAIN board.deals, s \in ColumnsOf[board.pipeline] :
        /\ moves' = moves \cup {[deal |-> d, stage |-> s, previous |-> board.deals,
                                 answer |-> "none", version |-> 0]}
        /\ board' = [board EXCEPT !.deals[d].stage = s]
  BY DEF MoveDeal
<1>2. /\ UNCHANGED <<chosen, boardBusy, boardRun, boardLoads, dealRow, told>>
      /\ board.pipeline # NotChosen /\ disturbed' = (disturbed \/ moves # {}) /\ boardError' = FALSE
  BY DEF MoveDeal
<1>3. PICK new : new = [deal |-> d, stage |-> s, previous |-> board.deals, answer |-> "none",
                        version |-> 0]
  OBVIOUS
<1>4. /\ new.deal = d /\ new.stage = s /\ new.previous = board.deals /\ new.answer = "none"
      /\ moves' = moves \cup {new}
  BY <1>1, <1>3
<1>5. /\ board.pipeline \in BoardPipeSet \cup {NotChosen} /\ board.deals \in DealMaps
      /\ DOMAIN board = {"pipeline", "deals"} /\ d \in BoardDeals
  BY DEF BoardInv, BoardShape, BoardTypeInv, BoardTypeOK
<1>6. s \in AllColumns /\ board.deals[d] \in DealStates
  BY <1>2, <1>5, DealMapsAre DEF AllColumns
<1>7. PICK card : card = [board.deals[d] EXCEPT !.stage = s]
  OBVIOUS
<1>8. card \in DealStates
  BY <1>6, <1>7 DEF DealStates, AllColumns
<1>9. board' = [board EXCEPT !.deals = [board.deals EXCEPT ![d] = card]]
  BY <1>1, <1>7
<1>10. board'.pipeline = board.pipeline /\ board'.deals = [board.deals EXCEPT ![d] = card]
  BY <1>5, <1>9
<1>11. board'.pipeline \in BoardPipeSet \cup {NotChosen} /\ board'.deals \in DealMaps
  BY <1>5, <1>8, <1>10, DealMapsAre
<1>12. \A m \in moves' : m.deal \in BoardDeals /\ m.previous \in DealMaps
  BY <1>4, <1>5 DEF BoardTypeInv, BoardTypeOK
<1>13. {boardBusy', boardError', disturbed'} \subseteq BOOLEAN
  BY <1>2 DEF BoardTypeInv, BoardTypeOK
<1>14. BoardTypeOK'
  BY <1>2, <1>11, <1>12, <1>13 DEF BoardTypeInv, BoardTypeOK
<1>15. ReadsAndMovesTyped'
  BY <1>2, <1>4, <1>6 DEF BoardTypeInv, ReadsAndMovesTyped, AllColumns
<1>16. RoomForFirst'
  BY <1>2 DEF BoardTypeInv, RoomForFirst
<1> QED
  BY <1>14, <1>15, <1>16 DEF BoardTypeInv

\* A stored deal that moves within the bound is a deal still.
LEMMA MovedTypes ==
  ASSUME BoardTypeInv, NEW d \in BoardDeals, NEW s \in AllColumns, Moved(d, s),
         dealRow[d].version < MaxDealVersion
  PROVE  /\ dealRow' \in [BoardDeals -> DealStates]
         /\ dealRow[d].version + 1 \in 1..MaxDealVersion
<1>1. dealRow \in [BoardDeals -> DealStates]
  BY DEF BoardTypeInv, BoardTypeOK
<1>2. dealRow[d].version \in 1..MaxDealVersion
  BY <1>1, DealStatesAre
<1>3. dealRow[d].version + 1 \in 1..MaxDealVersion
  BY <1>2
<1>4. PICK row : row = [stage |-> s, version |-> dealRow[d].version + 1]
  OBVIOUS
<1>5. row \in DealStates /\ dealRow' = [dealRow EXCEPT ![d] = row]
  BY <1>3, <1>4, DealStatesAre DEF Moved
<1> QED
  BY <1>1, <1>3, <1>5

LEMMA OthersMoveTypes ==
  ASSUME BoardTypeInv, OthersMove
  PROVE  BoardTypeInv'
<1>1. PICK p \in BoardPipeSet : \E d \in DealsOf(p), s \in ColumnsOf[p] :
        dealRow[d].version < MaxDealVersion /\ Moved(d, s)
  BY DEF OthersMove
<1>2. PICK d \in BoardDeals, s \in AllColumns : dealRow[d].version < MaxDealVersion /\ Moved(d, s)
  BY <1>1, PipelineDeals DEF AllColumns
<1>3. dealRow' \in [BoardDeals -> DealStates]
  BY <1>2, MovedTypes
<1> QED
  BY <1>3 DEF OthersMove, BoardTypeInv, BoardTypeOK, RoomForFirst, ReadsAndMovesTyped

LEMMA ServeMoveTypes ==
  ASSUME BoardInv, BoardTypeInv, ServeMove
  PROVE  BoardTypeInv'
<1>1. PICK m \in moves :
        \/ /\ dealRow[m.deal].version < MaxDealVersion
           /\ Moved(m.deal, m.stage)
           /\ \E a \in {"moved", "failed"} :
                 moves' = (moves \ {m}) \cup
                   {[m EXCEPT !.answer = a, !.version = dealRow[m.deal].version + 1]}
        \/ /\ moves' = (moves \ {m}) \cup {[m EXCEPT !.answer = "failed"]}
           /\ UNCHANGED dealRow
  BY DEF ServeMove
<1>2. /\ DOMAIN m = {"deal", "stage", "previous", "answer", "version"} /\ m.deal \in BoardDeals
      /\ m.previous \in DealMaps /\ m.stage \in AllColumns
      /\ dealRow \in [BoardDeals -> DealStates]
  BY DEF BoardInv, BoardShape, BoardTypeInv, BoardTypeOK, ReadsAndMovesTyped, AllColumns
<1>3. /\ dealRow' \in [BoardDeals -> DealStates]
      /\ \E new : /\ new.deal = m.deal /\ new.previous = m.previous /\ new.stage = m.stage
                  /\ new.answer = "moved" => new.version \in 1..MaxDealVersion
                  /\ moves' = (moves \ {m}) \cup {new}
  <2>1. CASE /\ dealRow[m.deal].version < MaxDealVersion
             /\ Moved(m.deal, m.stage)
             /\ \E a \in {"moved", "failed"} :
                   moves' = (moves \ {m}) \cup
                     {[m EXCEPT !.answer = a, !.version = dealRow[m.deal].version + 1]}
    <3>1. /\ dealRow' \in [BoardDeals -> DealStates]
          /\ dealRow[m.deal].version + 1 \in 1..MaxDealVersion
      BY <1>2, <2>1, MovedTypes
    <3>2. PICK a \in {"moved", "failed"} :
            moves' = (moves \ {m}) \cup
              {[m EXCEPT !.answer = a, !.version = dealRow[m.deal].version + 1]}
      BY <2>1
    <3>3. PICK new : new = [m EXCEPT !.answer = a, !.version = dealRow[m.deal].version + 1]
      OBVIOUS
    <3>4. /\ new.deal = m.deal /\ new.previous = m.previous /\ new.stage = m.stage
          /\ new.version = dealRow[m.deal].version + 1 /\ moves' = (moves \ {m}) \cup {new}
      BY <1>2, <3>2, <3>3
    <3> QED
      BY <3>1, <3>4
  <2>2. CASE moves' = (moves \ {m}) \cup {[m EXCEPT !.answer = "failed"]} /\ UNCHANGED dealRow
    <3>1. PICK new : new = [m EXCEPT !.answer = "failed"]
      OBVIOUS
    <3>2. /\ new.deal = m.deal /\ new.previous = m.previous /\ new.stage = m.stage
          /\ new.answer = "failed" /\ moves' = (moves \ {m}) \cup {new}
      BY <1>2, <2>2, <3>1
    <3> QED
      BY <1>2, <2>2, <3>2
  <2> QED
    BY <1>1, <2>1, <2>2
<1>4. PICK new : /\ new.deal = m.deal /\ new.previous = m.previous /\ new.stage = m.stage
                 /\ new.answer = "moved" => new.version \in 1..MaxDealVersion
                 /\ moves' = (moves \ {m}) \cup {new}
  BY <1>3
<1>5. \A k \in moves' : /\ k.deal \in BoardDeals /\ k.previous \in DealMaps
                        /\ k.stage \in AllColumns
                        /\ k.answer = "moved" => k.version \in 1..MaxDealVersion
  BY <1>2, <1>4 DEF BoardTypeInv, BoardTypeOK, ReadsAndMovesTyped, AllColumns
<1>6. ReadsAndMovesTyped'
  <2>1. \A l \in boardLoads' : l.read \in [DOMAIN l.read -> DealStates]
    BY DEF ServeMove, BoardTypeInv, ReadsAndMovesTyped
  <2> QED
    BY <1>5, <2>1 DEF ReadsAndMovesTyped, AllColumns
<1> QED
  BY <1>3, <1>5, <1>6 DEF ServeMove, BoardTypeInv, BoardTypeOK, RoomForFirst

LEMMA MoveAnsweredTypes ==
  ASSUME BoardInv, BoardTypeInv, MoveAnswered
  PROVE  BoardTypeInv'
<1>1. UNCHANGED <<chosen, boardBusy, boardRun, boardLoads, dealRow, disturbed>>
  BY DEF MoveAnswered
<1>2. PICK m \in moves :
        /\ m.answer # "none"
        /\ moves' = moves \ {m}
        /\ IF m.answer = "failed"
           THEN /\ board' = [board EXCEPT !.deals = m.previous]
                /\ boardError' = TRUE
                /\ UNCHANGED told
           ELSE /\ board' = IF m.deal \in DOMAIN board.deals
                            THEN [board EXCEPT !.deals[m.deal] =
                                     [stage |-> m.stage, version |-> m.version]]
                            ELSE board
                /\ told' = [told EXCEPT ![m.deal] = IF m.version > @ THEN m.version ELSE @]
                /\ UNCHANGED boardError
  BY DEF MoveAnswered
<1>3. /\ m.answer \in {"moved", "failed"} /\ m.previous \in DealMaps /\ m.stage \in AllColumns
      /\ m.answer = "moved" => m.version \in 1..MaxDealVersion
      /\ m.deal \in BoardDeals /\ told \in [BoardDeals -> 0..MaxDealVersion]
      /\ DOMAIN board = {"pipeline", "deals"} /\ board.deals \in DealMaps
      /\ board.pipeline \in BoardPipeSet \cup {NotChosen}
  BY <1>2 DEF BoardInv, BoardShape, BoardTypeInv, BoardTypeOK, ReadsAndMovesTyped, AllColumns
<1>4. /\ board'.pipeline = board.pipeline /\ board'.deals \in DealMaps
      /\ told' \in [BoardDeals -> 0..MaxDealVersion] /\ boardError' \in {boardError, TRUE}
  <2>1. CASE m.answer = "failed"
    BY <1>2, <1>3, <2>1
  <2>2. CASE m.answer = "moved"
    <3>1. told' \in [BoardDeals -> 0..MaxDealVersion]
      <4>1. told' = [told EXCEPT ![m.deal] = IF m.version > told[m.deal] THEN m.version ELSE told[m.deal]]
        BY <1>2, <2>2
      <4>2. m.version \in 0..MaxDealVersion
        BY <1>3, <2>2
      <4> QED
        BY <1>3, <4>1, <4>2
    <3>2. PICK card : card = [stage |-> m.stage, version |-> m.version]
      OBVIOUS
    <3>3. card \in DealStates
      BY <1>3, <2>2, <3>2, DealStatesAre
    <3>4. CASE m.deal \in DOMAIN board.deals
      <4>1. board' = [board EXCEPT !.deals = [board.deals EXCEPT ![m.deal] = card]]
        BY <1>2, <2>2, <3>2, <3>4
      <4>2. board'.pipeline = board.pipeline /\ board'.deals = [board.deals EXCEPT ![m.deal] = card]
        BY <1>3, <4>1
      <4> QED
        BY <1>2, <1>3, <2>2, <3>1, <3>3, <3>4, <4>2, DealMapsAre
    <3>5. CASE m.deal \notin DOMAIN board.deals
      BY <1>2, <1>3, <2>2, <3>1, <3>5
    <3> QED
      BY <3>4, <3>5
  <2> QED
    BY <1>3, <2>1, <2>2
<1>5. {boardBusy', boardError', disturbed'} \subseteq BOOLEAN
  BY <1>1, <1>4 DEF BoardTypeInv, BoardTypeOK
<1>6. BoardTypeOK'
  BY <1>1, <1>2, <1>3, <1>4, <1>5 DEF BoardTypeInv, BoardTypeOK
<1>7. RoomForFirst' /\ ReadsAndMovesTyped'
  BY <1>1, <1>2 DEF BoardTypeInv, RoomForFirst, ReadsAndMovesTyped
<1> QED
  BY <1>6, <1>7 DEF BoardTypeInv

LEMMA BoardTypesInductive == BoardInv /\ BoardInv' /\ BoardTypeInv /\ [BoardNext]_boardVars => BoardTypeInv'
<1> SUFFICES ASSUME BoardInv, BoardInv', BoardTypeInv, [BoardNext]_boardVars PROVE BoardTypeInv'
  OBVIOUS
<1>1. CASE UNCHANGED boardVars
  BY <1>1 DEF boardVars, BoardTypeInv, BoardTypeOK, RoomForFirst, ReadsAndMovesTyped
<1> QED
  BY <1>1, PipelinesArriveTypes, ReadPageTypes, BoardArrivesTypes, BoardFailsTypes, ReloadTypes,
     MoveDealTypes, ServeMoveTypes, MoveAnsweredTypes, OthersMoveTypes DEF BoardNext

\* What the board shows, reads, moves and comes back to is at all times a whole
\* pipeline's deals or none, each at a stage that exists, within the bounds.
THEOREM BoardTypes == BoardSpec => []BoardTypeOK
<1>1. BoardTypeInv => BoardTypeOK
  BY DEF BoardTypeInv
<1> QED
  BY <1>1, BoardTypesInitial, BoardTypesInductive, BoardInvariant, PTL DEF BoardSpec

HIDE BoardAssumption

-----------------------------------------------------------------------------
(* The way of a call.                                                      *)

\* At most one endpoint serves a call.
LEMMA OneEndpoint == \A m, p : Endpoint(m, p) = {} \/ \E e : Endpoint(m, p) = {e}
  BY DEF Endpoint

\* So two of them serve two endpoints together at most.
LEMMA TwoEndpoints ==
  ASSUME NEW s, NEW t, s = {} \/ \E d : s = {d}, t = {} \/ \E e : t = {e}
  PROVE  Cardinality(s) <= 2 /\ Cardinality(s \cup t) <= 2
<1>1. IsFiniteSet(s) /\ Cardinality(s) \in {0, 1}
  <2>1. CASE s = {}
    BY <2>1, FS_EmptySet
  <2>2. CASE \E d : s = {d}
    BY <2>2, FS_Singleton
  <2> QED
    BY <2>1, <2>2
<1>2. CASE t = {}
  <2>1. s \cup t = s
    BY <1>2
  <2> QED
    BY <1>1, <2>1
<1>3. CASE t # {}
  <2>1. PICK e : t = {e}
    BY <1>3
  <2>2. Cardinality(s \cup {e}) \in {Cardinality(s), Cardinality(s) + 1}
    BY <1>1, FS_AddElement
  <2> QED
    BY <1>1, <2>1, <2>2
<1> QED
  BY <1>2, <1>3

\* A call that is not over was served by one endpoint at most.
ReachedInv ==
    /\ GatewayTypeOK
    /\ at = "me" => reached = {} \/ \E e \in reached : reached = {e}

LEMMA GatewayTypesInitial == GatewayInit => ReachedInv
<1> SUFFICES ASSUME GatewayInit PROVE ReachedInv
  OBVIOUS
<1>1. carried \in [cookies : BOOLEAN, header : BOOLEAN]
  BY DEF GatewayInit
<1>2. Cardinality(reached) <= 2 /\ at # "me"
  <2>1. Cardinality({}) = 0
    BY FS_EmptySet
  <2> QED
    BY <2>1 DEF GatewayInit
<1>3. GatewayTypeOK
  BY <1>1, <1>2 DEF GatewayInit, GatewayTypeOK
<1> QED
  BY <1>2, <1>3 DEF ReachedInv

LEMMA GatewayTypesInductive == ReachedInv /\ [GatewayNext]_gatewayVars => ReachedInv'
<1> SUFFICES ASSUME ReachedInv, [GatewayNext]_gatewayVars PROVE ReachedInv'
  OBVIOUS
<1> USE DEF ReachedInv
<1>1. CASE CookiesChange
  BY <1>1 DEF CookiesChange, GatewayTypeOK
<1>2. CASE Send
  <2>1. carried' \in [cookies : BOOLEAN, header : BOOLEAN]
    BY <1>2 DEF Send, GatewayTypeOK
  <2> QED
    BY <1>2, <2>1, FS_EmptySet DEF Send, GatewayTypeOK
<1>3. CASE Route
  <2>1. answer' \in {"404", "405", "403", "204", "401", "none"} /\ at' \in {"forwarded", "answered"}
    BY <1>3 DEF Route
  <2>2. UNCHANGED <<call, cookies, carried, reached, outcome>>
    BY <1>3 DEF Route
  <2> QED
    BY <2>1, <2>2 DEF GatewayTypeOK, Refusals, BackendAnswers, Succeeds
<1>4. CASE Serve
  <2>1. answer' \in NoAnswers \cup {"401", "4xx"} \cup BackendAnswers /\ at' \in {"me", "answered"}
    BY <1>4 DEF Serve
  <2>2. reached' = {} \/ \E e : reached' = {e}
    BY <1>4, OneEndpoint DEF Serve
  <2>3. UNCHANGED <<call, cookies, carried, outcome>>
    BY <1>4 DEF Serve
  <2>4. Cardinality(reached') <= 2
    BY <2>2, TwoEndpoints
  <2> QED
    BY <2>1, <2>2, <2>3, <2>4 DEF GatewayTypeOK, BackendAnswers
<1>5. CASE FetchUser
  <2>1. answer' \in NoAnswers \cup {"200"} /\ at' = "answered"
    BY <1>5 DEF FetchUser
  <2>2. reached = {} \/ \E e : reached = {e}
    BY <1>5 DEF FetchUser
  <2>3. reached' = reached \/ reached' = reached \cup Endpoint(Me.method, Me.path)
    BY <1>5 DEF FetchUser
  <2>4. Endpoint(Me.method, Me.path) = {} \/ \E e : Endpoint(Me.method, Me.path) = {e}
    BY OneEndpoint
  <2>5. Cardinality(reached') <= 2
    BY <2>2, <2>3, <2>4, TwoEndpoints
  <2>6. UNCHANGED <<call, cookies, carried, outcome>>
    BY <1>5 DEF FetchUser
  <2> QED
    BY <2>1, <2>5, <2>6 DEF GatewayTypeOK, BackendAnswers, Succeeds
<1>6. CASE Tell
  <2>1. answer \in {"none", "200", "204", "401", "4xx", "5xx", "timeout", "unavailable",
                    "invalid", "403", "404", "405"}
    BY DEF GatewayTypeOK, BackendAnswers, Succeeds, NoAnswers, Refusals
  <2>2. StatusOf(answer) \in {"none", "200", "204", "401", "4xx", "500", "502", "504",
                              "403", "404", "405"}
    BY <2>1 DEF StatusOf
  <2>3. outcome' \in {"none", "resolved", "500", "502", "504", "401", "4xx"} \cup Refusals
    BY <1>6, <2>2 DEF Tell, Succeeds, Refusals
  <2>4. UNCHANGED <<call, cookies, carried, reached, answer>> /\ at' = "told"
    BY <1>6 DEF Tell
  <2> QED
    BY <2>3, <2>4 DEF GatewayTypeOK
<1>7. CASE UNCHANGED gatewayVars
  BY <1>7 DEF gatewayVars, GatewayTypeOK
<1> QED
  BY <1>1, <1>2, <1>3, <1>4, <1>5, <1>6, <1>7 DEF GatewayNext

\* A call is at all times one a service makes, at one place of its way, with at
\* most two endpoints that served it and an answer that is a status or the lack of one.
THEOREM GatewayTypes == GatewaySpec => []GatewayTypeOK
<1>1. ReachedInv => GatewayTypeOK
  BY DEF ReachedInv
<1> QED
  BY <1>1, GatewayTypesInitial, GatewayTypesInductive, PTL DEF GatewaySpec

\* Why: a call on its way is a service's, its header copies the cookie, and nothing
\* but a login that succeeded goes on to fetch the user.
ArriveInv ==
    /\ at \in {"idle", "sent", "forwarded", "me", "answered", "told"}
    /\ at # "idle" => /\ call \in Calls
                      /\ carried.header = (carried.cookies /\ call.template.method \in Mutating)
    /\ at \in {"idle", "sent", "forwarded"} => answer = "none" /\ reached = {}
    /\ at # "told" => outcome = "none"
    /\ answer # "resolved"
    /\ at = "me" => call.template = Login /\ reached = {Login} /\ answer \in Succeeds
    /\ at = "answered" /\ answer \in Succeeds /\ call.template # Logout =>
          reached = Means(call.template)
    /\ CallsArrive

LEMMA AnswersApart ==
  /\ "none" \notin Refusals /\ "none" \notin BackendAnswers
  /\ \A a \in NoAnswers \cup BackendAnswers : a \notin Refusals
  /\ \A a \in NoAnswers : a \notin BackendAnswers
  /\ Succeeds \subseteq BackendAnswers /\ {"401", "4xx"} \subseteq BackendAnswers
  /\ "401" \notin Succeeds /\ "4xx" \notin Succeeds
  /\ "resolved" \notin BackendAnswers \cup NoAnswers \cup Refusals
  BY DEF Refusals, BackendAnswers, NoAnswers, Succeeds

\* A login means two endpoints, any other call one.
LEMMA MeansTemplate ==
  /\ \A t : t \in Means(t)
  /\ Me \in Means(Login) /\ Means(Login) = {Login, Me}
  /\ \A t : t # Login => Means(t) = {t}
  BY DEF Means

\* The user is fetched from the endpoint that is meant, as a service's call is.
LEMMA MeIsServed == Endpoint(Me.method, Me.path) = {Me}
<1> DEFINE c == [template |-> Me, path |-> Me.path]
<1>1. Me \in ServiceCalls
  BY DEF Me, ServiceCalls, AuthService, On
<1>2. Me.path \in PathsOf(Me.path)
  <2>1. Me.path = <<"auth", "me">> /\ DOMAIN Me.path = {1, 2}
    BY DEF Me
  <2>2. ValuesOf("auth") = {"auth"} /\ ValuesOf("me") = {"me"}
    BY DEF ValuesOf, Id, EntityType, Resource
  <2> QED
    BY <2>1, <2>2 DEF PathsOf
<1>3. c \in Calls
  BY <1>1, <1>2 DEF Calls
<1> QED
  BY <1>3, RoutesAssumption DEF RoutesAgree

LEMMA ArriveInitial == GatewayInit => ArriveInv
  BY AnswersApart DEF GatewayInit, ArriveInv, CallsArrive

\* A file refuses a call of a service only for want of a token, and answers itself
\* only one without cookies.
LEMMA ArriveRoute ==
  ASSUME ArriveInv, Route
  PROVE  ArriveInv'
<1>1. /\ call \in Calls /\ at = "sent" /\ at' \in {"forwarded", "answered"}
      /\ carried.header = (carried.cookies /\ call.template.method \in Mutating)
      /\ UNCHANGED <<call, cookies, carried, reached, outcome>>
  BY DEF ArriveInv, Route
<1>2. /\ Serving(call.path) # {}
      /\ ~\A f \in Serving(call.path) : call.template.method \notin f.methods
      /\ ~\A f \in Serving(call.path) : ~Allowed(f, call.path)
      /\ call.template.method \in Mutating \cup {"GET"}
  BY <1>1, RoutesAssumption DEF RoutesAgree
<1>3. MayPass \/ ~carried.cookies
  BY <1>1, <1>2 DEF MayPass
<1>4. /\ \/ answer' = "403" /\ ~MayPass
         \/ answer' = "204" /\ ~carried.cookies /\ call.template = Logout
         \/ answer' = "401" /\ ~carried.cookies /\ call.template # Login
         \/ answer' = "none"
      /\ at' = IF answer' = "none" THEN "forwarded" ELSE "answered"
  <2>1. PICK none \in BOOLEAN, refused \in BOOLEAN :
          /\ none = (\A f \in Serving(call.path) : call.template.method \notin f.methods)
          /\ refused = (\A f \in Serving(call.path) : ~Allowed(f, call.path))
    OBVIOUS
  <2>2. /\ answer' = CASE Serving(call.path) = {} -> "404"
                       [] none -> "405"
                       [] ~MayPass -> "403"
                       [] refused -> "404"
                       [] call.template = Logout /\ ~carried.cookies -> "204"
                       [] call.template # Login /\ ~carried.cookies -> "401"
                       [] OTHER -> "none"
        /\ at' = IF answer' = "none" THEN "forwarded" ELSE "answered"
    BY <2>1 DEF Route
  <2>3. Serving(call.path) # {} /\ ~none /\ ~refused
    BY <1>2, <2>1
  <2>4. Logout # Login
    BY DEF Logout, Login
  <2> QED
    BY <2>2, <2>3, <2>4
<1>5. reached = {} /\ outcome = "none"
  BY <1>1 DEF ArriveInv
<1>6. CASE answer' = "403"
  BY <1>1, <1>3, <1>4, <1>5, <1>6 DEF ArriveInv, CallsArrive, Refusals, BackendAnswers, Succeeds
<1>7. CASE answer' \in {"204", "401"}
  <2>1. Logout # Login /\ "401" \notin Succeeds
    BY DEF Logout, Login, Succeeds
  <2> QED
    BY <1>1, <1>4, <1>5, <1>7, <2>1 DEF ArriveInv, CallsArrive, Refusals
<1>8. CASE answer' = "none"
  BY <1>1, <1>4, <1>5, <1>8, AnswersApart DEF ArriveInv, CallsArrive
<1>9. answer' \in {"403", "204", "401", "none"}
  BY <1>4
<1> QED
  BY <1>6, <1>7, <1>8, <1>9

LEMMA ArriveInductive == ArriveInv /\ [GatewayNext]_gatewayVars => ArriveInv'
<1> SUFFICES ASSUME ArriveInv, [GatewayNext]_gatewayVars PROVE ArriveInv'
  OBVIOUS
<1>1. CASE CookiesChange
  BY <1>1 DEF CookiesChange, ArriveInv, CallsArrive
<1>2. CASE Send
  <2>1. carried'.cookies = cookies /\ carried'.header = (cookies /\ call'.template.method \in Mutating)
    BY <1>2 DEF Send
  <2> QED
    BY <1>2, <2>1, AnswersApart DEF Send, ArriveInv, CallsArrive
<1>3. CASE Route
  BY <1>3, ArriveRoute
<1>4. CASE Serve
  <2>1. /\ call \in Calls /\ UNCHANGED <<call, cookies, carried, outcome>> /\ outcome = "none"
        /\ carried.header = (carried.cookies /\ call.template.method \in Mutating)
    BY <1>4 DEF Serve, ArriveInv
  <2>2. Endpoint(call.template.method, call.path) = {call.template}
    BY <2>1, RoutesAssumption DEF RoutesAgree
  <2>3. \/ answer' \in NoAnswers \cup {"401"} /\ reached' \in {{}, {call.template}}
        \/ reached' = {call.template} /\ answer' \in BackendAnswers
    BY <1>4, <2>2 DEF Serve
  <2>4. at' = IF call.template = Login /\ answer' \in Succeeds THEN "me" ELSE "answered"
    BY <1>4 DEF Serve
  <2>5. answer' \notin Refusals \cup {"resolved"} /\ reached' \subseteq Means(call.template)
    BY <2>3, AnswersApart, MeansTemplate
  <2>6. answer' \in BackendAnswers \ {"401"} => reached' = {call.template}
    BY <2>3, AnswersApart
  <2>7. answer' \in Succeeds => answer' \in BackendAnswers \ {"401"}
    BY AnswersApart
  <2> QED
    BY <2>1, <2>4, <2>5, <2>6, <2>7, MeansTemplate DEF ArriveInv, CallsArrive
<1>5. CASE FetchUser
  <2>1. /\ call \in Calls /\ at' = "answered" /\ UNCHANGED <<call, cookies, carried, outcome>>
        /\ carried.header = (carried.cookies /\ call.template.method \in Mutating)
        /\ call.template = Login /\ reached = {Login} /\ outcome = "none"
    BY <1>5 DEF FetchUser, ArriveInv
  <2>2. \/ answer' \in NoAnswers /\ reached' \in {reached, reached \cup {Me}}
        \/ answer' = "200" /\ reached' = reached \cup {Me}
    BY <1>5, MeIsServed DEF FetchUser
  <2>3. answer' \notin Refusals \cup {"resolved"}
    BY <2>2, AnswersApart DEF Refusals
  <2>4. reached' \subseteq Means(Login) /\ Login \in reached'
    BY <2>1, <2>2, MeansTemplate
  <2>5. answer' \in Succeeds => reached' = Means(Login)
    BY <2>1, <2>2, AnswersApart, MeansTemplate
  <2> QED
    BY <2>1, <2>3, <2>4, <2>5 DEF ArriveInv, CallsArrive
<1>6. CASE Tell
  <2>1. /\ at = "answered" /\ at' = "told" /\ UNCHANGED <<call, cookies, carried, reached, answer>>
    BY <1>6 DEF Tell
  <2>2. outcome' = "resolved" /\ call.template # Logout => answer \in Succeeds
    <3>1. call.template # Logout => \/ StatusOf(answer) = answer
                                    \/ StatusOf(answer) \in {"500", "502", "504"}
      BY DEF StatusOf
    <3>2. \A a \in {"500", "502", "504"} : a \notin Succeeds /\ a # "resolved"
      BY DEF Succeeds
    <3> QED
      BY <1>6, <3>1, <3>2 DEF Tell, ArriveInv
  <2> QED
    BY <2>1, <2>2 DEF ArriveInv, CallsArrive
<1>7. CASE UNCHANGED gatewayVars
  BY <1>7 DEF gatewayVars, ArriveInv, CallsArrive
<1> QED
  BY <1>1, <1>2, <1>3, <1>4, <1>5, <1>6, <1>7 DEF GatewayNext

\* Every call of a service arrives at the endpoints it means and at no other, and
\* resolves only if it did, whatever logins, logouts, lost answers and refusals come
\* between its steps, given that the three lists agree (RoutesAgree, which TLC
\* evaluates for every call there is).
THEOREM GatewayCallsArrive == GatewaySpec => []CallsArrive
<1>1. ArriveInv => CallsArrive
  BY DEF ArriveInv
<1> QED
  BY <1>1, ArriveInitial, ArriveInductive, PTL DEF GatewaySpec
=============================================================================
