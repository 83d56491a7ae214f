------------------------- MODULE WorkflowKernel_proofs -------------------------
(***************************************************************************)
(* Proofs about WorkflowKernel for any runs, any number of steps and any   *)
(* number of crashes: that an accepted cancellation wins, that a run has   *)
(* one outcome, that no run is left without a pump, and what the files of  *)
(* the runs hold.                                                          *)
(***************************************************************************)
EXTENDS WorkflowKernel, TLAPS

\* What may be saved of a run: neither that it is running nor that it waits, and with a step left to
\* take unless it is over.
Images(r) ==
  {i \in Run : i.status \notin {"running", "waiting"} /\ (~isTerminalProcessStatus(i.status) => i.runs < Limit[r])}

\* The process at work is the one that the pump steps, and no other.
TableIsSound ==
  \A r \in RunIds :
    \/ proc[r] = NoRun
    \/ proc[r] \in Images(r)
    \/ /\ proc[r] \in Run /\ proc[r].status = "running" /\ proc[r].runs < Limit[r]
       /\ pump.stage = "step" /\ r \in pump.run

SavesAreSound ==
  \A s \in saves :
    /\ s.image \in Images(s.run)
    /\ s.by = "step" => /\ pump.stage = "save" /\ s.run \in pump.run /\ s.image = pump.image

FilesAreSound == \A r \in RunIds : file[r] \in Images(r) \cup {NoRun, Torn}

PumpIsSound ==
  /\ \A r, q \in pump.run : r = q
  /\ pump.stage \in {"down", "idle", "reconcile", "again"} => pump.run = {}
  /\ pump.stage = "step" => \A r \in pump.run : proc[r].status = "running" /\ proc[r] \in Run
  /\ pump.stage = "save" => \A r \in pump.run : pump.image \in Images(r) /\ proc[r] \in Images(r)
  /\ pump.stage = "remove" => \A r \in pump.run : proc[r] = NoRun
  /\ pump.stage \in {"archive", "remove"} => \A r \in pump.run : completed[r] # "none"
  /\ pump.stage \in {"reconcile", "archive", "remove"} =>
       \A r \in pump.todo : Live(r) /\ completed[r] = "none"

DownIsEmpty ==
  pump.stage = "down" =>
    /\ saves = {} /\ told = {}
    /\ \A r \in RunIds : proc[r] = NoRun /\ completed[r] = "none"

CompletedIsGone ==
  \A r \in RunIds :
    completed[r] # "none" => ~Live(r) \/ (pump.stage = "archive" /\ r \in pump.run)

CancelsAreKept ==
  \A r \in told : completed[r] = "cancelled" \/ (completed[r] = "none" /\ r \in cancelRequested)

\* A run that is over is about to be finalized, and without a pump there is none.
OverIsSeen ==
  \A r \in RunIds : isTerminalProcessStatus(proc[r].status) =>
    /\ pump.stage # "idle"
    /\ pump.stage \in {"reconcile", "archive", "remove"} => r \in pump.todo \cup pump.run

ReadyIsScheduled ==
  pump.stage = "idle" /\ ~timer /\ ~disposed =>
    \A r \in RunIds : proc[r].status = "ready" => SavesOf(r) # {}

\* Of a run whose saves have not crossed: one save at most is under way, of what
\* the table holds; without one the file has that.
FilesAreCurrent ==
  \A r \in RunIds \ crossed :
    /\ \A s, t \in SavesOf(r) : s = t
    /\ pump.stage = "save" /\ r \in pump.run => \E s \in SavesOf(r) : s.by = "step"
    /\ pump.stage = "remove" /\ r \in pump.run => SavesOf(r) = {}
    /\ ~(pump.stage = "step" /\ r \in pump.run) => \A s \in SavesOf(r) : s.image = proc[r]
    /\ SavesOf(r) = {} /\ pump.stage # "down"
         /\ ~(pump.stage \in {"step", "remove"} /\ r \in pump.run) => file[r] = proc[r]

\* The inductive invariant.
WorkflowIsSound ==
  /\ TypeOK /\ TableIsSound /\ SavesAreSound /\ FilesAreSound /\ PumpIsSound
  /\ DownIsEmpty /\ CompletedIsGone /\ CancelsAreKept
  /\ OverIsSeen /\ ReadyIsScheduled /\ FilesAreCurrent

-----------------------------------------------------------------------------
\* What may be saved is an image of the run; the null records are not.
LEMMA ImagesOfRuns ==
  ASSUME NEW r \in RunIds
  PROVE  /\ NewRun \in Images(r) /\ NewRun.status = "ready"
         /\ NoRun \notin Run /\ Torn \notin Run /\ Torn # NoRun /\ NoRun.status = "none"
         /\ Images(r) \subseteq Run
         /\ \A i \in Images(r) : i.status = "suspended" => [i EXCEPT !.status = "ready"] \in Images(r)
<1>1. Limit[r] \in 1..MaxRuns /\ MaxRuns \in Nat
  BY WorkflowAssumption
<1>2. NewRun \in Images(r) /\ NewRun.status = "ready"
  BY <1>1 DEF NewRun, Images, Run, ProcessStatus, isTerminalProcessStatus
<1>3. NoRun \notin Run /\ Torn \notin Run /\ Torn # NoRun /\ NoRun.status = "none"
  <2>1. NoRun.status = "none" /\ Torn.status = "torn"
    BY DEF NoRun, Torn
  <2> QED
    BY <2>1 DEF Run, ProcessStatus
<1>4. ASSUME NEW i \in Images(r), i.status = "suspended"
      PROVE  [i EXCEPT !.status = "ready"] \in Images(r)
  BY <1>4 DEF Images, Run, ProcessStatus, isTerminalProcessStatus
<1> QED
  BY <1>2, <1>3, <1>4 DEF Images

\* A step of a running process leaves an image of it, whatever it returns.
LEMMA ImagesOfSteps ==
  ASSUME NEW r \in RunIds, NEW p \in Run, p.runs < Limit[r],
         NEW status \in ProcessStatus \ {"running", "waiting"}, NEW shown \in {"running", "suspended", "done", "error"},
         p.runs + 1 = Limit[r] => isTerminalProcessStatus(status)
  PROVE  [status |-> status, shown |-> shown, runs |-> p.runs + 1] \in Images(r)
<1>1. Limit[r] \in 1..MaxRuns /\ MaxRuns \in Nat /\ p.runs \in Nat
  BY WorkflowAssumption DEF Run
<1>2. p.runs + 1 \in 0..MaxRuns
  BY <1>1
<1> QED
  BY <1>1, <1>2 DEF Images, Run

\* A save that begins crosses the others of its run, and those of no other run.
LEMMA SaveBeginning ==
  ASSUME saves \subseteq [run : RunIds, by : {"start", "resume", "step"}, image : Run],
         crossed \subseteq RunIds,
         NEW r \in RunIds, NEW by \in {"start", "resume", "step"}, NEW image \in Run,
         SaveBegins(r, by, image)
  PROVE  /\ saves' \subseteq [run : RunIds, by : {"start", "resume", "step"}, image : Run]
         /\ crossed' \subseteq RunIds /\ file' = file
         /\ saves' = saves \cup {[run |-> r, by |-> by, image |-> image]}
         /\ \A q \in RunIds \ {r} : SavesOf(q)' = SavesOf(q)
         /\ SavesOf(r)' = SavesOf(r) \cup {[run |-> r, by |-> by, image |-> image]}
         /\ crossed \subseteq crossed' /\ (r \notin crossed' => SavesOf(r) = {})
BY DEF SaveBegins, SavesOf

\* A save that lands is over, and its file is sound; without crossing it is what
\* was saved.
LEMMA SaveLanding ==
  ASSUME WorkflowIsSound, NEW s \in saves, SaveLands(s)
  PROVE  /\ saves' = saves \ {s} /\ crossed' = crossed
         /\ FilesAreSound' /\ file' \in [RunIds -> Run \cup {NoRun, Torn}]
         /\ \A q \in RunIds \ {s.run} : SavesOf(q)' = SavesOf(q) /\ file'[q] = file[q]
         /\ SavesOf(s.run)' = SavesOf(s.run) \ {s}
         /\ s.run \in RunIds /\ s \in SavesOf(s.run)
         /\ s.run \notin crossed => file'[s.run] = s.image /\ SavesOf(s.run) = {s}
<1>1. s.run \in RunIds /\ s \in SavesOf(s.run) /\ file \in [RunIds -> Run \cup {NoRun, Torn}]
  BY DEF WorkflowIsSound, TypeOK, SavesOf
<1>2. PICK image \in Landed(s) : file' = [file EXCEPT ![s.run] = image]
  BY DEF SaveLands
<1>3. Landed(s) \subseteq Images(s.run) \cup {NoRun, Torn}
  <2>1. \A t \in SavesOf(s.run) : t.image \in Images(s.run)
    BY DEF WorkflowIsSound, SavesAreSound, SavesOf
  <2> QED
    BY <1>1, <2>1 DEF Landed, WorkflowIsSound, FilesAreSound
<1>4. FilesAreSound' /\ file' \in [RunIds -> Run \cup {NoRun, Torn}]
  <2>1. \A q \in RunIds : Images(q)' = Images(q) /\ Images(q) \subseteq Run
    BY DEF Images
  <2>2. file'[s.run] \in Images(s.run) \cup {NoRun, Torn}
    BY <1>1, <1>2, <1>3
  <2>3. \A q \in RunIds \ {s.run} : file'[q] = file[q]
    BY <1>1, <1>2
  <2>4. \A q \in RunIds : file'[q] \in Images(q) \cup {NoRun, Torn}
    BY <2>2, <2>3 DEF WorkflowIsSound, FilesAreSound
  <2> QED
    BY <1>1, <1>2, <2>1, <2>4 DEF FilesAreSound
<1>5. ASSUME s.run \notin crossed
      PROVE  file'[s.run] = s.image /\ SavesOf(s.run) = {s}
  BY <1>1, <1>2, <1>5 DEF Landed, WorkflowIsSound, FilesAreCurrent
<1> QED
  BY <1>1, <1>2, <1>4, <1>5 DEF SaveLands, SavesOf

-----------------------------------------------------------------------------
\* startWorkflow(), retryFromStep() and skipStep().
LEMMA CreateIsSound ==
  ASSUME WorkflowIsSound, NEW r \in RunIds, Open, Fresh(r), Create(r)
  PROVE  WorkflowIsSound'
<1> USE DEF WorkflowIsSound
<1> DEFINE new == [run |-> r, by |-> "start", image |-> NewRun]
<1>1. /\ NewRun \in Images(r) /\ NewRun \in Run /\ NewRun.status = "ready"
      /\ NewRun # NoRun /\ NoRun.status = "none"
  BY ImagesOfRuns
<1>2. /\ saves' \subseteq [run : RunIds, by : {"start", "resume", "step"}, image : Run]
      /\ crossed' \subseteq RunIds /\ file' = file
      /\ saves' = saves \cup {new} /\ crossed \subseteq crossed'
      /\ \A q \in RunIds \ {r} : SavesOf(q)' = SavesOf(q)
      /\ SavesOf(r)' = SavesOf(r) \cup {new} /\ SavesOf(r) = {}
  <2>1. SaveBegins(r, "start", NewRun)
    BY DEF Create
  <2> QED
    BY <1>1, <2>1, SaveBeginning DEF TypeOK, Fresh
<1>3. /\ proc' = [proc EXCEPT ![r] = NewRun] /\ proc[r] = NoRun
      /\ completed[r] = "none" /\ pump.stage # "down"
  BY DEF Create, Fresh, Live, Open
<1>4. proc'[r] = NewRun /\ \A q \in RunIds \ {r} : proc'[q] = proc[q]
  BY <1>3 DEF TypeOK
<1>5. /\ pump' = pump /\ timer' = timer /\ completed' = completed /\ told' = told
      /\ cancelRequested' = cancelRequested /\ disposed' = disposed
  BY DEF Create, lifeVars
<1>6. \A q \in RunIds : Images(q)' = Images(q)
  BY DEF Images
<1>7. pump.stage \in {"step", "save", "remove"} => r \notin pump.run
  BY <1>1, <1>3, ImagesOfRuns DEF PumpIsSound
<1>8. TypeOK'
  BY <1>1, <1>2, <1>3 DEF TypeOK, Create, waitVars, lifeVars
<1>9. TableIsSound' /\ SavesAreSound' /\ FilesAreSound'
  <2>1. TableIsSound'
    BY <1>1, <1>4, <1>5, <1>6 DEF TableIsSound
  <2>2. SavesAreSound'
    BY <1>1, <1>2, <1>5, <1>6 DEF SavesAreSound, TypeOK
  <2> QED
    BY <1>2, <1>6, <2>1, <2>2 DEF FilesAreSound
<1>10. PumpIsSound' /\ DownIsEmpty' /\ CompletedIsGone' /\ CancelsAreKept'
  <2>1. PumpIsSound'
    BY <1>1, <1>3, <1>4, <1>5, <1>6 DEF PumpIsSound, Live
  <2>2. CompletedIsGone'
    BY <1>3, <1>4, <1>5 DEF CompletedIsGone, Live
  <2> QED
    BY <1>3, <1>5, <2>1, <2>2 DEF DownIsEmpty, CancelsAreKept
<1>11. OverIsSeen' /\ ReadyIsScheduled'
  BY <1>1, <1>2, <1>4, <1>5 DEF OverIsSeen, ReadyIsScheduled, isTerminalProcessStatus
<1>12. FilesAreCurrent'
  <2> SUFFICES ASSUME NEW q \in RunIds \ crossed'
               PROVE  FilesAreCurrent!(q)'
    BY DEF FilesAreCurrent
  <2>1. CASE q = r
    <3>1. SavesOf(q)' = {new} /\ new.image = NewRun /\ proc'[q] = NewRun
      BY <1>2, <1>4, <2>1
    <3>2. pump'.stage \in {"step", "save", "remove"} => q \notin pump'.run
      BY <1>5, <1>7, <2>1
    <3> QED
      BY <3>1, <3>2
  <2>2. CASE q # r
    BY <1>2, <1>4, <1>5, <2>2 DEF FilesAreCurrent
  <2> QED
    BY <2>1, <2>2
<1> QED
  BY <1>8, <1>9, <1>10, <1>11, <1>12

\* The save of a start or of a resumption is done.
LEMMA ClientSaveIsSound ==
  ASSUME WorkflowIsSound, NEW s \in saves, startWorkflowReturns(s) \/ resumeRunGoesOn(s)
  PROVE  WorkflowIsSound'
<1> USE DEF WorkflowIsSound
<1>1. /\ saves' = saves \ {s} /\ crossed' = crossed
      /\ FilesAreSound' /\ file' \in [RunIds -> Run \cup {NoRun, Torn}]
      /\ \A q \in RunIds \ {s.run} : SavesOf(q)' = SavesOf(q) /\ file'[q] = file[q]
      /\ SavesOf(s.run)' = SavesOf(s.run) \ {s}
      /\ s.run \in RunIds /\ s \in SavesOf(s.run)
      /\ s.run \notin crossed => file'[s.run] = s.image /\ SavesOf(s.run) = {s}
  BY SaveLanding DEF startWorkflowReturns, resumeRunGoesOn
<1>2. /\ proc' = proc /\ pump' = pump /\ completed' = completed /\ told' = told
      /\ cancelRequested' = cancelRequested /\ disposed' = disposed /\ s.by # "step"
      /\ timer' \in BOOLEAN /\ (timer => timer')
      /\ pump.stage = "idle" /\ ~disposed => timer'
  BY DEF startWorkflowReturns, resumeRunGoesOn, SchedulePump, lifeVars, TypeOK
<1>3. \A q \in RunIds : Images(q)' = Images(q)
  BY DEF Images
<1>4. TypeOK'
  <2>1. forced' \in [RunIds -> {"none", "running", "cancelled"}] /\ resuming' \subseteq RunIds
    BY <1>1 DEF startWorkflowReturns, resumeRunGoesOn, TypeOK, waitVars
  <2> QED
    BY <1>1, <1>2, <2>1 DEF TypeOK, startWorkflowReturns, resumeRunGoesOn, waitVars, lifeVars
<1>5. TableIsSound' /\ SavesAreSound' /\ PumpIsSound' /\ DownIsEmpty'
  BY <1>1, <1>2, <1>3
     DEF TableIsSound, SavesAreSound, PumpIsSound, DownIsEmpty, Live
<1>6. CompletedIsGone' /\ CancelsAreKept' /\ OverIsSeen' /\ ReadyIsScheduled'
  BY <1>1, <1>2 DEF CompletedIsGone, CancelsAreKept, OverIsSeen, ReadyIsScheduled, Live
<1>7. FilesAreCurrent'
  <2> SUFFICES ASSUME NEW q \in RunIds \ crossed'
               PROVE  FilesAreCurrent!(q)'
    BY DEF FilesAreCurrent
  <2>1. CASE q = s.run
    <3>1. SavesOf(q)' = {} /\ file'[q] = s.image /\ SavesOf(q) = {s}
      BY <1>1, <2>1
    <3>2. ~(pump.stage = "step" /\ q \in pump.run) => s.image = proc[q]
      BY <1>1, <3>1 DEF FilesAreCurrent
    <3>3. ~(pump.stage = "save" /\ q \in pump.run)
      BY <1>1, <1>2, <3>1 DEF FilesAreCurrent
    <3> QED
      BY <1>2, <3>1, <3>2, <3>3
  <2>2. CASE q # s.run
    BY <1>1, <1>2, <2>2 DEF FilesAreCurrent
  <2> QED
    BY <2>1, <2>2
<1> QED
  BY <1>1, <1>4, <1>5, <1>6, <1>7

\* A cancellation is noted.
LEMMA CancelIsSound ==
  ASSUME WorkflowIsSound, NEW r \in RunIds, cancelRun(r)
  PROVE  WorkflowIsSound'
<1> USE DEF WorkflowIsSound
<1>1. /\ proc' = proc /\ pump' = pump /\ completed' = completed /\ disposed' = disposed
      /\ saves' = saves /\ file' = file /\ crossed' = crossed
      /\ cancelRequested' = cancelRequested \cup {r} /\ pump.stage # "down"
      /\ told' = IF completed[r] = "none" THEN told \cup {r} ELSE told
      /\ timer' \in BOOLEAN /\ (timer => timer')
  BY DEF cancelRun, diskVars, lifeVars, SchedulePump, TypeOK, Open
<1>2. \A q \in RunIds : Images(q)' = Images(q) /\ SavesOf(q)' = SavesOf(q)
  BY <1>1 DEF Images, SavesOf
<1>3. TypeOK'
  BY <1>1 DEF TypeOK, cancelRun, waitVars, lifeVars
<1>4. TableIsSound' /\ SavesAreSound' /\ FilesAreSound' /\ PumpIsSound' /\ DownIsEmpty'
  BY <1>1, <1>2
     DEF TypeOK, TableIsSound, SavesAreSound, FilesAreSound, PumpIsSound, DownIsEmpty, Live
<1>5. CompletedIsGone' /\ OverIsSeen' /\ ReadyIsScheduled'
  BY <1>1, <1>2 DEF CompletedIsGone, OverIsSeen, ReadyIsScheduled, Live
<1>6. CancelsAreKept'
  BY <1>1 DEF CancelsAreKept
<1>7. FilesAreCurrent'
  BY <1>1, <1>2 DEF FilesAreCurrent
<1> QED
  BY <1>3, <1>4, <1>5, <1>6, <1>7

\* A suspended process is made ready.
LEMMA ResumeIsSound ==
  ASSUME WorkflowIsSound, NEW r \in RunIds, resumeRun(r)
  PROVE  WorkflowIsSound'
<1> USE DEF WorkflowIsSound
<1> DEFINE image == [proc[r] EXCEPT !.status = "ready"]
           new == [run |-> r, by |-> "resume", image |-> image]
<1>1. /\ proc[r] \in Images(r) /\ proc[r].status = "suspended" /\ proc[r] # NoRun
      /\ image \in Images(r) /\ image \in Run /\ image.status = "ready" /\ image # NoRun
  <2>1. proc[r].status = "suspended"
    BY DEF resumeRun
  <2>2. proc[r] \in Images(r)
    BY <2>1, ImagesOfRuns DEF TableIsSound
  <2>3. image \in Images(r)
    BY <2>1, <2>2, ImagesOfRuns
  <2> QED
    BY <2>1, <2>2, <2>3, ImagesOfRuns DEF Images, Run
<1> HIDE DEF image
<1>2. /\ proc' = [proc EXCEPT ![r] = image] /\ SaveBegins(r, "resume", image)
      /\ pump' = pump /\ timer' = timer /\ completed' = completed /\ told' = told
      /\ cancelRequested' = cancelRequested /\ disposed' = disposed /\ pump.stage # "down"
  BY DEF resumeRun, lifeVars, image, Open, TypeOK
<1>3. /\ saves' \subseteq [run : RunIds, by : {"start", "resume", "step"}, image : Run]
      /\ crossed' \subseteq RunIds /\ file' = file
      /\ saves' = saves \cup {new} /\ crossed \subseteq crossed'
      /\ \A q \in RunIds \ {r} : SavesOf(q)' = SavesOf(q)
      /\ SavesOf(r)' = SavesOf(r) \cup {new} /\ (r \notin crossed' => SavesOf(r) = {})
  BY <1>1, <1>2, SaveBeginning DEF TypeOK
<1>4. proc'[r] = image /\ \A q \in RunIds \ {r} : proc'[q] = proc[q]
  BY <1>2 DEF TypeOK
<1>5. \A q \in RunIds : Images(q)' = Images(q)
  BY DEF Images
<1>6. TypeOK'
  BY <1>1, <1>2, <1>3 DEF TypeOK, resumeRun, waitVars, lifeVars
<1>7. TableIsSound' /\ SavesAreSound' /\ FilesAreSound'
  <2>1. TableIsSound'
    BY <1>1, <1>2, <1>4, <1>5 DEF TableIsSound
  <2>2. SavesAreSound'
    BY <1>1, <1>2, <1>3, <1>5 DEF SavesAreSound, TypeOK
  <2> QED
    BY <1>3, <1>5, <2>1, <2>2 DEF FilesAreSound
<1>8. PumpIsSound'
  BY <1>1, <1>2, <1>4, <1>5 DEF PumpIsSound, Live
<1>9. DownIsEmpty' /\ CompletedIsGone' /\ CancelsAreKept'
  BY <1>1, <1>2, <1>4 DEF DownIsEmpty, CompletedIsGone, CancelsAreKept, Live
<1>10. OverIsSeen' /\ ReadyIsScheduled'
  BY <1>1, <1>2, <1>3, <1>4 DEF OverIsSeen, ReadyIsScheduled, isTerminalProcessStatus
<1>11. FilesAreCurrent'
  <2> SUFFICES ASSUME NEW q \in RunIds \ crossed'
               PROVE  FilesAreCurrent!(q)'
    BY DEF FilesAreCurrent
  <2>1. CASE q = r
    <3>1. SavesOf(q)' = {new} /\ new.image = image /\ proc'[q] = image /\ SavesOf(q) = {}
      BY <1>3, <1>4, <2>1
    <3>2. ~(pump.stage = "save" /\ q \in pump.run) /\ ~(pump.stage = "remove" /\ q \in pump.run)
      BY <1>1, <1>3, <2>1, <3>1 DEF FilesAreCurrent, PumpIsSound
    <3> QED
      BY <1>2, <3>1, <3>2
  <2>2. CASE q # r
    BY <1>2, <1>3, <1>4, <2>2 DEF FilesAreCurrent
  <2> QED
    BY <2>1, <2>2
<1> QED
  BY <1>6, <1>7, <1>8, <1>9, <1>10, <1>11

\* Waiting for a run and the end of the service leave runs and pump alone.
LEMMA WaitingIsSound ==
  ASSUME WorkflowIsSound,
         \/ \E r \in RunIds : waitForCompletion(r) \/ ArchiveSearched(r)
         \/ dispose \/ UNCHANGED vars
  PROVE  WorkflowIsSound'
<1> USE DEF WorkflowIsSound
<1>1. /\ proc' = proc /\ pump' = pump /\ completed' = completed
      /\ saves' = saves /\ file' = file /\ crossed' = crossed
      /\ cancelRequested' = cancelRequested /\ told' = told
      /\ (disposed' = disposed /\ timer' = timer) \/ disposed'
  BY DEF waitForCompletion, ArchiveSearched, dispose, vars, diskVars, lifeVars
<1>2. \A q \in RunIds : Images(q)' = Images(q) /\ SavesOf(q)' = SavesOf(q)
  BY <1>1 DEF Images, SavesOf
<1>3. TypeOK'
  BY <1>1 DEF TypeOK, waitForCompletion, ArchiveSearched, dispose, vars, waitVars, lifeVars
<1>4. TableIsSound' /\ SavesAreSound' /\ FilesAreSound' /\ PumpIsSound' /\ DownIsEmpty'
  BY <1>1, <1>2
     DEF TypeOK, TableIsSound, SavesAreSound, FilesAreSound, PumpIsSound, DownIsEmpty, Live
<1>5. CompletedIsGone' /\ CancelsAreKept' /\ OverIsSeen' /\ ReadyIsScheduled'
  BY <1>1, <1>2 DEF CompletedIsGone, CancelsAreKept, OverIsSeen, ReadyIsScheduled, Live
<1>6. FilesAreCurrent'
  BY <1>1, <1>2 DEF FilesAreCurrent
<1> QED
  BY <1>3, <1>4, <1>5, <1>6

\* A pump starts, looks again, or ends: the table is as it was.
LEMMA PumpTurnIsSound ==
  ASSUME WorkflowIsSound, PumpStarts \/ PumpReconcilesAgain \/ PumpEnds
  PROVE  WorkflowIsSound'
<1> USE DEF WorkflowIsSound
<1>1. /\ proc' = proc /\ completed' = completed /\ disposed' = disposed
      /\ saves' = saves /\ file' = file /\ crossed' = crossed
      /\ cancelRequested' = cancelRequested /\ told' = told
  BY DEF PumpStarts, PumpReconcilesAgain, PumpEnds, diskVars, lifeVars
<1>2. \A q \in RunIds : Images(q)' = Images(q) /\ SavesOf(q)' = SavesOf(q)
  BY <1>1 DEF Images, SavesOf
<1> DEFINE live == {r \in RunIds : Live(r)}
<1>3. NoPump = [stage |-> "idle", round |-> 1, todo |-> {}, run |-> {}, image |-> NoRun]
  BY DEF NoPump, PumpAt
<1>4. live \subseteq RunIds
  BY DEF live
<1> HIDE DEF live
<1>5. /\ pump.stage \in {"idle", "again", "reconcile"}
      /\ pump'.stage \in {"idle", "reconcile"} /\ pump'.run = {}
      /\ pump'.stage = "reconcile" => pump'.todo = live
      /\ pump' \in [stage : {"idle", "reconcile"}, round : 0..2, todo : SUBSET RunIds,
                    run : SUBSET RunIds, image : Run \cup {NoRun}]
  <2>1. CASE PumpStarts
    <3>1. /\ pump.stage = "idle"
          /\ pump' = Reconciling(1, live)
      BY <2>1, Zenon DEF PumpStarts, live
    <3> QED
      BY <1>4, <3>1 DEF Reconciling
  <2>2. CASE PumpReconcilesAgain
    <3>1. /\ pump.stage = "again"
          /\ pump' = Reconciling(2, live)
      BY <2>2, Zenon DEF PumpReconcilesAgain, live
    <3> QED
      BY <1>4, <3>1 DEF Reconciling
  <2>3. CASE PumpEnds
    BY <1>3, <2>3 DEF PumpEnds, Reconciled
  <2> QED
    BY <2>1, <2>2, <2>3
<1>6. TypeOK'
  <2>1. /\ timer' \in BOOLEAN /\ resuming' \subseteq RunIds
        /\ forced' = forced /\ archived' = archived /\ finding' = finding /\ waiting' = waiting
        /\ crashes' = crashes
    BY DEF TypeOK, PumpStarts, PumpReconcilesAgain, PumpEnds, waitVars, lifeVars
  <2> QED
    BY <1>1, <1>5, <2>1 DEF TypeOK
<1>7. TableIsSound' /\ SavesAreSound' /\ FilesAreSound' /\ DownIsEmpty' /\ CancelsAreKept'
  BY <1>1, <1>2, <1>5
     DEF TypeOK, TableIsSound, SavesAreSound, FilesAreSound, DownIsEmpty, CancelsAreKept
<1>8. CompletedIsGone' /\ PumpIsSound'
  BY <1>1, <1>5 DEF CompletedIsGone, PumpIsSound, Live, live
<1>9. OverIsSeen' /\ ReadyIsScheduled'
  <2>1. CASE pump'.stage = "reconcile"
    BY <1>1, <1>5, <2>1, ImagesOfRuns
       DEF OverIsSeen, ReadyIsScheduled, Live, live, isTerminalProcessStatus
  <2>2. CASE PumpEnds
    <3>1. pump.stage = "reconcile" /\ pump.run = {} /\ \A r \in pump.todo : OutcomeOf(r) = "none"
      BY <2>2 DEF PumpEnds, Reconciled, PumpIsSound
    <3>2. \A r \in RunIds : ~isTerminalProcessStatus(proc[r].status)
      <4> SUFFICES ASSUME NEW r \in RunIds, isTerminalProcessStatus(proc[r].status) PROVE FALSE
        OBVIOUS
      <4>1. OutcomeOf(r) = "none"
        BY <3>1 DEF OverIsSeen
      <4>2. proc[r] \in Run
        BY ImagesOfRuns DEF TypeOK, isTerminalProcessStatus
      <4>3. proc[r].shown # "none"
        BY <4>2 DEF Run
      <4> QED
        BY <4>1, <4>3 DEF OutcomeOf
    <3>3. timer' = (~disposed /\ (NextPumpNeeded \/ resuming # {}))
      BY <2>2 DEF PumpEnds
    <3> QED
      BY <1>1, <1>5, <3>2, <3>3 DEF OverIsSeen, ReadyIsScheduled, NextPumpNeeded
  <2> QED
    BY <2>1, <2>2 DEF PumpStarts, PumpReconcilesAgain, Reconciling
<1>10. FilesAreCurrent'
  BY <1>1, <1>2, <1>5 DEF FilesAreCurrent
<1> QED
  BY <1>6, <1>7, <1>8, <1>9, <1>10

\* The next run that is over or cancelled gets its outcome.
LEMMA FinalizeIsSound ==
  ASSUME WorkflowIsSound, FinalizeBegins
  PROVE  WorkflowIsSound'
<1> USE DEF WorkflowIsSound
<1>1. PICK r \in pump.todo, passed \in SUBSET pump.todo :
        /\ r \notin passed /\ OutcomeOf(r) # "none"
        /\ \A p \in passed : OutcomeOf(p) = "none"
        /\ pump' = [pump EXCEPT !.stage = "archive", !.todo = @ \ (passed \cup {r}), !.run = {r}]
        /\ completed' = [completed EXCEPT ![r] = OutcomeOf(r)]
        /\ cancelRequested' = cancelRequested \ {r}
        /\ forced' = [forced EXCEPT ![r] = "none"]
        /\ waiting' = waiting \ {r}
  BY DEF FinalizeBegins
<1>2. /\ proc' = proc /\ disposed' = disposed /\ timer' = timer
      /\ saves' = saves /\ file' = file /\ crossed' = crossed /\ told' = told
      /\ pump.stage = "reconcile" /\ pump.run = {}
  BY DEF FinalizeBegins, diskVars, lifeVars, PumpIsSound
<1>3. \A q \in RunIds : Images(q)' = Images(q) /\ SavesOf(q)' = SavesOf(q)
  BY <1>2 DEF Images, SavesOf
<1>4. r \in RunIds /\ Live(r) /\ completed[r] = "none" /\ proc[r] \in Run
  BY <1>2 DEF PumpIsSound, TypeOK, Live
<1>5. OutcomeOf(r) \in Outcomes
  BY <1>4 DEF OutcomeOf, Outcomes, Run
<1>6. /\ pump'.stage = "archive" /\ pump'.run = {r} /\ pump'.round = pump.round
      /\ pump'.todo = pump.todo \ (passed \cup {r}) /\ pump'.image = pump.image
      /\ pump' \in [stage : {"archive"}, round : 0..2, todo : SUBSET RunIds,
                    run : SUBSET RunIds, image : Run \cup {NoRun}]
  BY <1>1, <1>4 DEF TypeOK
<1>7. completed'[r] = OutcomeOf(r) /\ \A q \in RunIds \ {r} : completed'[q] = completed[q]
  BY <1>1, <1>4 DEF TypeOK
<1>8. \A p \in passed : ~isTerminalProcessStatus(proc[p].status)
  <2> SUFFICES ASSUME NEW p \in passed, isTerminalProcessStatus(proc[p].status) PROVE FALSE
    OBVIOUS
  <2>1. proc[p] \in Run
    BY ImagesOfRuns DEF TypeOK, isTerminalProcessStatus
  <2> QED
    BY <1>1, <2>1 DEF OutcomeOf, Run
<1>9. TypeOK'
  <2>1. /\ completed' \in [RunIds -> Outcomes] /\ cancelRequested' \subseteq RunIds
        /\ forced' \in [RunIds -> {"none", "running", "cancelled"}] /\ waiting' \subseteq RunIds
    BY <1>1, <1>4, <1>5 DEF TypeOK
  <2> QED
    BY <1>2, <1>6, <2>1 DEF TypeOK, FinalizeBegins, lifeVars
<1>10. TableIsSound' /\ SavesAreSound' /\ FilesAreSound' /\ DownIsEmpty'
  BY <1>2, <1>3, <1>6
     DEF TypeOK, TableIsSound, SavesAreSound, FilesAreSound, DownIsEmpty
<1>11. PumpIsSound' /\ CompletedIsGone'
  BY <1>1, <1>2, <1>4, <1>6, <1>7 DEF PumpIsSound, CompletedIsGone, Live, TypeOK
<1>12. CancelsAreKept'
  <2> SUFFICES ASSUME NEW q \in told
               PROVE  \/ completed'[q] = "cancelled"
                      \/ completed'[q] = "none" /\ q \in cancelRequested'
    BY <1>2 DEF CancelsAreKept
  <2>1. CASE q = r
    <3>1. r \in cancelRequested
      BY <1>4, <2>1 DEF CancelsAreKept
    <3>2. OutcomeOf(r) = "cancelled"
      BY <1>1, <3>1 DEF OutcomeOf, isTerminalProcessStatus
    <3> QED
      BY <1>7, <2>1, <3>2
  <2>2. CASE q # r
    BY <1>1, <1>7, <2>2 DEF CancelsAreKept, TypeOK
  <2> QED
    BY <2>1, <2>2
<1>13. OverIsSeen' /\ ReadyIsScheduled'
  BY <1>2, <1>6, <1>8 DEF OverIsSeen, ReadyIsScheduled
<1>14. FilesAreCurrent'
  BY <1>2, <1>3, <1>6 DEF FilesAreCurrent
<1> QED
  BY <1>9, <1>10, <1>11, <1>12, <1>13, <1>14

\* The finalized run leaves the table.
LEMMA ArchiveIsSound ==
  ASSUME WorkflowIsSound, RunArchived
  PROVE  WorkflowIsSound'
<1> USE DEF WorkflowIsSound
<1>1. PICK r \in pump.run, failed \in BOOLEAN :
        /\ archived' = IF failed THEN archived ELSE [archived EXCEPT ![r] = completed[r]]
        /\ proc' = [proc EXCEPT ![r] = NoRun]
        /\ crossed' = IF SavesOf(r) = {} THEN crossed ELSE crossed \cup {r}
  BY DEF RunArchived
<1>2. /\ pump' = [pump EXCEPT !.stage = "remove"] /\ pump.stage = "archive"
      /\ saves' = saves /\ file' = file /\ told' = told /\ completed' = completed
      /\ disposed' = disposed /\ timer' = timer /\ cancelRequested' = cancelRequested
  BY DEF RunArchived, lifeVars
<1>3. /\ pump'.stage = "remove" /\ pump'.run = pump.run /\ pump'.todo = pump.todo
      /\ pump' \in [stage : {"remove"}, round : 0..2, todo : SUBSET RunIds,
                    run : SUBSET RunIds, image : Run \cup {NoRun}]
      /\ r \in RunIds /\ pump.run = {r} /\ completed[r] # "none"
  BY <1>2 DEF TypeOK, PumpIsSound
<1>4. proc'[r] = NoRun /\ \A q \in RunIds \ {r} : proc'[q] = proc[q]
  BY <1>1, <1>3 DEF TypeOK
<1>5. \A q \in RunIds : Images(q)' = Images(q) /\ SavesOf(q)' = SavesOf(q)
  BY <1>2 DEF Images, SavesOf
<1>6. TypeOK'
  BY <1>1, <1>2, <1>3 DEF TypeOK, RunArchived, waitVars, lifeVars
<1>7. TableIsSound' /\ SavesAreSound' /\ FilesAreSound' /\ DownIsEmpty' /\ CancelsAreKept'
  BY <1>2, <1>3, <1>4, <1>5
     DEF TypeOK, TableIsSound, SavesAreSound, FilesAreSound, DownIsEmpty, CancelsAreKept
<1>8. PumpIsSound' /\ CompletedIsGone'
  BY <1>2, <1>3, <1>4 DEF PumpIsSound, CompletedIsGone, Live, TypeOK
<1>9. OverIsSeen' /\ ReadyIsScheduled'
  BY <1>2, <1>3, <1>4, ImagesOfRuns
     DEF OverIsSeen, ReadyIsScheduled, isTerminalProcessStatus
<1>10. FilesAreCurrent'
  BY <1>1, <1>2, <1>3, <1>4, <1>5 DEF FilesAreCurrent
<1> QED
  BY <1>6, <1>7, <1>8, <1>9, <1>10

\* Its file is removed.
LEMMA RemovalIsSound ==
  ASSUME WorkflowIsSound, RunRemoved
  PROVE  WorkflowIsSound'
<1> USE DEF WorkflowIsSound
<1>1. PICK r \in pump.run : file' = [file EXCEPT ![r] = NoRun]
  BY DEF RunRemoved
<1>2. /\ pump' = [pump EXCEPT !.stage = "reconcile", !.run = {}] /\ pump.stage = "remove"
      /\ proc' = proc /\ saves' = saves /\ crossed' = crossed /\ told' = told
      /\ completed' = completed /\ disposed' = disposed /\ timer' = timer
      /\ cancelRequested' = cancelRequested
  BY DEF RunRemoved, lifeVars
<1>3. /\ pump'.stage = "reconcile" /\ pump'.run = {} /\ pump'.todo = pump.todo
      /\ pump' \in [stage : {"reconcile"}, round : 0..2, todo : SUBSET RunIds,
                    run : SUBSET RunIds, image : Run \cup {NoRun}]
      /\ r \in RunIds /\ pump.run = {r} /\ proc[r] = NoRun
  <2>1. r \in RunIds /\ pump.run = {r} /\ proc[r] = NoRun
    BY <1>2 DEF TypeOK, PumpIsSound
  <2> QED
    BY <1>2, <2>1 DEF TypeOK
<1>4. file'[r] = NoRun /\ \A q \in RunIds \ {r} : file'[q] = file[q]
  BY <1>1, <1>3 DEF TypeOK
<1>5. \A q \in RunIds : Images(q)' = Images(q) /\ SavesOf(q)' = SavesOf(q)
  BY <1>2 DEF Images, SavesOf
<1>6. TypeOK'
  BY <1>1, <1>2, <1>3 DEF TypeOK, RunRemoved, waitVars, lifeVars
<1>7. TableIsSound' /\ SavesAreSound' /\ FilesAreSound' /\ DownIsEmpty' /\ CancelsAreKept'
  BY <1>2, <1>3, <1>4, <1>5
     DEF TypeOK, TableIsSound, SavesAreSound, FilesAreSound, DownIsEmpty, CancelsAreKept
<1>8. PumpIsSound' /\ CompletedIsGone'
  BY <1>2, <1>3 DEF PumpIsSound, CompletedIsGone, Live
<1>9. OverIsSeen' /\ ReadyIsScheduled'
  BY <1>2, <1>3, ImagesOfRuns DEF OverIsSeen, ReadyIsScheduled, isTerminalProcessStatus
<1>10. FilesAreCurrent'
  BY <1>2, <1>3, <1>4, <1>5 DEF FilesAreCurrent
<1> QED
  BY <1>6, <1>7, <1>8, <1>9, <1>10

\* The kernel takes up a run, or has nothing to do.
LEMMA TickIsSound ==
  ASSUME WorkflowIsSound, TickBegins
  PROVE  WorkflowIsSound'
<1> USE DEF WorkflowIsSound
<1>1. /\ saves' = saves /\ file' = file /\ crossed' = crossed /\ told' = told
      /\ completed' = completed /\ disposed' = disposed /\ timer' = timer
      /\ cancelRequested' = cancelRequested /\ pump.stage = "reconcile" /\ pump.run = {}
  BY DEF TickBegins, Reconciled, PumpIsSound, diskVars, lifeVars
<1>2. \A q \in RunIds : Images(q)' = Images(q) /\ SavesOf(q)' = SavesOf(q)
  BY <1>1 DEF Images, SavesOf
<1>3. /\ pump'.stage \in {"step", "again"}
      /\ pump' \in [stage : {"step", "again"}, round : 0..2, todo : SUBSET RunIds,
                    run : SUBSET RunIds, image : Run \cup {NoRun}]
  <2>1. \/ pump' = PumpAt("again", {})
        \/ \E r \in RunIds : pump' = PumpAt("step", {r})
    BY DEF TickBegins
  <2> QED
    BY <2>1 DEF PumpAt
<1>4. CASE pump'.stage = "again"
  <2>1. proc' = proc /\ pump'.run = {}
    BY <1>4 DEF TickBegins, PumpAt
  <2>2. TypeOK'
    BY <1>1, <1>3, <2>1 DEF TypeOK, TickBegins, waitVars, lifeVars
  <2>3. TableIsSound' /\ SavesAreSound' /\ FilesAreSound' /\ DownIsEmpty' /\ CancelsAreKept'
    BY <1>1, <1>2, <1>3, <1>4, <2>1
       DEF TypeOK, TableIsSound, SavesAreSound, FilesAreSound, DownIsEmpty, CancelsAreKept
  <2>4. PumpIsSound' /\ CompletedIsGone' /\ OverIsSeen' /\ ReadyIsScheduled'
    BY <1>1, <1>4, <2>1 DEF PumpIsSound, CompletedIsGone, OverIsSeen, ReadyIsScheduled, Live
  <2>5. FilesAreCurrent'
    BY <1>1, <1>2, <1>4, <2>1 DEF FilesAreCurrent
  <2> QED
    BY <2>2, <2>3, <2>4, <2>5
<1>5. CASE pump'.stage = "step"
  <2>1. PICK r \in RunIds :
          /\ isRunnableProcessStatus(proc[r].status)
          /\ proc' = [proc EXCEPT ![r].status = "running"]
          /\ pump' = PumpAt("step", {r})
    BY <1>5 DEF TickBegins, PumpAt
  <2>2. proc[r] \in Images(r) /\ proc[r] \in Run /\ proc[r].runs < Limit[r]
    <3>1. proc[r].status \in {"ready", "running"}
      BY <2>1 DEF isRunnableProcessStatus
    <3>2. proc[r] \in Images(r)
      BY <1>1, <3>1, ImagesOfRuns DEF TableIsSound
    <3> QED
      BY <3>1, <3>2 DEF Images, isTerminalProcessStatus
  <2>3. /\ proc'[r] = [proc[r] EXCEPT !.status = "running"]
        /\ \A q \in RunIds \ {r} : proc'[q] = proc[q]
    BY <2>1 DEF TypeOK
  <2>4. /\ proc'[r] \in Run /\ proc'[r].status = "running" /\ proc'[r].runs = proc[r].runs
        /\ pump'.run = {r} /\ Live(r) /\ proc'[r] # NoRun
    BY <2>1, <2>2, <2>3, ImagesOfRuns DEF Run, ProcessStatus, PumpAt, Live
  <2>5. TypeOK'
    <3>1. proc' \in [RunIds -> Run \cup {NoRun}]
      BY <2>1, <2>3, <2>4 DEF TypeOK
    <3> QED
      BY <1>1, <1>3, <3>1 DEF TypeOK, TickBegins, waitVars, lifeVars
  <2>6. TableIsSound' /\ SavesAreSound' /\ FilesAreSound' /\ DownIsEmpty' /\ CancelsAreKept'
    <3>1. TableIsSound'
      BY <1>1, <1>2, <1>5, <2>2, <2>3, <2>4 DEF TableIsSound
    <3> QED
      BY <1>1, <1>2, <1>5, <3>1
         DEF TypeOK, SavesAreSound, FilesAreSound, DownIsEmpty, CancelsAreKept
  <2>7. PumpIsSound' /\ CompletedIsGone'
    BY <1>1, <1>5, <2>3, <2>4 DEF PumpIsSound, CompletedIsGone, Live
  <2>8. OverIsSeen' /\ ReadyIsScheduled'
    BY <1>1, <1>5, <2>3, <2>4 DEF OverIsSeen, ReadyIsScheduled, isTerminalProcessStatus
  <2>9. FilesAreCurrent'
    BY <1>1, <1>2, <1>5, <2>3, <2>4 DEF FilesAreCurrent
  <2> QED
    BY <2>5, <2>6, <2>7, <2>8, <2>9
<1> QED
  BY <1>3, <1>4, <1>5

\* The step is over and its result, now in the table, is being saved.
LEMMA StepIsSound ==
  ASSUME WorkflowIsSound, StepReturns
  PROVE  WorkflowIsSound'
<1> USE DEF WorkflowIsSound
<1>1. pump.stage = "step"
  BY DEF StepReturns
<1> DEFINE After(r, status, shown) == [status |-> status, shown |-> shown, runs |-> proc[r].runs + 1]
           Applied(r, status, shown) ==
             /\ proc' = [proc EXCEPT ![r] = After(r, status, shown)]
             /\ pump' = [pump EXCEPT !.stage = "save", !.image = After(r, status, shown)]
             /\ SaveBegins(r, "step", After(r, status, shown))
<1>2. PICK r \in pump.run, status \in ProcessStatus \ {"running", "waiting"},
           shown \in {"running", "suspended", "done", "error"} :
        /\ proc[r].runs + 1 = Limit[r] => isTerminalProcessStatus(status)
        /\ Applied(r, status, shown)
  <2>1. PICK r \in pump.run :
          \/ \E signal \in Signals \ {"WAITING_SYSCALL"} :
               /\ proc[r].runs + 1 = Limit[r] => signal \in {"DONE", "ERROR"}
               /\ Applied(r, deriveProcessStatusForSignal(signal), ShownAfter(r, signal))
          \/ Applied(r, "error", proc[r].shown)
    BY DEF StepReturns
  <2>2. proc[r].shown \in {"running", "suspended", "done", "error"}
    BY <1>1 DEF PumpIsSound, Run
  <2>3. \A signal \in Signals \ {"WAITING_SYSCALL"} :
          /\ deriveProcessStatusForSignal(signal) \in ProcessStatus \ {"running", "waiting"}
          /\ ShownAfter(r, signal) \in {"running", "suspended", "done", "error"}
          /\ signal \in {"DONE", "ERROR"} =>
               isTerminalProcessStatus(deriveProcessStatusForSignal(signal))
    BY <2>2 DEF Signals, ProcessStatus, deriveProcessStatusForSignal, ShownAfter,
                isTerminalProcessStatus
  <2>4. "error" \in ProcessStatus \ {"running", "waiting"} /\ isTerminalProcessStatus("error")
    BY DEF ProcessStatus, isTerminalProcessStatus
  <2> HIDE DEF Applied
  <2> QED
    BY <2>1, <2>2, <2>3, <2>4
<1> DEFINE image == After(r, status, shown)
           new == [run |-> r, by |-> "step", image |-> image]
<1>3. /\ r \in RunIds /\ pump.run = {r} /\ proc[r].status = "running"
      /\ proc[r] \in Run /\ proc[r].runs < Limit[r]
  BY <1>1 DEF PumpIsSound, TableIsSound, TypeOK, Images, NoRun
<1>4. image \in Images(r) /\ image \in Run /\ image # NoRun /\ image.status # "running"
  <2>1. image \in Images(r)
    BY <1>2, <1>3, ImagesOfSteps
  <2> QED
    BY <1>3, <2>1, ImagesOfRuns DEF Images
<1>5. /\ proc' = [proc EXCEPT ![r] = image]
      /\ pump' = [pump EXCEPT !.stage = "save", !.image = image]
      /\ SaveBegins(r, "step", image)
  BY <1>2
<1> HIDE DEF image
<1>6. /\ saves' \subseteq [run : RunIds, by : {"start", "resume", "step"}, image : Run]
      /\ crossed' \subseteq RunIds /\ file' = file
      /\ saves' = saves \cup {new} /\ crossed \subseteq crossed'
      /\ \A q \in RunIds \ {r} : SavesOf(q)' = SavesOf(q)
      /\ SavesOf(r)' = SavesOf(r) \cup {new} /\ (r \notin crossed' => SavesOf(r) = {})
  BY <1>3, <1>4, <1>5, SaveBeginning DEF TypeOK
<1>7. proc'[r] = image /\ \A q \in RunIds \ {r} : proc'[q] = proc[q]
  BY <1>3, <1>5 DEF TypeOK
<1>8. /\ pump'.stage = "save" /\ pump'.run = {r} /\ pump'.image = image
      /\ pump' \in [stage : {"save"}, round : 0..2, todo : SUBSET RunIds,
                    run : SUBSET RunIds, image : Run \cup {NoRun}]
  BY <1>3, <1>4, <1>5 DEF TypeOK
<1>9. /\ completed' = completed /\ disposed' = disposed /\ timer' = timer /\ told' = told
      /\ cancelRequested' = cancelRequested
  BY DEF StepReturns, lifeVars
<1>10. \A q \in RunIds : Images(q)' = Images(q)
  BY DEF Images
<1>11. TypeOK'
  <2>1. proc' \in [RunIds -> Run \cup {NoRun}]
    BY <1>4, <1>5 DEF TypeOK
  <2> QED
    BY <1>6, <1>8, <2>1 DEF TypeOK, StepReturns, waitVars, lifeVars
<1>12. TableIsSound' /\ SavesAreSound' /\ FilesAreSound'
  <2>1. TableIsSound'
    BY <1>3, <1>4, <1>7, <1>10 DEF TableIsSound
  <2>2. SavesAreSound'
    BY <1>1, <1>4, <1>6, <1>8, <1>10 DEF SavesAreSound, TypeOK
  <2> QED
    BY <1>6, <1>10, <2>1, <2>2 DEF FilesAreSound
<1>13. PumpIsSound' /\ DownIsEmpty' /\ CompletedIsGone' /\ CancelsAreKept'
  BY <1>1, <1>3, <1>4, <1>7, <1>8, <1>9, <1>10
     DEF PumpIsSound, DownIsEmpty, CompletedIsGone, CancelsAreKept, Live, NoRun
<1>14. OverIsSeen' /\ ReadyIsScheduled'
  BY <1>8 DEF OverIsSeen, ReadyIsScheduled
<1>15. FilesAreCurrent'
  <2> SUFFICES ASSUME NEW q \in RunIds \ crossed'
               PROVE  FilesAreCurrent!(q)'
    BY DEF FilesAreCurrent
  <2>1. CASE q = r
    <3>1. SavesOf(q)' = {new} /\ new.image = image /\ new.by = "step" /\ proc'[q] = image
      BY <1>6, <1>7, <2>1
    <3> QED
      BY <1>8, <3>1
  <2>2. CASE q # r
    BY <1>1, <1>3, <1>6, <1>7, <1>8, <2>2 DEF FilesAreCurrent
  <2> QED
    BY <2>1, <2>2
<1> QED
  BY <1>11, <1>12, <1>13, <1>14, <1>15

\* The result of the step is saved, and the table set to it again.
LEMMA StepSaveIsSound ==
  ASSUME WorkflowIsSound, NEW s \in saves, StepSaved(s)
  PROVE  WorkflowIsSound'
<1> USE DEF WorkflowIsSound
<1>1. /\ saves' = saves \ {s} /\ crossed' = crossed
      /\ FilesAreSound' /\ file' \in [RunIds -> Run \cup {NoRun, Torn}]
      /\ \A q \in RunIds \ {s.run} : SavesOf(q)' = SavesOf(q) /\ file'[q] = file[q]
      /\ SavesOf(s.run)' = SavesOf(s.run) \ {s}
      /\ s.run \in RunIds /\ s \in SavesOf(s.run)
      /\ s.run \notin crossed => file'[s.run] = s.image /\ SavesOf(s.run) = {s}
  BY SaveLanding DEF StepSaved
<1>2. /\ pump.stage = "save" /\ pump.run = {s.run} /\ s.image = pump.image
      /\ s.image \in Images(s.run) /\ s.image # NoRun /\ s.image.status # "running"
  BY <1>1, ImagesOfRuns DEF StepSaved, SavesAreSound, PumpIsSound, Images
<1>3. /\ proc' = [proc EXCEPT ![s.run] = s.image]
      /\ pump' = PumpAt("again", {})
      /\ completed' = completed /\ disposed' = disposed /\ timer' = timer /\ told' = told
      /\ cancelRequested' = cancelRequested
  BY <1>2 DEF StepSaved, lifeVars
<1>4. proc'[s.run] = s.image /\ \A q \in RunIds \ {s.run} : proc'[q] = proc[q]
  BY <1>1, <1>3 DEF TypeOK
<1>5. /\ pump'.stage = "again" /\ pump'.run = {}
      /\ pump' \in [stage : {"again"}, round : 0..2, todo : SUBSET RunIds,
                    run : SUBSET RunIds, image : Run \cup {NoRun}]
  BY <1>3 DEF PumpAt
<1>6. \A q \in RunIds : Images(q)' = Images(q)
  BY DEF Images
<1>7. \A t \in saves : t.by = "step" => t = s
  BY <1>1, <1>2 DEF SavesAreSound, StepSaved, TypeOK
<1>8. TypeOK'
  <2>1. proc' \in [RunIds -> Run \cup {NoRun}] /\ saves' \subseteq saves
    BY <1>1, <1>2, <1>3 DEF TypeOK, Images
  <2> QED
    BY <1>1, <1>5, <2>1 DEF TypeOK, StepSaved, waitVars, lifeVars
<1>9. TableIsSound' /\ SavesAreSound' /\ PumpIsSound'
  <2>1. TableIsSound'
    BY <1>1, <1>2, <1>4, <1>6 DEF TableIsSound
  <2>2. SavesAreSound'
    BY <1>1, <1>6, <1>7 DEF SavesAreSound, TypeOK
  <2> QED
    BY <1>5, <2>1, <2>2 DEF PumpIsSound
<1>10. DownIsEmpty' /\ CompletedIsGone' /\ CancelsAreKept' /\ OverIsSeen' /\ ReadyIsScheduled'
  <2>1. proc[s.run] # NoRun
    BY <1>1, <1>2, ImagesOfRuns DEF PumpIsSound
  <2> QED
    BY <1>1, <1>2, <1>3, <1>4, <1>5, <2>1
       DEF DownIsEmpty, CompletedIsGone, CancelsAreKept, OverIsSeen, ReadyIsScheduled, Live
<1>11. FilesAreCurrent'
  BY <1>1, <1>2, <1>4, <1>5 DEF FilesAreCurrent
<1> QED
  BY <1>1, <1>8, <1>9, <1>10, <1>11

\* After a crash nothing is known of the runs but their files.
LEMMA CrashIsSound ==
  ASSUME WorkflowIsSound, Crash
  PROVE  WorkflowIsSound'
<1> USE DEF WorkflowIsSound
<1>1. /\ proc' = [r \in RunIds |-> NoRun] /\ completed' = [r \in RunIds |-> "none"]
      /\ saves' = {} /\ crossed' = {} /\ told' = {} /\ file' = file /\ pump' = Down
  BY DEF Crash
<1>2. /\ pump'.stage = "down" /\ pump'.run = {}
      /\ pump' \in [stage : {"down"}, round : 0..2, todo : SUBSET RunIds,
                    run : SUBSET RunIds, image : Run \cup {NoRun}]
  BY <1>1 DEF Down, PumpAt
<1>3. \A q \in RunIds : Images(q)' = Images(q) /\ SavesOf(q)' = {}
  BY <1>1 DEF Images, SavesOf
<1>4. TypeOK'
  <2>1. /\ proc' \in [RunIds -> Run \cup {NoRun}] /\ completed' \in [RunIds -> Outcomes]
        /\ forced' \in [RunIds -> {"none", "running", "cancelled"}]
    BY <1>1 DEF Crash, Outcomes
  <2>2. crashes' \in 0..MaxCrashes
    BY WorkflowAssumption DEF Crash, TypeOK
  <2>3. pump' \in [stage : {"down", "idle", "reconcile", "archive", "remove", "step", "save", "again"},
                   round : 0..2, todo : SUBSET RunIds, run : SUBSET RunIds, image : Run \cup {NoRun}]
    BY <1>2
  <2>4. /\ saves' = {} /\ crossed' = {} /\ told' = {} /\ cancelRequested' = {}
        /\ finding' = {} /\ waiting' = {} /\ resuming' = {}
        /\ timer' = FALSE /\ disposed' = FALSE
    BY DEF Crash
  <2>5. /\ file' \in [RunIds -> Run \cup {NoRun, Torn}]
        /\ archived' \in [RunIds -> Outcomes]
    BY DEF Crash, TypeOK
  <2> QED
    BY <2>1, <2>2, <2>3, <2>4, <2>5 DEF TypeOK
<1>5. /\ TableIsSound' /\ SavesAreSound' /\ FilesAreSound' /\ PumpIsSound' /\ DownIsEmpty'
      /\ CompletedIsGone' /\ CancelsAreKept'
  BY <1>1, <1>2, <1>3
     DEF TableIsSound, SavesAreSound, FilesAreSound, PumpIsSound, DownIsEmpty,
         CompletedIsGone, CancelsAreKept, Live
<1>6. OverIsSeen' /\ ReadyIsScheduled' /\ FilesAreCurrent'
  BY <1>1, <1>2, <1>3, ImagesOfRuns
     DEF OverIsSeen, ReadyIsScheduled, FilesAreCurrent, isTerminalProcessStatus
<1> QED
  BY <1>4, <1>5, <1>6

\* The runs are restored from the files, all of them or none.
LEMMA RestoreIsSound ==
  ASSUME WorkflowIsSound, initialize
  PROVE  WorkflowIsSound'
<1> USE DEF WorkflowIsSound
<1> DEFINE unreadable == \E r \in RunIds : file[r] = Torn
           known == {r \in RunIds : file[r] # NoRun}
           todo == IF unreadable THEN {} ELSE known
<1>1. /\ pump.stage = "down" /\ saves = {} /\ told = {}
      /\ \A r \in RunIds : proc[r] = NoRun /\ completed[r] = "none"
  BY DEF initialize, DownIsEmpty
<1>2. /\ proc' = IF unreadable THEN proc ELSE file
      /\ crossed' = IF unreadable THEN known ELSE {}
      /\ pump' = Reconciling(0, todo)
      /\ saves' = saves /\ file' = file /\ told' = told
      /\ completed' = completed /\ disposed' = disposed /\ timer' = timer
      /\ cancelRequested' = cancelRequested
  BY DEF initialize, lifeVars
<1>3. /\ known \subseteq RunIds /\ todo \subseteq RunIds
      /\ \A r \in RunIds : r \in todo <=> proc'[r] # NoRun
  BY <1>1, <1>2
<1>4. \A r \in RunIds : proc'[r] \in Images(r) \cup {NoRun}
  BY <1>1, <1>2 DEF FilesAreSound
<1>5. \A r \in RunIds \ crossed' : file'[r] = proc'[r]
  BY <1>1, <1>2
<1> HIDE DEF todo
<1>6. /\ pump'.stage = "reconcile" /\ pump'.run = {} /\ pump'.todo = todo
      /\ pump' \in [stage : {"reconcile"}, round : 0..2, todo : SUBSET RunIds,
                    run : SUBSET RunIds, image : Run \cup {NoRun}]
  BY <1>2, <1>3 DEF Reconciling
<1>7. \A q \in RunIds : Images(q)' = Images(q) /\ SavesOf(q)' = {}
  BY <1>1, <1>2 DEF Images, SavesOf
<1>8. TypeOK'
  <2>1. proc' \in [RunIds -> Run \cup {NoRun}]
    <3>1. proc' \in {proc, file}
      BY <1>2
    <3> QED
      BY <1>4, <3>1 DEF TypeOK, Images
  <2> QED
    BY <1>2, <1>3, <1>6, <2>1 DEF TypeOK, initialize, waitVars, lifeVars
<1>9. TableIsSound' /\ SavesAreSound' /\ FilesAreSound' /\ DownIsEmpty' /\ CancelsAreKept'
  BY <1>1, <1>2, <1>4, <1>6, <1>7
     DEF TableIsSound, SavesAreSound, FilesAreSound, DownIsEmpty, CancelsAreKept
<1>10. PumpIsSound' /\ CompletedIsGone'
  BY <1>1, <1>2, <1>3, <1>6 DEF PumpIsSound, CompletedIsGone, Live
<1>11. OverIsSeen' /\ ReadyIsScheduled'
  BY <1>3, <1>6, ImagesOfRuns DEF OverIsSeen, ReadyIsScheduled, isTerminalProcessStatus
<1>12. FilesAreCurrent'
  BY <1>5, <1>6, <1>7 DEF FilesAreCurrent
<1> QED
  BY <1>8, <1>9, <1>10, <1>11, <1>12

\* The program begins as after a crash, and with no files.
LEMMA InitIsSound ==
  ASSUME Init
  PROVE  WorkflowIsSound
<1>1. /\ pump.stage = "down" /\ pump.run = {}
      /\ pump \in [stage : {"down"}, round : 0..2, todo : SUBSET RunIds,
                   run : SUBSET RunIds, image : Run \cup {NoRun}]
  BY DEF Init, Down, PumpAt
<1>2. \A q \in RunIds : SavesOf(q) = {}
  BY DEF Init, SavesOf
<1>3. TypeOK
  <2>1. /\ proc \in [RunIds -> Run \cup {NoRun}] /\ file \in [RunIds -> Run \cup {NoRun, Torn}]
        /\ completed \in [RunIds -> Outcomes] /\ archived \in [RunIds -> Outcomes]
        /\ forced \in [RunIds -> {"none", "running", "cancelled"}]
    BY DEF Init, Outcomes
  <2>2. crashes \in 0..MaxCrashes
    BY WorkflowAssumption DEF Init
  <2> QED
    BY <1>1, <2>1, <2>2 DEF TypeOK, Init
<1>4. /\ TableIsSound /\ SavesAreSound /\ FilesAreSound /\ PumpIsSound /\ DownIsEmpty
      /\ CompletedIsGone /\ CancelsAreKept
  BY <1>1
     DEF Init, TableIsSound, SavesAreSound, FilesAreSound, PumpIsSound, DownIsEmpty,
         CompletedIsGone, CancelsAreKept, Live
<1>5. OverIsSeen /\ ReadyIsScheduled /\ FilesAreCurrent
  BY <1>1, <1>2, ImagesOfRuns
     DEF Init, OverIsSeen, ReadyIsScheduled, FilesAreCurrent, isTerminalProcessStatus
<1> QED
  BY <1>3, <1>4, <1>5 DEF WorkflowIsSound

\* Every step of the service keeps the invariant.
LEMMA StepsAreSound ==
  ASSUME WorkflowIsSound, [Next]_vars
  PROVE  WorkflowIsSound'
<1>1. ASSUME NEW r \in RunIds, ClientCalls(r) PROVE WorkflowIsSound'
  <2>1. CASE startWorkflow(r) \/ \E prior \in RunIds \ {r} : retryFromStep(r, prior) \/ skipStep(r, prior)
    <3>1. Open /\ Fresh(r) /\ Create(r)
      BY <2>1 DEF startWorkflow, retryFromStep, skipStep
    <3> QED
      BY <3>1, CreateIsSound
  <2>2. CASE cancelRun(r)
    BY <2>2, CancelIsSound
  <2>3. CASE resumeRun(r)
    BY <2>3, ResumeIsSound
  <2>4. CASE waitForCompletion(r)
    BY <2>4, WaitingIsSound
  <2> QED
    BY <1>1, <2>1, <2>2, <2>3, <2>4 DEF ClientCalls
<1>2. ASSUME PumpStep PROVE WorkflowIsSound'
  BY <1>2, PumpTurnIsSound, FinalizeIsSound, ArchiveIsSound, RemovalIsSound, TickIsSound,
     StepIsSound DEF PumpStep
<1>3. ASSUME SaveReturns PROVE WorkflowIsSound'
  BY <1>3, ClientSaveIsSound, StepSaveIsSound DEF SaveReturns
<1>4. ASSUME NEW r \in RunIds, ArchiveSearched(r) PROVE WorkflowIsSound'
  BY <1>4, WaitingIsSound
<1>5. ASSUME dispose \/ UNCHANGED vars PROVE WorkflowIsSound'
  BY <1>5, WaitingIsSound
<1> QED
  BY <1>1, <1>2, <1>3, <1>4, <1>5, CrashIsSound, RestoreIsSound DEF Next

\* The invariant holds in every state of the service (workflow-kernel.ts).
THEOREM WorkflowsAreSound == Spec => []WorkflowIsSound
<1>1. Init => WorkflowIsSound
  BY InitIsSound
<1>2. WorkflowIsSound /\ [Next]_vars => WorkflowIsSound'
  BY StepsAreSound
<1> QED
  BY <1>1, <1>2, PTL DEF Spec

\* What the service keeps of its runs has its types (lines 99-133).
THEOREM WorkflowTypeCorrect == Spec => []TypeOK
<1>1. WorkflowIsSound => TypeOK
  BY DEF WorkflowIsSound
<1> QED
  BY <1>1, WorkflowsAreSound, PTL

\* An accepted cancellation wins over whatever the step under way makes of its
\* run, for any runs and any crashes (lines 301-319, 552-566).
THEOREM CancellationsWin == Spec => []AcceptedCancelsWin
<1>1. WorkflowIsSound => AcceptedCancelsWin
  BY DEF WorkflowIsSound, CancelsAreKept, AcceptedCancelsWin
<1> QED
  BY <1>1, WorkflowsAreSound, PTL

\* No run is left ready without a pump (lines 473-528), however many there are.
THEOREM EveryRunIsScheduled == Spec => []RunsAreScheduled
<1>1. ASSUME WorkflowIsSound PROVE RunsAreScheduled
  <2> USE <1>1 DEF WorkflowIsSound
  <2> SUFFICES ASSUME pump.stage = "idle", ~timer, ~disposed, NEW r \in RunIds, Live(r)
               PROVE  \/ proc[r].status = "suspended"
                      \/ proc[r].status = "ready" /\ SavesOf(r) # {}
    BY DEF RunsAreScheduled
  <2>1. proc[r] \in Images(r)
    BY DEF TableIsSound, Live
  <2>2. proc[r].status \in ProcessStatus \ {"running", "waiting"}
    BY <2>1 DEF Images, Run
  <2>3. ~isTerminalProcessStatus(proc[r].status)
    BY DEF OverIsSeen
  <2>4. proc[r].status \in {"ready", "suspended"}
    BY <2>2, <2>3 DEF ProcessStatus, isTerminalProcessStatus
  <2> QED
    BY <2>4 DEF ReadyIsScheduled
<1> QED
  BY <1>1, WorkflowsAreSound, PTL

\* When the saves of a run are done its file is what the table holds, unless they
\* have crossed (checkpoint-store.ts, lines 18-46; the kernel's tick()).
THEOREM FilesAreTheTable == Spec => []FilesFollowTheTable
<1>1. WorkflowIsSound => FilesFollowTheTable
  BY DEF WorkflowIsSound, FilesAreCurrent, FilesFollowTheTable
<1> QED
  BY <1>1, WorkflowsAreSound, PTL

\* A run is finalized once in the life of the program (lines 568-605).
THEOREM RunsHaveOneOutcome == Spec => OneOutcome
<1>1. ASSUME WorkflowIsSound, [Next]_vars, NEW r \in RunIds, completed[r] # "none", crashes' = crashes
      PROVE  /\ completed'[r] = completed[r]
             /\ archived'[r] \in {archived[r], completed[r]}
  <2> USE <1>1 DEF WorkflowIsSound
  <2>1. CASE FinalizeBegins
    <3>1. completed'[r] = completed[r]
      BY <2>1 DEF FinalizeBegins, PumpIsSound, TypeOK
    <3> QED
      BY <2>1, <3>1 DEF FinalizeBegins
  <2>2. CASE RunArchived
    BY <2>2 DEF RunArchived, TypeOK
  <2>3. CASE Crash
    BY <2>3 DEF Crash, TypeOK
  <2>4. CASE UNCHANGED <<completed, archived>>
    BY <2>4
  <2>5. CASE PumpStep
    BY <2>1, <2>2, <2>4, <2>5
       DEF PumpStep, PumpStarts, RunRemoved, TickBegins, StepReturns, PumpReconcilesAgain, PumpEnds
  <2>6. CASE \E q \in RunIds : ClientCalls(q) \/ ArchiveSearched(q)
    BY <2>4, <2>6
       DEF ClientCalls, startWorkflow, retryFromStep, skipStep, Create, cancelRun, resumeRun,
           waitForCompletion, ArchiveSearched
  <2>7. CASE SaveReturns
    BY <2>4, <2>7 DEF SaveReturns, startWorkflowReturns, resumeRunGoesOn, StepSaved
  <2> QED
    BY <1>1, <2>3, <2>4, <2>5, <2>6, <2>7 DEF Next, dispose, initialize, vars
<1>2. WorkflowIsSound /\ [Next]_vars =>
        [\A r \in RunIds : completed[r] # "none" /\ crashes' = crashes =>
           /\ completed'[r] = completed[r]
           /\ archived'[r] \in {archived[r], completed[r]}]_vars
  BY <1>1
<1> QED
  BY <1>2, WorkflowsAreSound, PTL DEF Spec, OneOutcome

=============================================================================
