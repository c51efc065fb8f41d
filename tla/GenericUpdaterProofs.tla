------------------------ MODULE GenericUpdaterProofs ------------------------
(***************************************************************************)
(* What one session has applied survives the others, for any number of     *)
(* sessions, any commands and any sorter: AppliedEntriesStay.  The argument *)
(* is that a session only ever writes entries its changes are about, and    *)
(* that the target it verifies against holds its patch.                     *)
(***************************************************************************)
EXTENDS GenericUpdater, FiniteSetTheorems, SequenceTheorems, TLAPS

\* The one hypothesis of the theorems: the sorter returns lists of changes.
PlansWellTyped == \A c, t \in Configs : Plans(c, t) \subseteq Seq(SUBSET Edits)

WellFormed == CommandsWellFormed /\ ParametersWellTyped /\ PlansWellTyped

-----------------------------------------------------------------------------
(* The inductive invariant. *)

\* While a command works on checkpoint files it has a name and no patch yet.
FileSteps == {"exists", "load", "unlink", "snapshot", "open", "save"}
NoPatchYet ==
    \A s \in Sessions :
        /\ pc[s] \in FileSteps => job[s].cmd \in Commands /\ Op(s) \in FileOps
        /\ pc[s] \in FileSteps \cup {"diff"} => job[s].patch = {}
        /\ pc[s] = "diff" => Op(s) # "apply_unsorted"
        /\ Op(s) = "apply_unsorted" => IsFiniteSet(job[s].patch)

\* Only an idle session has an outcome.
OutcomeWhenIdle == \A s \in Sessions : outcome[s] = "ok" => Idle(s)

\* What a session will write is planned.
WritesArePlanned ==
    \A s \in Sessions :
        /\ job[s].dirty \subseteq job[s].planned
        /\ \A i \in 1..Len(job[s].changes) : \A e \in job[s].changes[i] : e.key \in job[s].planned

PatchesConsistent == \A s \in Sessions : Consistent(job[s].patch)

Wanted(e) == IF e.value = EmptyList THEN Unset ELSE e.value

\* From its computation on, the target holds the patch.
TargetHoldsPatch ==
    \A s \in Sessions : pc[s] \in {"strict", "sort", "change", "write"} =>
        \A e \in job[s].patch : job[s].target[e.key][e.field] = Wanted(e)

\* No other session plans to write what the patch of s is about.
Alone(s) == \A t \in Sessions \ {s} : job[t].planned \cap {e.key : e \in job[s].patch} = {}

PatchStays ==
    \A s \in Sessions : (outcome[s] = "ok" \/ pc[s] = "verify") /\ Alone(s) => PatchHolds(job[s].patch)

SessionInv ==
    /\ TypeOK
    /\ NoPatchYet /\ OutcomeWhenIdle /\ WritesArePlanned
    /\ PatchesConsistent /\ TargetHoldsPatch /\ PatchStays

-----------------------------------------------------------------------------
(* Patches *)

\* A patch leads from configurations to configurations.
LEMMA ApplyPatchType ==
    ASSUME NEW p \in SUBSET Edits, NEW c \in Configs
    PROVE  ApplyPatch(p, c) \in Configs
<1>1. ASSUME NEW k \in Keys, NEW f \in Fields, \E e \in p : e.key = k /\ e.field = f
      PROVE  (CHOOSE e \in p : e.key = k /\ e.field = f).value \in Values \cup {Unset}
  <2>1. (CHOOSE e \in p : e.key = k /\ e.field = f) \in p
    BY <1>1
  <2> QED
    BY <2>1 DEF Edits
<1> QED
  BY <1>1 DEF ApplyPatch, Configs, Entries

\* ... and so does dropping the empty leaf-lists.
LEMMA SimulateType ==
    ASSUME NEW p \in SUBSET Edits, NEW c \in Configs
    PROVE  Simulate(p, c) \in Configs
<1>1. ApplyPatch(p, c) \in Configs
  BY ApplyPatchType
<1> QED
  BY <1>1 DEF Simulate, Normalised, Configs, Entries

\* The simulated configuration has what a consistent patch asks for.
LEMMA SimulateHolds ==
    ASSUME NEW p \in SUBSET Edits, NEW c \in Configs, Consistent(p), NEW e \in p
    PROVE  Simulate(p, c)[e.key][e.field] = Wanted(e)
<1>1. e.key \in Keys /\ e.field \in Fields
  BY DEF Edits
<1> DEFINE d == CHOOSE x \in p : x.key = e.key /\ x.field = e.field
<1>2. d \in p /\ d.key = e.key /\ d.field = e.field
  OBVIOUS
<1>3. d = e
  BY <1>2 DEF Consistent
<1>4. ApplyPatch(p, c)[e.key][e.field] = d.value
  BY <1>1 DEF ApplyPatch
<1> QED
  BY <1>1, <1>3, <1>4 DEF Simulate, Normalised, Wanted

\* make_patch makes consistent patches.
LEMMA DiffIsPatch ==
    ASSUME NEW c \in Configs, NEW t \in Configs
    PROVE  Diff(c, t) \in SUBSET Edits /\ Consistent(Diff(c, t))
<1>1. ASSUME NEW k \in Keys, NEW f \in Fields PROVE t[k][f] \in Values \cup {Unset}
  BY DEF Configs, Entries
<1> QED
  BY <1>1 DEF Diff, EditTo, Edits, Consistent

-----------------------------------------------------------------------------
(* Initial states, and steps *)

\* The fields of a job have their types.
LEMMA JobTypes ==
    ASSUME TypeOK, NEW s \in Sessions
    PROVE  /\ job[s] \in Jobs
           /\ job[s].goal \in Configs
           /\ job[s].patch \in SUBSET Edits
           /\ job[s].target \in Configs
           /\ job[s].current \in Configs
           /\ job[s].changes \in Seq(SUBSET Edits)
           /\ job[s].dirty \in SUBSET Keys
           /\ job[s].planned \in SUBSET Keys
           /\ pc[s] \in Labels
  BY DEF TypeOK, Jobs

\* A new job is well typed and plans nothing new.
LEMMA NewJobType ==
    ASSUME WellFormed, db \in Configs, NEW c \in Commands \cup {[op |-> "none"]}, NEW planned \in SUBSET Keys
    PROVE  NewJob(c, planned) \in Jobs
<1>1. NoConfig \in Configs
  BY DEF NoConfig, Configs, Entries
<1>2. (IF c.op = "replace" THEN c.config ELSE NoConfig) \in Configs
  BY <1>1 DEF WellFormed, CommandsWellFormed
<1>3. (IF c.op \in ApplyOps THEN c.patch ELSE {}) \in SUBSET Edits
  BY DEF WellFormed, CommandsWellFormed, ApplyOps
<1>4. <<>> \in Seq(SUBSET Edits)
  OBVIOUS
<1> QED
  BY <1>1, <1>2, <1>3, <1>4 DEF NewJob, Jobs

\* Nobody has done anything yet.
LEMMA InitSessionInv == ASSUME WellFormed, Init PROVE SessionInv
<1>1. db \in Configs
  BY DEF Init, WellFormed, ParametersWellTyped
<1>2. NewJob([op |-> "none"], {}) \in Jobs
  BY <1>1, NewJobType
<1>3. TypeOK
  BY <1>1, <1>2, BoundAssumption DEF Init, TypeOK, Labels
<1>4. \A s \in Sessions : job[s] = NewJob([op |-> "none"], {}) /\ pc[s] = "idle" /\ outcome[s] = "none"
  BY DEF Init
<1> QED
  BY <1>3, <1>4
  DEF SessionInv, NoPatchYet, FileSteps, Op, OutcomeWhenIdle, WritesArePlanned, PatchesConsistent, Consistent,
      TargetHoldsPatch, PatchStays, NewJob, ApplyOps

\* A step that changes neither ConfigDB nor any job, and does not report success.
LEMMA QuietStep ==
    ASSUME SessionInv, NEW s \in Sessions, NEW label \in Labels, NEW how \in {outcome[s], "error", "killed"},
           pc' = [pc EXCEPT ![s] = label], outcome' = [outcome EXCEPT ![s] = how],
           how = "ok" => label = "idle",
           label \notin {"verify", "diff"},
           label \in FileSteps => pc[s] \in FileSteps,
           label \in {"strict", "sort", "change", "write"} => pc[s] \in {"strict", "sort", "change", "write"},
           UNCHANGED <<db, files, job, issued>>
    PROVE  SessionInv'
<1> USE DEF SessionInv
<1>1. TypeOK'
  BY DEF TypeOK
<1>2. NoPatchYet'
  BY DEF TypeOK, NoPatchYet, FileSteps, Op
<1>3. OutcomeWhenIdle'
  BY DEF TypeOK, OutcomeWhenIdle, Idle
<1>4. WritesArePlanned' /\ PatchesConsistent'
  BY DEF WritesArePlanned, PatchesConsistent
<1>5. TargetHoldsPatch'
  BY DEF TypeOK, TargetHoldsPatch
<1>6. PatchStays'
  BY DEF TypeOK, PatchStays, Alone, PatchHolds, Cell
<1> QED
  BY <1>1, <1>2, <1>3, <1>4, <1>5, <1>6

\* What the last conjunct says of a session whose job is j.
KeysOf(patch) == {e.key : e \in patch}
OthersKeepOff(s, j) == \A t \in Sessions \ {s} : job[t].planned \cap KeysOf(j.patch) = {}

Outcomes == {"none", "running", "ok", "error", "killed"}

\* What the invariant asks of session s when its job is j, it stands at label
\* and its outcome is how.
SoundJob(s, j, label, how) ==
    /\ label \in FileSteps => j.cmd \in Commands /\ j.cmd.op \in FileOps
    /\ label \in FileSteps \cup {"diff"} => j.patch = {}
    /\ label = "diff" => j.cmd.op # "apply_unsorted"
    /\ j.cmd.op = "apply_unsorted" => IsFiniteSet(j.patch)
    /\ how = "ok" => label = "idle"
    /\ job[s].planned \subseteq j.planned
    /\ j.dirty \subseteq j.planned
    /\ \A i \in 1..Len(j.changes) : \A e \in j.changes[i] : e.key \in j.planned
    /\ Consistent(j.patch)
    /\ label \in {"strict", "sort", "change", "write"} =>
           \A e \in j.patch : j.target[e.key][e.field] = Wanted(e)
    /\ how = "ok" \/ label = "verify" => (OthersKeepOff(s, j) => PatchHolds(j.patch))

\* A step of session s that leaves ConfigDB and the other jobs alone.
LEMMA OwnStep ==
    ASSUME SessionInv, NEW s \in Sessions, NEW j \in Jobs, NEW label \in Labels, NEW how \in Outcomes,
           job' = [job EXCEPT ![s] = j],
           pc' = [pc EXCEPT ![s] = label], outcome' = [outcome EXCEPT ![s] = how],
           UNCHANGED db,
           files' \in [Names -> {NoFile, Torn} \cup Configs], issued' \in 0..MaxCommands,
           SoundJob(s, j, label, how)
    PROVE  SessionInv'
<1> USE DEF SessionInv, SoundJob
<1>0. /\ job'[s] = j /\ pc'[s] = label /\ outcome'[s] = how
      /\ \A t \in Sessions \ {s} : job'[t] = job[t] /\ pc'[t] = pc[t] /\ outcome'[t] = outcome[t]
  BY DEF TypeOK
<1>1. TypeOK'
  BY DEF TypeOK, Outcomes
<1>2. NoPatchYet'
  BY <1>0 DEF NoPatchYet, Op
<1>3. OutcomeWhenIdle'
  BY <1>0 DEF OutcomeWhenIdle, Idle
<1>4. WritesArePlanned'
  BY <1>0 DEF WritesArePlanned
<1>5. PatchesConsistent'
  BY <1>0 DEF PatchesConsistent
<1>6. TargetHoldsPatch'
  BY <1>0 DEF TargetHoldsPatch
<1>7. PatchStays'
  <2> SUFFICES ASSUME NEW r \in Sessions, (outcome'[r] = "ok" \/ pc'[r] = "verify") /\ Alone(r)'
               PROVE  PatchHolds(job[r].patch)'
    BY DEF PatchStays
  <2>1. CASE r = s
    <3>1. OthersKeepOff(s, j)
      BY <1>0, <2>1 DEF Alone, OthersKeepOff, KeysOf
    <3>2. PatchHolds(j.patch)
      BY <1>0, <2>1, <3>1
    <3> QED
      BY <1>0, <2>1, <3>2 DEF PatchHolds, Cell
  <2>2. CASE r # s
    <3>1. Alone(r)
      BY <1>0, <2>2 DEF Alone
    <3>2. PatchHolds(job[r].patch)
      BY <1>0, <2>2, <3>1 DEF PatchStays
    <3> QED
      BY <1>0, <2>2, <3>2 DEF PatchHolds, Cell
  <2> QED
    BY <2>1, <2>2
<1> QED
  BY <1>1, <1>2, <1>3, <1>4, <1>5, <1>6, <1>7

\* An exception reaches the command line.
LEMMA RaiseStep == ASSUME SessionInv, NEW s \in Sessions, Raise(s) PROVE SessionInv'
  BY QuietStep DEF Raise, End, Goto, Labels, FileSteps

\* The session is killed.
LEMMA KillStep == ASSUME SessionInv, NEW s \in Sessions, Kill(s) PROVE SessionInv'
  BY QuietStep DEF Kill, End, Goto, Labels, FileSteps

\* Steps that only go on to the next.
LEMMA CheckExistsStep == ASSUME SessionInv, NEW s \in Sessions, CheckExists(s) PROVE SessionInv'
<1>1. CASE files[Name(s)] = NoFile
  BY <1>1, RaiseStep DEF CheckExists
<1>2. CASE files[Name(s)] # NoFile
  <2> DEFINE label == IF Op(s) = "rollback" THEN "load" ELSE "unlink"
  <2>1. pc' = [pc EXCEPT ![s] = label] /\ UNCHANGED <<db, files, job, issued>>
    BY <1>2 DEF CheckExists, Goto
  <2>2. outcome' = [outcome EXCEPT ![s] = outcome[s]] /\ outcome[s] # "ok"
    BY <1>2 DEF CheckExists, SessionInv, TypeOK, OutcomeWhenIdle, Idle
  <2>3. label \in {"load", "unlink"} /\ pc[s] = "exists"
    BY DEF CheckExists
  <2> HIDE DEF label
  <2> QED
    BY <2>1, <2>2, <2>3, QuietStep DEF Labels, FileSteps
<1> QED
  BY <1>1, <1>2

\* The target is found valid, or refused.
LEMMA StrictSortStep == ASSUME SessionInv, NEW s \in Sessions, StrictSort(s) PROVE SessionInv'
<1>1. CASE Raise(s)
  BY <1>1, RaiseStep
<1>2. CASE Goto(s, "sort") /\ UNCHANGED <<db, files, outcome, job, issued>>
  <2>1. outcome' = [outcome EXCEPT ![s] = outcome[s]] /\ outcome[s] # "ok" /\ pc[s] = "strict"
    BY <1>2 DEF StrictSort, SessionInv, TypeOK, OutcomeWhenIdle, Idle
  <2> QED
    BY <1>2, <2>1, QuietStep DEF Goto, Labels, FileSteps
<1> QED
  BY <1>1, <1>2 DEF StrictSort

\* The entries of a change are written; its services are told.
LEMMA ValidateServicesStep == ASSUME SessionInv, NEW s \in Sessions, ValidateServices(s) PROVE SessionInv'
<1>1. outcome' = [outcome EXCEPT ![s] = outcome[s]] /\ outcome[s] # "ok" /\ pc[s] = "write"
  BY DEF ValidateServices, SessionInv, TypeOK, OutcomeWhenIdle, Idle
<1> QED
  BY <1>1, QuietStep DEF ValidateServices, Goto, Labels, FileSteps

-----------------------------------------------------------------------------
(* Steps that change the session's own job *)

\* What the invariant says of one running session.
LEMMA OfSession ==
    ASSUME SessionInv, NEW s \in Sessions, pc[s] # "idle"
    PROVE  /\ job' = [job EXCEPT ![s] = job[s]] <=> UNCHANGED job
           /\ outcome' = [outcome EXCEPT ![s] = outcome[s]] <=> UNCHANGED outcome
           /\ outcome[s] \in Outcomes /\ outcome[s] # "ok"
           /\ Consistent(job[s].patch)
           /\ job[s].dirty \subseteq job[s].planned
           /\ \A i \in 1..Len(job[s].changes) : \A e \in job[s].changes[i] : e.key \in job[s].planned
           /\ Op(s) = "apply_unsorted" => IsFiniteSet(job[s].patch)
<1>1. job = [job EXCEPT ![s] = job[s]] /\ outcome = [outcome EXCEPT ![s] = outcome[s]]
  BY DEF SessionInv, TypeOK
<1>2. outcome[s] \in Outcomes /\ outcome[s] # "ok"
  BY DEF SessionInv, TypeOK, OutcomeWhenIdle, Idle, Outcomes
<1> QED
  BY <1>1, <1>2 DEF SessionInv, PatchesConsistent, WritesArePlanned, NoPatchYet

\* A command starts.
LEMMA StartStep ==
    ASSUME WellFormed, SessionInv, NEW s \in Sessions, NEW c \in Commands, Start(s, c) PROVE SessionInv'
<1> DEFINE j == NewJob(c, job[s].planned)
           label == FirstStep(c)
<1>1. job[s].planned \in SUBSET Keys /\ db \in Configs
  BY JobTypes DEF SessionInv, TypeOK
<1>2. j \in Jobs
  BY <1>1, NewJobType
<1>3. /\ job' = [job EXCEPT ![s] = j] /\ pc' = [pc EXCEPT ![s] = label]
      /\ outcome' = [outcome EXCEPT ![s] = "running"] /\ UNCHANGED <<db, files>>
  BY DEF Start, Goto
<1>4. files' \in [Names -> {NoFile, Torn} \cup Configs] /\ issued' \in 0..MaxCommands
  BY BoundAssumption DEF Start, SessionInv, TypeOK
<1>5. c.op \in ApplyOps \cup FileOps \cup {"replace"}
  BY DEF WellFormed, CommandsWellFormed
<1>6. /\ label \in Labels
      /\ label \in FileSteps => c.op \in FileOps
      /\ label \in FileSteps \cup {"diff"} => c.op \notin ApplyOps
      /\ label = "diff" => c.op # "apply_unsorted"
      /\ label \notin {"strict", "sort", "change", "write", "verify"}
  BY <1>5 DEF FirstStep, Labels, FileSteps, FileOps, ApplyOps
<1>7. /\ j.cmd = c /\ j.planned = job[s].planned /\ j.dirty = {} /\ j.changes = <<>>
      /\ c.op \notin ApplyOps => j.patch = {}
      /\ c.op \in ApplyOps => j.patch = c.patch
  BY DEF NewJob, ApplyOps
<1>8. Consistent(j.patch) /\ (c.op = "apply_unsorted" => IsFiniteSet(j.patch))
  BY <1>7 DEF WellFormed, CommandsWellFormed, ApplyOps, Consistent
<1>9. 1..Len(j.changes) = {}
  BY <1>7
<1> HIDE DEF j, label
<1>10. \A i \in 1..Len(j.changes) : \A e \in j.changes[i] : e.key \in j.planned
  BY <1>9
<1>11. j.dirty \subseteq j.planned /\ job[s].planned \subseteq j.planned /\ "running" \in Outcomes \ {"ok"}
  BY <1>7 DEF Outcomes
<1>12. label \in FileSteps \cup {"diff"} => j.patch = {}
  BY <1>6, <1>7
<1>13. SoundJob(s, j, label, "running")
  BY <1>2, <1>3, <1>4, <1>6, <1>7, <1>8, <1>10, <1>11, <1>12 DEF SoundJob
<1> QED
  BY <1>2, <1>3, <1>4, <1>6, <1>7, <1>8, <1>10, <1>11, <1>12, <1>13, OwnStep

\* A step that leaves the patch, the changes and the plans of the session alone.
LEMMA LocalStep ==
    ASSUME SessionInv, NEW s \in Sessions, NEW j \in Jobs, NEW label \in Labels \ {"strict", "sort", "change", "write", "verify"},
           pc[s] # "idle",
           job' = [job EXCEPT ![s] = j], pc' = [pc EXCEPT ![s] = label],
           files' \in [Names -> {NoFile, Torn} \cup Configs], UNCHANGED <<db, issued>>,
           \/ UNCHANGED outcome
           \/ label = "idle" /\ outcome' = [outcome EXCEPT ![s] = "ok"] /\ j.patch = {},
           label \in FileSteps \cup {"diff"} => pc[s] \in FileSteps,
           j.cmd = job[s].cmd, j.patch = job[s].patch, j.changes = job[s].changes, j.dirty = job[s].dirty,
           j.planned = job[s].planned
    PROVE  SessionInv'
<1>1. /\ job[s].dirty \subseteq job[s].planned /\ Consistent(job[s].patch) /\ outcome[s] \in Outcomes \ {"ok"}
      /\ \A i \in 1..Len(job[s].changes) : \A e \in job[s].changes[i] : e.key \in job[s].planned
      /\ Op(s) = "apply_unsorted" => IsFiniteSet(job[s].patch)
      /\ UNCHANGED outcome => outcome' = [outcome EXCEPT ![s] = outcome[s]]
  BY OfSession
<1>2. pc[s] \in FileSteps => job[s].cmd \in Commands /\ Op(s) \in FileOps /\ job[s].patch = {}
  BY DEF SessionInv, NoPatchYet
<1>3. issued' \in 0..MaxCommands
  BY DEF SessionInv, TypeOK
<1>4. j.patch = {} => PatchHolds(j.patch)
  BY DEF PatchHolds
<1>5. /\ label \in FileSteps => j.cmd \in Commands /\ j.cmd.op \in FileOps
      /\ label \in FileSteps \cup {"diff"} => j.patch = {}
      /\ label = "diff" => j.cmd.op # "apply_unsorted"
  BY <1>2 DEF Op, FileOps
<1> HIDE DEF FileSteps
<1>6. CASE UNCHANGED outcome
  <2>1. SoundJob(s, j, label, outcome[s])
    BY <1>1, <1>5 DEF SoundJob, Op
  <2> QED
    BY <1>1, <1>3, <1>6, <2>1, OwnStep
<1>7. CASE label = "idle" /\ outcome' = [outcome EXCEPT ![s] = "ok"] /\ j.patch = {}
  <2>1. SoundJob(s, j, label, "ok")
    BY <1>1, <1>4, <1>5, <1>7 DEF SoundJob, Op
  <2>2. "ok" \in Outcomes
    BY DEF Outcomes
  <2> QED
    BY <1>1, <1>3, <1>7, <2>1, <2>2, OwnStep
<1> QED
  BY <1>6, <1>7

\* A session that works on a checkpoint file has a name for it, and no patch.
LEMMA FileNamed ==
    ASSUME WellFormed, SessionInv, NEW s \in Sessions, pc[s] \in FileSteps
    PROVE  Name(s) \in Names /\ job[s].patch = {}
<1>1. job[s].cmd \in Commands /\ job[s].cmd.op \in FileOps /\ job[s].patch = {}
  BY DEF SessionInv, NoPatchYet, Op
<1> QED
  BY <1>1 DEF WellFormed, CommandsWellFormed, Name

\* The checkpoint is read.
LEMMA LoadCheckpointStep == ASSUME WellFormed, SessionInv, NEW s \in Sessions, LoadCheckpoint(s) PROVE SessionInv'
<1>1. CASE files[Name(s)] \in {NoFile, Torn}
  BY <1>1, RaiseStep DEF LoadCheckpoint
<1>2. CASE files[Name(s)] \notin {NoFile, Torn}
  <2> DEFINE j == [job[s] EXCEPT !.goal = files[Name(s)]]
  <2>1. pc[s] = "load" /\ Name(s) \in Names /\ job[s].patch = {}
    BY FileNamed DEF LoadCheckpoint, FileSteps
  <2>2. job[s] \in Jobs /\ files[Name(s)] \in Configs
    BY <1>2, <2>1, JobTypes DEF SessionInv, TypeOK
  <2>3. j \in Jobs /\ j.cmd = job[s].cmd /\ j.patch = job[s].patch /\ j.changes = job[s].changes
        /\ j.dirty = job[s].dirty /\ j.planned = job[s].planned
    BY <2>2 DEF Jobs
  <2>4. job' = [job EXCEPT ![s] = j] /\ pc' = [pc EXCEPT ![s] = "diff"] /\ UNCHANGED <<db, files, outcome, issued>>
    BY <1>2 DEF LoadCheckpoint, Goto
  <2>5. files' \in [Names -> {NoFile, Torn} \cup Configs]
    BY <2>4 DEF SessionInv, TypeOK
  <2> HIDE DEF j
  <2> QED
    BY <2>1, <2>3, <2>4, <2>5, LocalStep DEF Labels, FileSteps
<1> QED
  BY <1>1, <1>2

\* The configuration to save is read.
LEMMA SnapshotStep == ASSUME SessionInv, NEW s \in Sessions, Snapshot(s) PROVE SessionInv'
<1> DEFINE j == [job[s] EXCEPT !.goal = db]
<1>1. pc[s] = "snapshot" /\ job[s] \in Jobs /\ db \in Configs
  BY JobTypes DEF Snapshot, SessionInv, TypeOK
<1>2. j \in Jobs /\ j.cmd = job[s].cmd /\ j.patch = job[s].patch /\ j.changes = job[s].changes
      /\ j.dirty = job[s].dirty /\ j.planned = job[s].planned
  BY <1>1 DEF Jobs
<1>3. job' = [job EXCEPT ![s] = j] /\ pc' = [pc EXCEPT ![s] = "open"] /\ UNCHANGED <<db, files, outcome, issued>>
  BY DEF Snapshot, Goto
<1>4. files' \in [Names -> {NoFile, Torn} \cup Configs]
  BY <1>3 DEF SessionInv, TypeOK
<1> HIDE DEF j
<1> QED
  BY <1>1, <1>2, <1>3, <1>4, LocalStep DEF Labels, FileSteps

\* The checkpoint file is truncated.
LEMMA OpenCheckpointStep == ASSUME SessionInv, NEW s \in Sessions, OpenCheckpoint(s) PROVE SessionInv'
<1>1. pc[s] = "open" /\ job[s] \in Jobs /\ UNCHANGED <<db, outcome, job, issued>>
  BY JobTypes DEF OpenCheckpoint, SessionInv
<1>2. job' = [job EXCEPT ![s] = job[s]] /\ pc' = [pc EXCEPT ![s] = "save"]
  BY <1>1, OfSession DEF OpenCheckpoint, Goto
<1>3. files' \in [Names -> {NoFile, Torn} \cup Configs]
  BY DEF OpenCheckpoint, SessionInv, TypeOK
<1> QED
  BY <1>1, <1>2, <1>3, LocalStep DEF Labels, FileSteps

\* The checkpoint file is written.
LEMMA SaveCheckpointStep == ASSUME WellFormed, SessionInv, NEW s \in Sessions, SaveCheckpoint(s) PROVE SessionInv'
<1>1. pc[s] = "save" /\ job[s].patch = {} /\ UNCHANGED <<db, job, issued>>
  BY FileNamed DEF SaveCheckpoint, FileSteps
<1>2. job' = [job EXCEPT ![s] = job[s]] /\ job[s] \in Jobs /\ job[s].goal \in Configs
  BY <1>1, OfSession, JobTypes DEF SessionInv
<1>3. pc' = [pc EXCEPT ![s] = "idle"] /\ outcome' = [outcome EXCEPT ![s] = "ok"]
  BY DEF SaveCheckpoint, Succeed, End, Goto
<1>4. files' \in [Names -> {NoFile, Torn} \cup Configs]
  BY <1>2 DEF SaveCheckpoint, SessionInv, TypeOK
<1> QED
  BY <1>1, <1>2, <1>3, <1>4, LocalStep DEF Labels, FileSteps

\* The patch to replace or roll back with is computed.
LEMMA GeneratePatchStep == ASSUME SessionInv, NEW s \in Sessions, GeneratePatch(s) PROVE SessionInv'
<1> DEFINE p == Diff(db, job[s].goal)
           j == [job[s] EXCEPT !.patch = p]
<1>1. pc[s] = "diff" /\ job[s] \in Jobs /\ job[s].goal \in Configs /\ db \in Configs
  BY JobTypes DEF GeneratePatch, SessionInv, TypeOK
<1>2. p \in SUBSET Edits /\ Consistent(p)
  BY <1>1, DiffIsPatch
<1>3. job' = [job EXCEPT ![s] = j] /\ pc' = [pc EXCEPT ![s] = "read"] /\ UNCHANGED <<db, files, outcome, issued>>
  BY DEF GeneratePatch, Goto
<1> HIDE DEF p
<1>4. j \in Jobs /\ j.cmd = job[s].cmd /\ j.patch = p /\ j.changes = job[s].changes
      /\ j.dirty = job[s].dirty /\ j.planned = job[s].planned
  BY <1>1, <1>2 DEF Jobs
<1>5. /\ job[s].dirty \subseteq job[s].planned /\ outcome[s] \in Outcomes \ {"ok"}
      /\ \A i \in 1..Len(job[s].changes) : \A e \in job[s].changes[i] : e.key \in job[s].planned
      /\ outcome' = [outcome EXCEPT ![s] = outcome[s]]
  BY <1>1, <1>3, OfSession
<1>6. files' \in [Names -> {NoFile, Torn} \cup Configs] /\ issued' \in 0..MaxCommands
  BY <1>3 DEF SessionInv, TypeOK
<1> HIDE DEF j
<1>7. job[s].cmd.op # "apply_unsorted"
  BY <1>1 DEF SessionInv, NoPatchYet, Op
<1>8. SoundJob(s, j, "read", outcome[s])
  BY <1>2, <1>4, <1>5, <1>7 DEF SoundJob, FileSteps
<1> QED
  BY <1>3, <1>4, <1>5, <1>6, <1>8, OwnStep DEF Labels
-----------------------------------------------------------------------------
(* PatchApplier.apply *)

\* A list of changes goes into the job, and its entries into the plans.
LEMMA WithChangesType ==
    ASSUME NEW j \in Jobs, NEW list \in Seq(SUBSET Edits)
    PROVE  LET w == WithChanges(j, list)
           IN  /\ w \in Jobs
               /\ w.cmd = j.cmd /\ w.patch = j.patch /\ w.target = j.target /\ w.dirty = j.dirty
               /\ j.planned \subseteq w.planned
               /\ \A i \in 1..Len(w.changes) : \A e \in w.changes[i] : e.key \in w.planned
<1> DEFINE new == {e.key : e \in UNION {list[i] : i \in DOMAIN list}}
           w == WithChanges(j, list)
<1>1. new \subseteq Keys
  <2>1. \A i \in DOMAIN list : list[i] \in SUBSET Edits
    OBVIOUS
  <2> QED
    BY <2>1 DEF Edits
<1>2. DOMAIN list = 1..Len(list)
  OBVIOUS
<1>3. \A i \in 1..Len(list) : \A e \in list[i] : e.key \in new
  BY <1>2
<1>4. j.planned \in SUBSET Keys
  BY DEF Jobs
<1>5. w = [j EXCEPT !.changes = list, !.planned = j.planned \cup new]
  BY DEF WithChanges
<1> HIDE DEF new, w
<1>6. /\ w \in Jobs /\ w.changes = list /\ w.planned = j.planned \cup new
      /\ w.cmd = j.cmd /\ w.patch = j.patch /\ w.target = j.target /\ w.dirty = j.dirty
  BY <1>1, <1>4, <1>5 DEF Jobs
<1>7. j.planned \subseteq w.planned /\ \A i \in 1..Len(w.changes) : \A e \in w.changes[i] : e.key \in w.planned
  BY <1>3, <1>6
<1> QED
  BY <1>6, <1>7 DEF w

\* One change per operation.
LEMMA UnsortedType ==
    ASSUME NEW p \in SUBSET Edits, IsFiniteSet(p), NEW list \in Unsorted(p)
    PROVE  list \in Seq(SUBSET Edits)
<1>1. PICK order \in [1..Cardinality(p) -> p] : list = [i \in DOMAIN order |-> {order[i]}]
  BY DEF Unsorted
<1>2. Cardinality(p) \in Nat
  BY FS_CardinalityType
<1> QED
  BY <1>1, <1>2

\* The configuration is read, and the target computed.
LEMMA ReadOldConfigStep == ASSUME SessionInv, NEW s \in Sessions, ReadOldConfig(s) PROVE SessionInv'
<1> DEFINE p == job[s].patch
           read == [job[s] EXCEPT !.target = Simulate(p, db), !.current = db]
<1>1. CASE Raise(s)
  BY <1>1, RaiseStep
<1>2. CASE ~Raise(s)
  <2>1. pc[s] = "read" /\ UNCHANGED <<db, files, outcome, issued>>
    BY <1>2 DEF ReadOldConfig
  <2>2. /\ job[s] \in Jobs /\ p \in SUBSET Edits /\ db \in Configs
        /\ files' \in [Names -> {NoFile, Torn} \cup Configs] /\ issued' \in 0..MaxCommands
    BY <2>1, JobTypes DEF SessionInv, TypeOK
  <2>3. /\ outcome' = [outcome EXCEPT ![s] = outcome[s]] /\ outcome[s] \in Outcomes \ {"ok"}
        /\ Consistent(p) /\ job[s].dirty \subseteq job[s].planned
        /\ \A i \in 1..Len(job[s].changes) : \A e \in job[s].changes[i] : e.key \in job[s].planned
        /\ job[s].cmd.op = "apply_unsorted" => IsFiniteSet(p)
    BY <2>1, OfSession DEF Op
  <2>4. Simulate(p, db) \in Configs /\ \A e \in p : Simulate(p, db)[e.key][e.field] = Wanted(e)
    BY <2>2, <2>3, SimulateType, SimulateHolds
  <2>5. /\ read \in Jobs /\ read.cmd = job[s].cmd /\ read.patch = p /\ read.target = Simulate(p, db)
        /\ read.dirty = job[s].dirty /\ read.changes = job[s].changes /\ read.planned = job[s].planned
    BY <2>2, <2>4 DEF Jobs
  <2>6. \/ /\ job[s].cmd.op = "apply_unsorted"
           /\ \E list \in Unsorted(p) : job' = [job EXCEPT ![s] = WithChanges(read, list)]
           /\ pc' = [pc EXCEPT ![s] = "change"]
        \/ job' = [job EXCEPT ![s] = read] /\ pc' = [pc EXCEPT ![s] = "strict"]
    BY <1>2 DEF ReadOldConfig, Op, Goto
  <2> HIDE DEF read, p
  <2>7. CASE job' = [job EXCEPT ![s] = read] /\ pc' = [pc EXCEPT ![s] = "strict"]
    <3>1. "strict" \in Labels /\ "strict" \notin FileSteps \cup {"diff"} /\ outcome[s] \in Outcomes
      BY <2>3 DEF Labels, FileSteps
    <3>2. \A e \in read.patch : read.target[e.key][e.field] = Wanted(e)
      BY <2>4, <2>5
    <3> QED
      <4>1. SoundJob(s, read, "strict", outcome[s])
        BY <2>3, <2>5, <3>1, <3>2 DEF SoundJob
      <4> QED
        BY <2>1, <2>2, <2>3, <2>5, <2>7, <3>1, <4>1, OwnStep
  <2>8. ASSUME NEW list \in Unsorted(p), job[s].cmd.op = "apply_unsorted",
               job' = [job EXCEPT ![s] = WithChanges(read, list)], pc' = [pc EXCEPT ![s] = "change"]
        PROVE  SessionInv'
    <3> DEFINE j == WithChanges(read, list)
    <3>1. list \in Seq(SUBSET Edits)
      BY <2>2, <2>3, <2>8, UnsortedType
    <3>2. /\ j \in Jobs /\ j.cmd = read.cmd /\ j.patch = read.patch /\ j.target = read.target /\ j.dirty = read.dirty
          /\ read.planned \subseteq j.planned
          /\ \A i \in 1..Len(j.changes) : \A e \in j.changes[i] : e.key \in j.planned
      BY <2>5, <3>1, WithChangesType
    <3>3. job' = [job EXCEPT ![s] = j]
      BY <2>8
    <3> HIDE DEF j
    <3>4. /\ j.cmd.op = "apply_unsorted" => IsFiniteSet(j.patch)
          /\ job[s].planned \subseteq j.planned /\ j.dirty \subseteq j.planned
          /\ Consistent(j.patch) /\ \A e \in j.patch : j.target[e.key][e.field] = Wanted(e)
      BY <2>3, <2>4, <2>5, <3>2
    <3>5. SoundJob(s, j, "change", outcome[s])
      BY <2>3, <3>2, <3>4 DEF SoundJob, FileSteps
    <3> QED
      BY <2>1, <2>2, <2>3, <2>8, <3>2, <3>3, <3>5, OwnStep DEF Labels
  <2> QED
    BY <2>6, <2>7, <2>8
<1> QED
  BY <1>1, <1>2

\* The sorter returns its changes.
LEMMA SortStep == ASSUME WellFormed, SessionInv, NEW s \in Sessions, Sort(s) PROVE SessionInv'
<1>1. CASE Raise(s)
  BY <1>1, RaiseStep
<1>2. CASE ~Raise(s)
  <2>1. /\ pc[s] = "sort" /\ pc' = [pc EXCEPT ![s] = "change"] /\ UNCHANGED <<db, files, outcome, issued>>
        /\ \E plan \in Plans(db, Simulate(job[s].patch, db)) : job' = [job EXCEPT ![s] = WithChanges(job[s], plan)]
    BY <1>2 DEF Sort, Goto, SessionInv, TypeOK
  <2>2. /\ job[s] \in Jobs /\ job[s].patch \in SUBSET Edits /\ db \in Configs
        /\ files' \in [Names -> {NoFile, Torn} \cup Configs] /\ issued' \in 0..MaxCommands
    BY <2>1, JobTypes DEF SessionInv, TypeOK
  <2>3. PICK plan \in Seq(SUBSET Edits) : job' = [job EXCEPT ![s] = WithChanges(job[s], plan)]
    BY <2>1, <2>2, SimulateType DEF WellFormed, PlansWellTyped
  <2>4. /\ outcome' = [outcome EXCEPT ![s] = outcome[s]] /\ outcome[s] \in Outcomes \ {"ok"}
        /\ Consistent(job[s].patch) /\ job[s].dirty \subseteq job[s].planned
        /\ job[s].cmd.op = "apply_unsorted" => IsFiniteSet(job[s].patch)
    BY <2>1, OfSession DEF Op
  <2>5. \A e \in job[s].patch : job[s].target[e.key][e.field] = Wanted(e)
    BY <2>1 DEF SessionInv, TargetHoldsPatch
  <2> DEFINE j == WithChanges(job[s], plan)
  <2>6. /\ j \in Jobs /\ j.cmd = job[s].cmd /\ j.patch = job[s].patch /\ j.target = job[s].target
        /\ j.dirty = job[s].dirty /\ job[s].planned \subseteq j.planned
        /\ \A i \in 1..Len(j.changes) : \A e \in j.changes[i] : e.key \in j.planned
    BY <2>2, WithChangesType
  <2>7. job' = [job EXCEPT ![s] = j]
    BY <2>3
  <2> HIDE DEF j
  <2>8. /\ j.cmd.op = "apply_unsorted" => IsFiniteSet(j.patch)
        /\ j.dirty \subseteq j.planned
        /\ Consistent(j.patch) /\ \A e \in j.patch : j.target[e.key][e.field] = Wanted(e)
    BY <2>4, <2>5, <2>6
  <2>9. SoundJob(s, j, "change", outcome[s])
    BY <2>4, <2>6, <2>8 DEF SoundJob, FileSteps
  <2> QED
    BY <2>1, <2>2, <2>4, <2>6, <2>7, <2>9, OwnStep DEF Labels
<1> QED
  BY <1>1, <1>2
\* A patch leaves the entries it is not about alone.
LEMMA ApplyPatchElsewhere ==
    ASSUME NEW p \in SUBSET Edits, NEW c \in Configs, NEW k \in Keys, \A e \in p : e.key # k
    PROVE  ApplyPatch(p, c)[k] = c[k]
<1>1. ApplyPatch(p, c)[k] = [f \in Fields |-> c[k][f]]
  BY DEF ApplyPatch
<1> QED
  BY <1>1 DEF Configs, Entries

\* The next change is applied to the configuration the session remembers.
LEMMA StartChangeStep == ASSUME SessionInv, NEW s \in Sessions, StartChange(s) PROVE SessionInv'
<1>1. CASE Raise(s)
  BY <1>1, RaiseStep
<1>2. CASE ~Raise(s)
  <2> DEFINE change == Head(job[s].changes)
             upd == ApplyPatch(change, job[s].current)
             dirty == {k \in Keys : job[s].current[k] # upd[k]}
             rest == Tail(job[s].changes)
             j == [job[s] EXCEPT !.dirty = dirty, !.current = upd, !.changes = rest]
  <2>1. /\ pc[s] = "change" /\ job[s].changes # <<>> /\ UNCHANGED <<db, files, outcome, issued>>
        /\ pc' = [pc EXCEPT ![s] = "write"]
    BY <1>2 DEF StartChange, Goto
  <2>2. job' = [job EXCEPT ![s] = j]
    BY <1>2 DEF StartChange, SessionInv, TypeOK
  <2>3. /\ job[s] \in Jobs /\ job[s].changes \in Seq(SUBSET Edits) /\ job[s].current \in Configs
        /\ files' \in [Names -> {NoFile, Torn} \cup Configs] /\ issued' \in 0..MaxCommands
    BY <2>1, JobTypes DEF SessionInv, TypeOK
  <2>4. /\ outcome' = [outcome EXCEPT ![s] = outcome[s]] /\ outcome[s] \in Outcomes \ {"ok"}
        /\ Consistent(job[s].patch)
        /\ \A i \in 1..Len(job[s].changes) : \A e \in job[s].changes[i] : e.key \in job[s].planned
        /\ job[s].cmd.op = "apply_unsorted" => IsFiniteSet(job[s].patch)
    BY <2>1, OfSession DEF Op
  <2>5. /\ change = job[s].changes[1] /\ 1 \in 1..Len(job[s].changes) /\ rest \in Seq(SUBSET Edits)
        /\ \A i \in 1..Len(rest) : i + 1 \in 1..Len(job[s].changes) /\ rest[i] = job[s].changes[i + 1]
    BY <2>1, <2>3
  <2>6. change \in SUBSET Edits
    BY <2>3, <2>5
  <2> HIDE DEF change, rest
  <2>7. dirty \subseteq job[s].planned
    <3> SUFFICES ASSUME NEW k \in Keys, job[s].current[k] # upd[k] PROVE k \in job[s].planned
      OBVIOUS
    <3>1. PICK e \in change : e.key = k
      BY <2>3, <2>6, ApplyPatchElsewhere
    <3> QED
      BY <2>4, <2>5, <3>1
  <2>8. \A i \in 1..Len(rest) : \A e \in rest[i] : e.key \in job[s].planned
    BY <2>4, <2>5
  <2>9. upd \in Configs /\ dirty \in SUBSET Keys
    BY <2>3, <2>6, ApplyPatchType
  <2>10. \A e \in job[s].patch : job[s].target[e.key][e.field] = Wanted(e)
    BY <2>1 DEF SessionInv, TargetHoldsPatch
  <2> HIDE DEF upd, dirty
  <2>11. /\ j \in Jobs /\ j.cmd = job[s].cmd /\ j.patch = job[s].patch /\ j.target = job[s].target
         /\ j.dirty = dirty /\ j.changes = rest /\ j.planned = job[s].planned
    BY <2>3, <2>5, <2>9 DEF Jobs
  <2> HIDE DEF j
  <2>12. /\ j.cmd.op = "apply_unsorted" => IsFiniteSet(j.patch)
         /\ job[s].planned \subseteq j.planned /\ j.dirty \subseteq j.planned
         /\ \A i \in 1..Len(j.changes) : \A e \in j.changes[i] : e.key \in j.planned
         /\ Consistent(j.patch) /\ \A e \in j.patch : j.target[e.key][e.field] = Wanted(e)
    BY <2>4, <2>7, <2>8, <2>10, <2>11
  <2>13. SoundJob(s, j, "write", outcome[s])
    BY <2>4, <2>12 DEF SoundJob, FileSteps
  <2> QED
    BY <2>1, <2>2, <2>3, <2>4, <2>11, <2>13, OwnStep DEF Labels
<1> QED
  BY <1>1, <1>2

\* Where the target is in ConfigDB, so is the patch.
LEMMA VerifiedHolds ==
    ASSUME SessionInv, NEW s \in Sessions, pc[s] = "change", Visible(job[s].target) = Visible(db)
    PROVE  PatchHolds(job[s].patch)
<1>1. job[s].patch \in SUBSET Edits
  BY JobTypes DEF SessionInv
<1>2. \A k \in Keys \ BackendKeys : job[s].target[k] = db[k]
  <2> TAKE k \in Keys \ BackendKeys
  <2>1. Visible(job[s].target)[k] = job[s].target[k] /\ Visible(db)[k] = db[k]
    BY DEF Visible
  <2> QED
    BY <2>1
<1>3. \A e \in job[s].patch : job[s].target[e.key][e.field] = Wanted(e)
  BY DEF SessionInv, TargetHoldsPatch
<1>4. \A e \in job[s].patch : e.key \in Keys
  BY <1>1 DEF Edits
<1> QED
  BY <1>2, <1>3, <1>4 DEF PatchHolds, Cell, Wanted

\* A step that changes only where the session stands, after its last change.
LEMMA VerdictStep ==
    ASSUME SessionInv, NEW s \in Sessions, pc[s] # "idle", PatchHolds(job[s].patch) \/ ~Alone(s),
           UNCHANGED <<db, files, job, issued>>,
           \/ pc' = [pc EXCEPT ![s] = "verify"] /\ UNCHANGED outcome
           \/ pc' = [pc EXCEPT ![s] = "idle"] /\ outcome' = [outcome EXCEPT ![s] = "ok"]
    PROVE  SessionInv'
<1>1. /\ job[s] \in Jobs
      /\ files' \in [Names -> {NoFile, Torn} \cup Configs] /\ issued' \in 0..MaxCommands
  BY JobTypes DEF SessionInv, TypeOK
<1>2. /\ job' = [job EXCEPT ![s] = job[s]] /\ outcome[s] \in Outcomes \ {"ok"}
      /\ UNCHANGED outcome => outcome' = [outcome EXCEPT ![s] = outcome[s]]
      /\ Consistent(job[s].patch) /\ job[s].dirty \subseteq job[s].planned
      /\ \A i \in 1..Len(job[s].changes) : \A e \in job[s].changes[i] : e.key \in job[s].planned
      /\ job[s].cmd.op = "apply_unsorted" => IsFiniteSet(job[s].patch)
  BY OfSession DEF Op
<1>3. OthersKeepOff(s, job[s]) => PatchHolds(job[s].patch)
  BY DEF OthersKeepOff, Alone, KeysOf
<1>4. CASE pc' = [pc EXCEPT ![s] = "verify"] /\ UNCHANGED outcome
  <2>1. SoundJob(s, job[s], "verify", outcome[s])
    BY <1>2, <1>3 DEF SoundJob, FileSteps
  <2>2. /\ outcome' = [outcome EXCEPT ![s] = outcome[s]] /\ outcome[s] \in Outcomes
        /\ "verify" \in Labels /\ job' = [job EXCEPT ![s] = job[s]]
        /\ pc' = [pc EXCEPT ![s] = "verify"] /\ UNCHANGED db
    BY <1>2, <1>4 DEF Labels
  <2> QED
    BY <1>1, <2>1, <2>2, OwnStep
<1>5. CASE pc' = [pc EXCEPT ![s] = "idle"] /\ outcome' = [outcome EXCEPT ![s] = "ok"]
  <2>1. SoundJob(s, job[s], "idle", "ok")
    BY <1>2, <1>3 DEF SoundJob, FileSteps
  <2> QED
    BY <1>1, <1>2, <1>5, <2>1, OwnStep DEF Labels, Outcomes
<1> QED
  BY <1>4, <1>5

\* The comparison with the target.
LEMMA VerifyStep == ASSUME SessionInv, NEW s \in Sessions, Verify(s) PROVE SessionInv'
<1>1. CASE Visible(job[s].target) # Visible(db)
  BY <1>1, RaiseStep DEF Verify
<1>2. CASE Visible(job[s].target) = Visible(db)
  <2>1. PatchHolds(job[s].patch) /\ pc[s] = "change"
    BY <1>2, VerifiedHolds DEF Verify
  <2> QED
    BY <1>2, <2>1, VerdictStep DEF Verify, Succeed, End, Goto
<1> QED
  BY <1>1, <1>2

\* The comparison with the configuration to replace with.
LEMMA VerifyReplaceStep == ASSUME SessionInv, NEW s \in Sessions, VerifyReplace(s) PROVE SessionInv'
<1>1. CASE Raise(s)
  BY <1>1, RaiseStep
<1>2. CASE ~Raise(s)
  <2>1. pc[s] = "verify" /\ (PatchHolds(job[s].patch) \/ ~Alone(s))
    BY DEF VerifyReplace, SessionInv, PatchStays
  <2> QED
    BY <1>2, <2>1, VerdictStep DEF VerifyReplace, Succeed, End, Goto
<1> QED
  BY <1>1, <1>2
-----------------------------------------------------------------------------
(* Steps that others feel *)

\* A checkpoint is deleted, also under the sessions that have its file open.
LEMMA DeleteCheckpointStep == ASSUME WellFormed, SessionInv, NEW s \in Sessions, DeleteCheckpoint(s) PROVE SessionInv'
<1>1. CASE files[Name(s)] = NoFile
  BY <1>1, RaiseStep DEF DeleteCheckpoint
<1>2. CASE files[Name(s)] # NoFile
  <2>0. /\ pc[s] = "unlink" /\ job[s].patch = {} /\ UNCHANGED <<db, issued>>
        /\ files' = [files EXCEPT ![Name(s)] = NoFile]
        /\ pc' = [pc EXCEPT ![s] = "idle"] /\ outcome' = [outcome EXCEPT ![s] = "ok"]
    BY <1>2, FileNamed DEF DeleteCheckpoint, FileSteps, Succeed, End, Goto
  <2>1. /\ pc'[s] = "idle" /\ outcome'[s] = "ok"
        /\ \A t \in Sessions \ {s} : pc'[t] = pc[t] /\ outcome'[t] = outcome[t]
    BY <2>0 DEF SessionInv, TypeOK
  <2>2. job' \in [Sessions -> Jobs]
        /\ \A t \in Sessions : /\ job'[t].cmd = job[t].cmd /\ job'[t].patch = job[t].patch
                               /\ job'[t].target = job[t].target /\ job'[t].changes = job[t].changes
                               /\ job'[t].dirty = job[t].dirty /\ job'[t].planned = job[t].planned
    <3>1. \A t \in Sessions : job[t] \in Jobs
      BY DEF SessionInv, TypeOK
    <3>2. job' = [t \in Sessions |->
             IF pc[t] = "save" /\ Name(t) = Name(s) THEN [job[t] EXCEPT !.orphan = TRUE] ELSE job[t]]
      BY <1>2 DEF DeleteCheckpoint
    <3>3. \A t \in Sessions : job'[t] = job[t] \/ job'[t] = [job[t] EXCEPT !.orphan = TRUE]
      BY <3>2
    <3>4. ASSUME NEW t \in Sessions
          PROVE  /\ job'[t] \in Jobs
                 /\ job'[t].cmd = job[t].cmd /\ job'[t].patch = job[t].patch
                 /\ job'[t].target = job[t].target /\ job'[t].changes = job[t].changes
                 /\ job'[t].dirty = job[t].dirty /\ job'[t].planned = job[t].planned
      <4> DEFINE j == job[t]
      <4>1. j \in Jobs
        BY <3>1
      <4> HIDE DEF j
      <4> DEFINE o == [j EXCEPT !.orphan = TRUE]
      <4>2. /\ o \in Jobs /\ o.cmd = j.cmd /\ o.patch = j.patch /\ o.target = j.target
            /\ o.changes = j.changes /\ o.dirty = j.dirty /\ o.planned = j.planned
        BY <4>1 DEF Jobs
      <4>3. job'[t] \in {j, o}
        BY <3>3 DEF j
      <4> HIDE DEF o
      <4> QED
        BY <4>1, <4>2, <4>3 DEF j
    <3> QED
      BY <3>2, <3>4
  <2>3. TypeOK'
    BY <2>0, <2>2 DEF SessionInv, TypeOK, Labels
  <2>4. NoPatchYet'
    BY <2>1, <2>2 DEF SessionInv, NoPatchYet, FileSteps, Op
  <2>5. OutcomeWhenIdle'
    BY <2>1 DEF SessionInv, OutcomeWhenIdle, Idle
  <2>6. WritesArePlanned' /\ PatchesConsistent'
    BY <2>2 DEF SessionInv, WritesArePlanned, PatchesConsistent
  <2>7. TargetHoldsPatch'
    BY <2>1, <2>2 DEF SessionInv, TargetHoldsPatch
  <2>8. PatchStays'
    <3> SUFFICES ASSUME NEW r \in Sessions, (outcome'[r] = "ok" \/ pc'[r] = "verify") /\ Alone(r)'
                 PROVE  PatchHolds(job[r].patch)'
      BY DEF PatchStays
    <3>1. PatchHolds(job[r].patch)
      BY <2>0, <2>1, <2>2 DEF SessionInv, PatchStays, Alone, PatchHolds
    <3> QED
      BY <2>0, <2>2, <3>1 DEF PatchHolds, Cell
  <2> QED
    BY <2>3, <2>4, <2>5, <2>6, <2>7, <2>8 DEF SessionInv
<1> QED
  BY <1>1, <1>2

\* An entry of ConfigDB is written that nobody's applied patch is about.
LEMMA OthersEntry ==
    ASSUME SessionInv, NEW k \in Keys, NEW entry, db' = [db EXCEPT ![k] = entry],
           NEW r \in Sessions, PatchHolds(job[r].patch), k \in BackendKeys \/ k \notin KeysOf(job[r].patch)
    PROVE  \A e \in job[r].patch : e.key \notin BackendKeys => Cell(db, e)' = Wanted(e)
<1>1. job[r].patch \in SUBSET Edits /\ db \in Configs
  BY JobTypes DEF SessionInv, TypeOK
<1>2. \A e \in job[r].patch : e.key \in Keys /\ (e.key \notin BackendKeys => e.key # k)
  BY <1>1 DEF Edits, KeysOf
<1> QED
  BY <1>1, <1>2 DEF PatchHolds, Cell, Wanted, Configs

\* A session writes an entry.
LEMMA WriteEntryStep ==
    ASSUME WellFormed, SessionInv, NEW s \in Sessions, NEW k \in Keys, WriteEntry(s, k) PROVE SessionInv'
<1> DEFINE j == [job[s] EXCEPT !.dirty = job[s].dirty \ {k}]
<1>1. /\ pc[s] = "write" /\ k \in job[s].dirty /\ UNCHANGED <<files, pc, outcome, issued>>
      /\ db' = [db EXCEPT ![k] = Stored(job[s].current[k])]
  BY DEF WriteEntry
<1>2. job' = [job EXCEPT ![s] = j] /\ job[s] \in Jobs
  BY DEF WriteEntry, SessionInv, TypeOK
<1>3. /\ j \in Jobs /\ j.cmd = job[s].cmd /\ j.patch = job[s].patch /\ j.target = job[s].target
      /\ j.dirty = job[s].dirty \ {k} /\ j.changes = job[s].changes /\ j.planned = job[s].planned
  BY <1>2 DEF Jobs
<1> HIDE DEF j
<1>4. /\ job' \in [Sessions -> Jobs]
      /\ \A t \in Sessions : /\ job'[t].cmd = job[t].cmd /\ job'[t].patch = job[t].patch
                             /\ job'[t].target = job[t].target /\ job'[t].changes = job[t].changes
                             /\ job'[t].dirty \subseteq job[t].dirty /\ job'[t].planned = job[t].planned
  BY <1>2, <1>3 DEF SessionInv, TypeOK
<1>5. Stored(job[s].current[k]) \in Entries
  <2>1. job[s].current[k] \in Entries
    BY JobTypes DEF SessionInv, Configs
  <2> QED
    BY <2>1 DEF Stored, Entries, WellFormed, ParametersWellTyped
<1>6. TypeOK'
  BY <1>1, <1>4, <1>5 DEF SessionInv, TypeOK, Configs
<1>7. NoPatchYet' /\ OutcomeWhenIdle'
  BY <1>1, <1>4 DEF SessionInv, NoPatchYet, OutcomeWhenIdle, Idle, Op
<1>8. WritesArePlanned' /\ PatchesConsistent'
  BY <1>4 DEF SessionInv, WritesArePlanned, PatchesConsistent
<1>9. TargetHoldsPatch'
  BY <1>1, <1>4 DEF SessionInv, TargetHoldsPatch
<1>10. PatchStays'
  <2> SUFFICES ASSUME NEW r \in Sessions, (outcome'[r] = "ok" \/ pc'[r] = "verify") /\ Alone(r)'
               PROVE  PatchHolds(job[r].patch)'
    BY DEF PatchStays
  <2>1. r # s
    BY <1>1 DEF SessionInv, OutcomeWhenIdle, Idle
  <2>2. (outcome[r] = "ok" \/ pc[r] = "verify") /\ Alone(r)
    BY <1>1, <1>4 DEF Alone
  <2>3. k \notin KeysOf(job[r].patch)
    BY <1>1, <2>1, <2>2 DEF SessionInv, WritesArePlanned, Alone, KeysOf
  <2>4. PatchHolds(job[r].patch)
    BY <2>2 DEF SessionInv, PatchStays
  <2>5. \A e \in job[r].patch : e.key \notin BackendKeys => Cell(db, e)' = Wanted(e)
    BY <1>1, <2>3, <2>4, OthersEntry
  <2> QED
    BY <1>4, <2>5 DEF PatchHolds, Wanted, Cell
<1> QED
  BY <1>6, <1>7, <1>8, <1>9, <1>10 DEF SessionInv

\* A daemon writes an entry of a backend table.
LEMMA BackendWriteStep ==
    ASSUME WellFormed, SessionInv, NEW k \in BackendKeys, NEW entry \in BackendEntries, BackendWrite(k, entry)
    PROVE  SessionInv'
<1>1. UNCHANGED <<files, pc, outcome, job, issued>> /\ db' = [db EXCEPT ![k] = entry]
  BY DEF BackendWrite
<1>2. k \in Keys /\ entry \in Entries
  BY DEF WellFormed, ParametersWellTyped
<1>3. TypeOK'
  BY <1>1, <1>2 DEF SessionInv, TypeOK, Configs
<1>4. NoPatchYet' /\ OutcomeWhenIdle' /\ WritesArePlanned' /\ PatchesConsistent' /\ TargetHoldsPatch'
  BY <1>1
  DEF SessionInv, NoPatchYet, OutcomeWhenIdle, Idle, Op, WritesArePlanned, PatchesConsistent, TargetHoldsPatch
<1>5. PatchStays'
  <2> SUFFICES ASSUME NEW r \in Sessions, (outcome'[r] = "ok" \/ pc'[r] = "verify") /\ Alone(r)'
               PROVE  PatchHolds(job[r].patch)'
    BY DEF PatchStays
  <2>1. PatchHolds(job[r].patch)
    BY <1>1 DEF SessionInv, PatchStays, Alone
  <2>2. \A e \in job[r].patch : e.key \notin BackendKeys => Cell(db, e)' = Wanted(e)
    BY <1>1, <1>2, <2>1, OthersEntry
  <2> QED
    BY <1>1, <2>2 DEF PatchHolds, Wanted, Cell
<1> QED
  BY <1>3, <1>4, <1>5 DEF SessionInv

-----------------------------------------------------------------------------
(* The theorems *)

\* Every step preserves the invariant.
LEMMA SessionInvStep == ASSUME WellFormed, SessionInv, [Next]_vars PROVE SessionInv'
<1>1. CASE UNCHANGED vars
  BY <1>1
  DEF vars, SessionInv, TypeOK, NoPatchYet, OutcomeWhenIdle, Idle, Op, WritesArePlanned, PatchesConsistent,
      TargetHoldsPatch, PatchStays, Alone, PatchHolds, Cell
<1>2. ASSUME NEW k \in BackendKeys, NEW entry \in BackendEntries, BackendWrite(k, entry) PROVE SessionInv'
  BY <1>2, BackendWriteStep
<1>3. ASSUME NEW s \in Sessions, Step(s) PROVE SessionInv'
  <2>1. ASSUME NEW k \in Keys, WriteEntry(s, k) PROVE SessionInv'
    BY <2>1, WriteEntryStep
  <2> QED
    BY <1>3, <2>1, CheckExistsStep, LoadCheckpointStep, DeleteCheckpointStep, SnapshotStep, OpenCheckpointStep,
       SaveCheckpointStep, GeneratePatchStep, ReadOldConfigStep, StrictSortStep, SortStep, StartChangeStep,
       ValidateServicesStep, VerifyStep, VerifyReplaceStep
    DEF Step
<1>4. ASSUME NEW s \in Sessions, Kill(s) PROVE SessionInv'
  BY <1>4, KillStep
<1>5. ASSUME NEW s \in Sessions, NEW c \in Commands, Start(s, c) PROVE SessionInv'
  BY <1>5, StartStep
<1> QED
  BY <1>1, <1>2, <1>3, <1>4, <1>5 DEF Next, AllDone

(* The invariant holds in every reachable state. *)
THEOREM SessionsInvariant == ASSUME PlansWellTyped PROVE Spec => []SessionInv
<1>0. WellFormed
  BY CommandsAssumption, ParametersAssumption DEF WellFormed
<1>1. Init => SessionInv
  BY <1>0, InitSessionInv
<1>2. SessionInv /\ [Next]_vars => SessionInv'
  BY <1>0, SessionInvStep
<1> QED
  BY <1>1, <1>2, PTL DEF Spec

(* ConfigDB, the checkpoint directory and the local variables of every command *)
(* keep their types, whatever the sorter returns and whoever is killed.        *)
THEOREM UpdaterTypeCorrect == ASSUME PlansWellTyped PROVE Spec => []TypeOK
<1>1. SessionInv => TypeOK
  BY DEF SessionInv
<1> QED
  BY <1>1, SessionsInvariant, PTL

(* What a session has reported as applied stays in ConfigDB as long as no other *)
(* session's changes are about the same entries, for any number of sessions    *)
(* that run without a lock.                                                     *)
THEOREM AppliedStays == ASSUME PlansWellTyped PROVE Spec => []AppliedEntriesStay
<1>1. SessionInv => AppliedEntriesStay
  BY DEF SessionInv, PatchStays, Alone, AppliedEntriesStay
<1> QED
  BY <1>1, SessionsInvariant, PTL
=============================================================================
