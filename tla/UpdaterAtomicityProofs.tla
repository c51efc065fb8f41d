----------------------- MODULE UpdaterAtomicityProofs -----------------------
(***************************************************************************)
(* A sole session is atomic, whatever the sorter, the commands and the      *)
(* daemons: a command that fails has changed nothing, replace and rollback  *)
(* fail only for what they are asked, and the updater implements            *)
(* AtomicUpdate.  The argument follows the configuration that the loop of   *)
(* PatchApplier.apply remembers: it stays on a path to the target although  *)
(* the plan was made from a later reading of ConfigDB, and ConfigDB follows *)
(* it entry by entry.                                                       *)
(***************************************************************************)
EXTENDS UpdaterAtomicity, GenericUpdaterProofs

\* The sorter returns lists of changes that lead from current to target.
PlansLead ==
    \A c, t \in Configs : \A plan \in Plans(c, t) :
        /\ plan \in Seq(SUBSET Edits)
        /\ \E q \in [0..Len(plan) -> Configs] : Leads(q, plan, c, t)

\* A checkpoint file that is missing or torn is told from a configuration.
FilesDistinct == \A c \in Configs : {c, Visible(c)} \cap {NoFile, Torn} = {}

\* The hypotheses of the theorems, but for the one on the daemons.
SoleAndSorted == WellFormed /\ SoleSession /\ PlansLead /\ NoEmptyListsGiven /\ FilesDistinct

-----------------------------------------------------------------------------
(* The inductive invariant. *)

SameVisibly(c, d) == \A k \in VisibleKeys : c[k] = d[k]
SameFields(c, d) == \A k \in Keys : \A f \in Fields : c[k][f] = Unset <=> d[k][f] = Unset

\* The commands that come by a step.
OpFits(op, label) ==
    /\ label = "exists" => op \in {"rollback", "delete"}
    /\ label = "load" => op = "rollback"
    /\ label = "unlink" => op = "delete"
    /\ label \in {"snapshot", "open", "save"} => op = "checkpoint"
    /\ label \in {"diff", "verify"} => op \in {"replace", "rollback"}
    /\ label \in {"strict", "sort"} => op \in {"apply", "replace", "rollback"}
    /\ label \in {"read", "change", "write"} => op \in {"apply", "apply_unsorted", "replace", "rollback"}

Unwritten == Labels \ {"idle", "change", "write", "verify"}
Aimed == {"diff", "read", "strict", "sort", "change", "write", "verify"}
Patching == Aimed \ {"diff"}
Targeted == Patching \ {"read"}

\* The list leads from something like c to something like t.
Approaches(list, c, t, b) ==
    \E q \in [0..Len(list) -> Configs] :
        /\ IsPath(q, list)
        /\ SameVisibly(q[0], c) /\ SameFields(q[0], c) /\ SameVisibly(q[Len(list)], t)
        /\ \A i \in 0..Len(list) : Mixed(q[i], b, t)

\* What a command was asked for, and what it works with: nothing is written
\* before the changes start, and the goal, the patch and the target agree.
AimInv(j, label, d, fs) ==
    /\ ~j.orphan
    /\ label # "idle" => j.cmd \in Commands /\ OpFits(j.cmd.op, label) /\ NoEmptyLists(j.before)
    /\ label \in Unwritten => SameVisibly(d, j.before) /\ j.dirty = {}
    /\ label # "idle" /\ j.cmd.op \in ApplyOps => j.patch = j.cmd.patch
    /\ label \in Aimed /\ j.cmd.op = "replace" => j.goal = j.cmd.config
    /\ label \in Aimed /\ j.cmd.op = "rollback" => fs[j.cmd.name] = j.goal
    /\ label \in Aimed /\ j.cmd.op \notin ApplyOps => NoEmptyLists(j.goal)
    /\ label \in Patching /\ j.cmd.op \notin ApplyOps => SameVisibly(ApplyPatch(j.patch, j.before), j.goal)
    /\ label \in Targeted => SameVisibly(j.target, Simulate(j.patch, j.before))
    /\ label \in {"open", "save"} => SameVisibly(j.goal, j.before)
    /\ label = "save" => fs[j.cmd.name] = Torn

\* Where the loop over the changes stands, and how ConfigDB follows it.
LoopInv(j, label, d) ==
    /\ label \in {"strict", "sort"} => SameVisibly(j.current, j.before) /\ SameFields(j.current, d)
    /\ label = "change" => j.dirty = {}
    /\ label \in {"change", "write"} =>
          /\ Approaches(j.changes, j.current, j.target, j.before)
          /\ Mixed(d, j.before, j.target)
          /\ \A k \in VisibleKeys \ j.dirty : d[k] \in {j.current[k], Stored(j.current[k])}
    /\ label = "verify" => SameVisibly(d, j.target)

OutcomeInv(j, label, how, d) ==
    /\ how = "running" <=> label # "idle"
    /\ how = "error" => SameVisibly(d, j.before)

StoreInv(d, fs) ==
    /\ NoEmptyLists(d)
    /\ \A n \in Names : fs[n] \notin {NoFile, Torn} => NoEmptyLists(fs[n])

JobInv(j, label, how, d, fs) == AimInv(j, label, d, fs) /\ LoopInv(j, label, d) /\ OutcomeInv(j, label, how, d)

SoleInv ==
    /\ SessionInv /\ StoreInv(db, files)
    /\ \A s \in Sessions : JobInv(job[s], pc[s], outcome[s], db, files)

-----------------------------------------------------------------------------
(* Configurations, entry by entry *)

\* A patch does to an entry what it does, whatever the others are.
LEMMA PatchedAlike ==
    ASSUME NEW p \in SUBSET Edits, NEW c \in Configs, NEW d \in Configs, NEW k \in Keys, c[k] = d[k]
    PROVE  ApplyPatch(p, c)[k] = ApplyPatch(p, d)[k] /\ Simulate(p, c)[k] = Simulate(p, d)[k]
<1>1. ApplyPatch(p, c)[k] = ApplyPatch(p, d)[k]
  BY DEF ApplyPatch
<1> QED
  BY <1>1 DEF Simulate, Normalised

\* A patch leaves no difference in which fields there are.
LEMMA PatchedSameFields ==
    ASSUME NEW p \in SUBSET Edits, NEW c \in Configs, NEW d \in Configs, SameFields(c, d)
    PROVE  SameFields(ApplyPatch(p, c), ApplyPatch(p, d))
<1> SUFFICES ASSUME NEW k \in Keys, NEW f \in Fields
             PROVE  ApplyPatch(p, c)[k][f] = Unset <=> ApplyPatch(p, d)[k][f] = Unset
  BY DEF SameFields
<1>1. c[k][f] = Unset <=> d[k][f] = Unset
  BY DEF SameFields
<1>2. CASE \E e \in p : e.key = k /\ e.field = f
  BY <1>2 DEF ApplyPatch
<1>3. CASE ~\E e \in p : e.key = k /\ e.field = f
  BY <1>1, <1>3 DEF ApplyPatch
<1> QED
  BY <1>2, <1>3

\* Whether a patch applies depends on which fields there are only.
LEMMA AppliesAlike ==
    ASSUME NEW p \in SUBSET Edits, NEW c, NEW d, SameFields(c, d), Applies(p, c)
    PROVE  Applies(p, d)
<1> SUFFICES ASSUME NEW e \in p, e.op \in {"remove", "replace"} PROVE Cell(d, e) # Unset
  BY DEF Applies
<1>1. e.key \in Keys /\ e.field \in Fields /\ Cell(c, e) # Unset
  BY DEF Applies, Edits
<1> QED
  BY <1>1 DEF SameFields, Cell

\* The target of a patch has no empty leaf-lists.
LEMMA SimulateStored ==
    ASSUME NEW p, NEW c, NEW k \in Keys, NEW f \in Fields
    PROVE  Simulate(p, c)[k][f] # EmptyList
  BY ListsAssumption DEF Simulate, Normalised

\* set_entry stores an entry without empty leaf-lists as it is.
LEMMA StoredAsIs ==
    ASSUME NEW e \in Entries, \A f \in Fields : e[f] # EmptyList
    PROVE  Stored(e) = e
<1>1. Stored(e) = [f \in Fields |-> e[f]]
  BY DEF Stored
<1> QED
  BY <1>1 DEF Entries

\* What set_entry stores has none, and is an entry.
LEMMA StoredType ==
    ASSUME WellFormed, NEW e \in Entries
    PROVE  Stored(e) \in Entries /\ \A f \in Fields : Stored(e)[f] # EmptyList
  BY ListsAssumption DEF Stored, Entries, WellFormed, ParametersWellTyped

\* The patch generated from c to t leads from c to t.
LEMMA DiffLeads ==
    ASSUME NEW c \in Configs, NEW t \in Configs
    PROVE  ApplyPatch(Diff(c, t), c) = t /\ Applies(Diff(c, t), c)
<1> DEFINE p == Diff(c, t)
<1>1. ASSUME NEW k \in Keys, NEW f \in Fields PROVE ApplyPatch(p, c)[k][f] = t[k][f]
  <2>1. CASE c[k][f] = t[k][f]
    <3>1. ~\E e \in p : e.key = k /\ e.field = f
      BY <2>1 DEF Diff, EditTo
    <3> QED
      BY <2>1, <3>1 DEF ApplyPatch
  <2>2. CASE c[k][f] # t[k][f]
    <3>1. EditTo(c, t, k, f) \in p
      <4>1. <<k, f>> \in {kf \in Keys \X Fields : c[kf[1]][kf[2]] # t[kf[1]][kf[2]]}
        BY <2>2
      <4> QED
        BY <4>1 DEF Diff
    <3>2. EditTo(c, t, k, f).key = k /\ EditTo(c, t, k, f).field = f
      BY DEF EditTo
    <3>3. \A e \in p : e.key = k /\ e.field = f => e.value = t[k][f]
      BY DEF Diff, EditTo
    <3> HIDE DEF p
    <3>4. (CHOOSE e \in p : e.key = k /\ e.field = f).value = t[k][f]
      BY <3>1, <3>2, <3>3
    <3> QED
      BY <3>1, <3>2, <3>4 DEF ApplyPatch
  <2> QED
    BY <2>1, <2>2
<1>2. ApplyPatch(p, c) = [k \in Keys |-> [f \in Fields |-> ApplyPatch(p, c)[k][f]]]
  BY DEF ApplyPatch
<1>3. t = [k \in Keys |-> [f \in Fields |-> t[k][f]]]
  BY DEF Configs, Entries
<1>4. ApplyPatch(p, c) = t
  BY <1>1, <1>2, <1>3
<1>5. Applies(p, c)
  BY DEF Applies, Diff, EditTo, Cell
<1> QED
  BY <1>4, <1>5

\* The comparisons see the visible entries.
LEMMA VisibleAlike ==
    ASSUME NEW c, NEW d
    PROVE  Visible(c) = Visible(d) <=> SameVisibly(c, d)
<1>1. \A k \in VisibleKeys : Visible(c)[k] = c[k] /\ Visible(d)[k] = d[k]
  BY DEF Visible, VisibleKeys
<1>2. Visible(c) = [k \in VisibleKeys |-> c[k]] /\ Visible(d) = [k \in VisibleKeys |-> d[k]]
  BY DEF Visible, VisibleKeys
<1> QED
  BY <1>1, <1>2 DEF SameVisibly

-----------------------------------------------------------------------------
(* Steps *)

\* The invariant after a step of session s, but for SessionInv.
Kept(s) == StoreInv(db', files') /\ JobInv(job'[s], pc'[s], outcome'[s], db', files')

\* What is known of the session before its step.
LEMMA Known ==
    ASSUME SoleInv, NEW s \in Sessions
    PROVE  /\ SessionInv /\ StoreInv(db, files) /\ JobInv(job[s], pc[s], outcome[s], db, files)
           /\ db \in Configs /\ files \in [Names -> {NoFile, Torn} \cup Configs]
           /\ job[s] \in Jobs /\ job[s].goal \in Configs /\ job[s].patch \in SUBSET Edits
           /\ job[s].target \in Configs /\ job[s].current \in Configs /\ job[s].before \in Configs
           /\ job[s].changes \in Seq(SUBSET Edits) /\ job[s].dirty \in SUBSET Keys
           /\ pc[s] \in Labels /\ Consistent(job[s].patch)
<1>1. SessionInv /\ TypeOK /\ Consistent(job[s].patch)
  BY DEF SoleInv, SessionInv, PatchesConsistent
<1>2. job[s].before \in Configs
  BY <1>1 DEF TypeOK, Jobs
<1> QED
  BY <1>1, <1>2, JobTypes DEF SoleInv, TypeOK

\* The label, the outcome and the job of a session after its step.
LEMMA After ==
    ASSUME SoleInv, NEW s \in Sessions
    PROVE  /\ \A label : Goto(s, label) => pc'[s] = label
           /\ \A how : End(s, how) => pc'[s] = "idle" /\ outcome'[s] = how
           /\ \A j : job' = [job EXCEPT ![s] = j] => job'[s] = j
<1>1. pc \in [Sessions -> Labels] /\ outcome \in [Sessions -> Outcomes] /\ job \in [Sessions -> Jobs]
  BY DEF SoleInv, SessionInv, TypeOK, Outcomes
<1> QED
  BY <1>1 DEF Goto, End

\* The keys that comparisons see are keys.
LEMMA VisibleAreKeys == VisibleKeys \subseteq Keys
  BY DEF VisibleKeys

\* An exception before anything is written.
LEMMA RaiseKept ==
    ASSUME SoleInv, NEW s \in Sessions, pc[s] \in Unwritten, Raise(s)
    PROVE  Kept(s)
<1>1. JobInv(job[s], pc[s], outcome[s], db, files) /\ StoreInv(db, files)
  BY Known
<1>2. pc'[s] = "idle" /\ outcome'[s] = "error" /\ UNCHANGED <<db, files, job, issued>>
  BY After DEF Raise
<1>3. ~job[s].orphan /\ SameVisibly(db, job[s].before)
  BY <1>1 DEF JobInv, AimInv
<1>4. JobInv(job[s], "idle", "error", db, files)
  BY <1>3 DEF JobInv, AimInv, LoopInv, OutcomeInv, Unwritten, Aimed, Patching, Targeted, Labels
<1> QED
  BY <1>1, <1>2, <1>4 DEF Kept

\* A signal, anywhere.
LEMMA KillKept == ASSUME SoleInv, NEW s \in Sessions, Kill(s) PROVE Kept(s)
<1>1. JobInv(job[s], pc[s], outcome[s], db, files) /\ StoreInv(db, files)
  BY Known
<1>2. pc'[s] = "idle" /\ outcome'[s] = "killed" /\ UNCHANGED <<db, files, job, issued>>
  BY After DEF Kill
<1>3. ~job[s].orphan
  BY <1>1 DEF JobInv, AimInv
<1>4. JobInv(job[s], "idle", "killed", db, files)
  BY <1>3 DEF JobInv, AimInv, LoopInv, OutcomeInv, Unwritten, Aimed, Patching, Targeted, Labels
<1> QED
  BY <1>1, <1>2, <1>4 DEF Kept

\* The command ends well: nothing more is said of it.
LEMMA SucceedKept ==
    ASSUME SoleInv, NEW s \in Sessions, Succeed(s), UNCHANGED <<db, job>>, StoreInv(db, files')
    PROVE  Kept(s)
<1>1. JobInv(job[s], pc[s], outcome[s], db, files)
  BY Known
<1>2. pc'[s] = "idle" /\ outcome'[s] = "ok"
  BY After DEF Succeed
<1>3. ~job[s].orphan
  BY <1>1 DEF JobInv, AimInv
<1>4. JobInv(job[s], "idle", "ok", db, files')
  BY <1>3 DEF JobInv, AimInv, LoopInv, OutcomeInv, Unwritten, Aimed, Patching, Targeted, Labels
<1> QED
  BY <1>2, <1>4 DEF Kept

\* A command starts.
LEMMA StartKept ==
    ASSUME SoleAndSorted, SoleInv, NEW s \in Sessions, NEW c \in Commands, Start(s, c)
    PROVE  Kept(s)
<1> DEFINE j == NewJob(c, job[s].planned)
           label == FirstStep(c)
<1>1. StoreInv(db, files)
  BY Known
<1>2. job'[s] = j /\ pc'[s] = label /\ outcome'[s] = "running" /\ UNCHANGED <<db, files>>
  <2>1. outcome' = [outcome EXCEPT ![s] = "running"] /\ outcome \in [Sessions -> Outcomes]
    BY DEF Start, SoleInv, SessionInv, TypeOK, Outcomes
  <2> QED
    BY <2>1, After DEF Start
<1>3. c.op \in ApplyOps \cup FileOps \cup {"replace"}
  BY DEF SoleAndSorted, WellFormed, CommandsWellFormed
<1>4. /\ label \in {"read", "diff", "exists", "snapshot"} /\ OpFits(c.op, label)
      /\ label \in {"read", "diff"} => c.op \in ApplyOps \cup {"replace"}
      /\ label = "read" => c.op \in ApplyOps
      /\ label = "diff" => c.op = "replace"
  BY <1>3 DEF FirstStep, OpFits, ApplyOps, FileOps
<1>5. /\ j.cmd = c /\ j.dirty = {} /\ j.orphan = FALSE /\ j.before = db
      /\ c.op = "replace" => j.goal = c.config
      /\ c.op \in ApplyOps => j.patch = c.patch
  BY DEF NewJob
<1>6. NoEmptyLists(db) /\ (c.op = "replace" => NoEmptyLists(c.config))
  BY <1>1 DEF StoreInv, SoleAndSorted, NoEmptyListsGiven
<1> HIDE DEF j, label
<1>7. AimInv(j, label, db, files)
  BY <1>4, <1>5, <1>6 DEF AimInv, SameVisibly, Unwritten, Aimed, Patching, Targeted, Labels, ApplyOps
<1>8. LoopInv(j, label, db) /\ OutcomeInv(j, label, "running", db)
  BY <1>4 DEF LoopInv, OutcomeInv
<1> QED
  BY <1>1, <1>2, <1>7, <1>8 DEF Kept, JobInv

\* The checkpoint is looked for.
LEMMA CheckExistsKept == ASSUME SoleInv, NEW s \in Sessions, CheckExists(s) PROVE Kept(s)
<1>1. CASE files[Name(s)] = NoFile
  BY <1>1, RaiseKept DEF CheckExists, Unwritten, Labels
<1>2. CASE files[Name(s)] # NoFile
  <2> DEFINE label == IF Op(s) = "rollback" THEN "load" ELSE "unlink"
  <2>1. JobInv(job[s], "exists", outcome[s], db, files) /\ StoreInv(db, files)
    BY Known DEF CheckExists
  <2>2. pc'[s] = label /\ UNCHANGED <<db, files, outcome, job>>
    BY <1>2, After DEF CheckExists
  <2>3. job[s].cmd \in Commands /\ job[s].cmd.op \in {"rollback", "delete"} /\ OutcomeInv(job[s], "exists", outcome[s], db)
    BY <2>1 DEF JobInv, AimInv, OpFits
  <2>4. label \in {"load", "unlink"} /\ OpFits(job[s].cmd.op, label)
    BY <2>3 DEF Op, OpFits
  <2> HIDE DEF label
  <2>5. AimInv(job[s], label, db, files)
    BY <2>1, <2>3, <2>4 DEF JobInv, AimInv, Unwritten, Aimed, Patching, Targeted, Labels, ApplyOps
  <2>6. LoopInv(job[s], label, db) /\ OutcomeInv(job[s], label, outcome[s], db)
    BY <2>3, <2>4 DEF LoopInv, OutcomeInv
  <2> QED
    BY <2>1, <2>2, <2>5, <2>6 DEF Kept, JobInv
<1> QED
  BY <1>1, <1>2

\* The checkpoint is read: it is the goal.
LEMMA LoadCheckpointKept == ASSUME SoleAndSorted, SoleInv, NEW s \in Sessions, LoadCheckpoint(s) PROVE Kept(s)
<1>1. CASE files[Name(s)] \in {NoFile, Torn}
  BY <1>1, RaiseKept DEF LoadCheckpoint, Unwritten, Labels
<1>2. CASE files[Name(s)] \notin {NoFile, Torn}
  <2> DEFINE j == [job[s] EXCEPT !.goal = files[Name(s)]]
  <2>1. JobInv(job[s], "load", outcome[s], db, files) /\ StoreInv(db, files) /\ job[s] \in Jobs
    BY Known DEF LoadCheckpoint
  <2>2. pc'[s] = "diff" /\ job'[s] = j /\ UNCHANGED <<db, files, outcome>>
    BY <1>2, After DEF LoadCheckpoint
  <2>3. /\ j.cmd = job[s].cmd /\ j.goal = files[job[s].cmd.name] /\ j.before = job[s].before
        /\ j.orphan = job[s].orphan /\ j.dirty = job[s].dirty
    BY <2>1 DEF Jobs, Name
  <2>4. job[s].cmd \in Commands /\ job[s].cmd.op = "rollback" /\ outcome[s] = "running"
    BY <2>1 DEF JobInv, AimInv, OpFits, OutcomeInv
  <2>5. job[s].cmd.name \in Names
    BY <2>4 DEF SoleAndSorted, WellFormed, CommandsWellFormed, FileOps
  <2>6. NoEmptyLists(files[job[s].cmd.name])
    BY <1>2, <2>1, <2>5 DEF StoreInv, Name
  <2> HIDE DEF j
  <2>7. AimInv(j, "diff", db, files)
    BY <2>1, <2>3, <2>4, <2>6 DEF JobInv, AimInv, OpFits, Unwritten, Aimed, Patching, Targeted, Labels, ApplyOps
  <2>8. LoopInv(j, "diff", db) /\ OutcomeInv(j, "diff", outcome[s], db)
    BY <2>4 DEF LoopInv, OutcomeInv
  <2> QED
    BY <2>1, <2>2, <2>7, <2>8 DEF Kept, JobInv
<1> QED
  BY <1>1, <1>2

\* The checkpoint is removed; no other session has it open.
LEMMA DeleteCheckpointKept ==
    ASSUME SoleAndSorted, SoleInv, NEW s \in Sessions, DeleteCheckpoint(s)
    PROVE  Kept(s)
<1>1. CASE files[Name(s)] = NoFile
  BY <1>1, RaiseKept DEF DeleteCheckpoint, Unwritten, Labels
<1>2. CASE files[Name(s)] # NoFile
  <2>1. pc[s] = "unlink" /\ Succeed(s) /\ UNCHANGED db /\ files' = [files EXCEPT ![Name(s)] = NoFile]
    BY <1>2 DEF DeleteCheckpoint
  <2>2. StoreInv(db, files) /\ files \in [Names -> {NoFile, Torn} \cup Configs]
    BY Known
  <2>3. StoreInv(db, files')
    BY <2>1, <2>2 DEF StoreInv
  <2>4. UNCHANGED job
    <3>1. \A t \in Sessions : pc[t] = "unlink"
      BY <2>1 DEF SoleAndSorted, SoleSession
    <3>2. job' = [t \in Sessions |-> IF pc[t] = "save" /\ Name(t) = Name(s)
                                     THEN [job[t] EXCEPT !.orphan = TRUE] ELSE job[t]]
      BY <1>2 DEF DeleteCheckpoint
    <3>3. job' = [t \in Sessions |-> job[t]]
      BY <3>1, <3>2
    <3> QED
      BY <3>3 DEF SoleInv, SessionInv, TypeOK
  <2> QED
    BY <2>1, <2>3, <2>4, SucceedKept
<1> QED
  BY <1>1, <1>2

\* The configuration to save is read.
LEMMA SnapshotKept == ASSUME SoleInv, NEW s \in Sessions, Snapshot(s) PROVE Kept(s)
<1> DEFINE j == [job[s] EXCEPT !.goal = db]
<1>1. JobInv(job[s], "snapshot", outcome[s], db, files) /\ StoreInv(db, files) /\ job[s] \in Jobs
  BY Known DEF Snapshot
<1>2. pc'[s] = "open" /\ job'[s] = j /\ UNCHANGED <<db, files, outcome>>
  BY After DEF Snapshot
<1>3. /\ j.cmd = job[s].cmd /\ j.goal = db /\ j.before = job[s].before
      /\ j.orphan = job[s].orphan /\ j.dirty = job[s].dirty
  BY <1>1 DEF Jobs
<1>4. job[s].cmd \in Commands /\ job[s].cmd.op = "checkpoint" /\ outcome[s] = "running"
  BY <1>1 DEF JobInv, AimInv, OpFits, OutcomeInv
<1> HIDE DEF j
<1>5. AimInv(j, "open", db, files)
  BY <1>1, <1>3, <1>4 DEF JobInv, AimInv, OpFits, Unwritten, Aimed, Patching, Targeted, Labels, ApplyOps
<1>6. LoopInv(j, "open", db) /\ OutcomeInv(j, "open", outcome[s], db)
  BY <1>4 DEF LoopInv, OutcomeInv
<1> QED
  BY <1>1, <1>2, <1>5, <1>6 DEF Kept, JobInv

\* The file is opened for writing.
LEMMA OpenCheckpointKept == ASSUME SoleAndSorted, SoleInv, NEW s \in Sessions, OpenCheckpoint(s) PROVE Kept(s)
<1>1. /\ JobInv(job[s], "open", outcome[s], db, files) /\ StoreInv(db, files)
      /\ files \in [Names -> {NoFile, Torn} \cup Configs]
  BY Known DEF OpenCheckpoint
<1>2. pc'[s] = "save" /\ files' = [files EXCEPT ![Name(s)] = Torn] /\ UNCHANGED <<db, outcome, job>>
  BY After DEF OpenCheckpoint
<1>3. job[s].cmd \in Commands /\ job[s].cmd.op = "checkpoint" /\ outcome[s] = "running"
  BY <1>1 DEF JobInv, AimInv, OpFits, OutcomeInv
<1>4. job[s].cmd.name \in Names
  BY <1>3 DEF SoleAndSorted, WellFormed, CommandsWellFormed, FileOps
<1>5. files'[job[s].cmd.name] = Torn
  BY <1>1, <1>2, <1>4 DEF Name
<1>6. StoreInv(db, files')
  BY <1>1, <1>2 DEF StoreInv
<1>7. AimInv(job[s], "save", db, files')
  BY <1>1, <1>3, <1>5 DEF JobInv, AimInv, OpFits, Unwritten, Aimed, Patching, Targeted, Labels, ApplyOps
<1>8. LoopInv(job[s], "save", db) /\ OutcomeInv(job[s], "save", outcome[s], db)
  BY <1>3 DEF LoopInv, OutcomeInv
<1> QED
  BY <1>2, <1>6, <1>7, <1>8 DEF Kept, JobInv

\* What is saved is the configuration of when the command started.
LEMMA SavedIsBefore ==
    ASSUME SoleAndSorted, SoleInv, NEW s \in Sessions, SaveCheckpoint(s)
    PROVE  /\ pc[s] = "save" /\ job[s].cmd.op = "checkpoint" /\ job[s].cmd.name \in Names
           /\ files' = [files EXCEPT ![Name(s)] = job[s].goal]
           /\ SameVisibly(job[s].goal, job[s].before) /\ NoEmptyLists(job[s].before)
<1>1. pc[s] = "save" /\ JobInv(job[s], "save", outcome[s], db, files)
  BY Known DEF SaveCheckpoint
<1>2. /\ ~job[s].orphan /\ job[s].cmd \in Commands /\ job[s].cmd.op = "checkpoint" /\ files[Name(s)] = Torn
      /\ SameVisibly(job[s].goal, job[s].before) /\ NoEmptyLists(job[s].before)
  BY <1>1 DEF JobInv, AimInv, OpFits, Name
<1>3. job[s].cmd.name \in Names
  BY <1>2 DEF SoleAndSorted, WellFormed, CommandsWellFormed, FileOps
<1> QED
  BY <1>1, <1>2, <1>3 DEF SaveCheckpoint

\* The file is written.
LEMMA SaveCheckpointKept == ASSUME SoleAndSorted, SoleInv, NEW s \in Sessions, SaveCheckpoint(s) PROVE Kept(s)
<1>1. /\ files' = [files EXCEPT ![Name(s)] = job[s].goal]
      /\ SameVisibly(job[s].goal, job[s].before) /\ NoEmptyLists(job[s].before)
  BY SavedIsBefore
<1>2. StoreInv(db, files) /\ files \in [Names -> {NoFile, Torn} \cup Configs]
  BY Known
<1>3. NoEmptyLists(job[s].goal)
  BY <1>1 DEF SameVisibly, NoEmptyLists
<1>4. StoreInv(db, files')
  BY <1>1, <1>2, <1>3 DEF StoreInv
<1>5. Succeed(s) /\ UNCHANGED <<db, job>>
  BY DEF SaveCheckpoint
<1> QED
  BY <1>4, <1>5, SucceedKept

\* What visible entries are mixed of depends on the visible entries only.
LEMMA MixedAlike ==
    ASSUME NEW c, NEW b, NEW t, NEW b2, NEW t2, SameVisibly(b, b2), SameVisibly(t, t2), Mixed(c, b, t)
    PROVE  Mixed(c, b2, t2)
  BY DEF Mixed, SameVisibly

\* Simulation on the visible entries.
LEMMA SimulatedAlike ==
    ASSUME NEW p \in SUBSET Edits, NEW c \in Configs, NEW d \in Configs, SameVisibly(c, d)
    PROVE  /\ SameVisibly(ApplyPatch(p, c), ApplyPatch(p, d))
           /\ SameVisibly(Simulate(p, c), Simulate(p, d))
<1>1. ASSUME NEW k \in VisibleKeys
      PROVE  ApplyPatch(p, c)[k] = ApplyPatch(p, d)[k] /\ Simulate(p, c)[k] = Simulate(p, d)[k]
  <2>1. k \in Keys /\ c[k] = d[k]
    BY VisibleAreKeys DEF SameVisibly
  <2> QED
    BY <2>1, PatchedAlike
<1> QED
  BY <1>1 DEF SameVisibly

\* The patch from ConfigDB to the goal is generated.
LEMMA GeneratePatchKept == ASSUME SoleInv, NEW s \in Sessions, GeneratePatch(s) PROVE Kept(s)
<1> DEFINE p == Diff(db, job[s].goal)
           j == [job[s] EXCEPT !.patch = p]
<1>1. /\ JobInv(job[s], "diff", outcome[s], db, files) /\ StoreInv(db, files) /\ job[s] \in Jobs
      /\ db \in Configs /\ job[s].goal \in Configs /\ job[s].before \in Configs
  BY Known DEF GeneratePatch
<1>2. pc'[s] = "read" /\ job'[s] = j /\ UNCHANGED <<db, files, outcome>>
  BY After DEF GeneratePatch
<1>3. p \in SUBSET Edits /\ ApplyPatch(p, db) = job[s].goal
  BY <1>1, DiffIsPatch, DiffLeads
<1>4. /\ j.cmd = job[s].cmd /\ j.goal = job[s].goal /\ j.before = job[s].before /\ j.patch = p
      /\ j.orphan = job[s].orphan /\ j.dirty = job[s].dirty
  BY <1>1 DEF Jobs
<1>5. /\ job[s].cmd \in Commands /\ job[s].cmd.op \in {"replace", "rollback"} /\ outcome[s] = "running"
      /\ SameVisibly(db, job[s].before)
  BY <1>1 DEF JobInv, AimInv, OpFits, OutcomeInv, Unwritten, Labels
<1>6. SameVisibly(job[s].before, db)
  BY <1>5 DEF SameVisibly
<1> HIDE DEF j, p
<1>7. SameVisibly(ApplyPatch(p, job[s].before), job[s].goal)
  BY <1>1, <1>3, <1>6, SimulatedAlike
<1>8. AimInv(j, "read", db, files)
  BY <1>1, <1>4, <1>5, <1>7 DEF JobInv, AimInv, OpFits, Unwritten, Aimed, Patching, Targeted, Labels, ApplyOps
<1>9. LoopInv(j, "read", db) /\ OutcomeInv(j, "read", outcome[s], db)
  BY <1>5 DEF LoopInv, OutcomeInv
<1> QED
  BY <1>1, <1>2, <1>8, <1>9 DEF Kept, JobInv

-----------------------------------------------------------------------------
(* sort=False: the operations of the patch one by one *)

\* What a consistent patch does to one field.
LEMMA PatchedField ==
    ASSUME NEW p \in SUBSET Edits, Consistent(p), NEW c \in Configs, NEW k \in Keys, NEW f \in Fields
    PROVE  /\ \A e \in p : e.key = k /\ e.field = f => ApplyPatch(p, c)[k][f] = e.value
           /\ (\A e \in p : ~(e.key = k /\ e.field = f)) => ApplyPatch(p, c)[k][f] = c[k][f]
<1>1. ASSUME NEW e \in p, e.key = k, e.field = f PROVE ApplyPatch(p, c)[k][f] = e.value
  <2> DEFINE d == CHOOSE x \in p : x.key = k /\ x.field = f
  <2>1. d \in p /\ d.key = k /\ d.field = f
    BY <1>1
  <2>2. d = e
    BY <1>1, <2>1 DEF Consistent
  <2>3. ApplyPatch(p, c)[k][f] = d.value
    BY <1>1 DEF ApplyPatch
  <2> QED
    BY <2>2, <2>3
<1>2. ASSUME \A e \in p : ~(e.key = k /\ e.field = f) PROVE ApplyPatch(p, c)[k][f] = c[k][f]
  BY <1>2 DEF ApplyPatch
<1> QED
  BY <1>1, <1>2

\* The operations so far, and one more.
LEMMA OneMore ==
    ASSUME NEW p \in SUBSET Edits, Consistent(p), NEW c \in Configs, NEW P \in SUBSET p, NEW e \in p
    PROVE  ApplyPatch(P \cup {e}, c) = ApplyPatch({e}, ApplyPatch(P, c))
<1>1. /\ P \cup {e} \in SUBSET Edits /\ Consistent(P \cup {e}) /\ P \in SUBSET Edits /\ Consistent(P)
      /\ {e} \in SUBSET Edits /\ Consistent({e})
  BY DEF Consistent
<1>2. ApplyPatch(P, c) \in Configs
  BY <1>1, ApplyPatchType
<1>3. ASSUME NEW k \in Keys, NEW f \in Fields
      PROVE  ApplyPatch(P \cup {e}, c)[k][f] = ApplyPatch({e}, ApplyPatch(P, c))[k][f]
  <2>1. CASE e.key = k /\ e.field = f
    <3>1. ApplyPatch(P \cup {e}, c)[k][f] = e.value
      BY <1>1, <2>1, PatchedField
    <3>2. ApplyPatch({e}, ApplyPatch(P, c))[k][f] = e.value
      BY <1>1, <1>2, <2>1, PatchedField
    <3> QED
      BY <3>1, <3>2
  <2>2. CASE ~(e.key = k /\ e.field = f)
    <3>1. ApplyPatch({e}, ApplyPatch(P, c))[k][f] = ApplyPatch(P, c)[k][f]
      BY <1>1, <1>2, <2>2, PatchedField
    <3>2. ApplyPatch(P \cup {e}, c)[k][f] = ApplyPatch(P, c)[k][f]
      <4>1. CASE \E d \in P : d.key = k /\ d.field = f
        <5>1. PICK d \in P : d.key = k /\ d.field = f
          BY <4>1
        <5>2. ApplyPatch(P \cup {e}, c)[k][f] = d.value
          BY <1>1, <5>1, PatchedField
        <5>3. ApplyPatch(P, c)[k][f] = d.value
          BY <1>1, <5>1, PatchedField
        <5> QED
          BY <5>2, <5>3
      <4>2. CASE ~\E d \in P : d.key = k /\ d.field = f
        <5>1. \A d \in P \cup {e} : ~(d.key = k /\ d.field = f)
          BY <2>2, <4>2
        <5>2. ApplyPatch(P \cup {e}, c)[k][f] = c[k][f]
          BY <1>1, <5>1, PatchedField
        <5>3. ApplyPatch(P, c)[k][f] = c[k][f]
          BY <1>1, <4>2, PatchedField
        <5> QED
          BY <5>2, <5>3
      <4> QED
        BY <4>1, <4>2
    <3> QED
      BY <3>1, <3>2
  <2> QED
    BY <2>1, <2>2
<1>4. /\ ApplyPatch(P \cup {e}, c) = [k \in Keys |-> [f \in Fields |-> ApplyPatch(P \cup {e}, c)[k][f]]]
      /\ ApplyPatch({e}, ApplyPatch(P, c))
           = [k \in Keys |-> [f \in Fields |-> ApplyPatch({e}, ApplyPatch(P, c))[k][f]]]
  BY DEF ApplyPatch
<1> QED
  BY <1>3, <1>4

\* In whatever order its operations are applied, a patch leads to its target.
LEMMA UnsortedApproaches ==
    ASSUME NEW p \in SUBSET Edits, Consistent(p), IsFiniteSet(p), NEW c \in Configs, NEW b,
           Applies(p, c), NoEmptyLists(c), SameVisibly(c, b),
           \A e \in p : e.key \in VisibleKeys => e.value # EmptyList,
           NEW list \in Unsorted(p)
    PROVE  Approaches(list, c, Simulate(p, c), b)
<1>1. PICK o \in [1..Cardinality(p) -> p] :
        {o[i] : i \in 1..Cardinality(p)} = p /\ list = [i \in DOMAIN o |-> {o[i]}]
  BY DEF Unsorted
<1> DEFINE n == Cardinality(p)
           P(i) == {o[j] : j \in 1..i}
           q == [i \in 0..n |-> ApplyPatch(P(i), c)]
<1>2. n \in Nat
  BY FS_CardinalityType
<1>3. \A i, j \in 1..n : o[i] = o[j] => i = j
  <2>1. IsFiniteSet(1..n) /\ Cardinality(1..n) = n
    BY <1>2, FS_Interval
  <2>2. o \in Surjection(1..n, p)
    BY <1>1 DEF Surjection
  <2>3. o \in Injection(1..n, p)
    BY <2>1, <2>2, FS_SurjSameCardinalityImpliesInj
  <2> QED
    BY <2>3 DEF Injection, IsInjective
<1>4. Len(list) = n /\ \A i \in 1..n : list[i] = {o[i]} /\ o[i] \in p
  BY <1>1, <1>2
<1>5. \A i \in 0..n : P(i) \in SUBSET p /\ P(i) \in SUBSET Edits /\ Consistent(P(i))
  BY <1>1, <1>2 DEF Consistent
<1>6. q \in [0..n -> Configs]
  BY <1>5, ApplyPatchType
<1>7. P(0) = {} /\ P(n) = p /\ \A i \in 1..n : i - 1 \in 0..n /\ P(i) = P(i - 1) \cup {o[i]}
  BY <1>1, <1>2
<1>8. q[0] = c
  <2>1. ApplyPatch({}, c) = [k \in Keys |-> [f \in Fields |-> c[k][f]]]
    BY DEF ApplyPatch
  <2>2. ApplyPatch({}, c) = c
    BY <2>1 DEF Configs, Entries
  <2>3. q[0] = ApplyPatch(P(0), c)
    BY <1>2
  <2> HIDE DEF q, P
  <2> QED
    BY <1>7, <2>2, <2>3
<1>9. q[n] = ApplyPatch(p, c) /\ \A i \in 0..n : q[i] = ApplyPatch(P(i), c)
  <2>1. \A i \in 0..n : q[i] = ApplyPatch(P(i), c)
    OBVIOUS
  <2>2. n \in 0..n
    BY <1>2
  <2> HIDE DEF q, P, n
  <2> QED
    BY <1>7, <2>1, <2>2
<1>10. \A i \in 1..n : q[i] = ApplyPatch({o[i]}, q[i - 1])
  <2> TAKE i \in 1..n
  <2>1. i - 1 \in 0..n /\ i \in 0..n /\ P(i - 1) \in SUBSET p /\ o[i] \in p /\ P(i) = P(i - 1) \cup {o[i]}
    BY <1>2, <1>4, <1>5, <1>7
  <2>2. q[i] = ApplyPatch(P(i), c) /\ q[i - 1] = ApplyPatch(P(i - 1), c)
    BY <1>9, <2>1
  <2> HIDE DEF P, q, n
  <2> QED
    BY <2>1, <2>2, OneMore
<1>11. \A i \in 1..n : Applies({o[i]}, q[i - 1])
  <2> SUFFICES ASSUME NEW i \in 1..n, o[i].op \in {"remove", "replace"} PROVE Cell(q[i - 1], o[i]) # Unset
    BY DEF Applies
  <2>1. i - 1 \in 0..n /\ o[i] \in p /\ o[i].key \in Keys /\ o[i].field \in Fields
    BY <1>4, <1>7 DEF Edits
  <2>2. c[o[i].key][o[i].field] # Unset
    BY <2>1 DEF Applies, Cell
  <2>3. \A e \in P(i - 1) : ~(e.key = o[i].key /\ e.field = o[i].field)
    <3> SUFFICES ASSUME NEW j \in 1..(i - 1), o[j].key = o[i].key, o[j].field = o[i].field PROVE FALSE
      OBVIOUS
    <3>1. j \in 1..n /\ j # i
      BY <1>2
    <3>2. o[j] = o[i]
      BY <1>4, <2>1, <3>1 DEF Consistent
    <3> QED
      BY <1>3, <3>1, <3>2
  <2>4. q[i - 1] = ApplyPatch(P(i - 1), c) /\ P(i - 1) \in SUBSET Edits /\ Consistent(P(i - 1))
    BY <1>5, <1>9, <2>1
  <2> HIDE DEF P, q, n
  <2>5. q[i - 1][o[i].key][o[i].field] = c[o[i].key][o[i].field]
    BY <2>1, <2>3, <2>4, PatchedField
  <2> QED
    BY <2>2, <2>5 DEF Cell
<1>12. ASSUME NEW i \in 0..n, NEW k \in VisibleKeys, NEW f \in Fields
       PROVE  q[i][k][f] \in {b[k][f], Simulate(p, c)[k][f]} /\ q[i][k][f] # EmptyList
  <2>1. k \in Keys /\ c[k][f] = b[k][f] /\ c[k][f] # EmptyList
    BY VisibleAreKeys DEF SameVisibly, NoEmptyLists
  <2>2. q[i] = ApplyPatch(P(i), c) /\ P(i) \in SUBSET p /\ P(i) \in SUBSET Edits /\ Consistent(P(i))
    BY <1>5, <1>9
  <2> HIDE DEF P, q, n
  <2>3. CASE \E e \in P(i) : e.key = k /\ e.field = f
    <3>1. PICK e \in P(i) : e.key = k /\ e.field = f
      BY <2>3
    <3>2. q[i][k][f] = e.value
      BY <2>1, <2>2, <3>1, PatchedField
    <3>3. e \in p /\ e.value # EmptyList
      BY <2>2, <3>1
    <3>4. Simulate(p, c)[k][f] = e.value
      BY <3>1, <3>3, SimulateHolds DEF Wanted
    <3> QED
      BY <3>2, <3>3, <3>4
  <2>4. CASE ~\E e \in P(i) : e.key = k /\ e.field = f
    <3>1. q[i][k][f] = c[k][f]
      BY <2>1, <2>2, <2>4, PatchedField
    <3> QED
      BY <2>1, <3>1
  <2> QED
    BY <2>3, <2>4
<1>13. SameVisibly(q[n], Simulate(p, c))
  <2>1. ApplyPatch(p, c) \in Configs
    BY ApplyPatchType
  <2>2. ASSUME NEW k \in VisibleKeys PROVE q[n][k] = Simulate(p, c)[k]
    <3>1. k \in Keys /\ \A f \in Fields : ApplyPatch(p, c)[k][f] # EmptyList
      BY <1>2, <1>9, <1>12, VisibleAreKeys
    <3>2. Simulate(p, c)[k] = [f \in Fields |-> ApplyPatch(p, c)[k][f]]
      BY <3>1 DEF Simulate, Normalised
    <3>3. ApplyPatch(p, c)[k] = [f \in Fields |-> ApplyPatch(p, c)[k][f]]
      BY <2>1, <3>1 DEF Configs, Entries
    <3> QED
      BY <1>9, <3>2, <3>3
  <2> QED
    BY <2>2 DEF SameVisibly
<1> HIDE DEF q, P, n
<1>14. IsPath(q, list)
  BY <1>4, <1>10, <1>11 DEF IsPath
<1>15. SameVisibly(q[0], c) /\ SameFields(q[0], c)
  BY <1>8 DEF SameVisibly, SameFields
<1>16. \A i \in 0..n : Mixed(q[i], b, Simulate(p, c))
  BY <1>12 DEF Mixed
<1> QED
  BY <1>4, <1>6, <1>13, <1>14, <1>15, <1>16 DEF Approaches

-----------------------------------------------------------------------------
(* PatchApplier.apply *)

\* The current configuration is read and the target computed.
LEMMA ReadOldConfigKept == ASSUME SoleAndSorted, SoleInv, NEW s \in Sessions, ReadOldConfig(s) PROVE Kept(s)
<1> DEFINE p == job[s].patch
           b == job[s].before
           read == [job[s] EXCEPT !.target = Simulate(p, db), !.current = db]
<1>1. pc[s] = "read" /\ (Raise(s) => Kept(s))
  BY RaiseKept DEF ReadOldConfig, Unwritten, Labels
<1>2. /\ JobInv(job[s], "read", outcome[s], db, files) /\ StoreInv(db, files) /\ job[s] \in Jobs
      /\ db \in Configs /\ b \in Configs /\ p \in SUBSET Edits /\ Consistent(p) /\ SessionInv
  BY <1>1, Known
<1>3. /\ job[s].cmd \in Commands /\ outcome[s] = "running" /\ job[s].dirty = {}
      /\ job[s].cmd.op \in {"apply", "apply_unsorted", "replace", "rollback"}
      /\ SameVisibly(db, b) /\ NoEmptyLists(db)
  BY <1>2 DEF JobInv, AimInv, OpFits, OutcomeInv, StoreInv, Unwritten, Labels
<1>4. SameVisibly(b, db) /\ Simulate(p, db) \in Configs
  BY <1>2, <1>3, SimulateType DEF SameVisibly
<1>5. SameVisibly(Simulate(p, db), Simulate(p, b))
  BY <1>2, <1>3, SimulatedAlike
<1>6. /\ read \in Jobs /\ read.cmd = job[s].cmd /\ read.goal = job[s].goal /\ read.before = b /\ read.patch = p
      /\ read.orphan = job[s].orphan /\ read.dirty = job[s].dirty /\ read.target = Simulate(p, db)
      /\ read.current = db
  BY <1>2, <1>4 DEF Jobs
<1>7. ASSUME job'[s] = read, pc'[s] = "strict", UNCHANGED <<db, files, outcome>>, Op(s) # "apply_unsorted"
      PROVE  Kept(s)
  <2> HIDE DEF read, p, b
  <2>1. job[s].cmd.op \in {"apply", "replace", "rollback"}
    BY <1>3, <1>7 DEF Op
  <2>2. AimInv(read, "strict", db, files)
    BY <1>2, <1>3, <1>5, <1>6, <2>1
    DEF JobInv, AimInv, OpFits, Unwritten, Aimed, Patching, Targeted, Labels, ApplyOps, p, b
  <2>3. LoopInv(read, "strict", db) /\ OutcomeInv(read, "strict", outcome[s], db)
    BY <1>3, <1>6 DEF LoopInv, OutcomeInv, SameFields
  <2> QED
    BY <1>2, <1>7, <2>2, <2>3 DEF Kept, JobInv
<1>8. ASSUME NEW list \in Unsorted(p), Op(s) = "apply_unsorted", job'[s] = WithChanges(read, list),
             pc'[s] = "change", UNCHANGED <<db, files, outcome>>, Applies(p, db)
      PROVE  Kept(s)
  <2> DEFINE j == WithChanges(read, list)
  <2>1. /\ j.cmd = job[s].cmd /\ j.goal = job[s].goal /\ j.before = b /\ j.patch = p
        /\ j.orphan = job[s].orphan /\ j.dirty = {} /\ j.target = Simulate(p, db)
        /\ j.current = db /\ j.changes = list
    <3> HIDE DEF read, p, b
    <3> QED
      BY <1>3, <1>6 DEF WithChanges, Jobs
  <2>2. job[s].cmd.op = "apply_unsorted" /\ p = job[s].cmd.patch /\ IsFiniteSet(p)
    <3>1. job[s].cmd.op = "apply_unsorted" /\ p = job[s].cmd.patch
      BY <1>2, <1>8 DEF Op, JobInv, AimInv, ApplyOps
    <3> QED
      BY <1>2, <1>8, <3>1 DEF SessionInv, NoPatchYet
  <2>3. \A e \in p : e.key \in VisibleKeys => e.value # EmptyList
    BY <1>3, <2>2 DEF SoleAndSorted, NoEmptyListsGiven
  <2> HIDE DEF read, p, b, j
  <2>4. Approaches(list, db, Simulate(p, db), b)
    BY <1>2, <1>3, <1>8, <2>2, <2>3, UnsortedApproaches
  <2>5. Mixed(db, b, Simulate(p, db))
    BY <1>3 DEF Mixed, SameVisibly
  <2>6. AimInv(j, "change", db, files)
    BY <1>2, <1>3, <1>5, <2>1, <2>2
    DEF JobInv, AimInv, OpFits, Unwritten, Aimed, Patching, Targeted, Labels, ApplyOps, p, b
  <2>7. LoopInv(j, "change", db) /\ OutcomeInv(j, "change", outcome[s], db)
    BY <1>3, <2>1, <2>4, <2>5 DEF LoopInv, OutcomeInv
  <2> QED
    BY <1>2, <1>8, <2>6, <2>7 DEF Kept, JobInv, j
<1>9. CASE ~Raise(s)
  <2>1. Applies(p, db) /\ UNCHANGED <<db, files, outcome>>
    BY <1>9 DEF ReadOldConfig
  <2>2. \/ /\ Op(s) = "apply_unsorted"
           /\ \E list \in Unsorted(p) : job' = [job EXCEPT ![s] = WithChanges(read, list)] /\ Goto(s, "change")
        \/ Op(s) # "apply_unsorted" /\ job' = [job EXCEPT ![s] = read] /\ Goto(s, "strict")
    BY <1>9 DEF ReadOldConfig
  <2> HIDE DEF read, p
  <2> QED
    BY <1>7, <1>8, <2>1, <2>2, After
<1> QED
  BY <1>1, <1>9

\* The target is found valid, or refused.
LEMMA StrictSortKept == ASSUME SoleInv, NEW s \in Sessions, StrictSort(s) PROVE Kept(s)
<1>1. pc[s] = "strict" /\ (Raise(s) => Kept(s))
  BY RaiseKept DEF StrictSort, Unwritten, Labels
<1>2. CASE Goto(s, "sort") /\ UNCHANGED <<db, files, outcome, job, issued>>
  <2>1. JobInv(job[s], "strict", outcome[s], db, files) /\ StoreInv(db, files) /\ pc'[s] = "sort"
    BY <1>1, <1>2, Known, After
  <2>2. AimInv(job[s], "sort", db, files)
    BY <2>1 DEF JobInv, AimInv, OpFits, Unwritten, Aimed, Patching, Targeted, Labels
  <2>3. LoopInv(job[s], "sort", db) /\ OutcomeInv(job[s], "sort", outcome[s], db)
    BY <2>1 DEF JobInv, LoopInv, OutcomeInv
  <2> QED
    BY <1>2, <2>1, <2>2, <2>3 DEF Kept, JobInv
<1> QED
  BY <1>1, <1>2 DEF StrictSort

\* The plan, made from what ConfigDB is by now, leads from what the session
\* remembers to its target.
LEMMA SortKept == ASSUME SoleAndSorted, SoleInv, NEW s \in Sessions, Sort(s) PROVE Kept(s)
<1> DEFINE p == job[s].patch
           b == job[s].before
           t == Simulate(p, db)
<1>1. pc[s] = "sort" /\ (Raise(s) => Kept(s))
  BY RaiseKept DEF Sort, Unwritten, Labels
<1>2. CASE ~Raise(s)
  <2>1. /\ JobInv(job[s], "sort", outcome[s], db, files) /\ StoreInv(db, files) /\ job[s] \in Jobs
        /\ db \in Configs /\ b \in Configs /\ p \in SUBSET Edits
    BY <1>1, Known
  <2>2. /\ pc'[s] = "change" /\ UNCHANGED <<db, files, outcome>>
        /\ \E plan \in Plans(db, t) : job'[s] = WithChanges(job[s], plan)
    <3>1. /\ Goto(s, "change") /\ UNCHANGED <<db, files, outcome>>
          /\ \E plan \in Plans(db, t) : job' = [job EXCEPT ![s] = WithChanges(job[s], plan)]
      BY <1>2 DEF Sort, SoleInv, SessionInv, TypeOK
    <3> HIDE DEF t
    <3> QED
      BY <3>1, After
  <2>3. PICK plan \in Plans(db, t) : job'[s] = WithChanges(job[s], plan)
    BY <2>2
  <2>4. t \in Configs
    BY <2>1, SimulateType
  <2>5. PICK q \in [0..Len(plan) -> Configs] : Leads(q, plan, db, t)
    BY <2>1, <2>3, <2>4 DEF SoleAndSorted, PlansLead
  <2> DEFINE j == WithChanges(job[s], plan)
  <2>6. /\ j.cmd = job[s].cmd /\ j.goal = job[s].goal /\ j.before = b /\ j.patch = p
        /\ j.orphan = job[s].orphan /\ j.dirty = job[s].dirty /\ j.target = job[s].target
        /\ j.current = job[s].current /\ j.changes = plan
    BY <2>1 DEF WithChanges, Jobs
  <2>7. /\ SameVisibly(db, b) /\ job[s].dirty = {} /\ SameVisibly(job[s].target, Simulate(p, b))
        /\ SameVisibly(job[s].current, b) /\ SameFields(job[s].current, db)
        /\ job[s].cmd.op \in {"apply", "replace", "rollback"} /\ outcome[s] = "running"
    BY <2>1 DEF JobInv, AimInv, LoopInv, OutcomeInv, OpFits, Unwritten, Aimed, Patching, Targeted, Labels
  <2>8. SameVisibly(t, job[s].target)
    <3>1. SameVisibly(t, Simulate(p, b))
      BY <2>1, <2>7, SimulatedAlike
    <3> HIDE DEF t
    <3> QED
      BY <2>7, <3>1 DEF SameVisibly
  <2> HIDE DEF p, b, t, j
  <2>9. Approaches(plan, job[s].current, job[s].target, b)
    <3>1. IsPath(q, plan) /\ q[0] = db /\ q[Len(plan)] = t /\ \A i \in 0..Len(plan) : Mixed(q[i], db, t)
      BY <2>5 DEF Leads
    <3>2. \A i \in 0..Len(plan) : Mixed(q[i], b, job[s].target)
      BY <2>7, <2>8, <3>1, MixedAlike
    <3>3. SameVisibly(q[0], job[s].current) /\ SameFields(q[0], job[s].current)
      BY <2>7, <3>1 DEF SameVisibly, SameFields
    <3>4. SameVisibly(q[Len(plan)], job[s].target)
      BY <2>8, <3>1
    <3> QED
      BY <3>1, <3>2, <3>3, <3>4 DEF Approaches
  <2>10. Mixed(db, b, job[s].target) /\ \A k \in VisibleKeys : db[k] = job[s].current[k]
    BY <2>7 DEF Mixed, SameVisibly
  <2>11. AimInv(j, "change", db, files)
    BY <2>1, <2>6, <2>7
    DEF JobInv, AimInv, OpFits, Unwritten, Aimed, Patching, Targeted, Labels, ApplyOps, p, b
  <2>12. LoopInv(j, "change", db) /\ OutcomeInv(j, "change", outcome[s], db)
    BY <2>6, <2>7, <2>9, <2>10 DEF LoopInv, OutcomeInv
  <2> QED
    BY <2>1, <2>2, <2>3, <2>11, <2>12 DEF Kept, JobInv, j
<1> QED
  BY <1>1, <1>2

\* The loop over the changes cannot fail: the change applies to what the
\* session remembers.
LEMMA ChangeApplies ==
    ASSUME SoleInv, NEW s \in Sessions, pc[s] = "change", job[s].changes # <<>>
    PROVE  Applies(Head(job[s].changes), job[s].current)
<1> DEFINE list == job[s].changes
<1>1. Approaches(list, job[s].current, job[s].target, job[s].before) /\ list \in Seq(SUBSET Edits)
  BY Known DEF JobInv, LoopInv
<1>2. PICK q \in [0..Len(list) -> Configs] : IsPath(q, list) /\ SameFields(q[0], job[s].current)
  BY <1>1 DEF Approaches
<1>3. 1 \in 1..Len(list) /\ Head(list) = list[1] /\ Head(list) \in SUBSET Edits
  BY <1>1
<1>4. Applies(list[1], q[0])
  <2>1. Applies(list[1], q[1 - 1])
    BY <1>2, <1>3 DEF IsPath
  <2>2. 1 - 1 = 0
    OBVIOUS
  <2> QED
    BY <2>1, <2>2
<1> QED
  BY <1>2, <1>3, <1>4, AppliesAlike

\* The next change is applied to the configuration the session remembers.
LEMMA StartChangeKept == ASSUME SoleInv, NEW s \in Sessions, StartChange(s) PROVE Kept(s)
<1> DEFINE list == job[s].changes
           change == Head(list)
           rest == Tail(list)
           upd == ApplyPatch(change, job[s].current)
           dirty == {k \in Keys : job[s].current[k] # upd[k]}
           j == [job[s] EXCEPT !.dirty = dirty, !.current = upd, !.changes = rest]
<1>1. pc[s] = "change" /\ list # <<>> /\ Applies(change, job[s].current)
  BY ChangeApplies DEF StartChange
<1>2. pc'[s] = "write" /\ job'[s] = j /\ UNCHANGED <<db, files, outcome>>
  <2>1. job' = [job EXCEPT ![s] = j] /\ Goto(s, "write") /\ UNCHANGED <<db, files, outcome>>
    BY <1>1 DEF StartChange, SoleInv, SessionInv, TypeOK
  <2> HIDE DEF j
  <2> QED
    BY <2>1, After
<1>3. /\ JobInv(job[s], "change", outcome[s], db, files) /\ StoreInv(db, files) /\ job[s] \in Jobs
      /\ job[s].current \in Configs /\ list \in Seq(SUBSET Edits)
  BY <1>1, Known
<1>4. /\ j.cmd = job[s].cmd /\ j.goal = job[s].goal /\ j.before = job[s].before /\ j.patch = job[s].patch
      /\ j.orphan = job[s].orphan /\ j.dirty = dirty /\ j.target = job[s].target
      /\ j.current = upd /\ j.changes = rest
  BY <1>3 DEF Jobs
<1>5. /\ job[s].dirty = {} /\ Mixed(db, job[s].before, job[s].target)
      /\ Approaches(list, job[s].current, job[s].target, job[s].before)
      /\ \A k \in VisibleKeys \ job[s].dirty : db[k] \in {job[s].current[k], Stored(job[s].current[k])}
      /\ outcome[s] = "running"
  BY <1>3 DEF JobInv, LoopInv, OutcomeInv
<1>6. \A k \in VisibleKeys \ dirty : db[k] \in {upd[k], Stored(upd[k])}
  <2>1. \A k \in VisibleKeys \ dirty : k \in Keys /\ upd[k] = job[s].current[k]
    BY VisibleAreKeys
  <2> HIDE DEF upd, dirty
  <2> QED
    BY <1>5, <2>1
<1>7. Approaches(rest, upd, job[s].target, job[s].before)
  <2>1. PICK q \in [0..Len(list) -> Configs] :
          /\ IsPath(q, list)
          /\ SameVisibly(q[0], job[s].current) /\ SameFields(q[0], job[s].current)
          /\ SameVisibly(q[Len(list)], job[s].target)
          /\ \A i \in 0..Len(list) : Mixed(q[i], job[s].before, job[s].target)
    BY <1>5 DEF Approaches
  <2> DEFINE n == Len(list)
             r == [i \in 0..Len(rest) |-> q[i + 1]]
  <2>2. /\ n \in Nat \ {0} /\ Len(rest) = n - 1 /\ change = list[1] /\ change \in SUBSET Edits
        /\ \A i \in 1..(n - 1) : rest[i] = list[i + 1]
    BY <1>1, <1>3
  <2>3. r \in [0..Len(rest) -> Configs] /\ \A i \in 0..(n - 1) : r[i] = q[i + 1] /\ i + 1 \in 0..n
    BY <2>2
  <2>4. q[1] = ApplyPatch(change, q[0]) /\ q[0] \in Configs
    <3>1. 1 \in 1..n /\ 1 - 1 = 0 /\ 0 \in 0..n
      BY <2>2
    <3> QED
      BY <2>1, <2>2, <3>1 DEF IsPath
  <2>5. r[0] = q[1]
    BY <2>2, <2>3
  <2>6. SameVisibly(r[0], upd) /\ SameFields(r[0], upd)
    BY <1>3, <2>1, <2>2, <2>4, <2>5, SimulatedAlike, PatchedSameFields
  <2>7. IsPath(r, rest)
    <3>1. ASSUME NEW i \in 1..(n - 1)
          PROVE  Applies(rest[i], r[i - 1]) /\ r[i] = ApplyPatch(rest[i], r[i - 1])
      <4>1. i + 1 \in 1..n /\ i - 1 \in 0..(n - 1) /\ i \in 0..(n - 1) /\ (i + 1) - 1 = i /\ (i - 1) + 1 = i
        BY <2>2
      <4>2. Applies(list[i + 1], q[(i + 1) - 1]) /\ q[i + 1] = ApplyPatch(list[i + 1], q[(i + 1) - 1])
        BY <2>1, <4>1 DEF IsPath
      <4>3. r[i - 1] = q[i] /\ r[i] = q[i + 1] /\ rest[i] = list[i + 1]
        BY <2>2, <2>3, <4>1
      <4> QED
        BY <4>1, <4>2, <4>3
    <3> QED
      BY <2>2, <3>1 DEF IsPath
  <2>8. SameVisibly(r[Len(rest)], job[s].target)
    <3>1. Len(rest) \in 0..(n - 1) /\ Len(rest) + 1 = n
      BY <2>2
    <3>2. r[Len(rest)] = q[n]
      BY <2>3, <3>1
    <3> QED
      BY <2>1, <3>2
  <2>9. \A i \in 0..Len(rest) : Mixed(r[i], job[s].before, job[s].target)
    BY <2>1, <2>2, <2>3
  <2> HIDE DEF r, rest, upd
  <2> QED
    BY <2>3, <2>6, <2>7, <2>8, <2>9 DEF Approaches
<1> HIDE DEF j, dirty, upd, rest, change, list
<1>8. AimInv(j, "write", db, files)
  BY <1>3, <1>4 DEF JobInv, AimInv, OpFits, Unwritten, Aimed, Patching, Targeted, Labels, ApplyOps
<1>9. LoopInv(j, "write", db) /\ OutcomeInv(j, "write", outcome[s], db)
  BY <1>4, <1>5, <1>6, <1>7 DEF LoopInv, OutcomeInv
<1> QED
  BY <1>2, <1>3, <1>8, <1>9 DEF Kept, JobInv

\* One entry is written.
LEMMA WriteEntryKept ==
    ASSUME SoleAndSorted, SoleInv, NEW s \in Sessions, NEW k \in Keys, WriteEntry(s, k)
    PROVE  Kept(s)
<1> DEFINE j == [job[s] EXCEPT !.dirty = job[s].dirty \ {k}]
           b == job[s].before
           t == job[s].target
           e == job[s].current[k]
<1>1. /\ pc[s] = "write" /\ UNCHANGED <<files, pc, outcome>>
      /\ db' = [db EXCEPT ![k] = Stored(e)] /\ job'[s] = j
  <2>1. job' = [job EXCEPT ![s] = j]
    BY DEF WriteEntry, SoleInv, SessionInv, TypeOK
  <2> HIDE DEF j
  <2> QED
    BY <2>1, After DEF WriteEntry
<1>2. /\ JobInv(job[s], "write", outcome[s], db, files) /\ StoreInv(db, files) /\ job[s] \in Jobs
      /\ db \in Configs /\ job[s].current \in Configs /\ t \in Configs /\ b \in Configs
  BY <1>1, Known
<1>3. /\ j.cmd = job[s].cmd /\ j.goal = job[s].goal /\ j.before = b /\ j.patch = job[s].patch
      /\ j.orphan = job[s].orphan /\ j.dirty = job[s].dirty \ {k} /\ j.target = t
      /\ j.current = job[s].current /\ j.changes = job[s].changes
  BY <1>2 DEF Jobs
<1>4. /\ Mixed(db, b, t) /\ Approaches(job[s].changes, job[s].current, t, b)
      /\ \A i \in VisibleKeys \ job[s].dirty : db[i] \in {job[s].current[i], Stored(job[s].current[i])}
      /\ outcome[s] = "running" /\ NoEmptyLists(b) /\ SameVisibly(t, Simulate(job[s].patch, b))
  BY <1>2 DEF JobInv, AimInv, LoopInv, OutcomeInv, Targeted, Patching, Aimed
<1>5. db'[k] = Stored(e) /\ \A i \in Keys \ {k} : db'[i] = db[i]
  BY <1>1, <1>2 DEF Configs
<1>6. e \in Entries /\ \A f \in Fields : Stored(e)[f] = IF e[f] = EmptyList THEN BlankList ELSE e[f]
  BY <1>2 DEF Configs, Stored
<1>7. \A f \in Fields : Stored(e)[f] # EmptyList
  BY <1>6, StoredType DEF SoleAndSorted
<1>8. ASSUME k \in VisibleKeys, NEW f \in Fields PROVE Stored(e)[f] \in {b[k][f], t[k][f]} \cup Interim
  <2>1. \A q : Mixed(q, b, t) /\ SameVisibly(q, job[s].current) => e[f] \in {b[k][f], t[k][f]} \cup Interim
    BY <1>8 DEF Mixed, SameVisibly
  <2>2. PICK q \in [0..Len(job[s].changes) -> Configs] :
          /\ SameVisibly(q[0], job[s].current)
          /\ \A i \in 0..Len(job[s].changes) : Mixed(q[i], b, t)
    BY <1>4 DEF Approaches
  <2>3. 0 \in 0..Len(job[s].changes)
    BY <1>2 DEF Jobs
  <2>4. e[f] \in {b[k][f], t[k][f]} \cup Interim
    BY <2>1, <2>2, <2>3
  <2>5. b[k][f] # EmptyList
    BY <1>4, <1>8 DEF NoEmptyLists
  <2>6. t[k][f] # EmptyList
    BY <1>4, <1>8, VisibleAreKeys, SimulateStored DEF SameVisibly
  <2> HIDE DEF e, b, t
  <2> QED
    BY <1>6, <1>8, <2>4, <2>5, <2>6, ListsAssumption
<1> HIDE DEF j, b, t, e
<1>9. Mixed(db', b, t)
  <2> SUFFICES ASSUME NEW i \in VisibleKeys, NEW f \in Fields
               PROVE  db'[i][f] \in {b[i][f], t[i][f]} \cup Interim
    BY DEF Mixed
  <2>1. CASE i = k
    BY <1>5, <1>8, <2>1
  <2>2. CASE i # k
    BY <1>4, <1>5, <2>2, VisibleAreKeys DEF Mixed
  <2> QED
    BY <2>1, <2>2
<1>10. \A i \in VisibleKeys \ j.dirty : db'[i] \in {j.current[i], Stored(j.current[i])}
  <2> TAKE i \in VisibleKeys \ j.dirty
  <2>1. CASE i = k
    BY <1>3, <1>5, <2>1 DEF e
  <2>2. CASE i # k
    BY <1>3, <1>4, <1>5, <2>2, VisibleAreKeys
  <2> QED
    BY <2>1, <2>2
<1>11. NoEmptyLists(db')
  <2> SUFFICES ASSUME NEW i \in VisibleKeys, NEW f \in Fields PROVE db'[i][f] # EmptyList
    BY DEF NoEmptyLists
  <2>1. CASE i = k
    BY <1>5, <1>7, <2>1
  <2>2. CASE i # k
    BY <1>2, <1>5, <2>2, VisibleAreKeys DEF StoreInv, NoEmptyLists
  <2> QED
    BY <2>1, <2>2
<1>12. StoreInv(db', files)
  BY <1>2, <1>11 DEF StoreInv
<1>13. AimInv(j, "write", db', files)
  BY <1>2, <1>3 DEF JobInv, AimInv, OpFits, Unwritten, Aimed, Patching, Targeted, Labels, ApplyOps, b, t
<1>14. LoopInv(j, "write", db') /\ OutcomeInv(j, "write", outcome[s], db')
  BY <1>3, <1>4, <1>9, <1>10 DEF LoopInv, OutcomeInv
<1> QED
  BY <1>1, <1>12, <1>13, <1>14 DEF Kept, JobInv

\* All entries of the change are written.
LEMMA ValidateServicesKept == ASSUME SoleInv, NEW s \in Sessions, ValidateServices(s) PROVE Kept(s)
<1>1. /\ JobInv(job[s], "write", outcome[s], db, files) /\ StoreInv(db, files)
      /\ pc'[s] = "change" /\ job[s].dirty = {} /\ UNCHANGED <<db, files, outcome, job>>
  BY Known, After DEF ValidateServices
<1>2. AimInv(job[s], "change", db, files)
  BY <1>1 DEF JobInv, AimInv, OpFits, Unwritten, Aimed, Patching, Targeted, Labels
<1>3. LoopInv(job[s], "change", db) /\ OutcomeInv(job[s], "change", outcome[s], db)
  BY <1>1 DEF JobInv, LoopInv, OutcomeInv
<1> QED
  BY <1>1, <1>2, <1>3 DEF Kept, JobInv

\* Once all changes are applied, ConfigDB is the target.
LEMMA TargetReached ==
    ASSUME SoleInv, NEW s \in Sessions, pc[s] = "change", job[s].changes = <<>>
    PROVE  SameVisibly(db, job[s].target)
<1> DEFINE t == job[s].target
<1>1. /\ JobInv(job[s], "change", outcome[s], db, files)
      /\ t \in Configs
  BY Known
<1>2. /\ Approaches(<<>>, job[s].current, t, job[s].before)
      /\ \A k \in VisibleKeys : db[k] \in {job[s].current[k], Stored(job[s].current[k])}
      /\ SameVisibly(t, Simulate(job[s].patch, job[s].before))
  BY <1>1 DEF JobInv, AimInv, LoopInv, Targeted, Patching, Aimed
<1>3. PICK q : SameVisibly(q[0], job[s].current) /\ SameVisibly(q[Len(<<>>)], t)
  BY <1>2 DEF Approaches
<1>4. Len(<<>>) = 0
  OBVIOUS
<1>5. \A k \in VisibleKeys : job[s].current[k] = t[k]
  BY <1>3, <1>4 DEF SameVisibly
<1> HIDE DEF t
<1>6. ASSUME NEW k \in VisibleKeys PROVE db[k] = t[k]
  <2>1. k \in Keys /\ t[k] \in Entries /\ t[k] = Simulate(job[s].patch, job[s].before)[k]
    BY <1>1, <1>2, VisibleAreKeys DEF Configs, SameVisibly
  <2>2. \A f \in Fields : t[k][f] # EmptyList
    BY <2>1, SimulateStored
  <2>3. Stored(t[k]) = t[k]
    BY <2>1, <2>2, StoredAsIs
  <2> QED
    BY <1>2, <1>5, <2>3
<1> QED
  BY <1>6 DEF SameVisibly, t

\* The first comparison.
LEMMA VerifyKept == ASSUME SoleInv, NEW s \in Sessions, Verify(s) PROVE Kept(s)
<1>1. pc[s] = "change" /\ SameVisibly(db, job[s].target)
  BY TargetReached DEF Verify
<1>2. Visible(job[s].target) = Visible(db)
  BY <1>1, VisibleAlike DEF SameVisibly
<1>3. JobInv(job[s], "change", outcome[s], db, files) /\ StoreInv(db, files)
  BY <1>1, Known
<1>4. CASE Op(s) \in ApplyOps
  BY <1>2, <1>3, <1>4, SucceedKept DEF Verify
<1>5. CASE Op(s) \notin ApplyOps
  <2>1. pc'[s] = "verify" /\ UNCHANGED <<db, files, outcome, job>>
    BY <1>2, <1>5, After DEF Verify
  <2>2. job[s].cmd.op \in {"replace", "rollback"}
    BY <1>3, <1>5 DEF Op, JobInv, AimInv, OpFits, ApplyOps
  <2>3. AimInv(job[s], "verify", db, files)
    BY <1>3, <2>2 DEF JobInv, AimInv, OpFits, Unwritten, Aimed, Patching, Targeted, Labels, ApplyOps
  <2>4. LoopInv(job[s], "verify", db) /\ OutcomeInv(job[s], "verify", outcome[s], db)
    BY <1>1, <1>3 DEF JobInv, LoopInv, OutcomeInv
  <2> QED
    BY <1>3, <2>1, <2>3, <2>4 DEF Kept, JobInv
<1> QED
  BY <1>4, <1>5

\* The generated patch of replace and rollback leads to their goal.
LEMMA GoalSimulated ==
    ASSUME SoleInv, NEW s \in Sessions, pc[s] \in Patching, job[s].cmd.op \in {"replace", "rollback"}
    PROVE  SameVisibly(Simulate(job[s].patch, job[s].before), job[s].goal)
<1> DEFINE p == job[s].patch
           b == job[s].before
           goal == job[s].goal
<1>1. JobInv(job[s], pc[s], outcome[s], db, files) /\ b \in Configs /\ p \in SUBSET Edits /\ goal \in Configs
  BY Known
<1>2. SameVisibly(ApplyPatch(p, b), goal) /\ NoEmptyLists(goal)
  BY <1>1 DEF JobInv, AimInv, Patching, Aimed, ApplyOps
<1>3. ApplyPatch(p, b) \in Configs
  BY <1>1, ApplyPatchType
<1> HIDE DEF p, b, goal
<1>4. ASSUME NEW k \in VisibleKeys PROVE Simulate(p, b)[k] = goal[k]
  <2>1. k \in Keys /\ ApplyPatch(p, b)[k] = goal[k] /\ goal[k] \in Entries /\ \A f \in Fields : goal[k][f] # EmptyList
    BY <1>1, <1>2, VisibleAreKeys DEF SameVisibly, NoEmptyLists, Configs
  <2>2. Simulate(p, b)[k] = [f \in Fields |-> goal[k][f]]
    BY <2>1 DEF Simulate, Normalised
  <2> QED
    BY <2>1, <2>2 DEF Entries
<1> QED
  BY <1>4 DEF SameVisibly, goal, p, b

\* Their target is their goal.
LEMMA TargetIsGoal ==
    ASSUME SoleInv, NEW s \in Sessions, pc[s] \in Targeted, job[s].cmd.op \in {"replace", "rollback"}
    PROVE  SameVisibly(job[s].target, job[s].goal)
<1>1. SameVisibly(job[s].target, Simulate(job[s].patch, job[s].before))
  BY Known DEF JobInv, AimInv
<1>2. SameVisibly(Simulate(job[s].patch, job[s].before), job[s].goal)
  BY GoalSimulated DEF Targeted
<1> QED
  BY <1>1, <1>2 DEF SameVisibly

\* Once the target is reached, so is the goal.
LEMMA GoalReached ==
    ASSUME SoleInv, NEW s \in Sessions, pc[s] = "verify"
    PROVE  SameVisibly(db, job[s].goal) /\ job[s].cmd.op \in {"replace", "rollback"}
<1>1. SameVisibly(db, job[s].target) /\ job[s].cmd.op \in {"replace", "rollback"}
  BY Known DEF JobInv, AimInv, LoopInv, OpFits
<1>2. SameVisibly(job[s].target, job[s].goal)
  BY <1>1, TargetIsGoal DEF Targeted, Patching, Aimed
<1> QED
  BY <1>1, <1>2 DEF SameVisibly

\* The second comparison.
LEMMA VerifyReplaceKept == ASSUME SoleInv, NEW s \in Sessions, VerifyReplace(s) PROVE Kept(s)
<1>1. pc[s] = "verify" /\ SameVisibly(db, job[s].goal)
  BY GoalReached DEF VerifyReplace
<1>2. Visible(job[s].goal) = Visible(db)
  BY <1>1, VisibleAlike DEF SameVisibly
<1>3. StoreInv(db, files)
  BY Known
<1> QED
  BY <1>2, <1>3, SucceedKept DEF VerifyReplace

\* A daemon writes an entry of a backend table.
LEMMA BackendWriteKept ==
    ASSUME SoleAndSorted, SoleInv, DaemonsKeepFields, NEW k \in BackendKeys, NEW e \in BackendEntries,
           BackendWrite(k, e), NEW s \in Sessions
    PROVE  Kept(s)
<1>1. /\ JobInv(job[s], pc[s], outcome[s], db, files) /\ StoreInv(db, files) /\ db \in Configs
  BY Known
<1>2. UNCHANGED <<files, pc, outcome, job>> /\ db' = [db EXCEPT ![k] = e]
  BY DEF BackendWrite
<1>3. \A i \in VisibleKeys : db'[i] = db[i]
  BY <1>1, <1>2 DEF VisibleKeys, Configs
<1>4. pc[s] # "idle" => SameFields(db, db')
  <2> SUFFICES ASSUME pc[s] # "idle", NEW i \in Keys, NEW f \in Fields
               PROVE  db[i][f] = Unset <=> db'[i][f] = Unset
    BY DEF SameFields
  <2>1. CASE i = k
    <3>1. e[f] = Unset <=> db[k][f] = Unset
      BY DEF DaemonsKeepFields, Idle
    <3> QED
      BY <1>1, <1>2, <2>1, <3>1 DEF Configs
  <2>2. CASE i # k
    BY <1>1, <1>2, <2>2 DEF Configs
  <2> QED
    BY <2>1, <2>2
<1>5. StoreInv(db', files)
  BY <1>1, <1>3 DEF StoreInv, NoEmptyLists
<1>6. AimInv(job[s], pc[s], db', files)
  BY <1>1, <1>3 DEF JobInv, AimInv, SameVisibly
<1>7. LoopInv(job[s], pc[s], db')
  <2>1. pc[s] \in {"strict", "sort"} => SameVisibly(job[s].current, job[s].before) /\ SameFields(job[s].current, db')
    BY <1>1, <1>4 DEF JobInv, LoopInv, SameFields
  <2>2. pc[s] \in {"change", "write"} =>
          /\ Approaches(job[s].changes, job[s].current, job[s].target, job[s].before)
          /\ Mixed(db', job[s].before, job[s].target)
          /\ \A i \in VisibleKeys \ job[s].dirty : db'[i] \in {job[s].current[i], Stored(job[s].current[i])}
    BY <1>1, <1>3 DEF JobInv, LoopInv, Mixed
  <2>3. /\ pc[s] = "change" => job[s].dirty = {}
        /\ pc[s] = "verify" => SameVisibly(db', job[s].target)
    BY <1>1, <1>3 DEF JobInv, LoopInv, SameVisibly
  <2> QED
    BY <2>1, <2>2, <2>3 DEF LoopInv
<1>8. OutcomeInv(job[s], pc[s], outcome[s], db')
  BY <1>1, <1>3 DEF JobInv, OutcomeInv, SameVisibly
<1> QED
  BY <1>2, <1>5, <1>6, <1>7, <1>8 DEF Kept, JobInv

-----------------------------------------------------------------------------
(* The theorems *)

\* Nothing is running yet.
LEMMA SoleInvInit == ASSUME SoleAndSorted, Init PROVE SoleInv
<1>1. SessionInv
  BY InitSessionInv DEF SoleAndSorted
<1>2. StoreInv(db, files)
  BY DEF Init, StoreInv, SoleAndSorted, NoEmptyListsGiven
<1>3. ASSUME NEW s \in Sessions PROVE JobInv(job[s], pc[s], outcome[s], db, files)
  <2>1. pc[s] = "idle" /\ outcome[s] = "none" /\ job[s].orphan = FALSE
    BY <1>3 DEF Init, NewJob
  <2> QED
    BY <2>1 DEF JobInv, AimInv, LoopInv, OutcomeInv, Unwritten, Aimed, Patching, Targeted, Labels
<1> QED
  BY <1>1, <1>2, <1>3 DEF SoleInv

\* Every step preserves the invariant.
LEMMA SoleInvStep ==
    ASSUME SoleAndSorted, SoleInv, [Next]_vars, [DaemonsKeepFields]_vars
    PROVE  SoleInv'
<1>1. SessionInv'
  BY SessionInvStep DEF SoleAndSorted, SoleInv
<1>2. CASE UNCHANGED vars
  BY <1>1, <1>2 DEF SoleInv, vars
<1>3. ASSUME NEW s \in Sessions, Kept(s) PROVE SoleInv'
  <2>1. \A r \in Sessions : r = s
    BY DEF SoleAndSorted, SoleSession
  <2> QED
    BY <1>1, <1>3, <2>1 DEF SoleInv, Kept
<1>4. ASSUME NEW s \in Sessions, Step(s) PROVE Kept(s)
  <2>1. ASSUME NEW k \in Keys, WriteEntry(s, k) PROVE Kept(s)
    BY <2>1, WriteEntryKept
  <2> QED
    BY <1>4, <2>1, CheckExistsKept, LoadCheckpointKept, DeleteCheckpointKept, SnapshotKept, OpenCheckpointKept,
       SaveCheckpointKept, GeneratePatchKept, ReadOldConfigKept, StrictSortKept, SortKept, StartChangeKept,
       ValidateServicesKept, VerifyKept, VerifyReplaceKept
    DEF Step
<1>5. ASSUME NEW k \in BackendKeys, NEW e \in BackendEntries, BackendWrite(k, e), ~UNCHANGED vars PROVE SoleInv'
  <2>1. DaemonsKeepFields
    BY <1>5
  <2>2. ASSUME NEW s \in Sessions PROVE Kept(s)
    BY <1>5, <2>1, BackendWriteKept
  <2>3. CASE Sessions = {}
    <3>1. StoreInv(db', files')
      <4>1. StoreInv(db, files) /\ files' = files /\ db \in Configs /\ db' = [db EXCEPT ![k] = e]
        BY <1>5 DEF BackendWrite, SoleInv, SessionInv, TypeOK
      <4>2. \A i \in VisibleKeys : db'[i] = db[i]
        BY <4>1 DEF VisibleKeys, Configs
      <4> QED
        BY <4>1, <4>2 DEF StoreInv, NoEmptyLists
    <3> QED
      BY <1>1, <2>3, <3>1 DEF SoleInv
  <2> QED
    BY <1>3, <2>2, <2>3
<1>6. ASSUME NEW s \in Sessions, NEW c \in Commands, Start(s, c) PROVE Kept(s)
  BY <1>6, StartKept
<1>7. ASSUME NEW s \in Sessions, Kill(s) PROVE Kept(s)
  BY <1>7, KillKept
<1> QED
  BY <1>2, <1>3, <1>4, <1>5, <1>6, <1>7 DEF Next, AllDone

\* Every behaviour of a sole session keeps the invariant.
LEMMA SoleInvariant == ASSUME SoleAndSorted PROVE Spec /\ [][DaemonsKeepFields]_vars => []SoleInv
<1>1. Init => SoleInv
  BY SoleInvInit
<1>2. SoleInv /\ [Next]_vars /\ [DaemonsKeepFields]_vars => SoleInv'
  BY SoleInvStep
<1> QED
  BY <1>1, <1>2, PTL DEF Spec

(* A command of a sole session that fails has changed nothing, for any number  *)
(* of entries, commands and checkpoints: the checks that can refuse a patch    *)
(* come before the first set_entry, and after it neither a change nor either   *)
(* comparison can fail.  The sorter has to return lists that lead to the       *)
(* target, and the daemons must not add or remove fields while a command runs. *)
THEOREM FailedCommandsChangeNothing ==
    ASSUME SoleAndSorted
    PROVE  Spec /\ [][DaemonsKeepFields]_vars => []ErrorLeavesConfigUntouched
<1>1. SoleInv => ErrorLeavesConfigUntouched
  <2> SUFFICES ASSUME SoleInv, NEW s \in Sessions, outcome[s] = "error"
               PROVE  Visible(db) = Visible(job[s].before)
    BY DEF ErrorLeavesConfigUntouched
  <2>1. SameVisibly(db, job[s].before)
    BY DEF SoleInv, JobInv, OutcomeInv
  <2> QED
    BY <2>1, VisibleAlike
<1> QED
  BY <1>1, SoleInvariant, PTL

-----------------------------------------------------------------------------
(* The sole session implements AtomicUpdate. *)

\* Some session runs the commands.
LEMMA SoleIsSession == ASSUME Sessions # {} PROVE Sole \in Sessions
  BY DEF Sole

\* What the operator sees in the initial states.
LEMMA AtomicInit == ASSUME SoleAndSorted, Sessions # {}, Init PROVE Atomic!Init
<1>1. outcome[Sole] = "none" /\ job[Sole].cmd = [op |-> "none"]
  BY SoleIsSession DEF Init, NewJob
<1>2. CheckpointsSeen = [n \in Names |-> NoFile]
  BY DEF Init, CheckpointsSeen
<1>3. ConfigSeen \in {Visible(c) : c \in InitialConfigs}
  BY <1>1 DEF Init, ConfigSeen
<1> QED
  BY <1>1, <1>2, <1>3 DEF Atomic!Init

\* The patch as AtomicUpdate applies it to what is seen.
LEMMA PatchedVisibly ==
    ASSUME NEW p \in SUBSET Edits, NEW c \in Configs, WellFormed
    PROVE  VisiblyPatched(p, Visible(c)) = Visible(Simulate(p, c))
<1> DEFINE d == [k \in Keys |-> IF k \in DOMAIN Visible(c) THEN Visible(c)[k] ELSE NoConfig[k]]
<1>1. DOMAIN Visible(c) = VisibleKeys /\ \A k \in VisibleKeys : Visible(c)[k] = c[k]
  BY DEF Visible, VisibleKeys
<1>2. \A k \in Keys : NoConfig[k] \in Entries /\ c[k] \in Entries
  BY DEF NoConfig, Entries, Configs
<1>3. d \in Configs
  BY <1>1, <1>2 DEF Configs
<1>4. SameVisibly(d, c)
  BY <1>1, VisibleAreKeys DEF SameVisibly
<1>5. VisiblyPatched(p, Visible(c)) = Visible(Simulate(p, d))
  BY DEF VisiblyPatched
<1> HIDE DEF d
<1>6. SameVisibly(Simulate(p, d), Simulate(p, c))
  BY <1>3, <1>4, SimulatedAlike
<1> QED
  BY <1>5, <1>6, VisibleAlike

\* A checkpoint is seen as missing or torn when it is.
LEMMA CheckpointSeen ==
    ASSUME SoleAndSorted, SoleInv, NEW n \in Names
    PROVE  /\ files[n] \in {NoFile, Torn} => CheckpointsSeen[n] = files[n]
           /\ files[n] \notin {NoFile, Torn} =>
                 CheckpointsSeen[n] = Visible(files[n]) /\ CheckpointsSeen[n] \notin {NoFile, Torn}
<1>1. files[n] \in {NoFile, Torn} \cup Configs
  BY DEF SoleInv, SessionInv, TypeOK
<1>2. CheckpointsSeen[n] = IF files[n] \in {NoFile, Torn} THEN files[n] ELSE Visible(files[n])
  BY DEF CheckpointsSeen
<1>3. files[n] \in Configs => Visible(files[n]) \notin {NoFile, Torn}
  BY DEF SoleAndSorted, FilesDistinct
<1> QED
  BY <1>1, <1>2, <1>3

\* The command a running session was started with.
LEMMA SoleCommand ==
    ASSUME SoleAndSorted, SoleInv, Sole \in Sessions, ~Idle(Sole)
    PROVE  /\ outcome[Sole] = "running" /\ ConfigSeen = Visible(job[Sole].before)
           /\ job[Sole].cmd \in Commands /\ OpFits(Op(Sole), pc[Sole])
           /\ Op(Sole) \in FileOps => Name(Sole) \in Names
<1>1. /\ outcome[Sole] = "running" /\ job[Sole].cmd \in Commands
      /\ OpFits(job[Sole].cmd.op, pc[Sole])
  BY Known DEF JobInv, AimInv, OutcomeInv, Idle
<1>2. job[Sole].cmd.op \in FileOps => job[Sole].cmd.name \in Names
  BY <1>1 DEF SoleAndSorted, WellFormed, CommandsWellFormed
<1> QED
  BY <1>1, <1>2 DEF ConfigSeen, Op, Name

\* Where AtomicUpdate wants the configuration is the target of the session.
LEMMA WantedIsTarget ==
    ASSUME SoleAndSorted, SoleInv, Sole \in Sessions, pc[Sole] \in Targeted
    PROVE  Atomic!Wanted = Visible(job[Sole].target)
<1> DEFINE j == job[Sole]
<1>1. /\ JobInv(j, pc[Sole], outcome[Sole], db, files) /\ j.before \in Configs /\ j.patch \in SUBSET Edits
      /\ ~Idle(Sole)
  BY Known DEF Targeted, Patching, Aimed, Idle
<1>2. /\ outcome[Sole] = "running" /\ ConfigSeen = Visible(j.before) /\ j.cmd \in Commands
      /\ j.cmd.op \in {"apply", "apply_unsorted", "replace", "rollback"}
      /\ j.cmd.op = "rollback" => j.cmd.name \in Names
  BY <1>1, SoleCommand DEF Op, Name, OpFits, Targeted, Patching, Aimed, FileOps
<1>3. CASE j.cmd.op \in ApplyOps
  <2>1. j.patch = j.cmd.patch /\ SameVisibly(j.target, Simulate(j.patch, j.before))
    BY <1>1, <1>3 DEF JobInv, AimInv, Idle
  <2>2. Atomic!Wanted = VisiblyPatched(j.patch, Visible(j.before))
    BY <1>2, <1>3, <2>1 DEF Atomic!Wanted, ApplyOps
  <2>3. VisiblyPatched(j.patch, Visible(j.before)) = Visible(Simulate(j.patch, j.before))
    BY <1>1, PatchedVisibly DEF SoleAndSorted
  <2>4. Visible(j.target) = Visible(Simulate(j.patch, j.before))
    BY <2>1, VisibleAlike
  <2> QED
    BY <2>2, <2>3, <2>4
<1>4. CASE j.cmd.op \in {"replace", "rollback"}
  <2>1. Visible(j.target) = Visible(j.goal)
    BY <1>4, TargetIsGoal, VisibleAlike
  <2>2. CASE j.cmd.op = "replace"
    <3>1. j.goal = j.cmd.config
      BY <1>1, <2>2 DEF JobInv, AimInv, Targeted, Patching
    <3> QED
      BY <2>1, <2>2, <3>1 DEF Atomic!Wanted
  <2>3. CASE j.cmd.op = "rollback"
    <3>1. files[j.cmd.name] = j.goal
      BY <1>1, <2>3 DEF JobInv, AimInv, Targeted, Patching
    <3>2. j.goal \notin {NoFile, Torn}
      <4>1. j.goal \in Configs
        BY Known
      <4> QED
        BY <4>1 DEF SoleAndSorted, FilesDistinct
    <3>3. CheckpointsSeen[j.cmd.name] = Visible(j.goal) /\ CheckpointsSeen[j.cmd.name] \notin {NoFile, Torn}
      BY <1>2, <2>3, <3>1, <3>2, CheckpointSeen
    <3> QED
      BY <2>1, <2>3, <3>3 DEF Atomic!Wanted, Atomic!Readable
  <2> QED
    BY <1>4, <2>2, <2>3
<1> QED
  BY <1>2, <1>3, <1>4 DEF ApplyOps

\* A step that shows the operator nothing.
LEMMA Unseen ==
    ASSUME SoleInv, Sole \in Sessions, outcome'[Sole] = outcome[Sole],
           job'[Sole].cmd = job[Sole].cmd, job'[Sole].before = job[Sole].before, UNCHANGED files,
           ~Idle(Sole) \/ SameVisibly(db', db)
    PROVE  UNCHANGED Atomic!avars
<1>1. outcome[Sole] = "running" <=> ~Idle(Sole)
  BY Known DEF JobInv, OutcomeInv, Idle
<1>2. ConfigSeen' = ConfigSeen
  BY <1>1, VisibleAlike DEF ConfigSeen
<1>3. CheckpointsSeen' = CheckpointsSeen
  BY DEF CheckpointsSeen
<1> QED
  BY <1>2, <1>3 DEF Atomic!avars

\* The command starts: it is accepted.
LEMMA StartAccepts ==
    ASSUME SoleAndSorted, SoleInv, Sole \in Sessions, NEW c \in Commands, Start(Sole, c)
    PROVE  Atomic!Accept(c)
<1>1. outcome[Sole] # "running"
  BY Known DEF JobInv, OutcomeInv, Start, Idle
<1>2. outcome'[Sole] = "running"
  <2>1. outcome \in [Sessions -> Outcomes]
    BY DEF SoleInv, SessionInv, TypeOK, Outcomes
  <2> QED
    BY <2>1 DEF Start
<1>3. job'[Sole] = NewJob(c, job[Sole].planned)
  BY After DEF Start
<1>4. job'[Sole].cmd = c /\ job'[Sole].before = db
  BY <1>3 DEF NewJob
<1>5. ConfigSeen' = ConfigSeen
  BY <1>1, <1>2, <1>4 DEF ConfigSeen, Start
<1>6. CheckpointsSeen' = CheckpointsSeen
  BY DEF CheckpointsSeen, Start
<1> QED
  BY <1>1, <1>2, <1>4, <1>5, <1>6 DEF Atomic!Accept

\* What every end of a command has in common.
LEMMA Ends ==
    ASSUME SoleAndSorted, SoleInv, Sole \in Sessions, ~Idle(Sole), NEW how, how # "running", End(Sole, how),
           UNCHANGED job
    PROVE  Atomic!EndAs(how) /\ ConfigSeen = Visible(job[Sole].before) /\ ConfigSeen' = Visible(db')
<1>1. outcome[Sole] = "running" /\ ConfigSeen = Visible(job[Sole].before)
  BY SoleCommand
<1>2. outcome'[Sole] = how
  BY After
<1>3. ConfigSeen' = Visible(db')
  BY <1>2 DEF ConfigSeen
<1> QED
  BY <1>1, <1>2, <1>3 DEF Atomic!EndAs

\* An exception refuses the command: nothing is left of it.
LEMMA RaiseRefuses ==
    ASSUME SoleAndSorted, SoleInv, SoleInv', Sole \in Sessions, ~Idle(Sole), Raise(Sole)
    PROVE  Atomic!Refuse
<1>1. Atomic!EndAs("error") /\ ConfigSeen = Visible(job[Sole].before) /\ ConfigSeen' = Visible(db')
  BY Ends DEF Raise
<1>2. outcome'[Sole] = "error" /\ UNCHANGED <<db, files, job>>
  BY After DEF Raise
<1>3. SameVisibly(db', job'[Sole].before)
  BY <1>2 DEF SoleInv, JobInv, OutcomeInv
<1>4. Visible(db') = Visible(job[Sole].before)
  BY <1>2, <1>3, VisibleAlike
<1>5. CheckpointsSeen' = CheckpointsSeen
  BY <1>2 DEF CheckpointsSeen
<1> QED
  BY <1>1, <1>4, <1>5 DEF Atomic!Refuse

\* A kill leaves a mixture of before and target behind.
LEMMA KillDies ==
    ASSUME SoleAndSorted, SoleInv, Sole \in Sessions, Kill(Sole)
    PROVE  Atomic!Die
<1> DEFINE j == job[Sole]
           b == Visible(j.before)
           d == Visible(db)
           t == Atomic!Wanted
<1>1. ~Idle(Sole) /\ End(Sole, "killed") /\ UNCHANGED <<db, files, job>>
  BY DEF Kill
<1>2. Atomic!EndAs("killed") /\ ConfigSeen = b /\ ConfigSeen' = d
  BY <1>1, Ends
<1>3. CheckpointsSeen' = CheckpointsSeen
  BY <1>1 DEF CheckpointsSeen
<1>4. JobInv(j, pc[Sole], outcome[Sole], db, files) /\ db \in Configs /\ j.before \in Configs /\ pc[Sole] \in Labels
  BY Known
<1>5. /\ DOMAIN b = VisibleKeys /\ DOMAIN d = VisibleKeys
      /\ \A k \in VisibleKeys : b[k] = j.before[k] /\ d[k] = db[k]
      /\ \A k \in VisibleKeys : DOMAIN b[k] = Fields /\ DOMAIN d[k] = Fields
  BY <1>4 DEF Visible, VisibleKeys, Configs, Entries
<1>6. ASSUME NEW k \in VisibleKeys, NEW f \in Fields PROVE d[k][f] \in {b[k][f], t[k][f]} \cup Interim
  <2>1. CASE pc[Sole] \in Unwritten
    <3>1. db[k] = j.before[k]
      BY <1>4, <2>1 DEF JobInv, AimInv, SameVisibly
    <3> QED
      BY <1>5, <3>1
  <2>2. CASE pc[Sole] \in {"change", "write", "verify"}
    <3>1. Mixed(db, j.before, j.target)
      BY <1>4, <2>2 DEF JobInv, LoopInv, Mixed, SameVisibly
    <3>2. t[k] = j.target[k]
      <4>1. t = Visible(j.target)
        BY <2>2, WantedIsTarget DEF Targeted, Patching, Aimed
      <4> HIDE DEF t
      <4> QED
        BY <4>1 DEF Visible, VisibleKeys
    <3> HIDE DEF t, b, d, j
    <3> QED
      BY <1>5, <3>1, <3>2 DEF Mixed
  <2> QED
    BY <1>1, <1>4, <2>1, <2>2 DEF Idle, Unwritten, Labels
<1> HIDE DEF b, d, t
<1>7. Atomic!Between(b, d, t)
  BY <1>5, <1>6 DEF Atomic!Between
<1> QED
  BY <1>2, <1>3, <1>7 DEF Atomic!Die, t

\* A patch that is there commits the command.
LEMMA PatchCommits ==
    ASSUME SoleAndSorted, SoleInv, Sole \in Sessions, pc[Sole] \in {"change", "verify"},
           SameVisibly(db, job[Sole].target), Succeed(Sole), UNCHANGED <<db, files, job>>
    PROVE  Atomic!Commit
<1>1. /\ Atomic!EndAs("ok") /\ ConfigSeen' = Visible(db)
  BY Ends DEF Succeed, Idle
<1>2. Atomic!Wanted = Visible(db)
  BY WantedIsTarget, VisibleAlike DEF Targeted, Patching, Aimed
<1>3. CheckpointsSeen' = CheckpointsSeen
  BY DEF CheckpointsSeen
<1>4. /\ Op(Sole) \in {"apply", "apply_unsorted", "replace", "rollback"}
      /\ Op(Sole) \in FileOps => Name(Sole) \in Names
  BY SoleCommand DEF OpFits, Idle
<1>5. Op(Sole) = "rollback" => CheckpointsSeen[Name(Sole)] \notin {NoFile, Torn}
  <2> SUFFICES ASSUME Op(Sole) = "rollback" PROVE CheckpointsSeen[Name(Sole)] \notin {NoFile, Torn}
    OBVIOUS
  <2>1. files[Name(Sole)] = job[Sole].goal /\ job[Sole].goal \in Configs
    BY Known DEF JobInv, AimInv, Aimed, Op, Name
  <2>2. job[Sole].goal \notin {NoFile, Torn}
    BY <2>1 DEF SoleAndSorted, FilesDistinct
  <2> QED
    BY <1>4, <2>1, <2>2, CheckpointSeen DEF FileOps
<1> QED
  BY <1>1, <1>2, <1>3, <1>4, <1>5 DEF Atomic!Commit, Atomic!Readable, Op, Name

\* A checkpoint file changes in one place.
LEMMA OneFileChanges ==
    ASSUME NEW n \in Names, files \in [Names -> {NoFile, Torn} \cup Configs], NEW v,
           files' = [files EXCEPT ![n] = v]
    PROVE  CheckpointsSeen' =
             [CheckpointsSeen EXCEPT ![n] = IF v \in {NoFile, Torn} THEN v ELSE Visible(v)]
<1> DEFINE seen(x) == IF x \in {NoFile, Torn} THEN x ELSE Visible(x)
<1>1. CheckpointsSeen = [m \in Names |-> seen(files[m])] /\ CheckpointsSeen' = [m \in Names |-> seen(files'[m])]
  BY DEF CheckpointsSeen
<1>2. files'[n] = v /\ \A m \in Names \ {n} : files'[m] = files[m]
  OBVIOUS
<1> HIDE DEF seen
<1>3. CheckpointsSeen' = [CheckpointsSeen EXCEPT ![n] = seen(v)]
  BY <1>1, <1>2
<1> QED
  BY <1>3 DEF seen

\* Removing a checkpoint commits delete-checkpoint.
LEMMA DeleteCommits ==
    ASSUME SoleAndSorted, SoleInv, Sole \in Sessions, DeleteCheckpoint(Sole), ~Raise(Sole), UNCHANGED job
    PROVE  Atomic!Commit
<1>1. /\ pc[Sole] = "unlink" /\ files[Name(Sole)] # NoFile /\ Succeed(Sole) /\ UNCHANGED db
      /\ files' = [files EXCEPT ![Name(Sole)] = NoFile]
  BY DEF DeleteCheckpoint
<1>2. /\ Atomic!EndAs("ok") /\ ConfigSeen = Visible(job[Sole].before) /\ ConfigSeen' = Visible(db)
  BY <1>1, Ends DEF Succeed, Idle
<1>3. Op(Sole) = "delete" /\ Name(Sole) \in Names
  BY <1>1, SoleCommand DEF OpFits, Idle, FileOps
<1>4. ConfigSeen' = ConfigSeen
  <2>1. SameVisibly(db, job[Sole].before)
    BY <1>1, Known DEF JobInv, AimInv, Unwritten, Labels
  <2> QED
    BY <1>2, <2>1, VisibleAlike
<1>5. Atomic!Wanted = ConfigSeen
  BY <1>3 DEF Atomic!Wanted, Op
<1>6. CheckpointsSeen' = [CheckpointsSeen EXCEPT ![Name(Sole)] = NoFile]
  BY <1>1, <1>3, Known, OneFileChanges
<1>7. CheckpointsSeen[Name(Sole)] # NoFile
  BY <1>1, <1>3, CheckpointSeen
<1> QED
  BY <1>2, <1>3, <1>4, <1>5, <1>6, <1>7 DEF Atomic!Commit, Op, Name

\* The file is whole again: the checkpoint commits.
LEMMA SaveCommits ==
    ASSUME SoleAndSorted, SoleInv, Sole \in Sessions, SaveCheckpoint(Sole)
    PROVE  Atomic!Commit
<1>1. /\ pc[Sole] = "save" /\ Op(Sole) = "checkpoint" /\ Name(Sole) \in Names
      /\ files' = [files EXCEPT ![Name(Sole)] = job[Sole].goal]
      /\ SameVisibly(job[Sole].goal, job[Sole].before)
  BY SavedIsBefore DEF Op, Name
<1>2. Succeed(Sole) /\ UNCHANGED <<db, job>>
  BY DEF SaveCheckpoint
<1>3. /\ Atomic!EndAs("ok") /\ ConfigSeen = Visible(job[Sole].before) /\ ConfigSeen' = Visible(db)
  BY <1>1, <1>2, Ends DEF Succeed, Idle
<1>4. ConfigSeen' = ConfigSeen
  <2>1. SameVisibly(db, job[Sole].before)
    BY <1>1, Known DEF JobInv, AimInv, Unwritten, Labels
  <2> QED
    BY <1>3, <2>1, VisibleAlike
<1>5. Atomic!Wanted = ConfigSeen
  BY <1>1 DEF Atomic!Wanted, Op
<1>6. CheckpointsSeen' = [CheckpointsSeen EXCEPT ![Name(Sole)] = ConfigSeen]
  <2>1. job[Sole].goal \notin {NoFile, Torn}
    <3>1. job[Sole].goal \in Configs
      BY Known
    <3> QED
      BY <3>1 DEF SoleAndSorted, FilesDistinct
  <2>2. CheckpointsSeen' = [CheckpointsSeen EXCEPT ![Name(Sole)] = Visible(job[Sole].goal)]
    BY <1>1, <2>1, Known, OneFileChanges
  <2>3. Visible(job[Sole].goal) = Visible(job[Sole].before)
    BY <1>1, VisibleAlike
  <2> QED
    BY <1>3, <2>2, <2>3
<1> QED
  BY <1>1, <1>3, <1>4, <1>5, <1>6 DEF Atomic!Commit, Op, Name

\* Opening the file loses the old checkpoint.
LEMMA OpenTruncates ==
    ASSUME SoleAndSorted, SoleInv, Sole \in Sessions, OpenCheckpoint(Sole)
    PROVE  Atomic!Truncate
<1>1. pc[Sole] = "open" /\ files' = [files EXCEPT ![Name(Sole)] = Torn] /\ UNCHANGED <<db, outcome, job>>
  BY DEF OpenCheckpoint
<1>2. outcome[Sole] = "running" /\ Op(Sole) = "checkpoint" /\ Name(Sole) \in Names
  BY <1>1, SoleCommand DEF OpFits, Idle, FileOps
<1>3. CheckpointsSeen' = [CheckpointsSeen EXCEPT ![Name(Sole)] = Torn]
  BY <1>1, <1>2, Known, OneFileChanges
<1>4. ConfigSeen' = ConfigSeen
  BY <1>1 DEF ConfigSeen
<1> QED
  BY <1>1, <1>2, <1>3, <1>4 DEF Atomic!Truncate, Op, Name

\* What a step of the session is to the operator.
LEMMA StepIsAtomic ==
    ASSUME SoleAndSorted, SoleInv, SoleInv', Sole \in Sessions, Step(Sole)
    PROVE  [Atomic!Next]_(Atomic!avars)
<1> DEFINE s == Sole
           Seen == [Atomic!Next]_(Atomic!avars)
<1>1. job[s] \in Jobs /\ job \in [Sessions -> Jobs]
  BY DEF SoleInv, SessionInv, TypeOK
<1>2. ~Idle(s)
  BY DEF Step, CheckExists, LoadCheckpoint, DeleteCheckpoint, Snapshot, OpenCheckpoint, SaveCheckpoint,
         GeneratePatch, ReadOldConfig, StrictSort, Sort, StartChange, WriteEntry, ValidateServices, Verify,
         VerifyReplace, Idle
<1>3. ASSUME NEW j, UNCHANGED files, UNCHANGED outcome, job' = [job EXCEPT ![s] = j],
             j.cmd = job[s].cmd, j.before = job[s].before
      PROVE  Seen
  <2>1. job'[s] = j
    BY <1>1, <1>3
  <2> QED
    BY <1>2, <1>3, <2>1, Unseen
<1>4. ASSUME UNCHANGED files, UNCHANGED outcome, UNCHANGED job PROVE Seen
  BY <1>2, <1>4, Unseen
<1>5. Raise(s) => Seen
  BY <1>2, RaiseRefuses DEF Atomic!Next
<1> SUFFICES Seen
  OBVIOUS
<1> HIDE DEF Seen
<1>6. CASE CheckExists(s)
  BY <1>4, <1>5, <1>6 DEF CheckExists
<1>7. CASE LoadCheckpoint(s) /\ ~Raise(s)
  <2> DEFINE j == [job[s] EXCEPT !.goal = files[Name(s)]]
  <2>1. UNCHANGED files /\ UNCHANGED outcome /\ job' = [job EXCEPT ![s] = j]
    BY <1>1, <1>7 DEF LoadCheckpoint
  <2>2. j.cmd = job[s].cmd /\ j.before = job[s].before
    BY <1>1 DEF Jobs
  <2> HIDE DEF j
  <2> QED
    BY <1>3, <2>1, <2>2
<1>8. CASE DeleteCheckpoint(s) /\ ~Raise(s)
  <2>1. \A t \in Sessions : pc[t] = "unlink"
    BY <1>8 DEF SoleAndSorted, SoleSession, DeleteCheckpoint
  <2>2. job' = [t \in Sessions |-> IF pc[t] = "save" /\ Name(t) = Name(s)
                                   THEN [job[t] EXCEPT !.orphan = TRUE] ELSE job[t]]
    BY <1>8 DEF DeleteCheckpoint
  <2>3. job' = [t \in Sessions |-> job[t]]
    BY <2>1, <2>2
  <2>4. UNCHANGED job
    BY <1>1, <2>3
  <2> QED
    BY <1>8, <2>4, DeleteCommits DEF Seen, Atomic!Next
<1>9. CASE Snapshot(s)
  <2> DEFINE j == [job[s] EXCEPT !.goal = db]
  <2>1. UNCHANGED files /\ UNCHANGED outcome /\ job' = [job EXCEPT ![s] = j]
    BY <1>1, <1>9 DEF Snapshot
  <2>2. j.cmd = job[s].cmd /\ j.before = job[s].before
    BY <1>1 DEF Jobs
  <2> HIDE DEF j
  <2> QED
    BY <1>3, <2>1, <2>2
<1>10. CASE OpenCheckpoint(s)
  BY <1>10, OpenTruncates DEF Seen, Atomic!Next
<1>11. CASE SaveCheckpoint(s)
  BY <1>11, SaveCommits DEF Seen, Atomic!Next
<1>12. CASE GeneratePatch(s)
  <2> DEFINE j == [job[s] EXCEPT !.patch = Diff(db, job[s].goal)]
  <2>1. UNCHANGED files /\ UNCHANGED outcome /\ job' = [job EXCEPT ![s] = j]
    BY <1>1, <1>12 DEF GeneratePatch
  <2>2. j.cmd = job[s].cmd /\ j.before = job[s].before
    BY <1>1 DEF Jobs
  <2> HIDE DEF j
  <2> QED
    BY <1>3, <2>1, <2>2
<1>13. CASE ReadOldConfig(s) /\ ~Raise(s)
  <2> DEFINE read == [job[s] EXCEPT !.target = Simulate(job[s].patch, db), !.current = db]
  <2>1. /\ UNCHANGED files /\ UNCHANGED outcome
        /\ \/ \E list : job' = [job EXCEPT ![s] = WithChanges(read, list)]
           \/ job' = [job EXCEPT ![s] = read]
    BY <1>13 DEF ReadOldConfig
  <2>2. read.cmd = job[s].cmd /\ read.before = job[s].before
    BY <1>1 DEF Jobs
  <2>3. ASSUME NEW list PROVE /\ WithChanges(read, list).cmd = job[s].cmd
                              /\ WithChanges(read, list).before = job[s].before
    BY <1>1 DEF WithChanges, Jobs
  <2> HIDE DEF read
  <2> QED
    BY <1>3, <2>1, <2>2, <2>3
<1>14. CASE StrictSort(s)
  BY <1>4, <1>5, <1>14 DEF StrictSort
<1>15. CASE Sort(s) /\ ~Raise(s)
  <2>1. PICK plan : UNCHANGED files /\ UNCHANGED outcome /\ job' = [job EXCEPT ![s] = WithChanges(job[s], plan)]
    BY <1>1, <1>15 DEF Sort
  <2>2. WithChanges(job[s], plan).cmd = job[s].cmd /\ WithChanges(job[s], plan).before = job[s].before
    BY <1>1 DEF WithChanges, Jobs
  <2> QED
    BY <1>3, <2>1, <2>2
<1>16. CASE StartChange(s) /\ ~Raise(s)
  <2> DEFINE upd == ApplyPatch(Head(job[s].changes), job[s].current)
             j == [job[s] EXCEPT !.dirty = {k \in Keys : job[s].current[k] # upd[k]},
                                 !.current = upd, !.changes = Tail(job[s].changes)]
  <2>1. UNCHANGED files /\ UNCHANGED outcome /\ job' = [job EXCEPT ![s] = j]
    BY <1>1, <1>16 DEF StartChange
  <2>2. j.cmd = job[s].cmd /\ j.before = job[s].before
    BY <1>1 DEF Jobs
  <2> HIDE DEF j
  <2> QED
    BY <1>3, <2>1, <2>2
<1>17. ASSUME NEW k \in Keys, WriteEntry(s, k) PROVE Seen
  <2> DEFINE j == [job[s] EXCEPT !.dirty = job[s].dirty \ {k}]
  <2>1. UNCHANGED files /\ UNCHANGED outcome /\ job' = [job EXCEPT ![s] = j]
    BY <1>1, <1>17 DEF WriteEntry
  <2>2. j.cmd = job[s].cmd /\ j.before = job[s].before
    BY <1>1 DEF Jobs
  <2> HIDE DEF j
  <2> QED
    BY <1>3, <2>1, <2>2
<1>18. CASE ValidateServices(s)
  BY <1>4, <1>18 DEF ValidateServices
<1>19. CASE Verify(s) /\ ~Raise(s)
  <2>1. pc[s] = "change" /\ SameVisibly(db, job[s].target) /\ UNCHANGED <<db, files, job>>
    BY <1>19, TargetReached DEF Verify
  <2>2. CASE Succeed(s)
    BY <2>1, <2>2, PatchCommits DEF Seen, Atomic!Next
  <2>3. CASE UNCHANGED outcome
    BY <1>4, <2>1, <2>3
  <2> QED
    BY <1>19, <2>2, <2>3 DEF Verify
<1>20. CASE VerifyReplace(s) /\ ~Raise(s)
  <2>1. pc[s] = "verify" /\ Succeed(s) /\ UNCHANGED <<db, files, job>>
    BY <1>20 DEF VerifyReplace
  <2>2. SameVisibly(db, job[s].target)
    BY <2>1, Known DEF JobInv, LoopInv
  <2> QED
    BY <2>1, <2>2, PatchCommits DEF Seen, Atomic!Next
<1> QED
  BY <1>5, <1>6, <1>7, <1>8, <1>9, <1>10, <1>11, <1>12, <1>13, <1>14, <1>15, <1>16, <1>17, <1>18, <1>19, <1>20
  DEF Step

\* What any step is to the operator.
LEMMA NextIsAtomic ==
    ASSUME SoleAndSorted, SoleInv, SoleInv', Sole \in Sessions, [Next]_vars
    PROVE  [Atomic!Next]_(Atomic!avars)
<1>1. \A s \in Sessions : s = Sole
  BY DEF SoleAndSorted, SoleSession
<1>2. CASE UNCHANGED vars
  <2>1. UNCHANGED <<db, files, outcome, job>>
    BY <1>2 DEF vars
  <2> QED
    BY <2>1, Unseen DEF SameVisibly
<1>3. ASSUME NEW k \in BackendKeys, NEW e \in BackendEntries, BackendWrite(k, e)
      PROVE  [Atomic!Next]_(Atomic!avars)
  <2>1. UNCHANGED <<files, outcome, job>> /\ db' = [db EXCEPT ![k] = e] /\ db \in Configs
    BY <1>3, Known DEF BackendWrite
  <2>2. SameVisibly(db', db)
    BY <2>1 DEF SameVisibly, VisibleKeys, Configs
  <2> QED
    BY <2>1, <2>2, Unseen
<1>4. CASE Step(Sole)
  BY <1>4, StepIsAtomic
<1>5. CASE Kill(Sole)
  BY <1>5, KillDies DEF Atomic!Next
<1>6. ASSUME NEW c \in Commands, Start(Sole, c) PROVE [Atomic!Next]_(Atomic!avars)
  BY <1>6, StartAccepts DEF Atomic!Next
<1> QED
  BY <1>1, <1>2, <1>3, <1>4, <1>5, <1>6 DEF Next, AllDone

(* A sole session implements AtomicUpdate, for any number of entries, commands *)
(* and checkpoints: what the operator sees is that a command is accepted and   *)
(* then takes its whole effect at once, is refused without effect, or is       *)
(* killed and leaves a mixture of the old and the new configuration.           *)
THEOREM SoleSessionIsAtomic ==
    ASSUME SoleAndSorted, Sessions # {}
    PROVE  Spec /\ [][DaemonsKeepFields]_vars => CommandsAreAtomic
<1>1. Init => Atomic!Init
  BY AtomicInit
<1>2. SoleInv /\ SoleInv' /\ [Next]_vars => [Atomic!Next]_(Atomic!avars)
  BY SoleIsSession, NextIsAtomic
<1> QED
  BY <1>1, <1>2, SoleInvariant, PTL DEF Spec, CommandsAreAtomic, Atomic!Spec

-----------------------------------------------------------------------------
(* replace and rollback fail only for what they are asked. *)

\* Validation and sorting judge a configuration by the tables that the daemons
\* do not write.
JudgedByVisible ==
    \A c, d, t, u \in Configs : SameVisibly(c, d) /\ SameVisibly(t, u) =>
        /\ Permitted(c, t) => Permitted(d, u)
        /\ Valid(t) => Valid(u)
        /\ Plans(c, t) # {} => Plans(d, u) # {}

\* The command had to fail.
Refusable(j, fs) ==
    /\ j.cmd.op = "replace" => ~Acceptable(j.before, j.cmd.config)
    /\ j.cmd.op = "rollback" => fs[j.cmd.name] \in {NoFile, Torn} \/ ~Acceptable(j.before, fs[j.cmd.name])

Checking == {"read", "strict", "sort"}

\* The generated patch stays applicable while it is checked and sorted.
RecoveryOf(j, label, how, d, fs) ==
    /\ label \in Checking /\ j.cmd.op \notin ApplyOps => Applies(j.patch, d)
    /\ how = "error" => Refusable(j, fs)

RecoveryInv == \A s \in Sessions : RecoveryOf(job[s], pc[s], outcome[s], db, files)

\* What is checked and sorted is acceptable if the goal is.
LEMMA CheckedIsGoal ==
    ASSUME JudgedByVisible, SoleInv, NEW s \in Sessions, pc[s] \in Checking, Op(s) \notin ApplyOps,
           Acceptable(job[s].before, job[s].goal)
    PROVE  /\ Permitted(db, Simulate(job[s].patch, db)) /\ Valid(Simulate(job[s].patch, db))
           /\ Plans(db, Simulate(job[s].patch, db)) # {}
<1> DEFINE p == job[s].patch
           b == job[s].before
           goal == job[s].goal
           t == Simulate(p, db)
<1>1. /\ JobInv(job[s], pc[s], outcome[s], db, files) /\ b \in Configs /\ p \in SUBSET Edits /\ goal \in Configs
      /\ db \in Configs
  BY Known
<1>2. /\ SameVisibly(db, b) /\ job[s].cmd.op \in {"replace", "rollback"} /\ NoEmptyLists(goal)
  BY <1>1 DEF JobInv, AimInv, OpFits, Checking, Unwritten, Labels, Aimed, ApplyOps, Op
<1>3. SameVisibly(Simulate(p, b), goal)
  BY <1>2, GoalSimulated DEF Checking, Patching, Aimed
<1>4. SameVisibly(t, Simulate(p, b)) /\ t \in Configs
  BY <1>1, <1>2, SimulatedAlike, SimulateType
<1>5. Normalised(goal) \in Configs
  BY <1>1 DEF Normalised, Configs, Entries
<1>6. \A k \in VisibleKeys : Normalised(goal)[k] = goal[k]
  <2> TAKE k \in VisibleKeys
  <2>1. k \in Keys /\ goal[k] \in Entries /\ \A f \in Fields : goal[k][f] # EmptyList
    BY <1>1, <1>2, VisibleAreKeys DEF NoEmptyLists, Configs
  <2>2. Normalised(goal)[k] = [f \in Fields |-> goal[k][f]]
    BY <2>1 DEF Normalised
  <2> QED
    BY <2>1, <2>2 DEF Entries
<1> HIDE DEF p, b, goal, t
<1>7. SameVisibly(b, db) /\ SameVisibly(goal, t) /\ SameVisibly(Normalised(goal), t)
  BY <1>2, <1>3, <1>4, <1>6 DEF SameVisibly
<1>8. Permitted(b, goal) /\ Valid(goal) /\ Plans(b, Normalised(goal)) # {}
  BY DEF Acceptable, b, goal
<1>9. Permitted(db, t) /\ Valid(t)
  BY <1>1, <1>4, <1>7, <1>8 DEF JudgedByVisible
<1>10. Plans(db, t) # {}
  BY <1>1, <1>4, <1>5, <1>7, <1>8 DEF JudgedByVisible
<1> QED
  BY <1>9, <1>10 DEF p, t

\* An exception while the patch is checked and sorted is due to the goal.
LEMMA GoalRefused ==
    ASSUME SoleAndSorted, SoleInv, NEW s \in Sessions, pc[s] \in Checking,
           Op(s) \notin ApplyOps => ~Acceptable(job[s].before, job[s].goal)
    PROVE  Refusable(job[s], files)
<1>1. JobInv(job[s], pc[s], outcome[s], db, files)
  BY Known
<1>2. /\ job[s].cmd.op = "replace" => job[s].goal = job[s].cmd.config
      /\ job[s].cmd.op = "rollback" => files[job[s].cmd.name] = job[s].goal
  BY <1>1 DEF JobInv, AimInv, Checking, Aimed
<1>3. job[s].cmd.op \in {"replace", "rollback"} => ~Acceptable(job[s].before, job[s].goal)
  BY DEF Op, ApplyOps
<1> QED
  BY <1>2, <1>3 DEF Refusable

\* Whenever an exception is raised, it had to be.
LEMMA RaiseIsDue ==
    ASSUME SoleAndSorted, JudgedByVisible, SoleInv, RecoveryInv, NEW s \in Sessions, Step(s), Raise(s)
    PROVE  Refusable(job[s], files)
<1>1. /\ JobInv(job[s], pc[s], outcome[s], db, files)
      /\ pc[s] \in Checking /\ Op(s) \notin ApplyOps => Applies(job[s].patch, db)
  BY Known DEF RecoveryInv, RecoveryOf, Op
<1>2. ~Idle(s) /\ outcome[s] # "error" /\ outcome'[s] = "error"
  <2>1. ~Idle(s)
    BY DEF Step, CheckExists, LoadCheckpoint, DeleteCheckpoint, Snapshot, OpenCheckpoint, SaveCheckpoint,
           GeneratePatch, ReadOldConfig, StrictSort, Sort, StartChange, WriteEntry, ValidateServices, Verify,
           VerifyReplace, Idle
  <2>2. outcome[s] # "error"
    BY <1>1, <2>1 DEF JobInv, OutcomeInv, Idle
  <2> QED
    BY <2>1, <2>2, After DEF Raise
<1>3. CASE pc[s] \in {"exists", "load", "unlink"}
  <2>1. job[s].cmd.op \in {"rollback", "delete"} /\ (pc[s] = "unlink" => job[s].cmd.op = "delete")
    BY <1>1, <1>3 DEF JobInv, AimInv, OpFits
  <2>2. pc[s] = "exists" => files[job[s].cmd.name] \in {NoFile, Torn}
    <3> SUFFICES ASSUME pc[s] = "exists" PROVE files[job[s].cmd.name] \in {NoFile, Torn}
      OBVIOUS
    <3>1. CheckExists(s)
      BY DEF Step, LoadCheckpoint, DeleteCheckpoint, Snapshot, OpenCheckpoint, SaveCheckpoint,
             GeneratePatch, ReadOldConfig, StrictSort, Sort, StartChange, WriteEntry, ValidateServices, Verify,
             VerifyReplace
    <3> QED
      BY <1>2, <3>1 DEF CheckExists, Name
  <2>3. pc[s] = "load" => files[job[s].cmd.name] \in {NoFile, Torn}
    <3> SUFFICES ASSUME pc[s] = "load" PROVE files[job[s].cmd.name] \in {NoFile, Torn}
      OBVIOUS
    <3>1. LoadCheckpoint(s)
      BY DEF Step, CheckExists, DeleteCheckpoint, Snapshot, OpenCheckpoint, SaveCheckpoint,
             GeneratePatch, ReadOldConfig, StrictSort, Sort, StartChange, WriteEntry, ValidateServices, Verify,
             VerifyReplace
    <3> QED
      BY <1>2, <3>1 DEF LoadCheckpoint, Name
  <2> QED
    BY <1>3, <2>1, <2>2, <2>3 DEF Refusable
<1>4. CASE pc[s] \in Checking
  <2>1. ASSUME Op(s) \notin ApplyOps, Acceptable(job[s].before, job[s].goal) PROVE FALSE
    <3>1. /\ Permitted(db, Simulate(job[s].patch, db)) /\ Valid(Simulate(job[s].patch, db))
          /\ Plans(db, Simulate(job[s].patch, db)) # {} /\ Applies(job[s].patch, db)
      BY <1>1, <1>4, <2>1, CheckedIsGoal
    <3>2. ReadOldConfig(s) \/ StrictSort(s) \/ Sort(s)
      BY <1>4 DEF Step, CheckExists, LoadCheckpoint, DeleteCheckpoint, Snapshot, OpenCheckpoint, SaveCheckpoint,
             GeneratePatch, StartChange, WriteEntry, ValidateServices, Verify, VerifyReplace, Checking
    <3>3. outcome'[s] = outcome[s]
      BY <3>1, <3>2 DEF ReadOldConfig, StrictSort, Sort
    <3> QED
      BY <1>2, <3>3
  <2> QED
    BY <1>4, <2>1, GoalRefused
<1>5. CASE pc[s] \in {"snapshot", "open", "save", "diff", "change", "write", "verify"}
  <2>1. /\ Snapshot(s) \/ OpenCheckpoint(s) \/ SaveCheckpoint(s) \/ GeneratePatch(s) \/ StartChange(s)
           \/ (\E k \in Keys : WriteEntry(s, k)) \/ ValidateServices(s) \/ Verify(s) \/ VerifyReplace(s)
    BY <1>5 DEF Step, CheckExists, LoadCheckpoint, DeleteCheckpoint, ReadOldConfig, StrictSort, Sort
  <2>2. ~Snapshot(s) /\ ~OpenCheckpoint(s) /\ ~GeneratePatch(s) /\ ~(\E k \in Keys : WriteEntry(s, k))
        /\ ~ValidateServices(s)
    BY <1>2 DEF Snapshot, OpenCheckpoint, GeneratePatch, WriteEntry, ValidateServices
  <2>3. ~SaveCheckpoint(s)
    <3>1. ASSUME SaveCheckpoint(s) PROVE outcome'[s] = "ok"
      BY <3>1, After DEF SaveCheckpoint, Succeed
    <3> QED
      BY <1>2, <3>1
  <2>4. ~StartChange(s)
    <3>1. ASSUME StartChange(s) PROVE outcome' = outcome
      BY <3>1, ChangeApplies DEF StartChange
    <3> QED
      BY <1>2, <3>1
  <2>5. ~Verify(s)
    <3> SUFFICES ASSUME Verify(s) PROVE FALSE
      OBVIOUS
    <3>1. Visible(db) = Visible(job[s].target)
      BY TargetReached, VisibleAlike DEF Verify
    <3>2. Succeed(s) \/ UNCHANGED outcome
      BY <3>1 DEF Verify
    <3> QED
      BY <1>2, <3>2, After DEF Succeed
  <2>6. ~VerifyReplace(s)
    <3> SUFFICES ASSUME VerifyReplace(s) PROVE FALSE
      OBVIOUS
    <3>1. Visible(db) = Visible(job[s].goal)
      BY GoalReached, VisibleAlike DEF VerifyReplace
    <3>2. Succeed(s)
      BY <3>1 DEF VerifyReplace
    <3> QED
      BY <1>2, <3>2, After DEF Succeed
  <2> QED
    BY <2>1, <2>2, <2>3, <2>4, <2>5, <2>6
<1> QED
  BY <1>2, <1>3, <1>4, <1>5, Known DEF Labels, Checking, Idle

\* A step of the session.
LEMMA RecoveryStep ==
    ASSUME SoleAndSorted, JudgedByVisible, SoleInv, SoleInv', RecoveryInv, NEW s \in Sessions, Step(s)
    PROVE  RecoveryOf(job'[s], pc'[s], outcome'[s], db', files')
<1> DEFINE Stays == RecoveryOf(job'[s], pc'[s], outcome'[s], db', files')
<1>1. /\ JobInv(job[s], pc[s], outcome[s], db, files) /\ job[s] \in Jobs
      /\ pc[s] \in Checking /\ Op(s) \notin ApplyOps => Applies(job[s].patch, db)
  BY Known DEF RecoveryInv, RecoveryOf, Op
<1>2. CASE Raise(s)
  <2>1. outcome'[s] = "error" /\ pc'[s] = "idle" /\ UNCHANGED <<db, files, job>>
    BY <1>2, After DEF Raise
  <2>2. Refusable(job[s], files)
    BY <1>2, RaiseIsDue
  <2> QED
    BY <2>1, <2>2 DEF RecoveryOf, Checking
<1>3. ~Idle(s)
  BY DEF Step, CheckExists, LoadCheckpoint, DeleteCheckpoint, Snapshot, OpenCheckpoint, SaveCheckpoint,
         GeneratePatch, ReadOldConfig, StrictSort, Sort, StartChange, WriteEntry, ValidateServices, Verify,
         VerifyReplace, Idle
<1>4. outcome[s] = "running"
  BY <1>1, <1>3 DEF JobInv, OutcomeInv, Idle
<1>5. ASSUME UNCHANGED outcome, pc'[s] \notin Checking PROVE Stays
  BY <1>4, <1>5 DEF RecoveryOf
<1>6. ASSUME Succeed(s) PROVE Stays
  <2>1. outcome'[s] = "ok" /\ pc'[s] = "idle"
    BY <1>6, After DEF Succeed
  <2> QED
    BY <2>1 DEF RecoveryOf, Checking
<1>7. ASSUME UNCHANGED outcome, UNCHANGED db, job'[s].patch = job[s].patch, job'[s].cmd = job[s].cmd,
             pc[s] \in Checking
      PROVE  Stays
  BY <1>1, <1>4, <1>7 DEF RecoveryOf, Op
<1>8. CASE GeneratePatch(s)
  <2>1. UNCHANGED outcome /\ UNCHANGED db /\ job'[s] = [job[s] EXCEPT !.patch = Diff(db, job[s].goal)]
    BY <1>8, After DEF GeneratePatch
  <2>2. job'[s].patch = Diff(db, job[s].goal)
    BY <1>1, <2>1 DEF Jobs
  <2>3. Applies(job'[s].patch, db')
    BY <2>1, <2>2, DiffLeads, Known
  <2> QED
    BY <1>4, <2>1, <2>3 DEF RecoveryOf
<1>9. CASE ReadOldConfig(s) /\ ~Raise(s)
  <2> DEFINE read == [job[s] EXCEPT !.target = Simulate(job[s].patch, db), !.current = db]
  <2>1. /\ pc[s] = "read" /\ UNCHANGED outcome /\ UNCHANGED db
        /\ \/ Goto(s, "change")
           \/ job' = [job EXCEPT ![s] = read]
    BY <1>9 DEF ReadOldConfig
  <2>2. read.patch = job[s].patch /\ read.cmd = job[s].cmd
    BY <1>1 DEF Jobs
  <2> HIDE DEF read
  <2>3. CASE Goto(s, "change")
    BY <1>5, <2>1, <2>3, After DEF Checking
  <2>4. CASE job' = [job EXCEPT ![s] = read]
    <3>1. job'[s] = read
      BY <2>4, After
    <3> QED
      BY <1>7, <2>1, <2>2, <3>1 DEF Checking
  <2> QED
    BY <2>1, <2>3, <2>4
<1>10. CASE StrictSort(s) /\ ~Raise(s)
  BY <1>7, <1>10 DEF StrictSort, Checking
<1>11. CASE CheckExists(s) /\ ~Raise(s)
  <2>1. UNCHANGED outcome /\ (Goto(s, "load") \/ Goto(s, "unlink"))
    BY <1>11 DEF CheckExists
  <2> QED
    BY <1>5, <2>1, After DEF Checking
<1>12. CASE LoadCheckpoint(s) /\ ~Raise(s)
  BY <1>5, <1>12, After DEF LoadCheckpoint, Checking
<1>13. CASE Snapshot(s)
  BY <1>5, <1>13, After DEF Snapshot, Checking
<1>14. CASE OpenCheckpoint(s)
  BY <1>5, <1>14, After DEF OpenCheckpoint, Checking
<1>15. CASE Sort(s) /\ ~Raise(s)
  BY <1>5, <1>15, After DEF Sort, Checking
<1>16. CASE StartChange(s) /\ ~Raise(s)
  BY <1>5, <1>16, After DEF StartChange, Checking
<1>17. ASSUME NEW k \in Keys, WriteEntry(s, k) PROVE Stays
  BY <1>5, <1>17 DEF WriteEntry, Checking
<1>18. CASE ValidateServices(s)
  BY <1>5, <1>18, After DEF ValidateServices, Checking
<1>19. CASE Verify(s) /\ ~Raise(s)
  <2>1. Succeed(s) \/ (UNCHANGED outcome /\ Goto(s, "verify"))
    BY <1>19 DEF Verify
  <2> QED
    BY <1>5, <1>6, <2>1, After DEF Checking
<1>20. (DeleteCheckpoint(s) \/ SaveCheckpoint(s) \/ VerifyReplace(s)) /\ ~Raise(s) => Stays
  BY <1>6 DEF DeleteCheckpoint, SaveCheckpoint, VerifyReplace
<1> QED
  BY <1>2, <1>8, <1>9, <1>10, <1>11, <1>12, <1>13, <1>14, <1>15, <1>16, <1>17, <1>18, <1>19, <1>20 DEF Step

\* Any step.
LEMMA RecoveryInvStep ==
    ASSUME SoleAndSorted, JudgedByVisible, SoleInv, SoleInv', RecoveryInv, [Next]_vars, [DaemonsKeepFields]_vars
    PROVE  RecoveryInv'
<1> SUFFICES ASSUME NEW s \in Sessions PROVE RecoveryOf(job'[s], pc'[s], outcome'[s], db', files')
  BY DEF RecoveryInv
<1>1. RecoveryOf(job[s], pc[s], outcome[s], db, files) /\ \A r \in Sessions : r = s
  BY DEF RecoveryInv, SoleAndSorted, SoleSession
<1>2. CASE UNCHANGED vars
  BY <1>1, <1>2 DEF vars
<1>3. CASE Step(s)
  BY <1>3, RecoveryStep
<1>4. CASE Kill(s)
  <2>1. outcome'[s] = "killed" /\ pc'[s] = "idle"
    BY <1>4, After DEF Kill
  <2> QED
    BY <2>1 DEF RecoveryOf, Checking
<1>5. ASSUME NEW c \in Commands, Start(s, c)
      PROVE  RecoveryOf(job'[s], pc'[s], outcome'[s], db', files')
  <2>1. job'[s] = NewJob(c, job[s].planned) /\ pc'[s] = FirstStep(c)
    BY <1>5, After DEF Start
  <2>2. outcome'[s] = "running"
    <3>1. outcome \in [Sessions -> Outcomes]
      BY DEF SoleInv, SessionInv, TypeOK, Outcomes
    <3> QED
      BY <1>5, <3>1 DEF Start
  <2>3. job'[s].cmd = c
    BY <2>1 DEF NewJob
  <2>4. c.op \in ApplyOps \cup FileOps \cup {"replace"}
    BY DEF SoleAndSorted, WellFormed, CommandsWellFormed
  <2>5. FirstStep(c) \in Checking => c.op \in ApplyOps
    BY <2>4 DEF FirstStep, Checking, ApplyOps, FileOps
  <2> QED
    BY <2>1, <2>2, <2>3, <2>5 DEF RecoveryOf
<1>6. ASSUME NEW k \in BackendKeys, NEW e \in BackendEntries, BackendWrite(k, e), ~UNCHANGED vars
      PROVE  RecoveryOf(job'[s], pc'[s], outcome'[s], db', files')
  <2>1. UNCHANGED <<files, pc, outcome, job>> /\ db' = [db EXCEPT ![k] = e] /\ db \in Configs
    BY <1>6, Known DEF BackendWrite
  <2>2. ASSUME pc[s] \in Checking, job[s].cmd.op \notin ApplyOps PROVE Applies(job[s].patch, db')
    <3>1. \A f \in Fields : e[f] = Unset <=> db[k][f] = Unset
      BY <1>6, <2>2 DEF DaemonsKeepFields, Idle, Checking
    <3>2. SameFields(db, db')
      <4> SUFFICES ASSUME NEW i \in Keys, NEW f \in Fields PROVE db[i][f] = Unset <=> db'[i][f] = Unset
        BY DEF SameFields
      <4>1. CASE i = k
        BY <2>1, <3>1, <4>1 DEF Configs
      <4>2. CASE i # k
        BY <2>1, <4>2 DEF Configs
      <4> QED
        BY <4>1, <4>2
    <3>3. Applies(job[s].patch, db) /\ job[s].patch \in SUBSET Edits
      BY <1>1, <2>2, Known DEF RecoveryOf
    <3> QED
      BY <3>2, <3>3, AppliesAlike
  <2> QED
    BY <1>1, <2>1, <2>2 DEF RecoveryOf
<1> QED
  BY <1>1, <1>2, <1>3, <1>4, <1>5, <1>6 DEF Next, AllDone

(* Whatever a killed command of a sole session left behind, replace and        *)
(* rollback fail only when the configuration asked for is not acceptable or    *)
(* the checkpoint file is not there or not whole: the changes apply, and both  *)
(* comparisons succeed, from any configuration.                                *)
THEOREM SoleSessionRecovers ==
    ASSUME SoleAndSorted, JudgedByVisible
    PROVE  Spec /\ [][DaemonsKeepFields]_vars => []RecoveryAlwaysWorks
<1>1. Init => RecoveryInv
  BY DEF Init, RecoveryInv, RecoveryOf, Checking
<1>2. SoleInv /\ SoleInv' /\ RecoveryInv /\ [Next]_vars /\ [DaemonsKeepFields]_vars => RecoveryInv'
  BY RecoveryInvStep
<1>3. RecoveryInv => RecoveryAlwaysWorks
  BY DEF RecoveryInv, RecoveryOf, Refusable, RecoveryAlwaysWorks, Op, Name
<1> QED
  BY <1>1, <1>2, <1>3, SoleInvariant, PTL DEF Spec
=============================================================================
