------------------------- MODULE RunningSwitchProofs -------------------------
(* Proofs about the commands that have a protocol of their own on a switch  *)
(* that runs: the lock around config reload and load_minigraph, the         *)
(* breakout of a port, the questions to the cables, and the reload itself.  *)
EXTENDS Flock, PortBreakout, MuxCable, ConfigReload, SequenceTheorems, FiniteSetTheorems, TLAPS

(***************************************************************************)
(* The lock.  Mutual exclusion and the record of try_lock, for any number  *)
(* of calls, timeouts and bypasses.  Who is between the flock and its      *)
(* release is exactly who has the lock (HoldersHaveLock), which is         *)
(* inductive; that no one else writes the record while a function runs     *)
(* follows from it.                                                        *)
(***************************************************************************)
\* A call that bypasses the lock never touches it.
BypassStaysOut == \A p \in Bypass : pc[p] \in {"new", "run", "done"}

\* The kernel's owner is the call that behaves as if it were.
HoldersHaveLock == \A p \in Processes : Holds(p) <=> lock = p

\* After its own truncate, the record of an owner is empty until it writes it.
RecordIsClean ==
    \A p \in Processes :
        /\ pc[p] = "cleared" => record = Nobody
        /\ pc[p] = "run" /\ p \notin Bypass => record \in {p, Nobody}

LockInv == TypeOK /\ BypassStaysOut /\ HoldersHaveLock /\ RecordIsClean

\* Initially nobody has called.
LEMMA LockInvInit == Init => LockInv
  BY ProcessesAssumption
  DEF Init, LockInv, TypeOK, Labels, BypassStaysOut, HoldersHaveLock, RecordIsClean, Holds

\* Types, step by step.
LEMMA TypeStep == TypeOK /\ [Next]_vars => TypeOK'
<1> SUFFICES ASSUME TypeOK, [Next]_vars PROVE TypeOK'
  OBVIOUS
<1> USE ProcessesAssumption DEF TypeOK, Labels, Goto
<1>1. ASSUME NEW p \in Processes, Call(p) PROVE TypeOK'
  BY <1>1 DEF Call
<1>2. ASSUME NEW p \in Processes, Acquire(p) PROVE TypeOK'
  BY <1>2 DEF Acquire
<1>3. ASSUME NEW p \in Processes, AttemptFails(p) PROVE TypeOK'
  <2>1. ASSUME NEW now \in waited[p]..Timeout[p] PROVE now + 1 \in Nat
    <3>1. waited[p] \in Nat /\ Timeout[p] \in Int
      OBVIOUS
    <3> QED
      BY <2>1, <3>1
  <2> QED
    BY <1>3, <2>1 DEF AttemptFails
<1>4. ASSUME NEW p \in Processes, ClearRecord(p) PROVE TypeOK'
  BY <1>4 DEF ClearRecord
<1>5. ASSUME NEW p \in Processes, WriteRecord(p) PROVE TypeOK'
  BY <1>5 DEF WriteRecord
<1>6. ASSUME NEW p \in Processes, Return(p) PROVE TypeOK'
  BY <1>6 DEF Return
<1>7. ASSUME NEW p \in Processes, Release(p) PROVE TypeOK'
  BY <1>7 DEF Release
<1>8. ASSUME NEW p \in Processes, TruncateRecord(p) PROVE TypeOK'
  BY <1>8 DEF TruncateRecord
<1>9. ASSUME NEW p \in Processes, ReadOwner(p) PROVE TypeOK'
  BY <1>9 DEF ReadOwner
<1>10. ASSUME NEW p \in Processes, Kill(p) PROVE TypeOK'
  BY <1>10 DEF Kill
<1>11. CASE UNCHANGED vars
  BY <1>11 DEF vars
<1> QED
  BY <1>1, <1>2, <1>3, <1>4, <1>5, <1>6, <1>7, <1>8, <1>9, <1>10, <1>11 DEF Next, Step, AllDone

\* Every step keeps owner, holder and record in agreement.
LEMMA LockInvStep == LockInv /\ [Next]_vars => LockInv'
<1> SUFFICES ASSUME LockInv, [Next]_vars PROVE LockInv'
  OBVIOUS
<1>0. TypeOK /\ TypeOK'
  BY TypeStep DEF LockInv
<1>t. pc \in [Processes -> Labels] /\ lock \in Processes \cup {Nobody}
  BY <1>0 DEF TypeOK
<1> DEFINE Agreement == BypassStaysOut /\ HoldersHaveLock /\ RecordIsClean
<1> USE ProcessesAssumption, <1>t DEF LockInv, BypassStaysOut, HoldersHaveLock, RecordIsClean, Holds, Goto
<1>1. ASSUME NEW p \in Processes, Call(p) PROVE Agreement'
  BY <1>1 DEF Call
<1>2. ASSUME NEW p \in Processes, Acquire(p) PROVE Agreement'
  BY <1>2 DEF Acquire
<1>3. ASSUME NEW p \in Processes, AttemptFails(p) PROVE Agreement'
  BY <1>3 DEF AttemptFails
<1>4. ASSUME NEW p \in Processes, ClearRecord(p) PROVE Agreement'
  BY <1>4 DEF ClearRecord
<1>5. ASSUME NEW p \in Processes, WriteRecord(p) PROVE Agreement'
  BY <1>5 DEF WriteRecord
<1>6. ASSUME NEW p \in Processes, Return(p) PROVE Agreement'
  BY <1>6 DEF Return
<1>7. ASSUME NEW p \in Processes, Release(p) PROVE Agreement'
  BY <1>7 DEF Release
<1>8. ASSUME NEW p \in Processes, TruncateRecord(p) PROVE Agreement'
  BY <1>8 DEF TruncateRecord
<1>9. ASSUME NEW p \in Processes, ReadOwner(p) PROVE Agreement'
  BY <1>9 DEF ReadOwner
<1>10. ASSUME NEW p \in Processes, Kill(p) PROVE Agreement'
  BY <1>10 DEF Kill
<1>11. ASSUME UNCHANGED vars PROVE Agreement'
  BY <1>11 DEF vars
<1> QED
  BY <1>0, <1>1, <1>2, <1>3, <1>4, <1>5, <1>6, <1>7, <1>8, <1>9, <1>10, <1>11 DEF Next, Step, AllDone

\* The invariant holds throughout.
LEMMA LockInvariant == Spec => []LockInv
  BY LockInvInit, LockInvStep, PTL DEF Spec

\* Two holders would both be the kernel's owner.
THEOREM LockExcludes == Spec => []MutualExclusion
<1>1. LockInv => MutualExclusion
  BY DEF LockInv, HoldersHaveLock, MutualExclusion
<1> QED
  BY <1>1, LockInvariant, PTL

\* While a function runs under the lock its record is there or has been erased,
\* never someone else's.
THEOREM RecordNeverMisleads == Spec => []RecordNamesNobodyElse
<1>1. LockInv => RecordNamesNobodyElse
  BY DEF LockInv, RecordIsClean, RecordNamesNobodyElse
<1> QED
  BY <1>1, LockInvariant, PTL

(***************************************************************************)
(* The breakout.  It never asks for lanes that are still in use, for any   *)
(* set of modes, any division of the lanes and any length of the wait.     *)
(* The invariant is that ConfigDB and ASIC_DB hold ports of one mode at a  *)
(* time, which one depending on where the command stands: the recorded     *)
(* mode until the old ports are deleted, none while the command waits, the *)
(* new mode until that is recorded.  A command that ends half way leaves   *)
(* no port, and the next one is then refused.                              *)
(***************************************************************************)
Stages == {"idle", "shutdown", "delete", "verify", "add", "record"}
AllObjects == {PortObject(p, m) : p \in AllPorts, m \in BreakoutModes}
Objects(m) == {PortObject(p, m) : p \in ChildPorts[m]}

\* The command knows modes and ports.
BreakoutTypeOK ==
  /\ brkout \in BreakoutModes
  /\ DOMAIN ports \subseteq AllPorts
  /\ ports \in [DOMAIN ports -> [mode : BreakoutModes, up : BOOLEAN]]
  /\ deps \subseteq AllPorts /\ meddled \subseteq AllPorts
  /\ asic \subseteq AllObjects
  /\ cmd \in [pc : Stages, target : BreakoutModes \cup {""}, force : BOOLEAN, del : SUBSET AllPorts,
             delDeps : SUBSET AllPorts, addDeps : SUBSET AllPorts,
             oids : SUBSET AllObjects, tries : Nat]
  /\ cmd.pc # "idle" => cmd.target \in BreakoutModes
  /\ unrecorded \in BOOLEAN

\* All ports of ConfigDB and all objects of ASIC_DB are of mode m.
OfMode(m) ==
  /\ \A p \in DOMAIN ports : p \in ChildPorts[m] /\ ports[p].mode = m
  /\ asic \subseteq Objects(m)

\* Where each stage stands.  While the command waits, ASIC_DB holds old ports
\* only, and the identifiers it waits for are of that mode.
OneMode ==
  /\ cmd.pc = "idle" => DOMAIN ports = {} \/ OfMode(brkout)
  /\ cmd.pc \in {"shutdown", "delete"} => OfMode(brkout)
  /\ cmd.pc \in {"shutdown", "delete", "verify"} =>
       cmd.del = ChildPorts[brkout] /\ cmd.oids \subseteq Objects(brkout)
  /\ cmd.pc = "verify" => DOMAIN ports = {} /\ asic \subseteq Objects(brkout)
  /\ cmd.pc = "add" => DOMAIN ports = {} /\ asic = {}
  /\ cmd.pc = "record" => OfMode(cmd.target)

\* What refers to a port to be deleted is deleted with it, or was configured
\* while the command ran.
NoOrphans ==
  /\ deps \subseteq DOMAIN ports \cup meddled
  /\ cmd.pc \in {"shutdown", "delete"} => deps \cap cmd.del \subseteq cmd.delDeps \cup meddled
  /\ cmd.pc # "idle" => cmd.addDeps \subseteq ChildPorts[cmd.target]

BreakoutInv == BreakoutTypeOK /\ (~unrecorded => OneMode) /\ NoOrphans

---------------------------------------------------------------------------
LEMMA ChildrenArePorts == \A m \in BreakoutModes : ChildPorts[m] \subseteq AllPorts
  BY DEF AllPorts

LEMMA ObjectsOfMode ==
  ASSUME NEW m \in BreakoutModes
  PROVE  /\ Objects(m) \subseteq AllObjects
         /\ \A p \in ChildPorts[m] : PortObject(p, m) \in Objects(m)
  <1>1. ASSUME NEW p \in ChildPorts[m] PROVE PortObject(p, m) \in AllObjects /\ PortObject(p, m) \in Objects(m)
    BY ChildrenArePorts DEF AllObjects, Objects
  <1> QED
    BY <1>1 DEF Objects

LEMMA BreakoutInitial == BreakoutInit => BreakoutInv
  <1> SUFFICES ASSUME BreakoutInit PROVE BreakoutInv
    OBVIOUS
  <1>1. asic = Objects(brkout) /\ brkout \in BreakoutModes
    BY DEF BreakoutInit, Objects
  <1>2. BreakoutTypeOK
    BY <1>1, ObjectsOfMode, ChildrenArePorts DEF BreakoutTypeOK, Stages, BreakoutInit, NoBreakout
  <1>3. OneMode
    BY <1>1 DEF OneMode, OfMode, BreakoutInit, NoBreakout
  <1>4. NoOrphans
    BY DEF NoOrphans, BreakoutInit, NoBreakout
  <1> QED
    BY <1>2, <1>3, <1>4 DEF BreakoutInv

LEMMA BreakoutStep == BreakoutInv /\ [BreakoutNext]_breakoutVars => BreakoutInv'
  <1> SUFFICES ASSUME BreakoutInv, [BreakoutNext]_breakoutVars PROVE BreakoutInv'
    OBVIOUS
  <1> USE DEF BreakoutInv
  <1>1. ASSUME NEW m \in BreakoutModes, NEW force \in BOOLEAN, NEW given \in BOOLEAN, breakout(m, force, given)
        PROVE  BreakoutInv'
    <2>0. ChildPorts[brkout] \subseteq AllPorts /\ ChildPorts[m] \subseteq AllPorts /\ ChildPorts[brkout] # {}
      BY ChildrenArePorts, BreakoutAssumption DEF BreakoutTypeOK
    <2>1. BreakoutTypeOK'
      BY <1>1, <2>0 DEF BreakoutTypeOK, Stages, breakout
    <2>2. ASSUME ~unrecorded' PROVE OneMode'
      <3>1. ChildPorts[brkout] \subseteq DOMAIN ports /\ ~unrecorded /\ cmd.pc = "idle"
        BY <1>1, <2>2 DEF breakout
      <3>2. OfMode(brkout)
        BY <2>0, <3>1 DEF OneMode
      <3>3. /\ cmd'.pc = "shutdown" /\ cmd'.del = ChildPorts[brkout] /\ cmd'.oids \subseteq asic
            /\ UNCHANGED <<ports, brkout, asic>>
        BY <1>1 DEF breakout
      <3> QED
        BY <3>2, <3>3 DEF OneMode, OfMode
    <2>3. NoOrphans'
      BY <1>1 DEF NoOrphans, breakout
    <2> QED
      BY <2>1, <2>2, <2>3
  <1>2. ASSUME _shutdownIntf PROVE BreakoutInv'
    <2> USE <1>2 DEF _shutdownIntf
    <2>1. BreakoutTypeOK'
      BY DEF BreakoutTypeOK, Stages
    <2>2. ASSUME ~unrecorded PROVE OneMode'
      <3>1. OfMode(brkout) /\ cmd.del = ChildPorts[brkout] /\ cmd.oids \subseteq Objects(brkout)
        BY <2>2 DEF OneMode
      <3>2. /\ cmd'.pc = "delete" /\ cmd'.del = cmd.del /\ cmd'.oids = cmd.oids
            /\ DOMAIN ports' = DOMAIN ports /\ \A p \in DOMAIN ports : ports'[p].mode = ports[p].mode
        BY DEF BreakoutTypeOK
      <3> QED
        BY <3>1, <3>2 DEF OneMode, OfMode
    <2>3. NoOrphans'
      BY DEF NoOrphans, BreakoutTypeOK
    <2> QED
      BY <2>1, <2>2, <2>3
  <1>3. ASSUME WriteDel PROVE BreakoutInv'
    <2> USE <1>3 DEF WriteDel
    <2>1. BreakoutTypeOK'
      BY DEF BreakoutTypeOK, Stages
    <2>2. OneMode' \/ unrecorded'
      BY DEF OneMode, OfMode, BreakoutTypeOK
    <2>3. NoOrphans'
      BY DEF NoOrphans, BreakoutTypeOK
    <2> QED
      BY <2>1, <2>2, <2>3
  <1>4. ASSUME _verifyAsicDB PROVE BreakoutInv'
    <2>0. /\ cmd.pc = "verify" /\ UNCHANGED <<ports, deps, brkout, asic, meddled, unrecorded>>
          /\ \/ cmd' = [cmd EXCEPT !.pc = "add"] /\ _checkNoPortsInAsicDb
             \/ cmd' = [cmd EXCEPT !.tries = @ + 1]
             \/ cmd' = NoBreakout
      BY <1>4 DEF _verifyAsicDB
    <2>1. ASSUME ~unrecorded, _checkNoPortsInAsicDb PROVE asic = {}
      <3>1. cmd.oids \subseteq Objects(brkout) /\ asic \subseteq Objects(brkout) /\ cmd.del = ChildPorts[brkout]
        BY <2>0, <2>1 DEF OneMode
      <3>2. SUFFICES ASSUME NEW o \in asic PROVE FALSE
        OBVIOUS
      <3>3. PICK p \in cmd.del : o = PortObject(p, brkout)
        BY <3>1 DEF Objects
      <3>4. PICK x \in cmd.oids : x.port = p
        BY <2>1 DEF _checkNoPortsInAsicDb
      <3>5. PICK q \in ChildPorts[brkout] : x = PortObject(q, brkout)
        BY <3>1 DEF Objects
      <3>6. q = p
        BY <3>4, <3>5 DEF PortObject
      <3> QED
        BY <2>1, <3>3, <3>5, <3>6 DEF _checkNoPortsInAsicDb
    <2>2. CASE cmd' = [cmd EXCEPT !.pc = "add"] /\ _checkNoPortsInAsicDb
      <3>1. BreakoutTypeOK'
        BY <2>0, <2>2 DEF BreakoutTypeOK, Stages
      <3>2. ASSUME ~unrecorded PROVE OneMode'
        BY <2>0, <2>1, <2>2, <3>2 DEF OneMode, BreakoutTypeOK
      <3>3. NoOrphans'
        BY <2>0, <2>2 DEF NoOrphans, BreakoutTypeOK
      <3> QED
        BY <2>0, <3>1, <3>2, <3>3
    <2>3. CASE cmd' = [cmd EXCEPT !.tries = @ + 1]
      <3>1. BreakoutTypeOK'
        <4> DEFINE n == cmd.tries + 1
        <4>1. cmd.tries \in Nat
          BY DEF BreakoutTypeOK
        <4>2. n \in Nat
          BY <4>1
        <4>3. cmd' = [cmd EXCEPT !.tries = n]
          BY <2>3
        <4> HIDE DEF n
        <4> QED
          BY <2>0, <4>2, <4>3 DEF BreakoutTypeOK
      <3>2. ASSUME ~unrecorded PROVE OneMode'
        BY <2>0, <2>3, <3>2 DEF OneMode, BreakoutTypeOK
      <3>3. NoOrphans'
        BY <2>0, <2>3 DEF NoOrphans, BreakoutTypeOK
      <3> QED
        BY <2>0, <3>1, <3>2, <3>3
    <2>4. CASE cmd' = NoBreakout
      BY <2>0, <2>4 DEF BreakoutTypeOK, Stages, NoBreakout, OneMode, NoOrphans
    <2> QED
      BY <2>0, <2>2, <2>3, <2>4
  <1>5. ASSUME WriteAdd PROVE BreakoutInv'
    <2> USE <1>5 DEF WriteAdd
    <2>1. BreakoutTypeOK'
      BY ChildrenArePorts DEF BreakoutTypeOK, Stages
    <2>2. OneMode' \/ unrecorded'
      BY DEF OneMode, OfMode, BreakoutTypeOK
    <2>3. NoOrphans'
      BY DEF NoOrphans, BreakoutTypeOK
    <2> QED
      BY <2>1, <2>2, <2>3
  <1>6. ASSUME RecordMode PROVE BreakoutInv'
    BY <1>6 DEF RecordMode, NoBreakout, BreakoutTypeOK, OneMode, OfMode, NoOrphans, Stages
  <1>7. ASSUME Killed PROVE BreakoutInv'
    BY <1>7 DEF Killed, NoBreakout, BreakoutTypeOK, OneMode, OfMode, NoOrphans, Stages
  <1>8. ASSUME NEW o \in asic, OrchRemove(o) PROVE BreakoutInv'
    BY <1>8 DEF OrchRemove, BreakoutTypeOK, OneMode, OfMode, NoOrphans
  <1>9. ASSUME NEW p \in AllPorts, OrchCreate(p) PROVE BreakoutInv'
    <2>0. /\ p \in DOMAIN ports /\ asic' = asic \cup {PortObject(p, ports[p].mode)}
          /\ UNCHANGED <<ports, deps, brkout, cmd, meddled, unrecorded>>
      BY <1>9 DEF OrchCreate
    <2>1. ports[p].mode \in BreakoutModes
      BY <2>0 DEF BreakoutTypeOK
    <2>2. PortObject(p, ports[p].mode) \in AllObjects
      BY <2>1 DEF AllObjects
    <2>3. BreakoutTypeOK'
      BY <2>0, <2>2 DEF BreakoutTypeOK
    <2>4. ASSUME NEW m \in BreakoutModes, OfMode(m) PROVE OfMode(m)'
      BY <2>0, <2>4, ObjectsOfMode DEF OfMode
    <2>5. ASSUME ~unrecorded PROVE OneMode'
      BY <2>0, <2>4, <2>5 DEF OneMode, BreakoutTypeOK
    <2>6. NoOrphans'
      BY <2>0 DEF NoOrphans
    <2> QED
      BY <2>0, <2>3, <2>5, <2>6
  <1>10. ASSUME NEW p \in AllPorts, Attach(p) PROVE BreakoutInv'
    BY <1>10 DEF Attach, BreakoutTypeOK, OneMode, OfMode, NoOrphans
  <1>11. ASSUME NEW p \in AllPorts, Detach(p) PROVE BreakoutInv'
    BY <1>11 DEF Detach, BreakoutTypeOK, OneMode, OfMode, NoOrphans
  <1>12. ASSUME UNCHANGED breakoutVars PROVE BreakoutInv'
    BY <1>12 DEF breakoutVars, BreakoutTypeOK, OneMode, OfMode, NoOrphans
  <1> QED
    BY <1>1, <1>2, <1>3, <1>4, <1>5, <1>6, <1>7, <1>8, <1>9, <1>10, <1>11, <1>12 DEF BreakoutNext

\* Ports of one mode share no lanes.
LEMMA OneModeIsEnough == BreakoutInv => LanesNeverShared
  <1> SUFFICES ASSUME BreakoutInv PROVE LanesNeverShared
    OBVIOUS
  <1>1. ASSUME ~unrecorded, NEW p \in DOMAIN ports, NEW o \in asic
        PROVE  o = PortObject(p, ports[p].mode) \/ LanesOf[ports[p].mode][p] \cap LanesOf[o.mode][o.port] = {}
    <2>1. PICK m \in BreakoutModes : OfMode(m)
      BY <1>1 DEF BreakoutInv, OneMode, BreakoutTypeOK, Stages
    <2>2. PICK q \in ChildPorts[m] : o = PortObject(q, m)
      BY <1>1, <2>1 DEF OfMode, Objects
    <2>3. p \in ChildPorts[m] /\ ports[p].mode = m
      BY <1>1, <2>1 DEF OfMode
    <2> QED
      BY <2>2, <2>3, BreakoutAssumption DEF PortObject
  <1> QED
    BY <1>1 DEF LanesNeverShared, BreakoutInv, NoOrphans

\* No order of commands, kills, timeouts, orchagent's steps and other sessions
\* makes breakout ask for lanes that are in use or leave behind what refers to
\* a port it has deleted.
THEOREM BreakoutIsSafe == BreakoutSpec => []LanesNeverShared
  BY BreakoutInitial, BreakoutStep, OneModeIsEnough, PTL DEF BreakoutSpec

(***************************************************************************)
(* The cables.  What a command reports is its own answer, for any number   *)
(* of operators, ports and requests.  A request that is written or in work *)
(* and a response that is there is owed to somebody: to the command that   *)
(* waits for it, or to one that gave it up.  The numbers of the requests   *)
(* that are open are told apart and are not those of answers that were     *)
(* given, so that a command that has its answer leaves nothing behind.     *)
(***************************************************************************)
Channels ==
  {"", "CONFIG_PRBS", "CONFIG_LOOP", "CONFIG_HWMODE_DIR", "CONFIG_HWMODE_SWMODE", "ACTI_FW", "ROLL_FW",
   "DOWN_FW", "GET_BER", "GET_FEC", "EVENT_LOG", "SHOW_FW", "SHOW_HWMODE_SWMODE", "SHOW_HWMODE_DIR"}
Statuses == {"", "unknown", "True", "False"}
CableKeys == Channels \X STRING
Endings == [show : BOOLEAN, reads : {"never", "good", "always"}, cleans : BOOLEAN]
CableEvents == [port : STRING, deleted : BOOLEAN]
CableAnswers == [id : Nat, status : Statuses]
CableNews == [port : STRING, answer : CableAnswers]
CableStages == {"idle", "subscribe", "ask", "wait", "report", "reported"}
CableCommands ==
  [pc : CableStages, channel : Channels, todo : Seq(STRING), ending : Endings, id : Nat,
   events : Seq(CableEvents), batch : Seq(CableNews), status : Statuses, from : Nat, result : Nat,
   alone : BOOLEAN]
Asked(k, i) == [key |-> k, id |-> i]

CablesTypeOK ==
  /\ numRequests \in Nat
  /\ DOMAIN request \subseteq CableKeys /\ request = [k \in DOMAIN request |-> request[k]]
  /\ \A k \in DOMAIN request : request[k] \in [id : 1..numRequests, taken : BOOLEAN]
  /\ work \subseteq [key : CableKeys, id : 1..numRequests]
  /\ IsFiniteSet(DOMAIN rsp) /\ DOMAIN rsp \subseteq CableKeys /\ rsp = [k \in DOMAIN rsp |-> rsp[k]]
  /\ \A k \in DOMAIN rsp : rsp[k] \in CableAnswers /\ rsp[k].id \in 1..numRequests
  /\ DOMAIN res \subseteq CableKeys /\ \A k \in DOMAIN res : res[k] \in Nat
  /\ abandoned \subseteq [key : CableKeys, id : Nat]
  /\ cli = [s \in Operators |-> cli[s]]

\* A command: its type, that it goes through different ports, and the numbers it has read.
CommandOK(c, most) ==
  /\ c \in CableCommands /\ IsInjective(c.todo) /\ (c.pc # "idle" => c.todo # <<>>)
  /\ \A n \in 1..Len(c.batch) : c.batch[n].answer.id \in 0..most
  /\ c.pc \notin {"ask", "wait"} => c.batch = <<>>

\* The requests the daemon has still to answer.
Untaken(k) == k \in DOMAIN request /\ ~request[k].taken
IsOpen(k, i) == (Untaken(k) /\ request[k].id = i) \/ Asked(k, i) \in work
Waits(c, k, i) == c.pc = "wait" /\ <<c.channel, Head(c.todo)>> = k /\ c.id = i
WaitsFor(o, k, i) == Waits(cli[o], k, i)
Owed(k, i) == Asked(k, i) \in abandoned \/ \E o \in Operators : WaitsFor(o, k, i)

\* Open requests and responses are owed, open requests are told apart and not answered.
AllOwed ==
  /\ \A k \in CableKeys, i \in Nat : IsOpen(k, i) => Owed(k, i)
  /\ \A k \in DOMAIN rsp : Owed(k, rsp[k].id)
ToldApart ==
  /\ \A k \in DOMAIN request, w \in work : ~request[k].taken => w.id # request[k].id
  /\ \A j, k \in DOMAIN request : ~request[j].taken /\ ~request[k].taken /\ request[j].id = request[k].id => j = k
  /\ \A v, w \in work : v.id = w.id => v = w
NotAnswered(i) == \A k \in CableKeys : ~IsOpen(k, i)
BatchIds(c) == {c.batch[n].answer.id : n \in 1..Len(c.batch)}
AnswersAreOver ==
  /\ \A k \in DOMAIN rsp : NotAnswered(rsp[k].id)
  /\ \A s \in Operators : \A i \in BatchIds(cli[s]) : NotAnswered(i)

\* What c may report of port p: nothing, an answer that was given up, its own.
Due(c, p, i, A) ==
  \/ i = 0
  \/ Asked(<<c.channel, p>>, i) \in A
  \/ c.pc \in {"wait", "report", "reported"} /\ p = Head(c.todo) /\ i = c.id
Reports(c, A, R) ==
  c.alone /\ c.pc # "idle" =>
    /\ \A n \in 1..Len(c.batch) : Due(c, c.batch[n].port, c.batch[n].answer.id, A)
    /\ c.pc \in {"report", "reported"} => Due(c, Head(c.todo), c.from, A)
    /\ c.pc = "reported" => Due(c, Head(c.todo), c.result, A)
    /\ c.ending.reads # "never" =>
         \A n \in 1..Len(c.todo) :
           <<c.channel, c.todo[n]>> \in DOMAIN R => Due(c, c.todo[n], R[<<c.channel, c.todo[n]>>], A)
AloneOnChannel ==
  \A s, o \in Operators :
    s # o /\ cli[s].alone /\ cli[s].pc # "idle" /\ cli[o].pc # "idle" => cli[o].channel # cli[s].channel

CablesInv ==
  /\ CablesTypeOK /\ \A s \in Operators : CommandOK(cli[s], numRequests)
  /\ AllOwed /\ ToldApart /\ AnswersAreOver /\ AloneOnChannel
  /\ \A s \in Operators : Reports(cli[s], abandoned, res)

LEMMA NothingAtFirst ==
  /\ NoEntries = [k \in {} |-> NoEntries[k]] /\ DOMAIN NoEntries = {}
  /\ NoCommand \in CableCommands /\ CommandOK(NoCommand, 0)
<1>1. NoEntries = [k \in {} |-> NoEntries[k]] /\ DOMAIN NoEntries = {}
  BY DEF NoEntries
<1>2. Ending(FALSE, "never", TRUE) \in Endings
  BY DEF Ending, Endings
<1>3. NoCommand \in CableCommands
  BY <1>2, EmptySeq DEF NoCommand, CableCommands, CableStages, Channels, Statuses
<1>4. CommandOK(NoCommand, 0)
  <2>1. NoCommand.pc = "idle" /\ NoCommand.todo = <<>> /\ NoCommand.batch = <<>>
    BY DEF NoCommand
  <2>2. IsInjective(<<>>) /\ Len(<<>>) = 0
    BY DEF IsInjective
  <2> QED
    BY <1>3, <2>1, <2>2 DEF CommandOK
<1> QED
  BY <1>1, <1>3, <1>4

LEMMA CablesInitial == MuxInit => CablesInv
<1> SUFFICES ASSUME MuxInit  PROVE CablesInv
  OBVIOUS
<1>1. CablesTypeOK
  BY NothingAtFirst, FS_EmptySet DEF MuxInit, CablesTypeOK
<1>2. \A s \in Operators : cli[s] = NoCommand /\ cli[s].pc = "idle" /\ cli[s].batch = <<>>
  BY DEF MuxInit, NoCommand
<1>3. AllOwed /\ ToldApart /\ AloneOnChannel /\ \A s \in Operators : Reports(cli[s], abandoned, res)
  BY <1>2, NothingAtFirst DEF MuxInit, AllOwed, ToldApart, AloneOnChannel, Reports, IsOpen, Untaken
<1>4. AnswersAreOver
  BY <1>2, NothingAtFirst, EmptySeq DEF MuxInit, AnswersAreOver, BatchIds
<1> QED
  BY <1>1, <1>2, <1>3, <1>4, NothingAtFirst DEF CablesInv, MuxInit

LEMMA OwnAnswerHolds == CablesInv => OwnAnswer
<1> SUFFICES ASSUME CablesInv, NEW s \in Operators, cli[s].pc = "reported", cli[s].alone
             PROVE  LET of == {0, cli[s].id} \cup {a.id : a \in {b \in abandoned : b.key = GivenRequest(s).key}}
                    IN  cli[s].from \in of /\ cli[s].result \in of
  BY DEF OwnAnswer
<1>1. /\ Due(cli[s], Head(cli[s].todo), cli[s].from, abandoned)
      /\ Due(cli[s], Head(cli[s].todo), cli[s].result, abandoned)
  BY DEF CablesInv, Reports
<1>2. ASSUME NEW i, Due(cli[s], Head(cli[s].todo), i, abandoned)
      PROVE  i \in {0, cli[s].id} \cup {a.id : a \in {b \in abandoned : b.key = GivenRequest(s).key}}
  <2>1. CASE Asked(<<cli[s].channel, Head(cli[s].todo)>>, i) \in abandoned
    BY <2>1 DEF Asked, GivenRequest, PortOf
  <2> QED
    BY <1>2, <2>1 DEF Due
<1> QED
  BY <1>1, <1>2

---------------------------------------------------------------------------
\* What is left of a table when keys are deleted.
Fewer(f, g) == DOMAIN g \subseteq DOMAIN f /\ g = [k \in DOMAIN g |-> f[k]]
LEMMA WithoutIsFewer ==
  ASSUME NEW f, NEW K
  PROVE  /\ Fewer(f, WithoutKeys(f, K)) /\ DOMAIN WithoutKeys(f, K) = DOMAIN f \ K
         /\ f = [k \in DOMAIN f |-> f[k]] => Fewer(f, f)
  BY DEF WithoutKeys, Fewer

LEMMA WithoutChannel ==
  ASSUME NEW f, NEW ch
  PROVE  Fewer(f, Without(f, ch)) /\ \A k \in DOMAIN Without(f, ch) : k[1] # ch
<1> DEFINE g == WithoutKeys(f, OfChannel(f, ch))
<1>1. Fewer(f, g) /\ DOMAIN g = DOMAIN f \ OfChannel(f, ch)
  BY WithoutIsFewer
<1>2. DOMAIN g = {k \in DOMAIN f : k[1] # ch}
  BY <1>1 DEF OfChannel
<1> QED
  BY <1>1, <1>2 DEF Without

LEMMA FewerTables ==
  ASSUME CablesTypeOK, numRequests' = numRequests, cli' = [o \in Operators |-> cli'[o]],
         request' = request \/ Fewer(request, request'), work' \subseteq work,
         rsp' = rsp \/ Fewer(rsp, rsp'), res' = res \/ Fewer(res, res'),
         abandoned' \subseteq [key : CableKeys, id : Nat]
  PROVE  CablesTypeOK'
<1>1. IsFiniteSet(DOMAIN rsp')
  BY FS_Subset DEF CablesTypeOK, Fewer
<1> QED
  BY <1>1 DEF CablesTypeOK, Fewer

---------------------------------------------------------------------------
\* What subscribers are told.
LEMMA ListedOnce ==
  ASSUME NEW K, IsFiniteSet(K)
  PROVE  SetToSeq(K) \in [1..Cardinality(K) -> K] /\ Cardinality(K) \in Nat
<1>1. Cardinality(K) \in Nat /\ ExistsBijection(1..Cardinality(K), K)
  BY FS_CardinalityType
<1>2. PICK f \in [1..Cardinality(K) -> K] : IsInjective(f)
  BY <1>1 DEF ExistsBijection, Bijection, Injection, Surjection, IsInjective
<1> QED
  BY <1>1, <1>2 DEF SetToSeq

LEMMA DeletionsAreEvents ==
  ASSUME NEW K \in SUBSET CableKeys, IsFiniteSet(K)
  PROVE  Deletions(K) \in Seq(CableEvents)
<1>1. SetToSeq(K) \in Seq(K) /\ \A n \in 1..Len(SetToSeq(K)) : SetToSeq(K)[n] \in CableKeys
  BY ListedOnce
<1>2. \A n \in 1..Len(SetToSeq(K)) : [port |-> SetToSeq(K)[n][2], deleted |-> TRUE] \in CableEvents
  BY <1>1 DEF CableKeys, CableEvents
<1> QED
  BY <1>1, <1>2 DEF Deletions

\* d is c, but for what it has heard, and perhaps no longer alone.
Follows(c, d) ==
  /\ d.pc = c.pc /\ d.channel = c.channel /\ d.todo = c.todo /\ d.ending = c.ending /\ d.id = c.id
  /\ d.batch = c.batch /\ d.status = c.status /\ d.from = c.from /\ d.result = c.result
  /\ d.alone => c.alone
Told(C, D) ==
  /\ D = [o \in Operators |-> D[o]]
  /\ \A o \in Operators : D[o] \in CableCommands /\ Follows(C[o], D[o]) /\ D[o].alone = C[o].alone

LEMMA SubscribersAreTold ==
  ASSUME NEW C, \A o \in Operators : C[o] \in CableCommands, NEW ch, NEW news \in Seq(CableEvents)
  PROVE  Told(C, Notify(C, ch, news))
<1> DEFINE D == Notify(C, ch, news)
<1>1. D = [o \in Operators |-> D[o]]
  BY DEF Notify
<1>2. ASSUME NEW o \in Operators
      PROVE  D[o] \in CableCommands /\ Follows(C[o], D[o]) /\ D[o].alone = C[o].alone
  <2>1. D[o] \in {C[o], [C[o] EXCEPT !.events = @ \o news]}
    BY DEF Notify
  <2>2. C[o].events \o news \in Seq(CableEvents)
    BY ConcatProperties DEF CableCommands
  <2>3. [C[o] EXCEPT !.events = C[o].events \o news] \in CableCommands
    BY <2>2 DEF CableCommands
  <2> QED
    BY <2>1, <2>3 DEF Follows, CableCommands
<1> HIDE DEF D
<1> QED
  BY <1>1, <1>2 DEF Told, D

LEMMA DeletionIsTold ==
  ASSUME CablesTypeOK, NEW C, \A o \in Operators : C[o] \in CableCommands, NEW ch
  PROVE  /\ Told(C, delete_all_keys_in_db_table(C, ch))
         /\ \A K \in SUBSET DOMAIN rsp : Told(C, Notify(C, ch, Deletions(K)))
         /\ Deletions(OfChannel(rsp, ch)) \in Seq(CableEvents)
<1>1. \A K \in SUBSET DOMAIN rsp : IsFiniteSet(K) /\ K \in SUBSET CableKeys
  BY FS_Subset DEF CablesTypeOK
<1>2. OfChannel(rsp, ch) \in SUBSET DOMAIN rsp
  BY DEF OfChannel
<1>3. \A K \in SUBSET DOMAIN rsp : Deletions(K) \in Seq(CableEvents)
  BY <1>1, DeletionsAreEvents
<1> QED
  BY <1>2, <1>3, SubscribersAreTold DEF delete_all_keys_in_db_table

---------------------------------------------------------------------------
(* Steps that write no request and give no answer: tables and work shrink, *)
(* more requests are given up, and every command stays as it should be.    *)
Less(f, g) == g = f \/ Fewer(f, g)
Shrinks ==
  /\ numRequests' = numRequests /\ cli' = [o \in Operators |-> cli'[o]]
  /\ Less(request, request') /\ work' \subseteq work /\ Less(rsp, rsp') /\ Less(res, res')
  /\ abandoned \subseteq abandoned' /\ abandoned' \subseteq [key : CableKeys, id : Nat]
IsOver(k, i) == ~IsOpen(k, i) /\ ~(k \in DOMAIN rsp /\ rsp[k].id = i)
\* The command of o may become d.
Steady(o, d) ==
  /\ CommandOK(d, numRequests) /\ Reports(d, abandoned', res')
  /\ \A k \in CableKeys, i \in Nat :
       WaitsFor(o, k, i) => Waits(d, k, i) \/ Asked(k, i) \in abandoned' \/ IsOver(k, i)'
  /\ \A i \in BatchIds(d) : NotAnswered(i)'

LEMMA LessHas ==
  ASSUME NEW f, NEW g, Less(f, g)
  PROVE  DOMAIN g \subseteq DOMAIN f /\ \A k \in DOMAIN g : g[k] = f[k]
  BY DEF Less, Fewer

LEMMA ShrinkingKeepsTypes == CablesTypeOK /\ Shrinks => CablesTypeOK'
  BY FewerTables DEF Shrinks, Less

LEMMA NoneOpens ==
  ASSUME Shrinks
  PROVE  /\ \A k, i : IsOpen(k, i)' => IsOpen(k, i)
         /\ \A i : NotAnswered(i) => NotAnswered(i)'
         /\ \A k, i : IsOver(k, i) => IsOver(k, i)'
<1>1. /\ DOMAIN request' \subseteq DOMAIN request /\ \A k \in DOMAIN request' : request'[k] = request[k]
      /\ DOMAIN rsp' \subseteq DOMAIN rsp /\ \A k \in DOMAIN rsp' : rsp'[k] = rsp[k]
  BY LessHas DEF Shrinks
<1>2. \A k, i : IsOpen(k, i)' => IsOpen(k, i)
  BY <1>1 DEF Shrinks, IsOpen, Untaken
<1> QED
  BY <1>1, <1>2 DEF NotAnswered, IsOver

LEMMA QuietStep ==
  ASSUME CablesInv, Shrinks, AloneOnChannel', \A o \in Operators : Steady(o, cli'[o])
  PROVE  CablesInv'
<1>1. CablesTypeOK'
  BY ShrinkingKeepsTypes DEF CablesInv
<1>2. /\ DOMAIN request' \subseteq DOMAIN request /\ \A k \in DOMAIN request' : request'[k] = request[k]
      /\ DOMAIN rsp' \subseteq DOMAIN rsp /\ \A k \in DOMAIN rsp' : rsp'[k] = rsp[k]
  BY LessHas DEF Shrinks
<1>3. /\ \A k, i : IsOpen(k, i)' => IsOpen(k, i)
      /\ \A i : NotAnswered(i) => NotAnswered(i)'
  BY NoneOpens
<1>4. ASSUME NEW k \in CableKeys, NEW i \in Nat, Owed(k, i), ~IsOver(k, i)'  PROVE Owed(k, i)'
  <2>1. CASE Asked(k, i) \in abandoned
    BY <2>1 DEF Shrinks, Owed, Asked
  <2>2. CASE \E o \in Operators : WaitsFor(o, k, i)
    <3>1. PICK o \in Operators : WaitsFor(o, k, i)
      BY <2>2
    <3>2. Waits(cli'[o], k, i) \/ Asked(k, i) \in abandoned'
      BY <3>1, <1>4 DEF Steady
    <3> QED
      BY <3>2 DEF Owed, WaitsFor, Waits, Asked
  <2> QED
    BY <1>4, <2>1, <2>2 DEF Owed
<1>5. AllOwed'
  <2>1. ASSUME NEW k \in CableKeys, NEW i \in Nat, IsOpen(k, i)'  PROVE Owed(k, i)'
    BY <2>1, <1>3, <1>4 DEF CablesInv, AllOwed, IsOver
  <2>2. ASSUME NEW k \in DOMAIN rsp'  PROVE Owed(k, rsp[k].id)'
    <3>1. k \in CableKeys /\ rsp'[k].id \in Nat /\ rsp'[k] = rsp[k] /\ k \in DOMAIN rsp
      BY <1>1, <1>2 DEF CablesTypeOK, CableAnswers
    <3>2. Owed(k, rsp[k].id)
      BY <3>1 DEF CablesInv, AllOwed
    <3>3. PICK i \in Nat : i = rsp'[k].id /\ i = rsp[k].id
      BY <3>1
    <3>4. Owed(k, i) /\ ~IsOver(k, i)'
      BY <3>1, <3>2, <3>3 DEF IsOver
    <3>5. Owed(k, i)'
      BY <1>4, <3>1, <3>4
    <3> QED
      BY <3>3, <3>5 DEF Owed, WaitsFor
  <2> QED
    BY <2>1, <2>2 DEF AllOwed
<1>6. ToldApart'
  BY <1>2 DEF CablesInv, ToldApart, Shrinks
<1>7. AnswersAreOver'
  <2>1. ASSUME NEW k \in DOMAIN rsp'  PROVE NotAnswered(rsp[k].id)'
    <3>1. PICK i : i = rsp'[k].id /\ i = rsp[k].id /\ NotAnswered(i)
      BY <1>2 DEF CablesInv, AnswersAreOver
    <3> QED
      BY <1>3, <3>1 DEF NotAnswered
  <2>2. \A s \in Operators : \A i \in BatchIds(cli'[s]) : NotAnswered(i)'
    BY DEF Steady
  <2> QED
    BY <2>1, <2>2 DEF AnswersAreOver, BatchIds
<1>8. \A s \in Operators : CommandOK(cli'[s], numRequests') /\ Reports(cli'[s], abandoned', res')
  BY DEF Steady, Shrinks
<1> QED
  BY <1>1, <1>5, <1>6, <1>7, <1>8 DEF CablesInv

\* Who only listens stays as it should be.
LEMMA ListenersAreSteady ==
  ASSUME Shrinks, NEW o \in Operators, NEW c, Steady(o, c), NEW d \in CableCommands, Follows(c, d)
  PROVE  Steady(o, d)
<1>1. CommandOK(d, numRequests)
  BY DEF Steady, CommandOK, Follows
<1>2. Reports(d, abandoned', res')
  <2>1. Reports(c, abandoned', res')
    BY DEF Steady
  <2> QED
    BY <2>1 DEF Follows, Reports, Due
<1>3. BatchIds(d) = BatchIds(c) /\ \A k, i : Waits(c, k, i) <=> Waits(d, k, i)
  BY DEF Follows, BatchIds, Waits
<1> QED
  BY <1>1, <1>2, <1>3 DEF Steady

LEMMA OthersAreSteady ==
  ASSUME CablesInv, Shrinks, NEW o \in Operators
  PROVE  Steady(o, cli[o])
<1>1. CommandOK(cli[o], numRequests) /\ Reports(cli[o], abandoned, res)
  BY DEF CablesInv
<1>2. \A c, p, i : Due(c, p, i, abandoned) => Due(c, p, i, abandoned')
  BY DEF Due, Shrinks
<1>3. Reports(cli[o], abandoned', res')
  <2>1. DOMAIN res' \subseteq DOMAIN res /\ \A k \in DOMAIN res' : res'[k] = res[k]
    BY LessHas DEF Shrinks
  <2> QED
    BY <1>1, <1>2, <2>1 DEF Reports
<1>4. \A i \in BatchIds(cli[o]) : NotAnswered(i)'
  BY NoneOpens DEF CablesInv, AnswersAreOver
<1> QED
  BY <1>1, <1>3, <1>4 DEF Steady, WaitsFor

\* s takes a step, the others listen.
Onward(c, d) == d.pc = "idle" \/ (c.pc # "idle" /\ d.channel = c.channel /\ (d.alone => c.alone))
LEMMA OneMoves ==
  ASSUME CablesInv, Shrinks, NEW s \in Operators, Steady(s, cli'[s]), Onward(cli[s], cli'[s]),
         \A o \in Operators \ {s} : cli'[o] \in CableCommands /\ Follows(cli[o], cli'[o])
  PROVE  CablesInv'
<1>1. \A o \in Operators : Steady(o, cli'[o])
  BY ListenersAreSteady, OthersAreSteady
<1>2. \A o \in Operators : Onward(cli[o], cli'[o])
  BY DEF Follows, Onward
<1>3. AloneOnChannel'
  BY <1>2 DEF CablesInv, AloneOnChannel, Onward
<1> QED
  BY <1>1, <1>3, QuietStep

LEMMA AllListen ==
  ASSUME CablesInv, Shrinks, \A o \in Operators : cli'[o] \in CableCommands /\ Follows(cli[o], cli'[o])
  PROVE  CablesInv'
<1>1. \A o \in Operators : Steady(o, cli'[o])
  BY ListenersAreSteady, OthersAreSteady
<1>2. \A o \in Operators : Onward(cli[o], cli'[o])
  BY DEF Follows, Onward
<1>3. AloneOnChannel'
  BY <1>2 DEF CablesInv, AloneOnChannel, Onward
<1> QED
  BY <1>1, <1>3, QuietStep

\* The tables a command may leave behind.
LEMMA TablesShrink ==
  ASSUME CablesTypeOK, NEW ch
  PROVE  /\ Less(request, request) /\ Less(rsp, rsp) /\ Less(res, res)
         /\ Less(request, Without(request, ch)) /\ Less(rsp, Without(rsp, ch)) /\ Less(res, Without(res, ch))
         /\ \A K : Less(rsp, WithoutKeys(rsp, K))
         /\ \A k \in DOMAIN Without(rsp, ch) : k[1] # ch
         /\ \A k \in DOMAIN Without(res, ch) : k[1] # ch
  BY WithoutChannel, WithoutIsFewer DEF Less

\* Everyone hears of deletions.
LEMMA EveryoneIsTold ==
  ASSUME CablesInv, NEW ch
  PROVE  /\ Told(cli, delete_all_keys_in_db_table(cli, ch))
         /\ Told(cli, cli)
         /\ Deletions(OfChannel(rsp, ch)) \in Seq(CableEvents)
<1>1. CablesTypeOK /\ \A o \in Operators : cli[o] \in CableCommands
  BY DEF CablesInv, CommandOK
<1>2. Told(cli, cli)
  BY <1>1 DEF CablesTypeOK, Told, Follows
<1> QED
  BY <1>1, <1>2, DeletionIsTold

---------------------------------------------------------------------------
\* Nobody but the command itself waits on the channel of one that is alone.
LEMMA OnlyOneWaits ==
  ASSUME CablesInv, NEW s \in Operators, cli[s].alone, cli[s].pc # "idle",
         NEW p, NEW i, Owed(<<cli[s].channel, p>>, i)
  PROVE  Due(cli[s], p, i, abandoned)
<1>1. CASE Asked(<<cli[s].channel, p>>, i) \in abandoned
  BY <1>1 DEF Due
<1>2. CASE \E o \in Operators : WaitsFor(o, <<cli[s].channel, p>>, i)
  <2>1. PICK o \in Operators : WaitsFor(o, <<cli[s].channel, p>>, i)
    BY <1>2
  <2>2. cli[o].pc = "wait" /\ cli[o].channel = cli[s].channel /\ Head(cli[o].todo) = p /\ cli[o].id = i
    BY <2>1 DEF WaitsFor, Waits
  <2>3. o = s
    BY <2>2 DEF CablesInv, AloneOnChannel
  <2> QED
    BY <2>2, <2>3 DEF Due
<1> QED
  BY <1>1, <1>2 DEF Owed

\* The response of a port is due to the command that is alone, and is over.
LEMMA ResponseIsDue ==
  ASSUME CablesInv, NEW s \in Operators, NEW k \in DOMAIN rsp, k[1] = cli[s].channel
  PROVE  /\ rsp[k] \in CableAnswers /\ rsp[k].id \in 1..numRequests /\ NotAnswered(rsp[k].id)
         /\ k = <<cli[s].channel, k[2]>> /\ k[2] \in STRING
         /\ cli[s].alone /\ cli[s].pc # "idle" => Due(cli[s], k[2], rsp[k].id, abandoned)
<1>1. k \in CableKeys /\ rsp[k] \in CableAnswers /\ rsp[k].id \in 1..numRequests
  BY DEF CablesInv, CablesTypeOK
<1>2. k = <<cli[s].channel, k[2]>> /\ k[2] \in STRING
  BY <1>1 DEF CableKeys
<1>3. NotAnswered(rsp[k].id) /\ Owed(k, rsp[k].id)
  BY DEF CablesInv, AnswersAreOver, AllOwed
<1>4. PICK p, i : p = k[2] /\ i = rsp[k].id /\ k = <<cli[s].channel, p>> /\ Owed(<<cli[s].channel, p>>, i)
  BY <1>2, <1>3
<1>5. cli[s].alone /\ cli[s].pc # "idle" => Due(cli[s], p, i, abandoned)
  BY <1>4, OnlyOneWaits
<1> QED
  BY <1>1, <1>2, <1>3, <1>4, <1>5

---------------------------------------------------------------------------
(* The steps of the daemon and of the command line, one by one.            *)
LEMMA RestartIsSafe == ASSUME CablesInv, DaemonRestart PROVE CablesInv'
<1>1. Told(cli, cli)
  BY EveryoneIsTold
<1>2. Shrinks
  BY <1>1, TablesShrink DEF CablesInv, CablesTypeOK, DaemonRestart, Shrinks
<1> QED
  BY <1>1, <1>2, AllListen DEF DaemonRestart, Told

LEMMA DownloadAllIsSafe == ASSUME CablesInv, NEW s \in Operators, download_all(s) PROVE CablesInv'
<1>1. Told(cli, cli')
  BY EveryoneIsTold DEF download_all
<1>2. Shrinks
  BY <1>1, TablesShrink DEF CablesInv, CablesTypeOK, download_all, Shrinks, Told
<1> QED
  BY <1>1, <1>2, AllListen DEF Told

LEMMA VerdictIs ==
  ASSUME NEW c \in CableCommands, NEW a \in CableAnswers, NEW d, d = Verdict(c, a)
  PROVE  /\ d.pc = "report" /\ d.channel = c.channel /\ d.todo = c.todo /\ d.ending = c.ending /\ d.id = c.id
         /\ d.batch = <<>> /\ d.from = a.id /\ d.alone = c.alone
         /\ d \in CableCommands
<1>1. /\ d.pc = "report" /\ d.channel = c.channel /\ d.todo = c.todo /\ d.ending = c.ending /\ d.id = c.id
      /\ d.batch = <<>> /\ d.from = a.id /\ d.alone = c.alone
  BY DEF Verdict, CableCommands
<1>2. PICK status \in Statuses :
        d = [c EXCEPT !.pc = "report", !.events = <<>>, !.batch = <<>>, !.from = a.id, !.status = status]
  BY DEF Verdict, CableAnswers, Statuses
<1>3. <<>> \in Seq(CableEvents) /\ <<>> \in Seq(CableNews) /\ a.id \in Nat /\ "report" \in CableStages
  BY EmptySeq DEF CableAnswers, CableStages
<1>4. d \in CableCommands
  BY <1>2, <1>3 DEF CableCommands
<1> QED
  BY <1>1, <1>4

LEMMA NoAnswerIs == NoAnswer \in CableAnswers /\ NoAnswer.id = 0
  BY DEF NoAnswer, CableAnswers, Statuses

\* The list without its first element.
LEMMA RestOfList ==
  ASSUME NEW q \in Seq(STRING), q # <<>>, Len(q) # 1
  PROVE  /\ Tail(q) \in Seq(STRING) /\ Tail(q) # <<>> /\ Head(q) = q[1] /\ 1 \in 1..Len(q)
         /\ \A n \in 1..Len(Tail(q)) : Tail(q)[n] = q[n + 1] /\ n + 1 \in 1..Len(q)
         /\ IsInjective(q) => IsInjective(Tail(q)) /\ \A n \in 1..Len(Tail(q)) : Tail(q)[n] # Head(q)
<1>1. Len(q) \in Nat /\ Len(q) > 1 /\ Head(q) = q[1] /\ DOMAIN q = 1..Len(q)
  <2>1. Len(q) \in Nat /\ Len(q) # 0 /\ DOMAIN q = 1..Len(q)
    BY EmptySeq
  <2> QED
    BY <2>1
<1>2. /\ Tail(q) \in Seq(STRING) /\ Len(Tail(q)) = Len(q) - 1 /\ DOMAIN Tail(q) = 1..Len(Tail(q))
      /\ \A n \in 1..Len(Tail(q)) : Tail(q)[n] = q[n + 1]
  BY HeadTailProperties
<1>3. Tail(q) # <<>> /\ \A n \in 1..Len(Tail(q)) : n + 1 \in 1..Len(q)
  BY <1>1, <1>2
<1>4. ASSUME IsInjective(q)  PROVE IsInjective(Tail(q)) /\ \A n \in 1..Len(Tail(q)) : Tail(q)[n] # Head(q)
  <2>1. \A a, b \in DOMAIN q : q[a] = q[b] => a = b
    BY <1>4 DEF IsInjective
  <2>2. \A n \in 1..Len(Tail(q)) : Tail(q)[n] # Head(q)
    BY <1>1, <1>2, <1>3, <2>1
  <2>3. \A a, b \in 1..Len(Tail(q)) : Tail(q)[a] = Tail(q)[b] => a = b
    BY <1>1, <1>2, <1>3, <2>1
  <2> QED
    BY <1>2, <2>2, <2>3 DEF IsInjective
<1> QED
  BY <1>1, <1>2, <1>3, <1>4

LEMMA TimeOutIsSafe == ASSUME CablesInv, NEW s \in Operators, TimeOut(s) PROVE CablesInv'
<1> DEFINE c == cli[s]
           d == cli'[s]
<1>1. CommandOK(c, numRequests) /\ c \in CableCommands /\ c.todo # <<>> /\ c.pc = "wait" /\ Told(cli, cli)
  BY EveryoneIsTold DEF CablesInv, CommandOK, TimeOut
<1>2. d = Verdict(c, NoAnswer) /\ \A o \in Operators \ {s} : cli'[o] = cli[o]
  BY DEF TimeOut, CablesInv, CablesTypeOK
<1>3. /\ d.pc = "report" /\ d.channel = c.channel /\ d.todo = c.todo /\ d.ending = c.ending /\ d.id = c.id
      /\ d.batch = <<>> /\ d.from = 0 /\ d.alone = c.alone /\ d \in CableCommands
  <2> HIDE DEF c, d
  <2> QED
    BY <1>1, <1>2, VerdictIs, NoAnswerIs
<1>4. GivenRequest(s) = Asked(<<c.channel, Head(c.todo)>>, c.id) /\ GivenRequest(s) \in [key : CableKeys, id : Nat]
  BY <1>1 DEF GivenRequest, PortOf, Asked, CableCommands, CableKeys
<1>5. Shrinks
  <2>1. cli' = [o \in Operators |-> cli'[o]]
    BY DEF TimeOut, CablesInv, CablesTypeOK
  <2> QED
    BY <1>4, <2>1, TablesShrink DEF CablesInv, CablesTypeOK, TimeOut, Shrinks
<1>6. Steady(s, d)
  <2>1. CommandOK(d, numRequests)
    BY <1>1, <1>3, EmptySeq DEF CommandOK
  <2>2. Reports(d, abandoned', res')
    <3>1. Reports(c, abandoned, res) /\ res' = res /\ abandoned \subseteq abandoned'
      BY DEF CablesInv, TimeOut
    <3>2. Len(d.batch) = 0 /\ Due(d, Head(d.todo), d.from, abandoned')
      BY <1>3, EmptySeq DEF Due
    <3>3. \A p, i : Due(c, p, i, abandoned) => Due(d, p, i, abandoned')
      BY <1>1, <1>3, <3>1 DEF Due
    <3> HIDE DEF c, d
    <3> QED
      BY <1>1, <1>3, <3>1, <3>2, <3>3 DEF Reports
  <2>3. \A k, i : WaitsFor(s, k, i) => Asked(k, i) \in abandoned'
    BY <1>4 DEF WaitsFor, Waits, TimeOut
  <2>4. BatchIds(d) = {}
    BY <1>3, EmptySeq DEF BatchIds
  <2> QED
    BY <2>1, <2>2, <2>3, <2>4 DEF Steady
<1>7. Onward(c, d)
  BY <1>1, <1>3 DEF Onward
<1>8. \A o \in Operators \ {s} : cli'[o] \in CableCommands /\ Follows(cli[o], cli'[o])
  BY <1>1, <1>2 DEF Told
<1> HIDE DEF c, d
<1> QED
  BY <1>5, <1>6, <1>7, <1>8, OneMoves DEF c, d

\* A command with no news that waits for nothing.
LEMMA PlainIsSteady ==
  ASSUME CablesInv, Shrinks, NEW s \in Operators, NEW d \in CableCommands, cli[s].pc # "wait", d.batch = <<>>,
         IsInjective(d.todo), d.pc # "idle" => d.todo # <<>>, Reports(d, abandoned', res')
  PROVE  Steady(s, d)
<1>1. Len(d.batch) = 0 /\ BatchIds(d) = {}
  BY EmptySeq DEF BatchIds
<1> QED
  BY <1>1 DEF Steady, CommandOK, WaitsFor, Waits

LEMMA NextPortIsSafe == ASSUME CablesInv, NEW s \in Operators, NextPort(s) PROVE CablesInv'
<1> DEFINE c == cli[s]
           d == cli'[s]
<1>1. /\ CommandOK(c, numRequests) /\ c \in CableCommands /\ c.todo # <<>> /\ c.pc = "reported" /\ c.batch = <<>>
      /\ c.todo \in Seq(STRING) /\ IsInjective(c.todo) /\ Told(cli, cli)
  BY EveryoneIsTold DEF CablesInv, CommandOK, NextPort, CableCommands
<1>2. /\ Len(c.todo) = 1 => d = NoCommand
      /\ Len(c.todo) # 1 => d = [c EXCEPT !.pc = "subscribe", !.todo = Tail(c.todo)]
      /\ \A o \in Operators \ {s} : cli'[o] = cli[o]
  <2>1. cli = [o \in Operators |-> cli[o]]
    BY DEF CablesInv, CablesTypeOK
  <2>2. cli' = [cli EXCEPT ![s] = IF Len(cli[s].todo) = 1 THEN NoCommand
                                  ELSE [cli[s] EXCEPT !.pc = "subscribe", !.todo = Tail(cli[s].todo)]]
    BY DEF NextPort
  <2> QED
    BY <2>1, <2>2
<1>3. Shrinks
  <2>1. cli' = [o \in Operators |-> cli'[o]]
    BY DEF NextPort, CablesInv, CablesTypeOK
  <2> QED
    BY <2>1, TablesShrink DEF CablesInv, CablesTypeOK, NextPort, Shrinks
<1>4. CASE Len(c.todo) = 1
  <2>1. d = NoCommand /\ d \in CableCommands /\ d.pc = "idle" /\ d.batch = <<>> /\ IsInjective(d.todo)
    <3>1. NoCommand.pc = "idle" /\ NoCommand.batch = <<>>
      BY DEF NoCommand
    <3> QED
      BY <1>2, <1>4, <3>1, NothingAtFirst DEF CommandOK
  <2>2. Reports(d, abandoned', res')
    BY <2>1 DEF Reports
  <2>3. Steady(s, d)
    BY <1>1, <1>3, <2>1, <2>2, PlainIsSteady
  <2>4. Onward(c, d)
    BY <2>1 DEF Onward
  <2>5. \A o \in Operators \ {s} : cli'[o] \in CableCommands /\ Follows(cli[o], cli'[o])
    BY <1>1, <1>2 DEF Told
  <2> HIDE DEF c, d
  <2> QED
    BY <1>3, <2>3, <2>4, <2>5, OneMoves DEF c, d
<1>5. CASE Len(c.todo) # 1
  <2>1. /\ Tail(c.todo) \in Seq(STRING) /\ Tail(c.todo) # <<>>
        /\ \A n \in 1..Len(Tail(c.todo)) : Tail(c.todo)[n] = c.todo[n + 1] /\ n + 1 \in 1..Len(c.todo)
        /\ IsInjective(Tail(c.todo)) /\ \A n \in 1..Len(Tail(c.todo)) : Tail(c.todo)[n] # Head(c.todo)
    <3> HIDE DEF c, d
    <3> QED
      BY <1>1, <1>5, RestOfList
  <2>2. /\ d.pc = "subscribe" /\ d.channel = c.channel /\ d.todo = Tail(c.todo) /\ d.ending = c.ending
        /\ d.batch = <<>> /\ d.alone = c.alone /\ d \in CableCommands
    BY <1>1, <1>2, <1>5, <2>1 DEF CableCommands, CableStages
  <2>3. IsInjective(d.todo) /\ \A n \in 1..Len(d.todo) : d.todo[n] # Head(c.todo)
    BY <2>1, <2>2
  <2>4. Reports(d, abandoned', res')
    <3>1. Reports(c, abandoned, res) /\ res' = res /\ abandoned = abandoned'
      BY DEF CablesInv, NextPort
    <3>2. c.alone /\ c.ending.reads # "never" =>
            \A n \in 1..Len(d.todo) : <<c.channel, d.todo[n]>> \in DOMAIN res =>
               Due(c, d.todo[n], res[<<c.channel, d.todo[n]>>], abandoned)
      BY <1>1, <3>1, <2>1, <2>2 DEF Reports
    <3> QED
      BY <1>1, <3>1, <3>2, <2>2, <2>3, EmptySeq DEF Reports, Due
  <2>5. Steady(s, d)
    BY <1>1, <1>3, <2>1, <2>2, <2>3, <2>4, PlainIsSteady
  <2>6. Onward(c, d)
    BY <1>1, <2>2 DEF Onward
  <2>7. \A o \in Operators \ {s} : cli'[o] \in CableCommands /\ Follows(cli[o], cli'[o])
    BY <1>1, <1>2 DEF Told
  <2> HIDE DEF c, d
  <2> QED
    BY <1>3, <2>5, <2>6, <2>7, OneMoves DEF c, d
<1> QED
  BY <1>4, <1>5

LEMMA ReportIsSafe == ASSUME CablesInv, NEW s \in Operators, Report(s) PROVE CablesInv'
<1> DEFINE c == cli[s]
           d == cli'[s]
           ch == c.channel
           reads == c.ending.reads = "always" \/ (c.ending.reads = "good" /\ c.status = "True")
           result == IF reads THEN get_result(s) ELSE 0
           reported == [c EXCEPT !.pc = "reported", !.result = result]
           told == delete_all_keys_in_db_table(cli, ch)
<1>1. /\ CommandOK(c, numRequests) /\ c \in CableCommands /\ c.todo # <<>> /\ c.pc = "report" /\ c.batch = <<>>
      /\ Told(cli, cli) /\ Told(cli, told)
  BY EveryoneIsTold DEF CablesInv, CommandOK, Report
<1>2. /\ res' = res \/ res' = Without(res, ch)
      /\ request' = request \/ request' = Without(request, ch)
      /\ rsp' = rsp \/ rsp' = Without(rsp, ch)
      /\ work' = work /\ numRequests' = numRequests /\ abandoned' = abandoned
  BY DEF Report
<1>3. cli' = [told EXCEPT ![s] = reported] \/ cli' = [cli EXCEPT ![s] = reported]
  BY DEF Report
<1>4. d = reported /\ cli' = [o \in Operators |-> cli'[o]]
      /\ \A o \in Operators \ {s} : cli'[o] \in CableCommands /\ Follows(cli[o], cli'[o])
  <2> HIDE DEF reported, told
  <2> QED
    BY <1>1, <1>3 DEF Told
<1>5. Shrinks
  BY <1>2, <1>4, TablesShrink DEF CablesInv, CablesTypeOK, Shrinks
<1>6. result \in Nat /\ (c.alone => Due(c, Head(c.todo), result, abandoned))
  <2>1. CASE reads /\ <<ch, PortOf(s)>> \in DOMAIN res
    <3>1. c.ending.reads # "never" /\ result = res[<<ch, Head(c.todo)>>] /\ <<ch, Head(c.todo)>> \in DOMAIN res
      BY <2>1 DEF get_result, PortOf
    <3>2. result \in Nat
      BY <3>1 DEF CablesInv, CablesTypeOK
    <3>3. Head(c.todo) = c.todo[1] /\ 1 \in 1..Len(c.todo)
      BY <1>1, EmptySeq DEF CableCommands
    <3>4. Reports(c, abandoned, res)
      BY DEF CablesInv
    <3> HIDE DEF result
    <3> QED
      BY <1>1, <3>1, <3>2, <3>3, <3>4 DEF Reports
  <2>2. CASE ~(reads /\ <<ch, PortOf(s)>> \in DOMAIN res)
    BY <2>2 DEF get_result, Due
  <2> QED
    BY <2>1, <2>2
<1>7. /\ d.pc = "reported" /\ d.channel = c.channel /\ d.todo = c.todo /\ d.ending = c.ending /\ d.id = c.id
      /\ d.batch = <<>> /\ d.from = c.from /\ d.result = result /\ d.alone = c.alone /\ d \in CableCommands
  <2> HIDE DEF result
  <2> QED
    BY <1>1, <1>4, <1>6 DEF CableCommands, CableStages
<1>8. Reports(d, abandoned', res')
  <2>1. Reports(c, abandoned, res) /\ \A k \in DOMAIN res' : k \in DOMAIN res /\ res'[k] = res[k]
    BY <1>5, LessHas DEF CablesInv, Shrinks
  <2>2. \A p, i : Due(c, p, i, abandoned) => Due(d, p, i, abandoned')
    <3> HIDE DEF d, c, reported
    <3> QED
      BY <1>1, <1>2, <1>7 DEF Due
  <2>3. Len(d.batch) = 0
    BY <1>7, EmptySeq
  <2> HIDE DEF d, c, result, reported
  <2>4. ASSUME c.alone
        PROVE  /\ Due(c, Head(c.todo), c.from, abandoned)
               /\ c.ending.reads # "never" =>
                    \A n \in 1..Len(c.todo) : <<c.channel, c.todo[n]>> \in DOMAIN res =>
                      Due(c, c.todo[n], res[<<c.channel, c.todo[n]>>], abandoned)
    BY <1>1, <2>1, <2>4 DEF Reports
  <2>5. ASSUME c.alone, c.ending.reads # "never",
               NEW n \in 1..Len(c.todo), <<c.channel, c.todo[n]>> \in DOMAIN res'
        PROVE  Due(d, c.todo[n], res'[<<c.channel, c.todo[n]>>], abandoned')
    BY <2>1, <2>2, <2>4, <2>5
  <2>6. c.alone => Due(d, Head(c.todo), c.from, abandoned') /\ Due(d, Head(c.todo), result, abandoned')
    BY <1>6, <2>2, <2>4
  <2> QED
    BY <1>7, <2>3, <2>5, <2>6 DEF Reports
<1>9. Steady(s, d)
  <2>1. IsInjective(d.todo)
    BY <1>1, <1>7 DEF CommandOK
  <2> HIDE DEF d, result, reported
  <2> QED
    BY <1>1, <1>5, <1>7, <1>8, <2>1, PlainIsSteady
<1>10. Onward(c, d)
  BY <1>1, <1>7 DEF Onward
<1> HIDE DEF c, d
<1> QED
  BY <1>4, <1>5, <1>9, <1>10, OneMoves DEF c, d

\* The responses that are there, as the subscriber first reads them.
FirstNews(ch) ==
  LET there == SetToSeq(OfChannel(rsp, ch))
  IN  [n \in 1..Len(there) |-> [port |-> there[n][2], answer |-> rsp[there[n]]]]
LEMMA FirstNewsIsDue ==
  ASSUME CablesInv, NEW s \in Operators, NEW B, B = FirstNews(cli[s].channel)
  PROVE  /\ B \in Seq(CableNews) /\ Len(B) \in Nat
         /\ \A n \in 1..Len(B) :
              /\ B[n].answer.id \in 1..numRequests /\ NotAnswered(B[n].answer.id)
              /\ cli[s].alone /\ cli[s].pc # "idle" => Due(cli[s], B[n].port, B[n].answer.id, abandoned)
<1> DEFINE K == OfChannel(rsp, cli[s].channel)
           q == SetToSeq(K)
<1>1. K \subseteq DOMAIN rsp /\ IsFiniteSet(K) /\ \A k \in K : k[1] = cli[s].channel
  BY FS_Subset DEF OfChannel, CablesInv, CablesTypeOK
<1>2. q \in Seq(K) /\ Len(q) \in Nat /\ \A n \in 1..Len(q) : q[n] \in K
  <2> HIDE DEF K
  <2> QED
    BY <1>1, ListedOnce
<1>3. B = [n \in 1..Len(q) |-> [port |-> q[n][2], answer |-> rsp[q[n]]]]
  BY DEF FirstNews
<1> HIDE DEF K, q
<1>4. ASSUME NEW n \in 1..Len(q)
      PROVE  /\ B[n] \in CableNews /\ B[n].answer.id \in 1..numRequests /\ NotAnswered(B[n].answer.id)
             /\ cli[s].alone /\ cli[s].pc # "idle" => Due(cli[s], B[n].port, B[n].answer.id, abandoned)
  <2>1. PICK k \in DOMAIN rsp : k = q[n] /\ k[1] = cli[s].channel
    BY <1>1, <1>2
  <2>2. B[n] = [port |-> k[2], answer |-> rsp[k]]
    BY <1>3, <2>1
  <2>3. /\ rsp[k] \in CableAnswers /\ rsp[k].id \in 1..numRequests /\ NotAnswered(rsp[k].id)
        /\ k[2] \in STRING
        /\ cli[s].alone /\ cli[s].pc # "idle" => Due(cli[s], k[2], rsp[k].id, abandoned)
    BY <2>1, ResponseIsDue
  <2>4. B[n].port = k[2] /\ B[n].answer = rsp[k]
    BY <2>2
  <2> QED
    BY <2>2, <2>3, <2>4 DEF CableNews
<1>5. B \in Seq(CableNews) /\ Len(B) = Len(q)
  BY <1>2, <1>3, <1>4
<1> QED
  BY <1>2, <1>4, <1>5

LEMMA SubscribeIsSafe == ASSUME CablesInv, NEW s \in Operators, Subscribe(s) PROVE CablesInv'
<1> DEFINE c == cli[s]
           d == cli'[s]
           ch == c.channel
           B == FirstNews(ch)
           news == Deletions(OfChannel(rsp, ch))
           fresh == [c EXCEPT !.pc = "ask", !.status = "unknown", !.from = 0, !.result = 0,
                              !.batch = B, !.events = news]
           lost == [c EXCEPT !.pc = "report", !.status = "unknown", !.from = 0]
           told == delete_all_keys_in_db_table(cli, ch)
<1>1. /\ CommandOK(c, numRequests) /\ c \in CableCommands /\ c.todo # <<>> /\ c.pc = "subscribe" /\ c.batch = <<>>
      /\ IsInjective(c.todo) /\ Told(cli, cli) /\ Told(cli, told) /\ news \in Seq(CableEvents)
  BY EveryoneIsTold DEF CablesInv, CommandOK, Subscribe
<1>2. /\ res' = res
      /\ request' = request \/ request' = Without(request, ch)
      /\ rsp' = Without(rsp, ch)
      /\ work' = work /\ numRequests' = numRequests /\ abandoned' = abandoned
  BY DEF Subscribe
<1>3. cli' = [told EXCEPT ![s] = fresh] \/ cli' = [told EXCEPT ![s] = lost]
  BY DEF Subscribe, FirstNews
<1>4. (d = fresh \/ d = lost) /\ cli' = [o \in Operators |-> cli'[o]]
      /\ \A o \in Operators \ {s} : cli'[o] \in CableCommands /\ Follows(cli[o], cli'[o])
  <2> HIDE DEF fresh, lost, told
  <2> QED
    BY <1>1, <1>3 DEF Told
<1>5. Shrinks
  BY <1>2, <1>4, TablesShrink DEF CablesInv, CablesTypeOK, Shrinks
<1>6. /\ B \in Seq(CableNews) /\ Len(B) \in Nat
      /\ \A n \in 1..Len(B) : /\ B[n].answer.id \in 1..numRequests /\ NotAnswered(B[n].answer.id)
                              /\ c.alone => Due(c, B[n].port, B[n].answer.id, abandoned)
  <2> HIDE DEF B
  <2> QED
    BY <1>1, FirstNewsIsDue DEF B
<1> HIDE DEF B, news
<1>7. /\ d.channel = c.channel /\ d.todo = c.todo /\ d.ending = c.ending /\ d.id = c.id /\ d.from = 0
      /\ d.alone = c.alone /\ d \in CableCommands
      /\ (d.pc = "ask" /\ d.batch = B) \/ (d.pc = "report" /\ d.batch = <<>>)
  <2>0. "ask" \in CableStages /\ "report" \in CableStages /\ "unknown" \in Statuses
    BY DEF CableStages, Statuses
  <2> HIDE DEF c, d, told
  <2>1. CASE d = fresh
    <3>1. d \in CableCommands
      BY <2>0, <2>1, <1>1, <1>6 DEF CableCommands
    <3>2. /\ d.channel = c.channel /\ d.todo = c.todo /\ d.ending = c.ending /\ d.id = c.id /\ d.from = 0
          /\ d.alone = c.alone /\ d.pc = "ask" /\ d.batch = B
      BY <2>1, <1>1 DEF CableCommands
    <3> QED
      BY <3>1, <3>2
  <2>2. CASE d = lost
    <3>1. d \in CableCommands
      BY <2>0, <2>2, <1>1 DEF CableCommands
    <3>2. /\ d.channel = c.channel /\ d.todo = c.todo /\ d.ending = c.ending /\ d.id = c.id /\ d.from = 0
          /\ d.alone = c.alone /\ d.pc = "report" /\ d.batch = <<>>
      BY <2>2, <1>1 DEF CableCommands
    <3> QED
      BY <3>1, <3>2
  <2> QED
    BY <1>4, <2>1, <2>2
<1> HIDE DEF d, c
<1>8. Reports(d, abandoned', res')
  <2>1. Reports(c, abandoned, res)
    BY DEF CablesInv, c
  <2>2. \A p, i : Due(c, p, i, abandoned) => Due(d, p, i, abandoned')
    BY <1>1, <1>2, <1>7 DEF Due
  <2>3. Len(<<>>) = 0 /\ Due(d, Head(d.todo), d.from, abandoned')
    BY <1>7, EmptySeq DEF Due
  <2>4. ASSUME NEW n \in 1..Len(d.batch), c.alone  PROVE Due(d, d.batch[n].port, d.batch[n].answer.id, abandoned')
    BY <1>6, <1>7, <2>2, <2>3, <2>4
  <2> QED
    BY <1>1, <1>2, <1>7, <2>1, <2>2, <2>3, <2>4 DEF Reports
<1>9. CASE d.pc = "report"
  <2>1. Steady(s, d)
    BY <1>1, <1>5, <1>7, <1>8, <1>9, PlainIsSteady DEF c
  <2>2. Onward(c, d)
    BY <1>1, <1>7 DEF Onward
  <2> QED
    BY <1>4, <1>5, <2>1, <2>2, OneMoves DEF c, d
<1>10. CASE d.pc = "ask"
  <2>1. CommandOK(d, numRequests)
    BY <1>1, <1>6, <1>7, <1>10 DEF CommandOK, CablesInv, CablesTypeOK
  <2>2. \A i \in BatchIds(d) : NotAnswered(i)'
    <3>1. \A i \in BatchIds(d) : NotAnswered(i)
      BY <1>6, <1>7, <1>10 DEF BatchIds
    <3> QED
      BY <1>5, <3>1, NoneOpens
  <2>3. Steady(s, d)
    BY <1>1, <1>8, <2>1, <2>2 DEF Steady, WaitsFor, Waits, c
  <2>4. Onward(c, d)
    BY <1>1, <1>7 DEF Onward
  <2> QED
    BY <1>4, <1>5, <2>3, <2>4, OneMoves DEF c, d
<1> QED
  BY <1>7, <1>9, <1>10

---------------------------------------------------------------------------
\* No request has the number of no answer.
LEMMA NothingIsOver == CablesInv => NotAnswered(0)
<1> SUFFICES ASSUME CablesInv, NEW k \in CableKeys, IsOpen(k, 0)  PROVE FALSE
  BY DEF NotAnswered
<1>1. numRequests \in Nat /\ \A j \in DOMAIN request : request[j].id \in 1..numRequests
  BY DEF CablesInv, CablesTypeOK
<1>2. \A w \in work : w.id \in 1..numRequests
  BY DEF CablesInv, CablesTypeOK
<1>3. Asked(k, 0) \notin work
  BY <1>1, <1>2 DEF Asked
<1> QED
  BY <1>1, <1>3 DEF IsOpen, Untaken

\* What c may report, whatever news it reads.
DueNews(c, news) ==
  /\ news \in Seq(CableNews)
  /\ \A n \in 1..Len(news) :
       /\ news[n].answer.id \in 0..numRequests /\ NotAnswered(news[n].answer.id)
       /\ c.alone => Due(c, news[n].port, news[n].answer.id, abandoned)
LEMMA ReadNewsIsDue ==
  ASSUME CablesInv, NEW s \in Operators, cli[s].pc # "idle",
         NEW news \in Read(cli[s].events, cli[s].channel)
  PROVE  DueNews(cli[s], news)
<1> DEFINE c == cli[s]
           ch == c.channel
           events == c.events
           there == {n \in DOMAIN events : events[n].deleted \/ <<ch, events[n].port>> \in DOMAIN rsp}
<1>1. events \in Seq(CableEvents) /\ Len(events) \in Nat /\ DOMAIN events = 1..Len(events)
  BY DEF CablesInv, CommandOK, CableCommands
<1>2. IsFiniteSet(there) /\ Cardinality(there) \in Nat
  <2>1. IsFiniteSet(1..Len(events))
    BY <1>1, FS_Interval
  <2> QED
    BY <1>1, <2>1, FS_Subset, FS_CardinalityType
<1>3. PICK m \in [1..Cardinality(there) -> there] : news = [i \in DOMAIN m |-> Value(ch, events[m[i]])]
  BY DEF Read, Increasing, SetToSeqs
<1>4. ASSUME NEW i \in 1..Cardinality(there)
      PROVE  /\ news[i] \in CableNews /\ news[i].answer.id \in 0..numRequests /\ NotAnswered(news[i].answer.id)
             /\ c.alone => Due(c, news[i].port, news[i].answer.id, abandoned)
  <2>1. m[i] \in there /\ news[i] = Value(ch, events[m[i]])
    BY <1>3
  <2>2. PICK e \in CableEvents : e = events[m[i]] /\ (e.deleted \/ <<ch, e.port>> \in DOMAIN rsp)
    <3>1. PICK j \in 1..Len(events) : j = m[i] /\ (events[j].deleted \/ <<ch, events[j].port>> \in DOMAIN rsp)
      BY <1>1, <2>1
    <3>2. events[j] \in CableEvents
      BY <1>1
    <3> QED
      BY <3>1, <3>2
  <2>3. news[i] = [port |-> e.port, answer |-> IF e.deleted THEN NoAnswer ELSE rsp[<<ch, e.port>>]]
        /\ e.port \in STRING
    BY <2>1, <2>2 DEF Value, CableEvents
  <2>4. CASE e.deleted
    <3>1. news[i].port = e.port /\ news[i].answer = NoAnswer /\ news[i] = [port |-> e.port, answer |-> NoAnswer]
      BY <2>3, <2>4
    <3>2. 0 \in 0..numRequests /\ NotAnswered(0) /\ Due(c, e.port, 0, abandoned)
      BY NothingIsOver DEF CablesInv, CablesTypeOK, Due
    <3> QED
      BY <2>3, <3>1, <3>2, NoAnswerIs DEF CableNews
  <2>5. CASE ~e.deleted
    <3>1. PICK k \in DOMAIN rsp : k = <<ch, e.port>> /\ k[1] = ch /\ k[2] = e.port
      BY <2>2, <2>5
    <3>2. /\ rsp[k] \in CableAnswers /\ rsp[k].id \in 1..numRequests /\ NotAnswered(rsp[k].id)
          /\ c.alone => Due(c, k[2], rsp[k].id, abandoned)
      BY <3>1, ResponseIsDue
    <3>3. news[i].port = e.port /\ news[i].answer = rsp[k] /\ news[i] = [port |-> e.port, answer |-> rsp[k]]
      BY <2>3, <2>5, <3>1
    <3>4. rsp[k].id \in 0..numRequests
      BY <3>2 DEF CablesInv, CablesTypeOK
    <3> QED
      BY <2>3, <3>1, <3>2, <3>3, <3>4 DEF CableNews
  <2> QED
    BY <2>4, <2>5
<1> HIDE DEF there
<1>5. news \in Seq(CableNews) /\ Len(news) = Cardinality(there)
  <2>1. DOMAIN m = 1..Cardinality(there) /\ news = [i \in 1..Cardinality(there) |-> news[i]]
    BY <1>3
  <2> QED
    BY <1>2, <1>4, <2>1
<1> QED
  BY <1>4, <1>5 DEF DueNews

LEMMA BatchIsDue ==
  ASSUME CablesInv, NEW s \in Operators, cli[s].pc # "idle"
  PROVE  DueNews(cli[s], cli[s].batch)
<1>1. cli[s].batch \in Seq(CableNews) /\ \A n \in 1..Len(cli[s].batch) : cli[s].batch[n].answer.id \in 0..numRequests
  BY DEF CablesInv, CommandOK, CableCommands
<1>2. \A n \in 1..Len(cli[s].batch) : NotAnswered(cli[s].batch[n].answer.id)
  BY DEF CablesInv, AnswersAreOver, BatchIds
<1>3. cli[s].alone => \A n \in 1..Len(cli[s].batch) : Due(cli[s], cli[s].batch[n].port, cli[s].batch[n].answer.id, abandoned)
  BY DEF CablesInv, Reports
<1> QED
  BY <1>1, <1>2, <1>3 DEF DueNews

\* The first piece of news is the own one, or that of another port.
LEMMA DecidingIsSafe ==
  ASSUME CablesInv, NEW s \in Operators, cli[s].pc = "wait",
         NEW news, DueNews(cli[s], news), IsForPort(news, PortOf(s)),
         NEW verdict, verdict = Verdict(cli[s], IF news = <<>> THEN NoAnswer ELSE Head(news).answer),
         rsp' = Without(rsp, cli[s].channel),
         request' = request \/ request' = Without(request, cli[s].channel),
         cli' = [delete_all_keys_in_db_table(cli, cli[s].channel) EXCEPT ![s] = verdict],
         abandoned' = IF verdict.from = cli[s].id THEN abandoned ELSE abandoned \cup {GivenRequest(s)},
         work' = work, res' = res, numRequests' = numRequests
  PROVE  CablesInv'
<1> DEFINE c == cli[s]
           a == IF news = <<>> THEN NoAnswer ELSE Head(news).answer
           told == delete_all_keys_in_db_table(cli, c.channel)
<1>1. /\ CommandOK(c, numRequests) /\ c \in CableCommands /\ c.todo # <<>>
      /\ Told(cli, cli) /\ Told(cli, told)
  BY EveryoneIsTold DEF CablesInv, CommandOK
<1>2. /\ a \in CableAnswers /\ NotAnswered(a.id) /\ (c.alone => Due(c, Head(c.todo), a.id, abandoned))
  <2>1. CASE news = <<>>
    BY <2>1, NoAnswerIs, NothingIsOver DEF Due
  <2>2. CASE news # <<>>
    <3>1. news \in Seq(CableNews) /\ 1 \in 1..Len(news) /\ Head(news) = news[1]
      BY <2>2, EmptySeq DEF DueNews
    <3>2. Head(news).port = Head(c.todo) /\ a = Head(news).answer
      BY <2>2 DEF IsForPort, PortOf
    <3>3. news[1] \in CableNews
      BY <3>1
    <3> HIDE DEF a, c
    <3> QED
      BY <3>1, <3>2, <3>3 DEF DueNews, CableNews, c
  <2> QED
    BY <2>1, <2>2
<1>3. cli'[s] = verdict /\ cli' = [o \in Operators |-> cli'[o]]
      /\ \A o \in Operators \ {s} : cli'[o] \in CableCommands /\ Follows(cli[o], cli'[o])
  <2> HIDE DEF told
  <2>1. cli' = [told EXCEPT ![s] = verdict]
    BY DEF told
  <2> QED
    BY <1>1, <2>1 DEF Told
<1>4. /\ verdict.pc = "report" /\ verdict.channel = c.channel /\ verdict.todo = c.todo /\ verdict.ending = c.ending
      /\ verdict.id = c.id /\ verdict.batch = <<>> /\ verdict.from = a.id /\ verdict.alone = c.alone
      /\ verdict \in CableCommands
  <2> HIDE DEF a
  <2> QED
    BY <1>1, <1>2, VerdictIs DEF a
<1> HIDE DEF a, told
<1>5. GivenRequest(s) = Asked(<<c.channel, Head(c.todo)>>, c.id) /\ GivenRequest(s) \in [key : CableKeys, id : Nat]
  BY <1>1 DEF GivenRequest, PortOf, Asked, CableCommands, CableKeys
<1>6. Shrinks
  <2>1. abandoned \subseteq abandoned' /\ abandoned' \subseteq [key : CableKeys, id : Nat]
    BY <1>5 DEF CablesInv, CablesTypeOK
  <2> QED
    BY <1>3, <2>1, TablesShrink DEF CablesInv, Shrinks
<1>7. Reports(verdict, abandoned', res')
  <2>1. Reports(c, abandoned, res) /\ abandoned \subseteq abandoned'
    BY <1>6 DEF CablesInv, Shrinks
  <2>2. \A p, i : Due(c, p, i, abandoned) => Due(verdict, p, i, abandoned')
    BY <1>4, <2>1 DEF Due
  <2>3. Len(verdict.batch) = 0
    BY <1>4, EmptySeq
  <2>4. verdict.alone => Due(verdict, Head(verdict.todo), verdict.from, abandoned')
    BY <1>2, <1>4, <2>2
  <2>5. c.pc = "wait" /\ res' = res
    OBVIOUS
  <2> SUFFICES ASSUME verdict.alone  PROVE Reports(verdict, abandoned', res')
    BY DEF Reports
  <2>6. c.alone /\ Due(verdict, Head(verdict.todo), verdict.from, abandoned')
    BY <1>4, <2>4
  <2>7. c.ending.reads # "never" =>
          \A n \in 1..Len(c.todo) :
            <<c.channel, c.todo[n]>> \in DOMAIN res => Due(c, c.todo[n], res[<<c.channel, c.todo[n]>>], abandoned)
    BY <2>1, <2>5, <2>6 DEF Reports
  <2>8. verdict.ending.reads # "never" =>
          \A n \in 1..Len(verdict.todo) :
            <<verdict.channel, verdict.todo[n]>> \in DOMAIN res' =>
              Due(verdict, verdict.todo[n], res'[<<verdict.channel, verdict.todo[n]>>], abandoned')
    <3> HIDE DEF c
    <3> QED
      BY <1>4, <2>2, <2>5, <2>7
  <2>9. verdict.pc # "reported" /\ \A n \in 1..Len(verdict.batch) : FALSE
    BY <1>4, <2>3
  <2> QED
    BY <2>6, <2>8, <2>9 DEF Reports
<1>8. \A k \in CableKeys, i \in Nat : WaitsFor(s, k, i) => Asked(k, i) \in abandoned' \/ IsOver(k, i)'
  <2> SUFFICES ASSUME NEW k \in CableKeys, NEW i \in Nat, WaitsFor(s, k, i)
               PROVE  Asked(k, i) \in abandoned' \/ IsOver(k, i)'
    OBVIOUS
  <2>1. k = <<c.channel, Head(c.todo)>> /\ i = c.id /\ k[1] = c.channel
    BY DEF WaitsFor, Waits
  <2>2. CASE a.id # c.id
    BY <1>4, <1>5, <2>1, <2>2
  <2>3. CASE a.id = c.id
    <3>1. k \notin DOMAIN rsp'
      BY <2>1, WithoutChannel
    <3>2. ~IsOpen(k, i)
      BY <1>2, <2>1, <2>3 DEF NotAnswered
    <3>3. ~IsOpen(k, i)'
      BY <1>6, <3>2, NoneOpens
    <3> QED
      BY <3>1, <3>3 DEF IsOver
  <2> QED
    BY <2>2, <2>3
<1>9. Steady(s, verdict)
  <2>1. CommandOK(verdict, numRequests)
    <3>1. IsInjective(verdict.todo) /\ verdict.todo # <<>>
      BY <1>1, <1>4 DEF CommandOK
    <3>2. verdict.batch = <<>> /\ Len(<<>>) = 0
      BY <1>4, EmptySeq
    <3>3. verdict \in CableCommands /\ verdict.pc = "report"
      BY <1>4
    <3>4. \A n \in 1..Len(verdict.batch) : FALSE
      BY <3>2
    <3> HIDE DEF c
    <3> QED
      BY <3>1, <3>2, <3>3, <3>4 DEF CommandOK
  <2>2. BatchIds(verdict) = {}
    BY <1>4, EmptySeq DEF BatchIds
  <2> QED
    BY <1>7, <1>8, <2>1, <2>2 DEF Steady
<1>10. Onward(c, verdict)
  BY <1>4 DEF Onward
<1> QED
  BY <1>3, <1>6, <1>9, <1>10, OneMoves

LEMMA PassingOnIsSafe ==
  ASSUME CablesInv, NEW s \in Operators, cli[s].pc = "wait",
         NEW news, DueNews(cli[s], news), ~IsForPort(news, PortOf(s)),
         NEW unread \in Seq(CableEvents),
         NEW left, left = [cli[s] EXCEPT !.events = unread, !.batch = Tail(news)],
         NEW own, own \in SUBSET DOMAIN rsp, rsp' = WithoutKeys(rsp, own), request' = request,
         cli' = Notify([cli EXCEPT ![s] = left], cli[s].channel, Deletions(own)),
         abandoned' = abandoned, work' = work, res' = res, numRequests' = numRequests
  PROVE  CablesInv'
<1> DEFINE c == cli[s]
           C == [cli EXCEPT ![s] = left]
<1>1. CommandOK(c, numRequests) /\ c \in CableCommands /\ c.pc = "wait" /\ Told(cli, cli)
  BY EveryoneIsTold DEF CablesInv, CommandOK
<1>2. /\ news \in Seq(CableNews) /\ Tail(news) \in Seq(CableNews)
      /\ \A n \in 1..Len(Tail(news)) : Tail(news)[n] = news[n + 1] /\ n + 1 \in 1..Len(news)
  <2>1. news \in Seq(CableNews) /\ news # <<>>
    BY DEF DueNews, IsForPort
  <2> QED
    BY <2>1, EmptySeq
<1>3. /\ left.pc = c.pc /\ left.channel = c.channel /\ left.todo = c.todo /\ left.ending = c.ending
      /\ left.id = c.id /\ left.batch = Tail(news) /\ left.from = c.from /\ left.result = c.result
      /\ left.alone = c.alone /\ left \in CableCommands
  BY <1>1, <1>2 DEF CableCommands
<1>4. ASSUME NEW n \in 1..Len(left.batch)
      PROVE  /\ left.batch[n].answer.id \in 0..numRequests /\ NotAnswered(left.batch[n].answer.id)
             /\ left.alone => Due(left, left.batch[n].port, left.batch[n].answer.id, abandoned)
  <2>1. PICK m \in 1..Len(news) : left.batch[n] = news[m]
    BY <1>2, <1>3
  <2>2. /\ news[m].answer.id \in 0..numRequests /\ NotAnswered(news[m].answer.id)
        /\ c.alone => Due(c, news[m].port, news[m].answer.id, abandoned)
    BY DEF DueNews
  <2>3. \A p, i : Due(c, p, i, abandoned) => Due(left, p, i, abandoned)
    BY <1>3 DEF Due
  <2> HIDE DEF c
  <2> QED
    BY <1>3, <2>1, <2>2, <2>3
<1>5. /\ Told(C, cli') /\ C[s] = left /\ \A o \in Operators \ {s} : C[o] = cli[o]
  <2>1. C[s] = left /\ \A o \in Operators \ {s} : C[o] = cli[o]
    BY DEF CablesInv, CablesTypeOK
  <2>2. \A o \in Operators : C[o] \in CableCommands
    BY <1>1, <1>3, <2>1 DEF Told
  <2>3. CablesTypeOK
    BY DEF CablesInv
  <2> HIDE DEF C
  <2>4. cli' = Notify(C, cli[s].channel, Deletions(own))
    BY DEF C
  <2>5. Told(C, Notify(C, cli[s].channel, Deletions(own)))
    BY <2>2, <2>3, DeletionIsTold
  <2>6. Told(C, cli')
    BY <2>4, <2>5
  <2> QED
    BY <2>1, <2>6
<1> HIDE DEF C
<1>6. Shrinks
  BY <1>5, TablesShrink DEF CablesInv, CablesTypeOK, Shrinks, Told
<1>7. Steady(s, left)
  <2>1. CommandOK(left, numRequests)
    BY <1>1, <1>3, <1>4 DEF CommandOK
  <2>2. Reports(left, abandoned', res')
    <3> SUFFICES ASSUME left.alone  PROVE Reports(left, abandoned', res')
      BY DEF Reports
    <3>1. Reports(c, abandoned, res)
      BY DEF CablesInv
    <3>2. c.ending.reads # "never" =>
            \A n \in 1..Len(c.todo) :
              <<c.channel, c.todo[n]>> \in DOMAIN res => Due(c, c.todo[n], res[<<c.channel, c.todo[n]>>], abandoned)
      BY <1>1, <1>3, <3>1 DEF Reports
    <3>3. \A p, i : Due(c, p, i, abandoned) => Due(left, p, i, abandoned)
      BY <1>3 DEF Due
    <3>4. left.pc = "wait"
      BY <1>1, <1>3
    <3>5. left.ending.reads # "never" =>
            \A n \in 1..Len(left.todo) :
              <<left.channel, left.todo[n]>> \in DOMAIN res =>
                Due(left, left.todo[n], res[<<left.channel, left.todo[n]>>], abandoned)
      <4> HIDE DEF c
      <4> QED
        BY <1>3, <3>2, <3>3
    <3> QED
      BY <1>4, <3>4, <3>5 DEF Reports
  <2>3. \A k, i : WaitsFor(s, k, i) => Waits(left, k, i)
    BY <1>3 DEF WaitsFor, Waits
  <2>4. \A i \in BatchIds(left) : NotAnswered(i)'
    BY <1>4, <1>6, NoneOpens DEF BatchIds
  <2> QED
    BY <2>1, <2>2, <2>3, <2>4 DEF Steady
<1>8. Steady(s, cli'[s]) /\ Onward(c, cli'[s])
  <2>1. cli'[s] \in CableCommands /\ Follows(left, cli'[s])
    BY <1>5 DEF Told
  <2>2. Steady(s, cli'[s])
    BY <1>6, <1>7, <2>1, ListenersAreSteady
  <2> QED
    BY <1>1, <1>3, <2>1, <2>2 DEF Follows, Onward
<1>9. \A o \in Operators \ {s} : cli'[o] \in CableCommands /\ Follows(cli[o], cli'[o])
  BY <1>5 DEF Told
<1> QED
  BY <1>6, <1>8, <1>9, OneMoves

LEMMA ReadingIsSafe ==
  ASSUME CablesInv, NEW s \in Operators, update_and_get_response_for_xcvr_cmd(s)  PROVE CablesInv'
<1> DEFINE c == cli[s]
           ch == c.channel
           cached == c.batch # <<>>
           unread == IF cached THEN c.events ELSE <<>>
           own == {<<ch, PortOf(s)>>} \cap DOMAIN rsp
           Left(news) == [c EXCEPT !.events = unread, !.batch = Tail(news)]
           Answer_(news) == IF news = <<>> THEN NoAnswer ELSE Head(news).answer
<1>1. c.pc = "wait" /\ UNCHANGED <<work, res, numRequests>>
  BY DEF update_and_get_response_for_xcvr_cmd
<1>2. PICK news \in IF cached THEN {c.batch} ELSE Read(c.events, ch) :
        IF IsForPort(news, PortOf(s))
        THEN /\ rsp' = Without(rsp, ch)
             /\ request' = IF c.ending.show THEN Without(request, ch) ELSE request
             /\ cli' = [delete_all_keys_in_db_table(cli, ch) EXCEPT ![s] = Verdict(c, Answer_(news))]
             /\ abandoned' = IF Verdict(c, Answer_(news)).from = c.id THEN abandoned
                             ELSE abandoned \cup {GivenRequest(s)}
        ELSE /\ rsp' = WithoutKeys(rsp, own)
             /\ cli' = Notify([cli EXCEPT ![s] = Left(news)], ch, Deletions(own))
             /\ UNCHANGED <<request, abandoned>>
  BY DEF update_and_get_response_for_xcvr_cmd
<1>3. DueNews(c, news)
  BY <1>1, <1>2, BatchIsDue, ReadNewsIsDue
<1>4. unread \in Seq(CableEvents) /\ own \in SUBSET DOMAIN rsp
  BY EmptySeq DEF CablesInv, CommandOK, CableCommands
<1>5. CASE IsForPort(news, PortOf(s))
  <2> DEFINE d == Verdict(c, Answer_(news))
  <2>1. /\ rsp' = Without(rsp, ch)
        /\ request' = request \/ request' = Without(request, ch)
        /\ cli' = [delete_all_keys_in_db_table(cli, ch) EXCEPT ![s] = d]
        /\ abandoned' = IF d.from = c.id THEN abandoned ELSE abandoned \cup {GivenRequest(s)}
    BY <1>2, <1>5
  <2>2. d = Verdict(c, Answer_(news))
    OBVIOUS
  <2> HIDE DEF d
  <2> QED
    BY <1>1, <1>3, <1>5, <2>1, <2>2, DecidingIsSafe
<1>6. CASE ~IsForPort(news, PortOf(s))
  <2> DEFINE left == Left(news)
  <2>1. /\ rsp' = WithoutKeys(rsp, own) /\ request' = request /\ abandoned' = abandoned
        /\ cli' = Notify([cli EXCEPT ![s] = left], ch, Deletions(own))
    BY <1>2, <1>6
  <2>2. left = [c EXCEPT !.events = unread, !.batch = Tail(news)]
    OBVIOUS
  <2> HIDE DEF left, unread, own
  <2> QED
    BY <1>1, <1>3, <1>4, <1>6, <2>1, <2>2, PassingOnIsSafe
<1> QED
  BY <1>5, <1>6

---------------------------------------------------------------------------
LEMMA AskIsSafe == ASSUME CablesInv, NEW s \in Operators, Ask(s) PROVE CablesInv'
<1> DEFINE c == cli[s]
           d == cli'[s]
<1>0. PICK new \in Nat : new = numRequests + 1
  BY DEF CablesInv, CablesTypeOK
<1>1. /\ CommandOK(c, numRequests) /\ c \in CableCommands /\ c.todo # <<>> /\ c.pc = "ask"
      /\ numRequests \in Nat /\ new \in Nat /\ 1..numRequests \subseteq 1..new /\ new \in 1..new
      /\ new \notin 0..numRequests /\ numRequests' = new
  BY <1>0 DEF CablesInv, CommandOK, CablesTypeOK, Ask
<1>4. PICK k \in CableKeys : k = <<c.channel, PortOf(s)>> /\ k = <<c.channel, Head(c.todo)>>
  <2>1. c.channel \in Channels /\ Head(c.todo) \in STRING
    BY <1>1 DEF CableCommands
  <2> QED
    BY <2>1 DEF PortOf, CableKeys
<1>2. /\ rsp' = rsp /\ res' = res /\ work' = work /\ abandoned' = abandoned
      /\ request' = Put(request, k, [id |-> new, taken |-> FALSE])
  BY <1>0, <1>4 DEF Ask
<1>3. /\ d = [c EXCEPT !.pc = "wait", !.id = new] /\ cli' = [o \in Operators |-> cli'[o]]
      /\ \A o \in Operators \ {s} : cli'[o] = cli[o]
  <2>1. cli = [o \in Operators |-> cli[o]]
    BY DEF CablesInv, CablesTypeOK
  <2>2. cli' = [cli EXCEPT ![s].pc = "wait", ![s].id = new]
    BY <1>0 DEF Ask
  <2> QED
    BY <2>1, <2>2
<1>5. /\ d.pc = "wait" /\ d.channel = c.channel /\ d.todo = c.todo /\ d.ending = c.ending /\ d.id = new
      /\ d.batch = c.batch /\ d.from = c.from /\ d.result = c.result /\ d.alone = c.alone
      /\ d \in CableCommands
  BY <1>1, <1>3 DEF CableCommands, CableStages
<1> HIDE DEF d
<1>6. /\ DOMAIN request' = DOMAIN request \cup {k} /\ request' = [j \in DOMAIN request' |-> request'[j]]
      /\ request'[k].id = new /\ request'[k].taken = FALSE /\ request'[k] \in [id : 1..new, taken : BOOLEAN]
      /\ \A j \in DOMAIN request : j # k => request'[j] = request[j]
  <2>1. PICK e : e = [id |-> new, taken |-> FALSE]
    OBVIOUS
  <2>2. e.id = new /\ e.taken = FALSE /\ e \in [id : 1..new, taken : BOOLEAN]
    BY <1>1, <2>1
  <2>3. request' = Put(request, k, e)
    BY <1>2, <2>1
  <2>4. /\ DOMAIN request' = DOMAIN request \cup {k} /\ request' = [j \in DOMAIN request' |-> request'[j]]
        /\ request'[k] = e /\ \A j \in DOMAIN request : j # k => request'[j] = request[j]
    BY <2>3 DEF Put
  <2> QED
    BY <2>2, <2>4
<1>7. CablesTypeOK'
  <2>1. CablesTypeOK
    BY DEF CablesInv
  <2>2. \A j \in DOMAIN request' : request'[j] \in [id : 1..numRequests', taken : BOOLEAN]
    BY <1>1, <1>6, <2>1 DEF CablesTypeOK
  <2>3. \A j \in DOMAIN rsp : rsp[j].id \in 1..numRequests'
    BY <1>1, <2>1 DEF CablesTypeOK
  <2>4. work \subseteq [key : CableKeys, id : 1..numRequests']
    BY <1>1, <2>1 DEF CablesTypeOK
  <2>5. /\ numRequests' \in Nat /\ DOMAIN request' \subseteq CableKeys
        /\ request' = [j \in DOMAIN request' |-> request'[j]]
    BY <1>1, <1>4, <1>6, <2>1 DEF CablesTypeOK
  <2> QED
    BY <1>2, <1>3, <2>1, <2>2, <2>3, <2>4, <2>5 DEF CablesTypeOK
<1>8. \A j, i : IsOpen(j, i)' => IsOpen(j, i) \/ (j = k /\ i = new)
  BY <1>2, <1>6 DEF IsOpen, Untaken
<1>9. \A j, i : Owed(j, i) => Owed(j, i)'
  BY <1>1, <1>2, <1>3 DEF Owed, WaitsFor, Waits
<1>10. Owed(k, new)'
  BY <1>4, <1>5 DEF Owed, WaitsFor, Waits, d
<1>11. AllOwed'
  <2>1. \A j \in CableKeys, i \in Nat : IsOpen(j, i)' => Owed(j, i)'
    BY <1>8, <1>9, <1>10 DEF CablesInv, AllOwed
  <2>2. ASSUME NEW j \in DOMAIN rsp'  PROVE Owed(j, rsp[j].id)'
    <3>1. PICK i : i = rsp'[j].id /\ Owed(j, i)
      BY <1>2 DEF CablesInv, AllOwed
    <3>2. Owed(j, i)'
      BY <1>9, <3>1
    <3> QED
      BY <3>1, <3>2 DEF Owed, WaitsFor
  <2> QED
    BY <2>1, <2>2 DEF AllOwed
<1>12. ToldApart'
  <2>1. /\ \A w \in work : w.id # new
        /\ \A j \in DOMAIN request : request[j].id # new
    BY <1>1 DEF CablesInv, CablesTypeOK
  <2>2. ToldApart
    BY DEF CablesInv
  <2> QED
    <3>1. ASSUME NEW j \in DOMAIN request', NEW w \in work', ~request'[j].taken  PROVE w.id # request'[j].id
      <4>1. w \in work /\ w.id # new
        BY <1>2, <2>1
      <4>2. j # k => j \in DOMAIN request /\ request'[j] = request[j]
        BY <1>6
      <4> QED
        BY <1>6, <2>2, <3>1, <4>1, <4>2 DEF ToldApart
    <3>2. ASSUME NEW i \in DOMAIN request', NEW j \in DOMAIN request', ~request'[i].taken, ~request'[j].taken,
                 request'[i].id = request'[j].id
          PROVE  i = j
      BY <1>6, <2>1, <2>2, <3>2 DEF ToldApart
    <3>3. \A v, w \in work' : v.id = w.id => v = w
      BY <1>2, <2>2 DEF ToldApart
    <3> QED
      BY <3>1, <3>2, <3>3 DEF ToldApart
<1>13. \A i \in 0..numRequests : NotAnswered(i) => NotAnswered(i)'
  BY <1>1, <1>8 DEF NotAnswered
<1>14. \A o \in Operators : CommandOK(cli'[o], numRequests') /\ BatchIds(cli'[o]) = BatchIds(cli[o])
  <2>1. CommandOK(d, new)
    BY <1>1, <1>5 DEF CommandOK
  <2>2. ASSUME NEW o \in Operators  PROVE CommandOK(cli[o], new)
    BY <1>1 DEF CablesInv, CommandOK
  <2>3. BatchIds(d) = BatchIds(c)
    BY <1>5 DEF BatchIds
  <2> QED
    BY <1>1, <1>3, <2>1, <2>2, <2>3 DEF d
<1>15. AnswersAreOver'
  <2>1. ASSUME NEW j \in DOMAIN rsp'  PROVE NotAnswered(rsp[j].id)'
    <3>1. PICK i \in 0..numRequests : i = rsp'[j].id /\ NotAnswered(i)
      BY <1>1, <1>2 DEF CablesInv, CablesTypeOK, AnswersAreOver
    <3>2. NotAnswered(i)'
      BY <1>13, <3>1
    <3> QED
      BY <3>1, <3>2 DEF NotAnswered
  <2>2. ASSUME NEW o \in Operators, NEW i \in BatchIds(cli'[o])  PROVE NotAnswered(i)'
    <3>1. i \in BatchIds(cli[o]) /\ NotAnswered(i)
      BY <1>14 DEF CablesInv, AnswersAreOver
    <3>2. i \in 0..numRequests
      BY <3>1 DEF CablesInv, CommandOK, BatchIds
    <3> QED
      BY <1>13, <3>1, <3>2
  <2> QED
    BY <2>1, <2>2 DEF AnswersAreOver, BatchIds
<1>16. AloneOnChannel'
  <2>1. \A o \in Operators : Onward(cli[o], cli'[o])
    <3>1. Onward(c, d)
      BY <1>1, <1>5 DEF Onward
    <3> QED
      BY <1>3, <3>1 DEF Onward, d
  <2> QED
    BY <2>1 DEF CablesInv, AloneOnChannel, Onward
<1>17. ASSUME NEW o \in Operators  PROVE Reports(cli'[o], abandoned', res')
  <2>1. CASE o # s
    BY <1>2, <1>3, <2>1 DEF CablesInv
  <2>2. CASE o = s
    <3>1. Reports(c, abandoned, res)
      BY DEF CablesInv
    <3>2. \A p, i : Due(c, p, i, abandoned) => Due(d, p, i, abandoned)
      BY <1>1, <1>5 DEF Due
    <3>3. c.pc \notin {"idle", "report", "reported"} /\ d.pc \notin {"idle", "report", "reported"}
      BY <1>1, <1>5
    <3>4. Reports(d, abandoned, res)
      <4> HIDE DEF c
      <4> QED
        BY <1>5, <3>1, <3>2, <3>3 DEF Reports
    <3> QED
      BY <1>2, <2>2, <3>4 DEF d
  <2> QED
    BY <2>1, <2>2
<1> QED
  BY <1>7, <1>11, <1>12, <1>14, <1>15, <1>16, <1>17 DEF CablesInv

LEMMA TakeIsSafe == ASSUME CablesInv, NEW k \in DOMAIN request, Take(k) PROVE CablesInv'
<1>1. /\ ~request[k].taken /\ work' = work \cup {Asked(k, request[k].id)}
      /\ rsp' = rsp /\ res' = res /\ cli' = cli /\ numRequests' = numRequests /\ abandoned' = abandoned
      /\ request' = [request EXCEPT ![k].taken = TRUE]
  BY DEF Take, Asked
<1>2. /\ CablesTypeOK /\ k \in CableKeys /\ request[k] \in [id : 1..numRequests, taken : BOOLEAN]
  BY DEF CablesInv, CablesTypeOK
<1>3. /\ DOMAIN request' = DOMAIN request /\ request'[k] = [request[k] EXCEPT !.taken = TRUE]
      /\ \A j \in DOMAIN request : j # k => request'[j] = request[j]
      /\ request' = [j \in DOMAIN request' |-> request'[j]]
  BY <1>1, <1>2 DEF CablesTypeOK
<1>4. request'[k].taken = TRUE /\ request'[k].id = request[k].id
      /\ request'[k] \in [id : 1..numRequests, taken : BOOLEAN]
  BY <1>2, <1>3
<1>5. CablesTypeOK'
  <2>1. Asked(k, request[k].id) \in [key : CableKeys, id : 1..numRequests]
    BY <1>2 DEF Asked
  <2>2. \A j \in DOMAIN request' : request'[j] \in [id : 1..numRequests, taken : BOOLEAN]
    BY <1>2, <1>3, <1>4 DEF CablesTypeOK
  <2> QED
    <3>1. work' \subseteq [key : CableKeys, id : 1..numRequests']
      BY <1>1, <1>2, <2>1 DEF CablesTypeOK
    <3>2. DOMAIN request' \subseteq CableKeys
      BY <1>2, <1>3 DEF CablesTypeOK
    <3>3. \A j \in DOMAIN request' : request'[j] \in [id : 1..numRequests', taken : BOOLEAN]
      BY <1>1, <2>2
    <3>4. IsFiniteSet(DOMAIN rsp') /\ DOMAIN rsp' \subseteq CableKeys /\ rsp' = [j \in DOMAIN rsp' |-> rsp'[j]]
      BY <1>1, <1>2 DEF CablesTypeOK
    <3>5. \A j \in DOMAIN rsp' : rsp'[j] \in CableAnswers /\ rsp'[j].id \in 1..numRequests'
      BY <1>1, <1>2 DEF CablesTypeOK
    <3>6. /\ DOMAIN res' \subseteq CableKeys /\ \A j \in DOMAIN res' : res'[j] \in Nat
          /\ abandoned' \subseteq [key : CableKeys, id : Nat] /\ numRequests' \in Nat
      BY <1>1, <1>2 DEF CablesTypeOK
    <3>7. cli' = [o \in Operators |-> cli'[o]]
      BY <1>1, <1>2 DEF CablesTypeOK
    <3> QED
      BY <1>3, <3>1, <3>2, <3>3, <3>4, <3>5, <3>6, <3>7 DEF CablesTypeOK
<1>6. \A j, i : IsOpen(j, i)' => IsOpen(j, i)
  BY <1>1, <1>3, <1>4 DEF IsOpen, Untaken, Asked
<1>7. AllOwed'
  <2>1. \A j, i : Owed(j, i)' <=> Owed(j, i)
    BY <1>1 DEF Owed, WaitsFor
  <2> QED
    BY <1>1, <1>6, <2>1 DEF CablesInv, AllOwed, Owed, WaitsFor
<1>8. ToldApart'
  <2>1. ToldApart
    BY DEF CablesInv
  <2>2. Asked(k, request[k].id).id = request[k].id
    BY DEF Asked
  <2>3. ASSUME NEW j \in DOMAIN request', NEW w \in work', ~request'[j].taken  PROVE w.id # request'[j].id
    BY <1>1, <1>2, <1>3, <1>4, <2>1, <2>2, <2>3 DEF ToldApart
  <2>4. ASSUME NEW i \in DOMAIN request', NEW j \in DOMAIN request', ~request'[i].taken, ~request'[j].taken,
               request'[i].id = request'[j].id
        PROVE  i = j
    BY <1>3, <1>4, <2>1, <2>4 DEF ToldApart
  <2>5. \A v, w \in work' : v.id = w.id => v = w
    BY <1>1, <2>1, <2>2 DEF ToldApart
  <2> QED
    BY <2>3, <2>4, <2>5 DEF ToldApart
<1>9. AnswersAreOver'
  BY <1>1, <1>6 DEF CablesInv, AnswersAreOver, NotAnswered, BatchIds
<1>10. AloneOnChannel' /\ \A s \in Operators : CommandOK(cli'[s], numRequests') /\ Reports(cli'[s], abandoned', res')
  BY <1>1 DEF CablesInv, AloneOnChannel
<1> QED
  BY <1>5, <1>7, <1>8, <1>9, <1>10 DEF CablesInv

LEMMA AnswerIsSafe ==
  ASSUME CablesInv, NEW w \in work, NEW status \in {"True", "False"}, Answer(w, status)
  PROVE  CablesInv'
<1>0. CablesTypeOK
  BY DEF CablesInv
<1>1. PICK k \in CableKeys, i \in 1..numRequests : w = Asked(k, i) /\ w.key = k /\ w.id = i
  BY <1>0 DEF CablesTypeOK, Asked
<1>2. PICK e \in CableAnswers : e = [id |-> i, status |-> status] /\ e.id = i
  <2>1. i \in Nat /\ status \in Statuses
    <3>1. numRequests \in Nat
      BY <1>0 DEF CablesTypeOK
    <3>2. status \in Statuses
      BY DEF Statuses
    <3> QED
      BY <3>1, <3>2
  <2>2. PICK e : e = [id |-> i, status |-> status]
    OBVIOUS
  <2>3. e \in CableAnswers /\ e.id = i
    BY <2>1, <2>2 DEF CableAnswers
  <2> QED
    BY <2>2, <2>3
<1>3. PICK news \in Seq(CableEvents) : cli' = Notify(cli, k[1], news)
  <2>1. k[2] \in STRING
    BY DEF CableKeys
  <2>2. [port |-> k[2], deleted |-> FALSE] \in CableEvents
    BY <2>1 DEF CableEvents
  <2>3. <<[port |-> k[2], deleted |-> FALSE]>> \in Seq(CableEvents)
    BY <2>2
  <2> QED
    BY <1>1, <2>3 DEF Answer
<1>4. /\ work' = work \ {w} /\ res' = Put(res, k, i) /\ rsp' = Put(rsp, k, e)
      /\ request' = request /\ numRequests' = numRequests /\ abandoned' = abandoned
  BY <1>1, <1>2 DEF Answer
<1>5. Told(cli, cli')
  <2>1. \A o \in Operators : cli[o] \in CableCommands
    BY DEF CablesInv, CommandOK
  <2> QED
    BY <1>3, <2>1, SubscribersAreTold
<1>6. /\ DOMAIN rsp' = DOMAIN rsp \cup {k} /\ rsp' = [j \in DOMAIN rsp' |-> rsp'[j]] /\ rsp'[k] = e
      /\ \A j \in DOMAIN rsp : j # k => rsp'[j] = rsp[j]
      /\ DOMAIN res' = DOMAIN res \cup {k} /\ res'[k] = i
      /\ \A j \in DOMAIN res : j # k => res'[j] = res[j]
  BY <1>4 DEF Put
<1>7. CablesTypeOK'
  <2>1. IsFiniteSet(DOMAIN rsp')
    <3>1. IsFiniteSet(DOMAIN rsp) /\ DOMAIN rsp' = DOMAIN rsp \cup {k}
      BY <1>0, <1>6 DEF CablesTypeOK
    <3> QED
      BY <3>1, FS_AddElement
  <2>2. DOMAIN rsp' \subseteq CableKeys /\ DOMAIN res' \subseteq CableKeys
    BY <1>0, <1>6 DEF CablesTypeOK
  <2>3. \A j \in DOMAIN rsp' : rsp'[j] \in CableAnswers /\ rsp'[j].id \in 1..numRequests'
    BY <1>0, <1>2, <1>4, <1>6 DEF CablesTypeOK
  <2>4. \A j \in DOMAIN res' : res'[j] \in Nat
    BY <1>0, <1>6 DEF CablesTypeOK
  <2>5. work' \subseteq [key : CableKeys, id : 1..numRequests'] /\ numRequests' \in Nat
    BY <1>0, <1>4 DEF CablesTypeOK
  <2>6. /\ DOMAIN request' \subseteq CableKeys /\ request' = [j \in DOMAIN request' |-> request'[j]]
        /\ \A j \in DOMAIN request' : request'[j] \in [id : 1..numRequests', taken : BOOLEAN]
        /\ abandoned' \subseteq [key : CableKeys, id : Nat]
    BY <1>0, <1>4 DEF CablesTypeOK
  <2>7. cli' = [o \in Operators |-> cli'[o]]
    BY <1>5 DEF Told
  <2> QED
    BY <1>6, <2>1, <2>2, <2>3, <2>4, <2>5, <2>6, <2>7 DEF CablesTypeOK
<1>8. \A j, n : IsOpen(j, n)' => IsOpen(j, n)
  BY <1>4 DEF IsOpen, Untaken
<1>9. i \in Nat /\ IsOpen(k, i) /\ Owed(k, i)
  <2>1. i \in Nat /\ IsOpen(k, i)
    BY <1>0, <1>1 DEF CablesTypeOK, IsOpen
  <2> QED
    BY <2>1 DEF CablesInv, AllOwed
<1>10. \A j, n : Owed(j, n) => Owed(j, n)'
  BY <1>4, <1>5 DEF Told, Follows, Owed, WaitsFor, Waits
<1>11. AllOwed'
  <2>1. \A j \in CableKeys, n \in Nat : IsOpen(j, n)' => Owed(j, n)'
    BY <1>8, <1>10 DEF CablesInv, AllOwed
  <2>2. ASSUME NEW j \in DOMAIN rsp'  PROVE Owed(j, rsp[j].id)'
    <3>1. PICK n : n = rsp'[j].id /\ Owed(j, n)
      BY <1>2, <1>6, <1>9 DEF CablesInv, AllOwed
    <3>2. Owed(j, n)'
      BY <1>10, <3>1
    <3> QED
      BY <3>1, <3>2 DEF Owed, WaitsFor
  <2> QED
    BY <2>1, <2>2 DEF AllOwed
<1>12. ToldApart'
  BY <1>4 DEF CablesInv, ToldApart
<1>13. \A n : NotAnswered(n) => NotAnswered(n)'
  BY <1>8 DEF NotAnswered
<1>14. NotAnswered(i)'
  <2>1. ToldApart /\ w \in work /\ w \notin work'
    BY <1>4 DEF CablesInv
  <2>2. \A j : ~(Untaken(j) /\ request[j].id = i)
    BY <1>1, <2>1 DEF ToldApart, Untaken
  <2>3. \A j \in CableKeys : Asked(j, i) \notin work'
    <3>1. \A j \in CableKeys : Asked(j, i).id = i
      BY DEF Asked
    <3> QED
      BY <1>1, <1>4, <2>1, <3>1 DEF ToldApart
  <2> QED
    BY <1>4, <2>2, <2>3 DEF NotAnswered, IsOpen, Untaken
<1>15. AnswersAreOver'
  <2>1. ASSUME NEW j \in DOMAIN rsp'  PROVE NotAnswered(rsp[j].id)'
    <3>1. PICK n : n = rsp'[j].id /\ (NotAnswered(n) \/ n = i)
      BY <1>2, <1>6 DEF CablesInv, AnswersAreOver
    <3>2. NotAnswered(n)'
      BY <1>13, <1>14, <3>1
    <3> QED
      BY <3>1, <3>2 DEF NotAnswered
  <2>2. ASSUME NEW o \in Operators, NEW n \in BatchIds(cli'[o])  PROVE NotAnswered(n)'
    <3>1. n \in BatchIds(cli[o])
      BY <1>5 DEF Told, Follows, BatchIds
    <3> QED
      BY <1>13, <3>1 DEF CablesInv, AnswersAreOver
  <2> QED
    BY <2>1, <2>2 DEF AnswersAreOver, BatchIds
<1>16. AloneOnChannel'
  BY <1>5 DEF CablesInv, AloneOnChannel, Told, Follows
<1>17. ASSUME NEW o \in Operators  PROVE CommandOK(cli'[o], numRequests') /\ Reports(cli'[o], abandoned', res')
  <2> DEFINE c == cli[o]
             d == cli'[o]
  <2>1. Follows(c, d) /\ d \in CableCommands /\ CommandOK(c, numRequests) /\ Reports(c, abandoned, res)
    BY <1>5 DEF Told, CablesInv
  <2>2. ASSUME c.alone, c.pc # "idle", NEW n \in 1..Len(c.todo), <<c.channel, c.todo[n]>> = k
        PROVE  Due(c, c.todo[n], i, abandoned)
    <3>1. Owed(<<c.channel, c.todo[n]>>, i)
      BY <1>9, <2>2
    <3> QED
      BY <2>2, <3>1, OnlyOneWaits
  <2> HIDE DEF c, d
  <2>3. Reports(c, abandoned, res')
    <3> SUFFICES ASSUME c.alone, c.pc # "idle"  PROVE Reports(c, abandoned, res')
      BY DEF Reports
    <3>1. ASSUME c.ending.reads # "never", NEW n \in 1..Len(c.todo), <<c.channel, c.todo[n]>> \in DOMAIN res'
          PROVE  Due(c, c.todo[n], res'[<<c.channel, c.todo[n]>>], abandoned)
      <4>1. CASE <<c.channel, c.todo[n]>> = k
        BY <1>6, <2>2, <4>1
      <4>2. CASE <<c.channel, c.todo[n]>> # k
        BY <1>6, <2>1, <3>1, <4>2 DEF Reports
      <4> QED
        BY <4>1, <4>2
    <3> QED
      BY <2>1, <3>1 DEF Reports
  <2>4. Reports(d, abandoned, res')
    BY <2>1, <2>3 DEF Follows, Reports, Due
  <2>5. CommandOK(d, numRequests)
    BY <2>1 DEF CommandOK, Follows
  <2> QED
    BY <1>4, <2>4, <2>5 DEF d
<1> QED
  BY <1>7, <1>11, <1>12, <1>15, <1>16, <1>17 DEF CablesInv

LEMMA BeginIsSafe ==
  ASSUME CablesInv, NEW s \in Operators, NEW ch \in Channels, NEW listed \in Seq(STRING), IsInjective(listed),
         NEW ending \in Endings, Begin(s, ch, listed, ending)
  PROVE  CablesInv'
<1> DEFINE told == delete_all_keys_in_db_table(cli, ch)
           crowd == {o \in Operators \ {s} : cli[o].pc # "idle" /\ cli[o].channel = ch}
           d == cli'[s]
<1>1. /\ cli[s].pc = "idle" /\ listed # <<>>
      /\ request' = Without(request, ch) /\ rsp' = Without(rsp, ch)
      /\ res' = IF ending.reads = "never" THEN res ELSE Without(res, ch)
      /\ UNCHANGED <<work, numRequests, abandoned>>
      /\ cli' = [o \in Operators |->
                   IF o = s THEN [NoCommand EXCEPT !.pc = "subscribe", !.channel = ch, !.todo = listed,
                                                   !.ending = ending, !.alone = (crowd = {})]
                   ELSE IF o \in crowd THEN [told[o] EXCEPT !.alone = FALSE] ELSE told[o]]
  BY DEF Begin
<1>2. Told(cli, told)
  BY EveryoneIsTold
<1>3. d = [NoCommand EXCEPT !.pc = "subscribe", !.channel = ch, !.todo = listed, !.ending = ending,
                            !.alone = (crowd = {})]
      /\ cli' = [o \in Operators |-> cli'[o]]
  BY <1>1
<1>4. ASSUME NEW o \in Operators \ {s}
      PROVE  cli'[o] \in CableCommands /\ Follows(cli[o], cli'[o]) /\ (cli'[o].alone => o \notin crowd)
  <2> HIDE DEF told, crowd
  <2>1. told[o] \in CableCommands /\ Follows(cli[o], told[o])
    BY <1>2 DEF Told
  <2>2. CASE o \in crowd
    <3>1. cli'[o] = [told[o] EXCEPT !.alone = FALSE]
      BY <1>1, <2>2
    <3> QED
      BY <2>1, <3>1 DEF CableCommands, Follows
  <2>3. CASE o \notin crowd
    BY <1>1, <2>1, <2>3
  <2> QED
    BY <2>2, <2>3
<1>5. Shrinks
  <2>1. Less(res, res')
    BY <1>1, TablesShrink DEF CablesInv
  <2> QED
    BY <1>1, <1>3, <2>1, TablesShrink DEF CablesInv, CablesTypeOK, Shrinks
<1>6. /\ d.pc = "subscribe" /\ d.channel = ch /\ d.todo = listed /\ d.ending = ending /\ d.batch = <<>>
      /\ d \in CableCommands /\ (d.alone => crowd = {})
  <2>1. PICK b \in BOOLEAN : b = (crowd = {})
    OBVIOUS
  <2>2. d = [NoCommand EXCEPT !.pc = "subscribe", !.channel = ch, !.todo = listed, !.ending = ending, !.alone = b]
    BY <1>3, <2>1
  <2>3. "subscribe" \in CableStages /\ NoCommand \in CableCommands /\ NoCommand.batch = <<>>
    BY NothingAtFirst DEF CableStages, NoCommand
  <2> HIDE DEF d, crowd
  <2>4. /\ d.pc = "subscribe" /\ d.channel = ch /\ d.todo = listed /\ d.ending = ending /\ d.batch = <<>>
        /\ d \in CableCommands /\ d.alone = b
    BY <2>2, <2>3 DEF CableCommands
  <2> QED
    BY <2>1, <2>4
<1>7. Reports(d, abandoned', res')
  <2>1. Len(d.batch) = 0
    BY <1>6, EmptySeq
  <2>2. ending.reads # "never" => \A p : <<ch, p>> \notin DOMAIN res'
    <3>1. ASSUME ending.reads # "never", NEW p  PROVE <<ch, p>> \notin DOMAIN res'
      <4>1. res' = Without(res, ch) /\ <<ch, p>>[1] = ch
        BY <1>1, <3>1
      <4> QED
        BY <4>1, WithoutChannel
    <3> QED
      BY <3>1
  <2> HIDE DEF d
  <2> QED
    BY <1>6, <2>1, <2>2 DEF Reports
<1>8. Steady(s, d)
  <2> HIDE DEF d
  <2>1. /\ cli[s].pc # "wait" /\ IsInjective(d.todo) /\ (d.pc # "idle" => d.todo # <<>>)
    BY <1>1, <1>6
  <2> QED
    BY <1>5, <1>6, <1>7, <2>1, PlainIsSteady
<1>9. \A o \in Operators : Steady(o, cli'[o])
  BY <1>4, <1>5, <1>8, ListenersAreSteady, OthersAreSteady DEF d
<1>10. AloneOnChannel'
  <2> SUFFICES ASSUME NEW o \in Operators, NEW q \in Operators, o # q, cli'[o].alone, cli'[o].pc # "idle",
                      cli'[q].pc # "idle", cli'[q].channel = cli'[o].channel
               PROVE  FALSE
    BY DEF AloneOnChannel
  <2>1. CASE o = s
    <3>1. q \in crowd
      BY <1>4, <1>6, <2>1 DEF Follows
    <3> QED
      BY <1>6, <2>1, <3>1
  <2>2. CASE q = s
    <3>1. o \in crowd
      BY <1>4, <1>6, <2>2 DEF Follows
    <3> QED
      BY <1>4, <2>2, <3>1
  <2>3. CASE o # s /\ q # s
    BY <1>4, <2>3 DEF Follows, CablesInv, AloneOnChannel
  <2> QED
    BY <2>1, <2>2, <2>3
<1> QED
  BY <1>5, <1>9, <1>10, QuietStep

---------------------------------------------------------------------------
(* The commands: each begins on a channel of its own kind, for one port or *)
(* for a list of them.                                                     *)
LEMMA EndingsAre ==
  /\ Configures \in Endings /\ ShowsResult \in Endings /\ ShowsAndLeaves \in Endings
  /\ Ending(TRUE, "never", TRUE) \in Endings /\ Ending(TRUE, "always", TRUE) \in Endings
  BY DEF Configures, ShowsResult, ShowsAndLeaves, Ending, Endings

LEMMA OnePort == ASSUME NEW S, NEW p \in S PROVE <<p>> \in Seq(S) /\ IsInjective(<<p>>)
<1>1. <<p>> \in Seq(S) /\ DOMAIN <<p>> = 1..1
  OBVIOUS
<1> QED
  BY <1>1 DEF IsInjective

\* The listed at some places of a list are different when those of the list are.
LEMMA ThosePorts ==
  ASSUME NEW S, NEW listed \in Seq(S), IsInjective(listed), NEW K \in SUBSET DOMAIN listed, NEW asked \in Those(listed, K)
  PROVE  asked \in Seq(S) /\ IsInjective(asked)
<1>1. Len(listed) \in Nat /\ DOMAIN listed = 1..Len(listed) /\ \A n \in DOMAIN listed : listed[n] \in S
  OBVIOUS
<1>2. IsFiniteSet(K) /\ Cardinality(K) \in Nat
  <2>1. IsFiniteSet(1..Len(listed))
    BY <1>1, FS_Interval
  <2> QED
    BY <1>1, <2>1, FS_Subset, FS_CardinalityType
<1>3. PICK m \in [1..Cardinality(K) -> K] :
        /\ asked = [i \in DOMAIN m |-> listed[m[i]]]
        /\ \A i, j \in DOMAIN m : i < j => m[i] < m[j]
  BY DEF Those, Increasing, SetToSeqs
<1>4. asked = [i \in 1..Cardinality(K) |-> listed[m[i]]] /\ DOMAIN asked = 1..Cardinality(K)
  BY <1>3
<1>5. asked \in Seq(S)
  <2>1. \A i \in 1..Cardinality(K) : listed[m[i]] \in S
    BY <1>1, <1>3
  <2>2. asked \in [1..Cardinality(K) -> S]
    BY <1>4, <2>1
  <2> QED
    BY <1>2, <2>2
<1>6. \A i \in 1..Cardinality(K) : m[i] \in 1..Len(listed)
  BY <1>1, <1>3
<1>7. ASSUME NEW a \in DOMAIN asked, NEW b \in DOMAIN asked, asked[a] = asked[b]  PROVE a = b
  <2>1. m[a] = m[b]
    BY <1>1, <1>4, <1>6, <1>7 DEF IsInjective
  <2> QED
    BY <1>2, <1>3, <1>4, <1>6, <2>1
<1> QED
  BY <1>5, <1>7 DEF IsInjective

LEMMA CommandIsSafe == ASSUME CablesInv, NEW s \in Operators, CableCommand(s) PROVE CablesInv'
<1>1. ASSUME NEW p \in STRING, NEW ch \in Channels, NEW ending \in Endings, Begin(s, ch, <<p>>, ending)
      PROVE  CablesInv'
  BY <1>1, OnePort, BeginIsSafe
<1>2. ASSUME NEW listed \in PortLists, NEW ch \in Channels, NEW ending \in Endings, Begin(s, ch, listed, ending)
      PROVE  CablesInv'
  BY <1>2, BeginIsSafe DEF PortLists
<1>3. ASSUME NEW listed \in PortLists, NEW K \in SUBSET DOMAIN listed, NEW asked \in Those(listed, K),
             NEW ch \in Channels, NEW ending \in Endings, Begin(s, ch, asked, ending)
      PROVE  CablesInv'
  <2>1. asked \in Seq(STRING) /\ IsInjective(asked)
    BY ThosePorts DEF PortLists
  <2> QED
    BY <1>3, <2>1, BeginIsSafe
<1>4. ASSUME NEW p \in STRING,
             \/ prbs_enable(s, p) \/ prbs_disable(s, p) \/ reset(s, p) \/ set_anlt(s, p) \/ set_fec(s, p)
             \/ loopback_enable(s, p) \/ loopback_disable(s, p) \/ download(s, p)
      PROVE  CablesInv'
  <2>1. "CONFIG_PRBS" \in Channels /\ "CONFIG_LOOP" \in Channels /\ "DOWN_FW" \in Channels
    BY DEF Channels
  <2>2. CASE Begin(s, "CONFIG_PRBS", <<p>>, Configures)
    BY <1>1, <2>1, <2>2, EndingsAre
  <2>3. CASE Begin(s, "CONFIG_LOOP", <<p>>, Configures)
    BY <1>1, <2>1, <2>3, EndingsAre
  <2>4. CASE Begin(s, "DOWN_FW", <<p>>, Configures)
    BY <1>1, <2>1, <2>4, EndingsAre
  <2> QED
    BY <1>4, <2>2, <2>3, <2>4
       DEF prbs_enable, prbs_disable, reset, set_anlt, set_fec, loopback_enable, loopback_disable, download
<1>5. ASSUME NEW p \in STRING,
             \/ berinfo(s, p) \/ eyeinfo(s, p) \/ fecstatistics(s, p) \/ pcsstatistics(s, p)
             \/ debugdumpregisters(s, p) \/ alivecablestatus(s, p)
             \/ queueinfo(s, p) \/ health(s, p) \/ resetcause(s, p) \/ operationtime(s, p)
             \/ get_fec_anlt_speed(s, p) \/ event_log(s, p) \/ version(s, p)
      PROVE  CablesInv'
  <2>1. "GET_BER" \in Channels /\ "GET_FEC" \in Channels /\ "EVENT_LOG" \in Channels /\ "SHOW_FW" \in Channels
    BY DEF Channels
  <2>2. CASE Begin(s, "GET_BER", <<p>>, ShowsResult)
    BY <1>1, <2>1, <2>2, EndingsAre
  <2>3. CASE Begin(s, "GET_BER", <<p>>, ShowsAndLeaves)
    BY <1>1, <2>1, <2>3, EndingsAre
  <2>4. CASE Begin(s, "GET_FEC", <<p>>, ShowsResult)
    BY <1>1, <2>1, <2>4, EndingsAre
  <2>5. CASE Begin(s, "EVENT_LOG", <<p>>, ShowsResult)
    BY <1>1, <2>1, <2>5, EndingsAre
  <2>6. CASE Begin(s, "SHOW_FW", <<p>>, ShowsResult)
    BY <1>1, <2>1, <2>6, EndingsAre
  <2> QED
    BY <1>5, <2>2, <2>3, <2>4, <2>5, <2>6
       DEF berinfo, eyeinfo, fecstatistics, pcsstatistics, debugdumpregisters, alivecablestatus, queueinfo,
           health, resetcause, operationtime, get_fec_anlt_speed, event_log, version
<1>6. ASSUME NEW listed \in PortLists,
             hwmode_state(s, listed) \/ setswitchmode(s, listed) \/ activate(s, listed) \/ rollback(s, listed)
      PROVE  CablesInv'
  <2>1. /\ "CONFIG_HWMODE_DIR" \in Channels /\ "CONFIG_HWMODE_SWMODE" \in Channels
        /\ "ACTI_FW" \in Channels /\ "ROLL_FW" \in Channels
    BY DEF Channels
  <2>2. CASE Begin(s, "CONFIG_HWMODE_DIR", listed, Configures)
    BY <1>2, <2>1, <2>2, EndingsAre
  <2>3. CASE Begin(s, "CONFIG_HWMODE_SWMODE", listed, Configures)
    BY <1>2, <2>1, <2>3, EndingsAre
  <2>4. CASE Begin(s, "ACTI_FW", listed, Configures)
    BY <1>2, <2>1, <2>4, EndingsAre
  <2>5. CASE Begin(s, "ROLL_FW", listed, Configures)
    BY <1>2, <2>1, <2>5, EndingsAre
  <2> QED
    BY <1>6, <2>2, <2>3, <2>4, <2>5 DEF hwmode_state, setswitchmode, activate, rollback
<1>7. ASSUME NEW listed \in PortLists, switchmode(s, listed)  PROVE CablesInv'
  <2>1. PICK asked \in Those(listed, InMuxTable(listed)) :
          Begin(s, "SHOW_HWMODE_SWMODE", asked, Ending(TRUE, "never", TRUE))
    BY <1>7 DEF switchmode
  <2>2. InMuxTable(listed) \in SUBSET DOMAIN listed /\ "SHOW_HWMODE_SWMODE" \in Channels
    BY DEF InMuxTable, Channels
  <2> QED
    BY <1>3, <2>1, <2>2, EndingsAre
<1>8. ASSUME NEW listed \in PortLists, get_hwmode_mux_direction_port(s, listed)  PROVE CablesInv'
  <2>1. PICK K, asked : /\ K = {n \in InMuxTable(listed) : ActiveStandby(listed[n])} /\ asked \in Those(listed, K)
                        /\ Begin(s, "SHOW_HWMODE_DIR", asked, Ending(TRUE, "always", TRUE))
    BY <1>8 DEF get_hwmode_mux_direction_port
  <2>2. K \in SUBSET DOMAIN listed /\ "SHOW_HWMODE_DIR" \in Channels
    BY <2>1 DEF InMuxTable, Channels
  <2> QED
    BY <1>3, <2>1, <2>2, EndingsAre
<1> QED
  BY <1>4, <1>5, <1>6, <1>7, <1>8, DownloadAllIsSafe DEF CableCommand

LEMMA CablesStep == CablesInv /\ [CablesNext]_muxVars => CablesInv'
<1> SUFFICES ASSUME CablesInv, [CablesNext]_muxVars  PROVE CablesInv'
  OBVIOUS
<1>1. CASE UNCHANGED muxVars
  <2>1. Told(cli, cli)
    BY EveryoneIsTold
  <2>2. Shrinks
    BY <1>1, <2>1, TablesShrink DEF CablesInv, CablesTypeOK, muxVars, Shrinks
  <2> QED
    BY <1>1, <2>1, <2>2, AllListen DEF muxVars, Told
<1>2. CASE \E s \in Operators : CableCommand(s) \/ Subscribe(s) \/ Ask(s) \/ update_and_get_response_for_xcvr_cmd(s)
  BY <1>2, CommandIsSafe, SubscribeIsSafe, AskIsSafe, ReadingIsSafe
<1>3. CASE \E s \in Operators : TimeOut(s) \/ Report(s) \/ NextPort(s)
  BY <1>3, TimeOutIsSafe, ReportIsSafe, NextPortIsSafe
<1>4. CASE \E k \in DOMAIN request : Take(k)
  BY <1>4, TakeIsSafe
<1>5. CASE \E w \in work, status \in {"True", "False"} : Answer(w, status)
  BY <1>5, AnswerIsSafe
<1>6. CASE DaemonRestart
  BY <1>6, RestartIsSafe
<1> QED
  BY <1>1, <1>2, <1>3, <1>4, <1>5, <1>6 DEF CablesNext

\* What a command on the cables reports comes from an answer for its own
\* port, to its own request or to one that was given up, unless commands
\* overlapped on the channel: for any operators, listed and commands.
THEOREM AnswersAreOwn == CablesSpec => []OwnAnswer
<1>1. CablesSpec => []CablesInv
  BY CablesInitial, CablesStep, PTL DEF CablesSpec
<1> QED
  BY <1>1, OwnAnswerHolds, PTL

(***************************************************************************)
(* The reload.  A reload or load_minigraph that ran alone and ended well   *)
(* leaves in every database its source and nothing else, for any           *)
(* namespaces, files and commands that are refused, die, or run beside     *)
(* others.  For a command that is alone so far, what a database holds is   *)
(* told by the steps that remain for its namespace.                        *)
(***************************************************************************)
Remains(q, n, x) == \E i \in 1..Len(q) : q[i] = <<x, n>>
Absent(q, x) == \A i \in 1..Len(q) : q[i][1] # x
\* In each namespace y is still to come after x, and after x no y is to come.
Later(q, x, y) == \A i \in 1..Len(q) : q[i][1] = x => \E j \in i + 1..Len(q) : q[j] = <<y, q[i][2]>>
NoMore(q, x, y) == \A i \in 1..Len(q) : q[i][1] = x => \A j \in i + 1..Len(q) : q[j] # <<y, q[i][2]>>
\* Between a check and a sysinfo step of another namespace is the check of that one.
ChecksFirst(q) ==
  \A i \in 1..Len(q), j \in 1..Len(q) :
    i <= j /\ q[i][1] = "check" /\ q[j][1] = "sysinfo" => \E k \in i..j : q[k] = <<"check", q[j][2]>>

ReloadSteps ==
  {"stop", "check", "flush", "forget", "sysinfo", "write", "mark", "migrate", "reset_failed", "restart"}
ReloadCourse(q) ==
  /\ q \in Seq(ReloadSteps \X NS) /\ ChecksFirst(q)
  /\ Later(q, "flush", "sysinfo") /\ Later(q, "flush", "write") /\ Later(q, "flush", "mark")
  /\ Later(q, "flush", "migrate") /\ Later(q, "write", "migrate")
  /\ NoMore(q, "sysinfo", "check") /\ NoMore(q, "write", "flush") /\ NoMore(q, "write", "sysinfo")
  /\ NoMore(q, "write", "write")
MinigraphSteps ==
  {"forget", "stop", "flush", "minigraph", "mark", "port_config", "set_version", "platform_plugin",
   "reset_failed", "restart", "override", "apply"}
MinigraphCourse(q, tag) ==
  /\ q \in Seq(MinigraphSteps \X NS)
  /\ Later(q, "flush", "minigraph") /\ Later(q, "flush", "mark") /\ Later(q, "flush", "set_version")
  /\ Later(q, "minigraph", "set_version")
  /\ NoMore(q, "minigraph", "flush") /\ NoMore(q, "minigraph", "minigraph")
  /\ tag # "golden" => Absent(q, "override") /\ Absent(q, "apply")
  /\ tag = "golden" =>
       /\ Later(q, "flush", "override") /\ Later(q, "minigraph", "apply") /\ Later(q, "override", "apply")
       /\ NoMore(q, "override", "minigraph") /\ NoMore(q, "override", "override")
       /\ NoMore(q, "apply", "minigraph") /\ NoMore(q, "apply", "override") /\ NoMore(q, "apply", "apply")

\* A database c, with the steps q of a reload left for its namespace n, from a file with f.
Reloaded(c, f, q, n, sysnow) ==
  /\ ~Remains(q, n, "flush") /\ Remains(q, n, "write") => c.tags = {}
  /\ ~Remains(q, n, "check") /\ Remains(q, n, "sysinfo") => sysnow \/ f.sysinfo
  /\ ~Remains(q, n, "sysinfo") /\ Remains(q, n, "write") => c.sysinfo \/ f.sysinfo
  /\ ~Remains(q, n, "write") => c.tags = f.tags /\ c.sysinfo
  /\ ~Remains(q, n, "mark") => c.mark
  /\ ~Remains(q, n, "migrate") => c.latest
\* The same for load_minigraph, with the golden configuration g.
Regenerated(c, g, q, n, tag) ==
  /\ ~Remains(q, n, "flush") /\ Remains(q, n, "minigraph") => c.tags = {}
  /\ ~Remains(q, n, "minigraph") =>
       c.tags = {"minigraph"} \cup (IF tag = "golden" /\ ~Remains(q, n, "apply") THEN g.config.tags ELSE {})
  /\ ~Remains(q, n, "minigraph") /\ (Remains(q, n, "override") \/ ~Remains(q, n, "apply")) => c.sysinfo
  /\ ~Remains(q, n, "override") /\ Remains(q, n, "apply") => c.sysinfo \/ (g.exists /\ HasMetadata(g.config))
  /\ ~Remains(q, n, "mark") => c.mark
  /\ ~Remains(q, n, "set_version") => c.latest

FilesAmong(files, name) == IF name = "default" THEN files ELSE NamedFiles[name]
\* The databases dbs are on the way to what a command with this tag loads, q is left of it.
OnCourse(tag, name, sysnow, q, dbs, files) ==
  \/ /\ tag \in FileNames /\ name = tag /\ ReloadCourse(q)
     /\ \A n \in NS : /\ FilesAmong(files, tag)[n].valid
                     /\ Reloaded(dbs[n], FilesAmong(files, tag)[n].config, q, n, sysnow)
  \/ /\ tag \in {"minigraph", "golden"} /\ MinigraphCourse(q, tag)
     /\ \A n \in NS : Regenerated(dbs[n], Golden[n], q, n, tag)
Whole(tag, dbs, files) ==
  \A n \in NS :
    /\ dbs[n].tags = CASE tag = "minigraph" -> {"minigraph"}
                       [] tag = "golden" -> {"minigraph"} \cup Golden[n].config.tags
                       [] OTHER -> FilesAmong(files, tag)[n].config.tags
    /\ dbs[n].sysinfo /\ dbs[n].mark /\ dbs[n].latest

AllSteps == ReloadSteps \cup MinigraphSteps \cup {"merge", "truncate", "dump", "reopen", "sort", "mgmt"}
IsAdmin(c) ==
  /\ c = [steps |-> c.steps, files |-> c.files, sysinfo |-> c.sysinfo, now |-> c.now, held |-> c.held,
          tag |-> c.tag, alone |-> c.alone]
  /\ c.steps \in Seq(AllSteps \X NS) /\ (c.held.valid => c.held.exists)
AreConfigs(dbs, files) ==
  /\ dbs = [n \in NS |-> dbs[n]] /\ files = [n \in NS |-> files[n]]
  /\ \A n \in NS : IsConfig(dbs[n]) /\ (files[n].valid => files[n].exists)
ReloadInv ==
  /\ AreConfigs(cfg, etc) /\ admin = [a \in Admins |-> admin[a]]
  /\ \A a \in Admins : IsAdmin(admin[a])
  /\ Running # {} => done = NoTag
  /\ \A a \in Running : admin[a].alone => Running = {a}
  /\ \A a \in Running :
       admin[a].alone /\ admin[a].tag # NoTag =>
         OnCourse(admin[a].tag, admin[a].files, admin[a].now, admin[a].steps, cfg, etc)
  /\ done # NoTag => Whole(done, cfg, etc)

(* What a sequence of steps looks like from its head. *)
LEMMA HeadOfSteps ==
  ASSUME NEW S, NEW q \in Seq(S \X NS), q # <<>>
  PROVE  /\ Len(q) \in Nat /\ Len(q) >= 1 /\ q[1] \in S \X NS /\ q[1][1] \in S /\ q[1][2] \in NS
         /\ q[1] = <<q[1][1], q[1][2]>>
         /\ Tail(q) \in Seq(S \X NS) /\ Len(Tail(q)) = Len(q) - 1
         /\ \A i \in 1..Len(Tail(q)) : Tail(q)[i] = q[i + 1]
         /\ \A i \in 1..Len(q) : q[i] \in S \X NS
  <1>1. Len(q) \in Nat /\ Len(q) >= 1 /\ \A i \in 1..Len(q) : q[i] \in S \X NS
    BY EmptySeq, LenProperties, ElementOfSeq
  <1>2. q[1] \in S \X NS
    BY <1>1
  <1> QED
    BY <1>1, <1>2, HeadTailProperties

(* What remains is the head and what remains after it. *)
LEMMA RemainsAtHead ==
  ASSUME NEW S, NEW q \in Seq(S \X NS), q # <<>>, NEW n, NEW x
  PROVE  Remains(q, n, x) <=> (q[1] = <<x, n>> \/ Remains(Tail(q), n, x))
  <1>1. /\ Len(q) \in Nat /\ Len(q) >= 1 /\ Len(Tail(q)) = Len(q) - 1
        /\ \A i \in 1..Len(Tail(q)) : Tail(q)[i] = q[i + 1]
    BY HeadOfSteps
  <1>2. ASSUME Remains(q, n, x), q[1] # <<x, n>>
        PROVE  Remains(Tail(q), n, x)
    <2>1. PICK i \in 1..Len(q) : q[i] = <<x, n>>
      BY <1>2 DEF Remains
    <2>2. i # 1
      BY <2>1, <1>2
    <2>3. i - 1 \in 1..Len(Tail(q)) /\ i = (i - 1) + 1
      BY <1>1, <2>1, <2>2
    <2>4. Tail(q)[i - 1] = q[i]
      BY <1>1, <2>3
    <2> QED
      BY <2>1, <2>3, <2>4 DEF Remains
  <1>3. ASSUME Remains(Tail(q), n, x)
        PROVE  Remains(q, n, x)
    <2>1. PICK i \in 1..Len(Tail(q)) : Tail(q)[i] = <<x, n>>
      BY <1>3 DEF Remains
    <2>2. i + 1 \in 1..Len(q) /\ q[i + 1] = <<x, n>>
      BY <1>1, <2>1
    <2> QED
      BY <2>2 DEF Remains
  <1>4. q[1] = <<x, n>> => Remains(q, n, x)
    BY <1>1 DEF Remains
  <1> QED
    BY <1>2, <1>3, <1>4

(* An order of the steps also holds for what is left after the head. *)
LEMMA OrderOfTail ==
  ASSUME NEW S, NEW q \in Seq(S \X NS), q # <<>>, NEW x, NEW y
  PROVE  /\ Later(q, x, y) => Later(Tail(q), x, y)
         /\ NoMore(q, x, y) => NoMore(Tail(q), x, y)
  <1>1. /\ Len(q) \in Nat /\ Len(q) >= 1 /\ Len(Tail(q)) = Len(q) - 1
        /\ \A i \in 1..Len(Tail(q)) : Tail(q)[i] = q[i + 1]
    BY HeadOfSteps
  <1>2. ASSUME Later(q, x, y)
        PROVE  Later(Tail(q), x, y)
    <2>1. SUFFICES ASSUME NEW i \in 1..Len(Tail(q)), Tail(q)[i][1] = x
                   PROVE  \E j \in i + 1..Len(Tail(q)) : Tail(q)[j] = <<y, Tail(q)[i][2]>>
      BY DEF Later
    <2>2. i + 1 \in 1..Len(q) /\ Tail(q)[i] = q[i + 1] /\ i \in Nat
      BY <1>1, <2>1
    <2>3. PICK j \in (i + 1) + 1..Len(q) : q[j] = <<y, q[i + 1][2]>>
      BY <1>2, <2>1, <2>2 DEF Later
    <2>4. j - 1 \in i + 1..Len(Tail(q)) /\ j - 1 \in 1..Len(Tail(q)) /\ (j - 1) + 1 = j
      BY <1>1, <2>2, <2>3
    <2>5. Tail(q)[j - 1] = q[j]
      BY <1>1, <2>4
    <2> QED
      BY <2>2, <2>3, <2>4, <2>5
  <1>3. ASSUME NoMore(q, x, y)
        PROVE  NoMore(Tail(q), x, y)
    <2>1. SUFFICES ASSUME NEW i \in 1..Len(Tail(q)), Tail(q)[i][1] = x, NEW j \in i + 1..Len(Tail(q))
                   PROVE  Tail(q)[j] # <<y, Tail(q)[i][2]>>
      BY DEF NoMore
    <2>2. i + 1 \in 1..Len(q) /\ Tail(q)[i] = q[i + 1] /\ i \in Nat
      BY <1>1, <2>1
    <2>3. j + 1 \in (i + 1) + 1..Len(q) /\ j \in 1..Len(Tail(q))
      BY <1>1, <2>1, <2>2
    <2>4. Tail(q)[j] = q[j + 1]
      BY <1>1, <2>3
    <2> QED
      BY <1>3, <2>1, <2>2, <2>3, <2>4 DEF NoMore
  <1> QED
    BY <1>2, <1>3

(* What is to come after the head remains, and what is not does not. *)
LEMMA OrderAtHead ==
  ASSUME NEW S, NEW q \in Seq(S \X NS), q # <<>>, NEW y
  PROVE  /\ Later(q, q[1][1], y) => Remains(Tail(q), q[1][2], y)
         /\ NoMore(q, q[1][1], y) => ~Remains(Tail(q), q[1][2], y)
  <1>1. /\ Len(q) \in Nat /\ Len(q) >= 1 /\ Len(Tail(q)) = Len(q) - 1
        /\ \A i \in 1..Len(Tail(q)) : Tail(q)[i] = q[i + 1]
    BY HeadOfSteps
  <1>2. ASSUME Later(q, q[1][1], y)
        PROVE  Remains(Tail(q), q[1][2], y)
    <2>1. PICK j \in 1 + 1..Len(q) : q[j] = <<y, q[1][2]>>
      BY <1>1, <1>2 DEF Later
    <2>2. j - 1 \in 1..Len(Tail(q)) /\ (j - 1) + 1 = j
      BY <1>1, <2>1
    <2>3. Tail(q)[j - 1] = <<y, q[1][2]>>
      BY <1>1, <2>1, <2>2
    <2> QED
      BY <2>2, <2>3 DEF Remains
  <1>3. ASSUME NoMore(q, q[1][1], y), Remains(Tail(q), q[1][2], y)
        PROVE  FALSE
    <2>1. PICK j \in 1..Len(Tail(q)) : Tail(q)[j] = <<y, q[1][2]>>
      BY <1>3 DEF Remains
    <2>2. j + 1 \in 1 + 1..Len(q) /\ q[j + 1] = <<y, q[1][2]>>
      BY <1>1, <2>1
    <2> QED
      BY <1>1, <1>3, <2>2 DEF NoMore
  <1> QED
    BY <1>2, <1>3

LEMMA RemainsLater ==
  ASSUME NEW S, NEW q \in Seq(S \X NS), NEW n, NEW x, NEW y, Later(q, x, y), Remains(q, n, x)
  PROVE  Remains(q, n, y)
  <1>1. PICK i \in 1..Len(q) : q[i] = <<x, n>>
    BY DEF Remains
  <1>2. PICK j \in i + 1..Len(q) : q[j] = <<y, q[i][2]>>
    <2>1. q[i][1] = x
      BY <1>1
    <2> QED
      BY <2>1 DEF Later
  <1>3. Len(q) \in Nat
    BY LenProperties
  <1>4. j \in 1..Len(q)
    BY <1>1, <1>2, <1>3
  <1> QED
    BY <1>1, <1>2, <1>4 DEF Remains

(* The namespaces whose file is not checked yet are checked before sysinfo. *)
LEMMA ChecksOfTail ==
  ASSUME NEW S, NEW q \in Seq(S \X NS), q # <<>>, ChecksFirst(q)
  PROVE  /\ ChecksFirst(Tail(q))
         /\ q[1][1] = "check" =>
              \A m : m # q[1][2] /\ Remains(Tail(q), m, "sysinfo") => Remains(Tail(q), m, "check")
  <1>1. /\ Len(q) \in Nat /\ Len(q) >= 1 /\ Len(Tail(q)) = Len(q) - 1
        /\ \A i \in 1..Len(Tail(q)) : Tail(q)[i] = q[i + 1]
    BY HeadOfSteps
  <1>2. ASSUME NEW i \in 1..Len(Tail(q)), NEW j \in 1..Len(Tail(q)),
               i <= j, Tail(q)[i][1] = "check", Tail(q)[j][1] = "sysinfo"
        PROVE  \E k \in i..j : Tail(q)[k] = <<"check", Tail(q)[j][2]>>
    <2>1. i + 1 \in 1..Len(q) /\ j + 1 \in 1..Len(q) /\ i + 1 <= j + 1 /\ i \in Nat /\ j \in Nat
      BY <1>1, <1>2
    <2>2. Tail(q)[i] = q[i + 1] /\ Tail(q)[j] = q[j + 1]
      BY <1>1
    <2>3. PICK k \in i + 1..j + 1 : q[k] = <<"check", q[j + 1][2]>>
      BY <1>2, <2>1, <2>2 DEF ChecksFirst
    <2>4. k - 1 \in i..j /\ k - 1 \in 1..Len(Tail(q)) /\ (k - 1) + 1 = k
      BY <1>1, <2>1, <2>3
    <2>5. Tail(q)[k - 1] = q[k]
      BY <1>1, <2>4
    <2> QED
      BY <2>2, <2>3, <2>4, <2>5
  <1>3. ASSUME q[1][1] = "check", NEW m, m # q[1][2], Remains(Tail(q), m, "sysinfo")
        PROVE  Remains(Tail(q), m, "check")
    <2>1. PICK j \in 1..Len(Tail(q)) : Tail(q)[j] = <<"sysinfo", m>>
      BY <1>3 DEF Remains
    <2>2. j + 1 \in 1..Len(q) /\ 1 \in 1..Len(q) /\ 1 <= j + 1 /\ q[j + 1] = <<"sysinfo", m>>
      BY <1>1, <2>1
    <2>3. PICK k \in 1..j + 1 : q[k] = <<"check", m>>
      <3>1. q[j + 1][1] = "sysinfo" /\ q[j + 1][2] = m
        BY <2>2
      <3>2. \E k \in 1..j + 1 : q[k] = <<"check", q[j + 1][2]>>
        BY <1>3, <2>2, <3>1 DEF ChecksFirst
      <3> QED
        BY <3>1, <3>2
    <2>4. k # 1
      BY <1>3, <2>3
    <2>5. k - 1 \in 1..Len(Tail(q)) /\ (k - 1) + 1 = k
      BY <1>1, <2>1, <2>3, <2>4
    <2>6. Tail(q)[k - 1] = <<"check", m>>
      BY <1>1, <2>3, <2>5
    <2> QED
      BY <2>5, <2>6 DEF Remains
  <1> QED
    BY <1>2, <1>3 DEF ChecksFirst

(* Steps put one after the other. *)
IsJoined(S, q, p, r) ==
  /\ q \in Seq(S \X NS) /\ Len(p) \in Nat /\ Len(r) \in Nat /\ Len(q) = Len(p) + Len(r)
  /\ \A i \in 1..Len(p) : i \in 1..Len(q) /\ q[i] = p[i]
  /\ \A j \in 1..Len(r) : Len(p) + j \in 1..Len(q) /\ q[Len(p) + j] = r[j]
  /\ \A i \in 1..Len(q) : i \in 1..Len(p) \/ \E j \in 1..Len(r) : i = Len(p) + j
LEMMA JoinedSteps ==
  ASSUME NEW S, NEW p \in Seq(S \X NS), NEW r \in Seq(S \X NS)
  PROVE  IsJoined(S, p \o r, p, r)
  <1>1. Len(p) \in Nat /\ Len(r) \in Nat
    BY LenProperties
  <1>2. /\ p \o r \in Seq(S \X NS) /\ Len(p \o r) = Len(p) + Len(r)
        /\ \A i \in 1..Len(p) + Len(r) : (p \o r)[i] = IF i <= Len(p) THEN p[i] ELSE r[i - Len(p)]
    BY ConcatProperties
  <1>3. ASSUME NEW j \in 1..Len(r)
        PROVE  Len(p) + j \in 1..Len(p \o r) /\ (p \o r)[Len(p) + j] = r[j]
    <2>1. Len(p) + j \in 1..Len(p) + Len(r) /\ ~(Len(p) + j <= Len(p)) /\ (Len(p) + j) - Len(p) = j
      BY <1>1, <1>3
    <2> QED
      BY <1>2, <2>1
  <1>4. ASSUME NEW i \in 1..Len(p)
        PROVE  i \in 1..Len(p \o r) /\ (p \o r)[i] = p[i]
    <2>1. i \in 1..Len(p) + Len(r) /\ i <= Len(p)
      BY <1>1, <1>4
    <2> QED
      BY <1>2, <2>1
  <1>5. ASSUME NEW i \in 1..Len(p \o r), i \notin 1..Len(p)
        PROVE  \E j \in 1..Len(r) : i = Len(p) + j
    <2>1. i - Len(p) \in 1..Len(r) /\ i = Len(p) + (i - Len(p))
      BY <1>1, <1>2, <1>5
    <2> QED
      BY <2>1
  <1> QED
    BY <1>1, <1>2, <1>3, <1>4, <1>5 DEF IsJoined

LEMMA JoinedRemains ==
  ASSUME NEW S, NEW p, NEW r, NEW q, IsJoined(S, q, p, r), NEW x
  PROVE  /\ \A n : Remains(q, n, x) <=> Remains(p, n, x) \/ Remains(r, n, x)
         /\ Absent(q, x) <=> Absent(p, x) /\ Absent(r, x)
  <1>1. /\ q \in Seq(S \X NS) /\ Len(p) \in Nat /\ Len(r) \in Nat /\ Len(q) = Len(p) + Len(r)
        /\ \A i \in 1..Len(p) : i \in 1..Len(q) /\ q[i] = p[i]
        /\ \A j \in 1..Len(r) : Len(p) + j \in 1..Len(q) /\ q[Len(p) + j] = r[j]
        /\ \A i \in 1..Len(q) : i \in 1..Len(p) \/ \E j \in 1..Len(r) : i = Len(p) + j
    BY DEF IsJoined
  <1>2. ASSUME NEW n
        PROVE  Remains(q, n, x) <=> Remains(p, n, x) \/ Remains(r, n, x)
    <2>1. Remains(p, n, x) => Remains(q, n, x)
      BY <1>1 DEF Remains
    <2>2. Remains(r, n, x) => Remains(q, n, x)
      BY <1>1 DEF Remains
    <2>3. ASSUME NEW i \in 1..Len(q), q[i] = <<x, n>>
          PROVE  Remains(p, n, x) \/ Remains(r, n, x)
      <3>1. CASE i \in 1..Len(p)
        BY <1>1, <2>3, <3>1 DEF Remains
      <3>2. CASE \E j \in 1..Len(r) : i = Len(p) + j
        BY <1>1, <2>3, <3>2 DEF Remains
      <3> QED
        BY <1>1, <3>1, <3>2
    <2> QED
      BY <2>1, <2>2, <2>3 DEF Remains
  <1>3. Absent(q, x) => Absent(p, x) /\ Absent(r, x)
    BY <1>1 DEF Absent
  <1>4. ASSUME Absent(p, x), Absent(r, x), NEW i \in 1..Len(q)
        PROVE  q[i][1] # x
    <2>1. CASE i \in 1..Len(p)
      <3>1. q[i] = p[i] /\ p[i][1] # x
        BY <1>1, <1>4, <2>1 DEF Absent
      <3> QED
        BY <3>1
    <2>2. ASSUME NEW j \in 1..Len(r), i = Len(p) + j
          PROVE  q[i][1] # x
      <3>1. q[i] = r[j] /\ r[j][1] # x
        BY <1>1, <1>4, <2>2 DEF Absent
      <3> QED
        BY <3>1
    <2> QED
      BY <1>1, <2>1, <2>2
  <1> QED
    BY <1>2, <1>3, <1>4 DEF Absent

LEMMA JoinedLater ==
  ASSUME NEW S, NEW p, NEW r, NEW q, IsJoined(S, q, p, r), NEW x, NEW y,
         Later(p, x, y) \/ \A n \in NS : Remains(r, n, y), Later(r, x, y)
  PROVE  Later(q, x, y)
  <1>1. /\ q \in Seq(S \X NS) /\ Len(p) \in Nat /\ Len(r) \in Nat /\ Len(q) = Len(p) + Len(r)
        /\ \A i \in 1..Len(p) : i \in 1..Len(q) /\ q[i] = p[i]
        /\ \A j \in 1..Len(r) : Len(p) + j \in 1..Len(q) /\ q[Len(p) + j] = r[j]
        /\ \A i \in 1..Len(q) : i \in 1..Len(p) \/ \E j \in 1..Len(r) : i = Len(p) + j
    BY DEF IsJoined
  <1>2. ASSUME NEW i \in 1..Len(q), q[i][1] = x
        PROVE  \E j \in i + 1..Len(q) : q[j] = <<y, q[i][2]>>
    <2>1. ASSUME i \in 1..Len(p), Later(p, x, y)
          PROVE  \E j \in i + 1..Len(q) : q[j] = <<y, q[i][2]>>
      <3>1. PICK j \in i + 1..Len(p) : p[j] = <<y, p[i][2]>>
        BY <1>1, <1>2, <2>1 DEF Later
      <3>2. j \in i + 1..Len(q) /\ j \in 1..Len(p)
        BY <1>1, <1>2, <2>1, <3>1
      <3> QED
        BY <1>1, <2>1, <3>1, <3>2
    <2>2. ASSUME i \in 1..Len(p), \A n \in NS : Remains(r, n, y)
          PROVE  \E j \in i + 1..Len(q) : q[j] = <<y, q[i][2]>>
      <3>1. q[i] \in S \X NS
        BY <1>1, <1>2, ElementOfSeq
      <3>2. PICK j \in 1..Len(r) : r[j] = <<y, q[i][2]>>
        BY <2>2, <3>1 DEF Remains
      <3>3. Len(p) + j \in i + 1..Len(q)
        BY <1>1, <1>2, <2>2, <3>2
      <3> QED
        BY <1>1, <3>2, <3>3
    <2>3. ASSUME NEW k \in 1..Len(r), i = Len(p) + k
          PROVE  \E j \in i + 1..Len(q) : q[j] = <<y, q[i][2]>>
      <3>1. PICK j \in k + 1..Len(r) : r[j] = <<y, r[k][2]>>
        BY <1>1, <1>2, <2>3 DEF Later
      <3>2. Len(p) + j \in i + 1..Len(q) /\ j \in 1..Len(r)
        BY <1>1, <1>2, <2>3, <3>1
      <3> QED
        BY <1>1, <2>3, <3>1, <3>2
    <2> QED
      BY <1>1, <2>1, <2>2, <2>3
  <1> QED
    BY <1>2 DEF Later

LEMMA JoinedNoMore ==
  ASSUME NEW S, NEW p, NEW r, NEW q, IsJoined(S, q, p, r), NEW x, NEW y,
         NoMore(p, x, y), NoMore(r, x, y), Absent(p, x) \/ Absent(r, y)
  PROVE  NoMore(q, x, y)
  <1>1. /\ q \in Seq(S \X NS) /\ Len(p) \in Nat /\ Len(r) \in Nat /\ Len(q) = Len(p) + Len(r)
        /\ \A i \in 1..Len(p) : i \in 1..Len(q) /\ q[i] = p[i]
        /\ \A j \in 1..Len(r) : Len(p) + j \in 1..Len(q) /\ q[Len(p) + j] = r[j]
        /\ \A i \in 1..Len(q) : i \in 1..Len(p) \/ \E j \in 1..Len(r) : i = Len(p) + j
    BY DEF IsJoined
  <1>2. ASSUME NEW i \in 1..Len(q), q[i][1] = x, NEW j \in i + 1..Len(q), q[j] = <<y, q[i][2]>>
        PROVE  FALSE
    <2>1. j \in 1..Len(q) /\ i \in Nat /\ j \in Nat /\ i < j
      BY <1>1, <1>2
    <2>2. CASE i \in 1..Len(p) /\ j \in 1..Len(p)
      <3>1. j \in i + 1..Len(p) /\ p[i][1] = x /\ p[j] = <<y, p[i][2]>>
        BY <1>1, <1>2, <2>1, <2>2
      <3> QED
        BY <2>2, <3>1 DEF NoMore
    <2>3. ASSUME i \in 1..Len(p), NEW k \in 1..Len(r), j = Len(p) + k
          PROVE  FALSE
      <3>1. p[i][1] = x /\ r[k][1] = y
        BY <1>1, <1>2, <2>3
      <3> QED
        BY <2>3, <3>1 DEF Absent
    <2>4. ASSUME NEW l \in 1..Len(r), NEW k \in 1..Len(r), i = Len(p) + l, j = Len(p) + k
          PROVE  FALSE
      <3>1. k \in l + 1..Len(r) /\ r[l][1] = x /\ r[k] = <<y, r[l][2]>>
        BY <1>1, <1>2, <2>1, <2>4
      <3> QED
        BY <3>1 DEF NoMore
    <2>5. ASSUME NEW l \in 1..Len(r), i = Len(p) + l
          PROVE  j \notin 1..Len(p)
      BY <1>1, <2>1, <2>5
    <2> QED
      BY <1>1, <2>1, <2>2, <2>3, <2>4, <2>5
  <1> QED
    BY <1>2 DEF NoMore

LEMMA JoinedChecks ==
  ASSUME NEW S, NEW p, NEW r, NEW q, IsJoined(S, q, p, r),
         ChecksFirst(p), ChecksFirst(r), Absent(p, "check") \/ Absent(r, "sysinfo")
  PROVE  ChecksFirst(q)
  <1>1. /\ q \in Seq(S \X NS) /\ Len(p) \in Nat /\ Len(r) \in Nat /\ Len(q) = Len(p) + Len(r)
        /\ \A i \in 1..Len(p) : i \in 1..Len(q) /\ q[i] = p[i]
        /\ \A j \in 1..Len(r) : Len(p) + j \in 1..Len(q) /\ q[Len(p) + j] = r[j]
        /\ \A i \in 1..Len(q) : i \in 1..Len(p) \/ \E j \in 1..Len(r) : i = Len(p) + j
    BY DEF IsJoined
  <1>2. ASSUME NEW i \in 1..Len(q), NEW j \in 1..Len(q), i <= j, q[i][1] = "check", q[j][1] = "sysinfo"
        PROVE  \E k \in i..j : q[k] = <<"check", q[j][2]>>
    <2>1. CASE i \in 1..Len(p) /\ j \in 1..Len(p)
      <3>0. p[i][1] = "check" /\ p[j][1] = "sysinfo"
        BY <1>1, <1>2, <2>1
      <3>1. PICK k \in i..j : p[k] = <<"check", p[j][2]>>
        BY <1>2, <2>1, <3>0 DEF ChecksFirst
      <3>2. k \in 1..Len(p)
        BY <1>1, <2>1, <3>1
      <3> QED
        BY <1>1, <2>1, <3>1, <3>2
    <2>2. ASSUME i \in 1..Len(p), NEW k \in 1..Len(r), j = Len(p) + k
          PROVE  FALSE
      <3>1. p[i][1] = "check" /\ r[k][1] = "sysinfo"
        BY <1>1, <1>2, <2>2
      <3> QED
        BY <2>2, <3>1 DEF Absent
    <2>3. ASSUME NEW l \in 1..Len(r), NEW k \in 1..Len(r), i = Len(p) + l, j = Len(p) + k
          PROVE  \E h \in i..j : q[h] = <<"check", q[j][2]>>
      <3>1. l <= k /\ r[l][1] = "check" /\ r[k][1] = "sysinfo"
        BY <1>1, <1>2, <2>3
      <3>2. PICK h \in l..k : r[h] = <<"check", r[k][2]>>
        BY <3>1 DEF ChecksFirst
      <3>3. l \in Nat /\ k \in Nat /\ l >= 1 /\ k <= Len(r)
        BY <1>1
      <3>4. h \in 1..Len(r)
        BY <1>1, <3>2, <3>3
      <3>5. Len(p) + h \in Len(p) + l..Len(p) + k
        BY <1>1, <3>2, <3>3
      <3>6. q[Len(p) + h] = r[h] /\ q[j] = r[k]
        BY <1>1, <2>3, <3>4
      <3> QED
        BY <2>3, <3>2, <3>5, <3>6
    <2>4. ASSUME NEW l \in 1..Len(r), i = Len(p) + l
          PROVE  j \notin 1..Len(p)
      BY <1>1, <1>2, <2>4
    <2> QED
      BY <1>1, <1>2, <2>1, <2>2, <2>3, <2>4
  <1> QED
    BY <1>2 DEF ChecksFirst

(* A step that is not there keeps every order. *)
LEMMA AbsentSteps ==
  ASSUME NEW q, NEW x, NEW y
  PROVE  /\ Absent(q, x) => Later(q, x, y) /\ NoMore(q, x, y) /\ \A n : ~Remains(q, n, x)
         /\ Len(q) \in Nat /\ Absent(q, y) => NoMore(q, x, y)
         /\ Absent(q, "check") \/ Absent(q, "sysinfo") => ChecksFirst(q)
  <1>1. ASSUME Absent(q, x)
        PROVE  Later(q, x, y) /\ NoMore(q, x, y) /\ \A n : ~Remains(q, n, x)
    BY <1>1 DEF Absent, Later, NoMore, Remains
  <1>2. Absent(q, "check") \/ Absent(q, "sysinfo") => ChecksFirst(q)
    BY DEF Absent, ChecksFirst
  <1>3. ASSUME Len(q) \in Nat, Absent(q, y), NEW i \in 1..Len(q), NEW j \in i + 1..Len(q)
        PROVE  q[j] # <<y, q[i][2]>>
    <2>1. j \in 1..Len(q)
      BY <1>3
    <2> QED
      BY <1>3, <2>1 DEF Absent
  <1> QED
    BY <1>1, <1>2, <1>3 DEF NoMore

(* The place of step r of l in namespace k, when one namespace follows the *)
(* other.                                                                  *)
Place(l, k, r) == l * (k - 1) + r
Sizes == {1, 2, 3, 4, 6, 7}
AreInOrder(l, m) ==
  /\ \A k \in 1..m, r \in 1..l :
       Place(l, k, r) \in 1..l * m /\ (Place(l, k, r) - 1) % l = r - 1 /\ (Place(l, k, r) - 1) \div l = k - 1
  /\ \A i \in 1..l * m : ((i - 1) \div l) + 1 \in 1..m /\ ((i - 1) % l) + 1 \in 1..l
  /\ \A i \in 1..l * m : i = Place(l, ((i - 1) \div l) + 1, ((i - 1) % l) + 1)
  /\ \A k \in 1..m, h \in 1..m, r \in 1..l, s \in 1..l :
       Place(l, k, r) < Place(l, h, s) <=> k < h \/ (k = h /\ r < s)
LEMMA Places ==
  ASSUME NEW l \in Sizes, NEW m \in Nat
  PROVE  AreInOrder(l, m)
  <1>1. CASE l = 1
    BY <1>1 DEF AreInOrder, Place
  <1>2. CASE l = 2
    BY <1>2 DEF AreInOrder, Place
  <1>3. CASE l = 3
    BY <1>3 DEF AreInOrder, Place
  <1>4. CASE l = 4
    BY <1>4 DEF AreInOrder, Place
  <1>5. CASE l = 6
    BY <1>5 DEF AreInOrder, Place
  <1>6. CASE l = 7
    BY <1>6 DEF AreInOrder, Place
  <1> QED
    BY <1>1, <1>2, <1>3, <1>4, <1>5, <1>6 DEF Sizes

(* The steps in each of the namespaces. *)
IsOnAll(S, q, Steps) ==
  /\ q \in Seq(S \X NS)
  /\ \A r \in 1..Len(Steps), s \in 1..Len(Steps) :
       IF r < s THEN Later(q, Steps[r], Steps[s]) ELSE NoMore(q, Steps[r], Steps[s])
  /\ \A r \in 1..Len(Steps), n \in NS : Remains(q, n, Steps[r])
  /\ \A x : (\A r \in 1..Len(Steps) : Steps[r] # x) => Absent(q, x)
  /\ Steps[1] = "check" => ChecksFirst(q)
LEMMA StepsOnAll ==
  ASSUME NEW S, NEW Steps \in Seq(S), Len(Steps) \in Sizes,
         \A r \in 1..Len(Steps), s \in 1..Len(Steps) : Steps[r] = Steps[s] => r = s
  PROVE  IsOnAll(S, OnAll(Steps, NsOrder), Steps)
  <1> DEFINE l == Len(Steps)
             m == Len(NsOrder)
             q == OnAll(Steps, NsOrder)
  <1>1. /\ l \in Nat /\ m \in Nat /\ \A k \in 1..m : NsOrder[k] \in NS
        /\ \A n \in NS : \E k \in 1..m : NsOrder[k] = n
        /\ \A k \in 1..m, h \in 1..m : NsOrder[k] = NsOrder[h] => k = h
        /\ \A r \in 1..l, s \in 1..l : Steps[r] = Steps[s] => r = s
    <2>1. NsOrder \in Seq(NS) /\ IsInjective(NsOrder)
      BY ReloadAssumption
    <2>2. m \in Nat /\ DOMAIN NsOrder = 1..m /\ l \in Nat
      BY <2>1, LenProperties
    <2>3. \A n \in NS : \E k \in 1..m : NsOrder[k] = n
      BY <2>2 DEF NS, Range
    <2>4. \A k \in 1..m, h \in 1..m : NsOrder[k] = NsOrder[h] => k = h
      BY <2>1, <2>2 DEF IsInjective
    <2> QED
      BY <2>1, <2>2, <2>3, <2>4, ElementOfSeq
  <1>2. \A r \in 1..l : Steps[r] \in S
    BY ElementOfSeq
  <1>3. /\ \A k \in 1..m, r \in 1..l :
             Place(l, k, r) \in 1..l * m /\ (Place(l, k, r) - 1) % l = r - 1 /\ (Place(l, k, r) - 1) \div l = k - 1
        /\ \A i \in 1..l * m : ((i - 1) \div l) + 1 \in 1..m /\ ((i - 1) % l) + 1 \in 1..l
        /\ \A i \in 1..l * m : i = Place(l, ((i - 1) \div l) + 1, ((i - 1) % l) + 1)
        /\ \A k \in 1..m, h \in 1..m, r \in 1..l, s \in 1..l :
             Place(l, k, r) < Place(l, h, s) <=> k < h \/ (k = h /\ r < s)
    <2>1. AreInOrder(l, m)
      BY <1>1, Places
    <2> HIDE DEF l, m
    <2> QED
      BY <2>1 DEF AreInOrder
  <1>4. q = [i \in 1..l * m |-> <<Steps[((i - 1) % l) + 1], NsOrder[((i - 1) \div l) + 1]>>]
    BY DEF OnAll
  <1>5. l * m \in Nat /\ 1 \in 1..l
    <2>1. \A z \in Sizes : 1 \in 1..z
      BY DEF Sizes
    <2>2. l * m \in Nat
      BY <1>1
    <2>3. l \in Sizes
      OBVIOUS
    <2> QED
      BY <2>1, <2>2, <2>3
  <1> HIDE DEF l, m, q
  <1>6. q \in Seq(S \X NS)
    <2>1. ASSUME NEW i \in 1..l * m
          PROVE  q[i] \in S \X NS
      <3>1. ((i - 1) \div l) + 1 \in 1..m /\ ((i - 1) % l) + 1 \in 1..l
        BY <1>3
      <3>2. q[i] = <<Steps[((i - 1) % l) + 1], NsOrder[((i - 1) \div l) + 1]>>
        BY <1>4
      <3> QED
        BY <1>1, <1>2, <3>1, <3>2
    <2> QED
      BY <1>4, <1>5, <2>1
  <1>7. Len(q) = l * m
    BY <1>4, <1>5, <1>6, LenProperties
  <1>8. /\ \A k \in 1..m, r \in 1..l :
             Place(l, k, r) \in 1..Len(q) /\ q[Place(l, k, r)] = <<Steps[r], NsOrder[k]>>
        /\ \A i \in 1..Len(q) : \E k \in 1..m, r \in 1..l : i = Place(l, k, r)
    <2>1. ASSUME NEW k \in 1..m, NEW r \in 1..l
          PROVE  q[Place(l, k, r)] = <<Steps[r], NsOrder[k]>>
      <3>1. (r - 1) + 1 = r /\ (k - 1) + 1 = k
        BY <1>1
      <3> QED
        BY <1>3, <1>4, <3>1
    <2> QED
      BY <1>3, <1>7, <2>1
  <1>9. ASSUME NEW r \in 1..l, NEW s \in 1..l, r < s
        PROVE  Later(q, Steps[r], Steps[s])
    <2>1. SUFFICES ASSUME NEW i \in 1..Len(q), q[i][1] = Steps[r]
                   PROVE  \E j \in i + 1..Len(q) : q[j] = <<Steps[s], q[i][2]>>
      BY DEF Later
    <2>2. PICK k \in 1..m, t \in 1..l : i = Place(l, k, t)
      BY <1>8
    <2>3. q[i] = <<Steps[t], NsOrder[k]>>
      BY <1>8, <2>2
    <2>4. t = r
      <3>1. Steps[t] = Steps[r]
        BY <2>1, <2>3
      <3> QED
        BY <1>1, <3>1
    <2>5. Place(l, k, s) \in 1..Len(q) /\ i < Place(l, k, s) /\ q[Place(l, k, s)] = <<Steps[s], NsOrder[k]>>
      BY <1>3, <1>8, <1>9, <2>2, <2>4
    <2>6. Place(l, k, s) \in i + 1..Len(q)
      BY <1>5, <1>7, <2>5
    <2>7. q[i][2] = NsOrder[k]
      BY <2>3
    <2> QED
      BY <2>5, <2>6, <2>7
  <1>10. ASSUME NEW r \in 1..l, NEW s \in 1..l, ~(r < s)
         PROVE  NoMore(q, Steps[r], Steps[s])
    <2>1. SUFFICES ASSUME NEW i \in 1..Len(q), q[i][1] = Steps[r],
                          NEW j \in i + 1..Len(q), q[j] = <<Steps[s], q[i][2]>>
                   PROVE  FALSE
      BY DEF NoMore
    <2>2. j \in 1..Len(q) /\ i < j
      BY <1>5, <1>7, <2>1
    <2>3. PICK k \in 1..m, t \in 1..l : i = Place(l, k, t)
      BY <1>8
    <2>4. PICK h \in 1..m, u \in 1..l : j = Place(l, h, u)
      BY <1>8, <2>2
    <2>5. q[i] = <<Steps[t], NsOrder[k]>> /\ q[j] = <<Steps[u], NsOrder[h]>>
      BY <1>8, <2>3, <2>4
    <2>6. t = r /\ u = s
      <3>1. Steps[t] = Steps[r] /\ Steps[u] = Steps[s]
        BY <2>1, <2>5
      <3> QED
        BY <1>1, <3>1
    <2>7. k = h
      <3>1. NsOrder[k] = NsOrder[h]
        BY <2>1, <2>5
      <3> QED
        BY <1>1, <3>1
    <2>8. ~(k < h)
      BY <1>1, <2>7
    <2> QED
      BY <1>3, <1>10, <2>2, <2>3, <2>4, <2>6, <2>7, <2>8
  <1>11. ASSUME NEW r \in 1..l, NEW n \in NS
         PROVE  Remains(q, n, Steps[r])
    <2>1. PICK k \in 1..m : NsOrder[k] = n
      BY <1>1
    <2>2. Place(l, k, r) \in 1..Len(q) /\ q[Place(l, k, r)] = <<Steps[r], n>>
      BY <1>8, <2>1
    <2> QED
      BY <2>2 DEF Remains
  <1>12. ASSUME NEW x, \A r \in 1..l : Steps[r] # x
         PROVE  Absent(q, x)
    <2>1. ASSUME NEW i \in 1..Len(q)
          PROVE  q[i][1] # x
      <3>1. PICK k \in 1..m, r \in 1..l : i = Place(l, k, r)
        BY <1>8
      <3>2. q[i] = <<Steps[r], NsOrder[k]>>
        BY <1>8, <3>1
      <3> QED
        BY <1>12, <3>2
    <2> QED
      BY <2>1 DEF Absent
  <1>13. ASSUME Steps[1] = "check"
         PROVE  ChecksFirst(q)
    <2>1. SUFFICES ASSUME NEW i \in 1..Len(q), NEW j \in 1..Len(q), i <= j, q[i][1] = "check"
                   PROVE  \E k \in i..j : q[k] = <<"check", q[j][2]>>
      BY DEF ChecksFirst
    <2>2. 1 \in 1..l
      BY <1>5
    <2>3. PICK k \in 1..m, t \in 1..l : i = Place(l, k, t)
      BY <1>8
    <2>4. PICK h \in 1..m, u \in 1..l : j = Place(l, h, u)
      BY <1>8
    <2>5. q[i] = <<Steps[t], NsOrder[k]>> /\ q[j] = <<Steps[u], NsOrder[h]>>
      BY <1>8, <2>3, <2>4
    <2>6. t = 1
      <3>1. Steps[t] = Steps[1]
        BY <1>13, <2>1, <2>5
      <3> QED
        BY <1>1, <2>2, <3>1
    <2>7. k \in Int /\ h \in Int /\ u \in Int /\ u >= 1 /\ i \in Int /\ j \in Int
      BY <1>1, <1>5, <1>7
    <2>8. ~(Place(l, h, u) < Place(l, k, t))
      BY <2>1, <2>3, <2>4, <2>7
    <2>9. ~(h < k)
      BY <1>3, <2>8
    <2>10. ~(Place(l, h, 1) < Place(l, k, t)) /\ ~(Place(l, h, u) < Place(l, h, 1))
      BY <1>3, <2>2, <2>6, <2>7, <2>9
    <2>11. Place(l, h, 1) \in 1..Len(q) /\ q[Place(l, h, 1)] = <<Steps[1], NsOrder[h]>>
      BY <1>8, <2>2
    <2>12. Place(l, h, 1) \in i..j
      BY <1>5, <1>7, <2>3, <2>4, <2>7, <2>10, <2>11
    <2> QED
      BY <1>13, <2>5, <2>11, <2>12
  <1> QED
    BY <1>6, <1>9, <1>10, <1>11, <1>12, <1>13 DEF IsOnAll, l, q

(* Steps around those that the order is about keep it. *)
OuterSteps == {"forget", "stop", "reset_failed", "restart", "port_config", "platform_plugin"}
IsOuter(S, p) == p \in Seq(S \X NS) /\ \A x : x \notin OuterSteps => Absent(p, x)
LEMMA OuterOnes ==
  ASSUME NEW S
  PROVE  /\ IsOuter(S, << >>)
         /\ \A step \in S \cap OuterSteps : IsOuter(S, On(step))
         /\ \A step \in S \cap OuterSteps, then \in S \cap OuterSteps : IsOuter(S, On(step) \o On(then))
  <1>1. HostNs \in NS
    <2>1. NsOrder \in Seq(NS) /\ NsOrder # << >>
      BY ReloadAssumption
    <2> QED
      BY <2>1, EmptySeq, LenProperties, ElementOfSeq DEF HostNs
  <1>2. ASSUME NEW step \in S \cap OuterSteps
        PROVE  IsOuter(S, On(step))
    <2>1. On(step) \in Seq(S \X NS) /\ Len(On(step)) = 1 /\ On(step)[1][1] = step
      BY <1>1 DEF On
    <2> QED
      BY <2>1 DEF IsOuter, Absent
  <1>3. ASSUME NEW step \in S \cap OuterSteps, NEW then \in S \cap OuterSteps
        PROVE  IsOuter(S, On(step) \o On(then))
    <2>1. IsOuter(S, On(step)) /\ IsOuter(S, On(then))
      BY <1>2
    <2>2. PICK q : q = On(step) \o On(then)
      OBVIOUS
    <2>3. IsJoined(S, q, On(step), On(then))
      BY <2>1, <2>2, JoinedSteps DEF IsOuter
    <2>4. \A x : Absent(q, x) <=> Absent(On(step), x) /\ Absent(On(then), x)
      BY <2>3, JoinedRemains
    <2>5. q \in Seq(S \X NS)
      BY <2>3 DEF IsJoined
    <2>6. IsOuter(S, q)
      BY <2>1, <2>4, <2>5 DEF IsOuter
    <2> QED
      BY <2>2, <2>6
  <1>4. IsOuter(S, << >>)
    BY DEF IsOuter, Absent
  <1> QED
    BY <1>2, <1>3, <1>4

LEMMA JoinedOuter ==
  ASSUME NEW S, NEW k \in Seq(S \X NS), NEW p, IsOuter(S, p), NEW q,
         IsJoined(S, q, p, k) \/ IsJoined(S, q, k, p), NEW x, x \notin OuterSteps
  PROVE  /\ \A y : y \notin OuterSteps => (Later(k, x, y) => Later(q, x, y)) /\ (NoMore(k, x, y) => NoMore(q, x, y))
         /\ \A n : Remains(q, n, x) <=> Remains(k, n, x)
         /\ Absent(q, x) <=> Absent(k, x)
         /\ ChecksFirst(k) => ChecksFirst(q)
  <1>1. Absent(p, x) /\ \A y : y \notin OuterSteps => Absent(p, y)
    BY DEF IsOuter
  <1>2. ASSUME NEW y, y \notin OuterSteps
        PROVE  (Later(k, x, y) => Later(q, x, y)) /\ (NoMore(k, x, y) => NoMore(q, x, y))
    <2>1. Later(p, x, y) /\ NoMore(p, x, y)
      BY <1>1, AbsentSteps
    <2>2. Absent(p, y)
      BY <1>1, <1>2
    <2>3. p \in Seq(S \X NS)
      BY DEF IsOuter
    <2>4. Later(k, x, y) => Later(q, x, y)
      BY <2>1, <2>3, JoinedLater
    <2>5. NoMore(k, x, y) => NoMore(q, x, y)
      BY <1>1, <2>1, <2>2, <2>3, JoinedNoMore
    <2> QED
      BY <2>4, <2>5
  <1>3. /\ \A n : Remains(q, n, x) <=> Remains(k, n, x)
        /\ Absent(q, x) <=> Absent(k, x)
    <2>1. \A n : ~Remains(p, n, x)
      BY <1>1, AbsentSteps
    <2>2. /\ \A n : Remains(q, n, x) <=> Remains(p, n, x) \/ Remains(k, n, x)
          /\ Absent(q, x) <=> Absent(p, x) /\ Absent(k, x)
      <3>1. CASE IsJoined(S, q, p, k)
        BY <3>1, JoinedRemains
      <3>2. CASE IsJoined(S, q, k, p)
        BY <3>2, JoinedRemains
      <3> QED
        BY <3>1, <3>2
    <2> QED
      BY <1>1, <2>1, <2>2
  <1>4. ChecksFirst(k) => ChecksFirst(q)
    <2>1. "check" \notin OuterSteps /\ "sysinfo" \notin OuterSteps
      BY DEF OuterSteps
    <2>2. Absent(p, "check") /\ Absent(p, "sysinfo")
      BY <1>1, <2>1
    <2>3. ChecksFirst(p)
      BY <2>2, AbsentSteps
    <2> QED
      BY <2>2, <2>3, JoinedChecks
  <1> QED
    BY <1>2, <1>3, <1>4

(* A reload starts on its course, with every step to do in every namespace. *)
ReloadNames == {"check", "flush", "sysinfo", "write", "mark", "migrate"}
LEMMA CourseAmongOuter ==
  ASSUME NEW k, ReloadCourse(k), NEW p, IsOuter(ReloadSteps, p), NEW q,
         IsJoined(ReloadSteps, q, p, k) \/ IsJoined(ReloadSteps, q, k, p)
  PROVE  /\ ReloadCourse(q)
         /\ \A x \in ReloadNames, n \in NS : Remains(k, n, x) => Remains(q, n, x)
  <1>1. k \in Seq(ReloadSteps \X NS)
    BY DEF ReloadCourse
  <1>2. "flush" \notin OuterSteps /\ "sysinfo" \notin OuterSteps /\ "write" \notin OuterSteps
        /\ "mark" \notin OuterSteps /\ "migrate" \notin OuterSteps /\ "check" \notin OuterSteps
    BY DEF OuterSteps
  <1>3. /\ Later(q, "flush", "sysinfo") /\ Later(q, "flush", "write") /\ Later(q, "flush", "mark")
        /\ Later(q, "flush", "migrate")
    BY <1>1, <1>2, JoinedOuter DEF ReloadCourse
  <1>4. Later(q, "write", "migrate") /\ NoMore(q, "write", "flush") /\ NoMore(q, "write", "sysinfo")
        /\ NoMore(q, "write", "write")
    BY <1>1, <1>2, JoinedOuter DEF ReloadCourse
  <1>5. NoMore(q, "sysinfo", "check") /\ ChecksFirst(q)
    BY <1>1, <1>2, JoinedOuter DEF ReloadCourse
  <1>6. q \in Seq(ReloadSteps \X NS)
    BY DEF IsJoined
  <1>7. ASSUME NEW x \in ReloadNames, NEW n \in NS, Remains(k, n, x)
        PROVE  Remains(q, n, x)
    <2>1. x \notin OuterSteps
      BY DEF ReloadNames, OuterSteps
    <2> QED
      BY <1>1, <1>7, <2>1, JoinedOuter
  <1> QED
    BY <1>3, <1>4, <1>5, <1>6, <1>7 DEF ReloadCourse

LEMMA ReloadOnAll ==
  ASSUME NEW name, NEW q, q = OnAll(NamespaceSteps(name), NsOrder)
  PROVE  ReloadCourse(q) /\ \A x \in ReloadNames, n \in NS : Remains(q, n, x)
  <1>1. CASE name \in SingleFiles
    <2> DEFINE k == <<"check", "flush", "sysinfo", "write", "mark", "migrate">>
    <2>1. k \in Seq(ReloadSteps) /\ Len(k) = 6 /\ k[1] = "check" /\ k[2] = "flush" /\ k[3] = "sysinfo"
          /\ k[4] = "write" /\ k[5] = "mark" /\ k[6] = "migrate"
      BY DEF ReloadSteps
    <2>2. q = OnAll(k, NsOrder)
      BY <1>1 DEF NamespaceSteps
    <2> HIDE DEF k
    <2>3. \A r \in 1..Len(k), s \in 1..Len(k) : k[r] = k[s] => r = s
      BY <2>1
    <2>4. IsOnAll(ReloadSteps, q, k)
      BY <2>1, <2>2, <2>3, StepsOnAll DEF Sizes
    <2>5. /\ q \in Seq(ReloadSteps \X NS) /\ ChecksFirst(q)
          /\ \A r \in 1..6, s \in 1..6 : IF r < s THEN Later(q, k[r], k[s]) ELSE NoMore(q, k[r], k[s])
          /\ \A r \in 1..6, n \in NS : Remains(q, n, k[r])
      BY <2>1, <2>4 DEF IsOnAll
    <2>6. Later(q, k[2], k[3]) /\ Later(q, k[2], k[4]) /\ Later(q, k[2], k[5]) /\ Later(q, k[2], k[6])
          /\ Later(q, k[4], k[6]) /\ NoMore(q, k[3], k[1]) /\ NoMore(q, k[4], k[2]) /\ NoMore(q, k[4], k[3])
          /\ NoMore(q, k[4], k[4])
      BY <2>5
    <2>7. ASSUME NEW x \in ReloadNames, NEW n \in NS
          PROVE  Remains(q, n, x)
      <3>1. \E r \in 1..6 : k[r] = x
        BY <2>1 DEF ReloadNames
      <3> QED
        BY <2>5, <3>1
    <2> QED
      BY <2>1, <2>5, <2>6, <2>7 DEF ReloadCourse
  <1>2. CASE name \notin SingleFiles
    <2> DEFINE k == <<"check", "flush", "forget", "sysinfo", "write", "mark", "migrate">>
    <2>1. k \in Seq(ReloadSteps) /\ Len(k) = 7 /\ k[1] = "check" /\ k[2] = "flush" /\ k[3] = "forget"
          /\ k[4] = "sysinfo" /\ k[5] = "write" /\ k[6] = "mark" /\ k[7] = "migrate"
      BY DEF ReloadSteps
    <2>2. q = OnAll(k, NsOrder)
      BY <1>2 DEF NamespaceSteps
    <2> HIDE DEF k
    <2>3. \A r \in 1..Len(k), s \in 1..Len(k) : k[r] = k[s] => r = s
      BY <2>1
    <2>4. IsOnAll(ReloadSteps, q, k)
      BY <2>1, <2>2, <2>3, StepsOnAll DEF Sizes
    <2>5. /\ q \in Seq(ReloadSteps \X NS) /\ ChecksFirst(q)
          /\ \A r \in 1..7, s \in 1..7 : IF r < s THEN Later(q, k[r], k[s]) ELSE NoMore(q, k[r], k[s])
          /\ \A r \in 1..7, n \in NS : Remains(q, n, k[r])
      BY <2>1, <2>4 DEF IsOnAll
    <2>6. Later(q, k[2], k[4]) /\ Later(q, k[2], k[5]) /\ Later(q, k[2], k[6]) /\ Later(q, k[2], k[7])
          /\ Later(q, k[5], k[7]) /\ NoMore(q, k[4], k[1]) /\ NoMore(q, k[5], k[2]) /\ NoMore(q, k[5], k[4])
          /\ NoMore(q, k[5], k[5])
      BY <2>5
    <2>7. ASSUME NEW x \in ReloadNames, NEW n \in NS
          PROVE  Remains(q, n, x)
      <3>1. \E r \in 1..7 : k[r] = x
        BY <2>1 DEF ReloadNames
      <3> QED
        BY <2>5, <3>1
    <2> QED
      BY <2>1, <2>5, <2>6, <2>7 DEF ReloadCourse
  <1> QED
    BY <1>1, <1>2

LEMMA ReloadStarts ==
  ASSUME NEW name, NEW restart, NEW q,
         q = (IF restart THEN On("stop") ELSE << >>) \o OnAll(NamespaceSteps(name), NsOrder) \o
             (IF restart THEN On("reset_failed") \o On("restart") ELSE << >>)
  PROVE  ReloadCourse(q) /\ \A x \in ReloadNames, n \in NS : Remains(q, n, x)
  <1>1. PICK p : p = IF restart THEN On("stop") ELSE << >>
    OBVIOUS
  <1>2. PICK r : r = IF restart THEN On("reset_failed") \o On("restart") ELSE << >>
    OBVIOUS
  <1>3. PICK k : k = OnAll(NamespaceSteps(name), NsOrder)
    OBVIOUS
  <1>4. PICK h : h = p \o k
    OBVIOUS
  <1>5. q = h \o r
    BY <1>1, <1>2, <1>3, <1>4
  <1>6. IsOuter(ReloadSteps, p) /\ IsOuter(ReloadSteps, r)
    <2>1. /\ IsOuter(ReloadSteps, << >>) /\ IsOuter(ReloadSteps, On("stop"))
          /\ IsOuter(ReloadSteps, On("reset_failed") \o On("restart"))
      <3>1. "stop" \in ReloadSteps \cap OuterSteps /\ "reset_failed" \in ReloadSteps \cap OuterSteps
            /\ "restart" \in ReloadSteps \cap OuterSteps
        BY DEF ReloadSteps, OuterSteps
      <3> QED
        BY <3>1, OuterOnes
    <2> QED
      BY <1>1, <1>2, <2>1
  <1>7. ReloadCourse(k) /\ \A x \in ReloadNames, n \in NS : Remains(k, n, x)
    BY <1>3, ReloadOnAll
  <1>8. IsJoined(ReloadSteps, h, p, k)
    BY <1>4, <1>6, <1>7, JoinedSteps DEF IsOuter, ReloadCourse
  <1>9. ReloadCourse(h) /\ \A x \in ReloadNames, n \in NS : Remains(k, n, x) => Remains(h, n, x)
    BY <1>6, <1>7, <1>8, CourseAmongOuter
  <1>10. IsJoined(ReloadSteps, q, h, r)
    BY <1>5, <1>6, <1>9, JoinedSteps DEF IsOuter, ReloadCourse
  <1>11. ReloadCourse(q) /\ \A x \in ReloadNames, n \in NS : Remains(h, n, x) => Remains(q, n, x)
    BY <1>6, <1>9, <1>10, CourseAmongOuter
  <1> QED
    BY <1>7, <1>9, <1>11

(* So does load_minigraph, with the golden configuration or without. *)
LEMMA MinigraphAmongOuter ==
  ASSUME NEW tag, NEW k, MinigraphCourse(k, tag), NEW p, IsOuter(MinigraphSteps, p), NEW q,
         IsJoined(MinigraphSteps, q, p, k) \/ IsJoined(MinigraphSteps, q, k, p)
  PROVE  /\ MinigraphCourse(q, tag)
         /\ \A x \in MinigraphSteps \ OuterSteps, n \in NS : Remains(k, n, x) => Remains(q, n, x)
  <1>1. k \in Seq(MinigraphSteps \X NS)
    BY DEF MinigraphCourse
  <1>2. "flush" \notin OuterSteps /\ "minigraph" \notin OuterSteps /\ "mark" \notin OuterSteps
        /\ "set_version" \notin OuterSteps /\ "override" \notin OuterSteps /\ "apply" \notin OuterSteps
    BY DEF OuterSteps
  <1>3. /\ Later(q, "flush", "minigraph") /\ Later(q, "flush", "mark") /\ Later(q, "flush", "set_version")
        /\ Later(q, "minigraph", "set_version")
    BY <1>1, <1>2, JoinedOuter DEF MinigraphCourse
  <1>4. NoMore(q, "minigraph", "flush") /\ NoMore(q, "minigraph", "minigraph")
    BY <1>1, <1>2, JoinedOuter DEF MinigraphCourse
  <1>5. tag # "golden" => Absent(q, "override") /\ Absent(q, "apply")
    BY <1>1, <1>2, JoinedOuter DEF MinigraphCourse
  <1>6. tag = "golden" =>
          Later(q, "flush", "override") /\ Later(q, "minigraph", "apply") /\ Later(q, "override", "apply")
    BY <1>1, <1>2, JoinedOuter DEF MinigraphCourse
  <1>7. tag = "golden" =>
          /\ NoMore(q, "override", "minigraph") /\ NoMore(q, "override", "override")
          /\ NoMore(q, "apply", "minigraph") /\ NoMore(q, "apply", "override") /\ NoMore(q, "apply", "apply")
    BY <1>1, <1>2, JoinedOuter DEF MinigraphCourse
  <1>8. q \in Seq(MinigraphSteps \X NS)
    BY DEF IsJoined
  <1>9. ASSUME NEW x \in MinigraphSteps \ OuterSteps, NEW n \in NS, Remains(k, n, x)
        PROVE  Remains(q, n, x)
    BY <1>1, <1>9, JoinedOuter
  <1> QED
    BY <1>3, <1>4, <1>5, <1>6, <1>7, <1>8, <1>9 DEF MinigraphCourse

\* The steps before the version is set.
HalfCourse(q) ==
  /\ q \in Seq(MinigraphSteps \X NS)
  /\ Later(q, "flush", "minigraph") /\ Later(q, "flush", "mark")
  /\ NoMore(q, "minigraph", "flush") /\ NoMore(q, "minigraph", "minigraph")
  /\ Absent(q, "set_version") /\ Absent(q, "override") /\ Absent(q, "apply")
  /\ \A x \in {"flush", "minigraph", "mark"}, n \in NS : Remains(q, n, x)
LEMMA HalfAmongOuter ==
  ASSUME NEW k, HalfCourse(k), NEW p, IsOuter(MinigraphSteps, p), NEW q,
         IsJoined(MinigraphSteps, q, p, k) \/ IsJoined(MinigraphSteps, q, k, p)
  PROVE  HalfCourse(q)
  <1>1. k \in Seq(MinigraphSteps \X NS)
    BY DEF HalfCourse
  <1>2. "flush" \notin OuterSteps /\ "minigraph" \notin OuterSteps /\ "mark" \notin OuterSteps
        /\ "set_version" \notin OuterSteps /\ "override" \notin OuterSteps /\ "apply" \notin OuterSteps
    BY DEF OuterSteps
  <1>3. Later(q, "flush", "minigraph") /\ Later(q, "flush", "mark")
    BY <1>1, <1>2, JoinedOuter DEF HalfCourse
  <1>4. NoMore(q, "minigraph", "flush") /\ NoMore(q, "minigraph", "minigraph")
    BY <1>1, <1>2, JoinedOuter DEF HalfCourse
  <1>5. Absent(q, "set_version") /\ Absent(q, "override") /\ Absent(q, "apply")
    BY <1>1, <1>2, JoinedOuter DEF HalfCourse
  <1>6. q \in Seq(MinigraphSteps \X NS)
    BY DEF IsJoined
  <1>7. ASSUME NEW x \in {"flush", "minigraph", "mark"}, NEW n \in NS
        PROVE  Remains(q, n, x)
    <2>1. Remains(k, n, x)
      BY DEF HalfCourse
    <2> QED
      BY <1>1, <1>2, <2>1, JoinedOuter
  <1> QED
    BY <1>3, <1>4, <1>5, <1>6, <1>7 DEF HalfCourse

LEMMA MinigraphOnAll ==
  ASSUME NEW q, q = OnAll(<<"flush", "minigraph", "mark">>, NsOrder)
  PROVE  HalfCourse(q)
  <1> DEFINE k == <<"flush", "minigraph", "mark">>
  <1>1. k \in Seq(MinigraphSteps) /\ Len(k) = 3 /\ k[1] = "flush" /\ k[2] = "minigraph" /\ k[3] = "mark"
    BY DEF MinigraphSteps
  <1>2. q = OnAll(k, NsOrder)
    OBVIOUS
  <1> HIDE DEF k
  <1>3. \A r \in 1..Len(k), s \in 1..Len(k) : k[r] = k[s] => r = s
    BY <1>1
  <1>4. IsOnAll(MinigraphSteps, q, k)
    BY <1>1, <1>2, <1>3, StepsOnAll DEF Sizes
  <1>5. /\ q \in Seq(MinigraphSteps \X NS)
        /\ \A r \in 1..3, s \in 1..3 : IF r < s THEN Later(q, k[r], k[s]) ELSE NoMore(q, k[r], k[s])
        /\ \A r \in 1..3, n \in NS : Remains(q, n, k[r])
        /\ \A x : (\A r \in 1..3 : k[r] # x) => Absent(q, x)
    BY <1>1, <1>4 DEF IsOnAll
  <1>6. Later(q, k[1], k[2]) /\ Later(q, k[1], k[3]) /\ NoMore(q, k[2], k[1]) /\ NoMore(q, k[2], k[2])
    BY <1>5
  <1>7. \A r \in 1..3 : k[r] # "set_version" /\ k[r] # "override" /\ k[r] # "apply"
    BY <1>1
  <1>8. Absent(q, "set_version") /\ Absent(q, "override") /\ Absent(q, "apply")
    BY <1>5, <1>7
  <1>9. ASSUME NEW x \in {"flush", "minigraph", "mark"}, NEW n \in NS
        PROVE  Remains(q, n, x)
    <2>1. \E r \in 1..3 : k[r] = x
      BY <1>1
    <2> QED
      BY <1>5, <2>1
  <1> QED
    BY <1>1, <1>5, <1>6, <1>8, <1>9 DEF HalfCourse

LEMMA VersionOnAll ==
  ASSUME NEW h, HalfCourse(h), NEW v, v = OnAll(<<"set_version">>, NsOrder), NEW q, q = h \o v
  PROVE  /\ MinigraphCourse(q, "minigraph")
         /\ \A x \in {"flush", "minigraph", "mark", "set_version"}, n \in NS : Remains(q, n, x)
  <1> DEFINE k == <<"set_version">>
  <1>1. k \in Seq(MinigraphSteps) /\ Len(k) = 1 /\ k[1] = "set_version"
    BY DEF MinigraphSteps
  <1>2. v = OnAll(k, NsOrder)
    OBVIOUS
  <1> HIDE DEF k
  <1>3. \A r \in 1..Len(k), s \in 1..Len(k) : k[r] = k[s] => r = s
    BY <1>1
  <1>4. IsOnAll(MinigraphSteps, v, k)
    BY <1>1, <1>2, <1>3, StepsOnAll DEF Sizes
  <1>5. /\ v \in Seq(MinigraphSteps \X NS)
        /\ \A n \in NS : Remains(v, n, "set_version")
        /\ \A x : x # "set_version" => Absent(v, x)
    BY <1>1, <1>4 DEF IsOnAll
  <1>6. h \in Seq(MinigraphSteps \X NS)
    BY DEF HalfCourse
  <1>7. IsJoined(MinigraphSteps, q, h, v)
    BY <1>5, <1>6, JoinedSteps
  <1>8. Absent(v, "flush") /\ Absent(v, "minigraph") /\ Absent(v, "override") /\ Absent(v, "apply")
    BY <1>5
  <1>9. /\ Later(v, "flush", "minigraph") /\ Later(v, "flush", "mark") /\ Later(v, "flush", "set_version")
        /\ Later(v, "minigraph", "set_version") /\ NoMore(v, "minigraph", "flush")
        /\ NoMore(v, "minigraph", "minigraph")
    BY <1>8, AbsentSteps
  <1>10. /\ Later(q, "flush", "minigraph") /\ Later(q, "flush", "mark") /\ Later(q, "flush", "set_version")
         /\ Later(q, "minigraph", "set_version")
    BY <1>5, <1>6, <1>7, <1>9, JoinedLater DEF HalfCourse
  <1>11. NoMore(q, "minigraph", "flush") /\ NoMore(q, "minigraph", "minigraph")
    BY <1>5, <1>6, <1>7, <1>8, <1>9, JoinedNoMore DEF HalfCourse
  <1>12. Absent(q, "override") /\ Absent(q, "apply")
    BY <1>5, <1>6, <1>7, <1>8, JoinedRemains DEF HalfCourse
  <1>13. ASSUME NEW x \in {"flush", "minigraph", "mark", "set_version"}, NEW n \in NS
         PROVE  Remains(q, n, x)
    <2>1. Remains(h, n, x) \/ Remains(v, n, x)
      BY <1>5 DEF HalfCourse
    <2> QED
      BY <1>5, <1>6, <1>7, <2>1, JoinedRemains
  <1>14. q \in Seq(MinigraphSteps \X NS)
    BY <1>7 DEF IsJoined
  <1> QED
    BY <1>10, <1>11, <1>12, <1>13, <1>14 DEF MinigraphCourse

LEMMA GoldenOnAll ==
  ASSUME NEW h, MinigraphCourse(h, "minigraph"), NEW g, g = OnAll(<<"override", "apply">>, NsOrder),
         NEW q, q = h \o g
  PROVE  /\ MinigraphCourse(q, "golden")
         /\ \A x \in MinigraphSteps \ OuterSteps, n \in NS : Remains(h, n, x) => Remains(q, n, x)
         /\ \A n \in NS : Remains(q, n, "override") /\ Remains(q, n, "apply")
  <1> DEFINE k == <<"override", "apply">>
  <1>1. k \in Seq(MinigraphSteps) /\ Len(k) = 2 /\ k[1] = "override" /\ k[2] = "apply"
    BY DEF MinigraphSteps
  <1>2. g = OnAll(k, NsOrder)
    OBVIOUS
  <1> HIDE DEF k
  <1>3. \A r \in 1..Len(k), s \in 1..Len(k) : k[r] = k[s] => r = s
    BY <1>1
  <1>4. IsOnAll(MinigraphSteps, g, k)
    BY <1>1, <1>2, <1>3, StepsOnAll DEF Sizes
  <1>5. /\ g \in Seq(MinigraphSteps \X NS)
        /\ \A r \in 1..2, s \in 1..2 : IF r < s THEN Later(g, k[r], k[s]) ELSE NoMore(g, k[r], k[s])
        /\ \A r \in 1..2, n \in NS : Remains(g, n, k[r])
        /\ \A x : (\A r \in 1..2 : k[r] # x) => Absent(g, x)
    BY <1>1, <1>4 DEF IsOnAll
  <1>6. /\ Later(g, k[1], k[2]) /\ NoMore(g, k[1], k[1]) /\ NoMore(g, k[2], k[1]) /\ NoMore(g, k[2], k[2])
        /\ \A n \in NS : Remains(g, n, k[1]) /\ Remains(g, n, k[2])
    BY <1>5
  <1>7. \A x : x # "override" /\ x # "apply" => \A r \in 1..2 : k[r] # x
    BY <1>1
  <1>8. Absent(g, "flush") /\ Absent(g, "minigraph")
    BY <1>5, <1>7
  <1>9. h \in Seq(MinigraphSteps \X NS) /\ Absent(h, "override") /\ Absent(h, "apply") /\ Len(g) \in Nat
    BY <1>5, LenProperties DEF MinigraphCourse
  <1>10. IsJoined(MinigraphSteps, q, h, g)
    BY <1>5, <1>9, JoinedSteps
  <1>11. /\ Later(g, "flush", "minigraph") /\ Later(g, "flush", "mark") /\ Later(g, "flush", "set_version")
         /\ Later(g, "minigraph", "set_version") /\ Later(g, "flush", "override") /\ Later(g, "minigraph", "apply")
         /\ NoMore(g, "minigraph", "flush") /\ NoMore(g, "minigraph", "minigraph")
    BY <1>8, AbsentSteps
  <1>12. /\ Later(q, "flush", "minigraph") /\ Later(q, "flush", "mark") /\ Later(q, "flush", "set_version")
         /\ Later(q, "minigraph", "set_version")
    BY <1>5, <1>9, <1>10, <1>11, JoinedLater DEF MinigraphCourse
  <1>13. NoMore(q, "minigraph", "flush") /\ NoMore(q, "minigraph", "minigraph")
    BY <1>5, <1>8, <1>9, <1>10, <1>11, JoinedNoMore DEF MinigraphCourse
  <1>14. Later(q, "flush", "override") /\ Later(q, "minigraph", "apply")
    BY <1>1, <1>5, <1>6, <1>9, <1>10, <1>11, JoinedLater
  <1>15. Later(q, "override", "apply")
    BY <1>1, <1>5, <1>6, <1>9, <1>10, JoinedLater
  <1>16. /\ NoMore(h, "override", "minigraph") /\ NoMore(h, "override", "override")
         /\ NoMore(h, "apply", "minigraph") /\ NoMore(h, "apply", "override") /\ NoMore(h, "apply", "apply")
    BY <1>9, AbsentSteps
  <1>17. NoMore(g, "override", "minigraph") /\ NoMore(g, "apply", "minigraph")
    BY <1>8, <1>9, AbsentSteps
  <1>18. NoMore(g, "override", "override") /\ NoMore(g, "apply", "override") /\ NoMore(g, "apply", "apply")
    BY <1>1, <1>6
  <1>19. /\ NoMore(q, "override", "minigraph") /\ NoMore(q, "override", "override")
         /\ NoMore(q, "apply", "minigraph") /\ NoMore(q, "apply", "override") /\ NoMore(q, "apply", "apply")
    BY <1>5, <1>9, <1>10, <1>16, <1>17, <1>18, JoinedNoMore
  <1>20. ASSUME NEW x, NEW n
         PROVE  Remains(h, n, x) \/ Remains(g, n, x) => Remains(q, n, x)
    BY <1>5, <1>9, <1>10, JoinedRemains
  <1>21. \A n \in NS : Remains(q, n, "override") /\ Remains(q, n, "apply")
    BY <1>1, <1>6, <1>20
  <1>22. q \in Seq(MinigraphSteps \X NS)
    BY <1>10 DEF IsJoined
  <1> QED
    BY <1>12, <1>13, <1>14, <1>15, <1>19, <1>20, <1>21, <1>22 DEF MinigraphCourse

LEMMA MinigraphStarts ==
  ASSUME NEW restart, NEW override, NEW tag, tag = IF override THEN "golden" ELSE "minigraph", NEW q,
         q = (IF restart THEN On("forget") \o On("stop") ELSE << >>) \o
             OnAll(<<"flush", "minigraph", "mark">>, NsOrder) \o
             On("port_config") \o OnAll(<<"set_version">>, NsOrder) \o
             (IF override THEN OnAll(<<"override", "apply">>, NsOrder) ELSE << >>) \o
             On("platform_plugin") \o
             (IF restart THEN On("reset_failed") \o On("restart") ELSE << >>)
  PROVE  /\ MinigraphCourse(q, tag)
         /\ \A x \in {"flush", "minigraph", "mark", "set_version"}, n \in NS : Remains(q, n, x)
         /\ tag = "golden" => \A n \in NS : Remains(q, n, "override") /\ Remains(q, n, "apply")
  <1> DEFINE Begun(s) ==
        /\ MinigraphCourse(s, tag)
        /\ \A x \in {"flush", "minigraph", "mark", "set_version"}, n \in NS : Remains(s, n, x)
        /\ tag = "golden" => \A n \in NS : Remains(s, n, "override") /\ Remains(s, n, "apply")
  <1>1. PICK p : p = IF restart THEN On("forget") \o On("stop") ELSE << >>
    OBVIOUS
  <1>2. PICK r : r = IF restart THEN On("reset_failed") \o On("restart") ELSE << >>
    OBVIOUS
  <1>3. PICK k : k = OnAll(<<"flush", "minigraph", "mark">>, NsOrder)
    OBVIOUS
  <1>4. PICK v : v = OnAll(<<"set_version">>, NsOrder)
    OBVIOUS
  <1>5. PICK g : g = OnAll(<<"override", "apply">>, NsOrder)
    OBVIOUS
  <1>6. PICK c : c = On("port_config")
    OBVIOUS
  <1>7. PICK f : f = On("platform_plugin")
    OBVIOUS
  <1>8. PICK q1 : q1 = p \o k
    OBVIOUS
  <1>9. PICK q2 : q2 = q1 \o c
    OBVIOUS
  <1>10. PICK q3 : q3 = q2 \o v
    OBVIOUS
  <1>11. PICK q4 : q4 = q3 \o (IF override THEN g ELSE << >>)
    OBVIOUS
  <1>12. PICK q5 : q5 = q4 \o f
    OBVIOUS
  <1>13. q = q5 \o r
    BY <1>1, <1>2, <1>3, <1>4, <1>5, <1>6, <1>7, <1>8, <1>9, <1>10, <1>11, <1>12
  <1>14. IsOuter(MinigraphSteps, p) /\ IsOuter(MinigraphSteps, r) /\ IsOuter(MinigraphSteps, c)
         /\ IsOuter(MinigraphSteps, f)
    <2>1. OuterSteps \subseteq MinigraphSteps
      BY DEF MinigraphSteps, OuterSteps
    <2>2. "forget" \in OuterSteps /\ "stop" \in OuterSteps /\ "reset_failed" \in OuterSteps
          /\ "restart" \in OuterSteps /\ "port_config" \in OuterSteps /\ "platform_plugin" \in OuterSteps
      BY DEF OuterSteps
    <2>3. IsOuter(MinigraphSteps, << >>)
      BY OuterOnes
    <2>4. IsOuter(MinigraphSteps, c) /\ IsOuter(MinigraphSteps, f)
      BY <1>6, <1>7, <2>1, <2>2, OuterOnes
    <2>5. restart => IsOuter(MinigraphSteps, p) /\ IsOuter(MinigraphSteps, r)
      BY <1>1, <1>2, <2>1, <2>2, OuterOnes
    <2>6. ~restart => p = << >> /\ r = << >>
      BY <1>1, <1>2
    <2> QED
      BY <2>3, <2>4, <2>5, <2>6
  <1>15. HalfCourse(q1)
    <2>1. HalfCourse(k)
      BY <1>3, MinigraphOnAll
    <2>2. IsJoined(MinigraphSteps, q1, p, k)
      BY <1>8, <1>14, <2>1, JoinedSteps DEF IsOuter, HalfCourse
    <2> QED
      BY <1>14, <2>1, <2>2, HalfAmongOuter
  <1>16. HalfCourse(q2)
    <2>1. IsJoined(MinigraphSteps, q2, q1, c)
      BY <1>9, <1>14, <1>15, JoinedSteps DEF IsOuter, HalfCourse
    <2> QED
      BY <1>14, <1>15, <2>1, HalfAmongOuter
  <1>17. /\ MinigraphCourse(q3, "minigraph")
         /\ \A x \in {"flush", "minigraph", "mark", "set_version"}, n \in NS : Remains(q3, n, x)
    BY <1>4, <1>10, <1>16, VersionOnAll
  <1>18. {"flush", "minigraph", "mark", "set_version"} \subseteq MinigraphSteps \ OuterSteps
         /\ "override" \in MinigraphSteps \ OuterSteps /\ "apply" \in MinigraphSteps \ OuterSteps
    BY DEF MinigraphSteps, OuterSteps
  <1>19. Begun(q4)
    <2>1. CASE override
      <3>1. q4 = q3 \o g /\ tag = "golden"
        BY <1>11, <2>1
      <3>2. /\ MinigraphCourse(q4, "golden")
            /\ \A x \in MinigraphSteps \ OuterSteps, n \in NS : Remains(q3, n, x) => Remains(q4, n, x)
            /\ \A n \in NS : Remains(q4, n, "override") /\ Remains(q4, n, "apply")
        BY <1>5, <1>17, <3>1, GoldenOnAll
      <3> QED
        BY <1>17, <1>18, <3>1, <3>2
    <2>2. CASE ~override
      <3>1. q4 = q3 \o << >> /\ tag = "minigraph"
        BY <1>11, <2>2
      <3>2. q3 \in Seq(MinigraphSteps \X NS)
        BY <1>17 DEF MinigraphCourse
      <3>3. q4 = q3
        BY <3>1, <3>2, ConcatEmptySeq
      <3> QED
        BY <1>17, <3>1, <3>3
    <2> QED
      BY <2>1, <2>2
  <1>20. ASSUME NEW s, Begun(s), NEW u, IsOuter(MinigraphSteps, u), NEW t, t = s \o u
         PROVE  Begun(t)
    <2>1. IsJoined(MinigraphSteps, t, s, u)
      BY <1>20, JoinedSteps DEF IsOuter, MinigraphCourse
    <2>2. /\ MinigraphCourse(t, tag)
          /\ \A x \in MinigraphSteps \ OuterSteps, n \in NS : Remains(s, n, x) => Remains(t, n, x)
      BY <1>20, <2>1, MinigraphAmongOuter
    <2> QED
      BY <1>18, <1>20, <2>2
  <1> HIDE DEF Begun
  <1>21. Begun(q)
    BY <1>12, <1>13, <1>14, <1>19, <1>20
  <1> QED
    BY <1>21 DEF Begun

(* A step of a reload, on the namespace it is for and on the others. *)
LEMMA ReloadCourseOfTail ==
  ASSUME NEW q, ReloadCourse(q), q # << >>
  PROVE  ReloadCourse(Tail(q))
  <1>1. q \in Seq(ReloadSteps \X NS)
    BY DEF ReloadCourse
  <1>2. Tail(q) \in Seq(ReloadSteps \X NS) /\ ChecksFirst(Tail(q))
    BY <1>1, HeadOfSteps, ChecksOfTail DEF ReloadCourse
  <1> QED
    BY <1>1, <1>2, OrderOfTail DEF ReloadCourse

Reloads(x, c, d, f, sysnow) ==
  /\ x = "flush" => d.tags = {}
  /\ x = "sysinfo" => d.tags = c.tags /\ d.mark = c.mark /\ d.latest = c.latest /\ (c.sysinfo \/ sysnow => d.sysinfo)
  /\ x = "write" => d.tags = c.tags \cup f.tags /\ d.mark = c.mark /\ (c.sysinfo \/ f.sysinfo => d.sysinfo)
  /\ x = "mark" => d.tags = c.tags /\ d.sysinfo = c.sysinfo /\ d.latest = c.latest /\ d.mark
  /\ x = "migrate" => d.tags = c.tags /\ d.sysinfo = c.sysinfo /\ d.mark = c.mark /\ d.latest
  /\ x \notin {"flush", "sysinfo", "write", "mark", "migrate"} => d = c
LEMMA ReloadedHere ==
  ASSUME NEW q, ReloadCourse(q), q # << >>, NEW x, NEW n, x = q[1][1], n = q[1][2],
         NEW c, NEW d, NEW f, NEW sysnow, NEW systhen, Reloaded(c, f, q, n, sysnow), Reloads(x, c, d, f, sysnow),
         IF x = "check" THEN systhen \/ f.sysinfo ELSE systhen = sysnow
  PROVE  Reloaded(d, f, Tail(q), n, systhen)
  <1>1. q \in Seq(ReloadSteps \X NS)
    BY DEF ReloadCourse
  <1>2. PICK t : t = Tail(q)
    OBVIOUS
  <1>3. \A z : q[1] = <<z, n>> <=> x = z
    BY <1>1, HeadOfSteps
  <1>4. \A z : Remains(q, n, z) <=> x = z \/ Remains(t, n, z)
    BY <1>1, <1>2, <1>3, RemainsAtHead
  <1>5. \A y : /\ Later(q, x, y) => Remains(t, n, y)
               /\ NoMore(q, x, y) => ~Remains(t, n, y)
    BY <1>1, <1>2, OrderAtHead
  <1>6. CASE x = "flush"
    <2>1. Remains(t, n, "sysinfo") /\ Remains(t, n, "write") /\ Remains(t, n, "mark") /\ Remains(t, n, "migrate")
      BY <1>5, <1>6 DEF ReloadCourse
    <2>2. Remains(q, n, "sysinfo") /\ (Remains(q, n, "check") <=> Remains(t, n, "check")) /\ d.tags = {}
      BY <1>4, <1>6, <2>1 DEF Reloads
    <2> QED
      BY <1>2, <1>6, <2>1, <2>2 DEF Reloaded
  <1>7. CASE x = "check"
    <2>1. \A z : z # "check" => (Remains(q, n, z) <=> Remains(t, n, z))
      BY <1>4, <1>7
    <2>2. d = c
      BY <1>7 DEF Reloads
    <2> QED
      BY <1>2, <1>7, <2>1, <2>2 DEF Reloaded
  <1>8. CASE x = "sysinfo"
    <2>1. \A z : z # "sysinfo" => (Remains(q, n, z) <=> Remains(t, n, z))
      BY <1>4, <1>8
    <2>2. ~Remains(t, n, "check") /\ Remains(q, n, "sysinfo")
      BY <1>4, <1>5, <1>8 DEF ReloadCourse
    <2>3. ~Remains(q, n, "check")
      BY <2>1, <2>2
    <2>4. sysnow \/ f.sysinfo
      BY <2>2, <2>3 DEF Reloaded
    <2> QED
      BY <1>2, <1>8, <2>1, <2>2, <2>3, <2>4 DEF Reloaded, Reloads
  <1>9. CASE x = "write"
    <2>1. \A z : z # "write" => (Remains(q, n, z) <=> Remains(t, n, z))
      BY <1>4, <1>9
    <2>2. /\ ~Remains(t, n, "flush") /\ ~Remains(t, n, "sysinfo") /\ ~Remains(t, n, "write")
          /\ Remains(t, n, "migrate")
      BY <1>5, <1>9 DEF ReloadCourse
    <2>3. ~Remains(q, n, "flush") /\ ~Remains(q, n, "sysinfo") /\ Remains(q, n, "write")
      BY <1>4, <1>9, <2>1, <2>2
    <2>4. c.tags = {} /\ (c.sysinfo \/ f.sysinfo)
      BY <2>3 DEF Reloaded
    <2>5. d.tags = f.tags /\ d.sysinfo /\ d.mark = c.mark
      BY <1>9, <2>4 DEF Reloads
    <2> QED
      BY <1>2, <1>9, <2>1, <2>2, <2>5 DEF Reloaded
  <1>10. CASE x = "mark"
    <2>1. \A z : z # "mark" => (Remains(q, n, z) <=> Remains(t, n, z))
      BY <1>4, <1>10
    <2> QED
      BY <1>2, <1>10, <2>1 DEF Reloaded, Reloads
  <1>11. CASE x = "migrate"
    <2>1. \A z : z # "migrate" => (Remains(q, n, z) <=> Remains(t, n, z))
      BY <1>4, <1>11
    <2> QED
      BY <1>2, <1>11, <2>1 DEF Reloaded, Reloads
  <1>12. CASE x \notin {"flush", "check", "sysinfo", "write", "mark", "migrate"}
    <2>1. \A z \in {"flush", "check", "sysinfo", "write", "mark", "migrate"} :
             Remains(q, n, z) <=> Remains(t, n, z)
      BY <1>4, <1>12
    <2>2. d = c /\ systhen = sysnow
      BY <1>12 DEF Reloads
    <2> QED
      BY <1>2, <2>1, <2>2 DEF Reloaded
  <1> QED
    BY <1>6, <1>7, <1>8, <1>9, <1>10, <1>11, <1>12

LEMMA ReloadedElsewhere ==
  ASSUME NEW q, ReloadCourse(q), q # << >>, NEW n, n # q[1][2],
         NEW c, NEW f, NEW sysnow, NEW systhen, Reloaded(c, f, q, n, sysnow),
         q[1][1] # "check" => systhen = sysnow
  PROVE  Reloaded(c, f, Tail(q), n, systhen)
  <1>1. q \in Seq(ReloadSteps \X NS) /\ ChecksFirst(q)
    BY DEF ReloadCourse
  <1>2. PICK t : t = Tail(q)
    OBVIOUS
  <1>3. \A z : q[1] # <<z, n>>
    BY <1>1, HeadOfSteps
  <1>4. \A z : Remains(q, n, z) <=> Remains(t, n, z)
    BY <1>1, <1>2, <1>3, RemainsAtHead
  <1>5. q[1][1] = "check" => (Remains(t, n, "sysinfo") => Remains(t, n, "check"))
    BY <1>1, <1>2, ChecksOfTail
  <1> QED
    BY <1>2, <1>4, <1>5 DEF Reloaded

(* A step of load_minigraph. *)
LEMMA MinigraphCourseOfTail ==
  ASSUME NEW tag, NEW q, MinigraphCourse(q, tag), q # << >>
  PROVE  MinigraphCourse(Tail(q), tag)
  <1>1. q \in Seq(MinigraphSteps \X NS)
    BY DEF MinigraphCourse
  <1>2. Tail(q) \in Seq(MinigraphSteps \X NS)
    BY <1>1, HeadOfSteps
  <1>3. \A x : Absent(q, x) => Absent(Tail(q), x)
    <2>1. /\ Len(q) \in Nat /\ Len(q) >= 1 /\ Len(Tail(q)) = Len(q) - 1
          /\ \A i \in 1..Len(Tail(q)) : Tail(q)[i] = q[i + 1]
      BY <1>1, HeadOfSteps
    <2>2. \A i \in 1..Len(Tail(q)) : i + 1 \in 1..Len(q)
      BY <2>1
    <2> QED
      BY <2>1, <2>2 DEF Absent
  <1>4. tag # "golden" => Absent(Tail(q), "override") /\ Absent(Tail(q), "apply")
    BY <1>3 DEF MinigraphCourse
  <1> QED
    BY <1>1, <1>2, <1>4, OrderOfTail DEF MinigraphCourse

Regenerates(x, c, d, g) ==
  /\ x = "flush" => d.tags = {}
  /\ x = "minigraph" => d.tags = c.tags \cup {"minigraph"} /\ d.sysinfo /\ d.mark = c.mark
  /\ x = "mark" => d.tags = c.tags /\ d.sysinfo = c.sysinfo /\ d.latest = c.latest /\ d.mark
  /\ x = "set_version" => d.tags = c.tags /\ d.sysinfo = c.sysinfo /\ d.mark = c.mark /\ d.latest
  /\ x = "override" => /\ d.tags = c.tags /\ d.mark = c.mark /\ d.latest = c.latest
                       /\ c.sysinfo => d.sysinfo \/ (g.exists /\ HasMetadata(g.config))
  /\ x = "apply" => /\ d.tags = c.tags \cup g.config.tags /\ d.mark = c.mark /\ d.latest = c.latest
                    /\ c.sysinfo \/ (g.exists /\ HasMetadata(g.config)) => d.sysinfo
  /\ x \notin {"flush", "minigraph", "mark", "set_version", "override", "apply"} =>
       d.tags = c.tags /\ d.sysinfo = c.sysinfo /\ d.mark = c.mark /\ d.latest = c.latest
LEMMA RegeneratedHere ==
  ASSUME NEW tag, NEW q, MinigraphCourse(q, tag), q # << >>, NEW x, NEW n, x = q[1][1], n = q[1][2],
         NEW c, NEW d, NEW g, Regenerated(c, g, q, n, tag), Regenerates(x, c, d, g)
  PROVE  Regenerated(d, g, Tail(q), n, tag)
  <1>1. q \in Seq(MinigraphSteps \X NS)
    BY DEF MinigraphCourse
  <1>2. PICK t : t = Tail(q)
    OBVIOUS
  <1>3. \A z : q[1] = <<z, n>> <=> x = z
    BY <1>1, HeadOfSteps
  <1>4. \A z : Remains(q, n, z) <=> x = z \/ Remains(t, n, z)
    BY <1>1, <1>2, <1>3, RemainsAtHead
  <1>5. \A y : /\ Later(q, x, y) => Remains(t, n, y)
               /\ NoMore(q, x, y) => ~Remains(t, n, y)
    BY <1>1, <1>2, OrderAtHead
  <1>6. tag # "golden" => ~Remains(q, n, "override") /\ ~Remains(q, n, "apply")
    BY AbsentSteps DEF MinigraphCourse
  <1>7. CASE x = "flush"
    <2>1. Remains(t, n, "minigraph") /\ Remains(t, n, "mark") /\ Remains(t, n, "set_version")
      BY <1>5, <1>7 DEF MinigraphCourse
    <2>2. Remains(t, n, "apply") => Remains(t, n, "override")
      BY <1>4, <1>5, <1>6, <1>7 DEF MinigraphCourse
    <2>3. d.tags = {}
      BY <1>7 DEF Regenerates
    <2> QED
      BY <1>2, <2>1, <2>2, <2>3 DEF Regenerated
  <1>8. CASE x = "minigraph"
    <2>1. \A z : z # "minigraph" => (Remains(q, n, z) <=> Remains(t, n, z))
      BY <1>4, <1>8
    <2>2. /\ ~Remains(t, n, "flush") /\ ~Remains(t, n, "minigraph") /\ Remains(t, n, "set_version")
          /\ tag = "golden" => Remains(t, n, "apply")
      BY <1>5, <1>8 DEF MinigraphCourse
    <2>3. c.tags = {}
      BY <1>4, <1>8, <2>1, <2>2 DEF Regenerated
    <2>4. d.tags = {"minigraph"} /\ d.sysinfo /\ d.mark = c.mark
      BY <1>8, <2>3 DEF Regenerates
    <2> QED
      BY <1>2, <2>1, <2>2, <2>4 DEF Regenerated
  <1>9. CASE x = "mark"
    <2>1. \A z : z # "mark" => (Remains(q, n, z) <=> Remains(t, n, z))
      BY <1>4, <1>9
    <2> QED
      BY <1>2, <1>9, <2>1 DEF Regenerated, Regenerates
  <1>10. CASE x = "set_version"
    <2>1. \A z : z # "set_version" => (Remains(q, n, z) <=> Remains(t, n, z))
      BY <1>4, <1>10
    <2> QED
      BY <1>2, <1>10, <2>1 DEF Regenerated, Regenerates
  <1>11. CASE x = "override"
    <2>1. \A z : z # "override" => (Remains(q, n, z) <=> Remains(t, n, z))
      BY <1>4, <1>11
    <2>2. tag = "golden" /\ Remains(q, n, "override")
      BY <1>4, <1>6, <1>11
    <2>3. ~Remains(t, n, "minigraph") /\ ~Remains(t, n, "override") /\ Remains(t, n, "apply")
      BY <1>5, <1>11, <2>2 DEF MinigraphCourse
    <2>4. c.sysinfo /\ c.tags = {"minigraph"}
      BY <2>1, <2>2, <2>3 DEF Regenerated
    <2>5. /\ d.tags = {"minigraph"} /\ d.mark = c.mark /\ d.latest = c.latest
          /\ d.sysinfo \/ (g.exists /\ HasMetadata(g.config))
      BY <1>11, <2>4 DEF Regenerates
    <2> QED
      BY <1>2, <2>1, <2>2, <2>3, <2>5 DEF Regenerated
  <1>12. CASE x = "apply"
    <2>1. \A z : z # "apply" => (Remains(q, n, z) <=> Remains(t, n, z))
      BY <1>4, <1>12
    <2>2. tag = "golden" /\ Remains(q, n, "apply")
      BY <1>4, <1>6, <1>12
    <2>3. ~Remains(t, n, "minigraph") /\ ~Remains(t, n, "override") /\ ~Remains(t, n, "apply")
      BY <1>5, <1>12, <2>2 DEF MinigraphCourse
    <2>4. (c.sysinfo \/ (g.exists /\ HasMetadata(g.config))) /\ c.tags = {"minigraph"}
      BY <2>1, <2>2, <2>3 DEF Regenerated
    <2>5. /\ d.tags = {"minigraph"} \cup g.config.tags /\ d.mark = c.mark /\ d.latest = c.latest /\ d.sysinfo
      BY <1>12, <2>4 DEF Regenerates
    <2> QED
      BY <1>2, <2>1, <2>2, <2>3, <2>5 DEF Regenerated
  <1>13. CASE x \notin {"flush", "minigraph", "mark", "set_version", "override", "apply"}
    <2>1. \A z \in {"flush", "minigraph", "mark", "set_version", "override", "apply"} :
             Remains(q, n, z) <=> Remains(t, n, z)
      BY <1>4, <1>13
    <2>2. d.tags = c.tags /\ d.sysinfo = c.sysinfo /\ d.mark = c.mark /\ d.latest = c.latest
      BY <1>13 DEF Regenerates
    <2> QED
      BY <1>2, <2>1, <2>2 DEF Regenerated
  <1> QED
    BY <1>7, <1>8, <1>9, <1>10, <1>11, <1>12, <1>13

LEMMA RegeneratedElsewhere ==
  ASSUME NEW tag, NEW q, MinigraphCourse(q, tag), q # << >>, NEW n, n # q[1][2],
         NEW c, NEW g, Regenerated(c, g, q, n, tag)
  PROVE  Regenerated(c, g, Tail(q), n, tag)
  <1>1. q \in Seq(MinigraphSteps \X NS)
    BY DEF MinigraphCourse
  <1>2. PICK t : t = Tail(q)
    OBVIOUS
  <1>3. \A z : q[1] # <<z, n>>
    BY <1>1, HeadOfSteps
  <1>4. \A z : Remains(q, n, z) <=> Remains(t, n, z)
    BY <1>1, <1>2, <1>3, RemainsAtHead
  <1> QED
    BY <1>2, <1>4 DEF Regenerated

(* How a step changes the databases: only the one it is for. *)
StepsOn(a, d) ==
  /\ cfg' = [cfg EXCEPT ![StepAt(a)] = d] /\ IsConfig(d)
  /\ StepName(a) \in ReloadSteps =>
       Reloads(StepName(a), cfg[StepAt(a)], d, Reading(a, StepAt(a)).config, admin[a].now)
  /\ StepName(a) \in MinigraphSteps => Regenerates(StepName(a), cfg[StepAt(a)], d, Golden[StepAt(a)])

LEMMA HeadStep ==
  ASSUME ReloadInv, NEW a \in Running
  PROVE  /\ a \in Admins /\ IsAdmin(admin[a]) /\ admin[a].steps # << >> /\ IsConfig(cfg[StepAt(a)])
         /\ StepName(a) \in AllSteps /\ StepAt(a) \in NS /\ admin[a].steps[1] = <<StepName(a), StepAt(a)>>
         /\ admin[a].steps \in Seq(AllSteps \X NS) /\ Tail(admin[a].steps) \in Seq(AllSteps \X NS)
  <1>1. a \in Admins /\ IsAdmin(admin[a]) /\ admin[a].steps # << >>
    BY DEF Running, ReloadInv
  <1>2. admin[a].steps \in Seq(AllSteps \X NS)
    BY <1>1 DEF IsAdmin
  <1>3. /\ StepName(a) \in AllSteps /\ StepAt(a) \in NS /\ admin[a].steps[1] = <<StepName(a), StepAt(a)>>
        /\ Tail(admin[a].steps) \in Seq(AllSteps \X NS)
    BY <1>1, <1>2, HeadOfSteps DEF StepName, StepAt
  <1> QED
    BY <1>1, <1>2, <1>3 DEF ReloadInv, AreConfigs

LEMMA SameStays ==
  ASSUME ReloadInv, NEW a \in Running, cfg' = cfg,
         StepName(a) \notin {"flush", "sysinfo", "write", "mark", "migrate", "minigraph", "set_version", "apply"}
  PROVE  StepsOn(a, cfg[StepAt(a)])
  <1>1. IsConfig(cfg[StepAt(a)]) /\ StepAt(a) \in NS
    BY HeadStep
  <1>2. cfg = [n \in NS |-> cfg[n]]
    BY DEF ReloadInv, AreConfigs
  <1>3. cfg' = [cfg EXCEPT ![StepAt(a)] = cfg[StepAt(a)]]
    BY <1>1, <1>2
  <1> QED
    BY <1>1, <1>3 DEF StepsOn, Reloads, Regenerates

LEMMA DbMoves ==
  ASSUME ReloadInv, NEW a \in Running, DbStepOf(a),
         StepName(a) \in {"flush", "sysinfo", "write", "merge", "mark", "migrate", "set_version", "minigraph",
                          "port_config", "mgmt", "apply"}
  PROVE  \E d : StepsOn(a, d)
  <1>1. PICK x : x = StepName(a)
    OBVIOUS
  <1>2. PICK n \in NS : n = StepAt(a)
    BY HeadStep
  <1>3. PICK c : c = cfg[n] /\ IsConfig(c)
    BY <1>2, HeadStep
  <1>4. PICK f : f = Reading(a, n).config
    OBVIOUS
  <1>5. PICK dbs : dbs = cfg /\ dbs = [m \in NS |-> dbs[m]] /\ dbs[n] = c
    BY <1>3 DEF ReloadInv, AreConfigs
  <1>6. c = [tags |-> c.tags, sysinfo |-> c.sysinfo, hwsku |-> c.hwsku, mark |-> c.mark,
             latest |-> c.latest, ports |-> c.ports]
    BY <1>3 DEF IsConfig
  <1> DEFINE StepTo(d) == cfg' = [dbs EXCEPT ![n] = d] /\ IsConfig(d)
                        /\ (x \in ReloadSteps => Reloads(x, c, d, f, admin[a].now))
                        /\ (x \in MinigraphSteps => Regenerates(x, c, d, Golden[n]))
  <1>7. SUFFICES \E d : StepTo(d)
    BY <1>1, <1>2, <1>3, <1>4, <1>5 DEF StepsOn
  <1>8. CASE x = "flush"
    <2>1. cfg' = [dbs EXCEPT ![n] = EmptyConfig]
      BY <1>1, <1>2, <1>5, <1>8 DEF DbStepOf, flush_configdb
    <2>2. IsConfig(EmptyConfig) /\ EmptyConfig.tags = {}
      BY DEF IsConfig, EmptyConfig
    <2>3. StepTo(EmptyConfig)
      BY <1>8, <2>1, <2>2 DEF Reloads, Regenerates
    <2> QED
      BY <2>3
  <1>9. CASE x = "sysinfo"
    <2>1. PICK d : d = IF admin[a].now THEN [c EXCEPT !.sysinfo = TRUE] ELSE c
      OBVIOUS
    <2>2. cfg' = [dbs EXCEPT ![n] = d]
      BY <1>1, <1>2, <1>5, <1>9, <2>1 DEF DbStepOf
    <2>3. /\ IsConfig(d) /\ d.tags = c.tags /\ d.mark = c.mark /\ d.latest = c.latest
          /\ (c.sysinfo \/ admin[a].now => d.sysinfo)
      BY <1>6, <2>1 DEF IsConfig
    <2>4. StepTo(d)
      BY <1>9, <2>2, <2>3 DEF Reloads, MinigraphSteps
    <2> QED
      BY <2>4
  <1>10. CASE x \in {"write", "merge"}
    <2>1. PICK d : d = [c EXCEPT !.tags = @ \cup f.tags, !.sysinfo = @ \/ f.sysinfo,
                               !.hwsku = @ \/ f.hwsku, !.latest = f.latest]
      OBVIOUS
    <2>2. cfg' = [dbs EXCEPT ![n] = d]
      BY <1>1, <1>2, <1>4, <1>5, <1>6, <1>10, <2>1 DEF DbStepOf, multiasic_write_to_db
    <2>3. /\ IsConfig(d) /\ d.tags = c.tags \cup f.tags /\ d.mark = c.mark
          /\ (c.sysinfo \/ f.sysinfo => d.sysinfo)
      BY <1>6, <2>1 DEF IsConfig
    <2>4. StepTo(d)
      BY <1>10, <2>2, <2>3 DEF Reloads, ReloadSteps, MinigraphSteps
    <2> QED
      BY <2>4
  <1>11. CASE x = "mark"
    <2>1. PICK d : d = [c EXCEPT !.mark = TRUE]
      OBVIOUS
    <2>2. cfg' = [dbs EXCEPT ![n] = d]
      BY <1>1, <1>2, <1>5, <1>11, <2>1 DEF DbStepOf
    <2>3. IsConfig(d) /\ d.tags = c.tags /\ d.sysinfo = c.sysinfo /\ d.latest = c.latest /\ d.mark
      BY <1>6, <2>1 DEF IsConfig
    <2>4. StepTo(d)
      BY <1>11, <2>2, <2>3 DEF Reloads, Regenerates
    <2> QED
      BY <2>4
  <1>12. CASE x \in {"migrate", "set_version"}
    <2>1. PICK d : d = [c EXCEPT !.latest = TRUE]
      OBVIOUS
    <2>2. cfg' = [dbs EXCEPT ![n] = d]
      BY <1>1, <1>2, <1>5, <1>12, <2>1 DEF DbStepOf, migrate_db_to_lastest
    <2>3. IsConfig(d) /\ d.tags = c.tags /\ d.sysinfo = c.sysinfo /\ d.mark = c.mark /\ d.latest
      BY <1>6, <2>1 DEF IsConfig
    <2>4. StepTo(d)
      BY <1>12, <2>2, <2>3 DEF Reloads, Regenerates, ReloadSteps, MinigraphSteps
    <2> QED
      BY <2>4
  <1>13. CASE x = "minigraph"
    <2>1. PICK g : g = [EmptyConfig EXCEPT !.tags = {"minigraph"}, !.sysinfo = TRUE, !.hwsku = TRUE]
      OBVIOUS
    <2>2. g.tags = {"minigraph"} /\ g.sysinfo /\ g.hwsku
      BY <2>1 DEF EmptyConfig
    <2>3. PICK d : d = [c EXCEPT !.tags = @ \cup g.tags, !.sysinfo = @ \/ g.sysinfo,
                               !.hwsku = @ \/ g.hwsku, !.latest = g.latest]
      OBVIOUS
    <2>4. cfg' = [dbs EXCEPT ![n] = d]
      <3>1. cfg' = multiasic_write_to_db(n, g)
        BY <1>1, <1>2, <1>13, <2>1 DEF DbStepOf
      <3> QED
        BY <1>5, <1>6, <2>3, <3>1 DEF multiasic_write_to_db
    <2>5. IsConfig(d) /\ d.tags = c.tags \cup {"minigraph"} /\ d.mark = c.mark /\ d.sysinfo
      BY <1>6, <2>2, <2>3 DEF IsConfig
    <2>6. StepTo(d)
      BY <1>13, <2>4, <2>5 DEF Regenerates, ReloadSteps
    <2> QED
      BY <2>6
  <1>14. CASE x = "port_config"
    <2>1. PICK d : d = [c EXCEPT !.ports = PortConfigFits]
      OBVIOUS
    <2>2. cfg' = [dbs EXCEPT ![n] = d]
      BY <1>1, <1>2, <1>5, <1>14, <2>1 DEF DbStepOf
    <2>3. IsConfig(d) /\ d.tags = c.tags /\ d.sysinfo = c.sysinfo /\ d.mark = c.mark /\ d.latest = c.latest
      BY <1>6, <2>1 DEF IsConfig
    <2>4. StepTo(d)
      BY <1>14, <2>2, <2>3 DEF Regenerates, ReloadSteps
    <2> QED
      BY <2>4
  <1>15. CASE x = "mgmt"
    <2>1. PICK d : d = [c EXCEPT !.tags = c.tags \cup {"mgmt"}]
      OBVIOUS
    <2>2. cfg' = [dbs EXCEPT ![n] = d]
      BY <1>1, <1>2, <1>5, <1>15, <2>1 DEF DbStepOf
    <2>3. IsConfig(d)
      BY <1>6, <2>1 DEF IsConfig
    <2>4. StepTo(d)
      BY <1>15, <2>2, <2>3 DEF ReloadSteps, MinigraphSteps
    <2> QED
      BY <2>4
  <1>16. CASE x = "apply" /\ Golden[n].exists
    <2>1. PICK g : g = Golden[n].config /\ IsConfig(g)
      BY ReloadAssumption
    <2>2. PICK h : h = generate_sysinfo(g)
      OBVIOUS
    <2>3. h.tags = g.tags /\ (HasMetadata(g) => h.sysinfo)
      BY <2>1, <2>2 DEF generate_sysinfo, IsConfig
    <2>4. PICK d : d = [c EXCEPT !.tags = @ \cup h.tags, !.sysinfo = @ \/ h.sysinfo, !.hwsku = @ \/ h.hwsku]
      OBVIOUS
    <2>5. cfg' = [dbs EXCEPT ![n] = d]
      BY <1>1, <1>2, <1>5, <1>6, <1>16, <2>1, <2>2, <2>4 DEF DbStepOf, override_config_db
    <2>6. /\ IsConfig(d) /\ d.tags = c.tags \cup g.tags /\ d.mark = c.mark /\ d.latest = c.latest
          /\ (c.sysinfo \/ HasMetadata(g) => d.sysinfo)
      BY <1>6, <2>3, <2>4 DEF IsConfig
    <2>7. StepTo(d)
      BY <1>16, <2>1, <2>5, <2>6 DEF Regenerates, ReloadSteps
    <2> QED
      BY <2>7
  <1>17. CASE x = "apply" /\ ~Golden[n].exists
    <2>1. Golden[n].config.tags = {}
      BY <1>17, ReloadAssumption
    <2>2. cfg' = [dbs EXCEPT ![n] = c]
      BY <1>1, <1>2, <1>5, <1>17 DEF DbStepOf
    <2>3. StepTo(c)
      BY <1>3, <1>17, <2>1, <2>2 DEF Regenerates, ReloadSteps
    <2> QED
      BY <2>3
  <1> QED
    BY <1>1, <1>8, <1>9, <1>10, <1>11, <1>12, <1>13, <1>14, <1>15, <1>16, <1>17

LEMMA OverrideMoves ==
  ASSUME ReloadInv, NEW a \in Running, StepName(a) = "override", NEW n \in NS, n = StepAt(a),
         cfg' = delete_tables(n, Golden[n].config), Golden[n].exists
  PROVE  \E d : StepsOn(a, d)
  <1>1. PICK c : c = cfg[n] /\ IsConfig(c)
    BY HeadStep
  <1>2. PICK dbs : dbs = cfg /\ dbs = [m \in NS |-> dbs[m]] /\ dbs[n] = c
    BY <1>1 DEF ReloadInv, AreConfigs
  <1>3. c = [tags |-> c.tags, sysinfo |-> c.sysinfo, hwsku |-> c.hwsku, mark |-> c.mark,
             latest |-> c.latest, ports |-> c.ports]
    BY <1>1 DEF IsConfig
  <1>4. PICK d : d = IF HasMetadata(Golden[n].config) THEN [c EXCEPT !.sysinfo = FALSE, !.hwsku = FALSE] ELSE c
    OBVIOUS
  <1>5. cfg' = [dbs EXCEPT ![n] = d]
    BY <1>2, <1>4 DEF delete_tables
  <1>6. /\ IsConfig(d) /\ d.tags = c.tags /\ d.mark = c.mark /\ d.latest = c.latest
        /\ (c.sysinfo => d.sysinfo \/ HasMetadata(Golden[n].config))
    BY <1>3, <1>4 DEF IsConfig
  <1>7. Regenerates("override", c, d, Golden[n])
    BY <1>6 DEF Regenerates
  <1>8. "override" \notin ReloadSteps
    BY DEF ReloadSteps
  <1>9. cfg' = [cfg EXCEPT ![StepAt(a)] = d] /\ Regenerates("override", cfg[StepAt(a)], d, Golden[StepAt(a)])
    BY <1>1, <1>2, <1>5, <1>7
  <1>10. StepsOn(a, d)
    BY <1>6, <1>8, <1>9 DEF StepsOn
  <1> QED
    BY <1>10

SaveSteps == {"truncate", "dump", "reopen", "sort"}
LEMMA StepKinds ==
  ASSUME ReloadInv, NEW a \in Running, AdminStep(a)
  PROVE  \/ Abort(a) /\ cfg' = cfg /\ etc' = etc
         \/ /\ StepName(a) \notin {"check"} \cup SaveSteps
            /\ (\E d : StepsOn(a, d)) /\ etc' = etc /\ GoOn(a, Tail(admin[a].steps))
         \/ CheckFile(a)
         \/ StepName(a) \in SaveSteps /\ SaveStep(a)
  <1>1. StepAt(a) \in NS
    BY HeadStep
  <1>2. CASE /\ StepName(a) \in {"flush", "sysinfo", "write", "merge", "mark", "migrate", "set_version", "minigraph",
                                 "port_config", "mgmt", "apply"}
             /\ DbStepOf(a)
    <2>1. \E d : StepsOn(a, d)
      BY <1>2, DbMoves
    <2>2. etc' = etc /\ GoOn(a, Tail(admin[a].steps))
      BY <1>2 DEF DbStepOf, Proceed
    <2>3. StepName(a) \notin {"check"} \cup SaveSteps
      BY <1>2 DEF SaveSteps
    <2> QED
      BY <2>1, <2>2, <2>3
  <1>3. CASE FileUnreadable(a)
    BY <1>3 DEF FileUnreadable
  <1>4. CASE delete_transceiver_tables(a)
    <2>1. StepName(a) = "forget" /\ cfg' = cfg /\ etc' = etc /\ GoOn(a, Tail(admin[a].steps))
      BY <1>4 DEF delete_transceiver_tables, Proceed
    <2>2. \E d : StepsOn(a, d)
      BY <2>1, SameStays
    <2>3. StepName(a) \notin {"check"} \cup SaveSteps
      BY <2>1 DEF SaveSteps
    <2> QED
      BY <2>1, <2>2, <2>3
  <1>5. CASE StepName(a) \in {"stop", "reset_failed", "restart"} /\ ServiceStep(a)
    <2>1. cfg' = cfg /\ etc' = etc /\ GoOn(a, Tail(admin[a].steps))
      BY <1>5 DEF ServiceStep, Proceed
    <2>2. \E d : StepsOn(a, d)
      BY <1>5, <2>1, SameStays
    <2>3. StepName(a) \notin {"check"} \cup SaveSteps
      BY <1>5 DEF SaveSteps
    <2> QED
      BY <2>1, <2>2, <2>3
  <1>6. CASE OverrideStep(a)
    <2>1. PICK n \in NS : n = StepAt(a)
      BY <1>1
    <2>2. StepName(a) = "override" /\ etc' = etc
      BY <1>6 DEF OverrideStep
    <2>3. StepName(a) \notin {"check"} \cup SaveSteps
      BY <2>2 DEF SaveSteps
    <2>4. CASE cfg' = cfg /\ GoOn(a, Tail(admin[a].steps))
      <3>1. \E d : StepsOn(a, d)
        BY <2>2, <2>4, SameStays
      <3> QED
        BY <2>2, <2>3, <2>4, <3>1
    <2>5. CASE cfg' = cfg /\ Abort(a)
      BY <2>2, <2>5
    <2>6. CASE cfg' = delete_tables(n, Golden[n].config) /\ Golden[n].exists /\ GoOn(a, Tail(admin[a].steps))
      <3>1. \E d : StepsOn(a, d)
        BY <2>1, <2>2, <2>6, OverrideMoves
      <3> QED
        BY <2>2, <2>3, <2>6, <3>1
    <2> QED
      BY <1>6, <2>1, <2>4, <2>5, <2>6 DEF OverrideStep, Proceed
  <1>7. CASE PlatformPlugin(a)
    <2>1. StepName(a) = "platform_plugin" /\ cfg' = cfg /\ etc' = etc
          /\ (GoOn(a, Tail(admin[a].steps)) \/ Abort(a))
      BY <1>7 DEF PlatformPlugin, Proceed
    <2>2. \E d : StepsOn(a, d)
      BY <2>1, SameStays
    <2>3. StepName(a) \notin {"check"} \cup SaveSteps
      BY <2>1 DEF SaveSteps
    <2> QED
      BY <2>1, <2>2, <2>3
  <1>8. CASE SaveStops(a)
    BY <1>8 DEF SaveStops
  <1>9. CASE CheckFile(a)
    BY <1>9
  <1>10. CASE StepName(a) \in {"truncate", "dump", "reopen", "sort"} /\ SaveStep(a)
    BY <1>10 DEF SaveSteps
  <1> QED
    BY <1>2, <1>3, <1>4, <1>5, <1>6, <1>7, <1>8, <1>9, <1>10 DEF AdminStep

(* How a step changes its command. *)
Goes(a, r) ==
  /\ admin' = [admin EXCEPT ![a] = r] /\ done' = done /\ IsAdmin(r)
  /\ r.tag = admin[a].tag /\ r.files = admin[a].files /\ r.alone = admin[a].alone
Finishes(a) == admin' = [admin EXCEPT ![a] = IdleAdmin] /\ done' = IF admin[a].alone THEN admin[a].tag ELSE NoTag
LEMMA GoesOn ==
  ASSUME ReloadInv, NEW a \in Running, NEW rest \in Seq(AllSteps \X NS), GoOn(a, rest)
  PROVE  \/ rest = << >> /\ Finishes(a)
         \/ \E r : Goes(a, r) /\ r.steps = rest /\ r.now = admin[a].now
  <1>1. PICK c : c = admin[a] /\ IsAdmin(c) /\ a \in Admins
    BY HeadStep
  <1>2. PICK all : all = admin /\ all = [b \in Admins |-> all[b]] /\ all[a] = c
    BY <1>1 DEF ReloadInv
  <1>3. CASE rest = << >>
    <2>1. Finishes(a)
      BY <1>3 DEF GoOn, Finishes
    <2> QED
      BY <1>3, <2>1
  <1>4. CASE rest # << >>
    <2>1. PICK r : r = [c EXCEPT !.steps = rest]
      OBVIOUS
    <2>2. admin' = [all EXCEPT ![a] = r] /\ done' = done
      BY <1>1, <1>2, <1>4, <2>1 DEF GoOn
    <2>3. r = [steps |-> rest, files |-> c.files, sysinfo |-> c.sysinfo, now |-> c.now, held |-> c.held,
               tag |-> c.tag, alone |-> c.alone]
      BY <1>1, <2>1 DEF IsAdmin
    <2>4. IsAdmin(r)
      BY <1>1, <2>3 DEF IsAdmin
    <2>5. Goes(a, r) /\ r.steps = rest /\ r.now = admin[a].now
      BY <1>1, <1>2, <2>2, <2>3, <2>4 DEF Goes
    <2> QED
      BY <2>5
  <1> QED
    BY <1>3, <1>4

LEMMA CheckGoes ==
  ASSUME ReloadInv, NEW a \in Running, CheckFile(a)
  PROVE  /\ StepName(a) = "check" /\ cfg' = cfg /\ etc' = etc
         /\ \/ Abort(a)
            \/ ~Reading(a, StepAt(a)).exists /\ \E rest \in Seq(AllSteps \X NS) : GoOn(a, rest)
            \/ \E r : /\ Goes(a, r) /\ r.steps = Tail(admin[a].steps)
                      /\ r.now \/ Reading(a, StepAt(a)).config.sysinfo
  <1>1. PICK c : c = admin[a] /\ IsAdmin(c) /\ a \in Admins
    BY HeadStep
  <1>2. PICK all : all = admin /\ all = [b \in Admins |-> all[b]] /\ all[a] = c
    BY <1>1 DEF ReloadInv
  <1>3. PICK file : file = Reading(a, StepAt(a))
    OBVIOUS
  <1>4. PICK sys : sys = (c.sysinfo \/ load_sysinfo_if_missing(file)) /\ sys \in BOOLEAN
    OBVIOUS
  <1>5. PICK rest : rest = SubSeq(c.steps, Len(NamespaceSteps(c.files)) + 1, Len(c.steps))
    OBVIOUS
  <1>6. rest \in Seq(AllSteps \X NS)
    <2>1. c.steps \in Seq(AllSteps \X NS) /\ Len(c.steps) \in Nat
      BY <1>1, LenProperties DEF IsAdmin
    <2>2. Len(NamespaceSteps(c.files)) \in {6, 7}
      BY DEF NamespaceSteps
    <2>3. \A i \in Len(NamespaceSteps(c.files)) + 1..Len(c.steps) : c.steps[i] \in AllSteps \X NS
      BY <2>1, <2>2, ElementOfSeq
    <2> QED
      BY <1>5, <2>1, <2>2, <2>3, SubSeqProperties
  <1>7. StepName(a) = "check" /\ cfg' = cfg /\ etc' = etc
    BY DEF CheckFile
  <1>8. CASE ~file.exists
    <2>1. GoOn(a, rest)
      BY <1>1, <1>3, <1>5, <1>8 DEF CheckFile
    <2> QED
      BY <1>3, <1>6, <1>7, <1>8, <2>1
  <1>9. CASE file.exists /\ (file = Truncated \/ (sys /\ ~file.config.hwsku))
    BY <1>1, <1>3, <1>4, <1>7, <1>9 DEF CheckFile
  <1>10. CASE file.exists /\ ~(file = Truncated \/ (sys /\ ~file.config.hwsku))
    <2>1. PICK r : r = [c EXCEPT !.steps = Tail(@), !.now = sys,
                                 !.sysinfo = IF c.files \in SingleFiles THEN @ ELSE sys]
      OBVIOUS
    <2>2. admin' = [all EXCEPT ![a] = r] /\ done' = done
      <3>1. admin' = [admin EXCEPT ![a] = r] /\ done' = done
        BY <1>1, <1>3, <1>4, <1>10, <2>1 DEF CheckFile
      <3> QED
        BY <1>2, <3>1
    <2>3. r = [steps |-> Tail(c.steps), files |-> c.files, sysinfo |-> IF c.files \in SingleFiles THEN c.sysinfo ELSE sys,
               now |-> sys, held |-> c.held, tag |-> c.tag, alone |-> c.alone]
      BY <1>1, <2>1 DEF IsAdmin
    <2>4. Tail(c.steps) \in Seq(AllSteps \X NS)
      BY <1>1, HeadStep
    <2>5. IsAdmin(r)
      BY <1>1, <2>3, <2>4 DEF IsAdmin
    <2>6. r.now \/ file.config.sysinfo
      BY <1>4, <2>3 DEF load_sysinfo_if_missing
    <2>7. Goes(a, r) /\ r.steps = Tail(admin[a].steps)
      BY <1>1, <1>2, <2>2, <2>3, <2>5 DEF Goes
    <2> QED
      BY <1>3, <1>7, <2>6, <2>7
  <1> QED
    BY <1>8, <1>9, <1>10

LEMMA SaveGoes ==
  ASSUME ReloadInv, NEW a \in Running, StepName(a) \in SaveSteps, SaveStep(a)
  PROVE  /\ AreConfigs(cfg', etc')
         /\ Finishes(a) \/ \E r : Goes(a, r)
  <1>1. PICK c : c = admin[a] /\ IsAdmin(c) /\ a \in Admins
    BY HeadStep
  <1>2. PICK all : all = admin /\ all = [b \in Admins |-> all[b]] /\ all[a] = c
    BY <1>1 DEF ReloadInv
  <1>3. PICK n \in NS : n = StepAt(a)
    BY HeadStep
  <1>4. Tail(c.steps) \in Seq(AllSteps \X NS)
    BY <1>1, HeadStep
  <1>5. PICK files : files = etc /\ files = [m \in NS |-> files[m]] /\ \A m \in NS : files[m].valid => files[m].exists
    BY DEF ReloadInv, AreConfigs
  <1>6. cfg' = cfg
    BY DEF SaveStep
  <1>7. \E f : etc' = [files EXCEPT ![n] = f] /\ (f.valid => f.exists)
    <2>1. CASE StepName(a) \in {"truncate", "reopen"}
      <3>1. etc' = [files EXCEPT ![n] = Truncated]
        BY <1>3, <1>5, <2>1 DEF SaveStep
      <3>2. ~Truncated.valid
        BY DEF Truncated
      <3> QED
        BY <3>1, <3>2
    <2>2. CASE StepName(a) = "dump"
      <3>1. PICK f : f = [exists |-> TRUE, valid |-> TRUE, config |-> cfg[n]]
        OBVIOUS
      <3>2. etc' = [files EXCEPT ![n] = f]
        BY <1>3, <1>5, <2>2, <3>1 DEF SaveStep
      <3>3. f.exists
        BY <3>1
      <3> QED
        BY <3>2, <3>3
    <2>3. CASE StepName(a) = "sort"
      <3>1. etc' = [files EXCEPT ![n] = c.held]
        BY <1>1, <1>3, <1>5, <2>3 DEF SaveStep
      <3> QED
        BY <1>1, <3>1 DEF IsAdmin
    <2> QED
      BY <2>1, <2>2, <2>3 DEF SaveSteps
  <1>8. AreConfigs(cfg', etc')
    <2>1. PICK f : etc' = [files EXCEPT ![n] = f] /\ (f.valid => f.exists)
      BY <1>7
    <2>2. PICK after : after = etc'
      OBVIOUS
    <2>3. after = [m \in NS |-> after[m]] /\ \A m \in NS : after[m].valid => after[m].exists
      BY <1>5, <2>1, <2>2
    <2> QED
      BY <1>6, <2>2, <2>3 DEF ReloadInv, AreConfigs
  <1>9. CASE StepName(a) = "reopen"
    <2>1. PICK r : r = [c EXCEPT !.steps = Tail(@), !.held = files[n]]
      OBVIOUS
    <2>2. admin' = [all EXCEPT ![a] = r] /\ done' = done
      BY <1>1, <1>2, <1>3, <1>5, <1>9, <2>1 DEF SaveStep
    <2>3. r = [steps |-> Tail(c.steps), files |-> c.files, sysinfo |-> c.sysinfo, now |-> c.now, held |-> files[n],
               tag |-> c.tag, alone |-> c.alone]
      BY <1>1, <2>1 DEF IsAdmin
    <2>4. IsAdmin(r)
      BY <1>4, <1>5, <2>3 DEF IsAdmin
    <2>5. Goes(a, r)
      BY <1>1, <1>2, <2>2, <2>3, <2>4 DEF Goes
    <2> QED
      BY <1>8, <2>5
  <1>10. CASE StepName(a) # "reopen"
    <2>1. GoOn(a, Tail(c.steps))
      BY <1>1, <1>10 DEF SaveStep, Proceed
    <2> QED
      BY <1>4, <1>8, <2>1, GoesOn
  <1> QED
    BY <1>9, <1>10

(* Any step leaves configurations and files that are such. *)
LEMMA StepOutcome ==
  ASSUME ReloadInv, NEW a \in Running, AdminStep(a)
  PROVE  /\ AreConfigs(cfg', etc')
         /\ Abort(a) \/ Finishes(a) \/ \E r : Goes(a, r)
  <1>1. AreConfigs(cfg, etc)
    BY DEF ReloadInv
  <1>2. CASE Abort(a) /\ cfg' = cfg /\ etc' = etc
    BY <1>1, <1>2
  <1>3. CASE (\E d : StepsOn(a, d)) /\ etc' = etc /\ GoOn(a, Tail(admin[a].steps))
    <2>1. PICK d : StepsOn(a, d)
      BY <1>3
    <2>2. PICK n \in NS : n = StepAt(a)
      BY HeadStep
    <2>3. PICK dbs, after : dbs = cfg /\ after = cfg'
      OBVIOUS
    <2>4. dbs = [m \in NS |-> dbs[m]] /\ \A m \in NS : IsConfig(dbs[m])
      BY <1>1, <2>3 DEF AreConfigs
    <2>5. after = [dbs EXCEPT ![n] = d] /\ IsConfig(d)
      BY <2>1, <2>2, <2>3 DEF StepsOn
    <2>6. after = [m \in NS |-> after[m]] /\ \A m \in NS : IsConfig(after[m])
      <3>1. \A m \in NS : after[m] = IF m = n THEN d ELSE dbs[m]
        BY <2>4, <2>5
      <3>2. \A m \in NS : IsConfig(after[m])
        BY <2>4, <2>5, <3>1
      <3>3. after = [m \in NS |-> after[m]]
        BY <2>4, <2>5
      <3> QED
        BY <3>2, <3>3
    <2>7. AreConfigs(cfg', etc')
      BY <1>1, <1>3, <2>3, <2>6 DEF AreConfigs
    <2>8. Tail(admin[a].steps) \in Seq(AllSteps \X NS)
      BY HeadStep
    <2> QED
      BY <1>3, <2>7, <2>8, GoesOn
  <1>4. CASE CheckFile(a)
    <2>1. /\ StepName(a) = "check" /\ cfg' = cfg /\ etc' = etc
          /\ \/ Abort(a)
             \/ ~Reading(a, StepAt(a)).exists /\ \E rest \in Seq(AllSteps \X NS) : GoOn(a, rest)
             \/ \E r : /\ Goes(a, r) /\ r.steps = Tail(admin[a].steps)
                       /\ r.now \/ Reading(a, StepAt(a)).config.sysinfo
      BY <1>4, CheckGoes
    <2>2. AreConfigs(cfg', etc')
      BY <1>1, <2>1
    <2>3. (\E rest \in Seq(AllSteps \X NS) : GoOn(a, rest)) => Finishes(a) \/ \E r : Goes(a, r)
      BY GoesOn
    <2> QED
      BY <2>1, <2>2, <2>3
  <1>5. CASE StepName(a) \in SaveSteps /\ SaveStep(a)
    BY <1>5, SaveGoes
  <1> QED
    BY <1>2, <1>3, <1>4, <1>5, StepKinds

(* On its course, a command goes on to the rest of it. *)
LEMMA CourseMoves ==
  ASSUME NEW tag, NEW name, NEW sysnow, NEW systhen, NEW q, NEW dbs, NEW after, NEW files,
         OnCourse(tag, name, sysnow, q, dbs, files), q # << >>,
         \A n \in NS : n # q[1][2] => after[n] = dbs[n],
         q[1][1] # "check" => systhen = sysnow,
         tag \in FileNames =>
           /\ Reloads(q[1][1], dbs[q[1][2]], after[q[1][2]], FilesAmong(files, tag)[q[1][2]].config, sysnow)
           /\ q[1][1] = "check" => systhen \/ FilesAmong(files, tag)[q[1][2]].config.sysinfo,
         tag \in {"minigraph", "golden"} =>
           Regenerates(q[1][1], dbs[q[1][2]], after[q[1][2]], Golden[q[1][2]])
  PROVE  OnCourse(tag, name, systhen, Tail(q), after, files)
  <1>1. PICK x, m : x = q[1][1] /\ m = q[1][2]
    OBVIOUS
  <1>2. ASSUME tag \in FileNames, name = tag, ReloadCourse(q),
               \A n \in NS : /\ FilesAmong(files, tag)[n].valid
                             /\ Reloaded(dbs[n], FilesAmong(files, tag)[n].config, q, n, sysnow)
        PROVE  OnCourse(tag, name, systhen, Tail(q), after, files)
    <2>1. ReloadCourse(Tail(q))
      BY <1>2, ReloadCourseOfTail
    <2>2. ASSUME NEW n \in NS
          PROVE  Reloaded(after[n], FilesAmong(files, tag)[n].config, Tail(q), n, systhen)
      <3>1. PICK f, c, d : f = FilesAmong(files, tag)[n].config /\ c = dbs[n] /\ d = after[n]
        OBVIOUS
      <3>2. Reloaded(c, f, q, n, sysnow)
        BY <1>2, <3>1
      <3>3. CASE n = m
        <4>1. Reloads(x, c, d, f, sysnow) /\ IF x = "check" THEN systhen \/ f.sysinfo ELSE systhen = sysnow
          BY <1>1, <1>2, <3>1, <3>3
        <4>2. Reloaded(d, f, Tail(q), n, systhen)
          BY <1>1, <1>2, <3>2, <3>3, <4>1, ReloadedHere
        <4> QED
          BY <3>1, <4>2
      <3>4. CASE n # m
        <4>1. Reloaded(c, f, Tail(q), n, systhen)
          BY <1>1, <1>2, <3>2, <3>4, ReloadedElsewhere
        <4> QED
          BY <1>1, <3>1, <3>4, <4>1
      <3> QED
        BY <3>3, <3>4
    <2> QED
      BY <1>2, <2>1, <2>2 DEF OnCourse
  <1>3. ASSUME tag \in {"minigraph", "golden"}, MinigraphCourse(q, tag),
               \A n \in NS : Regenerated(dbs[n], Golden[n], q, n, tag)
        PROVE  OnCourse(tag, name, systhen, Tail(q), after, files)
    <2>1. MinigraphCourse(Tail(q), tag)
      BY <1>3, MinigraphCourseOfTail
    <2>2. ASSUME NEW n \in NS
          PROVE  Regenerated(after[n], Golden[n], Tail(q), n, tag)
      <3>1. PICK g, c, d : g = Golden[n] /\ c = dbs[n] /\ d = after[n]
        OBVIOUS
      <3>2. Regenerated(c, g, q, n, tag)
        BY <1>3, <3>1
      <3>3. CASE n = m
        <4>1. Regenerates(x, c, d, g)
          BY <1>1, <1>3, <3>1, <3>3
        <4>2. Regenerated(d, g, Tail(q), n, tag)
          BY <1>1, <1>3, <3>2, <3>3, <4>1, RegeneratedHere
        <4> QED
          BY <3>1, <4>2
      <3>4. CASE n # m
        <4>1. Regenerated(c, g, Tail(q), n, tag)
          BY <1>1, <1>3, <3>2, <3>4, RegeneratedElsewhere
        <4> QED
          BY <1>1, <3>1, <3>4, <4>1
      <3> QED
        BY <3>3, <3>4
    <2> QED
      BY <1>3, <2>1, <2>2 DEF OnCourse
  <1> QED
    BY <1>2, <1>3 DEF OnCourse

LEMMA CourseEnds ==
  ASSUME NEW tag, NEW name, NEW sysnow, NEW dbs, NEW files, OnCourse(tag, name, sysnow, << >>, dbs, files)
  PROVE  Whole(tag, dbs, files)
  <1>1. \A n, x : ~Remains(<< >>, n, x)
    BY DEF Remains
  <1>2. "minigraph" \notin FileNames /\ "golden" \notin FileNames
    BY ReloadAssumption DEF FileNames
  <1>3. SUFFICES ASSUME NEW n \in NS
                 PROVE  /\ dbs[n].tags = CASE tag = "minigraph" -> {"minigraph"}
                                           [] tag = "golden" -> {"minigraph"} \cup Golden[n].config.tags
                                           [] OTHER -> FilesAmong(files, tag)[n].config.tags
                        /\ dbs[n].sysinfo /\ dbs[n].mark /\ dbs[n].latest
    BY DEF Whole
  <1>4. CASE tag \in FileNames /\ Reloaded(dbs[n], FilesAmong(files, tag)[n].config, << >>, n, sysnow)
    BY <1>1, <1>2, <1>4 DEF Reloaded
  <1>5. CASE tag = "minigraph" /\ Regenerated(dbs[n], Golden[n], << >>, n, tag)
    <2>1. dbs[n].tags = {"minigraph"} \cup {}
      BY <1>1, <1>5 DEF Regenerated
    <2> QED
      BY <1>1, <1>5, <2>1 DEF Regenerated
  <1>6. CASE tag = "golden" /\ Regenerated(dbs[n], Golden[n], << >>, n, tag)
    BY <1>1, <1>6 DEF Regenerated
  <1> QED
    BY <1>4, <1>5, <1>6 DEF OnCourse

LEMMA CourseOutcome ==
  ASSUME ReloadInv, NEW a \in Running, AdminStep(a),
         OnCourse(admin[a].tag, admin[a].files, admin[a].now, admin[a].steps, cfg, etc)
  PROVE  \/ Abort(a)
         \/ Finishes(a) /\ Whole(admin[a].tag, cfg', etc')
         \/ \E r : Goes(a, r) /\ OnCourse(r.tag, r.files, r.now, r.steps, cfg', etc')
  <1>1. PICK tag, name, sysnow : tag = admin[a].tag /\ name = admin[a].files /\ sysnow = admin[a].now
    OBVIOUS
  <1>2. PICK q : q = admin[a].steps /\ q # << >> /\ q \in Seq(AllSteps \X NS) /\ Tail(q) \in Seq(AllSteps \X NS)
    BY HeadStep
  <1>3. PICK dbs, after, files : dbs = cfg /\ after = cfg' /\ files = etc
    OBVIOUS
  <1>4. PICK x, m : x = q[1][1] /\ m = q[1][2]
    OBVIOUS
  <1>5. x = StepName(a) /\ m = StepAt(a) /\ m \in NS
    BY <1>2, <1>4, HeadStep DEF StepName, StepAt
  <1>6. OnCourse(tag, name, sysnow, q, dbs, files)
    BY <1>1, <1>2, <1>3
  <1>7. "minigraph" \notin FileNames /\ "golden" \notin FileNames
    BY ReloadAssumption DEF FileNames
  <1>8. PICK f : f = FilesAmong(files, tag)[m]
    OBVIOUS
  <1>9. tag \in FileNames => /\ x \in ReloadSteps /\ f.valid /\ f.exists /\ Reading(a, m) = f
    <2>1. SUFFICES ASSUME tag \in FileNames
                   PROVE  x \in ReloadSteps /\ f.valid /\ f.exists /\ Reading(a, m) = f
      OBVIOUS
    <2>2. /\ name = tag /\ ReloadCourse(q)
          /\ \A n \in NS : FilesAmong(files, tag)[n].valid
      BY <1>6, <1>7, <2>1 DEF OnCourse
    <2>3. x \in ReloadSteps
      BY <1>2, <1>4, <2>2, HeadOfSteps DEF ReloadCourse
    <2>4. Reading(a, m) = f
      BY <1>1, <1>3, <1>8, <2>2 DEF Reading, FilesOf, FilesAmong
    <2>5. f.valid => f.exists
      <3>1. CASE tag = "default"
        BY <1>3, <1>5, <1>8, <3>1 DEF FilesAmong, ReloadInv, AreConfigs
      <3>2. CASE tag # "default"
        <4>1. tag \in DOMAIN NamedFiles /\ f = NamedFiles[tag][m]
          BY <1>8, <2>1, <3>2 DEF FileNames, FilesAmong
        <4> QED
          BY <1>5, <4>1, ReloadAssumption
      <3> QED
        BY <3>1, <3>2
    <2> QED
      BY <1>5, <1>8, <2>2, <2>3, <2>4, <2>5
  <1>10. tag \in {"minigraph", "golden"} => x \in MinigraphSteps
    <2>1. tag \in {"minigraph", "golden"} => MinigraphCourse(q, tag)
      BY <1>6, <1>7 DEF OnCourse
    <2> QED
      BY <1>2, <1>4, <2>1, HeadOfSteps DEF MinigraphCourse
  <1>11. tag \in FileNames \/ tag \in {"minigraph", "golden"}
    BY <1>6 DEF OnCourse
  <1>12. CASE /\ x \notin {"check"} \cup SaveSteps
              /\ (\E d : StepsOn(a, d)) /\ etc' = etc /\ GoOn(a, Tail(q))
    <2>1. PICK d : StepsOn(a, d)
      BY <1>12
    <2>2. /\ after = [dbs EXCEPT ![m] = d]
          /\ x \in ReloadSteps => Reloads(x, dbs[m], d, Reading(a, m).config, sysnow)
          /\ x \in MinigraphSteps => Regenerates(x, dbs[m], d, Golden[m])
      BY <1>1, <1>3, <1>5, <2>1 DEF StepsOn
    <2>3. dbs = [n \in NS |-> dbs[n]]
      BY <1>3 DEF ReloadInv, AreConfigs
    <2>4. after[m] = d /\ \A n \in NS : n # m => after[n] = dbs[n]
      BY <1>5, <2>2, <2>3
    <2>5. x # "check"
      BY <1>12
    <2>6. tag \in FileNames => Reloads(x, dbs[m], after[m], FilesAmong(files, tag)[m].config, sysnow)
      BY <1>8, <1>9, <2>2, <2>4
    <2>7. tag \in {"minigraph", "golden"} => Regenerates(x, dbs[m], after[m], Golden[m])
      BY <1>10, <2>2, <2>4
    <2>8. OnCourse(tag, name, sysnow, Tail(q), after, files)
      BY <1>2, <1>4, <1>6, <2>4, <2>5, <2>6, <2>7, CourseMoves
    <2>9. CASE Tail(q) = << >> /\ Finishes(a)
      <3>1. Whole(tag, after, files)
        BY <2>8, <2>9, CourseEnds
      <3> QED
        BY <1>1, <1>3, <1>12, <2>9, <3>1
    <2>10. CASE \E r : Goes(a, r) /\ r.steps = Tail(q) /\ r.now = admin[a].now
      <3>1. PICK r : Goes(a, r) /\ r.steps = Tail(q) /\ r.now = admin[a].now
        BY <2>10
      <3>2. r.tag = tag /\ r.files = name /\ r.now = sysnow
        BY <1>1, <3>1 DEF Goes
      <3>3. OnCourse(r.tag, r.files, r.now, r.steps, cfg', etc')
        BY <1>3, <1>12, <2>8, <3>1, <3>2
      <3> QED
        BY <3>1, <3>3
    <2> QED
      BY <1>2, <1>12, <2>9, <2>10, GoesOn
  <1>13. CASE CheckFile(a)
    <2>1. /\ x = "check" /\ cfg' = cfg /\ etc' = etc
          /\ \/ Abort(a)
             \/ ~Reading(a, m).exists /\ \E rest \in Seq(AllSteps \X NS) : GoOn(a, rest)
             \/ \E r : /\ Goes(a, r) /\ r.steps = Tail(admin[a].steps)
                       /\ r.now \/ Reading(a, m).config.sysinfo
      BY <1>5, <1>13, CheckGoes
    <2>2. tag \in FileNames /\ tag \notin {"minigraph", "golden"}
      BY <1>7, <1>10, <1>11, <2>1 DEF MinigraphSteps
    <2>3. Reading(a, m) = f /\ f.exists
      BY <1>9, <2>2
    <2>4. CASE \E r : /\ Goes(a, r) /\ r.steps = Tail(admin[a].steps)
                      /\ r.now \/ Reading(a, m).config.sysinfo
      <3>1. PICK r : /\ Goes(a, r) /\ r.steps = Tail(admin[a].steps)
                     /\ r.now \/ Reading(a, m).config.sysinfo
        BY <2>4
      <3>2. Reloads(x, dbs[m], dbs[m], FilesAmong(files, tag)[m].config, sysnow)
        BY <2>1 DEF Reloads
      <3>3. r.now \/ FilesAmong(files, tag)[m].config.sysinfo
        BY <1>8, <2>3, <3>1
      <3>4. OnCourse(tag, name, r.now, Tail(q), dbs, files)
        BY <1>2, <1>4, <1>6, <2>1, <2>2, <3>2, <3>3, CourseMoves
      <3>5. r.tag = tag /\ r.files = name
        BY <1>1, <3>1 DEF Goes
      <3>6. OnCourse(r.tag, r.files, r.now, r.steps, cfg', etc')
        BY <1>2, <1>3, <2>1, <3>1, <3>4, <3>5
      <3> QED
        BY <3>1, <3>6
    <2> QED
      BY <2>1, <2>3, <2>4
  <1>14. ~(x \in SaveSteps)
    BY <1>9, <1>10, <1>11 DEF SaveSteps, ReloadSteps, MinigraphSteps
  <1> QED
    BY <1>2, <1>5, <1>12, <1>13, <1>14, StepKinds

(* What a step of a running command leaves. *)
LEMMA StepLeaves ==
  ASSUME ReloadInv, NEW a \in Running, AreConfigs(cfg', etc'),
         \/ Abort(a)
         \/ Finishes(a) /\ (admin[a].alone /\ admin[a].tag # NoTag => Whole(admin[a].tag, cfg', etc'))
         \/ \E r : Goes(a, r) /\ (r.alone /\ r.tag # NoTag => OnCourse(r.tag, r.files, r.now, r.steps, cfg', etc'))
  PROVE  ReloadInv'
  <1>1. PICK c : c = admin[a] /\ a \in Admins
    BY HeadStep
  <1>2. PICK all, new : all = admin /\ new = admin' /\ all = [b \in Admins |-> all[b]] /\ all[a] = c
    BY <1>1 DEF ReloadInv
  <1>3. /\ done = NoTag /\ \A b \in Admins : IsAdmin(all[b])
        /\ \A b \in Admins : all[b].steps # << >> /\ all[b].alone => b = a
    <2>1. Running # {} => done = NoTag
      BY DEF ReloadInv
    <2>2. \A b \in Running : all[b].alone => Running = {b}
      BY <1>2 DEF ReloadInv
    <2>3. \A b \in Admins : all[b].steps # << >> => b \in Running
      BY <1>2 DEF Running
    <2>4. \A b \in Admins : IsAdmin(all[b])
      BY <1>2 DEF ReloadInv
    <2> QED
      BY <2>1, <2>2, <2>3, <2>4
  <1>4. Running' = {b \in Admins : new[b].steps # << >>}
    BY <1>2 DEF Running
  <1>5. CASE \E r : Goes(a, r) /\ (r.alone /\ r.tag # NoTag => OnCourse(r.tag, r.files, r.now, r.steps, cfg', etc'))
    <2>1. PICK r : Goes(a, r) /\ (r.alone /\ r.tag # NoTag => OnCourse(r.tag, r.files, r.now, r.steps, cfg', etc'))
      BY <1>5
    <2>2. /\ new = [all EXCEPT ![a] = r] /\ done' = NoTag /\ IsAdmin(r) /\ r.alone = c.alone
      BY <1>1, <1>2, <1>3, <2>1 DEF Goes
    <2>3. /\ new = [b \in Admins |-> new[b]] /\ new[a] = r
          /\ \A b \in Admins : b # a => new[b] = all[b]
      BY <1>1, <1>2, <2>2
    <2>4. \A b \in Admins : IsAdmin(new[b])
      BY <1>3, <2>2, <2>3
    <2>5. ASSUME NEW b \in Running', new[b].alone
          PROVE  Running' = {b} /\ b = a
      <3>1. b \in Admins /\ new[b].steps # << >>
        BY <1>4
      <3>2. b = a
        BY <1>3, <2>3, <2>5, <3>1
      <3>3. c.alone
        BY <2>2, <2>3, <2>5, <3>2
      <3>4. Running = {a}
        BY <1>1, <3>3 DEF ReloadInv
      <3>5. \A d \in Admins : d # a => all[d].steps = << >>
        BY <1>2, <3>4 DEF Running
      <3>6. \A d \in Running' : d = a
        BY <1>4, <2>3, <3>5
      <3> QED
        BY <2>5, <3>2, <3>6
    <2>6. ASSUME NEW b \in Running', new[b].alone, new[b].tag # NoTag
          PROVE  OnCourse(new[b].tag, new[b].files, new[b].now, new[b].steps, cfg', etc')
      <3>1. new[b] = r
        BY <2>3, <2>5, <2>6
      <3> QED
        BY <2>1, <2>6, <3>1
    <2> QED
      BY <1>2, <2>2, <2>3, <2>4, <2>5, <2>6 DEF ReloadInv
  <1>6. CASE \/ Abort(a)
             \/ Finishes(a) /\ (admin[a].alone /\ admin[a].tag # NoTag => Whole(admin[a].tag, cfg', etc'))
    <2>1. new = [all EXCEPT ![a] = IdleAdmin]
      BY <1>2, <1>6 DEF Abort, Finishes
    <2>2. IsAdmin(IdleAdmin) /\ IdleAdmin.steps = << >>
      BY DEF IsAdmin, IdleAdmin, NoSuchFile
    <2>3. /\ new = [b \in Admins |-> new[b]] /\ new[a] = IdleAdmin
          /\ \A b \in Admins : b # a => new[b] = all[b]
      BY <1>1, <1>2, <2>1
    <2>4. \A b \in Admins : IsAdmin(new[b])
      BY <1>3, <2>2, <2>3
    <2>5. \A b \in Running' : ~new[b].alone
      BY <1>3, <1>4, <2>2, <2>3
    <2>6. CASE Abort(a)
      <3>1. done' = NoTag
        BY <1>3, <2>6 DEF Abort
      <3> QED
        BY <1>2, <2>3, <2>4, <2>5, <3>1 DEF ReloadInv
    <2>7. CASE Finishes(a) /\ (admin[a].alone /\ admin[a].tag # NoTag => Whole(admin[a].tag, cfg', etc'))
      <3>1. done' = IF c.alone THEN c.tag ELSE NoTag
        BY <1>1, <2>7 DEF Finishes
      <3>2. done' # NoTag => Whole(done', cfg', etc')
        BY <1>1, <2>7, <3>1
      <3>3. Running' # {} => done' = NoTag
        <4>1. CASE c.alone
          <5>1. Running = {a}
            BY <1>1, <4>1 DEF ReloadInv
          <5>2. \A d \in Admins : d # a => all[d].steps = << >>
            BY <1>2, <5>1 DEF Running
          <5>3. Running' = {}
            BY <1>4, <2>2, <2>3, <5>2
          <5> QED
            BY <5>3
        <4>2. CASE ~c.alone
          BY <3>1, <4>2
        <4> QED
          BY <4>1, <4>2
      <3> QED
        BY <1>2, <2>3, <2>4, <2>5, <3>2, <3>3 DEF ReloadInv
    <2> QED
      BY <1>6, <2>6, <2>7
  <1> QED
    BY <1>5, <1>6

LEMMA CommandSteps ==
  ASSUME ReloadInv, NEW a \in Running, AdminStep(a)
  PROVE  ReloadInv'
  <1>1. /\ AreConfigs(cfg', etc')
        /\ Abort(a) \/ Finishes(a) \/ \E r : Goes(a, r)
    BY StepOutcome
  <1>2. CASE admin[a].alone /\ admin[a].tag # NoTag
    <2>1. OnCourse(admin[a].tag, admin[a].files, admin[a].now, admin[a].steps, cfg, etc)
      BY <1>2 DEF ReloadInv
    <2>2. \/ Abort(a)
          \/ Finishes(a) /\ Whole(admin[a].tag, cfg', etc')
          \/ \E r : Goes(a, r) /\ OnCourse(r.tag, r.files, r.now, r.steps, cfg', etc')
      BY <2>1, CourseOutcome
    <2> QED
      BY <1>1, <2>2, StepLeaves
  <1>3. CASE ~(admin[a].alone /\ admin[a].tag # NoTag)
    <2>1. \A r : Goes(a, r) => ~(r.alone /\ r.tag # NoTag)
      BY <1>3 DEF Goes
    <2> QED
      BY <1>1, <1>3, <2>1, StepLeaves
  <1> QED
    BY <1>2, <1>3

(* What a command that starts leaves: only one that starts alone counts. *)
LEMMA CommandStarts ==
  ASSUME ReloadInv, NEW a \in Admins, NEW name, NEW sysnow, NEW tag, NEW locked, NEW q \in Seq(AllSteps \X NS),
         StartCommand(a, name, sysnow, tag, locked, q),
         tag # NoTag => OnCourse(tag, name, sysnow, q, cfg, etc)
  PROVE  ReloadInv'
  <1>1. cfg' = cfg /\ etc' = etc /\ admin[a] = IdleAdmin
    BY DEF StartCommand
  <1>2. PICK dbs, files : dbs = cfg /\ files = etc /\ dbs = cfg' /\ files = etc' /\ AreConfigs(dbs, files)
    BY <1>1 DEF ReloadInv
  <1>3. PICK all, new : all = admin /\ new = admin' /\ \A b \in Admins : IsAdmin(all[b])
    BY DEF ReloadInv
  <1>4. PICK run : run = Running /\ run = {b \in Admins : all[b].steps # << >>}
    BY <1>3 DEF Running
  <1>5. Running' = {b \in Admins : new[b].steps # << >>}
    BY <1>3 DEF Running
  <1>6. CASE UNCHANGED <<admin, flock, done>>
    BY <1>1, <1>6 DEF ReloadInv, Running
  <1>7. CASE /\ done' = NoTag
             /\ admin' = [x \in Admins |->
                  IF x = a THEN [steps |-> q, files |-> name, sysinfo |-> sysnow, now |-> sysnow,
                                 held |-> NoSuchFile, tag |-> tag, alone |-> Running = {}]
                  ELSE IF x \in Running THEN [admin[x] EXCEPT !.alone = FALSE] ELSE admin[x]]
    <2>1. PICK idle : idle \in BOOLEAN /\ idle = (run = {})
      OBVIOUS
    <2>2. PICK c : c = [steps |-> q, files |-> name, sysinfo |-> sysnow, now |-> sysnow,
                        held |-> NoSuchFile, tag |-> tag, alone |-> idle]
      OBVIOUS
    <2>3. new = [x \in Admins |->
                   IF x = a THEN c ELSE IF x \in run THEN [all[x] EXCEPT !.alone = FALSE] ELSE all[x]]
      BY <1>3, <1>4, <1>7, <2>1, <2>2
    <2>4. IsAdmin(c)
      BY <2>2 DEF IsAdmin, NoSuchFile
    <2>5. ASSUME NEW b \in Admins
          PROVE  IsAdmin(new[b]) /\ (b # a => new[b].steps = all[b].steps)
      <3>1. CASE b = a
        BY <2>3, <2>4, <3>1
      <3>2. CASE b # a /\ b \in run
        <4>1. PICK d : d = all[b] /\ IsAdmin(d)
          BY <1>3
        <4>2. PICK e : e = [d EXCEPT !.alone = FALSE]
          OBVIOUS
        <4>3. e = [steps |-> d.steps, files |-> d.files, sysinfo |-> d.sysinfo, now |-> d.now, held |-> d.held,
                   tag |-> d.tag, alone |-> FALSE]
          BY <4>1, <4>2 DEF IsAdmin
        <4>4. IsAdmin(e) /\ e.steps = d.steps
          BY <4>1, <4>3 DEF IsAdmin
        <4>5. new[b] = e
          BY <2>3, <3>2, <4>1, <4>2
        <4> QED
          BY <4>1, <4>4, <4>5
      <3>3. CASE b # a /\ b \notin run
        BY <1>3, <2>3, <3>3
      <3> QED
        BY <3>1, <3>2, <3>3
    <2>6. ASSUME NEW b \in Running', new[b].alone
          PROVE  b = a /\ run = {}
      <3>1. b \in Admins /\ new[b].steps # << >>
        BY <1>5
      <3>2. CASE b # a
        <4>1. b \in run
          BY <1>4, <2>5, <3>1, <3>2
        <4>2. new[b] = [all[b] EXCEPT !.alone = FALSE]
          BY <2>3, <3>1, <3>2, <4>1
        <4>3. IsAdmin(all[b])
          BY <1>3, <3>1
        <4>4. ~new[b].alone
          BY <4>2, <4>3 DEF IsAdmin
        <4> QED
          BY <2>6, <4>4
      <3>3. CASE b = a
        <4>1. new[a] = c
          BY <2>3
        <4>2. c.alone
          BY <2>6, <3>3, <4>1
        <4>3. idle
          BY <2>2, <4>2
        <4> QED
          BY <2>1, <3>3, <4>3
      <3> QED
        BY <3>2, <3>3
    <2>7. ASSUME NEW b \in Running', new[b].alone
          PROVE  Running' = {b}
      <3>1. b = a /\ run = {}
        BY <2>6, <2>7
      <3>2. \A d \in Admins : d # a => new[d].steps = << >>
        BY <1>4, <2>5, <3>1
      <3>3. Running' \subseteq {a}
        BY <1>5, <3>2
      <3> QED
        BY <2>7, <3>1, <3>3
    <2>8. ASSUME NEW b \in Running', new[b].alone, new[b].tag # NoTag
          PROVE  OnCourse(new[b].tag, new[b].files, new[b].now, new[b].steps, dbs, files)
      <3>1. new[b] = c
        BY <2>3, <2>6, <2>8
      <3>2. c.tag = tag /\ c.files = name /\ c.now = sysnow /\ c.steps = q
        BY <2>2
      <3>3. OnCourse(tag, name, sysnow, q, dbs, files)
        BY <1>2, <2>8, <3>1, <3>2
      <3> QED
        BY <3>1, <3>2, <3>3
    <2>9. new = [b \in Admins |-> new[b]]
      BY <2>3
    <2>10. AreConfigs(cfg', etc') /\ done' = NoTag /\ admin' = [b \in Admins |-> admin'[b]]
      BY <1>2, <1>3, <1>7, <2>9
    <2>11. \A b \in Admins : IsAdmin(admin'[b])
      BY <1>3, <2>5
    <2>12. \A b \in Running' : admin'[b].alone => Running' = {b}
      BY <1>3, <2>7
    <2>13. \A b \in Running' :
             admin'[b].alone /\ admin'[b].tag # NoTag =>
               OnCourse(admin'[b].tag, admin'[b].files, admin'[b].now, admin'[b].steps, cfg', etc')
      BY <1>2, <1>3, <2>8
    <2> QED
      BY <2>10, <2>11, <2>12, <2>13 DEF ReloadInv
  <1>8. CASE locked /\ flock # NoTag
    BY <1>6, <1>8 DEF StartCommand
  <1>9. CASE ~(locked /\ flock # NoTag)
    BY <1>7, <1>9 DEF StartCommand
  <1> QED
    BY <1>8, <1>9

LEMMA OtherSteps ==
  ASSUME NEW k \in Seq(AllSteps), Len(k) \in Sizes,
         \A r \in 1..Len(k), s \in 1..Len(k) : k[r] = k[s] => r = s
  PROVE  OnAll(k, NsOrder) \in Seq(AllSteps \X NS)
  <1>1. IsOnAll(AllSteps, OnAll(k, NsOrder), k)
    BY StepsOnAll
  <1> QED
    BY <1>1 DEF IsOnAll

LEMMA CommandsStart ==
  ASSUME ReloadInv, NEW a \in Admins,
         \/ \E name \in FileNames, load_sysinfo, restart, force, bypass \in BOOLEAN :
              reload(a, name, load_sysinfo, restart, force, bypass)
         \/ \E restart, override, bypass \in BOOLEAN : load_minigraph(a, restart, override, bypass)
         \/ \E name \in FileNames : load(a, name)
         \/ override_config_table(a)
         \/ save(a)
         \/ load_mgmt_config(a)
  PROVE  ReloadInv'
  <1>1. ASSUME NEW name \in FileNames, NEW load_sysinfo, NEW restart, NEW force, NEW bypass,
               reload(a, name, load_sysinfo, restart, force, bypass)
        PROVE  ReloadInv'
    <2>1. PICK q : q = (IF restart THEN On("stop") ELSE << >>) \o OnAll(NamespaceSteps(name), NsOrder) \o
                       (IF restart THEN On("reset_failed") \o On("restart") ELSE << >>)
      OBVIOUS
    <2>2. PICK tag : tag = IF force THEN NoTag ELSE name
      OBVIOUS
    <2>3. StartCommand(a, name, load_sysinfo, tag, ~bypass, q)
      BY <1>1, <2>1, <2>2 DEF reload
    <2>4. ReloadCourse(q) /\ \A x \in ReloadNames, n \in NS : Remains(q, n, x)
      BY <2>1, ReloadStarts
    <2>5. q \in Seq(AllSteps \X NS)
      <3>1. q \in Seq(ReloadSteps \X NS)
        BY <2>4 DEF ReloadCourse
      <3>2. ReloadSteps \X NS \subseteq AllSteps \X NS
        BY DEF AllSteps
      <3> QED
        BY <3>1, <3>2
    <2>6. ASSUME tag # NoTag
          PROVE  OnCourse(tag, name, load_sysinfo, q, cfg, etc)
      <3>1. tag = name /\ ~force
        BY <2>2, <2>6
      <3>2. \A n \in NS : FilesAmong(etc, name)[n].valid
        BY <1>1, <3>1 DEF reload, config_file_yang_validation, FilesOf, FilesAmong
      <3>3. \A n \in NS : Reloaded(cfg[n], FilesAmong(etc, name)[n].config, q, n, load_sysinfo)
        BY <2>4 DEF Reloaded, ReloadNames
      <3> QED
        BY <1>1, <2>4, <3>1, <3>2, <3>3 DEF OnCourse
    <2> QED
      BY <2>3, <2>5, <2>6, CommandStarts
  <1>2. ASSUME NEW restart, NEW override, NEW bypass, load_minigraph(a, restart, override, bypass)
        PROVE  ReloadInv'
    <2>1. PICK q : q = (IF restart THEN On("forget") \o On("stop") ELSE << >>) \o
                       OnAll(<<"flush", "minigraph", "mark">>, NsOrder) \o
                       On("port_config") \o OnAll(<<"set_version">>, NsOrder) \o
                       (IF override THEN OnAll(<<"override", "apply">>, NsOrder) ELSE << >>) \o
                       On("platform_plugin") \o
                       (IF restart THEN On("reset_failed") \o On("restart") ELSE << >>)
      OBVIOUS
    <2>2. PICK tag : tag = IF override THEN "golden" ELSE "minigraph"
      OBVIOUS
    <2>3. StartCommand(a, "minigraph", TRUE, tag, ~bypass, q)
      BY <1>2, <2>1, <2>2 DEF load_minigraph
    <2>4. /\ MinigraphCourse(q, tag)
          /\ \A x \in {"flush", "minigraph", "mark", "set_version"}, n \in NS : Remains(q, n, x)
          /\ tag = "golden" => \A n \in NS : Remains(q, n, "override") /\ Remains(q, n, "apply")
      BY <2>1, <2>2, MinigraphStarts
    <2>5. q \in Seq(AllSteps \X NS)
      <3>1. q \in Seq(MinigraphSteps \X NS)
        BY <2>4 DEF MinigraphCourse
      <3>2. MinigraphSteps \X NS \subseteq AllSteps \X NS
        BY DEF AllSteps
      <3> QED
        BY <3>1, <3>2
    <2>6. \A n \in NS : Regenerated(cfg[n], Golden[n], q, n, tag)
      <3>1. tag # "golden" => \A n \in NS : ~Remains(q, n, "apply")
        BY <2>4, AbsentSteps DEF MinigraphCourse
      <3> QED
        BY <2>4, <3>1 DEF Regenerated
    <2>7. PICK sysnow : sysnow = TRUE
      OBVIOUS
    <2>8. OnCourse(tag, "minigraph", sysnow, q, cfg, etc)
      BY <2>2, <2>4, <2>6 DEF OnCourse
    <2>9. StartCommand(a, "minigraph", sysnow, tag, ~bypass, q)
      BY <2>3, <2>7
    <2> QED
      BY <2>5, <2>8, <2>9, CommandStarts
  <1> DEFINE Other(name, q) == StartCommand(a, name, FALSE, NoTag, FALSE, q)
  <1>3. ASSUME NEW name, NEW q \in Seq(AllSteps \X NS), Other(name, q)
        PROVE  ReloadInv'
    <2>1. PICK no : no = FALSE
      OBVIOUS
    <2>2. StartCommand(a, name, no, NoTag, no, q)
      BY <1>3, <2>1
    <2> QED
      BY <2>2, CommandStarts
  <1>4. ASSUME NEW name, load(a, name)
        PROVE  ReloadInv'
    <2>1. PICK k : k = <<"merge">>
      OBVIOUS
    <2>2. k \in Seq(AllSteps) /\ Len(k) = 1
      BY <2>1 DEF AllSteps
    <2>3. OnAll(k, NsOrder) \in Seq(AllSteps \X NS)
      BY <2>2, OtherSteps DEF Sizes
    <2>4. Other(name, OnAll(k, NsOrder))
      BY <1>4, <2>1 DEF load
    <2> HIDE DEF Other
    <2> QED
      BY <1>3, <2>3, <2>4
  <1>5. ASSUME override_config_table(a)
        PROVE  ReloadInv'
    <2>1. PICK k : k = <<"override", "apply">>
      OBVIOUS
    <2>2. k \in Seq(AllSteps) /\ Len(k) = 2 /\ k[1] # k[2]
      BY <2>1 DEF AllSteps, MinigraphSteps
    <2>3. OnAll(k, NsOrder) \in Seq(AllSteps \X NS)
      BY <2>2, OtherSteps DEF Sizes
    <2>4. Other("golden", OnAll(k, NsOrder))
      BY <1>5, <2>1 DEF override_config_table
    <2> HIDE DEF Other
    <2> QED
      BY <1>3, <2>3, <2>4
  <1>6. ASSUME save(a)
        PROVE  ReloadInv'
    <2>1. PICK k : k = <<"truncate", "dump", "reopen", "sort">>
      OBVIOUS
    <2>2. k \in Seq(AllSteps) /\ Len(k) = 4 /\ \A r \in 1..4, s \in 1..4 : k[r] = k[s] => r = s
      BY <2>1 DEF AllSteps
    <2>3. OnAll(k, NsOrder) \in Seq(AllSteps \X NS)
      BY <2>2, OtherSteps DEF Sizes
    <2>4. Other("default", OnAll(k, NsOrder))
      BY <1>6, <2>1 DEF save
    <2> HIDE DEF Other
    <2> QED
      BY <1>3, <2>3, <2>4
  <1>7. ASSUME load_mgmt_config(a)
        PROVE  ReloadInv'
    <2>1. HostNs \in NS
      <3>1. NsOrder \in Seq(NS) /\ NsOrder # << >>
        BY ReloadAssumption
      <3> QED
        BY <3>1, EmptySeq, LenProperties, ElementOfSeq DEF HostNs
    <2>2. On("mgmt") \in Seq(AllSteps \X NS)
      BY <2>1 DEF On, AllSteps
    <2>3. Other("default", On("mgmt"))
      BY <1>7 DEF load_mgmt_config
    <2> HIDE DEF Other
    <2> QED
      BY <1>3, <2>2, <2>3
  <1> QED
    BY <1>1, <1>2, <1>4, <1>5, <1>6, <1>7

(***************************************************************************)
(* A command that ended well, and alone, leaves its source everywhere.     *)
(***************************************************************************)
LEMMA ReloadInvInit == ReloadInit => ReloadInv
  <1> SUFFICES ASSUME ReloadInit
               PROVE  ReloadInv
    OBVIOUS
  <1>1. AreConfigs(cfg, etc)
    <2>1. PICK dbs : dbs = cfg
      OBVIOUS
    <2>2. dbs = [n \in NS |-> [FirstFiles[n].config EXCEPT !.mark = TRUE]] /\ etc = FirstFiles
      BY <2>1 DEF ReloadInit
    <2>3. ASSUME NEW n \in NS
          PROVE  IsConfig(dbs[n]) /\ (etc[n].valid => etc[n].exists)
      <3>1. PICK c : c = FirstFiles[n].config /\ IsConfig(c)
        BY ReloadAssumption
      <3>2. dbs[n] = [c EXCEPT !.mark = TRUE]
        BY <2>2, <3>1
      <3> QED
        BY <2>2, <3>1, <3>2, ReloadAssumption DEF IsConfig
    <2>4. dbs = [n \in NS |-> dbs[n]] /\ etc = [n \in NS |-> etc[n]]
      BY <2>2, ReloadAssumption
    <2> QED
      BY <2>1, <2>3, <2>4 DEF AreConfigs
  <1>2. IsAdmin(IdleAdmin) /\ IdleAdmin.steps = << >>
    BY DEF IsAdmin, IdleAdmin, NoSuchFile
  <1>3. admin = [a \in Admins |-> admin[a]] /\ \A a \in Admins : admin[a] = IdleAdmin
    BY DEF ReloadInit
  <1>4. Running = {} /\ done = NoTag
    BY <1>2, <1>3 DEF Running, ReloadInit
  <1> QED
    BY <1>1, <1>2, <1>3, <1>4 DEF ReloadInv

LEMMA ReloadInvStep == ReloadInv /\ [ReloadsNext]_reloadVars => ReloadInv'
  <1> SUFFICES ASSUME ReloadInv, [ReloadsNext]_reloadVars
               PROVE  ReloadInv'
    OBVIOUS
  <1>1. ASSUME NEW a \in Admins, AdminStep(a)
        PROVE  ReloadInv'
    <2>1. a \in Running
      BY <1>1 DEF AdminStep, Running
    <2> QED
      BY <1>1, <2>1, CommandSteps
  <1>2. ASSUME NEW a \in Admins, Dies(a)
        PROVE  ReloadInv'
    <2>1. a \in Running /\ Abort(a) /\ cfg' = cfg /\ etc' = etc
      BY <1>2 DEF Dies, Running
    <2>2. AreConfigs(cfg', etc')
      BY <2>1 DEF ReloadInv
    <2> QED
      BY <2>1, <2>2, StepLeaves
  <1>3. CASE UNCHANGED <<cfg, etc, admin, done>>
    BY <1>3 DEF ReloadInv, Running
  <1>4. SwssComesUp \/ WarmbootEnds \/ UNCHANGED reloadVars => UNCHANGED <<cfg, etc, admin, done>>
    BY DEF SwssComesUp, WarmbootEnds, reloadVars
  <1> QED
    BY <1>1, <1>2, <1>3, <1>4, CommandsStart DEF ReloadsNext

(* When a reload (not forced) or a load_minigraph has ended well and       *)
(* nothing without the lock ran beside it, every database holds that       *)
(* source and nothing else, with its system information, its mark and the  *)
(* latest schema: for any namespaces and files, and any commands that are  *)
(* refused or die on the way.                                              *)
THEOREM ReloadsAreWhole == ReloadsSpec => []ReloadIsWhole
  <1>1. ReloadInv => ReloadIsWhole
    BY DEF ReloadInv, ReloadIsWhole, Whole, SourceTags, FilesOf, FilesAmong
  <1> QED
    BY <1>1, ReloadInvInit, ReloadInvStep, PTL DEF ReloadsSpec

=============================================================================
