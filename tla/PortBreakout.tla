---------------------------- MODULE PortBreakout ----------------------------
(* Dynamic port breakout: config interface breakout (config/main.py) and   *)
(* ConfigMgmtDPB (config/config_mgmt.py).  The command works out from one  *)
(* reading of ConfigDB what to delete and what to add, shuts the old ports *)
(* down, deletes them with what depends on them, waits until orchagent has *)
(* removed them from ASIC_DB, and adds the new ones.  Meanwhile orchagent  *)
(* follows ConfigDB, another session may configure a port, and the command *)
(* may be killed between any two steps.                                    *)
EXTENDS Integers, Sequences, FiniteSets

CONSTANTS
  BreakoutModes,  \* modes of the one parent port
  ChildPorts,     \* mode -> names of its ports; a name may be in two modes
  LanesOf,        \* mode -> port -> set of lanes
  DefaultConfig,  \* ports for which the predefined configuration has a dependent entry
  MaxWait         \* MAX_WAIT: checks of ASIC_DB, one a second

\* platform.json divides the lanes of the parent among the ports of a mode;
\* the command refuses a mode that has none.
ASSUME BreakoutAssumption ==
  \A m \in BreakoutModes :
    /\ ChildPorts[m] # {}
    /\ \A p, q \in ChildPorts[m] : p # q => LanesOf[m][p] \cap LanesOf[m][q] = {}

VARIABLES
  ports,   \* ConfigDB table PORT: port -> [mode, up]; mode stands for its lanes
  deps,    \* ports some other table of ConfigDB refers to
  brkout,  \* BREAKOUT_CFG: the mode recorded for the parent port
  asic,    \* port objects of ASIC_DB: [port, mode], each with its own OID
  cmd,     \* the command that runs
  meddled, \* ports configured while a command ran (for the properties)
  unrecorded \* a command was killed between adding its ports and recording the mode (likewise)
breakoutVars == <<ports, deps, brkout, asic, cmd, meddled, unrecorded>>

NoBreakout == [pc |-> "idle", target |-> "", force |-> FALSE, del |-> {}, delDeps |-> {},
         addDeps |-> {}, oids |-> {}, tries |-> 0]
PortObject(p, m) == [port |-> p, mode |-> m]
AllPorts == UNION {ChildPorts[m] : m \in BreakoutModes}

BreakoutInit ==
  /\ brkout \in BreakoutModes
  /\ ports = [p \in ChildPorts[brkout] |-> [mode |-> brkout, up |-> TRUE]]
  /\ asic = {PortObject(p, brkout) : p \in ChildPorts[brkout]}
  /\ deps = {} /\ cmd = NoBreakout /\ meddled = {} /\ unrecorded = FALSE

---------------------------------------------------------------------------
\* _validate_interface_mode, and interface_name_is_valid for the old ports.
_validate_interface_mode(target) == target \in BreakoutModes /\ target # brkout
_deletePorts(force) == force \/ deps \cap ChildPorts[brkout] = {}

\* The parent port must be in PORT, so that after a breakout that ended
\* half way there is no second one.  if_name_map has the ports ASIC_DB knows.
breakout(target, force, load_predefined_config) ==
  /\ cmd.pc = "idle"
  /\ _validate_interface_mode(target) /\ ChildPorts[brkout] \subseteq DOMAIN ports
  /\ _deletePorts(force)
  /\ cmd' = [pc |-> "shutdown", target |-> target, force |-> force, del |-> ChildPorts[brkout],
             delDeps |-> deps \cap ChildPorts[brkout],
             addDeps |-> IF load_predefined_config THEN DefaultConfig \cap ChildPorts[target] ELSE {},
             oids |-> {o \in asic : o.port \in ChildPorts[brkout]}, tries |-> 0]
  /\ UNCHANGED <<ports, deps, brkout, asic, meddled, unrecorded>>

_shutdownIntf ==
  /\ cmd.pc = "shutdown"
  /\ ports' = [p \in DOMAIN ports |-> [ports[p] EXCEPT !.up = @ /\ p \notin cmd.del]]
  /\ cmd' = [cmd EXCEPT !.pc = "delete"]
  /\ UNCHANGED <<deps, brkout, asic, meddled, unrecorded>>

\* writeConfigDB(delConfigToLoad): what was there when ConfigDB was read.
WriteDel ==
  /\ cmd.pc = "delete"
  /\ ports' = [p \in DOMAIN ports \ cmd.del |-> ports[p]]
  /\ deps' = deps \ cmd.delDeps
  /\ cmd' = [cmd EXCEPT !.pc = "verify"]
  /\ UNCHANGED <<brkout, asic, meddled, unrecorded>>

\* A port that has no OID in the map raises KeyError, which counts as present.
_checkNoPortsInAsicDb ==
  /\ cmd.del = {o.port : o \in cmd.oids}
  /\ cmd.oids \cap asic = {}
\* Mutant: after the last try the ports are added all the same.
_verifyAsicDB_lenient ==
  /\ cmd.pc = "verify"
  /\ cmd' = IF _checkNoPortsInAsicDb \/ cmd.tries + 1 = MaxWait THEN [cmd EXCEPT !.pc = "add"]
            ELSE [cmd EXCEPT !.tries = @ + 1]
  /\ UNCHANGED <<ports, deps, brkout, asic, meddled, unrecorded>>
\* The last try fails whatever it finds (waitTime + 1 == timeout).
_verifyAsicDB ==
  /\ cmd.pc = "verify"
  /\ cmd' = IF cmd.tries + 1 < MaxWait
            THEN IF _checkNoPortsInAsicDb THEN [cmd EXCEPT !.pc = "add"]
                 ELSE [cmd EXCEPT !.tries = @ + 1]
            ELSE NoBreakout
  /\ UNCHANGED <<ports, deps, brkout, asic, meddled, unrecorded>>

WriteAdd ==
  /\ cmd.pc = "add"
  /\ ports' = [p \in DOMAIN ports \cup ChildPorts[cmd.target] |->
                IF p \in ChildPorts[cmd.target] THEN [mode |-> cmd.target, up |-> FALSE] ELSE ports[p]]
  /\ deps' = deps \cup cmd.addDeps
  /\ cmd' = [cmd EXCEPT !.pc = "record"]
  /\ UNCHANGED <<brkout, asic, meddled, unrecorded>>

RecordMode ==
  /\ cmd.pc = "record"
  /\ brkout' = cmd.target /\ cmd' = NoBreakout
  /\ UNCHANGED <<ports, deps, asic, meddled, unrecorded>>

Killed ==
  /\ cmd.pc # "idle" /\ cmd' = NoBreakout
  /\ unrecorded' = (unrecorded \/ cmd.pc = "record")
  /\ UNCHANGED <<ports, deps, brkout, asic, meddled>>

---------------------------------------------------------------------------
(* Orchagent removes an object when ConfigDB no longer has its port, and   *)
(* creates one for a port that has none.                                   *)
OrchRemove(o) ==
  /\ o \in asic /\ o.port \notin DOMAIN ports
  /\ asic' = asic \ {o} /\ UNCHANGED <<ports, deps, brkout, cmd, meddled, unrecorded>>
OrchCreate(p) ==
  /\ p \in DOMAIN ports /\ ~\E o \in asic : o.port = p
  /\ asic' = asic \cup {PortObject(p, ports[p].mode)} /\ UNCHANGED <<ports, deps, brkout, cmd, meddled, unrecorded>>

\* Another session adds an entry that refers to a port, or removes it.
Attach(p) ==
  /\ p \in DOMAIN ports \ deps
  /\ deps' = deps \cup {p}
  /\ meddled' = IF cmd.pc = "idle" THEN meddled ELSE meddled \cup {p}
  /\ UNCHANGED <<ports, brkout, asic, cmd, unrecorded>>
Detach(p) ==
  /\ p \in deps /\ deps' = deps \ {p}
  /\ UNCHANGED <<ports, brkout, asic, cmd, meddled, unrecorded>>

---------------------------------------------------------------------------
BreakoutNext ==
  \/ \E m \in BreakoutModes, force, given \in BOOLEAN : breakout(m, force, given)
  \/ _shutdownIntf \/ WriteDel \/ _verifyAsicDB \/ WriteAdd \/ RecordMode \/ Killed
  \/ \E o \in asic : OrchRemove(o)
  \/ \E p \in AllPorts : OrchCreate(p) \/ Attach(p) \/ Detach(p)
BreakoutSpec == BreakoutInit /\ [][BreakoutNext]_breakoutVars

---------------------------------------------------------------------------
\* The point of the wait: ConfigDB never asks orchagent for a port on lanes
\* that a port of another mode still holds in the ASIC, whatever the order
\* of commands, kills, timeouts and orchagent's steps - until a command is
\* killed after its ports are written and before BREAKOUT_CFG is: the next
\* one then deletes and waits for the ports of the wrong mode.  And what
\* refers to a port that is gone was configured while the command ran.
LanesNeverShared ==
  /\ ~unrecorded =>
       \A p \in DOMAIN ports, o \in asic :
         o = PortObject(p, ports[p].mode) \/ LanesOf[ports[p].mode][p] \cap LanesOf[o.mode][o.port] = {}
  /\ deps \subseteq DOMAIN ports \cup meddled
===========================================================================
