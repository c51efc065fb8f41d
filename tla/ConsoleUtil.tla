---------------------------- MODULE ConsoleUtil ----------------------------
(* consutil: users connect to console lines, clear them, list them and      *)
(* mirror them.  Which lines are in use is what ps shows; STATE_DB only     *)
(* keeps what the commands last saw there.  The commands of several users   *)
(* interleave between looking at the processes, writing STATE_DB and acting *)
(* on it.  picocom locks the line it opens; a second one ends at once.      *)
EXTENDS ConfigDb
LOCAL INSTANCE SequencesExt

CONSTANTS
  Users,          \* people at a shell
  Ttys,           \* console lines that have a device file
  MaxSessions     \* bound on the picocom processes of a behaviour

VARIABLES
  procs,          \* running picocom processes: [pid, line]
  lineState,      \* STATE_DB CONSOLE_PORT: line -> pid of its session, 0 when idle
  user,           \* user -> the command and where it stands
  sessions,       \* picocom processes started so far
  mirror          \* line -> what console-monitor does: "off", "on", "packaging"
consoleVars == <<procs, lineState, user, sessions, mirror>>

NoSession == [pc |-> "shell", cmd |-> "", line |-> "", own |-> {}, baud |-> FALSE, snap |-> {}, busy |-> 0,
              pid |-> 0, met |-> FALSE, says |-> ""]
ConsoleInit ==
  /\ procs = {} /\ lineState = [l \in Ttys |-> 0] /\ sessions = 0
  /\ user = [u \in Users |-> NoSession] /\ mirror = [l \in Ttys |-> "off"]

initialize_console_runtime == Field(db, "CONSOLE_SWITCH", "console_mgmt", "enabled", "no") = "yes"
ConfiguredLines == Keys(db, "CONSOLE_PORT")

\* ConsolePortProvider.get: by line number, or by the name of the device.
LinesFor(target, use_device, configured_only) ==
  IF use_device THEN {l \in ConfiguredLines : Field(db, "CONSOLE_PORT", l, "remote_device", "") = target}
  ELSE {l \in ConfiguredLines \cup (IF configured_only THEN {} ELSE Ttys) : l = target}
baud(l) == Has(db, "CONSOLE_PORT", l)

OnLine(l) == {p \in procs : p.line = l}
\* ps, read line by line: of two processes on a line the later one counts.
list_active_console_processes == {p \in procs : \A q \in OnLine(p.line) : q.pid <= p.pid}

---------------------------------------------------------------------------
(* Commands.  Each one reads the configuration, then looks at the processes *)
(* and writes the state of its own lines and of those with a process.       *)
Begins(u, cmd, l, own) ==
  /\ user[u].pc = "shell" /\ initialize_console_runtime
  /\ user' = [user EXCEPT ![u] = [NoSession EXCEPT !.pc = "list", !.cmd = cmd, !.line = l, !.own = own,
                                                   !.baud = baud(l), !.met = OnLine(l) # {}]]
  /\ UNCHANGED <<procs, lineState, sessions, mirror>>
console_connect(u, target, use_device) ==
  \E l \in LinesFor(target, use_device, FALSE) : Begins(u, "connect", l, {l})
consutil_clear(u, target, use_device) ==
  \E l \in LinesFor(target, use_device, FALSE) : Begins(u, "clear", l, {l})
consutil_show(u) == Begins(u, "show", "", ConfiguredLines)

ListProcesses(u) ==
  /\ user[u].pc = "list"
  /\ user' = [user EXCEPT ![u].pc = "update", ![u].snap = list_active_console_processes]
  /\ UNCHANGED <<procs, lineState, sessions, mirror>>

Done(u, says) == user' = [user EXCEPT ![u] = [@ EXCEPT !.pc = "shell", !.own = {}, !.baud = FALSE, !.snap = {},
                                             !.busy = 0, !.says = says]]
PidOn(snap, l) == IF \E p \in snap : p.line = l THEN (CHOOSE p \in snap : p.line = l).pid ELSE 0

\* Mutant: only lines with a process are updated; the own state is read back.
UpdatedBusyOnly(u) ==
  [l \in Ttys |-> IF PidOn(user[u].snap, l) # 0 THEN PidOn(user[u].snap, l) ELSE lineState[l]]

\* What the commands write: the lines with a process, and their own.  show
\* only writes the lines that are configured.
Updated(u) ==
  LET snap == user[u].snap
      all == IF user[u].cmd = "show" THEN user[u].own ELSE user[u].own \cup {p.line : p \in snap}
  IN  [l \in Ttys |-> IF l \in all THEN PidOn(snap, l) ELSE lineState[l]]

\* refresh, and what the command makes of it.
refresh(u) ==
  LET new == Updated(u)
      pid == IF user[u].line = "" THEN 0 ELSE new[user[u].line]
  IN  /\ user[u].pc = "update"
      /\ lineState' = new
      /\ CASE user[u].cmd = "show" -> Done(u, "table")
           [] user[u].cmd = "connect" /\ pid # 0 -> Done(u, "busy")
           [] user[u].cmd = "connect" /\ pid = 0 /\ ~user[u].baud -> Done(u, "configuration")
           [] user[u].cmd = "connect" /\ pid = 0 /\ user[u].baud ->
                user' = [user EXCEPT ![u].pc = "script"]
           [] user[u].cmd = "clear" /\ pid = 0 -> Done(u, "none")
           [] user[u].cmd = "clear" /\ pid # 0 -> user' = [user EXCEPT ![u].pc = "kill", ![u].busy = pid]
           [] user[u].cmd = "cleared" -> Done(u, "cleared")
      /\ UNCHANGED <<procs, sessions, mirror>>

\* clear_session: the process may have ended since; then one more refresh.
clear_session(u) ==
  /\ user[u].pc = "kill"
  /\ procs' = {p \in procs : p.pid # user[u].busy}
  /\ user' = [user EXCEPT ![u].pc = "list", ![u].cmd = "cleared"]
  /\ UNCHANGED <<lineState, sessions, mirror>>

---------------------------------------------------------------------------
(* CONSOLE_SESSION_SCRIPT                                                  *)
StartPicocom(u) ==
  /\ user[u].pc = "script" /\ sessions < MaxSessions
  /\ sessions' = sessions + 1
  /\ procs' = procs \cup {[pid |-> sessions + 1, line |-> user[u].line]}
  /\ user' = [x \in Users |->
       IF x = u THEN [user[x] EXCEPT !.pc = "announce", !.pid = sessions + 1]
       ELSE [user[x] EXCEPT !.met = @ \/ user[x].line = user[u].line]]
  /\ UNCHANGED <<lineState, mirror>>
console_state_set(u) ==
  /\ user[u].pc = "announce"
  /\ lineState' = [lineState EXCEPT ![user[u].line] = user[u].pid]
  /\ user' = [user EXCEPT ![u].pc = "wait"]
  /\ UNCHANGED <<procs, sessions, mirror>>
\* The user leaves, the shell is hung up, or the line is locked by another.
PicocomEnds(p) ==
  /\ p \in procs /\ procs' = procs \ {p}
  /\ UNCHANGED <<lineState, user, sessions, mirror>>
cleanup(u) ==
  /\ user[u].pc = "wait" /\ \A p \in procs : p.pid # user[u].pid
  /\ lineState' = [lineState EXCEPT ![user[u].line] = 0]
  /\ Done(u, "bye")
  /\ UNCHANGED <<procs, sessions, mirror>>

---------------------------------------------------------------------------
(* mirror: one request over the socket of the line.  The answer may come    *)
(* too late; then the outcome is unknown to the user.                       *)
send_mirror_message(u, op, target, use_device) ==
  \E l \in LinesFor(target, use_device, TRUE) :
    /\ user[u].pc = "shell" /\ initialize_console_runtime
    /\ user' = [user EXCEPT ![u] = [NoSession EXCEPT !.pc = "request", !.cmd = op, !.line = l]]
    /\ UNCHANGED <<procs, lineState, sessions, mirror>>
mirror_start(u, target, d) == send_mirror_message(u, "start", target, d)
mirror_stop(u, target, d, archive) == send_mirror_message(u, IF archive THEN "archive" ELSE "stop", target, d)
mirror_timeout(u, target, d) == send_mirror_message(u, "timeout", target, d)
mirror_show(u, target, d) == send_mirror_message(u, "status", target, d)

\* console-monitor: start when off; stop, archive and timeout when on.
Answered(op, m) ==
  CASE op = "start" /\ m = "off" -> "on"
    [] op = "stop" /\ m = "on" -> "off"
    [] op = "archive" /\ m = "on" -> "packaging"
    [] op = "timeout" /\ m = "on" -> "on"
    [] op = "status" -> m
    [] OTHER -> "error"
\* _recv_mirror_message: "packaging" is answered twice.
MirrorAnswers(u) ==
  LET l == user[u].line
      new == Answered(user[u].cmd, mirror[l])
  IN  /\ user[u].pc = "request"
      /\ mirror' = IF new = "error" THEN mirror ELSE [mirror EXCEPT ![l] = new]
      /\ IF new = "error" /\ user[u].cmd # "status" THEN Done(u, "failed")
         ELSE IF user[u].cmd = "archive" THEN user' = [user EXCEPT ![u].pc = "final"]
         ELSE Done(u, "ok")
      /\ UNCHANGED <<procs, lineState, sessions>>
MirrorPackaged(l) ==
  /\ mirror[l] = "packaging" /\ mirror' = [mirror EXCEPT ![l] = "off"]
  /\ user' = [u \in Users |-> IF user[u].pc = "final" /\ user[u].line = l
                              THEN [user[u] EXCEPT !.pc = "shell", !.says = "ok"] ELSE user[u]]
  /\ UNCHANGED <<procs, lineState, sessions>>
\* MirrorRequestTimeout: before the daemon has seen the request, or after.
MirrorTimesOut(u) ==
  /\ user[u].pc \in {"request", "final"}
  /\ Done(u, "unknown")
  /\ mirror' \in {mirror} \cup
       (IF user[u].pc = "request" /\ Answered(user[u].cmd, mirror[user[u].line]) # "error"
        THEN {[mirror EXCEPT ![user[u].line] = Answered(user[u].cmd, @)]} ELSE {})
  /\ UNCHANGED <<procs, lineState, sessions>>

---------------------------------------------------------------------------
(* Hazard: STATE_DB may name a session that ended long ago, since a command *)
(* that looked before the end writes after it.  A user who is told that a   *)
(* line is busy has met a session there: one was on the line at some time   *)
(* between the start of the command and its answer.                         *)
BusyIsFresh == \A u \in Users : (user[u].says = "busy") => user[u].met
===========================================================================
