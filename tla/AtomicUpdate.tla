---------------------------- MODULE AtomicUpdate ----------------------------
(***************************************************************************)
(* What `config apply-patch`, `replace`, `rollback`, `checkpoint` and       *)
(* `delete-checkpoint` promise to an operator who runs them one at a time:  *)
(* a command is accepted, and then takes effect as a whole, or is refused   *)
(* without effect, or is killed and leaves a mixture behind.  How a patch   *)
(* is sorted, written and verified is not visible here.                     *)
(***************************************************************************)
CONSTANTS
    Requests,       \* the commands
    Initial,        \* configurations to start from
    Names,          \* checkpoint names
    NoFile, Torn,   \* a checkpoint that is not there; one that cannot be read
    Patched(_, _),  \* the configuration a patch makes of another
    Shown(_),       \* the part of a configuration that comparisons look at
    Interim         \* what a field may hold on the way, besides its old and new value

VARIABLES
    config,    \* the configuration, as of the last command that ended
    saved,     \* name -> the checkpoint
    request,   \* the last command
    status     \* "none", "running", "ok", "error" or "killed"

avars == <<config, saved, request, status>>

Readable(n) == saved[n] \notin {NoFile, Torn}

\* Where the command is to take the configuration.
Wanted ==
    CASE request.op \in {"apply", "apply_unsorted"} -> Patched(request.patch, config)
      [] request.op = "replace" -> Shown(request.config)
      [] request.op = "rollback" /\ Readable(request.name) -> saved[request.name]
      [] OTHER -> config

Accept(r) ==
    /\ status # "running"
    /\ request' = r
    /\ status' = "running"
    /\ UNCHANGED <<config, saved>>

EndAs(how) == status = "running" /\ status' = how /\ UNCHANGED request

\* The command has its whole effect, at once.
Commit ==
    /\ EndAs("ok")
    /\ request.op \in {"rollback", "delete"} => saved[request.name] # NoFile
    /\ request.op = "rollback" => Readable(request.name)
    /\ config' = Wanted
    /\ saved' = CASE request.op = "checkpoint" -> [saved EXCEPT ![request.name] = config]
                  [] request.op = "delete" -> [saved EXCEPT ![request.name] = NoFile]
                  [] OTHER -> saved

\* The command has none.
Refuse == EndAs("error") /\ UNCHANGED <<config, saved>>

\* Every field is what it was, what it was to become, or something it passes through.
Between(c, d, t) ==
    /\ DOMAIN c = DOMAIN d
    /\ \A k \in DOMAIN c : DOMAIN c[k] = DOMAIN d[k]
                           /\ \A f \in DOMAIN c[k] : d[k][f] \in {c[k][f], t[k][f]} \cup Interim

Die == EndAs("killed") /\ Between(config, config', Wanted) /\ UNCHANGED saved

\* A checkpoint is no longer what it was once the file is open for writing.
Truncate ==
    /\ status = "running"
    /\ request.op = "checkpoint"
    /\ saved' = [saved EXCEPT ![request.name] = Torn]
    /\ UNCHANGED <<config, request, status>>

Init ==
    /\ config \in Initial
    /\ saved = [n \in Names |-> NoFile]
    /\ request = [op |-> "none"]
    /\ status = "none"

Next == (\E r \in Requests : Accept(r)) \/ Commit \/ Refuse \/ Die \/ Truncate

Spec == Init /\ [][Next]_avars
=============================================================================
