---------------------------- MODULE TechSupport ----------------------------
(* Automatic technical support: a core dump or a lack of memory starts a    *)
(* handler, which runs "show techsupport" unless a dump was made too        *)
(* recently; every finished dump starts a cleanup that removes old dumps.   *)
(* Handlers, dumps and cleanups are processes that share two directories,   *)
(* a table of STATE_DB and the lock directory of generate_dump.             *)
EXTENDS ConfigDb
LOCAL INSTANCE SequencesExt

CONSTANTS
  Handlers,       \* processes that may handle an event
  FeatureOf,      \* container -> its name without the number of an ASIC
  TimeBuf,        \* TIME_BUF, in steps of the clock
  DiskTotal,      \* size of the file systems of dumps and cores
  DumpSizes,      \* sizes a dump may have; a core has size 1
  MemTotal,       \* memory of the switch, in MB
  MaxTime,        \* bound on the clock
  MaxDumps,       \* bound on the dumps of a behaviour
  MaxEvents       \* bound on the events of a behaviour

VARIABLES
  now,            \* the clock
  cores,          \* /var/core: the number of cores, the oldest of which go first
  events,         \* events so far
  dumps,          \* /var/dump, in the order of their beginning: [stage, mtime, size]
  dumpInfo,       \* STATE_DB AUTO_TECHSUPPORT_DUMP_INFO: dump -> [timestamp, container]
  tsLock,         \* /tmp/techsupport-lock: the dump whose process has it, or NoLock
  handler,        \* handler -> what it does
  cleaner         \* dump -> the techsupport_cleanup it has started
techVars == <<now, cores, events, dumps, dumpInfo, tsLock, handler, cleaner>>

Unset == -1                  \* a number that is not configured: db.get returns None
LongAgo == MaxTime + 1
DumpIds == 1..MaxDumps
NoJob == [pc |-> "idle", event |-> "", container |-> "", retry |-> 0, dump |-> 0, gap |-> LongAgo]
NoCleanup == [pc |-> "", files |-> << >>, todo |-> 0, removed |-> {}]
NoLock == 0
TechInit ==
  /\ now = 0 /\ cores = 0 /\ events = 0 /\ dumps = << >> /\ dumpInfo = NoEntries /\ tsLock = NoLock
  /\ handler = [h \in Handlers |-> NoJob] /\ cleaner = [d \in DumpIds |-> NoCleanup]

Auto(f, default) == Field(db, "AUTO_TECHSUPPORT", "GLOBAL", f, default)
OfFeature(c, f, default) == Field(db, "AUTO_TECHSUPPORT_FEATURE", c, f, default)
cooloff(h) == IF handler[h].event = "core" THEN OfFeature(handler[h].container, "rate_limit_interval", Unset) ELSE 0

---------------------------------------------------------------------------
(* The directory of dumps.  A dump is being collected (a directory and a    *)
(* .tar), done (.tar.gz), aborted (.tar), killed (as when it was collected, *)
(* or only the directory), or removed.                                      *)
Made == DOMAIN dumps
Archive(d) ==
  CASE dumps[d].stage \in {"collect", "tar", "killed"} -> {[dump |-> d, ext |-> ".tar"]}
    [] dumps[d].stage = "gz" -> {[dump |-> d, ext |-> ".tar.gz"]}
    [] dumps[d].stage \in {"dir", "removed"} -> {}
\* get_ts_dumps matches directories too, the cleanup only archives.
get_ts_dumps == {d \in Made : dumps[d].stage # "removed"}
Archives == UNION {Archive(d) : d \in Made}
Changes(D) == {dumps[d].mtime : d \in D}
SinceLastDump == IF Made = {} THEN LongAgo ELSE now - Max(Changes(Made))
\* A listing fails when a file goes away between glob and stat.
FilesComeAndGo == (\E d \in Made : dumps[d].stage = "collect") \/ \E d \in DumpIds : cleaner[d].pc = "remove"

\* get_stats, oldest first.  Times on disk are finer than the clock here: of
\* two dumps of one time the later one is newer.
Older(f, g) ==
  \/ dumps[f.dump].mtime < dumps[g.dump].mtime
  \/ dumps[f.dump].mtime = dumps[g.dump].mtime /\ f.dump < g.dump
get_stats == SetToSortSeq(Archives, Older)
SizeOf(files) == MapThenSumSet(LAMBDA f : dumps[f.dump].size, files)
max_limit_bytes(limit) == (limit * DiskTotal) \div 100
ValidLimit(limit) == 0 < limit /\ limit < 100

verify_recent(mtime) == now - mtime < TimeBuf

\* Cores are of size 1: of n the oldest go until the rest fits, but for one.
handle_coredump_cleanup(n) ==
  LET limit == Auto("max_core_limit", Unset)
      kept == max_limit_bytes(limit)
  IN  IF Auto("state", "") # "enabled" \/ ~ValidLimit(limit) \/ n <= kept THEN n ELSE Max({1, kept})

---------------------------------------------------------------------------
(* Events                                                                  *)
\* coredump-compress writes the core and starts the handler, which finds the
\* core recent unless it is late.
coredump_gen_handler(h, c, late) ==
  LET feature == FeatureOf[c]
      on == Auto("state", "") = "enabled" /\ OfFeature(feature, "state", "") = "enabled"
  IN  /\ handler[h].pc = "idle" /\ events < MaxEvents
      /\ events' = events + 1
      /\ handler' = IF late \/ ~on THEN handler
                    ELSE [handler EXCEPT ![h] = [NoJob EXCEPT !.pc = "limit", !.event = "core", !.container = feature]]
      /\ cores' = IF late \/ on THEN cores + 1 ELSE handle_coredump_cleanup(cores + 1)
      /\ UNCHANGED <<now, dumps, dumpInfo, tsLock, cleaner>>

\* Config and MemoryChecker.run_check: the names of what lacks memory, of
\* which the first is reported; "" is the host.
run_check(free, usage) ==
  LET threshold == Auto("available_mem_threshold", 10)
      low == {c \in Keys(db, "AUTO_TECHSUPPORT_FEATURE") :
                \E x \in DOMAIN usage : /\ FeatureOf[x] = c
                                        /\ 100 - usage[x] <= OfFeature(c, "available_mem_threshold", 0)}
  IN  IF threshold # 0 /\ (free <= Auto("min_available_mem", 200) \/ free * 100 <= MemTotal * threshold)
      THEN {""} ELSE low
\* monit runs the check and, when it fails, the handler.  The handler passes
\* the container in the place of the event's data: it has no container.
memory_threshold_check(h, free, usage) ==
  /\ handler[h].pc = "idle" /\ events < MaxEvents /\ run_check(free, usage) # {}
  /\ events' = events + 1
  /\ handler' = [handler EXCEPT ![h] = [NoJob EXCEPT !.pc = "limit", !.event = "memory"]]
  /\ UNCHANGED <<now, cores, dumps, dumpInfo, tsLock, cleaner>>

---------------------------------------------------------------------------
(* The handler                                                             *)
Goes(h, pc) == handler' = [handler EXCEPT ![h].pc = pc] /\ UNCHANGED cores
Ends(h) == handler' = [handler EXCEPT ![h] = NoJob] /\ UNCHANGED cores
\* No dump is made, or it is recorded: the handler of a core still cleans up.
Skips(h) ==
  /\ handler' = [handler EXCEPT ![h] = NoJob]
  /\ cores' = IF handler[h].event = "core" THEN handle_coredump_cleanup(cores) ELSE cores
OnlyHandler == UNCHANGED <<now, events, dumps, dumpInfo, tsLock, cleaner>>

\* get_ts_map: the times of the recorded dumps of a container.
get_ts_map(c) == {dumpInfo[d].timestamp : d \in {x \in DOMAIN dumpInfo : dumpInfo[x].container = c}}

\* ts_map[container][0] is the first of the sorted times: with two dumps of a
\* feature on record, its interval is measured from the older one.
verify_rate_limit_intervals(global_cooloff, container_cooloff, c) ==
  /\ (global_cooloff # 0 /\ get_ts_dumps # {}) => now - Max(Changes(get_ts_dumps)) >= global_cooloff
  /\ (container_cooloff # 0 /\ get_ts_map(c) # {}) => now - Min(get_ts_map(c)) >= container_cooloff
\* float(None) is no ValueError: an interval that is not set ends the handler.
invoke_ts_command_rate_limited(h) ==
  LET global_cooloff == Auto("rate_limit_interval", Unset)
      c == handler[h].container
  IN  /\ handler[h].pc = "limit"
      /\ \/ FilesComeAndGo /\ Ends(h)
         \/ IF Unset \in {global_cooloff, cooloff(h)} THEN Ends(h)
            ELSE IF ~verify_rate_limit_intervals(global_cooloff, cooloff(h), c) THEN Skips(h)
            ELSE /\ handler' = [handler EXCEPT ![h] = [@ EXCEPT !.pc = "invoke", !.gap = SinceLastDump]]
                 /\ UNCHANGED cores
      /\ OnlyHandler

---------------------------------------------------------------------------
(* show techsupport: generate_dump under its lock directory                *)
DumpBegins(h) ==
  LET d == Len(dumps) + 1
  IN  /\ handler[h].pc = "invoke" /\ tsLock = NoLock /\ d \in DumpIds
      /\ tsLock' = d
      /\ dumps' = Append(dumps, [stage |-> "collect", mtime |-> now, size |-> 1])
      /\ handler' = [handler EXCEPT ![h] = [@ EXCEPT !.pc = "collect", !.dump = d, !.retry = 0, !.gap = LongAgo]]
      /\ UNCHANGED <<now, cores, events, dumpInfo, cleaner>>
\* A lock of a process that has died is removed (EXT_RETRY), and
\* invoke_ts_cmd tries again; else the handler gives up (EXT_LOCKFAIL).
MAX_RETRY_LIMIT == 2
LockFails(h) ==
  LET stale == dumps[tsLock].stage # "collect"
  IN  /\ handler[h].pc = "invoke" /\ tsLock # NoLock
      /\ tsLock' = IF stale THEN NoLock ELSE tsLock
      /\ IF stale /\ handler[h].retry <= MAX_RETRY_LIMIT
         THEN handler' = [handler EXCEPT ![h].retry = @ + 1] /\ UNCHANGED cores
         ELSE Skips(h)
      /\ UNCHANGED <<now, events, dumps, dumpInfo, cleaner>>

Collects(h) ==
  LET d == handler[h].dump
  IN  /\ handler[h].pc = "collect" /\ dumps[d].mtime < now
      /\ dumps' = [dumps EXCEPT ![d].mtime = now]
      /\ UNCHANGED <<now, cores, events, dumpInfo, tsLock, handler, cleaner>>
\* finalize and handle_exit: the lock goes, whoever has it.  A dump with
\* errors on the way is there, but its exit code is not EXT_SUCCESS.
finalize(h, size, ok) ==
  LET d == handler[h].dump
  IN  /\ handler[h].pc = "collect"
      /\ dumps' = [dumps EXCEPT ![d] = [stage |-> "gz", mtime |-> now, size |-> size]]
      /\ cleaner' = [cleaner EXCEPT ![d].pc = "list"]
      /\ tsLock' = NoLock
      /\ IF ok THEN Goes(h, "record") ELSE Skips(h)
      /\ UNCHANGED <<now, events, dumpInfo>>
abort(h) ==
  /\ handler[h].pc = "collect"
  /\ dumps' = [dumps EXCEPT ![handler[h].dump].stage = "tar"]
  /\ tsLock' = NoLock /\ Skips(h)
  /\ UNCHANGED <<now, events, dumpInfo, cleaner>>
\* timeout --kill-after: no trap runs, directory and lock stay.
DumpKilled(h) ==
  /\ handler[h].pc = "collect"
  /\ dumps' = [dumps EXCEPT ![handler[h].dump].stage = "killed"]
  /\ Skips(h)
  /\ UNCHANGED <<now, events, dumpInfo, tsLock, cleaner>>

\* A memory event has a string or None for its data, whose items() ends the
\* handler before the container is written.
write_to_state_db(h) ==
  /\ handler[h].pc = "record"
  /\ dumpInfo' = (handler[h].dump :> [timestamp |-> now, container |-> handler[h].container]) @@ dumpInfo
  /\ Skips(h)
  /\ UNCHANGED <<now, events, dumps, tsLock, cleaner>>

---------------------------------------------------------------------------
(* techsupport_cleanup                                                     *)
\* Preserve the latest file created.
Removable == IF get_stats = << >> THEN << >> ELSE Front(get_stats)

CleanupEnds(d) == cleaner' = [cleaner EXCEPT ![d] = NoCleanup]
handle_techsupport_creation_event(d) ==
  LET limit == Auto("max_techsupport_limit", Unset)
      excess == SizeOf(Archives) - max_limit_bytes(limit)
  IN  /\ cleaner[d].pc = "list"
      /\ \/ FilesComeAndGo /\ CleanupEnds(d)
         \/ IF \/ dumps[d].stage # "gz" \/ ~verify_recent(dumps[d].mtime)
               \/ Auto("state", "") # "enabled" \/ limit = Unset
            THEN CleanupEnds(d)
            ELSE IF ~ValidLimit(limit) \/ excess <= 0 THEN CleanupEnds(d)
            ELSE cleaner' = [cleaner EXCEPT ![d] = [pc |-> "remove", files |-> Removable, todo |-> excess,
                                                    removed |-> {}]]
      /\ UNCHANGED <<now, cores, events, dumps, dumpInfo, tsLock, handler>>

\* One turn of the loop of cleanup_process.  A file that is gone does not
\* count.  An archive that is being collected comes back with the next append.
StageWithout(d) == CASE dumps[d].stage = "collect" -> "collect"
                [] dumps[d].stage = "killed" -> "dir"
                [] OTHER -> "removed"
cleanup_process(d) ==
  LET c == cleaner[d]
      f == Head(c.files)
  IN  /\ c.pc = "remove" /\ c.todo > 0 /\ c.files # << >>
      /\ IF f \in Archives
         THEN /\ dumps' = [dumps EXCEPT ![f.dump].stage = StageWithout(f.dump)]
              /\ cleaner' = [cleaner EXCEPT ![d] = [c EXCEPT !.files = Tail(@), !.todo = @ - dumps[f.dump].size,
                                                             !.removed = @ \cup {f.dump}]]
         ELSE cleaner' = [cleaner EXCEPT ![d].files = Tail(@)] /\ UNCHANGED dumps
      /\ UNCHANGED <<now, cores, events, dumpInfo, tsLock, handler>>
clean_state_db_entries(d) ==
  LET c == cleaner[d]
  IN  /\ c.pc = "remove" /\ (c.todo <= 0 \/ c.files = << >>)
      /\ dumpInfo' = [x \in DOMAIN dumpInfo \ c.removed |-> dumpInfo[x]]
      /\ CleanupEnds(d)
      /\ UNCHANGED <<now, cores, events, dumps, tsLock, handler>>

TimePasses ==
  /\ now < MaxTime /\ now' = now + 1
  /\ UNCHANGED <<cores, events, dumps, dumpInfo, tsLock, handler, cleaner>>

---------------------------------------------------------------------------
(* Hazard: the limit on dumps is told from the files that are there, while  *)
(* cleanups remove files.  A handler that goes past the limit has seen the  *)
(* last dump: the interval has passed since the last change of any dump     *)
(* that was ever made, removed ones included.                               *)
GlobalRateLimit ==
  \A h \in Handlers : handler[h].gap >= Auto("rate_limit_interval", 0)
===========================================================================
