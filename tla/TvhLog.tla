------------------------------- MODULE TvhLog -------------------------------
(***************************************************************************)
(* The logger of src/src/tvhlog.c: tvhlogv, called from any thread under  *)
(* tvhlog_mutex, filters a message, replaces it by "log buffer full" when *)
(* the queue is at TVHLOG_QUEUE_MAXSIZE, and queues it (or, once          *)
(* tvhlog_run is cleared, processes it synchronously); tvhlog_thread pops *)
(* messages and writes them to the sinks outside the mutex; tvhlog_end    *)
(* stops the thread and is meant to drain what is left.                   *)
(* A message is the number of the tvhlogv call that produced it; the      *)
(* sinks are abstracted to the sequence `written` of those numbers.       *)
(* tvhlog_set_debug and tvhlog_set_trace rebuild the subsystem maps the   *)
(* filter reads, step by step and without tvhlog_mutex.                   *)
(***************************************************************************)
EXTENDS Naturals, Sequences, FiniteSets

CONSTANTS
  QMax,      \* TVHLOG_QUEUE_MAXSIZE
  MaxLogs,   \* bound: calls of tvhlogv
  Subsys,    \* the subsystems tvhlogv is called with
  All,       \* the subsystem name "all"
  LogLevel,  \* tvhlog_level
  Configs,   \* strings given to tvhlog_set_debug/trace, as token sequences
  MaxSets,   \* bound: calls of tvhlog_set_debug and tvhlog_set_trace
  NoMsg      \* model value: the thread's `msg` when it holds none

ASSUME QMax \in Nat \ {0} /\ MaxLogs \in Nat /\ All \notin Subsys

(* syslog severities; LOG_TRACE is one past LOG_DEBUG. *)
LOG_INFO == 6
LOG_DEBUG == 7
LOG_TRACE == 8

(* A token of a subsystem string: `+name`, `-name` or `name` (enable). *)
Token == [a : BOOLEAN, name : Subsys \cup {All}]
Lists == {"debug", "trace"}   \* tvhlog_debug, tvhlog_trace

VARIABLES
  run,       \* tvhlog_run
  full,      \* tvhlog_queue_full
  queue,     \* tvhlog_queue: records [id, marker]
  size,      \* tvhlog_queue_size
  thread,    \* tvhlog_thread: pc and the message it holds
  main,      \* the thread in tvhlog_end
  logs,      \* tvhlogv calls so far
  accepted,  \* history: calls whose message was queued or processed
  written,   \* history: the messages the sinks received, in order
  sinceHalf, \* history: markers queued since the queue was last below half
  maps,      \* tvhlog_debug / tvhlog_trace: the subsystem maps, a NULL map empty
  freedMap,  \* the maps htsmsg_destroy freed while the pointer still holds them
  setter,    \* the thread in tvhlog_set_subsys: pc, the list, tokens left
  cfgOf,     \* history: the string last given for each list
  sets       \* tvhlog_set_debug / tvhlog_set_trace calls so far

logVars == <<run, full, queue, size, thread, main, logs, accepted, written,
             sinceHalf>>
subsysVars == <<maps, freedMap, setter, cfgOf, sets>>
vars == <<logVars, subsysVars>>

Msg == [id : 1..MaxLogs, marker : BOOLEAN]

(* tvhlog_mutex is held by tvhlog_thread from its wake-up to cond_wait or *)
(* the unlock before tvhlog_process.                                      *)
ThreadHoldsMutex == thread.pc \in {"loop", "check"}

Signal(t) == IF t.pc = "wait" THEN [t EXCEPT !.pc = "loop"] ELSE t

-----------------------------------------------------------------------------
(* htsmsg_get_u32_or_default(m, "all", 0), then (m, subsys, that): the   *)
(* subsystem's own entry, else the "all" entry, else off.                *)
Lookup(m, ss) ==
  IF ss \in DOMAIN m THEN m[ss] ELSE IF All \in DOMAIN m THEN m[All] ELSE FALSE

(* What tvhlogv reads from list w: a freed map is read after the free,   *)
(* so either answer can come back.                                        *)
Read(w, ss) == IF w \in freedMap THEN BOOLEAN ELSE {Lookup(maps[w], ss)}

(* tvhlogv's `ok`: below LOG_DEBUG always; up to tvhlog_level, the trace  *)
(* map, and for LOG_DEBUG the debug map when the trace map said no.       *)
Verdicts(sev, ss) ==
  IF sev < LOG_DEBUG THEN {TRUE}
  ELSE IF sev > LogLevel THEN {FALSE}
  ELSE {x \/ (sev = LOG_DEBUG /\ y) : x \in Read("trace", ss), y \in Read("debug", ss)}

-----------------------------------------------------------------------------
(* tvhlogv: the full check, the debug filter, the overflow replacement,   *)
(* then queue-and-signal, or synchronous tvhlog_process once the thread   *)
(* is stopped.                                                            *)
TvhlogvDrop ==
  /\ logs < MaxLogs /\ ~ThreadHoldsMutex
  /\ full
  /\ logs' = logs + 1
  /\ UNCHANGED <<run, full, queue, size, thread, main, accepted, written,
                 sinceHalf>>

TvhlogvFiltered(sev, ss) ==
  /\ logs < MaxLogs /\ ~ThreadHoldsMutex
  /\ ~full /\ FALSE \in Verdicts(sev, ss)
  /\ logs' = logs + 1
  /\ UNCHANGED <<run, full, queue, size, thread, main, accepted, written,
                 sinceHalf>>

(* Bug variant: the message queued although the queue is full. *)
TvhlogvStoreIgnoreFull(sev, ss) ==
  LET m == [id |-> logs + 1, marker |-> size = QMax] IN
  /\ logs < MaxLogs /\ ~ThreadHoldsMutex
  /\ TRUE \in Verdicts(sev, ss)
  /\ logs' = logs + 1
  /\ full' = (size = QMax)
  /\ accepted' = accepted \cup {m.id}
  /\ sinceHalf' = IF m.marker THEN sinceHalf + 1 ELSE sinceHalf
  /\ IF run
       THEN /\ queue' = Append(queue, m)
            /\ size' = size + 1
            /\ thread' = Signal(thread)
            /\ UNCHANGED written
       ELSE /\ written' = Append(written, m.id)
            /\ UNCHANGED <<queue, size, thread>>
  /\ UNCHANGED <<run, main>>

(* Bug variant: no pthread_cond_signal after queueing. *)
TvhlogvStoreNoSignal(sev, ss) ==
  LET m == [id |-> logs + 1, marker |-> size = QMax] IN
  /\ logs < MaxLogs /\ ~ThreadHoldsMutex
  /\ ~full /\ TRUE \in Verdicts(sev, ss)
  /\ logs' = logs + 1
  /\ full' = (size = QMax)
  /\ accepted' = accepted \cup {m.id}
  /\ sinceHalf' = IF m.marker THEN sinceHalf + 1 ELSE sinceHalf
  /\ IF run
       THEN /\ queue' = Append(queue, m)
            /\ size' = size + 1
            /\ UNCHANGED <<written, thread>>
       ELSE /\ written' = Append(written, m.id)
            /\ UNCHANGED <<queue, size, thread>>
  /\ UNCHANGED <<run, main>>

TvhlogvStore(sev, ss) ==
  LET m == [id |-> logs + 1, marker |-> size = QMax] IN
  /\ logs < MaxLogs /\ ~ThreadHoldsMutex
  /\ ~full /\ TRUE \in Verdicts(sev, ss)
  /\ logs' = logs + 1
  /\ full' = (size = QMax)
  /\ accepted' = accepted \cup {m.id}
  /\ sinceHalf' = IF m.marker THEN sinceHalf + 1 ELSE sinceHalf
  /\ IF run
       THEN /\ queue' = Append(queue, m)
            /\ size' = size + 1
            /\ thread' = Signal(thread)
            /\ UNCHANGED written
       ELSE /\ written' = Append(written, m.id)
            /\ UNCHANGED <<queue, size, thread>>
  /\ UNCHANGED <<run, main>>

Sevs == {LOG_INFO, LOG_DEBUG, LOG_TRACE}

Tvhlogv ==
  \/ TvhlogvDrop
  \/ \E sev \in Sevs, ss \in Subsys : TvhlogvFiltered(sev, ss) \/ TvhlogvStore(sev, ss)

-----------------------------------------------------------------------------
(* tvhlog_thread *)
ThreadLoop ==
  /\ thread.pc = "loop"
  /\ thread' = [thread EXCEPT !.pc = IF run THEN "check" ELSE "exited"]
  /\ UNCHANGED <<run, full, queue, size, main, logs, accepted, written,
                 sinceHalf>>

(* Bug variant: tvhlog_queue_size decremented before the empty check. *)
ThreadPopCountEmpty ==
  /\ thread.pc = "check"
  /\ size' = size - 1
  /\ IF queue = <<>>
       THEN /\ thread' = [thread EXCEPT !.pc = "wait"]
            /\ UNCHANGED <<queue, full, sinceHalf>>
       ELSE /\ thread' = [pc |-> "process", cur |-> Head(queue)]
            /\ queue' = Tail(queue)
            /\ full' = IF size - 1 < QMax \div 2 THEN FALSE ELSE full
            /\ sinceHalf' = IF size - 1 < QMax \div 2 THEN 0 ELSE sinceHalf
  /\ UNCHANGED <<run, main, logs, accepted, written>>

(* Bug variant: the full flag cleared as soon as the queue is below max. *)
ThreadPopEarlyReset ==
  /\ thread.pc = "check"
  /\ IF queue = <<>>
       THEN /\ thread' = [thread EXCEPT !.pc = "wait"]
            /\ UNCHANGED <<queue, size, full, sinceHalf>>
       ELSE /\ thread' = [pc |-> "process", cur |-> Head(queue)]
            /\ queue' = Tail(queue)
            /\ size' = size - 1
            /\ full' = IF size - 1 < QMax THEN FALSE ELSE full
            /\ sinceHalf' = IF size - 1 < QMax \div 2 THEN 0 ELSE sinceHalf
  /\ UNCHANGED <<run, main, logs, accepted, written>>

(* Bug variant: the message taken from the tail of the queue. *)
ThreadPopTail ==
  /\ thread.pc = "check"
  /\ IF queue = <<>>
       THEN /\ thread' = [thread EXCEPT !.pc = "wait"]
            /\ UNCHANGED <<queue, size, full, sinceHalf>>
       ELSE /\ thread' = [pc |-> "process", cur |-> queue[Len(queue)]]
            /\ queue' = SubSeq(queue, 1, Len(queue) - 1)
            /\ size' = size - 1
            /\ full' = IF size - 1 < QMax \div 2 THEN FALSE ELSE full
            /\ sinceHalf' = IF size - 1 < QMax \div 2 THEN 0 ELSE sinceHalf
  /\ UNCHANGED <<run, main, logs, accepted, written>>

(* Wait on tvhlog_cond, or pop the head, clear the full flag below half, *)
(* and release the mutex.                                                *)
ThreadPop ==
  /\ thread.pc = "check"
  /\ IF queue = <<>>
       THEN /\ thread' = [thread EXCEPT !.pc = "wait"]
            /\ UNCHANGED <<queue, size, full, sinceHalf>>
       ELSE /\ thread' = [pc |-> "process", cur |-> Head(queue)]
            /\ queue' = Tail(queue)
            /\ size' = size - 1
            /\ full' = IF size - 1 < QMax \div 2 THEN FALSE ELSE full
            /\ sinceHalf' = IF size - 1 < QMax \div 2 THEN 0 ELSE sinceHalf
  /\ UNCHANGED <<run, main, logs, accepted, written>>

(* tvhlog_process outside the mutex, then relock. *)
ThreadProcess ==
  /\ thread.pc = "process"
  /\ written' = Append(written, thread.cur.id)
  /\ thread' = [pc |-> "loop", cur |-> NoMsg]
  /\ UNCHANGED <<run, full, queue, size, main, logs, accepted, sinceHalf>>

ThreadStep == (ThreadLoop \/ ThreadPop \/ ThreadProcess) /\ UNCHANGED subsysVars

-----------------------------------------------------------------------------
(* tvhlog_set_debug / tvhlog_set_trace: tvhlog_set_subsys on the list,   *)
(* without tvhlog_mutex, so tvhlogv may read the list between any two of *)
(* its steps.  A map is the function the htsmsg holds: name -> enabled.   *)
NoMap == [k \in {} |-> FALSE]

(* htsmsg_set_u32 on the map: the entry for the token's name set to `a`. *)
SetU32(m, tok) == [k \in DOMAIN m \cup {tok.name} |-> IF k = tok.name THEN tok.a ELSE m[k]]

(* Destroy the old map (the pointer still holds it) and keep the string. *)
TvhlogSetSubsys(w, cfg) ==
  /\ setter.pc = "idle" /\ sets < MaxSets
  /\ sets' = sets + 1
  /\ cfgOf' = [cfgOf EXCEPT ![w] = cfg]
  /\ freedMap' = IF maps[w] # NoMap THEN freedMap \cup {w} ELSE freedMap
  /\ setter' = [pc |-> "null", list |-> w, rest |-> cfg]
  /\ UNCHANGED maps

(* *c = NULL; an empty string has no token and returns. *)
SetSubsysNull ==
  LET w == setter.list IN
  /\ setter.pc = "null"
  /\ maps' = [maps EXCEPT ![w] = NoMap]
  /\ freedMap' = freedMap \ {w}
  /\ setter' = [setter EXCEPT !.pc = IF setter.rest = <<>> THEN "idle" ELSE "token"]
  /\ UNCHANGED <<cfgOf, sets>>

(* The next token, once the loop is past it. *)
NextToken(s) ==
  [s EXCEPT !.rest = Tail(s.rest), !.pc = IF Tail(s.rest) = <<>> THEN "idle" ELSE "token"]

(* Bug variant: "all" added to the map without dropping what came before. *)
SetSubsysTokenNoReset ==
  LET w == setter.list
      tok == Head(setter.rest) IN
  /\ setter.pc = "token"
  /\ maps' = [maps EXCEPT ![w] = SetU32(@, tok)]
  /\ setter' = NextToken(setter)
  /\ UNCHANGED <<freedMap, cfgOf, sets>>

(* One token: "all" destroys the map first (the pointer still holds it); *)
(* any other name is set in the map, created when there is none.         *)
SetSubsysToken ==
  LET w == setter.list
      tok == Head(setter.rest) IN
  /\ setter.pc = "token"
  /\ IF tok.name = All /\ maps[w] # NoMap
       THEN /\ freedMap' = freedMap \cup {w}
            /\ setter' = [setter EXCEPT !.pc = "reset"]
            /\ UNCHANGED maps
       ELSE /\ maps' = [maps EXCEPT ![w] = SetU32(IF tok.name = All THEN NoMap ELSE @, tok)]
            /\ setter' = NextToken(setter)
            /\ UNCHANGED freedMap
  /\ UNCHANGED <<cfgOf, sets>>

(* After "all" destroyed the map: *c = NULL, a new map, "all" set in it. *)
SetSubsysReset ==
  LET w == setter.list
      tok == Head(setter.rest) IN
  /\ setter.pc = "reset"
  /\ maps' = [maps EXCEPT ![w] = SetU32(NoMap, tok)]
  /\ freedMap' = freedMap \ {w}
  /\ setter' = NextToken(setter)
  /\ UNCHANGED <<cfgOf, sets>>

SetterStep ==
  /\ \/ \E w \in Lists, cfg \in Configs : TvhlogSetSubsys(w, cfg)
     \/ SetSubsysNull \/ SetSubsysToken \/ SetSubsysReset
  /\ UNCHANGED logVars

-----------------------------------------------------------------------------
(* tvhlog_end: clear tvhlog_run and signal under the mutex, join. *)
EndStop ==
  /\ main = "running" /\ ~ThreadHoldsMutex
  /\ run' = FALSE
  /\ thread' = Signal(thread)
  /\ main' = "joining"
  /\ UNCHANGED <<full, queue, size, logs, accepted, written, sinceHalf>>

(* tvhlog_end after the join: `while (!(msg = TAILQ_FIRST(...)))` runs    *)
(* its body only on an empty queue, where TAILQ_REMOVE dereferences NULL; *)
(* on a non-empty queue it leaves every message queued.  Then it sets     *)
(* tvhlog_queue_full, so later tvhlogv calls drop their messages.         *)
EndDrain ==
  /\ main = "joining" /\ thread.pc = "exited"
  /\ IF queue = <<>>
       THEN /\ main' = "crashed"
            /\ UNCHANGED full
       ELSE /\ main' = "ended"
            /\ full' = TRUE
  /\ UNCHANGED <<run, queue, size, thread, logs, accepted, written, sinceHalf>>

-----------------------------------------------------------------------------
(* tvhlog_init and tvhlog_start. *)
Init ==
  /\ run = TRUE
  /\ full = FALSE
  /\ queue = <<>>
  /\ size = 0
  /\ thread = [pc |-> "loop", cur |-> NoMsg]
  /\ main = "running"
  /\ logs = 0
  /\ accepted = {}
  /\ written = <<>>
  /\ sinceHalf = 0
  /\ maps = [w \in Lists |-> NoMap]
  /\ freedMap = {}
  /\ setter = [pc |-> "idle", list |-> "debug", rest |-> <<>>]
  /\ cfgOf = [w \in Lists |-> <<>>]
  /\ sets = 0

Next ==
  \/ (Tvhlogv \/ EndStop \/ EndDrain) /\ UNCHANGED subsysVars
  \/ ThreadStep
  \/ SetterStep

(* The logger thread runs whenever it can; tvhlog_end is called at most  *)
(* once, when the program decides to stop.                                *)
Fairness == WF_vars(ThreadStep)

Spec == Init /\ [][Next]_vars /\ Fairness

-----------------------------------------------------------------------------
TypeOK ==
  /\ run \in BOOLEAN /\ full \in BOOLEAN
  /\ queue \in Seq(Msg)
  /\ size \in 0..MaxLogs
  /\ thread.pc \in {"loop", "check", "wait", "process", "exited"}
  /\ thread.cur \in Msg \cup {NoMsg}
  /\ main \in {"running", "joining", "ended", "crashed"}
  /\ logs \in 0..MaxLogs
  /\ accepted \subseteq 1..MaxLogs
  /\ written \in Seq(1..MaxLogs)
  /\ \A w \in Lists : maps[w] \in UNION {[D -> BOOLEAN] : D \in SUBSET (Subsys \cup {All})}
  /\ freedMap \subseteq Lists
  /\ setter.pc \in {"idle", "null", "token", "reset"} /\ setter.list \in Lists
  /\ setter.rest \in Seq(Token) /\ cfgOf \in [Lists -> Seq(Token)]
  /\ sets \in 0..MaxSets

(* The queue is bounded: tvhlog_queue_size counts the queue, and however  *)
(* producers and the thread interleave it never exceeds                   *)
(* TVHLOG_QUEUE_MAXSIZE plus the one "log buffer full" marker.            *)
QueueBounded == size = Len(queue) /\ size <= QMax + 1

(* The overflow is reported once (spec section 8, Log bound): from the    *)
(* time the queue was last below half of TVHLOG_QUEUE_MAXSIZE, tvhlogv    *)
(* queues at most one "log buffer full" marker, and while messages are   *)
(* being dropped a marker is on its way to the sinks.                     *)
OverflowReportedOnce ==
  /\ sinceHalf <= 1
  /\ full /\ main = "running" =>
       \E i \in 1..Len(queue) : queue[i].marker

(* While the logger runs, every message tvhlogv queued reaches the sinks. *)
EveryLogWritten ==
  \A k \in 1..MaxLogs :
    k \in accepted ~> (\E i \in 1..Len(written) : written[i] = k) \/ ~run

(* Shutdown drains what remains (spec section 4.7): tvhlog_end returns,   *)
(* and when it has, every message tvhlogv accepted has been written.      *)
ShutdownDrains ==
  /\ main # "crashed"
  /\ main = "ended" =>
       \A k \in accepted : \E i \in 1..Len(written) : written[i] = k


(* What a subsystem string means (spec section 4.7: "all" is the default *)
(* of the map): a subsystem is enabled by the last token naming it or     *)
(* "all", and is off when no token does.                                  *)
RefEnabled(cfg, ss) ==
  LET named == {i \in DOMAIN cfg : cfg[i].name \in {ss, All}}
  IN IF named = {} THEN FALSE
     ELSE cfg[CHOOSE i \in named : \A j \in named : j <= i].a

(* Once tvhlog_set_debug or tvhlog_set_trace has returned, the map its     *)
(* strtok loop built (with "all" throwing away what came before it)       *)
(* answers tvhlogv's two lookups for every subsystem as the string says.  *)
MapMatchesConfig ==
  setter.pc = "idle" =>
    \A w \in Lists, ss \in Subsys : Lookup(maps[w], ss) = RefEnabled(cfgOf[w], ss)

-----------------------------------------------------------------------------
(* Refinement of LogFifo: the messages on their way are the one the       *)
(* thread holds outside the mutex, then the queue; the logger is open     *)
(* while tvhlog_run is set.                                               *)
PendingIds ==
  (IF thread.pc = "process" THEN <<thread.cur.id>> ELSE <<>>)
    \o [i \in 1..Len(queue) |-> queue[i].id]

Fifo == INSTANCE LogFifo WITH Ids <- 1..MaxLogs, pending <- PendingIds,
                              written <- written, open <- run

(* The logger implements LogFifo: what tvhlogv queues while tvhlog_run is *)
(* set reaches the sinks once and in the order it was queued, across the  *)
(* thread's pop, its unlocked tvhlog_process and tvhlog_end; only after   *)
(* tvhlog_end may a synchronous write overtake a queued message.          *)
FifoRefined == Fifo!Spec

=============================================================================
