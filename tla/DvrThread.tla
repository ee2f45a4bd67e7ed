----------------------------- MODULE DvrThread -----------------------------
(***************************************************************************)
(* The recording worker of one DVR entry (src/src/dvr/dvr_rec.c).          *)
(*                                                                         *)
(* dvr_rec_subscribe creates the entry's streaming queue and subscription  *)
(* and spawns dvr_thread.  The service side (streaming pad + subscription) *)
(* appends streaming messages to the queue; dvr_thread pops them one at a  *)
(* time and drives the muxer: dvr_rec_start opens a file, a START while    *)
(* started asks the muxer to reconfigure, STOP finalises the file          *)
(* (dvr_thread_epilog, which also spawns the post-processor) and EXIT,     *)
(* queued by dvr_rec_unsubscribe, ends the thread.                         *)
(*                                                                         *)
(* Data is abstracted: a muxer is its life-cycle stage, the configuration  *)
(* it was initialised or reconfigured with (the generation of the START    *)
(* that carried it) and the file it writes; a file name is a number, new   *)
(* for every name pvr_generate_filename produces (its stat loop makes the  *)
(* name unique); a packet is its commercial flag and the generation of the *)
(* START it follows.                                                       *)
(***************************************************************************)
EXTENDS Naturals, Sequences, FiniteSets

CONSTANTS
  ErrCodes,        \* stop / nostart codes other than OK and SOURCE_RECONFIGURED
  SkipCommercials, \* cfg->dvr_skip_commercials
  HasPostProc,     \* cfg->dvr_postproc is configured
  MaxMsgs,         \* bound: messages the service side delivers
  MaxGen           \* bound: START messages (source configurations)

ASSUME SkipCommercials \in BOOLEAN /\ HasPostProc \in BOOLEAN
ASSUME MaxMsgs \in Nat /\ MaxGen \in Nat \ {0}

(* Streaming codes SM_CODE_xxx; "OK" is 0. *)
OK     == "OK"
RECONF == "SOURCE_RECONFIGURED"
Codes  == {OK, RECONF, "UNDEFINED_ERROR", "NO_DESCRAMBLER", "NO_ACCESS"} \cup ErrCodes

(* Streaming-status bits TSS_xxx (service.h): the ones set by the parser *)
(* and the descrambler, and the two service_data_timeout adds.  TSS_ERRORS *)
(* is the upper half-word: the descrambler bits and TSS_TIMEOUT.           *)
DescrFlags == {"NO_DESCRAMBLER", "NO_ACCESS"}
TssErrors  == DescrFlags \cup {"TIMEOUT"}
TssFlags   == {"PACKETS", "GRACEPERIOD"} \cup TssErrors

(* Recording states DVR_RS_xxx the worker sets. *)
RecStates == {"PENDING", "WAIT_PROGRAM_START", "RUNNING", "COMMERCIAL", "ERROR"}

(* Stages of de_mux: NULL, created, file opened, initialised (writable). *)
MuxStages == {"none", "created", "open", "ready"}

(* How dvr_rec_start can end: a failure at one of its steps, or success.  *)
(* Its `!cfg` exit is not among them: dvr_thread has read                 *)
(* cfg->dvr_skip_commercials before any START, so cfg is never NULL there. *)
(* "meta" is muxer_write_meta failing (only with dvr_tag_files and an EPG  *)
(* event, so an input the model chooses).                                  *)
StartOutcomes == {"create", "filename", "open", "init", "meta", "ok"}

VARIABLES
  queue,      \* de_sq.sq_queue: messages not yet popped by dvr_thread
  thread,     \* "running" | "locking" (blocked on global_lock) | "done"
  started,    \* dvr_thread's local `started`
  commercial, \* dvr_thread's local `commercial`
  recState,   \* de_rec_state
  lastError,  \* de_last_error
  dvr,        \* the muxer and file of the entry (see DvrRecStart)
  raw,        \* the entry records the raw MPEG-TS (container MC_PASS)
  sub,        \* "live" | "exiting" | "gone" : the subscription (de_s)
  phase,      \* "none" | "live" | "reconf" : what the service side last sent
  gen,        \* START messages sent so far
  sent,       \* messages sent so far
  tss,        \* s_streaming_status of the service
  live,       \* s_streaming_live & TSS_LIVE
  timer,      \* s_receive_timer: "off", armed with the grace delay, or "tick"
  fed,        \* history: the input delivered a packet since service_start
  restarted   \* history: service_restart sent a START since service_start

vars == <<queue, thread, started, commercial, recState, lastError, dvr, raw,
          sub, phase, gen, sent, tss, live, timer, fed,
          restarted>>

workerVars == <<queue, thread, started, commercial, recState, lastError, dvr>>
serviceVars == <<phase, gen, sent, tss, live, timer, fed, restarted>>

-----------------------------------------------------------------------------
(* dvr_rec_set_state: both the state and the error code are stored (the    *)
(* notification and the de_errors tally are left out).                     *)
DvrRecSetState(s, e) == recState' = s /\ lastError' = e

(* Bug variant of DvrThreadEpilog: destroys de_mux without checking it    *)
(* is set.                                                                 *)
DvrThreadEpilogUnchecked(d) ==
  [d EXCEPT !.mux = "none", !.live = @ - 1,
            !.post = IF HasPostProc /\ d.file # 0 THEN Append(@, d.file) ELSE @]

(* dvr_thread_epilog: close and destroy the muxer, de_mux = NULL, then     *)
(* spawn the post-processor on de_filename if one is configured.           *)
DvrThreadEpilog(d) ==
  [d EXCEPT !.mux  = "none",
            !.live = IF d.mux = "none" THEN @ ELSE @ - 1,
            !.post = IF HasPostProc /\ d.file # 0 THEN Append(@, d.file) ELSE @]

(* dvr_rec_start with START generation g, ending with outcome r.           *)
(* muxer_create assigns de_mux whatever it held; pvr_generate_filename     *)
(* sets de_filename only when it succeeds; a failure returns -1 and leaves *)
(* de_mux as it is, initialised already when only muxer_write_meta failed. *)
DvrRecStart(d, g, r) ==
  LET created == [d EXCEPT !.mux = "created", !.live = @ + 1, !.marks = 0]
      named   == [created EXCEPT !.files = @ + 1, !.file = d.files + 1]
      inited  == [named EXCEPT !.mux = "ready", !.mgen = g]
  IN CASE r = "create"   -> [d EXCEPT !.mux = "none"]
       [] r = "filename" -> created
       [] r = "open"     -> named
       [] r = "init"     -> [named EXCEPT !.mux = "open"]
       [] r \in {"meta", "ok"} -> inited

(* A popped PACKET/MPEGTS message is handed to muxer_write_pkt.            *)
WillWrite(m) ==
  /\ m.kind \in {"PACKET", "MPEGTS"}
  /\ started
  /\ ~(m.kind = "PACKET" /\ m.comm = "YES" /\ SkipCommercials)

-----------------------------------------------------------------------------
(* dvr_thread: one iteration pops the head of the queue (under sq_mutex)   *)
(* and handles it.  Each handler below is one `case` of its switch.        *)

Pop(m, k) ==
  /\ m.kind = k
  /\ queue' = Tail(queue)

(* A skipped commercial leaves `commercial` as it was; otherwise a change *)
(* of the flag asks de_mux for a marker (none is recorded on NULL) before *)
(* `commercial` follows the packet.                                       *)
HandlePacket(m) ==
    /\ Pop(m, "PACKET")
    /\ DvrRecSetState(IF m.comm = "YES" THEN "COMMERCIAL" ELSE "RUNNING", OK)
    /\ IF m.comm = "YES" /\ SkipCommercials
         THEN UNCHANGED <<commercial, dvr>>
         ELSE /\ commercial' = m.comm
              /\ dvr' = IF commercial # m.comm /\ dvr.mux # "none"
                          THEN [dvr EXCEPT !.marks = @ + 1] ELSE dvr
    /\ UNCHANGED <<thread, started>>

HandleMpegts(m) ==
    /\ Pop(m, "MPEGTS")
    /\ IF started THEN DvrRecSetState("RUNNING", OK)
                  ELSE UNCHANGED <<recState, lastError>>
    /\ UNCHANGED <<thread, started, commercial, dvr>>

(* The part of a START that runs under global_lock: the state is reset    *)
(* and dvr_rec_start starts the recording on d.  dvr_rec_unsubscribe's     *)
(* caller holds global_lock from queueing EXIT until the join returns      *)
(* (global_lock guards the subscription linkage dvr_rec_unsubscribe        *)
(* undoes), so while sub = "exiting" pthread_mutex_lock blocks the thread  *)
(* for good, after the finalisation that precedes it.                      *)
StartLocked(d, m) ==
  IF sub = "exiting"
    THEN /\ thread' = "locking"
         /\ dvr' = d
         /\ started' = FALSE
         /\ UNCHANGED <<recState, lastError>>
    ELSE \E r \in StartOutcomes :
           /\ DvrRecSetState("WAIT_PROGRAM_START", OK)
           /\ dvr' = DvrRecStart(d, m.gen, r)
           /\ started' = (r = "ok")
           /\ UNCHANGED thread

(* Bug variant of HandleStart: a START while started is ignored instead   *)
(* of reconfiguring the muxer.                                             *)
HandleStartNoReconfigure(m) ==
  /\ Pop(m, "START")
  /\ IF started
       THEN UNCHANGED <<thread, started, recState, lastError, dvr>>
       ELSE StartLocked(dvr, m)
  /\ UNCHANGED commercial

(* START: a started recording asks the muxer to reconfigure; when it       *)
(* refuses the file is finalised and a new one started.                    *)
HandleStart(m) ==
  \E accepted \in BOOLEAN :
    /\ Pop(m, "START")
    /\ IF started /\ accepted
         THEN /\ dvr' = [dvr EXCEPT !.mgen = m.gen]
              /\ UNCHANGED <<thread, started, recState, lastError>>
         ELSE StartLocked(IF started THEN DvrThreadEpilog(dvr) ELSE dvr, m)
    /\ UNCHANGED commercial

(* Bug variant of HandleStop: a completed recording (code 0) is finalised *)
(* but `started` is not cleared.                                           *)
HandleStopNoReset(m) ==
  /\ Pop(m, "STOP")
  /\ CASE m.code = RECONF ->
            UNCHANGED <<started, recState, lastError, dvr>>
       [] m.code = OK ->
            /\ lastError' = OK
            /\ dvr' = DvrThreadEpilog(dvr)
            /\ UNCHANGED <<started, recState>>
       [] OTHER ->
            IF lastError # m.code
              THEN /\ DvrRecSetState("ERROR", m.code)
                   /\ dvr' = DvrThreadEpilog(dvr)
                   /\ started' = FALSE
              ELSE UNCHANGED <<started, recState, lastError, dvr>>
  /\ UNCHANGED <<thread, commercial>>

HandleStop(m) ==
    /\ Pop(m, "STOP")
    /\ CASE m.code = RECONF ->
              UNCHANGED <<started, recState, lastError, dvr>>
         [] m.code = OK ->
              /\ lastError' = OK
              /\ dvr' = DvrThreadEpilog(dvr)
              /\ started' = FALSE
              /\ UNCHANGED recState
         [] OTHER ->
              IF lastError # m.code
                THEN /\ DvrRecSetState("ERROR", m.code)
                     /\ dvr' = DvrThreadEpilog(dvr)
                     /\ started' = FALSE
                ELSE UNCHANGED <<started, recState, lastError, dvr>>
    /\ UNCHANGED <<thread, commercial>>

(* The error code a SERVICE_STATUS without TSS_PACKETS maps to. *)
StatusCode(f) ==
  IF "NO_ACCESS" \in f THEN "NO_ACCESS"
  ELSE IF "NO_DESCRAMBLER" \in f THEN "NO_DESCRAMBLER"
  ELSE "UNDEFINED_ERROR"

HandleServiceStatus(m) ==
    /\ Pop(m, "SERVICE_STATUS")
    /\ IF /\ "PACKETS" \notin m.flags
          /\ m.flags \cap ({"GRACEPERIOD"} \cup TssErrors) # {}
          /\ lastError # StatusCode(m.flags)
         THEN DvrRecSetState("ERROR", StatusCode(m.flags))
         ELSE UNCHANGED <<recState, lastError>>
    /\ UNCHANGED <<thread, started, commercial, dvr>>

HandleNoStart(m) ==
    /\ Pop(m, "NOSTART")
    /\ IF lastError # m.code
         THEN DvrRecSetState("PENDING", m.code)
         ELSE UNCHANGED <<recState, lastError>>
    /\ UNCHANGED <<thread, started, commercial, dvr>>

(* GRACE, SPEED, SKIP, SIGNAL_STATUS, TIMESHIFT_STATUS are dropped. *)
HandleIgnored(m) ==
    /\ Pop(m, "GRACE")
    /\ UNCHANGED <<thread, started, commercial, recState, lastError, dvr>>

HandleExit(m) ==
    /\ Pop(m, "EXIT")
    /\ thread' = "done"
    /\ dvr' = IF dvr.mux # "none" THEN DvrThreadEpilog(dvr) ELSE dvr
    /\ UNCHANGED <<started, commercial, recState, lastError>>

DvrThreadStep ==
  /\ thread = "running"
  /\ queue # <<>>
  /\ LET m == Head(queue) IN
       \/ HandlePacket(m) \/ HandleMpegts(m) \/ HandleStart(m) \/ HandleStop(m)
       \/ HandleServiceStatus(m) \/ HandleNoStart(m) \/ HandleIgnored(m)
       \/ HandleExit(m)
  /\ UNCHANGED <<raw, sub, serviceVars>>

-----------------------------------------------------------------------------
(* The service side, following the streaming protocol: a START opens a   *)
(* stream, packets only inside one, STOP(SOURCE_RECONFIGURED) is followed  *)
(* by a START or a terminal STOP.  Its streaming status is the service's   *)
(* own (src/src/service.c); the parser and the descrambler that set bits   *)
(* of it live outside src.                                                 *)

(* streaming_pad_deliver to the entry's subscription: ms, in order. *)
Deliver(ms) ==
  /\ sub # "gone"
  /\ sent + Len(ms) <= MaxMsgs
  /\ queue' = queue \o ms
  /\ sent' = sent + Len(ms)

(* service_set_streaming_status_flags_: a changed set is stored (by the    *)
(* caller's tss') and broadcast as SERVICE_STATUS; an unchanged one sends  *)
(* nothing.                                                                *)
StatusMsgs(set) ==
  IF set = tss THEN <<>> ELSE <<[kind |-> "SERVICE_STATUS", flags |-> set]>>

(* Bug variant of SendStart: service_start leaves s_streaming_status of   *)
(* the previous run in place.                                             *)
SendStartNoReset ==
  /\ phase \in {"none", "reconf"}
  /\ gen < MaxGen
  /\ Deliver(<<[kind |-> "START", gen |-> gen + 1]>>)
  /\ gen' = gen + 1
  /\ phase' = "live"
  /\ IF phase = "none"
       THEN /\ live' = FALSE /\ timer' = "grace"
            /\ fed' = FALSE /\ restarted' = FALSE /\ UNCHANGED tss
       ELSE /\ restarted' = TRUE
            /\ UNCHANGED <<tss, live, timer, fed>>
  /\ UNCHANGED <<raw, sub>>

(* A START after a terminal STOP follows service_start: the status and the *)
(* live bit are cleared and the data timer armed with the grace delay.     *)
(* After SOURCE_RECONFIGURED it is service_restart's, which leaves them.   *)
SendStart ==
  /\ phase \in {"none", "reconf"}
  /\ gen < MaxGen
  /\ Deliver(<<[kind |-> "START", gen |-> gen + 1]>>)
  /\ gen' = gen + 1
  /\ phase' = "live"
  /\ IF phase = "none"
       THEN /\ tss' = {} /\ live' = FALSE /\ timer' = "grace"
            /\ fed' = FALSE /\ restarted' = FALSE
       ELSE /\ restarted' = TRUE
            /\ UNCHANGED <<tss, live, timer, fed>>
  /\ UNCHANGED <<raw, sub>>

(* The parser delivers a packet: TSS_PACKETS through the setter, the live *)
(* bit, then the packet itself.                                           *)
SendPacket ==
  /\ phase = "live"
  /\ \E m \in IF raw THEN {[kind |-> "MPEGTS", gen |-> gen]}
                  ELSE {[kind |-> "PACKET", comm |-> c, gen |-> gen] : c \in {"YES", "NO"}} :
       Deliver(StatusMsgs(tss \cup {"PACKETS"}) \o <<m>>)
  /\ tss' = tss \cup {"PACKETS"}
  /\ live' = TRUE
  /\ fed' = TRUE
  /\ UNCHANGED <<phase, gen, raw, sub, timer, restarted>>

(* A terminal STOP unlinks the subscription and service_stop disarms the  *)
(* data timer; SOURCE_RECONFIGURED is service_restart's and leaves it.    *)
(* A restart whose new filtered list is empty sends no START, so the next *)
(* restart's SOURCE_RECONFIGURED follows the previous one.                *)
SendStop ==
  \E c \in Codes :
    /\ phase \in {"live", "reconf"}
    /\ Deliver(<<[kind |-> "STOP", code |-> c]>>)
    /\ phase' = IF c = RECONF THEN "reconf" ELSE "none"
    /\ timer' = IF c = RECONF THEN timer ELSE "off"
    /\ UNCHANGED <<gen, raw, sub, tss, live, fed, restarted>>

(* The descrambler reports no descrambler or no access through the setter. *)
DescramblerStatus ==
  \E f \in DescrFlags :
    /\ phase = "live"
    /\ Deliver(StatusMsgs(tss \cup {f}))
    /\ tss' = tss \cup {f}
    /\ UNCHANGED <<phase, gen, raw, sub, live, timer, fed, restarted>>

(* service_data_timeout: no TSS_PACKETS yet adds GRACEPERIOD, no live bit *)
(* since the last run adds TIMEOUT (through the setter); the live bit is  *)
(* cleared and the timer re-armed for 5 seconds.                          *)
ServiceDataTimeout ==
  LET set == tss \cup (IF "PACKETS" \notin tss THEN {"GRACEPERIOD"} ELSE {})
                 \cup (IF ~live THEN {"TIMEOUT"} ELSE {})
  IN /\ timer # "off"
     /\ Deliver(StatusMsgs(set))
     /\ tss' = set
     /\ live' = FALSE
     /\ timer' = "tick"
     /\ UNCHANGED <<phase, gen, raw, sub, fed, restarted>>

SendNoStart ==
  \E c \in ErrCodes :
    /\ phase = "none"
    /\ Deliver(<<[kind |-> "NOSTART", code |-> c]>>)
    /\ UNCHANGED <<phase, gen, raw, sub, tss, live, timer, fed, restarted>>

SendGrace ==
  /\ Deliver(<<[kind |-> "GRACE"]>>)
  /\ UNCHANGED <<phase, gen, raw, sub, tss, live, timer, fed, restarted>>

ServiceStep ==
  /\ \/ SendStart \/ SendPacket \/ SendStop \/ DescramblerStatus
     \/ ServiceDataTimeout \/ SendNoStart \/ SendGrace
  /\ UNCHANGED <<thread, started, commercial, recState, lastError, dvr>>

-----------------------------------------------------------------------------
(* dvr_rec_unsubscribe: queue EXIT, join the thread, drop the subscription *)
(* and record the stop code.                                               *)

DvrRecUnsubscribe ==
  /\ sub = "live"
  /\ sub' = "exiting"
  /\ queue' = Append(queue, [kind |-> "EXIT"])
  /\ UNCHANGED <<thread, started, commercial, recState, lastError, dvr, raw,
                 serviceVars>>

DvrRecJoined ==
  \E c \in Codes \ {RECONF} :
    /\ sub = "exiting"
    /\ thread = "done"
    /\ sub' = "gone"
    /\ lastError' = c
    /\ UNCHANGED <<queue, thread, started, commercial, recState, dvr, raw,
                   serviceVars>>

-----------------------------------------------------------------------------
(* dvr_rec_subscribe: a fresh queue, a subscription, a running thread; the *)
(* container decides whether the queue carries packets or raw MPEG-TS.     *)
Init ==
  /\ queue = <<>>
  /\ thread = "running"
  /\ started = FALSE
  /\ commercial = "UNKNOWN"
  /\ recState = "PENDING"
  /\ lastError = OK
  /\ dvr = [mux |-> "none", mgen |-> 0, file |-> 0, files |-> 0, live |-> 0,
            marks |-> 0, post |-> <<>>]
  /\ raw \in BOOLEAN
  /\ sub = "live"
  /\ phase = "none"
  /\ gen = 0
  /\ sent = 0
  /\ tss = {}
  /\ live = FALSE
  /\ timer = "off"
  /\ fed = FALSE
  /\ restarted = FALSE

Next ==
  \/ DvrThreadStep
  \/ ServiceStep
  \/ DvrRecUnsubscribe
  \/ DvrRecJoined

(* The worker thread runs whenever a message waits for it: it blocks only *)
(* on its queue and on global_lock, and the one holder of global_lock that *)
(* can keep it forever, dvr_rec_unsubscribe's caller, is modelled (the     *)
(* "locking" state, where no step of the thread is enabled).  Other        *)
(* holders release it after a bounded step.  pthread_join returns once the *)
(* thread has ended.                                                       *)
Fairness ==
  /\ WF_vars(DvrThreadStep)
  /\ WF_vars(DvrRecJoined)

Spec == Init /\ [][Next]_vars /\ Fairness


-----------------------------------------------------------------------------
(***************************************************************************)
(* Properties.                                                             *)
(***************************************************************************)
LOCAL INSTANCE Functions

Msgs ==
  [kind : {"START"}, gen : 1..MaxGen]
  \cup [kind : {"PACKET"}, comm : {"YES", "NO"}, gen : 0..MaxGen]
  \cup [kind : {"MPEGTS"}, gen : 0..MaxGen]
  \cup [kind : {"STOP", "NOSTART"}, code : Codes]
  \cup [kind : {"SERVICE_STATUS"}, flags : SUBSET TssFlags]
  \cup [kind : {"GRACE", "EXIT"}]

TypeOK ==
  /\ queue \in Seq(Msgs)
  /\ thread \in {"running", "locking", "done"}
  /\ started \in BOOLEAN
  /\ commercial \in {"UNKNOWN", "YES", "NO"}
  /\ recState \in RecStates
  /\ lastError \in Codes
  /\ dvr.mux \in MuxStages
  /\ dvr.mgen \in 0..MaxGen
  /\ dvr.file \in 0..dvr.files
  /\ dvr.live \in Nat
  /\ dvr.marks \in 0..MaxMsgs
  /\ dvr.post \in Seq(1..dvr.files)
  /\ raw \in BOOLEAN
  /\ sub \in {"live", "exiting", "gone"}
  /\ phase \in {"none", "live", "reconf"}
  /\ gen \in 0..MaxGen
  /\ sent \in 0..MaxMsgs
  /\ tss \in SUBSET TssFlags
  /\ live \in BOOLEAN
  /\ timer \in {"off", "grace", "tick"}
  /\ fed \in BOOLEAN
  /\ restarted \in BOOLEAN

(* dvr_thread's `started` is set only after dvr_rec_start opened and      *)
(* initialised a muxer, and every path that finalises the muxer (STOP,     *)
(* a refused reconfiguration) clears it: while `started` holds, de_mux is  *)
(* a writable, initialised muxer, so muxer_write_pkt never reaches a       *)
(* closed or half-opened one.                                              *)
StartedImpliesReady == (thread = "running" /\ started) => dvr.mux = "ready"

(* Every packet dvr_thread hands to muxer_write_pkt belongs to the source  *)
(* configuration the muxer was last initialised or reconfigured with: a    *)
(* source swap (STOP SOURCE_RECONFIGURED, START) either reconfigures the   *)
(* muxer before the new packets or finalises the file and opens a new one. *)
WritesMatchConfig ==
  [][ (thread = "running" /\ queue # <<>> /\ queue' = Tail(queue)
         /\ WillWrite(Head(queue)))
      => Head(queue).gen = dvr.mgen ]_vars

ExitJoins == (sub = "exiting") ~> (sub = "gone")

(* A service that was started and has delivered no packet is reported to *)
(* the recording: once service_data_timeout has run, the SERVICE_STATUS it *)
(* broadcasts (GRACEPERIOD, TIMEOUT, no PACKETS) puts the entry in ERROR,  *)
(* unless the recording is unsubscribed first.  It takes service_start's reset of the    *)
(* status, the timer's flag logic, the setter's change test and            *)
(* dvr_thread's mapping and de_last_error test to agree.  It is stated up  *)
(* to the first service_restart: that START resets the entry to           *)
(* WAIT_PROGRAM_START and the unchanged status is never sent again.        *)
NoInputReported ==
  (timer = "tick" /\ ~fed /\ ~restarted) ~> (recState = "ERROR" \/ sub # "live")

(* Every muxer dvr_rec_start allocates is referenced by de_mux until       *)
(* dvr_thread_epilog destroys it: no muxer (and its open file) leaks.      *)
NoMuxerLeak == dvr.live = IF dvr.mux = "none" THEN 0 ELSE 1

(* The post-processor runs at most once on each recorded file.             *)
PostProcOncePerFile == IsInjective(dvr.post)

=============================================================================
