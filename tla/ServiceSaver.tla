---------------------------- MODULE ServiceSaver ----------------------------
(***************************************************************************)
(* The asynchronous service-configuration saver of src/src/service.c:     *)
(* service_request_save queues a service (taking a reference) on the      *)
(* pending-save queue and signals the saver thread; service_saver pops    *)
(* one service at a time, saves it under global_lock, restarts it when a  *)
(* restart was asked for and it is running, and drops the reference.      *)
(* service_destroy makes a service a ZOMBIE and drops the registry's      *)
(* reference; the memory goes when the last reference goes                *)
(* (service_unref).  At shutdown the main thread clears                   *)
(* tvheadend_running, signals the saver's condition (service_done) and    *)
(* joins the thread.                                                       *)
(***************************************************************************)
EXTENDS Naturals, Sequences, FiniteSets

CONSTANTS
  Svcs,      \* the services
  MaxReq,    \* bound: calls of service_request_save
  NoSvc      \* model value: the saver's `t` when it holds no service

ASSUME MaxReq \in Nat /\ NoSvc \notin Svcs

VARIABLES
  running,   \* tvheadend_running
  pq,        \* pending_save_queue
  onq,       \* s_ps_onqueue: 0, 1 (save) or 2 (save and restart)
  refc,      \* s_refcount
  status,    \* s_status: "IDLE" | "RUNNING" | "ZOMBIE"
  freed,     \* services whose memory service_unref released
  saver,     \* the saver thread: pc, the service it holds, its `restart`
  main,      \* the shutting-down thread: "run" | "stopping" | "joining" | "joined"
  reqs,      \* service_request_save calls so far
  dirty,     \* history: services with a save request no save has served yet
  wantRestart \* history: restart requests since the service was last popped

vars == <<running, pq, onq, refc, status, freed, saver, main, reqs, dirty,
          wantRestart>>

(* The saver holds pending_save_mutex between its wake-up and its         *)
(* cond_wait or unlock; service_request_save needs it.                    *)
SaverHoldsMutex == saver.pc \in {"loop", "check"}

(* pthread_cond_signal on pending_save_cond: wakes the saver if it waits; *)
(* a signal nobody waits for is lost.                                     *)
Signal(s) == IF s.pc = "wait" THEN [s EXCEPT !.pc = "loop"] ELSE s

(* service_unref: the last reference frees the service. *)
Unref(s) ==
  /\ refc' = [refc EXCEPT ![s] = @ - 1]
  /\ freed' = IF refc[s] = 1 THEN freed \cup {s} ELSE freed

-----------------------------------------------------------------------------
(* Bug variant: the queued service without service_ref. *)
ServiceRequestSaveNoRef(s, r) ==
  /\ reqs < MaxReq
  /\ status[s] # "ZOMBIE"
  /\ ~SaverHoldsMutex
  /\ reqs' = reqs + 1
  /\ dirty' = dirty \cup {s}
  /\ wantRestart' = IF r THEN wantRestart \cup {s} ELSE wantRestart
  /\ IF onq[s] = 0
       THEN /\ onq' = [onq EXCEPT ![s] = IF r THEN 2 ELSE 1]
            /\ pq' = Append(pq, s)
            /\ saver' = Signal(saver)
       ELSE /\ onq' = IF r THEN [onq EXCEPT ![s] = 2] ELSE onq
            /\ UNCHANGED <<pq, saver>>
  /\ UNCHANGED <<running, status, freed, main, refc>>

(* Bug variant: no pthread_cond_signal after queueing. *)
ServiceRequestSaveNoSignal(s, r) ==
  /\ reqs < MaxReq
  /\ status[s] # "ZOMBIE"
  /\ ~SaverHoldsMutex
  /\ reqs' = reqs + 1
  /\ dirty' = dirty \cup {s}
  /\ wantRestart' = IF r THEN wantRestart \cup {s} ELSE wantRestart
  /\ IF onq[s] = 0
       THEN /\ onq' = [onq EXCEPT ![s] = IF r THEN 2 ELSE 1]
            /\ pq' = Append(pq, s)
            /\ refc' = [refc EXCEPT ![s] = @ + 1]
       ELSE /\ onq' = IF r THEN [onq EXCEPT ![s] = 2] ELSE onq
            /\ UNCHANGED <<pq, refc>>
  /\ UNCHANGED <<running, status, freed, main, saver>>

(* Bug variant: no upgrade of a queued save to a restart. *)
ServiceRequestSaveNoUpgrade(s, r) ==
  /\ reqs < MaxReq
  /\ status[s] # "ZOMBIE"
  /\ ~SaverHoldsMutex
  /\ reqs' = reqs + 1
  /\ dirty' = dirty \cup {s}
  /\ wantRestart' = IF r THEN wantRestart \cup {s} ELSE wantRestart
  /\ IF onq[s] = 0
       THEN /\ onq' = [onq EXCEPT ![s] = IF r THEN 2 ELSE 1]
            /\ pq' = Append(pq, s)
            /\ refc' = [refc EXCEPT ![s] = @ + 1]
            /\ saver' = Signal(saver)
       ELSE /\ onq' = onq
            /\ UNCHANGED <<pq, refc, saver>>
  /\ UNCHANGED <<running, status, freed, main>>

(* service_request_save(t, restart) *)
ServiceRequestSave(s, r) ==
  /\ reqs < MaxReq
  /\ status[s] # "ZOMBIE"
  /\ ~SaverHoldsMutex
  /\ reqs' = reqs + 1
  /\ dirty' = dirty \cup {s}
  /\ wantRestart' = IF r THEN wantRestart \cup {s} ELSE wantRestart
  /\ IF onq[s] = 0
       THEN /\ onq' = [onq EXCEPT ![s] = IF r THEN 2 ELSE 1]
            /\ pq' = Append(pq, s)
            /\ refc' = [refc EXCEPT ![s] = @ + 1]
            /\ saver' = Signal(saver)
       ELSE /\ onq' = IF r THEN [onq EXCEPT ![s] = 2] ELSE onq
            /\ UNCHANGED <<pq, refc, saver>>
  /\ UNCHANGED <<running, status, freed, main>>

(* service_saver: the `while(tvheadend_running)` test. *)
SaverLoop ==
  /\ saver.pc = "loop"
  /\ saver' = [saver EXCEPT !.pc = IF running THEN "check" ELSE "exited"]
  /\ UNCHANGED <<running, pq, onq, refc, status, freed, main, reqs, dirty,
                 wantRestart>>

(* Bug variant: s_ps_onqueue not cleared on pop. *)
SaverCheckNoClear ==
  /\ saver.pc = "check"
  /\ IF pq = <<>>
       THEN /\ saver' = [saver EXCEPT !.pc = "wait"]
            /\ UNCHANGED <<pq, wantRestart>>
       ELSE LET t == Head(pq) IN
            /\ saver' = [pc |-> "save", cur |-> t, restart |-> onq[t] = 2,
                         want |-> t \in wantRestart]
            /\ pq' = Tail(pq)
            /\ wantRestart' = wantRestart \ {t}
  /\ UNCHANGED <<running, refc, status, freed, main, reqs, dirty, onq>>

(* service_saver: wait for work, or pop the head and release the mutex. *)
SaverCheck ==
  /\ saver.pc = "check"
  /\ IF pq = <<>>
       THEN /\ saver' = [saver EXCEPT !.pc = "wait"]
            /\ UNCHANGED <<pq, onq, wantRestart>>
       ELSE LET t == Head(pq) IN
            /\ saver' = [pc |-> "save", cur |-> t, restart |-> onq[t] = 2,
                         want |-> t \in wantRestart]
            /\ pq' = Tail(pq)
            /\ onq' = [onq EXCEPT ![t] = 0]
            /\ wantRestart' = wantRestart \ {t}
  /\ UNCHANGED <<running, refc, status, freed, main, reqs, dirty>>

(* service_saver under global_lock: save unless a ZOMBIE, restart a       *)
(* running service if asked, drop the queue's reference, relock.          *)
SaverSave ==
  LET t == saver.cur IN
  /\ saver.pc = "save"
  /\ dirty' = IF status[t] # "ZOMBIE" THEN dirty \ {t} ELSE dirty
  /\ Unref(t)
  /\ saver' = [pc |-> "loop", cur |-> NoSvc, restart |-> FALSE, want |-> FALSE]
  /\ UNCHANGED <<running, pq, onq, status, main, reqs, wantRestart>>

SaverStep == SaverLoop \/ SaverCheck \/ SaverSave

-----------------------------------------------------------------------------
(* The life cycle the rest of the program drives, under global_lock:      *)
(* service_start / service_stop move a service between IDLE and RUNNING, *)
(* service_destroy makes it a ZOMBIE and drops the registry's reference.  *)

ServiceStart(s) ==
  /\ status[s] = "IDLE"
  /\ status' = [status EXCEPT ![s] = "RUNNING"]
  /\ UNCHANGED <<running, pq, onq, refc, freed, saver, main, reqs, dirty,
                 wantRestart>>

ServiceStop(s) ==
  /\ status[s] = "RUNNING"
  /\ status' = [status EXCEPT ![s] = "IDLE"]
  /\ UNCHANGED <<running, pq, onq, refc, freed, saver, main, reqs, dirty,
                 wantRestart>>

(* Bug variant: service_destroy of a service already destroyed. *)
ServiceDestroyTwice(s) ==
  /\ status' = [status EXCEPT ![s] = "ZOMBIE"]
  /\ Unref(s)
  /\ UNCHANGED <<running, pq, onq, saver, main, reqs, dirty, wantRestart>>

ServiceDestroy(s) ==
  /\ status[s] # "ZOMBIE"
  /\ status' = [status EXCEPT ![s] = "ZOMBIE"]
  /\ Unref(s)
  /\ UNCHANGED <<running, pq, onq, saver, main, reqs, dirty, wantRestart>>

-----------------------------------------------------------------------------
(* Shutdown: the main thread clears tvheadend_running (no lock), then     *)
(* service_done signals the condition (no lock) and joins the saver.      *)

Shutdown ==
  /\ main = "run"
  /\ running' = FALSE
  /\ main' = "stopping"
  /\ UNCHANGED <<pq, onq, refc, status, freed, saver, reqs, dirty, wantRestart>>

ServiceDone ==
  /\ main = "stopping"
  /\ saver' = Signal(saver)
  /\ main' = "joining"
  /\ UNCHANGED <<running, pq, onq, refc, status, freed, reqs, dirty,
                 wantRestart>>

Joined ==
  /\ main = "joining"
  /\ saver.pc = "exited"
  /\ main' = "joined"
  /\ UNCHANGED <<running, pq, onq, refc, status, freed, saver, reqs, dirty,
                 wantRestart>>

-----------------------------------------------------------------------------
(* service_init: empty queue, saver thread started; each service exists   *)
(* (service_create0: one reference, IDLE).                                *)
Init ==
  /\ running = TRUE
  /\ pq = <<>>
  /\ onq = [s \in Svcs |-> 0]
  /\ refc = [s \in Svcs |-> 1]
  /\ status = [s \in Svcs |-> "IDLE"]
  /\ freed = {}
  /\ saver = [pc |-> "loop", cur |-> NoSvc, restart |-> FALSE, want |-> FALSE]
  /\ main = "run"
  /\ reqs = 0
  /\ dirty = {}
  /\ wantRestart = {}

Next ==
  \/ \E s \in Svcs, r \in BOOLEAN : ServiceRequestSave(s, r)
  \/ SaverStep
  \/ \E s \in Svcs : ServiceStart(s) \/ ServiceStop(s) \/ ServiceDestroy(s)
  \/ Shutdown \/ ServiceDone \/ Joined

(* The saver thread and the shutting-down main thread are scheduled by    *)
(* the OS whenever they can run; nothing forces a shutdown or a request.  *)
Fairness ==
  /\ WF_vars(SaverStep)
  /\ WF_vars(ServiceDone)
  /\ WF_vars(Joined)

Spec == Init /\ [][Next]_vars /\ Fairness

-----------------------------------------------------------------------------
TypeOK ==
  /\ running \in BOOLEAN
  /\ pq \in Seq(Svcs)
  /\ onq \in [Svcs -> 0..2]
  /\ refc \in [Svcs -> 0..(1 + MaxReq)]
  /\ status \in [Svcs -> {"IDLE", "RUNNING", "ZOMBIE"}]
  /\ freed \subseteq Svcs
  /\ saver.pc \in {"loop", "check", "wait", "save", "exited"}
  /\ saver.cur \in Svcs \cup {NoSvc}
  /\ main \in {"run", "stopping", "joining", "joined"}
  /\ reqs \in 0..MaxReq

(* The references taken by service_request_save keep a service alive:    *)
(* no service on pending_save_queue, and none the saver holds between    *)
(* dropping pending_save_mutex and service_unref, has been freed, even   *)
(* when service_destroy dropped the registry's reference meanwhile.      *)
NoUseAfterFree ==
  /\ \A i \in 1..Len(pq) : pq[i] \notin freed
  /\ saver.pc = "save" => saver.cur \notin freed

(* The queue and the s_ps_onqueue flags agree, so the saver's            *)
(* assert(t->s_ps_onqueue != 0) holds and a service is queued at most    *)
(* once: a service is on the queue exactly when its flag is set.         *)
QueueMatchesFlag ==
  \A s \in Svcs :
    /\ Cardinality({i \in 1..Len(pq) : pq[i] = s}) <= 1
    /\ (onq[s] # 0) <=> (\E i \in 1..Len(pq) : pq[i] = s)

(* Coalescing never loses a restart: when the saver pops a service, it   *)
(* decides to restart it exactly when some service_request_save(t, 1)    *)
(* came after the service's previous pop (the upgrade of s_ps_onqueue   *)
(* to 2 in service_request_save).                                        *)
RestartNotLost == saver.pc = "save" => saver.restart = saver.want

(* While tvheadend runs, every save request of a live service is served  *)
(* by a later s_config_save, however requests, pops and the saver's      *)
(* cond_wait interleave.                                                 *)
SaveEventually ==
  \A s \in Svcs :
    s \in dirty ~> (s \notin dirty \/ status[s] = "ZOMBIE" \/ ~running)

(* Shutdown completes: once the main thread has cleared                 *)
(* tvheadend_running, service_done's pthread_join returns.               *)
ShutdownCompletes == main = "stopping" ~> main = "joined"

=============================================================================
