---------------------------- MODULE ServiceStreams ----------------------------
(***************************************************************************)
(* The services of one channel in src/src/service.c, each on its own      *)
(* tuner instance: their status, refcount, component list s_components,   *)
(* filtered list s_filt_components and stream cache s_last_es; the        *)
(* instance list each subscription keeps for service_find_instance; and   *)
(* the subscriptions linked to a service.  Every action runs under        *)
(* global_lock, and the stream operations also under s_stream_mutex, so   *)
(* each is one step.  service_build_filter is ESFilter's BuildFilter.     *)
(* A stream is [id, idx, pid, kind]: `id` is its allocation (the pointer),*)
(* `idx` its es_index, `kind` the class/language/CAIDs the filter reads.  *)
(***************************************************************************)
EXTENDS Integers, Sequences, FiniteSets

CONSTANTS
  ChannelSvcs,  \* the channel's service mappings ch_services, in list order
  Subs,         \* subscriptions to the channel
  Prio,         \* [service -> si_prio] the enlist callback reports
  Weight,       \* [Subs -> weight] of each subscription
  BusyWeight,   \* weight of another channel's subscriber holding a tuner
  LoadedSvcs,   \* bound: the services whose tuner another channel may load
  StreamSvcs,   \* bound: the services the input layer creates streams on
  Pids,         \* PIDs the input layer creates streams for
  Kinds,        \* the stream kinds [cls, lang, caids]
  Rules,        \* esfilters[], fixed while the model runs
  Classes, CA, ANY,
  MaxIds,       \* bound: streams allocated
  NoSvc         \* model value: a subscription linked to no service

Svcs == {ChannelSvcs[n] : n \in DOMAIN ChannelSvcs}

ASSUME NoSvc \notin Svcs /\ MaxIds \in Nat

VARIABLES
  status,    \* s_status: IDLE, RUNNING, ZOMBIE
  refc,      \* s_refcount
  components, \* s_components
  filtered,   \* s_filt_components, as the ids of the streams in it
  lastEs,    \* s_last_es: the id of the cached stream, 0 for NULL
  nextId,    \* streams allocated so far
  sil,       \* each subscription's service_instance_list_t
  linked,    \* the service a subscription is linked to
  busy,      \* weight another channel's subscriber puts on a service's tuner
  lastStart  \* the components of the last START service_restart delivered

vars == <<status, refc, components, filtered, lastEs, nextId, sil, linked, busy,
          lastStart>>

SM_CODE_TUNING_FAILED == 2   \* si_error after a failed start

EF(streamKinds) == INSTANCE ESFilter WITH comps <- streamKinds, rules <- Rules, filt <- <<>>,
                                built <- TRUE, CompChoices <- {}, RuleChoices <- {}

(* service_build_filter on the component list cs. *)
FilterOf(cs) ==
  LET kinds == [n \in DOMAIN cs |-> cs[n].kind]
      admitted == EF(kinds)!BuildFilter(EF(kinds)!Fresh).out
  IN [p \in DOMAIN admitted |-> cs[admitted[p]].id]

Ids(s) == {components[s][k].id : k \in DOMAIN components[s]}
PidsOf(s) == {components[s][k].pid : k \in DOMAIN components[s]}
Subscribers(s) == {u \in Subs : linked[u] = s}
MaxOf(S) == CHOOSE m \in S : \A x \in S : x <= m
MinOf(S) == CHOOSE m \in S : \A x \in S : m <= x

-----------------------------------------------------------------------------
(* The instance list.  si_cmp orders by prio, then weight; an insert goes *)
(* before the first entry it does not sort after (TAILQ_INSERT_SORTED).   *)
SiCmp(a, b) == IF a.prio # b.prio THEN a.prio - b.prio ELSE a.weight - b.weight

InsertSorted(L, e) ==
  LET before == {j \in DOMAIN L : SiCmp(e, L[j]) <= 0}
      k == IF before = {} THEN Len(L) + 1 ELSE MinOf(before)
  IN SubSeq(L, 1, k - 1) \o <<e>> \o SubSeq(L, k, Len(L))

RemoveAt(L, k) == SubSeq(L, 1, k - 1) \o SubSeq(L, k + 1, Len(L))

(* service_instance_add: refresh an existing entry (unmark it, re-sort it *)
(* when prio or weight changed, keeping its si_error), or add a new one,  *)
(* taking a reference on the service.                                     *)
ServiceInstanceAdd(L, s, prio, weight) ==
  LET ks == {k \in DOMAIN L : L[k].s = s}
      k == CHOOSE k \in ks : TRUE
  IN IF ks = {}
       THEN InsertSorted(L, [s |-> s, prio |-> prio, weight |-> weight,
                             error |-> 0, mark |-> FALSE])
     ELSE IF L[k].prio = prio /\ L[k].weight = weight
       THEN [L EXCEPT ![k].mark = FALSE]
     ELSE InsertSorted(RemoveAt(L, k),
                       [L[k] EXCEPT !.mark = FALSE, !.prio = prio, !.weight = weight])

(* The weight the enlist callback reports: the heaviest subscriber on the *)
(* tuner, ours or another channel's.                                      *)
InstWeight(s) ==
  IF Subscribers(s) # {} THEN MaxOf({Weight[u] : u \in Subscribers(s)}) ELSE busy[s]

(* The enlist loop over the channel's enabled (not destroyed) services.   *)
RECURSIVE Enlist(_, _)
Enlist(L, n) ==
  IF n > Len(ChannelSvcs) THEN L
  ELSE LET s == ChannelSvcs[n] IN
       Enlist(IF status[s] # "ZOMBIE"
                THEN ServiceInstanceAdd(L, s, Prio[s], InstWeight(s)) ELSE L,
              n + 1)

(* The candidates of the four searches of service_find_instance.          *)
Usable(L, k) == L[k].error = 0
AlreadyRunning(L) == {k \in DOMAIN L : status[L[k].s] = "RUNNING" /\ Usable(L, k)}
Forced(L) == {k \in DOMAIN L : L[k].weight < 0 /\ Usable(L, k)}
IdleInst(L) == {k \in DOMAIN L : L[k].weight = 0 /\ Usable(L, k)}
Bumpable(L, w) == {k \in DOMAIN L : L[k].weight < w /\ Usable(L, k)}

First(K) == MinOf(K)
Last(K) == MaxOf(K)

(* The choice: already running, else forced, else the LAST idle entry     *)
(* (reverse search), else the first entry of lowest weight below ours;    *)
(* 0 when there is none (SM_CODE_NO_FREE_ADAPTER).                        *)
Pick(L, w) ==
  IF AlreadyRunning(L) # {} THEN First(AlreadyRunning(L))
  ELSE IF Forced(L) # {} THEN First(Forced(L))
  ELSE IF IdleInst(L) # {} THEN Last(IdleInst(L))
  ELSE LET B == Bumpable(L, w)
           m == MinOf({L[k].weight : k \in B})
       IN IF B = {} THEN 0 ELSE First({k \in B : L[k].weight = m})

InList(L, s) == \E k \in DOMAIN L : L[k].s = s
Refs(s) == Cardinality({u \in Subs : InList(sil[u], s)})

-----------------------------------------------------------------------------
(* Bug variant: the instances of a destroyed subscription not unreferenced. *)
ServiceInstanceListClearNoUnref(u) ==
  /\ sil' = [sil EXCEPT ![u] = <<>>]
  /\ UNCHANGED refc

(* service_instance_list_clear: service_instance_destroy on every entry. *)
ServiceInstanceListClear(u) ==
  /\ sil' = [sil EXCEPT ![u] = <<>>]
  /\ refc' = [s \in Svcs |-> refc[s] - (IF InList(sil[u], s) THEN 1 ELSE 0)]

(* service_find_instance for subscription u, with subscription_link_service *)
(* on the instance it returns: mark, enlist, drop what is still marked     *)
(* (unreferencing it), pick, and start a service that is not running yet:  *)
(* service_start builds the filter, then start_feed succeeds (RUNNING) or  *)
(* fails (si_error = SM_CODE_TUNING_FAILED, nothing returned).             *)
ServiceFindInstance(u) ==
  /\ linked[u] = NoSvc
  /\ \E enl \in {Enlist([k \in DOMAIN sil[u] |-> [sil[u][k] EXCEPT !.mark = TRUE]], 1)} :
     \E lst \in {SelectSeq(enl, LAMBDA e : ~e.mark)} :
     \E pick \in {Pick(lst, Weight[u])} :
     LET refc1 == [s \in Svcs |-> refc[s] + (IF InList(enl, s) /\ ~InList(sil[u], s) THEN 1 ELSE 0)
                                          - (IF InList(enl, s) /\ ~InList(lst, s) THEN 1 ELSE 0)]
         svc == IF pick = 0 THEN NoSvc ELSE lst[pick].s
     IN /\ refc' = refc1
        /\ \/ /\ pick = 0 \/ pick \in AlreadyRunning(lst)
              /\ sil' = [sil EXCEPT ![u] = lst]
              /\ linked' = [linked EXCEPT ![u] = svc]
              /\ UNCHANGED <<status, filtered, busy>>
           \/ /\ pick # 0 /\ pick \notin AlreadyRunning(lst)
              /\ filtered' = [filtered EXCEPT ![svc] = FilterOf(components[svc])]
              /\ \/ /\ status' = [status EXCEPT ![svc] = "RUNNING"]
                    /\ busy' = [busy EXCEPT ![svc] = 0]
                    /\ sil' = [sil EXCEPT ![u] = lst]
                    /\ linked' = [linked EXCEPT ![u] = svc]
                 \/ /\ sil' = [sil EXCEPT ![u] = [lst EXCEPT ![pick].error = SM_CODE_TUNING_FAILED]]
                    /\ UNCHANGED <<status, busy, linked>>
  /\ UNCHANGED <<components, lastEs, nextId, lastStart>>

(* service_remove_subscriber stops the service once no subscriber is left. *)
RemoveSubscriberStops(rest) == rest = {}

(* A subscription ends: service_remove_subscriber (subscription_unlink_    *)
(* service, then service_stop when no subscription is left) and          *)
(* service_instance_list_clear.                                           *)
Unsubscribe(u) ==
  /\ linked[u] # NoSvc \/ sil[u] # <<>>
  /\ LET s == linked[u]
         rest == Subscribers(s) \ {u}
         stop == s # NoSvc /\ RemoveSubscriberStops(rest)
     IN /\ linked' = [linked EXCEPT ![u] = NoSvc]
        /\ status' = IF stop THEN [status EXCEPT ![s] = "IDLE"] ELSE status
  /\ ServiceInstanceListClear(u)
  /\ UNCHANGED <<components, filtered, lastEs, nextId, busy, lastStart>>

(* Bug variant: the subscriptions left linked to the destroyed service. *)
ServiceDestroyKeepSubs(s) ==
  /\ status[s] # "ZOMBIE"
  /\ status' = [status EXCEPT ![s] = "ZOMBIE"]
  /\ filtered' = [filtered EXCEPT ![s] = <<>>]
  /\ components' = [components EXCEPT ![s] = <<>>]
  /\ lastEs' = [lastEs EXCEPT ![s] = 0]
  /\ refc' = [refc EXCEPT ![s] = @ - 1]
  /\ UNCHANGED <<nextId, sil, linked, busy, lastStart>>

(* service_destroy: unlink every subscription, stop a service that is not *)
(* idle, ZOMBIE, empty the filtered list, destroy every stream, drop the  *)
(* registry's reference.                                                   *)
ServiceDestroy(s) ==
  /\ status[s] # "ZOMBIE"
  /\ linked' = [u \in Subs |-> IF linked[u] = s THEN NoSvc ELSE linked[u]]
  /\ status' = [status EXCEPT ![s] = "ZOMBIE"]
  /\ filtered' = [filtered EXCEPT ![s] = <<>>]
  /\ components' = [components EXCEPT ![s] = <<>>]
  /\ lastEs' = [lastEs EXCEPT ![s] = 0]
  /\ refc' = [refc EXCEPT ![s] = @ - 1]
  /\ UNCHANGED <<nextId, sil, busy, lastStart>>

-----------------------------------------------------------------------------
(* Bug variant: es_index = i + 1, one more than the number of streams   *)
(* the loop counts, which equals max+1 only while no stream was destroyed. *)
NewIndexCount(cs) == Len(cs) + 1

(* es_index of a new stream: one more than the largest in the list. *)
NewIndex(cs) == MaxOf({0} \cup {cs[k].idx : k \in DOMAIN cs}) + 1

(* service_stream_create for a PID not in the list (one that is returns  *)
(* the existing stream): append, and rebuild the filter of a running     *)
(* service.                                                              *)
ServiceStreamCreate(s, pid, kind) ==
  /\ s \in StreamSvcs /\ status[s] # "ZOMBIE" /\ nextId < MaxIds
  /\ pid \notin PidsOf(s)
  /\ LET cs == Append(components[s], [id |-> nextId + 1, idx |-> NewIndex(components[s]),
                                 pid |-> pid, kind |-> kind])
     IN /\ components' = [components EXCEPT ![s] = cs]
        /\ filtered' = IF status[s] = "RUNNING" THEN [filtered EXCEPT ![s] = FilterOf(cs)] ELSE filtered
  /\ nextId' = nextId + 1
  /\ UNCHANGED <<status, refc, lastEs, sil, linked, busy, lastStart>>

(* Bug variant: s_last_es left pointing at the freed stream. *)
ServiceStreamDestroyKeepCache(s, pid) ==
  /\ pid \in PidsOf(s)
  /\ components' = [components EXCEPT ![s] = SelectSeq(@, LAMBDA e : e.pid # pid)]
  /\ UNCHANGED <<status, refc, filtered, lastEs, nextId, sil, linked, busy, lastStart>>

(* service_stream_destroy: clear s_last_es if it is this stream, unlink it *)
(* from s_components (not from s_filt_components) and free it.             *)
ServiceStreamDestroy(s, pid) ==
  /\ pid \in PidsOf(s)
  /\ LET st == CHOOSE k \in DOMAIN components[s] : components[s][k].pid = pid
     IN lastEs' = IF lastEs[s] = components[s][st].id THEN [lastEs EXCEPT ![s] = 0] ELSE lastEs
  /\ components' = [components EXCEPT ![s] = SelectSeq(@, LAMBDA e : e.pid # pid)]
  /\ UNCHANGED <<status, refc, filtered, nextId, sil, linked, busy, lastStart>>

(* service_stream_find_: a hit caches the stream in s_last_es. *)
ServiceStreamFind(s, pid) ==
  /\ pid \in PidsOf(s)
  /\ lastEs' = [lastEs EXCEPT ![s] = components[s][CHOOSE k \in DOMAIN components[s] : components[s][k].pid = pid].id]
  /\ UNCHANGED <<status, refc, components, filtered, nextId, sil, linked, busy, lastStart>>

(* service_build_stream_start: one START component per entry of the      *)
(* filtered list f, in its order, with es_index (and the other fields,    *)
(* which no property reads) copied from the stream; an entry whose        *)
(* stream was freed is read after the free, and                          *)
(* what it yields is marked `freed`.                                      *)
BuildStreamStart(s, f) ==
  [k \in DOMAIN f |->
     IF f[k] \in Ids(s)
       THEN LET c == CHOOSE j \in DOMAIN components[s] : components[s][j].id = f[k]
            IN [id |-> f[k], freed |-> FALSE, idx |-> components[s][c].idx]
       ELSE [id |-> f[k], freed |-> TRUE, idx |-> 0]]

(* Bug variant: the START built from s_filt_components as it stands. *)
ServiceRestartNoRefilter(s) ==
  /\ status[s] = "RUNNING"
  /\ lastStart' = IF filtered[s] # <<>>
                    THEN [lastStart EXCEPT ![s] = BuildStreamStart(s, filtered[s])]
                    ELSE lastStart
  /\ UNCHANGED <<status, refc, components, filtered, lastEs, nextId, sil, linked, busy>>

(* service_restart after a composition change: the STOP(SOURCE_           *)
(* RECONFIGURED) to the pad (DvrThread's input), service_build_filter,    *)
(* and a START built from the new filtered list when it is not empty.     *)
ServiceRestart(s) ==
  /\ status[s] = "RUNNING"
  /\ LET f == FilterOf(components[s]) IN
     /\ filtered' = [filtered EXCEPT ![s] = f]
     /\ lastStart' = IF f # <<>> THEN [lastStart EXCEPT ![s] = BuildStreamStart(s, f)]
                                 ELSE lastStart
  /\ UNCHANGED <<status, refc, components, lastEs, nextId, sil, linked, busy>>

(* Another channel's subscriber takes or leaves the tuner of an idle service. *)
TunerBusy(s) ==
  /\ status[s] = "IDLE"
  /\ busy' = [busy EXCEPT ![s] = IF @ = 0 THEN BusyWeight ELSE 0]
  /\ UNCHANGED <<status, refc, components, filtered, lastEs, nextId, sil, linked, lastStart>>

-----------------------------------------------------------------------------
(* service_create0 for each service of the channel: IDLE, one reference,  *)
(* empty lists; no subscription yet.                                       *)
Init ==
  /\ status = [s \in Svcs |-> "IDLE"]
  /\ refc = [s \in Svcs |-> 1]
  /\ components = [s \in Svcs |-> <<>>]
  /\ filtered = [s \in Svcs |-> <<>>]
  /\ lastEs = [s \in Svcs |-> 0]
  /\ nextId = 0
  /\ sil = [u \in Subs |-> <<>>]
  /\ linked = [u \in Subs |-> NoSvc]
  /\ busy = [s \in Svcs |-> 0]
  /\ lastStart = [s \in Svcs |-> <<>>]

Next ==
  \/ \E u \in Subs : ServiceFindInstance(u) \/ Unsubscribe(u)
  \/ \E s \in Svcs :
       \/ ServiceDestroy(s) \/ ServiceRestart(s)
       \/ s \in LoadedSvcs /\ TunerBusy(s)
       \/ \E pid \in Pids :
            \/ ServiceStreamDestroy(s, pid) \/ ServiceStreamFind(s, pid)
            \/ \E kind \in Kinds : ServiceStreamCreate(s, pid, kind)

Spec == Init /\ [][Next]_vars

-----------------------------------------------------------------------------
SiEntry == [s : Svcs, prio : Int, weight : Int, error : {0, SM_CODE_TUNING_FAILED},
            mark : BOOLEAN]

TypeOK ==
  /\ status \in [Svcs -> {"IDLE", "RUNNING", "ZOMBIE"}]
  /\ refc \in [Svcs -> 0..(1 + Cardinality(Subs))]
  /\ \A s \in Svcs : \A k \in DOMAIN components[s] : components[s][k].kind \in Kinds
  /\ filtered \in [Svcs -> Seq(1..MaxIds)]
  /\ lastEs \in [Svcs -> 0..MaxIds]
  /\ nextId \in 0..MaxIds
  /\ sil \in [Subs -> Seq(SiEntry)]
  /\ linked \in [Subs -> Svcs \cup {NoSvc}]
  /\ \A s \in Svcs : \A k \in DOMAIN lastStart[s] :
       lastStart[s][k] \in [id : 1..MaxIds, freed : BOOLEAN, idx : Nat]

(* es_index is unique within a service (spec section 3), however streams *)
(* are created and destroyed by the input layer.                         *)
IndexUnique ==
  \A s \in Svcs : \A j, k \in DOMAIN components[s] :
    j # k => components[s][j].idx # components[s][k].idx

(* The stream cache s_last_es, set by service_stream_find_, only ever    *)
(* points at a stream of the service's list, across stream destruction   *)
(* and service_destroy.                                                  *)
LastEsValid == \A s \in Svcs : lastEs[s] # 0 => lastEs[s] \in Ids(s)

(* Every START that service_restart delivers describes streams that are  *)
(* alive when it is built, each once: service_stream_destroy leaves the  *)
(* freed stream in s_filt_components, and service_build_stream_start     *)
(* would read it; the rebuild of the filter just before keeps it out.    *)
StartListsLiveStreams ==
  [][\A s \in Svcs :
       lastStart'[s] # lastStart[s] =>
         /\ \A k \in DOMAIN lastStart'[s] : ~lastStart'[s][k].freed
         /\ \A j, k \in DOMAIN lastStart'[s] : j # k => lastStart'[s][j].idx # lastStart'[s][k].idx]_vars

(* A subscription is only linked to a RUNNING service (spec section 3: an *)
(* IDLE service has no subscriptions): a failed start links nothing, the  *)
(* last subscriber's removal stops the service, and service_destroy       *)
(* unlinks every subscription.                                            *)
SubscribersOnRunning ==
  \A u \in Subs : linked[u] # NoSvc => status[linked[u]] = "RUNNING"

(* The refcount is exact: a service holds one reference from the registry *)
(* until service_destroy and one per instance list that has an entry for  *)
(* it, each list has one entry per service, so no list refers to a freed  *)
(* service and a service is freed once nothing refers to it.              *)
InstanceRefsCounted ==
  /\ \A s \in Svcs : refc[s] = (IF status[s] # "ZOMBIE" THEN 1 ELSE 0) + Refs(s)
  /\ \A u \in Subs : \A j, k \in DOMAIN sil[u] : j # k => sil[u][j].s # sil[u][k].s

(* Spec section 3: stream indices are unique and monotonically assigned  *)
(* within a Service, so an index a subscriber has seen names one stream.  *)
(* No stream service_stream_create adds takes an index that the last     *)
(* START delivered for the service gave to another stream, one destroyed *)
(* since included.                                                       *)
IndexMonotonic ==
  [][\A s \in Svcs : \A k \in DOMAIN components'[s] :
       components'[s][k].id \notin Ids(s) =>
         \A j \in DOMAIN lastStart[s] : lastStart[s][j].idx # components'[s][k].idx]_vars

=============================================================================
