-------------------------- MODULE MC_ServiceStreams --------------------------
(* Two services of one channel with prio 1 and 2, two subscriptions of     *)
(* weight 100 and 300, a tuner holder of weight 200 in between; streams on *)
(* two PIDs, audio or CA, under one rule that ignores CA streams, so a     *)
(* service's filtered list can be empty while it has streams.              *)
EXTENDS ServiceStreams, TLC

CONSTANTS s1, s2, u1, u2, p1, p2, AUDIO, c1

MCChannelSvcs == <<s1, s2>>
MCSubs == {u1, u2}
MCPrio == (s1 :> 1) @@ (s2 :> 2)
MCWeight == (u1 :> 100) @@ (u2 :> 300)
MCStreamSvcs == {s1}
(* The foreign load goes on the prio-2 service: streams churn on s1 while *)
(* it is idle, and a load toggling there too doubles every stream state.  *)
MCLoadedSvcs == {s2}
MCPids == {p1, p2}
MCKinds == {[cls |-> AUDIO, lang |-> "eng", caids |-> <<>>],
            [cls |-> CA, lang |-> "", caids |-> <<c1>>]}
MCRules == <<[cls |-> CA, enabled |-> TRUE, lang |-> "", caid |-> ANY, sindex |-> 0,
              action |-> "IGNORE"]>>
MCClasses == <<AUDIO, CA>>

(* The PIDs are interchangeable: streams are created, found and destroyed *)
(* by PID, compared only for equality, and no rule names one.             *)
PidSymmetry == Permutations(MCPids)

=============================================================================
