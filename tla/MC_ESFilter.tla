----------------------------- MODULE MC_ESFilter -----------------------------
(* Streams: audio in two languages, a CA stream with one CAID and one with  *)
(* two, an OTHER stream.  Rules: enabled AUDIO rules over language and      *)
(* sindex, enabled CA rules with or without a CAID, each with every action; *)
(* a disabled rule; an OTHER rule, the class processed after CA.            *)
EXTENDS ESFilter, TLC

CONSTANTS AUDIO, OTHER_, c1, c2

MCClasses == <<AUDIO, CA, OTHER_>>

(* `pos` is es_position, read only by the persistence check below. *)
Templates ==
  {[cls |-> AUDIO, lang |-> "eng", caids |-> <<>>, pos |-> 2],
   [cls |-> AUDIO, lang |-> "fra", caids |-> <<>>, pos |-> 1],
   [cls |-> CA, lang |-> "", caids |-> <<c1>>, pos |-> 0],
   [cls |-> CA, lang |-> "", caids |-> <<c1, c2>>, pos |-> 1]}

OtherStream == [cls |-> OTHER_, lang |-> "", caids |-> <<>>, pos |-> 1]

Comps3 == UNION {[1..n -> Templates] : n \in 1..3}

MCCompChoices == Comps3 \cup {Append(s, OtherStream) : s \in Comps3}

AudioRules ==
  {[cls |-> AUDIO, enabled |-> TRUE, lang |-> l, caid |-> ANY, sindex |-> x, action |-> a] :
     <<l, x>> \in {<<"", 0>>, <<"eng", 0>>, <<"", 2>>}, a \in Actions}

CaRules ==
  {[cls |-> CA, enabled |-> TRUE, lang |-> "", caid |-> k, sindex |-> 0, action |-> a] :
     k \in {ANY, c2}, a \in Actions \ {"NONE"}}

Disabled == [cls |-> AUDIO, enabled |-> FALSE, lang |-> "", caid |-> ANY, sindex |-> 0,
             action |-> "EXCLUSIVE"]

OtherRule == [cls |-> OTHER_, enabled |-> TRUE, lang |-> "", caid |-> ANY, sindex |-> 0,
              action |-> "NONE"]

Rules2 == UNION {[1..n -> AudioRules \cup CaRules \cup {Disabled}] : n \in 0..2}

MCRuleChoices == Rules2 \cup {Append(s, OtherRule) : s \in Rules2}

-----------------------------------------------------------------------------
(* The CAID names a legacy record may hold, one per CAID. *)
NameCaid == ("Conax" :> c1) @@ ("Irdeto" :> c2)
NameOf(a) == CHOOSE n \in DOMAIN NameCaid : NameCaid[n] = a

(* The same service's stream list through its configuration record.       *)
SP == INSTANCE ServicePersistence
        WITH TypeTxt <- (AUDIO :> "AC3") @@ (CA :> "CA") @@ (OTHER_ :> "TELETEXT"),
             AudioTypes <- {AUDIO}, CaType <- CA, CaidOfName <- NameCaid

(* Both invariants read s_components only, which service_build_filter    *)
(* leaves alone: they look at each composition once, before the build,   *)
(* in the state without filter rules.                                     *)
PersistCase == ~built /\ rules = <<>>

(* The service's streams as the record sees them: PID n for the n-th    *)
(* stream (PIDs are unique, service_stream_create sees to it), an audio   *)
(* type for audio, and a provider id for CAID c2.                          *)
ProvOf == (c1 :> 0) @@ (c2 :> 7)
StreamOf(n) ==
  [pid |-> n, type |-> comps[n].cls, pos |-> comps[n].pos, lang |-> comps[n].lang,
   atype |-> IF comps[n].cls = AUDIO THEN 1 ELSE 0,
   caids |-> [i \in DOMAIN comps[n].caids |->
                [caid |-> comps[n].caids[i], prov |-> ProvOf[comps[n].caids[i]]]]]
Saved == [n \in DOMAIN comps |-> StreamOf(n)]

CaidSet(st) == {st.caids[i] : i \in DOMAIN st.caids}
SameStream(a, b) ==
  /\ [a EXCEPT !.caids = <<>>] = [b EXCEPT !.caids = <<>>]
  /\ CaidSet(a) = CaidSet(b)

(* service_load restores what service_save wrote: whatever order qsort   *)
(* leaves equal positions in, the reloaded list is the saved one sorted   *)
(* by es_position, every stream with its PID, type, position, language,   *)
(* audio type and its CAIDs with their provider ids.                      *)
LoadRestoresSaved ==
  PersistCase =>
  \A r \in SP!ServiceLoad(SP!ServiceSave(Saved)) :
    /\ Len(r) = Len(Saved)
    /\ {r[i].pid : i \in DOMAIN r} = DOMAIN Saved
    /\ \A i \in 1..(Len(r) - 1) : r[i].pos <= r[i + 1].pos
    /\ \A i \in DOMAIN r : SameStream(r[i], Saved[r[i].pid])

(* Spec section 8, round trip: for each CAID of the service's CA streams, *)
(* a record with the legacy keys caidnum/caproviderid, or with the CAID   *)
(* named by a "caid" string, loads to the same stream as one with a       *)
(* modern caidlist entry caid/providerid.                                 *)
LegacyCaidEquivalent ==
  PersistCase =>
  \A n \in DOMAIN comps : \A i \in DOMAIN comps[n].caids :
    LET a == comps[n].caids[i]
        base == ("pid" :> n) @@ ("type" :> "CA")
        legacy == base @@ ("caidnum" :> a) @@ ("caproviderid" :> ProvOf[a])
        named == base @@ ("caid" :> NameOf(a)) @@ ("caproviderid" :> ProvOf[a])
        modern == base @@ ("caidlist" :> <<("caid" :> a) @@ ("providerid" :> ProvOf[a])>>)
    IN /\ SP!ServiceLoad(<<legacy>>) = SP!ServiceLoad(<<modern>>)
       /\ SP!ServiceLoad(<<named>>) = SP!ServiceLoad(<<modern>>)

=============================================================================
