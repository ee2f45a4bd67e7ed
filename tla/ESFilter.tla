------------------------------ MODULE ESFilter ------------------------------
(***************************************************************************)
(* service_build_filter of src/src/service.c: from a service's component  *)
(* list s_components and the filter rules esfilters[class], build the     *)
(* filtered list s_filt_components, the per-stream es_filter bits and the *)
(* per-CAID `use` flags and `filter` bits.                                *)
(*                                                                         *)
(* A stream is a record [cls, lang, caids]: its class (the class mask      *)
(* test `mask & SCT_MASK(es_type)`), its language and its CAID list.       *)
(* A rule is [cls, enabled, lang, caid, sindex, action]; the narrowing by  *)
(* explicit type, service uuid, PID and provider id is the same `continue` *)
(* as the language and CAID narrowing and is left out.  Streams and CAIDs  *)
(* are referred to by position: stream i, CAID <<i, j>>.                   *)
(***************************************************************************)
EXTENDS Naturals, Sequences, FiniteSets

CONSTANTS
  Classes,   \* the filter classes in declared order (ESF_CLASS_VIDEO..LAST)
  CA,        \* ESF_CLASS_CA
  ANY        \* model value: a rule that does not narrow by CAID (esf_caid -1)

VARIABLES
  comps,     \* s_components
  rules,     \* the rules of all classes, each class's rules in declared order
  filt,      \* [out, f, use, cf]: s_filt_components, es_filter, ca->use, ca->filter
  built      \* service_build_filter has run on this composition

Bits == {"USED", "IGNORE"}
Actions == {"NONE", "IGNORE", "ONCE", "USE", "EXCLUSIVE", "EMPTY"}

Streams == DOMAIN comps

(* The CAIDs of stream i, LIST_FOREACH(ca, &st->es_caids, link). *)
Keys(i) == {<<i, j>> : j \in DOMAIN comps[i].caids}
AllKeys == UNION {Keys(i) : i \in Streams}

vars == <<comps, rules, filt, built>>

ClassSet == {Classes[n] : n \in DOMAIN Classes}
ClassIdx(c) == CHOOSE n \in DOMAIN Classes : Classes[n] = c

RulesOf(c) == SelectSeq(rules, LAMBDA r : r.cls = c)

SetUse(F, ks, v) == [F EXCEPT !.use = [k \in DOMAIN @ |-> IF k \in ks THEN v ELSE @[k]]]
SetCf(F, ks, b) == [F EXCEPT !.cf = [k \in DOMAIN @ |-> IF k \in ks THEN @[k] \cup {b} ELSE @[k]]]

(* Bug variant of ServiceBuildFilterAdd: no `only once` test. *)
ServiceBuildFilterAddTwice(F, i) ==
  [F EXCEPT !.f[i] = @ \cup {"USED"}, !.out = Append(@, i)]

(* service_build_filter_add: append a stream once, marking it USED. *)
ServiceBuildFilterAdd(F, i) ==
  IF "USED" \in F.f[i] THEN F
  ELSE [F EXCEPT !.f[i] = @ \cup {"USED"}, !.out = Append(@, i)]

(* Admit stream i and mark all its CAIDs used. *)
AdmitUse(F, i) == SetUse(ServiceBuildFilterAdd(F, i), Keys(i), TRUE)

-----------------------------------------------------------------------------
(* The narrowing checks of the rule loop.  For a CA rule naming a CAID,   *)
(* `ca` is the first CAID of the stream that has it, 0 when none does    *)
(* (the stream is then skipped); a rule without a CAID leaves ca NULL.    *)
MatchedCaid(r, i) ==
  LET js == {j \in DOMAIN comps[i].caids : comps[i].caids[j] = r.caid}
  IN IF js = {} THEN 0 ELSE CHOOSE j \in js : \A k \in js : j <= k

Candidate(r, c, i) ==
  /\ comps[i].cls = c
  /\ r.lang = "" \/ r.lang = comps[i].lang
  /\ c = CA /\ r.caid # ANY => MatchedCaid(r, i) # 0

(* The CAIDs an action on a CA stream applies to: the matched one, or all. *)
CaKeys(r, i) == IF r.caid = ANY THEN Keys(i) ELSE {<<i, MatchedCaid(r, i)>>}

(* The actions of a CA-class rule (ca_ignore, ONCE, USE, EXCLUSIVE, EMPTY). *)
CaIgnore(F, r, i) == [SetCf(F, CaKeys(r, i), "IGNORE") EXCEPT !.f[i] = @ \cup {"IGNORE"}]
CaUse(F, r, i) == ServiceBuildFilterAdd(SetCf(F, CaKeys(r, i), "USED"), i)

ActCa(F, r, i, o) ==
  CASE r.action = "IGNORE" -> CaIgnore(F, r, i)
    [] r.action = "ONCE" ->
         IF \E k \in Streams : comps[k].cls = CA /\ "USED" \in F.f[k]
           THEN CaIgnore(F, r, i) ELSE CaUse(F, r, i)
    [] r.action = "USE" -> CaUse(F, r, i)
    [] r.action = "EXCLUSIVE" ->
         IF r.caid = ANY THEN SetUse(F, Keys(i), TRUE)
         ELSE SetUse(SetUse(F, Keys(i), FALSE), CaKeys(r, i), TRUE)
    [] r.action = "EMPTY" ->
         IF Len(F.out) = o THEN ServiceBuildFilterAdd(F, i) ELSE F
    [] OTHER -> F

(* The actions of a rule of any other class. *)
ActAv(F, r, c, i, o) ==
  LET ignore == [F EXCEPT !.f[i] = @ \cup {"IGNORE"}] IN
  CASE r.action = "IGNORE" -> ignore
    [] r.action = "ONCE" ->
         IF \E k \in Streams \ {i} :
              /\ "USED" \in F.f[k]
              /\ comps[k].cls = c
              /\ r.lang = "" \/ comps[k].lang = comps[i].lang
           THEN ignore ELSE ServiceBuildFilterAdd(F, i)
    [] r.action = "USE" -> ServiceBuildFilterAdd(F, i)
    [] r.action = "EMPTY" ->
         IF Len(F.out) = o THEN ServiceBuildFilterAdd(F, i) ELSE F
    [] OTHER -> F

(* EXCLUSIVE, "forget previous work": drop what the class admitted since  *)
(* position o, clearing the `use` of their CAIDs, then admit this stream  *)
(* alone.                                                                 *)
Rewind(F, o) ==
  LET gone == {F.out[k] : k \in (o + 1)..Len(F.out)}
  IN [SetUse(F, UNION {Keys(g) : g \in gone}, FALSE) EXCEPT !.out = SubSeq(@, 1, o)]

(* Bug variant: the stream admitted without forgetting previous work. *)
ExclusiveAdmitNoRewind(F, i, o) ==
  ServiceBuildFilterAdd([F EXCEPT !.f[i] = {}], i)

ExclusiveAdmit(F, i, o) ==
  ServiceBuildFilterAdd([Rewind(F, o) EXCEPT !.f[i] = {}], i)

-----------------------------------------------------------------------------
(* The loop over the streams for one enabled rule r of class c; sidx is   *)
(* the rule's sindex counter.  Returns the state and the exclusive latch. *)
RECURSIVE StreamLoop(_, _, _, _, _, _)
StreamLoop(F, r, c, o, i, sidx) ==
  IF i > Len(comps) THEN [st |-> F, excl |-> FALSE]
  ELSE IF ~Candidate(r, c, i) THEN StreamLoop(F, r, c, o, i + 1, sidx)
  ELSE IF r.sindex # 0 /\ r.sindex # sidx + 1
    THEN StreamLoop(F, r, c, o, i + 1, sidx + 1)
  ELSE LET G == IF c = CA THEN ActCa(F, r, i, o) ELSE ActAv(F, r, c, i, o)
       IN IF r.action = "EXCLUSIVE"
            THEN [st |-> ExclusiveAdmit(G, i, o), excl |-> TRUE]
            ELSE StreamLoop(G, r, c, o, i + 1, sidx + 1)

(* The loop over the rules of class c; disabled rules are skipped. *)
RECURSIVE RuleLoop(_, _, _, _)
RuleLoop(F, rs, c, o) ==
  IF rs = <<>> THEN [st |-> F, excl |-> FALSE]
  ELSE IF ~Head(rs).enabled THEN RuleLoop(F, Tail(rs), c, o)
  ELSE LET R == StreamLoop(F, Head(rs), c, o, 1, 0)
       IN IF R.excl THEN R ELSE RuleLoop(R.st, Tail(rs), c, o)

(* After the rules of a class without EXCLUSIVE: admit each stream of the *)
(* class marked neither USED nor IGNORE with all its CAIDs used; for any  *)
(* other stream, use the CAIDs a rule marked USED.                        *)
(* Bug variant: the fallback tests USED only, admitting ignored streams. *)
FallbackAdmitsNoIgnore(F, c, i) == comps[i].cls = c /\ "USED" \notin F.f[i]

(* Bug variant: the fallback without the class mask test. *)
FallbackAdmitsNoMask(F, c, i) == F.f[i] \cap Bits = {}

FallbackAdmits(F, c, i) == comps[i].cls = c /\ F.f[i] \cap Bits = {}

RECURSIVE FallbackLoop(_, _, _)
FallbackLoop(F, c, i) ==
  IF i > Len(comps) THEN F
  ELSE FallbackLoop(
         IF FallbackAdmits(F, c, i)
           THEN AdmitUse(F, i)
           ELSE SetUse(F, {k \in Keys(i) : "USED" \in F.cf[k]}, TRUE),
         c, i + 1)

(* A class without rules admits every stream of the class. *)
RECURSIVE AdmitClass(_, _, _)
AdmitClass(F, c, i) ==
  IF i > Len(comps) THEN F
  ELSE AdmitClass(IF comps[i].cls = c THEN AdmitUse(F, i) ELSE F, c, i + 1)

ClassStep(F, c) ==
  LET o == Len(F.out)
      R == RuleLoop(F, RulesOf(c), c, o)
  IN IF RulesOf(c) = <<>> THEN AdmitClass(F, c, 1)
     ELSE IF R.excl THEN R.st
     ELSE FallbackLoop(R.st, c, 1)

RECURSIVE ClassLoop(_, _)
ClassLoop(F, n) ==
  IF n > Len(Classes) THEN F ELSE ClassLoop(ClassStep(F, Classes[n]), n + 1)

(* service_build_filter.  With no rule in any class the full list is the  *)
(* filtered list and every CAID is used (es_filter and ca->filter are     *)
(* left as they were); otherwise reset the bits and run the classes.      *)
BuildFilter(F) ==
  IF rules = <<>>
    THEN [SetUse(F, AllKeys, TRUE) EXCEPT !.out = [k \in 1..Len(comps) |-> k]]
    ELSE ClassLoop([out |-> <<>>, f |-> [i \in Streams |-> {}],
                    use |-> [k \in AllKeys |-> FALSE],
                    cf |-> [k \in AllKeys |-> {}]], 1)

(* The filter state of streams no pass has seen: es_filter 0 (calloc),  *)
(* each CAID use 1 and filter 0 (add_caid), the filtered list empty.    *)
Fresh == [out |-> <<>>, f |-> [i \in Streams |-> {}],
          use |-> [k \in AllKeys |-> TRUE], cf |-> [k \in AllKeys |-> {}]]

-----------------------------------------------------------------------------
CONSTANTS
  CompChoices,   \* the compositions s_components may have
  RuleChoices    \* the rule lists esfilters[] may hold

(* A new composition: every stream created by service_stream_create and *)
(* add_caid, es_filter 0 (calloc), every CAID use 1, filter 0, and an   *)
(* empty filtered list (TAILQ_INIT in service_create0).                 *)
Init ==
  /\ comps \in CompChoices
  /\ rules \in RuleChoices
  /\ filt = Fresh
  /\ built = FALSE

(* service_build_filter, called from service_start, service_restart and *)
(* service_stream_create with the stream mutex held.                    *)
ServiceBuildFilter ==
  /\ filt' = BuildFilter(filt)
  /\ built' = TRUE
  /\ UNCHANGED <<comps, rules>>

Next == ServiceBuildFilter

Spec == Init /\ [][Next]_vars

-----------------------------------------------------------------------------
(* The reference semantics of the rules, stated over the inputs alone.   *)
(* CandSeq(r, c): the streams rule r of class c gets past its narrowing  *)
(* checks, in component order; Hits(r, c, i): rule r acts on stream i,   *)
(* its sindex (1-based among the candidates, 0 = any) included.          *)
CandSeq(r, c) == SelectSeq([k \in 1..Len(comps) |-> k], LAMBDA k : Candidate(r, c, k))

Hits(r, c, i) ==
  /\ Candidate(r, c, i)
  /\ \/ r.sindex = 0
     \/ r.sindex <= Len(CandSeq(r, c)) /\ CandSeq(r, c)[r.sindex] = i

ActiveRules(c, acts) ==
  {RulesOf(c)[n] : n \in {n \in DOMAIN RulesOf(c) :
     RulesOf(c)[n].enabled /\ RulesOf(c)[n].action \in acts}}

(* The position of the first enabled EXCLUSIVE rule of c that hits a stream. *)
ExclRules(c) ==
  {n \in DOMAIN RulesOf(c) :
     LET r == RulesOf(c)[n] IN
     r.enabled /\ r.action = "EXCLUSIVE" /\ \E i \in Streams : Hits(r, c, i)}

FirstExcl(c) == RulesOf(c)[CHOOSE n \in ExclRules(c) : \A m \in ExclRules(c) : n <= m]

Winner(c) ==
  LET r == FirstExcl(c)
  IN CHOOSE i \in Streams : Hits(r, c, i) /\ \A k \in 1..(i - 1) : ~Hits(r, c, k)

InOut(i) == \E p \in DOMAIN filt.out : filt.out[p] = i
ClassPart(c) == SelectSeq(filt.out, LAMBDA k : comps[k].cls = c)

TypeOK ==
  /\ built \in BOOLEAN
  /\ filt.out \in Seq(Streams) /\ Len(filt.out) <= Len(comps)
  /\ filt.f \in [Streams -> SUBSET Bits]
  /\ filt.use \in [AllKeys -> BOOLEAN]
  /\ filt.cf \in [AllKeys -> SUBSET Bits]

(* The filtered list is a set of streams in class order: service_build_  *)
(* filter_add admits a stream at most once, and each class's pass only   *)
(* admits streams of that class, so class by class the list is ordered. *)
FilteredListWellFormed ==
  built /\ rules # <<>> =>
    \A p, q \in DOMAIN filt.out :
      p < q => /\ filt.out[p] # filt.out[q]
               /\ ClassIdx(comps[filt.out[p]].cls) <= ClassIdx(comps[filt.out[q]].cls)

(* Exclusivity (spec section 8): when an enabled EXCLUSIVE rule of class *)
(* c hits a stream, the class's part of the filtered list is exactly the *)
(* stream the first such rule hits first, whatever earlier USE, ONCE or  *)
(* EMPTY rules of the class admitted before the rewind.                  *)
ExclusiveAlone ==
  built /\ rules # <<>> =>
    \A c \in ClassSet : ExclRules(c) # {} => ClassPart(c) = <<Winner(c)>>

(* Without EXCLUSIVE, the fallback after the rules of class c decides    *)
(* exactly what the rules left open: a stream of c is left out only when *)
(* an IGNORE or ONCE rule hit it, and a stream only IGNORE rules hit is  *)
(* left out.                                                             *)
FallbackExact ==
  built =>
    \A c \in ClassSet : ExclRules(c) = {} =>
      \A i \in Streams : comps[i].cls = c =>
        /\ ~InOut(i) => \E r \in ActiveRules(c, {"IGNORE", "ONCE"}) : Hits(r, c, i)
        /\ (\E r \in ActiveRules(c, {"IGNORE"}) : Hits(r, c, i))
           /\ ~(\E r \in ActiveRules(c, {"USE", "ONCE", "EMPTY"}) : Hits(r, c, i))
           => ~InOut(i)

(* The CAID `use` flags follow the output (spec section 4.1, EXCLUSIVE,  *)
(* and scenario 4): a CAID is in use only if its stream is forwarded,    *)
(* and the stream a CA EXCLUSIVE rule naming a CAID admits has that CAID *)
(* in use.                                                               *)
CaidUseFollowsOutput ==
  built /\ rules # <<>> =>
    /\ \A k \in AllKeys : filt.use[k] => InOut(k[1])
    /\ ExclRules(CA) # {} /\ FirstExcl(CA).caid # ANY =>
         filt.use[<<Winner(CA), MatchedCaid(FirstExcl(CA), Winner(CA))>>]

=============================================================================
