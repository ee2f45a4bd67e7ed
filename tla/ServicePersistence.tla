-------------------------- MODULE ServicePersistence --------------------------
(***************************************************************************)
(* The stream list of a service's configuration record (src/src/service.c,*)
(* service_save and service_load with load_caid, load_legacy_caid,        *)
(* add_caid and sort_elementary_streams), as pure operators.              *)
(* A stream is [pid, type, pos, lang, atype, caids] (es_pid, es_type,     *)
(* es_position, es_lang, es_audio_type, es_caids in list order, each CAID *)
(* [caid, prov]).  An htsmsg map is a function from the keys present to   *)
(* their values; a list is a sequence.  Fields no property reads (PCR and *)
(* PMT PIDs, the subtitle and video fields) are left out.                 *)
(***************************************************************************)
EXTENDS Integers, Sequences, FiniteSets, TLC

CONSTANTS
  TypeTxt,      \* streaming_component_type2txt, on the types a record holds
  AudioTypes,   \* the types SCT_ISAUDIO holds for
  CaType,       \* SCT_CA
  CaidOfName    \* descrambler_name2caid, on the CAID names a record holds

Types == DOMAIN TypeTxt

(* htsmsg map with the given keys: Entry(ks, f) restricted to ks. *)
Entry(ks, f) == [k \in ks |-> f[k]]

-----------------------------------------------------------------------------
(* Bug variant: the provider id not written. *)
CaidEntryNoProvider(c) == Entry({"caid"}, "caid" :> c.caid)

(* service_save: one map per stream, in s_components order. *)
CaidEntry(c) ==
  Entry({"caid"} \cup (IF c.prov # 0 THEN {"providerid"} ELSE {}),
        ("caid" :> c.caid) @@ ("providerid" :> c.prov))

SaveStream(st) ==
  Entry({"pid", "type", "position"}
          \cup (IF st.lang # "" THEN {"language"} ELSE {})
          \cup (IF st.type \in AudioTypes THEN {"audio_type"} ELSE {})
          \cup (IF st.type = CaType THEN {"caidlist"} ELSE {}),
        ("pid" :> st.pid) @@ ("type" :> TypeTxt[st.type]) @@ ("position" :> st.pos)
          @@ ("language" :> st.lang) @@ ("audio_type" :> st.atype)
          @@ ("caidlist" :> [i \in DOMAIN st.caids |-> CaidEntry(st.caids[i])]))

ServiceSave(cs) == [n \in DOMAIN cs |-> SaveStream(cs[n])]

-----------------------------------------------------------------------------
(* add_caid: LIST_INSERT_HEAD, so the CAID goes first. *)
AddCaid(st, a, b) == [st EXCEPT !.caids = <<[caid |-> a, prov |-> b]>> \o @]

(* Bug variant: caproviderid not read. *)
LoadLegacyCaidNoProvider(c, st) ==
  IF "caidnum" \in DOMAIN c THEN AddCaid(st, c["caidnum"], 0) ELSE st

(* load_legacy_caid: caidnum, or else a CAID named by the "caid" string, *)
(* with caproviderid (0 when absent); a record with neither adds nothing. *)
LoadLegacyCaid(c, st) ==
  LET b == IF "caproviderid" \in DOMAIN c THEN c["caproviderid"] ELSE 0
  IN CASE "caidnum" \in DOMAIN c -> AddCaid(st, c["caidnum"], b)
       [] "caid" \in DOMAIN c    -> AddCaid(st, CaidOfName[c["caid"]], b)
       [] OTHER                 -> st

(* load_caid: every entry of caidlist that has a caid, in list order. *)
RECURSIVE LoadCaidList(_, _, _)
LoadCaidList(v, i, st) ==
  IF i > Len(v) THEN st
  ELSE LoadCaidList(v, i + 1,
         IF "caid" \in DOMAIN v[i]
           THEN AddCaid(st, v[i]["caid"],
                        IF "providerid" \in DOMAIN v[i] THEN v[i]["providerid"] ELSE 0)
           ELSE st)

LoadCaid(c, st) == IF "caidlist" \in DOMAIN c THEN LoadCaidList(c["caidlist"], 1, st) ELSE st

(* service_stream_create: the stream with that PID if there is one, else *)
(* a new one appended; returns the list and the position in it.          *)
StreamCreate(L, pid, type) ==
  LET ks == {k \in DOMAIN L : L[k].pid = pid}
  IN IF ks # {} THEN <<L, CHOOSE k \in ks : TRUE>>
     ELSE <<Append(L, [pid |-> pid, type |-> type, pos |-> 0, lang |-> "",
                       atype |-> 0, caids |-> <<>>]), Len(L) + 1>>

(* One entry of the "stream" list: skipped without a known type or a pid; *)
(* otherwise language, audio_type, position and the CAIDs are applied to  *)
(* the stream service_stream_create returned.                             *)
LoadStream(L, c) ==
  IF "type" \notin DOMAIN c \/ "pid" \notin DOMAIN c
       \/ ~\E t \in Types : TypeTxt[t] = c["type"]
    THEN L
  ELSE
    LET type == CHOOSE t \in Types : TypeTxt[t] = c["type"]
        r == StreamCreate(L, c["pid"], type)
        st0 == r[1][r[2]]
        st1 == IF "language" \in DOMAIN c THEN [st0 EXCEPT !.lang = c["language"]] ELSE st0
        st2 == IF type \in AudioTypes /\ "audio_type" \in DOMAIN c
                 THEN [st1 EXCEPT !.atype = c["audio_type"]] ELSE st1
        st3 == IF "position" \in DOMAIN c THEN [st2 EXCEPT !.pos = c["position"]] ELSE st2
    IN [r[1] EXCEPT ![r[2]] = LoadCaid(c, LoadLegacyCaid(c, st3))]

RECURSIVE LoadStreams(_, _, _)
LoadStreams(m, i, L) == IF i > Len(m) THEN L ELSE LoadStreams(m, i + 1, LoadStream(L, m[i]))

(* sort_elementary_streams: qsort by es_position; qsort leaves the order *)
(* of equal positions unspecified, so every such order is an outcome.    *)
SortElementaryStreams(L) ==
  {[i \in DOMAIN L |-> L[p[i]]] :
     p \in {p \in Permutations(DOMAIN L) :
              \A i, j \in DOMAIN L : i < j => L[p[i]].pos <= L[p[j]].pos}}

(* service_load into a service without streams: the set of lists it can  *)
(* produce.                                                              *)
ServiceLoad(m) == SortElementaryStreams(LoadStreams(m, 1, <<>>))

=============================================================================
