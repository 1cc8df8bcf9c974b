---------------------------- MODULE GoliothSdkProofs ----------------------------
(***************************************************************************)
(* What the services promise, for any number of firmware versions, units   *)
(* of an image, settings and faults.  Types hold for every cloud.  The     *)
(* rest rests on what the cloud refrains from, each as an assumption of    *)
(* the theorem that needs it: data goes to the service that its path names *)
(* if IDs of streams that were cut off are not used again; images are whole *)
(* if, moreover, no manifest comes between the blocks of a component;      *)
(* settings are applied if they come in one block.                         *)
(***************************************************************************)
EXTENDS GoliothSdk, SequenceFacts

LOCAL INSTANCE SequencesExt

-----------------------------------------------------------------------------
(* The services and their paths *)

LEMMA ServiceFacts ==
    /\ Services[1] = "ota_component" /\ Services[2] = "ota_manifest" /\ Services[3] = "settings"
    /\ DOMAIN Services = 1..3 /\ Len(Services) = 3
    /\ \A s \in Service : \E i \in 1..3 : Services[i] = s
  BY DEF Services, Service

(* The place of the first of some services in the section *)
IsFirst(i, found) == Services[i] \in found /\ \A j \in 1..(i - 1) : Services[j] \notin found

LEMMA FirstExists ==
    ASSUME NEW found \in SUBSET Service, found # {}
    PROVE  \E i \in DOMAIN Services : IsFirst(i, found)
<1>1. CASE "ota_component" \in found
  <2>1. IsFirst(1, found)
    BY <1>1, ServiceFacts DEF IsFirst
  <2> QED
    BY <2>1, ServiceFacts
<1>2. CASE "ota_component" \notin found /\ "ota_manifest" \in found
  <2>1. \A j \in 1..(2 - 1) : j = 1
    OBVIOUS
  <2>2. IsFirst(2, found)
    BY <1>2, <2>1, ServiceFacts DEF IsFirst
  <2> QED
    BY <2>2, ServiceFacts
<1>3. CASE "ota_component" \notin found /\ "ota_manifest" \notin found
  <2>1. "settings" \in found
    BY <1>3 DEF Service
  <2>2. \A j \in 1..(3 - 1) : j = 1 \/ j = 2
    OBVIOUS
  <2>3. IsFirst(3, found)
    BY <1>3, <2>1, <2>2, ServiceFacts DEF IsFirst
  <2> QED
    BY <2>3, ServiceFacts
<1> QED
  BY <1>1, <1>2, <1>3

(* FirstService finds one of them if there is one. *)
LEMMA FirstServiceIn ==
    ASSUME NEW found \in SUBSET Service
    PROVE  /\ found = {} => FirstService(found) = Nil
           /\ found # {} => FirstService(found) \in found
           /\ FirstService(found) \in found \union {Nil}
<1>1. ASSUME found # {} PROVE FirstService(found) \in found
  <2> DEFINE i == CHOOSE i \in DOMAIN Services : IsFirst(i, found)
  <2>1. i \in DOMAIN Services /\ IsFirst(i, found)
    BY <1>1, FirstExists
  <2>2. FirstService(found) = Services[i]
    BY <1>1, Zenon DEF FirstService, IsFirst
  <2> HIDE DEF i
  <2> QED
    BY <2>1, <2>2, Zenon DEF IsFirst
<1>2. found = {} => FirstService(found) = Nil
  BY Zenon DEF FirstService
<1> QED
  BY <1>1, <1>2

(* The service that the path of a kind of streams or entries names, or Nil *)
Target(kind) ==
    CASE kind = "component" -> "ota_component"
      [] kind = "manifest"  -> "ota_manifest"
      [] kind = "settings"  -> "settings"
      [] kind = "unknown"   -> Nil

Leads(s, p) == Len(s) <= Len(p) /\ \A i \in 1..Len(s) : s[i] = p[i]

LEMMA PrefixAt ==
    ASSUME NEW S, NEW s \in Seq(S), NEW p \in Seq(S)
    PROVE  IsPrefix(s, p) <=> Leads(s, p)
<1> DEFINE n == Len(s)
           a == SubSeq(s, 1, n)
           b == SubSeq(p, 1, n)
<1>1. /\ n \in Nat /\ Len(p) \in Nat /\ \A i \in 1..n : s[i] \in S
      /\ \A i \in 1..Len(p) : p[i] \in S
  BY LenProperties, ElementOfSeq
<1>2. CASE n <= Len(p)
  <2>1. 1 \in Int /\ n \in Int /\ \A i \in 1..n : p[i] \in S
    BY <1>1, <1>2
  <2>2. /\ a \in Seq(S) /\ Len(a) = IF 1 <= n THEN n - 1 + 1 ELSE 0
        /\ \A i \in 1..(n - 1 + 1) : a[i] = s[1 + i - 1]
    BY <1>1, <2>1, SubSeqProperties
  <2>3. /\ b \in Seq(S) /\ Len(b) = IF 1 <= n THEN n - 1 + 1 ELSE 0
        /\ \A i \in 1..(n - 1 + 1) : b[i] = p[1 + i - 1]
    BY <2>1, SubSeqProperties
  <2> HIDE DEF n, a, b
  <2>4. /\ Len(a) = n /\ Len(b) = n
        /\ \A i \in 1..n : a[i] = s[i] /\ b[i] = p[i]
    BY <1>1, <2>2, <2>3
  <2>5. a = b <=> \A i \in 1..n : s[i] = p[i]
    <3>1. ASSUME \A i \in 1..n : s[i] = p[i] PROVE a = b
      BY <2>2, <2>3, <2>4, <3>1, SeqEqual
    <3> QED
      BY <2>4, <3>1
  <2> QED
    BY <1>2, <2>5, Zenon DEF IsPrefix, Leads, n, a, b
<1>3. CASE ~(n <= Len(p))
  BY <1>3, Zenon DEF IsPrefix, Leads
<1> QED
  BY <1>2, <1>3

Segments == {".u", "c", "desired", "main@", ".c", ".d"}

LEMMA ServiceForPath ==
    ASSUME NEW kind \in Kinds \union {"manifest"}
    PROVE  ServiceFor[Path(kind)] = Target(kind)
<1> DEFINE found(p) == {s \in Service : IsPrefix(ServicePath[s], p)}
           c == <<".u", "c">>
           d == <<".u", "desired">>
           e == <<".c">>
<1>1. ServiceFor[Path(kind)] = FirstService(found(Path(kind)))
  BY Zenon DEF ServiceFor
<1>2. /\ ServicePath["ota_component"] = c /\ ServicePath["ota_manifest"] = d
      /\ ServicePath["settings"] = e
  BY DEF ServicePath, Service
<1>3. /\ c \in Seq(Segments) /\ Len(c) = 2 /\ c[1] = ".u" /\ c[2] = "c"
      /\ d \in Seq(Segments) /\ Len(d) = 2 /\ d[1] = ".u" /\ d[2] = "desired"
      /\ e \in Seq(Segments) /\ Len(e) = 1 /\ e[1] = ".c"
  BY DEF Segments
<1> HIDE DEF c, d, e
<1>4. ASSUME NEW p \in Seq(Segments)
      PROVE  /\ "ota_component" \in found(p) <=> 2 <= Len(p) /\ p[1] = ".u" /\ p[2] = "c"
             /\ "ota_manifest" \in found(p) <=> 2 <= Len(p) /\ p[1] = ".u" /\ p[2] = "desired"
             /\ "settings" \in found(p) <=> 1 <= Len(p) /\ p[1] = ".c"
  <2>1. 1..1 = {1} /\ 1..2 = {1, 2}
    OBVIOUS
  <2>2. IsPrefix(c, p) <=> 2 <= Len(p) /\ ".u" = p[1] /\ "c" = p[2]
    <3>1. c \in Seq(Segments)
      BY <1>3, Zenon
    <3>2. IsPrefix(c, p) <=> Leads(c, p)
      BY <3>1, PrefixAt, Zenon
    <3> QED
      BY <1>3, <2>1, <3>2 DEF Leads
  <2>3. IsPrefix(d, p) <=> 2 <= Len(p) /\ ".u" = p[1] /\ "desired" = p[2]
    <3>1. d \in Seq(Segments)
      BY <1>3, Zenon
    <3>2. IsPrefix(d, p) <=> Leads(d, p)
      BY <3>1, PrefixAt, Zenon
    <3> QED
      BY <1>3, <2>1, <3>2 DEF Leads
  <2>4. IsPrefix(e, p) <=> 1 <= Len(p) /\ ".c" = p[1]
    <3>1. e \in Seq(Segments)
      BY <1>3, Zenon
    <3>2. IsPrefix(e, p) <=> Leads(e, p)
      BY <3>1, PrefixAt, Zenon
    <3> QED
      BY <1>3, <2>1, <3>2 DEF Leads
  <2> QED
    BY <1>2, <2>2, <2>3, <2>4 DEF Service
<1>5. \A p : found(p) \subseteq Service
  OBVIOUS
<1> HIDE DEF found
<1>6. CASE kind = "component"
  <2> DEFINE p == <<".u", "c", "main@">>
  <2>1. p \in Seq(Segments) /\ Len(p) = 3 /\ p[1] = ".u" /\ p[2] = "c" /\ Path(kind) = p
    BY <1>6 DEF Path, Segments
  <2> HIDE DEF p
  <2>2. found(p) = {"ota_component"}
    BY <1>4, <1>5, <2>1 DEF Service
  <2> QED
    BY <1>1, <1>6, <2>1, <2>2, FirstServiceIn DEF Target, Service
<1>7. CASE kind = "manifest"
  <2> DEFINE p == <<".u", "desired">>
  <2>1. p \in Seq(Segments) /\ Len(p) = 2 /\ p[1] = ".u" /\ p[2] = "desired" /\ Path(kind) = p
    BY <1>7 DEF Path, Segments
  <2> HIDE DEF p
  <2>2. found(p) = {"ota_manifest"}
    BY <1>4, <1>5, <2>1 DEF Service
  <2> QED
    BY <1>1, <1>7, <2>1, <2>2, FirstServiceIn DEF Target, Service
<1>8. CASE kind = "settings"
  <2> DEFINE p == <<".c">>
  <2>1. p \in Seq(Segments) /\ Len(p) = 1 /\ p[1] = ".c" /\ Path(kind) = p
    BY <1>8 DEF Path, Segments
  <2> HIDE DEF p
  <2>2. found(p) = {"settings"}
    BY <1>4, <1>5, <2>1 DEF Service
  <2> QED
    BY <1>1, <1>8, <2>1, <2>2, FirstServiceIn DEF Target, Service
<1>9. CASE kind = "unknown"
  <2> DEFINE p == <<".d">>
  <2>1. p \in Seq(Segments) /\ Len(p) = 1 /\ p[1] = ".d" /\ Path(kind) = p
    BY <1>9 DEF Path, Segments
  <2> HIDE DEF p
  <2>2. found(p) = {}
    BY <1>4, <1>5, <2>1 DEF Service
  <2>3. Target(kind) = Nil
    BY <1>9 DEF Target
  <2> QED
    BY <1>1, <2>1, <2>2, <2>3, FirstServiceIn
<1> QED
  BY <1>6, <1>7, <1>8, <1>9 DEF Kinds
-----------------------------------------------------------------------------
(* Types *)

OtaStates == {"IDLE", "DOWNLOADING", "UPDATING"}
SettingsVersions == 1..Len(SettingsSent)

CloudTypes ==
    /\ desired \in [firmware : 1..Versions, settings : SettingsVersions]
    /\ (reported # Nil /\ reported.ota.state = "DOWNLOADING") => reported.ota.target \in 1..Versions
    /\ streams \in [Kinds -> Streams \union {Nil}]
    /\ streams["component"] # Nil => streams["component"].v \in 1..Versions

Downloads == [id : (0..31) \union {Nil}, version : (1..Versions) \union {Nil}, offset : Nat]

NodeTypes ==
    /\ last_seen \in Service \union {Nil}
    /\ DOMAIN downlink_id = Service /\ \A s \in Service : downlink_id[s] \in (0..31) \union {Nil}
    /\ downlink_id["ota_manifest"] = Nil
    /\ component_download \in Downloads
    /\ ota \in [target : 1..Versions, state : OtaStates]
    /\ settings_version \in SettingsVersions \union {Nil}
    /\ DOMAIN applied = DOMAIN Handlers
    /\ version \in 1..Versions
    /\ misrouted \in BOOLEAN /\ flash_context \in BOOLEAN

SdkTypes == NodeTypes /\ CloudTypes

-----------------------------------------------------------------------------
(* What the cloud sends *)

Setting(v, i) ==
    [t |-> "setting", v |-> v, key |-> SettingsSent[v][i].key, type |-> SettingsSent[v][i].type]

LEMMA SettingsDomain == DOMAIN SettingsSent = SettingsVersions /\ Len(SettingsSent) \in Nat \ {0}
<1> DEFINE R == Seq([key : STRING, type : STRING])
<1>1. SettingsSent \in Seq(R) /\ SettingsSent # <<>>
  BY SdkAssumption
<1> HIDE DEF R
<1> QED
  BY <1>1, LenProperties, EmptySeq DEF SettingsVersions

LEMMA SettingsSentIs ==
    ASSUME NEW v \in SettingsVersions
    PROVE  /\ Len(SettingsSent[v]) \in Nat /\ DOMAIN SettingsSent[v] = 1..Len(SettingsSent[v])
           /\ SettingsSent[v] = <<>> <=> Len(SettingsSent[v]) = 0
<1> DEFINE R == [key : STRING, type : STRING]
<1>1. SettingsSent \in Seq(Seq(R))
  BY SdkAssumption
<1> HIDE DEF R
<1>2. SettingsSent[v] \in Seq(R)
  BY <1>1, ElementOfSeq DEF SettingsVersions
<1> QED
  BY <1>2, LenProperties, EmptySeq

(* m is the message of settings v, which are n *)
IsMessage(m, v, n) ==
    /\ n \in Nat /\ Len(m) \in Nat /\ Len(m) >= 2 /\ \E S : m \in Seq(S)
    /\ m[1] = [t |-> "map"] /\ m[2] = [t |-> "version", v |-> v]
    /\ n = 0 => Len(m) = 3 /\ m[3] = [t |-> "nil"]
    /\ n # 0 => Len(m) = n + 2
    /\ \A i \in 1..n : m[i + 2] = Setting(v, i)

LEMMA MessageIs ==
    ASSUME NEW v \in SettingsVersions, NEW m, m = SettingsMessage(v), NEW n,
           n = Len(SettingsSent[v])
    PROVE  IsMessage(m, v, n)
<1> DEFINE map == [t |-> "map"]
           vsn == [t |-> "version", v |-> v]
           nil == [t |-> "nil"]
           set == [i \in 1..n |-> Setting(v, i)]
           h == <<map, vsn>>
           r == IF n = 0 THEN <<nil>> ELSE set
           S == {map, vsn, nil} \union {Setting(v, i) : i \in 1..n}
<1>1. n \in Nat /\ (SettingsSent[v] = <<>> <=> n = 0)
  BY SettingsSentIs
<1>2. m = h \o r
  BY <1>1, Zenon DEF SettingsMessage, Setting
<1> HIDE DEF map, vsn, nil
<1>3. h \in Seq(S) /\ Len(h) = 2 /\ h[1] = map /\ h[2] = vsn
  OBVIOUS
<1>4. /\ r \in Seq(S)
      /\ n = 0 => Len(r) = 1 /\ r[1] = nil
      /\ n # 0 => Len(r) = n
      /\ \A i \in 1..n : r[i] = Setting(v, i)
  <2>1. CASE n = 0
    BY <2>1
  <2>2. CASE n # 0
    <3>1. set \in Seq(S) /\ Len(set) = n /\ \A i \in 1..n : set[i] = Setting(v, i)
      BY <1>1
    <3> HIDE DEF set, S
    <3> QED
      BY <2>2, <3>1
  <2> QED
    BY <2>1, <2>2
<1> HIDE DEF h, r, S
<1>5. /\ m \in Seq(S) /\ Len(m) = Len(h) + Len(r)
      /\ \A i \in 1..Len(h) + Len(r) : m[i] = IF i <= Len(h) THEN h[i] ELSE r[i - Len(h)]
  <2>1. h \in Seq(S) /\ r \in Seq(S)
    BY <1>3, <1>4
  <2>2. /\ h \o r \in Seq(S) /\ Len(h \o r) = Len(h) + Len(r)
        /\ \A i \in 1..Len(h) + Len(r) : (h \o r)[i] = IF i <= Len(h) THEN h[i] ELSE r[i - Len(h)]
    BY <2>1, ConcatProperties
  <2> QED
    BY <1>2, <2>2, Zenon
<1>6. Len(r) \in Nat /\ Len(m) = 2 + Len(r) /\ Len(r) >= 1
  BY <1>1, <1>3, <1>4, <1>5, LenProperties
<1>7. /\ m[1] = map /\ m[2] = vsn
      /\ \A i \in 1..Len(r) : m[i + 2] = r[i]
  <2>1. m[1] = map /\ m[2] = vsn
    BY <1>3, <1>5, <1>6
  <2>2. ASSUME NEW i \in 1..Len(r) PROVE m[i + 2] = r[i]
    <3>1. i + 2 \in 1..2 + Len(r) /\ ~(i + 2 <= 2) /\ (i + 2) - 2 = i
      BY <1>6
    <3> QED
      BY <1>3, <1>5, <3>1
  <2> QED
    BY <2>1, <2>2
<1>8. \A i \in 1..n : m[i + 2] = Setting(v, i)
  BY <1>1, <1>4, <1>7
<1>9. n = 0 => Len(m) = 3 /\ m[3] = nil
  <2> SUFFICES ASSUME n = 0 PROVE Len(m) = 3 /\ m[3] = nil
    OBVIOUS
  <2>1. Len(r) = 1 /\ r[1] = nil /\ 1 \in 1..Len(r) /\ 1 + 2 = 3
    BY <1>4
  <2> QED
    BY <1>6, <1>7, <2>1
<1>10. n # 0 => Len(m) = n + 2
  BY <1>1, <1>4, <1>6
<1>11. m[1] = [t |-> "map"] /\ m[2] = [t |-> "version", v |-> v]
  BY <1>7, Zenon DEF map, vsn
<1>12. n = 0 => Len(m) = 3 /\ m[3] = [t |-> "nil"]
  BY <1>9, Zenon DEF nil
<1>13. Len(m) \in Nat /\ Len(m) >= 2
  BY <1>6
<1> QED
  BY <1>1, <1>5, <1>8, <1>10, <1>11, <1>12, <1>13, Zenon DEF IsMessage

LEMMA MessageType ==
    ASSUME NEW v \in SettingsVersions
    PROVE  SettingsMessage(v) \in Seq(Tokens)
<1> DEFINE m == SettingsMessage(v)
           n == Len(SettingsSent[v])
<1>1. \E S : m \in Seq(S)
  BY MessageIs DEF IsMessage
<1>2. \A i \in 1..Len(m) : m[i] \in Tokens
  BY SettingsDomain DEF Tokens
<1> HIDE DEF m
<1>3. m \in Seq(Tokens)
  BY <1>1, <1>2
<1> QED
  BY <1>3 DEF m

(* A token that says it is a version is one of the settings. *)
LEMMA VersionTokens ==
    ASSUME NEW x \in Tokens, x.t = "version"
    PROVE  x.v \in SettingsVersions
<1>1. \A v, off : Unit(v, off).t = "unit"
  BY DEF Unit
<1>2. PICK v \in SettingsVersions : \E i \in 1..Len(SettingsMessage(v)) : x = SettingsMessage(v)[i]
  BY <1>1, SettingsDomain DEF Tokens
<1> DEFINE m == SettingsMessage(v)
           n == Len(SettingsSent[v])
<1>3. PICK i \in 1..Len(m) : x = m[i]
  BY <1>2
<1>4. IsMessage(m, v, n)
  BY MessageIs, Zenon
<1> HIDE DEF m, n
<1>5. i # 1
  BY <1>3, <1>4 DEF IsMessage
<1>6. CASE i = 2
  BY <1>3, <1>4, <1>6 DEF IsMessage
<1>7. CASE i # 2 /\ n = 0
  <2>1. Len(m) = 3
    BY <1>4, <1>7 DEF IsMessage
  <2>2. i \in 1..3
    BY <1>3, <2>1
  <2>3. i = 3
    BY <1>5, <1>7, <2>2
  <2> QED
    BY <1>3, <1>4, <1>7, <2>3 DEF IsMessage
<1>8. CASE i # 2 /\ n # 0
  <2>1. i - 2 \in 1..n /\ (i - 2) + 2 = i
    BY <1>3, <1>4, <1>5, <1>8 DEF IsMessage
  <2>2. x = Setting(v, i - 2)
    BY <1>3, <1>4, <2>1 DEF IsMessage
  <2> QED
    BY <2>2 DEF Setting
<1> QED
  BY <1>6, <1>7, <1>8

-----------------------------------------------------------------------------
(* What dispatch.c does with a block *)

(* Its state when it looks for the service *)
Dispatched(id, kind, v, is_first) ==
    IF is_first THEN downlink_start(id, Path(kind), v)
    ELSE [seen |-> last_seen, ids |-> downlink_id, dl |-> component_download]

(* The IDs when a service takes note of one, and the download then *)
Noted(s, id) == [downlink_id EXCEPT ![s] = id]

Begun(s, id, v) ==
    IF s = "ota_component" THEN [id |-> id, version |-> v, offset |-> 0] ELSE component_download

LEMMA Started ==
    ASSUME NEW id, NEW kind \in Kinds \union {"manifest"}, NEW v,
           NEW st, st = downlink_start(id, Path(kind), v), Target(kind) # Nil
    PROVE  /\ st.seen = Target(kind) /\ st.ids = Noted(Target(kind), id)
           /\ st.dl = Begun(Target(kind), id, v)
<1> DEFINE t == ServiceFor[Path(kind)]
           ids == IF t = Nil THEN downlink_id ELSE [downlink_id EXCEPT ![t] = id]
           dl == IF t = "ota_component" THEN ota_receive_component_start(id, v)
                                        ELSE component_download
           seen == IF t = Nil THEN last_seen ELSE t
<1>1. t = Target(kind)
  BY ServiceForPath
<1>2. st = [seen |-> seen, ids |-> ids, dl |-> dl]
  BY Zenon DEF downlink_start
<1>3. st.seen = seen /\ st.ids = ids /\ st.dl = dl
  <2> HIDE DEF seen, ids, dl
  <2> QED
    BY <1>2
<1>4. st.seen = t /\ st.ids = Noted(t, id)
  BY <1>1, <1>3, Zenon DEF Noted
<1>5. st.dl = Begun(t, id, v)
  BY <1>3, Zenon DEF Begun, ota_receive_component_start
<1> HIDE DEF t
<1> QED
  BY <1>1, <1>4, <1>5, Zenon

LEMMA NotStarted ==
    ASSUME NEW id, NEW kind \in Kinds \union {"manifest"}, NEW v,
           NEW st, st = downlink_start(id, Path(kind), v), Target(kind) = Nil
    PROVE  st.seen = last_seen /\ st.ids = downlink_id /\ st.dl = component_download
<1> DEFINE t == ServiceFor[Path(kind)]
           ids == IF t = Nil THEN downlink_id ELSE [downlink_id EXCEPT ![t] = id]
           dl == IF t = "ota_component" THEN ota_receive_component_start(id, v)
                                        ELSE component_download
           seen == IF t = Nil THEN last_seen ELSE t
<1>1. t = Nil
  BY ServiceForPath
<1>2. Nil # "ota_component"
  BY NilAssumption DEF Service
<1>3. st = [seen |-> seen, ids |-> ids, dl |-> dl]
  BY Zenon DEF downlink_start
<1>4. st.seen = seen /\ st.ids = ids /\ st.dl = dl
  <2> HIDE DEF seen, ids, dl
  <2> QED
    BY <1>3
<1> QED
  BY <1>1, <1>2, <1>4, Zenon

LEMMA Pushed ==
    ASSUME NEW id, NEW kind \in Kinds \union {"manifest"}, NEW v, NEW is_first, NEW data,
           NEW is_last, NEW st, NEW s, st = Dispatched(id, kind, v, is_first),
           s = ActiveService(id, st), block_push(id, kind, v, is_first, data, is_last)
    PROVE  /\ image = Nil /\ version' = version
           /\ misrouted' = (misrouted \/ s # Target(kind))
           /\ forget(s, st, is_last)
           /\ s # "ota_component" => component_download' = st.dl
           /\ s = "ota_component" => ota_receive_component_data(st.dl, data, is_last)
           /\ s = "ota_manifest" => ota_receive_manifest(data)
           /\ s = "settings" => settings_downlink(data)
           /\ s = Nil => UNCHANGED <<ota, settings_version, applied, flash_context, flash, holed, image, faults>>
<1>1. ServiceFor[Path(kind)] = Target(kind)
  BY ServiceForPath
<1>2. Nil \notin {"ota_component", "ota_manifest", "settings"}
  BY NilAssumption DEF Service
<1>3. /\ image = Nil /\ version' = version
      /\ misrouted' = (misrouted \/ s # Target(kind))
      /\ forget(s, st, is_last)
      /\ s # "ota_component" => component_download' = st.dl
      /\ CASE s = "ota_component" -> ota_receive_component_data(st.dl, data, is_last)
           [] s = "ota_manifest"  -> ota_receive_manifest(data)
           [] s = "settings"      -> settings_downlink(data)
           [] s = Nil             -> UNCHANGED <<ota, settings_version, applied, flash_context,
                                                 flash, holed, image, faults>>
  BY <1>1, Zenon DEF block_push, Dispatched
<1> QED
  BY <1>2, <1>3

(* The service is one that knows the ID. *)
LEMMA ActiveIs ==
    ASSUME NEW id, NEW st, st.seen \in Service \union {Nil}
    PROVE  /\ ActiveService(id, st) \in {s \in Service : st.ids[s] = id} \union {Nil}
           /\ \A t \in Service : (\A s \in Service : st.ids[s] = id <=> s = t) =>
                  ActiveService(id, st) = t
           /\ (\A s \in Service : st.ids[s] # id) => ActiveService(id, st) = Nil
<1> DEFINE found == {s \in Service : st.ids[s] = id}
<1>1. found \in SUBSET Service
  OBVIOUS
<1>2. Nil \notin Service
  BY NilAssumption
<1>3. ActiveService(id, st) = IF st.seen # Nil /\ st.ids[st.seen] = id THEN st.seen
                             ELSE FirstService(found)
  BY Zenon DEF ActiveService
<1>4. ASSUME NEW t \in Service, \A s \in Service : st.ids[s] = id <=> s = t
      PROVE  ActiveService(id, st) = t
  <2>1. found = {t}
    BY <1>4
  <2> HIDE DEF found
  <2>2. FirstService(found) = t
    BY <1>1, <2>1, FirstServiceIn
  <2> QED
    BY <1>3, <1>4, <2>2
<1>5. ASSUME \A s \in Service : st.ids[s] # id PROVE ActiveService(id, st) = Nil
  <2>1. found = {}
    BY <1>5
  <2> HIDE DEF found
  <2>2. FirstService(found) = Nil
    BY <1>1, <2>1, FirstServiceIn
  <2> QED
    BY <1>3, <1>5, <2>2
<1>6. ActiveService(id, st) \in found \union {Nil}
  <2>1. FirstService(found) \in found \union {Nil}
    BY <1>1, FirstServiceIn
  <2> QED
    BY <1>3, <2>1
<1> QED
  BY <1>4, <1>5, <1>6

(* The services' IDs after the block *)
LEMMA Forgotten ==
    ASSUME NEW s, NEW st, NEW is_last, DOMAIN st.ids = Service, forget(s, st, is_last)
    PROVE  /\ DOMAIN downlink_id' = Service
           /\ \A r \in Service :
                  downlink_id'[r] = IF s # Nil /\ is_last /\ r = s THEN Nil ELSE st.ids[r]
           /\ last_seen' \in {Nil, st.seen}
  BY DEF forget

(* The download after the start, if there is one, and the service that gets the block *)
Download(id, kind, v, is_first) ==
    IF is_first THEN Begun(Target(kind), id, v) ELSE component_download

Receiver(id, kind, v, is_first) == ActiveService(id, Dispatched(id, kind, v, is_first))

LEMMA TargetFacts ==
    /\ Target("component") = "ota_component" /\ Target("settings") = "settings"
    /\ Target("unknown") = Nil /\ Target("manifest") = "ota_manifest"
    /\ \A k \in Kinds : Target(k) \in {"ota_component", "settings", Nil}
    /\ Nil \notin Service /\ Nil # "ota_component"
  BY NilAssumption DEF Target, Kinds, Service

LEMMA DispatchedIs ==
    ASSUME NodeTypes, NEW id, NEW kind \in Kinds, NEW v, NEW is_first \in BOOLEAN,
           NEW st, st = Dispatched(id, kind, v, is_first)
    PROVE  /\ st.seen \in Service \union {Nil} /\ DOMAIN st.ids = Service
           /\ \A r \in Service :
                  st.ids[r] = IF is_first /\ r = Target(kind) THEN id ELSE downlink_id[r]
           /\ st.dl = Download(id, kind, v, is_first)
<1>1. DOMAIN downlink_id = Service /\ last_seen \in Service \union {Nil}
  BY DEF NodeTypes
<1>2. kind \in Kinds \union {"manifest"}
  OBVIOUS
<1>3. CASE is_first /\ Target(kind) # Nil
  <2>1. st = downlink_start(id, Path(kind), v)
    BY <1>3 DEF Dispatched
  <2>2. st.seen = Target(kind) /\ st.ids = Noted(Target(kind), id) /\ st.dl = Begun(Target(kind), id, v)
    BY <1>2, <1>3, <2>1, Started, Zenon
  <2>3. Target(kind) \in Service
    BY <1>3, TargetFacts DEF Service
  <2>4. /\ DOMAIN st.ids = Service
        /\ \A r \in Service : st.ids[r] = IF r = Target(kind) THEN id ELSE downlink_id[r]
    BY <1>1, <2>2 DEF Noted
  <2>5. st.dl = Download(id, kind, v, is_first)
    BY <1>3, <2>2, Zenon DEF Download
  <2> QED
    BY <1>3, <2>2, <2>3, <2>4, <2>5
<1>4. CASE is_first /\ Target(kind) = Nil
  <2>1. st = downlink_start(id, Path(kind), v)
    BY <1>4 DEF Dispatched
  <2>2. st.seen = last_seen /\ st.ids = downlink_id /\ st.dl = component_download
    BY <1>2, <1>4, <2>1, NotStarted, Zenon
  <2>3. Target(kind) \notin Service /\ Target(kind) # "ota_component"
    BY <1>4, TargetFacts
  <2>4. st.dl = Download(id, kind, v, is_first)
    BY <1>4, <2>2, <2>3, Zenon DEF Download, Begun
  <2> QED
    BY <1>1, <2>2, <2>3, <2>4
<1>5. CASE ~is_first
  <2>1. st = [seen |-> last_seen, ids |-> downlink_id, dl |-> component_download]
    BY <1>5 DEF Dispatched
  <2>2. st.seen = last_seen /\ st.ids = downlink_id /\ st.dl = component_download
    BY <2>1
  <2>3. st.dl = Download(id, kind, v, is_first)
    BY <1>5, <2>2, Zenon DEF Download
  <2> QED
    BY <1>1, <1>5, <2>2, <2>3
<1> QED
  BY <1>3, <1>4, <1>5

(* What a block of a stream does: s is the service that gets it *)
Received(s, dl, id, kind, is_first, data, is_last) ==
    /\ image = Nil /\ version' = version
    /\ misrouted' = (misrouted \/ s # Target(kind))
    /\ s \in {"ota_component", "settings", Nil}
    /\ last_seen' \in Service \union {Nil} /\ DOMAIN downlink_id' = Service
    /\ \A r \in Service :
           downlink_id'[r] = IF is_last /\ r = s THEN Nil
                             ELSE IF is_first /\ r = Target(kind) THEN id ELSE downlink_id[r]
    /\ s # "ota_component" => component_download' = dl
    /\ s = "ota_component" => ota_receive_component_data(dl, data, is_last)
    /\ s = "settings" => settings_downlink(data)
    /\ s = Nil => UNCHANGED <<ota, settings_version, applied, flash_context, flash, holed, image, faults>>

LEMMA BlockPushed ==
    ASSUME NodeTypes, NEW id \in 1..31, NEW kind \in Kinds, NEW v, NEW is_first \in BOOLEAN,
           NEW data, NEW is_last \in BOOLEAN, NEW s, NEW dl,
           s = Receiver(id, kind, v, is_first), dl = Download(id, kind, v, is_first),
           block_push(id, kind, v, is_first, data, is_last)
    PROVE  Received(s, dl, id, kind, is_first, data, is_last)
<1> DEFINE st == Dispatched(id, kind, v, is_first)
<1>1. kind \in Kinds \union {"manifest"} /\ Target(kind) # "ota_manifest"
  BY TargetFacts DEF Service
<1>2. /\ st.seen \in Service \union {Nil} /\ DOMAIN st.ids = Service
      /\ \A r \in Service :
             st.ids[r] = IF is_first /\ r = Target(kind) THEN id ELSE downlink_id[r]
      /\ st.dl = dl
  BY DispatchedIs
<1>3. s = ActiveService(id, st)
  BY DEF Receiver
<1>4. /\ image = Nil /\ version' = version
      /\ misrouted' = (misrouted \/ s # Target(kind))
      /\ forget(s, st, is_last)
      /\ s # "ota_component" => component_download' = st.dl
      /\ s = "ota_component" => ota_receive_component_data(st.dl, data, is_last)
      /\ s = "ota_manifest" => ota_receive_manifest(data)
      /\ s = "settings" => settings_downlink(data)
      /\ s = Nil => UNCHANGED <<ota, settings_version, applied, flash_context, flash, holed, image, faults>>
  BY <1>1, <1>3, Pushed
<1> HIDE DEF st
<1>5. s \in {r \in Service : st.ids[r] = id} \union {Nil}
  BY <1>2, <1>3, ActiveIs
<1>6. s \in {"ota_component", "settings", Nil}
  <2>1. downlink_id["ota_manifest"] = Nil /\ id # Nil /\ "ota_manifest" \in Service
    BY NilAssumption DEF NodeTypes, Service
  <2>2. st.ids["ota_manifest"] # id
    BY <1>1, <1>2, <2>1
  <2> QED
    BY <1>5, <2>2 DEF Service
<1>7. /\ DOMAIN downlink_id' = Service
      /\ \A r \in Service :
             downlink_id'[r] = IF s # Nil /\ is_last /\ r = s THEN Nil ELSE st.ids[r]
      /\ last_seen' \in {Nil, st.seen}
  BY <1>2, <1>4, Forgotten
<1>8. \A r \in Service :
          downlink_id'[r] = IF is_last /\ r = s THEN Nil
                            ELSE IF is_first /\ r = Target(kind) THEN id ELSE downlink_id[r]
  BY <1>2, <1>7, NilAssumption
<1>9. last_seen' \in Service \union {Nil}
  BY <1>2, <1>7
<1>10. s = "ota_component" => ota_receive_component_data(dl, data, is_last)
  BY <1>2, <1>4, Zenon
<1> QED
  BY <1>2, <1>4, <1>6, <1>7, <1>8, <1>9, <1>10 DEF Received

(* An entry goes to the service its path names, which then forgets it. *)
LEMMA EntryPushed ==
    ASSUME NodeTypes, NEW kind \in {"manifest", "settings"}, NEW data,
           block_push(0, kind, Nil, TRUE, data, TRUE)
    PROVE  /\ image = Nil /\ UNCHANGED <<version, misrouted, component_download>>
           /\ last_seen' \in Service \union {Nil} /\ DOMAIN downlink_id' = Service
           /\ \A r \in Service :
                  downlink_id'[r] = IF r = Target(kind) THEN Nil ELSE downlink_id[r]
           /\ kind = "manifest" => ota_receive_manifest(data)
           /\ kind = "settings" => settings_downlink(data)
<1> DEFINE st == Dispatched(0, kind, Nil, TRUE)
           s == ActiveService(0, st)
           t == Target(kind)
<1>1. /\ t \in Service /\ t # Nil /\ t # "ota_component" /\ kind \in Kinds \union {"manifest"}
      /\ kind = "manifest" => t = "ota_manifest"
      /\ kind = "settings" => t = "settings"
  BY NilAssumption DEF Target, Service, Kinds
<1>2. DOMAIN downlink_id = Service
  BY DEF NodeTypes
<1>3. /\ st.seen = t /\ st.ids = [downlink_id EXCEPT ![t] = 0]
      /\ st.dl = component_download
  <2>1. st = downlink_start(0, Path(kind), Nil)
    BY Zenon DEF Dispatched
  <2>2. kind \in Kinds \union {"manifest"} /\ Target(kind) # Nil
        /\ Target(kind) # "ota_component"
    BY <1>1
  <2> HIDE DEF st
  <2>3. st.seen = t /\ st.ids = Noted(t, 0) /\ st.dl = Begun(t, 0, Nil)
    BY <2>1, <2>2, Started, ZenonT(30)
  <2> QED
    BY <2>2, <2>3, Zenon DEF Noted, Begun
<1>4. /\ image = Nil /\ version' = version
      /\ misrouted' = (misrouted \/ s # t)
      /\ forget(s, st, TRUE)
      /\ s # "ota_component" => component_download' = st.dl
      /\ s = "ota_manifest" => ota_receive_manifest(data)
      /\ s = "settings" => settings_downlink(data)
  BY <1>1, Pushed
<1> HIDE DEF st, t
<1>5. s = t
  BY <1>1, <1>2, <1>3 DEF ActiveService
<1> HIDE DEF s
<1>6. DOMAIN st.ids = Service
  BY <1>2, <1>3
<1>7. /\ DOMAIN downlink_id' = Service
      /\ \A r \in Service :
             downlink_id'[r] = IF s # Nil /\ TRUE /\ r = s THEN Nil ELSE st.ids[r]
      /\ last_seen' \in {Nil, st.seen}
  BY <1>4, <1>6, Forgotten
<1>8. \A r \in Service : downlink_id'[r] = IF r = t THEN Nil ELSE downlink_id[r]
  BY <1>1, <1>2, <1>3, <1>5, <1>7
<1>9. misrouted' = misrouted
  <2>1. misrouted \in BOOLEAN
    BY DEF NodeTypes
  <2> QED
    BY <1>4, <1>5, <2>1, Zenon
<1> QED
  BY <1>1, <1>3, <1>4, <1>5, <1>7, <1>8, <1>9 DEF t
-----------------------------------------------------------------------------
(* What the services do *)

LEMMA SettingsTypes ==
    ASSUME NodeTypes, NEW data \in Seq(Tokens), settings_downlink(data)
    PROVE  /\ settings_version' \in SettingsVersions \union {Nil}
           /\ DOMAIN applied' = DOMAIN Handlers
           /\ UNCHANGED <<ota, flash_context, flash, holed, image, faults>>
<1> DEFINE toks == {data[i] : i \in Understood(data)}
           versions == {tok.v : tok \in {x \in toks : x.t = "version"}}
<1>1. /\ settings_version' = IF versions = {} THEN settings_version
                             ELSE CHOOSE v \in versions : TRUE
      /\ DOMAIN applied' = DOMAIN Handlers
      /\ UNCHANGED <<ota, flash_context, flash, holed, image, faults>>
  BY DEF settings_downlink
<1>2. versions \subseteq SettingsVersions
  <2> SUFFICES ASSUME NEW x \in toks, x.t = "version" PROVE x.v \in SettingsVersions
    OBVIOUS
  <2>1. x \in Tokens
    <3>1. PICK i \in Understood(data) : x = data[i]
      OBVIOUS
    <3>2. i \in DOMAIN data
      BY <3>1 DEF Understood
    <3> QED
      BY <3>1, <3>2, LenProperties, ElementOfSeq
  <2> QED
    BY <2>1, VersionTokens
<1>3. settings_version \in SettingsVersions \union {Nil}
  BY DEF NodeTypes
<1> HIDE DEF versions
<1> QED
  BY <1>1, <1>2, <1>3

(* A manifest names the target, and asks for it if it is not the version that runs. *)
LEMMA ManifestReceived ==
    ASSUME NodeTypes, CloudTypes, NEW ok \in BOOLEAN, ota_receive_manifest(Manifest(ok))
    PROVE  /\ ota' \in [target : 1..Versions, state : OtaStates]
           /\ UNCHANGED <<settings_version, applied, flash_context, flash, holed, image, faults>>
<1> DEFINE c == Manifest(ok)
           a == [t |-> "component", package |-> "main", version |-> desired.firmware, ok |-> TRUE]
           b == [t |-> "component", package |-> "other", version |-> 1, ok |-> ok]
           decoded == {i \in DOMAIN c : \A j \in 1..i : c[j].ok}
           registered == {i \in decoded : c[i].package = "main"}
           last == CHOOSE i \in registered : \A j \in registered : j <= i
           got == IF registered = {} THEN ota ELSE golioth_ota_manifest_receive_one(c[last], ota)
<1>1. /\ ota' = IF decoded = DOMAIN c THEN golioth_ota_manifest_complete(got) ELSE got
      /\ UNCHANGED <<settings_version, applied, flash_context, flash, holed, image, faults>>
  BY Zenon DEF ota_receive_manifest
<1>2. c = <<a, b>>
  BY Zenon DEF Manifest
<1>3. a.package = "main" /\ a.version = desired.firmware /\ b.package = "other" /\ a.ok = TRUE
  OBVIOUS
<1> HIDE DEF a, b, c
<1>4. DOMAIN c = {1, 2} /\ c[1] = a /\ c[2] = b
  BY <1>2
<1>5. registered = {1}
  <2>1. 1..1 = {1}
    OBVIOUS
  <2>2. 1 \in decoded
    BY <1>3, <1>4, <2>1
  <2> QED
    BY <1>3, <1>4, <2>2
<1> HIDE DEF decoded, registered
<1>6. last = 1
  BY <1>5
<1>7. got = [ota EXCEPT !.target = desired.firmware]
  BY <1>3, <1>4, <1>5, <1>6, Zenon DEF golioth_ota_manifest_receive_one
<1> HIDE DEF got
<1>8. /\ ota \in [target : 1..Versions, state : OtaStates] /\ desired.firmware \in 1..Versions
  BY DEF NodeTypes, CloudTypes
<1>9. got \in [target : 1..Versions, state : OtaStates]
  BY <1>7, <1>8
<1>10. golioth_ota_manifest_complete(got) \in [target : 1..Versions, state : OtaStates]
  BY <1>9 DEF golioth_ota_manifest_complete, ota_manifest_receive, OtaStates
<1> QED
  BY <1>1, <1>9, <1>10

LEMMA ComponentTypes ==
    ASSUME NEW dl \in Downloads, NEW data \in Seq(Tokens), NEW is_last,
           ota_receive_component_data(dl, data, is_last)
    PROVE  /\ component_download' \in Downloads
           /\ UNCHANGED <<ota, settings_version, applied>>
<1>1. Len(data) \in Nat
  BY LenProperties
<1>2. component_download' = IF dl.id # Nil THEN [dl EXCEPT !.offset = @ + Len(data)] ELSE dl
  BY Zenon DEF ota_receive_component_data
<1>3. [dl EXCEPT !.offset = @ + Len(data)] \in Downloads
  <2>1. ASSUME NEW A, NEW B, NEW d \in [id : A, version : B, offset : Nat], NEW n \in Nat
        PROVE  [d EXCEPT !.offset = @ + n] \in [id : A, version : B, offset : Nat]
    OBVIOUS
  <2> QED
    BY <1>1, <2>1, Zenon DEF Downloads
<1>4. UNCHANGED <<ota, settings_version, applied>>
  BY Zenon DEF ota_receive_component_data
<1> QED
  BY <1>2, <1>3, <1>4

-----------------------------------------------------------------------------
(* The cloud's streams *)

LEMMA LeastOf ==
    ASSUME NEW F \in SUBSET Nat, F # {}
    PROVE  \E i \in F : \A j \in F : i <= j
<1> SUFFICES ASSUME \A i \in F : \E j \in F : ~(i <= j)
             PROVE  FALSE
  OBVIOUS
<1> DEFINE S == {n \in Nat : \A i \in F : n <= i}
<1>1. 0 \in S
  OBVIOUS
<1>2. ASSUME NEW n \in Nat, n \in S PROVE n + 1 \in S
  BY <1>2
<1>3. \A n \in Nat : n \in S
  <2> HIDE DEF S
  <2> QED
    BY <1>1, <1>2, NatInSet
<1>4. PICK i \in F : TRUE
  OBVIOUS
<1>5. i + 1 \in S
  BY <1>3, <1>4
<1> QED
  BY <1>4, <1>5

(* An ID that no stream has, and, unless they are used again, no stream had *)
LEMMA FreeIdIs ==
    ASSUME FreeIds # {}
    PROVE  /\ FreeId \in 1..31 /\ \A k \in Kinds : streams[k] # Nil => streams[k].id # FreeId
           /\ ~ReuseIds => FreeId \notin stale
<1>1. FreeIds \in SUBSET Nat
  BY DEF FreeIds
<1>2. FreeId \in FreeIds
  <2>1. \E i \in FreeIds : \A j \in FreeIds : i <= j
    BY <1>1, LeastOf
  <2> QED
    BY <2>1 DEF FreeId
<1> HIDE DEF FreeId
<1> QED
  BY <1>2 DEF FreeIds

LEMMA UnitType ==
    ASSUME NEW v \in 0..Versions, NEW off \in 1..(ImageUnits + 2)
    PROVE  <<Unit(v, off)>> \in Seq(Tokens)
<1>1. Unit(v, off) \in Tokens
  <2>1. Unit(v, off) \in {Unit(w, o) : w \in 0..Versions, o \in 1..(ImageUnits + 2)}
    OBVIOUS
  <2> QED
    BY <2>1 DEF Tokens
<1> QED
  BY <1>1

LEMMA BlocksType ==
    ASSUME NEW kind \in Kinds, NEW v, NEW b, b = Blocks(kind, v),
           kind = "component" => v \in 1..Versions,
           kind = "settings" => v \in SettingsVersions
    PROVE  b \in Seq(Seq(Tokens)) \ {<<>>}
<1>1. ImageUnits \in Nat \ {0} /\ Versions \in Nat
  BY SdkAssumption
<1>2. CASE kind = "component"
  <2>1. b = [i \in 1..ImageUnits |-> <<Image(v)[i]>>]
    BY <1>2 DEF Blocks
  <2>2. \A i \in 1..ImageUnits : Image(v)[i] = Unit(v, i)
    BY DEF Image, Unit
  <2>3. \A i \in 1..ImageUnits : <<Image(v)[i]>> \in Seq(Tokens)
    BY <1>1, <1>2, <2>2, UnitType
  <2> DEFINE T == Seq(Tokens)
             e(i) == <<Image(v)[i]>>
  <2>4. b = [i \in 1..ImageUnits |-> e(i)] /\ \A i \in 1..ImageUnits : e(i) \in T
    BY <2>1, <2>3
  <2> HIDE DEF T, e
  <2>5. b \in Seq(T) /\ Len(b) = ImageUnits
    BY <1>1, <2>4
  <2>6. b # <<>>
    BY <1>1, <2>5, EmptySeq
  <2> QED
    BY <2>5, <2>6 DEF T
<1>3. CASE kind = "settings"
  <2> DEFINE m == SettingsMessage(v)
             x == SubSeq(m, 1, 3)
             y == SubSeq(m, 4, Len(m))
             T == Seq(Tokens)
  <2>1. b = <<x, y>>
    BY <1>3 DEF Blocks
  <2>2. m \in Seq(Tokens) /\ Len(m) \in Nat
    BY <1>3, MessageType, LenProperties
  <2>3. Len(m) >= 3
    <3> DEFINE n == Len(SettingsSent[v])
    <3>1. IsMessage(m, v, n)
      BY <1>3, MessageIs
    <3> HIDE DEF m, n
    <3> QED
      BY <3>1 DEF IsMessage
  <2> HIDE DEF m
  <2>4. \A i \in 1..3 : m[i] \in Tokens
    BY <2>2, <2>3, ElementOfSeq
  <2>5. \A i \in 4..Len(m) : m[i] \in Tokens
    BY <2>2, ElementOfSeq
  <2>6. x \in T
    BY <2>4, SubSeqProperties
  <2>7. y \in T
    BY <2>2, <2>5, SubSeqProperties
  <2> HIDE DEF x, y, T
  <2>8. b \in Seq(T) /\ b # <<>>
    BY <2>1, <2>6, <2>7
  <2> QED
    BY <2>8 DEF T
<1>4. CASE kind = "unknown"
  <2>1. b = [i \in 1..2 |-> <<Unit(0, i)>>]
    BY <1>4 DEF Blocks
  <2> DEFINE T == Seq(Tokens)
             e(i) == <<Unit(0, i)>>
  <2>2. b = [i \in 1..2 |-> e(i)]
    BY <2>1
  <2>3. \A i \in 1..2 : e(i) \in T
    <3>1. 0 \in 0..Versions /\ \A i \in 1..2 : i \in 1..(ImageUnits + 2)
      BY <1>1
    <3> QED
      BY <3>1, UnitType
  <2> HIDE DEF T, e
  <2>4. b \in Seq(T) /\ Len(b) = 2
    BY <2>2, <2>3
  <2>5. b # <<>>
    <3> SUFFICES ASSUME b = <<>> PROVE FALSE
      OBVIOUS
    <3>1. Len(b) = 0
      BY EmptySeq
    <3> QED
      BY <2>4, <3>1
  <2> QED
    BY <2>4, <2>5 DEF T
<1> QED
  BY <1>2, <1>3, <1>4 DEF Kinds

Advanced(st) == [st EXCEPT !.first = FALSE, !.left = Tail(@)]

LEMMA AdvancedIs ==
    ASSUME NEW st \in Streams, Len(st.left) # 1
    PROVE  /\ Advanced(st) \in Streams /\ Advanced(st).id = st.id /\ Advanced(st).v = st.v
           /\ Advanced(st).first = FALSE /\ Advanced(st).left = Tail(st.left)
<1> DEFINE T == Seq(Tokens)
           V == (1..Versions) \union SettingsVersions \union {Nil}
<1>1. st \in [id : 1..31, v : V, first : BOOLEAN, left : Seq(T) \ {<<>>}]
  BY SettingsDomain DEF Streams
<1> HIDE DEF T, V
<1>2. Tail(st.left) \in Seq(T) \ {<<>>}
  <2>1. st.left \in Seq(T) /\ st.left # <<>>
    BY <1>1
  <2>2. Tail(st.left) \in Seq(T) /\ Len(Tail(st.left)) = Len(st.left) - 1 /\ Len(st.left) \in Nat
    BY <2>1, HeadTailProperties, LenProperties
  <2>3. Len(Tail(st.left)) # 0
    BY <2>2
  <2> QED
    BY <2>2, <2>3, EmptySeq
<1> DEFINE r == Tail(st.left)
<1>3. /\ Advanced(st) = [st EXCEPT !.first = FALSE, !.left = r]
      /\ r \in Seq(T) \ {<<>>}
  BY <1>2 DEF Advanced
<1> HIDE DEF r
<1>4. Advanced(st) \in [id : 1..31, v : V, first : BOOLEAN, left : Seq(T) \ {<<>>}]
  BY <1>1, <1>3
<1>5. /\ Advanced(st).id = st.id /\ Advanced(st).v = st.v
      /\ Advanced(st).first = FALSE /\ Advanced(st).left = r
  BY <1>1, <1>3
<1> QED
  BY <1>4, <1>5, SettingsDomain DEF Streams, T, V, r

LEMMA BlockSent ==
    ASSUME SdkTypes, NEW kind \in Kinds, SendBlock(kind), NEW st, st = streams[kind]
    PROVE  /\ st \in Streams /\ st # Nil /\ Head(st.left) \in Seq(Tokens)
           /\ streams' \in [Kinds -> Streams \union {Nil}]
           /\ \A k \in Kinds : k # kind => streams'[k] = streams[k]
           /\ Len(st.left) = 1 => streams'[kind] = Nil
           /\ Len(st.left) # 1 => streams'[kind] = Advanced(st)
           /\ UNCHANGED <<desired, reported, stale>>
           /\ block_push(st.id, kind, st.v, st.first, Head(st.left), Len(st.left) = 1)
<1>1. /\ st # Nil
      /\ streams' = [streams EXCEPT ![kind] = IF Len(st.left) = 1 THEN Nil ELSE Advanced(st)]
      /\ UNCHANGED <<desired, reported, stale>>
      /\ block_push(st.id, kind, st.v, st.first, Head(st.left), Len(st.left) = 1)
  BY Zenon DEF SendBlock, Advanced
<1>2. streams \in [Kinds -> Streams \union {Nil}]
  BY DEF SdkTypes, CloudTypes
<1>3. st \in Streams
  BY <1>1, <1>2
<1>4. Head(st.left) \in Seq(Tokens)
  <2> DEFINE T == Seq(Tokens)
  <2>1. st.left \in Seq(T) /\ st.left # <<>>
    BY <1>3 DEF Streams
  <2> HIDE DEF T
  <2>2. Head(st.left) \in T
    BY <2>1, HeadTailProperties
  <2> QED
    BY <2>2 DEF T
<1>5. Len(st.left) # 1 => Advanced(st) \in Streams
  BY <1>3, AdvancedIs
<1> DEFINE new == IF Len(st.left) = 1 THEN Nil ELSE Advanced(st)
<1>6. new \in Streams \union {Nil} /\ streams' = [streams EXCEPT ![kind] = new]
  BY <1>1, <1>5
<1>7. /\ Len(st.left) = 1 => new = Nil
      /\ Len(st.left) # 1 => new = Advanced(st)
  OBVIOUS
<1> HIDE DEF new
<1>8. /\ streams' \in [Kinds -> Streams \union {Nil}] /\ streams'[kind] = new
      /\ \A k \in Kinds : k # kind => streams'[k] = streams[k]
  BY <1>2, <1>6
<1>9. /\ Len(st.left) = 1 => streams'[kind] = Nil
      /\ Len(st.left) # 1 => streams'[kind] = Advanced(st)
  BY <1>7, <1>8, Zenon
<1> QED
  BY <1>1, <1>3, <1>4, <1>8, <1>9, Zenon

LEMMA StreamOpened ==
    ASSUME SdkTypes, NEW kind \in Kinds, OpenStream(kind)
    PROVE  \E st \in Streams :
               /\ streams' \in [Kinds -> Streams \union {Nil}]
               /\ streams[kind] = Nil /\ streams'[kind] = st
               /\ \A k \in Kinds : k # kind => streams'[k] = streams[k]
               /\ st.id = FreeId /\ st.first = TRUE /\ FreeIds # {}
               /\ st.left = Blocks(kind, st.v)
               /\ kind = "component" => st.v \in 1..Versions
               /\ kind = "settings" => Fragments
               /\ UNCHANGED <<dispatch, node, version, desired, reported, stale, misrouted, faults>>
<1> DEFINE v == CASE kind = "component" -> reported.ota.target
                  [] kind = "settings"  -> desired.settings
                  [] kind = "unknown"   -> Nil
           V == (1..Versions) \union SettingsVersions \union {Nil}
           b == Blocks(kind, v)
           st == [id |-> FreeId, v |-> v, first |-> TRUE, left |-> b]
           T == Seq(Seq(Tokens)) \ {<<>>}
<1>1. /\ streams[kind] = Nil /\ FreeIds # {}
      /\ kind = "component" => reported # Nil /\ reported.ota.state = "DOWNLOADING"
      /\ kind = "settings" => Fragments
      /\ streams' = [streams EXCEPT ![kind] = st]
      /\ UNCHANGED <<dispatch, node, version, desired, reported, stale, misrouted, faults>>
  BY Zenon DEF OpenStream
<1>2. /\ streams \in [Kinds -> Streams \union {Nil}]
      /\ (reported # Nil /\ reported.ota.state = "DOWNLOADING") => reported.ota.target \in 1..Versions
      /\ desired.settings \in SettingsVersions
  BY DEF SdkTypes, CloudTypes
<1>3. /\ kind = "component" => v \in 1..Versions
      /\ kind = "settings" => v \in SettingsVersions
      /\ v \in V
  BY <1>1, <1>2 DEF Kinds
<1>4. FreeId \in 1..31
  BY <1>1, FreeIdIs
<1> HIDE DEF v
<1>5. b \in T
  BY <1>3, BlocksType
<1>6. Streams = [id : 1..31, v : V, first : BOOLEAN, left : T]
  BY SettingsDomain, Zenon DEF Streams
<1> DEFINE fid == FreeId
<1>7. st = [id |-> fid, v |-> v, first |-> TRUE, left |-> b] /\ fid \in 1..31
  BY <1>4
<1> HIDE DEF b, T, st, V, fid
<1>8. st \in [id : 1..31, v : V, first : BOOLEAN, left : T]
  BY <1>3, <1>5, <1>7
<1>9. st.id = fid /\ st.v = v /\ st.first = TRUE /\ st.left = b
  BY <1>7
<1>10. st \in Streams
  BY <1>6, <1>8, Zenon
<1>11. /\ streams' \in [Kinds -> Streams \union {Nil}] /\ streams'[kind] = st
       /\ \A k \in Kinds : k # kind => streams'[k] = streams[k]
  BY <1>1, <1>2, <1>10
<1>12. st.left = Blocks(kind, st.v) /\ st.id = FreeId
  BY <1>9, Zenon DEF b, fid
<1>13. kind = "component" => st.v \in 1..Versions
  BY <1>3, <1>9, Zenon
<1> QED
  BY <1>1, <1>9, <1>10, <1>11, <1>12, <1>13, Zenon

-----------------------------------------------------------------------------
(* Every step keeps the types. *)

LEMMA NodeStutters ==
    ASSUME NodeTypes, UNCHANGED <<dispatch, node, version, misrouted>>
    PROVE  NodeTypes'
<1>1. UNCHANGED <<last_seen, downlink_id, component_download, ota, settings_version, applied,
                  version, misrouted, flash_context>>
  BY DEF dispatch, node
<1> QED
  BY <1>1, Zenon DEF NodeTypes

LEMMA CloudStutters ==
    ASSUME CloudTypes, UNCHANGED cloud
    PROVE  CloudTypes'
<1>1. UNCHANGED <<desired, reported, streams>>
  BY DEF cloud
<1> QED
  BY <1>1, Zenon DEF CloudTypes

LEMMA TypesInit ==
    ASSUME Init
    PROVE  SdkTypes
<1>1. 1 \in 1..Versions /\ 1 \in SettingsVersions
  BY SdkAssumption, SettingsDomain DEF SettingsVersions
<1>2. /\ last_seen = Nil /\ downlink_id = [s \in Service |-> Nil]
      /\ component_download = NoDownload /\ ota = [target |-> 1, state |-> "IDLE"]
      /\ settings_version = Nil /\ applied = [k \in DOMAIN Handlers |-> Nil] /\ version = 1
      /\ desired = [firmware |-> 1, settings |-> 1] /\ reported = Nil
      /\ streams = [k \in Kinds |-> Nil] /\ misrouted = FALSE /\ flash_context = FALSE
  BY Zenon DEF Init
<1>3. DOMAIN downlink_id = Service /\ \A s \in Service : downlink_id[s] = Nil
  BY <1>2
<1>4. component_download \in Downloads
  BY <1>2 DEF NoDownload, Downloads
<1>5. ota \in [target : 1..Versions, state : OtaStates]
  BY <1>1, <1>2 DEF OtaStates
<1>6. NodeTypes
  BY <1>1, <1>2, <1>3, <1>4, <1>5 DEF NodeTypes, Service
<1>7. /\ streams \in [Kinds -> Streams \union {Nil}] /\ streams["component"] = Nil
  BY <1>2 DEF Kinds
<1>8. CloudTypes
  BY <1>1, <1>2, <1>7 DEF CloudTypes
<1> QED
  BY <1>6, <1>8 DEF SdkTypes

LEMMA TypesSync ==
    ASSUME SdkTypes, golioth_sync_to_cloud
    PROVE  SdkTypes'
<1>1. /\ reported' = [ota |-> ota_uplink, settings |-> settings_uplink]
      /\ UNCHANGED <<dispatch, node, version, desired, streams, stale, misrouted, faults>>
  BY Zenon DEF golioth_sync_to_cloud
<1>2. NodeTypes'
  BY <1>1, NodeStutters DEF SdkTypes
<1>3. reported'.ota = ota_uplink
  BY <1>1
<1>4. ota_uplink.state = "DOWNLOADING" => ota_uplink.target \in 1..Versions
  BY DEF ota_uplink, SdkTypes, NodeTypes
<1>5. CloudTypes'
  BY <1>1, <1>3, <1>4 DEF SdkTypes, CloudTypes
<1> QED
  BY <1>2, <1>5 DEF SdkTypes

LEMMA TypesStatus ==
    ASSUME SdkTypes, NEW state \in {"IDLE", "UPDATING"}, golioth_ota_set_status(state)
    PROVE  SdkTypes'
<1>1. /\ ota' = [ota EXCEPT !.state = state]
      /\ UNCHANGED <<dispatch, component_download, settings_version, applied, version, cloud,
                     misrouted, flash_context>>
  BY DEF golioth_ota_set_status
<1>2. ota' \in [target : 1..Versions, state : OtaStates]
  BY <1>1 DEF SdkTypes, NodeTypes, OtaStates
<1>3. UNCHANGED <<last_seen, downlink_id, component_download, settings_version, applied, version,
                  misrouted, flash_context>>
  BY <1>1 DEF dispatch
<1>4. NodeTypes'
  BY <1>2, <1>3, Zenon DEF SdkTypes, NodeTypes
<1>5. CloudTypes'
  BY <1>1, CloudStutters DEF SdkTypes
<1> QED
  BY <1>4, <1>5 DEF SdkTypes

LEMMA TypesDesire ==
    ASSUME SdkTypes, Desire
    PROVE  SdkTypes'
<1>1. /\ UNCHANGED <<dispatch, node, version, reported, streams, stale, misrouted, faults>>
      /\ \/ /\ desired.firmware < Versions
            /\ desired' = [desired EXCEPT !.firmware = @ + 1]
         \/ /\ desired.settings < Len(SettingsSent)
            /\ desired' = [desired EXCEPT !.settings = @ + 1]
  BY Zenon DEF Desire
<1>2. desired \in [firmware : 1..Versions, settings : SettingsVersions]
  BY DEF SdkTypes, CloudTypes
<1>3. desired' \in [firmware : 1..Versions, settings : SettingsVersions]
  <2>1. Versions \in Nat /\ Len(SettingsSent) \in Nat
    BY SdkAssumption, SettingsDomain
  <2> DEFINE n == Len(SettingsSent)
  <2>2. /\ n \in Nat /\ SettingsVersions = 1..n
        /\ \/ /\ desired.firmware < Versions
              /\ desired' = [desired EXCEPT !.firmware = @ + 1]
           \/ /\ desired.settings < n
              /\ desired' = [desired EXCEPT !.settings = @ + 1]
    BY <1>1, <2>1 DEF SettingsVersions
  <2> HIDE DEF n
  <2> QED
    BY <1>2, <2>1, <2>2
<1>4. NodeTypes'
  BY <1>1, NodeStutters DEF SdkTypes
<1>5. CloudTypes'
  BY <1>1, <1>3, Zenon DEF SdkTypes, CloudTypes
<1> QED
  BY <1>4, <1>5 DEF SdkTypes

LEMMA TypesManifest ==
    ASSUME SdkTypes, NEW ok \in BOOLEAN, SendManifest(ok)
    PROVE  SdkTypes'
<1>1. UNCHANGED cloud /\ block_push(0, "manifest", Nil, TRUE, Manifest(ok), TRUE)
  BY Zenon DEF SendManifest
<1>2. /\ UNCHANGED <<version, misrouted, component_download>>
      /\ last_seen' \in Service \union {Nil} /\ DOMAIN downlink_id' = Service
      /\ \A r \in Service :
             downlink_id'[r] = IF r = Target("manifest") THEN Nil ELSE downlink_id[r]
      /\ ota_receive_manifest(Manifest(ok))
  <2>1. NodeTypes
    BY DEF SdkTypes
  <2> QED
    BY <1>1, <2>1, EntryPushed
<1>3. /\ ota' \in [target : 1..Versions, state : OtaStates]
      /\ UNCHANGED <<settings_version, applied, flash_context>>
  BY <1>2, ManifestReceived DEF SdkTypes
<1>4. \A r \in Service : downlink_id'[r] \in {downlink_id[r], Nil}
  BY <1>2
<1>5. NodeTypes'
  BY <1>2, <1>3, <1>4 DEF SdkTypes, NodeTypes, Service
<1>6. CloudTypes'
  BY <1>1, CloudStutters DEF SdkTypes
<1> QED
  BY <1>5, <1>6 DEF SdkTypes

LEMMA TypesSettings ==
    ASSUME SdkTypes, SendSettings
    PROVE  SdkTypes'
<1> DEFINE m == SettingsMessage(desired.settings)
<1>1. UNCHANGED cloud /\ block_push(0, "settings", Nil, TRUE, m, TRUE)
  BY Zenon DEF SendSettings
<1>2. m \in Seq(Tokens)
  BY MessageType DEF SdkTypes, CloudTypes
<1> HIDE DEF m
<1>3. /\ UNCHANGED <<version, misrouted, component_download>>
      /\ last_seen' \in Service \union {Nil} /\ DOMAIN downlink_id' = Service
      /\ \A r \in Service :
             downlink_id'[r] = IF r = Target("settings") THEN Nil ELSE downlink_id[r]
      /\ settings_downlink(m)
  <2>1. NodeTypes
    BY DEF SdkTypes
  <2> QED
    BY <1>1, <2>1, EntryPushed
<1>4. /\ settings_version' \in SettingsVersions \union {Nil}
      /\ DOMAIN applied' = DOMAIN Handlers /\ UNCHANGED <<ota, flash_context>>
  BY <1>2, <1>3, SettingsTypes DEF SdkTypes
<1>5. \A r \in Service : downlink_id'[r] \in {downlink_id[r], Nil}
  BY <1>3
<1>6. NodeTypes'
  BY <1>3, <1>4, <1>5 DEF SdkTypes, NodeTypes, Service
<1>7. CloudTypes'
  BY <1>1, CloudStutters DEF SdkTypes
<1> QED
  BY <1>6, <1>7 DEF SdkTypes

LEMMA TypesOpen ==
    ASSUME SdkTypes, NEW kind \in Kinds, OpenStream(kind)
    PROVE  SdkTypes'
<1>1. PICK st \in Streams :
          /\ streams' \in [Kinds -> Streams \union {Nil}] /\ streams'[kind] = st
          /\ \A k \in Kinds : k # kind => streams'[k] = streams[k]
          /\ kind = "component" => st.v \in 1..Versions
          /\ UNCHANGED <<dispatch, node, version, desired, reported, stale, misrouted, faults>>
  BY StreamOpened, Zenon
<1>2. NodeTypes'
  BY <1>1, NodeStutters DEF SdkTypes
<1>3. streams'["component"] # Nil => streams'["component"].v \in 1..Versions
  BY <1>1 DEF SdkTypes, CloudTypes, Kinds
<1>4. CloudTypes'
  BY <1>1, <1>3, Zenon DEF SdkTypes, CloudTypes
<1> QED
  BY <1>2, <1>4 DEF SdkTypes

LEMMA TypesCut ==
    ASSUME SdkTypes, Cut
    PROVE  SdkTypes'
<1>1. /\ streams' = [k \in Kinds |-> Nil]
      /\ UNCHANGED <<dispatch, node, version, desired, reported, misrouted>>
  BY Zenon DEF Cut
<1>2. NodeTypes'
  BY <1>1, NodeStutters DEF SdkTypes
<1>3. streams' \in [Kinds -> Streams \union {Nil}] /\ streams'["component"] = Nil
  BY <1>1 DEF Kinds
<1>4. CloudTypes'
  BY <1>1, <1>3, Zenon DEF SdkTypes, CloudTypes
<1> QED
  BY <1>2, <1>4 DEF SdkTypes

LEMMA TypesRestart ==
    ASSUME SdkTypes, Restart
    PROVE  SdkTypes'
<1> DEFINE v == IF \E w \in 1..Versions : image = Image(w)
                THEN CHOOSE w \in 1..Versions : image = Image(w) ELSE version
<1>1. /\ Boot(v)
      /\ streams' = [k \in Kinds |-> Nil]
      /\ UNCHANGED <<desired, reported, misrouted>>
  BY Zenon DEF Restart
<1>2. v \in 1..Versions
  BY DEF SdkTypes, NodeTypes
<1> HIDE DEF v
<1>3. /\ last_seen' = Nil /\ downlink_id' = [s \in Service |-> Nil]
      /\ component_download' = NoDownload /\ ota' = [target |-> v, state |-> "IDLE"]
      /\ settings_version' = Nil /\ applied' = [k \in DOMAIN Handlers |-> Nil] /\ version' = v
      /\ flash_context' = FALSE
  BY <1>1, Zenon DEF Boot
<1>4. DOMAIN downlink_id' = Service /\ \A s \in Service : downlink_id'[s] = Nil
  BY <1>3
<1>5. component_download' \in Downloads
  BY <1>3 DEF NoDownload, Downloads
<1>6. ota' \in [target : 1..Versions, state : OtaStates]
  BY <1>2, <1>3 DEF OtaStates
<1>7. misrouted' = misrouted /\ DOMAIN applied' = DOMAIN Handlers
  BY <1>1, <1>3
<1>8. NodeTypes'
  BY <1>2, <1>3, <1>4, <1>5, <1>6, <1>7 DEF SdkTypes, NodeTypes, Service
<1>9. streams' \in [Kinds -> Streams \union {Nil}] /\ streams'["component"] = Nil
  BY <1>1 DEF Kinds
<1>10. CloudTypes'
  BY <1>1, <1>9, Zenon DEF SdkTypes, CloudTypes
<1> QED
  BY <1>8, <1>10 DEF SdkTypes

LEMMA ContextSet ==
    ASSUME NEW dl, NEW data, NEW is_last, ota_receive_component_data(dl, data, is_last)
    PROVE  flash_context' = TRUE \/ flash_context' = flash_context
BY Zenon DEF ota_receive_component_data, golioth_ota_receive_component, ota_main_receive

LEMMA TypesBlock ==
    ASSUME SdkTypes, NEW kind \in Kinds, SendBlock(kind)
    PROVE  SdkTypes'
<1> DEFINE st == streams[kind]
           data == Head(st.left)
           is_last == (Len(st.left) = 1)
           s == Receiver(st.id, kind, st.v, st.first)
           dl == Download(st.id, kind, st.v, st.first)
<1>1. /\ st \in Streams /\ st # Nil /\ data \in Seq(Tokens)
      /\ streams' \in [Kinds -> Streams \union {Nil}]
      /\ \A k \in Kinds : k # kind => streams'[k] = streams[k]
      /\ Len(st.left) = 1 => streams'[kind] = Nil
      /\ Len(st.left) # 1 => streams'[kind] = Advanced(st)
      /\ UNCHANGED <<desired, reported, stale>>
      /\ block_push(st.id, kind, st.v, st.first, data, is_last)
  BY BlockSent, Zenon
<1>2. /\ st.id \in 1..31 /\ st.first \in BOOLEAN /\ is_last \in BOOLEAN
      /\ st.v \in (1..Versions) \union SettingsVersions \union {Nil}
      /\ kind = "component" => st.v \in 1..Versions
  BY <1>1, SettingsDomain DEF Streams, SdkTypes, CloudTypes
<1>3. /\ image = Nil /\ version' = version
      /\ misrouted' = (misrouted \/ s # Target(kind))
      /\ s \in {"ota_component", "settings", Nil}
      /\ last_seen' \in Service \union {Nil} /\ DOMAIN downlink_id' = Service
      /\ \A r \in Service :
             downlink_id'[r] = IF is_last /\ r = s THEN Nil
                               ELSE IF st.first /\ r = Target(kind) THEN st.id ELSE downlink_id[r]
      /\ s # "ota_component" => component_download' = dl
      /\ s = "ota_component" => ota_receive_component_data(dl, data, is_last)
      /\ s = "settings" => settings_downlink(data)
      /\ s = Nil => UNCHANGED <<ota, settings_version, applied, flash_context, flash, holed, image, faults>>
  <2>1. NodeTypes
    BY DEF SdkTypes
  <2>2. s = Receiver(st.id, kind, st.v, st.first) /\ dl = Download(st.id, kind, st.v, st.first)
    OBVIOUS
  <2> HIDE DEF s, dl, st, data
  <2>3. Received(s, dl, st.id, kind, st.first, data, is_last)
    BY <1>1, <1>2, <2>1, <2>2, BlockPushed, ZenonT(30)
  <2> QED
    BY <2>3 DEF Received
<1> HIDE DEF s, data, is_last
<1>4. dl \in Downloads
  <2>1. component_download \in Downloads
    BY DEF SdkTypes, NodeTypes
  <2>2. CASE st.first /\ Target(kind) = "ota_component"
    <3>1. kind = "component"
      BY <2>2, TargetFacts DEF Kinds
    <3>2. dl = [id |-> st.id, version |-> st.v, offset |-> 0]
      BY <2>2, Zenon DEF Download, Begun
    <3> QED
      BY <1>2, <3>1, <3>2 DEF Downloads
  <2>3. CASE ~(st.first /\ Target(kind) = "ota_component")
    <3>1. dl = component_download
      BY <2>3, Zenon DEF Download, Begun
    <3> QED
      BY <2>1, <3>1
  <2> QED
    BY <2>2, <2>3
<1> HIDE DEF st, dl
<1>5. \A r \in Service : downlink_id'[r] \in (0..31) \union {Nil}
  BY <1>2, <1>3 DEF SdkTypes, NodeTypes
<1>6. downlink_id'["ota_manifest"] = Nil
  <2>1. Target(kind) # "ota_manifest" /\ "ota_manifest" \in Service
    BY TargetFacts DEF Service
  <2> QED
    BY <1>3, <2>1 DEF SdkTypes, NodeTypes
<1>7. /\ component_download' \in Downloads
      /\ ota' \in [target : 1..Versions, state : OtaStates]
      /\ settings_version' \in SettingsVersions \union {Nil}
      /\ DOMAIN applied' = DOMAIN Handlers /\ flash_context' \in BOOLEAN
  <2>1. CASE s = "ota_component"
    <3>1. component_download' \in Downloads /\ UNCHANGED <<ota, settings_version, applied>>
      BY <1>1, <1>3, <1>4, <2>1, ComponentTypes
    <3>2. flash_context' = TRUE \/ flash_context' = flash_context
      BY <1>3, <2>1, ContextSet
    <3> QED
      BY <3>1, <3>2 DEF SdkTypes, NodeTypes
  <2>2. CASE s = "settings"
    <3>1. component_download' \in Downloads
      BY <1>3, <1>4, <2>2
    <3>2. NodeTypes
      BY DEF SdkTypes
    <3>3. /\ settings_version' \in SettingsVersions \union {Nil}
          /\ DOMAIN applied' = DOMAIN Handlers /\ UNCHANGED <<ota, flash_context>>
      BY <1>1, <1>3, <2>2, <3>2, SettingsTypes
    <3> QED
      BY <3>1, <3>3 DEF SdkTypes, NodeTypes
  <2>3. CASE s = Nil
    <3>1. s # "ota_component"
      BY <2>3, TargetFacts
    <3> QED
      BY <1>3, <1>4, <2>3, <3>1 DEF SdkTypes, NodeTypes
  <2> QED
    BY <1>3, <2>1, <2>2, <2>3
<1>8. misrouted' \in BOOLEAN
  BY <1>3 DEF SdkTypes, NodeTypes
<1>9. NodeTypes'
  BY <1>3, <1>5, <1>6, <1>7, <1>8 DEF SdkTypes, NodeTypes
<1>10. streams'["component"] # Nil => streams'["component"].v \in 1..Versions
  <2>1. CASE kind # "component"
    BY <1>1, <2>1 DEF SdkTypes, CloudTypes, Kinds
  <2>2. CASE kind = "component" /\ Len(st.left) = 1
    BY <1>1, <2>2
  <2>3. CASE kind = "component" /\ Len(st.left) # 1
    <3>1. streams'["component"].v = st.v
      BY <1>1, <2>3, AdvancedIs
    <3> QED
      BY <1>2, <2>3, <3>1
  <2> QED
    BY <2>1, <2>2, <2>3
<1>11. CloudTypes'
  BY <1>1, <1>10 DEF SdkTypes, CloudTypes
<1> QED
  BY <1>9, <1>11 DEF SdkTypes

LEMMA TypesStep ==
    ASSUME SdkTypes, [Next]_vars
    PROVE  SdkTypes'
<1>1. CASE golioth_sync_to_cloud
  BY <1>1, TypesSync
<1>2. CASE \E state \in {"IDLE", "UPDATING"} : golioth_ota_set_status(state)
  BY <1>2, TypesStatus
<1>3. CASE Desire
  BY <1>3, TypesDesire
<1>4. CASE \E ok \in BOOLEAN : SendManifest(ok)
  BY <1>4, TypesManifest
<1>5. CASE SendSettings
  BY <1>5, TypesSettings
<1>6. CASE \E kind \in Kinds : OpenStream(kind) \/ SendBlock(kind)
  BY <1>6, TypesOpen, TypesBlock
<1>7. CASE Cut
  BY <1>7, TypesCut
<1>8. CASE sys_reboot \/ PowerLoss
  BY <1>8, TypesRestart, Zenon DEF sys_reboot, PowerLoss
<1>9. CASE UNCHANGED vars
  <2>1. UNCHANGED <<dispatch, node, version, misrouted>> /\ UNCHANGED cloud
    BY <1>9 DEF vars
  <2> QED
    BY <2>1, NodeStutters, CloudStutters DEF SdkTypes
<1> QED
  BY <1>1, <1>2, <1>3, <1>4, <1>5, <1>6, <1>7, <1>8, <1>9, Zenon DEF Next

LEMMA TypesSuffice ==
    ASSUME SdkTypes
    PROVE  TypeOK
<1>1. component_download.offset \in Nat
  BY DEF SdkTypes, NodeTypes, Downloads
<1>2. ota.target \in 1..Versions /\ ota.state \in {"IDLE", "DOWNLOADING", "UPDATING"}
  BY DEF SdkTypes, NodeTypes, OtaStates
<1>3. settings_version \in DOMAIN SettingsSent \union {Nil}
  BY SettingsDomain DEF SdkTypes, NodeTypes
<1> QED
  BY <1>1, <1>2, <1>3 DEF SdkTypes, NodeTypes, TypeOK

LEMMA TypesHold == Spec => []SdkTypes
<1>1. Init => SdkTypes
  BY TypesInit
<1>2. SdkTypes /\ [Next]_vars => SdkTypes'
  BY TypesStep
<1> QED
  BY <1>1, <1>2, PTL DEF Spec

(* The state of dispatch.c, ota.c, ota_upper.c and settings.c has the shape its
   declarations give it, whatever the cloud sends, in whatever order, wherever it
   is cut off: a target and a settings version are ones the cloud named. *)
THEOREM SdkTypeCorrect == Spec => []TypeOK
<1>1. SdkTypes => TypeOK
  BY TypesSuffice
<1> QED
  BY <1>1, TypesHold, PTL

-----------------------------------------------------------------------------
(* Routing, if the cloud does not use the ID of a stream that was cut off *)

Live(k) == streams[k] # Nil

(* The services that know the ID of a stream are none before its first block, and
   after it the one that its path names. *)
Known(k) ==
    \A s \in Service :
        downlink_id[s] = streams[k].id <=> (~streams[k].first /\ s = Target(k))

(* IDs that services know are those of streams, or of streams that were cut off. *)
RouteInv ==
    /\ misrouted = FALSE
    /\ \A k \in Kinds : Live(k) => (Known(k) /\ streams[k].id \notin stale)
    /\ \A j, k \in Kinds : (Live(j) /\ Live(k) /\ j # k) => streams[j].id # streams[k].id
    /\ \A s \in Service :
           \/ downlink_id[s] \in stale \union {Nil}
           \/ \E k \in Kinds : Live(k) /\ streams[k].id = downlink_id[s]

LEMMA RouteInit ==
    ASSUME Init
    PROVE  RouteInv
<1>1. /\ misrouted = FALSE /\ streams = [k \in Kinds |-> Nil]
      /\ downlink_id = [s \in Service |-> Nil]
  BY Zenon DEF Init
<1> QED
  BY <1>1 DEF RouteInv, Live

LEMMA RouteStutters ==
    ASSUME RouteInv, UNCHANGED <<dispatch, streams, stale, misrouted>>
    PROVE  RouteInv'
<1>1. UNCHANGED <<downlink_id, streams, stale, misrouted>>
  BY DEF dispatch
<1>2. \A k \in Kinds : (Live(k)' <=> Live(k)) /\ (Known(k)' <=> Known(k))
  BY <1>1 DEF Live, Known
<1> QED
  BY <1>1, <1>2 DEF RouteInv

(* An entry, if no stream is for its service *)
LEMMA RouteEntry ==
    ASSUME SdkTypes, RouteInv, NEW t \in Service, UNCHANGED <<cloud, misrouted>>,
           \A r \in Service : downlink_id'[r] = IF r = t THEN Nil ELSE downlink_id[r],
           \A k \in Kinds : Live(k) => Target(k) # t
    PROVE  RouteInv'
<1>1. UNCHANGED <<streams, stale, misrouted>>
  BY DEF cloud
<1>2. \A k \in Kinds : Live(k) => streams[k].id \in 1..31
  BY DEF SdkTypes, CloudTypes, Live, Streams
<1>3. \A k \in Kinds : Live(k) => streams[k].id # Nil
  BY <1>2, NilAssumption
<1>4. \A k \in Kinds : Live(k) => Known(k)'
  BY <1>1, <1>3 DEF RouteInv, Known
<1>5. \A s \in Service :
          \/ downlink_id'[s] \in stale \union {Nil}
          \/ \E k \in Kinds : Live(k) /\ streams[k].id = downlink_id'[s]
  BY DEF RouteInv
<1> QED
  BY <1>1, <1>4, <1>5 DEF RouteInv, Live

LEMMA RouteManifest ==
    ASSUME SdkTypes, RouteInv, NEW ok \in BOOLEAN, SendManifest(ok)
    PROVE  RouteInv'
<1>1. UNCHANGED cloud /\ block_push(0, "manifest", Nil, TRUE, Manifest(ok), TRUE)
  BY Zenon DEF SendManifest
<1>2. /\ misrouted' = misrouted
      /\ \A r \in Service :
             downlink_id'[r] = IF r = Target("manifest") THEN Nil ELSE downlink_id[r]
  <2>1. NodeTypes
    BY DEF SdkTypes
  <2> QED
    BY <1>1, <2>1, EntryPushed
<1>3. Target("manifest") \in Service /\ \A k \in Kinds : Target(k) # Target("manifest")
  BY TargetFacts DEF Service
<1> QED
  BY <1>1, <1>2, <1>3, RouteEntry

LEMMA RouteSettings ==
    ASSUME SdkTypes, RouteInv, SendSettings
    PROVE  RouteInv'
<1> DEFINE m == SettingsMessage(desired.settings)
<1>1. /\ UNCHANGED cloud /\ block_push(0, "settings", Nil, TRUE, m, TRUE)
      /\ streams["settings"] = Nil
  BY Zenon DEF SendSettings
<1> HIDE DEF m
<1>2. /\ misrouted' = misrouted
      /\ \A r \in Service :
             downlink_id'[r] = IF r = Target("settings") THEN Nil ELSE downlink_id[r]
  <2>1. NodeTypes
    BY DEF SdkTypes
  <2> QED
    BY <1>1, <2>1, EntryPushed
<1>3. Target("settings") \in Service
  BY TargetFacts DEF Service
<1>4. \A k \in Kinds : Live(k) => Target(k) # Target("settings")
  BY <1>1, TargetFacts DEF Kinds, Live, Service
<1> QED
  BY <1>1, <1>2, <1>3, <1>4, RouteEntry

LEMMA RouteOpen ==
    ASSUME ~ReuseIds, SdkTypes, RouteInv, NEW kind \in Kinds, OpenStream(kind)
    PROVE  RouteInv'
<1>1. PICK st \in Streams :
          /\ streams[kind] = Nil /\ streams'[kind] = st
          /\ \A k \in Kinds : k # kind => streams'[k] = streams[k]
          /\ st.id = FreeId /\ st.first = TRUE /\ FreeIds # {}
          /\ UNCHANGED <<dispatch, node, version, desired, reported, stale, misrouted, faults>>
  BY StreamOpened, Zenon
<1>2. UNCHANGED <<downlink_id, stale, misrouted>>
  BY <1>1 DEF dispatch
<1>3. /\ st.id \in 1..31 /\ st.id \notin stale
      /\ \A k \in Kinds : Live(k) => streams[k].id # st.id
  BY <1>1, FreeIdIs DEF Live
<1>4. st.id # Nil
  BY <1>3, NilAssumption
<1>5. \A s \in Service : downlink_id[s] # st.id
  BY <1>3, <1>4 DEF RouteInv
<1>6. \A k \in Kinds : k # kind => (Live(k)' <=> Live(k)) /\ (Known(k)' <=> Known(k))
  BY <1>1, <1>2 DEF Live, Known
<1>7. Known(kind)'
  BY <1>1, <1>2, <1>5 DEF Known
<1>8. \A k \in Kinds : Live(k)' => (Known(k)' /\ streams'[k].id \notin stale')
  BY <1>1, <1>2, <1>3, <1>6, <1>7 DEF RouteInv
<1>9. \A j, k \in Kinds : (Live(j)' /\ Live(k)' /\ j # k) => streams'[j].id # streams'[k].id
  BY <1>1, <1>3, <1>6 DEF RouteInv
<1>10. \A s \in Service :
           \/ downlink_id'[s] \in stale' \union {Nil}
           \/ \E k \in Kinds : Live(k)' /\ streams'[k].id = downlink_id'[s]
  <2> SUFFICES ASSUME NEW s \in Service, downlink_id[s] \notin stale \union {Nil}
               PROVE  \E k \in Kinds : Live(k)' /\ streams'[k].id = downlink_id[s]
    BY <1>2
  <2>1. PICK k \in Kinds : Live(k) /\ streams[k].id = downlink_id[s]
    BY DEF RouteInv
  <2>2. k # kind
    BY <1>1, <2>1 DEF Live
  <2> QED
    BY <1>1, <1>6, <2>1, <2>2
<1> QED
  BY <1>2, <1>8, <1>9, <1>10 DEF RouteInv

LEMMA RouteCut ==
    ASSUME RouteInv, Cut
    PROVE  RouteInv'
<1>1. /\ stale' = stale \union {streams[k].id : k \in {j \in Kinds : streams[j] # Nil
                                                                   /\ ~streams[j].first}}
      /\ streams' = [k \in Kinds |-> Nil]
      /\ UNCHANGED <<downlink_id, misrouted>>
  BY DEF Cut, dispatch
<1>2. \A k \in Kinds : ~Live(k)'
  BY <1>1 DEF Live
<1>3. ASSUME NEW s \in Service PROVE downlink_id[s] \in stale' \union {Nil}
  <2>1. CASE downlink_id[s] \in stale \union {Nil}
    BY <1>1, <2>1
  <2>2. CASE downlink_id[s] \notin stale \union {Nil}
    <3>1. PICK k \in Kinds : Live(k) /\ streams[k].id = downlink_id[s]
      BY <2>2 DEF RouteInv
    <3>2. ~streams[k].first
      BY <3>1 DEF RouteInv, Known
    <3> QED
      BY <1>1, <3>1, <3>2 DEF Live
  <2> QED
    BY <2>1, <2>2
<1> QED
  BY <1>1, <1>2, <1>3 DEF RouteInv

LEMMA RouteRestart ==
    ASSUME RouteInv, Restart
    PROVE  RouteInv'
<1>1. /\ streams' = [k \in Kinds |-> Nil] /\ misrouted' = misrouted
      /\ downlink_id' = [s \in Service |-> Nil]
  BY DEF Restart, Boot
<1>2. \A k \in Kinds : ~Live(k)'
  BY <1>1 DEF Live
<1>3. \A s \in Service : downlink_id'[s] = Nil
  BY <1>1
<1> QED
  BY <1>1, <1>2, <1>3 DEF RouteInv

(* A block goes to the service that the path of its stream names. *)
LEMMA ReceiverIs ==
    ASSUME SdkTypes, RouteInv, NEW kind \in Kinds, Live(kind), NEW st, st = streams[kind]
    PROVE  Receiver(st.id, kind, st.v, st.first) = Target(kind)
<1> DEFINE d == Dispatched(st.id, kind, st.v, st.first)
<1>1. st \in Streams
  BY DEF SdkTypes, CloudTypes, Live
<1>2. st.first \in BOOLEAN
  BY <1>1 DEF Streams
<1>3. /\ d.seen \in Service \union {Nil}
      /\ \A r \in Service :
             d.ids[r] = IF st.first /\ r = Target(kind) THEN st.id ELSE downlink_id[r]
  <2>1. NodeTypes
    BY DEF SdkTypes
  <2> QED
    BY <1>2, <2>1, DispatchedIs
<1>4. Receiver(st.id, kind, st.v, st.first) = ActiveService(st.id, d)
  BY Zenon DEF Receiver
<1>5. \A r \in Service : downlink_id[r] = st.id <=> (~st.first /\ r = Target(kind))
  BY DEF RouteInv, Known
<1>6. \A r \in Service : d.ids[r] = st.id <=> r = Target(kind)
  BY <1>2, <1>3, <1>5
<1> HIDE DEF d
<1>7. CASE Target(kind) \in Service
  BY <1>3, <1>4, <1>6, <1>7, ActiveIs
<1>8. CASE Target(kind) = Nil
  <2>1. \A r \in Service : d.ids[r] # st.id
    BY <1>6, <1>8, NilAssumption
  <2> QED
    BY <1>3, <1>4, <1>8, <2>1, ActiveIs
<1> QED
  BY <1>7, <1>8, TargetFacts DEF Service

LEMMA RouteBlock ==
    ASSUME SdkTypes, RouteInv, NEW kind \in Kinds, SendBlock(kind)
    PROVE  RouteInv'
<1> DEFINE st == streams[kind]
           data == Head(st.left)
           is_last == (Len(st.left) = 1)
           t == Target(kind)
<1>1. /\ st \in Streams /\ st # Nil
      /\ \A k \in Kinds : k # kind => streams'[k] = streams[k]
      /\ Len(st.left) = 1 => streams'[kind] = Nil
      /\ Len(st.left) # 1 => streams'[kind] = Advanced(st)
      /\ UNCHANGED <<desired, reported, stale>>
      /\ block_push(st.id, kind, st.v, st.first, data, is_last)
  BY BlockSent, Zenon
<1>2. /\ st.id \in 1..31 /\ st.first \in BOOLEAN /\ is_last \in BOOLEAN
  BY <1>1 DEF Streams
<1>3. t = Receiver(st.id, kind, st.v, st.first)
  BY <1>1, ReceiverIs DEF Live
<1>4. /\ misrouted' = (misrouted \/ t # Target(kind))
      /\ \A r \in Service :
             downlink_id'[r] = IF is_last /\ r = t THEN Nil
                               ELSE IF st.first /\ r = t THEN st.id ELSE downlink_id[r]
  <2> DEFINE dl == Download(st.id, kind, st.v, st.first)
  <2>1. NodeTypes
    BY DEF SdkTypes
  <2>2. dl = Download(st.id, kind, st.v, st.first)
    OBVIOUS
  <2> HIDE DEF dl, st, data, t
  <2>3. Received(t, dl, st.id, kind, st.first, data, is_last)
    BY <1>1, <1>2, <1>3, <2>1, <2>2, BlockPushed, ZenonT(30)
  <2> QED
    BY <2>3 DEF Received, t
<1>5. misrouted' = FALSE
  BY <1>4 DEF RouteInv
<1>6. st.id # Nil /\ \A k \in Kinds : Live(k) => streams[k].id # Nil
  <2>1. \A k \in Kinds : Live(k) => streams[k].id \in 1..31
    BY DEF SdkTypes, CloudTypes, Live, Streams
  <2> QED
    BY <1>1, <2>1, NilAssumption DEF Live
<1>7. \A k \in Kinds : k # kind => Target(k) # t
  BY TargetFacts DEF Kinds, Service
<1>8. /\ \A r \in Service : downlink_id[r] = st.id <=> (~st.first /\ r = t)
      /\ \A k \in Kinds : (Live(k) /\ k # kind) => streams[k].id # st.id
      /\ \A k \in Kinds : Live(k) => streams[k].id \notin stale
  BY <1>1 DEF RouteInv, Known, Live
<1>9. ASSUME NEW k \in Kinds, k # kind
      PROVE  (Live(k)' <=> Live(k)) /\ (Live(k) => Known(k)') /\ streams'[k] = streams[k]
  <2>1. (Live(k)' <=> Live(k)) /\ streams'[k] = streams[k]
    BY <1>1, <1>9 DEF Live
  <2>2. ASSUME Live(k) PROVE Known(k)'
    <3>1. \A r \in Service : downlink_id[r] = streams[k].id
                             <=> (~streams[k].first /\ r = Target(k))
      BY <2>2 DEF RouteInv, Known
    <3>2. Target(k) # t /\ streams[k].id # Nil /\ streams[k].id # st.id
      BY <1>6, <1>7, <1>8, <1>9, <2>2
    <3> HIDE DEF st, t, is_last
    <3>3. \A r \in Service : downlink_id'[r] = streams[k].id
                             <=> (~streams[k].first /\ r = Target(k))
      BY <1>4, <3>1, <3>2
    <3> QED
      BY <2>1, <3>3 DEF Known
  <2> QED
    BY <2>1, <2>2
<1>10. CASE Len(st.left) = 1
  <2>1. ~Live(kind)'
    BY <1>1, <1>10 DEF Live
  <2>2. \A r \in Service : downlink_id'[r] = IF r = t THEN Nil ELSE
                                             IF st.first /\ r = t THEN st.id ELSE downlink_id[r]
    BY <1>4, <1>10
  <2> HIDE DEF st, t
  <2>3. ASSUME NEW r \in Service, downlink_id'[r] \notin stale \union {Nil}
        PROVE  \E k \in Kinds : Live(k)' /\ streams'[k].id = downlink_id'[r]
    <3>1. r # t /\ downlink_id'[r] = downlink_id[r]
      BY <2>2, <2>3
    <3>2. PICK k \in Kinds : Live(k) /\ streams[k].id = downlink_id[r]
      BY <2>3, <3>1 DEF RouteInv
    <3>3. k # kind
      BY <1>8, <3>1, <3>2 DEF st
    <3> QED
      BY <1>9, <3>1, <3>2, <3>3
  <2> QED
    BY <1>1, <1>5, <1>8, <1>9, <2>1, <2>3 DEF RouteInv
<1>11. CASE Len(st.left) # 1
  <2>1. /\ Live(kind)' /\ streams'[kind].id = st.id /\ streams'[kind].first = FALSE
    <3>1. /\ Advanced(st).id = st.id /\ Advanced(st).first = FALSE /\ Advanced(st) \in Streams
      BY <1>1, <1>11, AdvancedIs
    <3>2. streams'[kind] = Advanced(st)
      BY <1>1, <1>11
    <3>3. Advanced(st) # Nil
      BY <3>1, StreamsAssumption
    <3> QED
      BY <3>1, <3>2, <3>3 DEF Live
  <2>2. \A r \in Service : downlink_id'[r] = IF st.first /\ r = t THEN st.id ELSE downlink_id[r]
    BY <1>4, <1>11
  <2> HIDE DEF st, t
  <2>3. \A r \in Service : downlink_id'[r] = st.id <=> r = t
    BY <1>2, <1>8, <2>2
  <2>4. Known(kind)'
    BY <2>1, <2>3 DEF Known, t
  <2>5. ASSUME NEW r \in Service, downlink_id'[r] \notin stale \union {Nil}
        PROVE  \E k \in Kinds : Live(k)' /\ streams'[k].id = downlink_id'[r]
    <3>1. CASE r = t
      BY <2>1, <2>3, <3>1
    <3>2. CASE r # t
      <4>1. downlink_id'[r] = downlink_id[r]
        BY <2>2, <3>2
      <4>2. PICK k \in Kinds : Live(k) /\ streams[k].id = downlink_id[r]
        BY <2>5, <4>1 DEF RouteInv
      <4>3. k # kind
        BY <1>8, <3>2, <4>2 DEF st
      <4> QED
        BY <1>9, <4>1, <4>2, <4>3
    <3> QED
      BY <3>1, <3>2
  <2>6. \A k \in Kinds : Live(k)' => (Known(k)' /\ streams'[k].id \notin stale')
    <3>1. st.id \notin stale /\ stale' = stale
      BY <1>1, <1>8 DEF st, Live
    <3> QED
      BY <1>8, <1>9, <2>1, <2>4, <3>1
  <2>7. \A j, k \in Kinds : (Live(j)' /\ Live(k)' /\ j # k) => streams'[j].id # streams'[k].id
    <3>1. ASSUME NEW k \in Kinds, k # kind, Live(k)' PROVE streams'[k].id # st.id
      BY <1>8, <1>9, <3>1
    <3>2. ASSUME NEW j \in Kinds, NEW k \in Kinds, j # kind, k # kind, j # k, Live(j)', Live(k)'
          PROVE  streams'[j].id # streams'[k].id
      BY <1>9, <3>2 DEF RouteInv
    <3> QED
      BY <2>1, <3>1, <3>2
  <2> QED
    BY <1>1, <1>5, <2>5, <2>6, <2>7 DEF RouteInv
<1> QED
  BY <1>10, <1>11

LEMMA RouteStep ==
    ASSUME ~ReuseIds, SdkTypes, RouteInv, [Next]_vars
    PROVE  RouteInv'
<1>1. CASE golioth_sync_to_cloud
  BY <1>1, RouteStutters DEF golioth_sync_to_cloud
<1>2. CASE \E state \in {"IDLE", "UPDATING"} : golioth_ota_set_status(state)
  BY <1>2, RouteStutters DEF golioth_ota_set_status, cloud
<1>3. CASE Desire
  BY <1>3, RouteStutters DEF Desire
<1>4. CASE \E ok \in BOOLEAN : SendManifest(ok)
  BY <1>4, RouteManifest
<1>5. CASE SendSettings
  BY <1>5, RouteSettings
<1>6. CASE \E kind \in Kinds : OpenStream(kind) \/ SendBlock(kind)
  BY <1>6, RouteOpen, RouteBlock
<1>7. CASE Cut
  BY <1>7, RouteCut
<1>8. CASE sys_reboot \/ PowerLoss
  BY <1>8, RouteRestart, Zenon DEF sys_reboot, PowerLoss
<1>9. CASE UNCHANGED vars
  BY <1>9, RouteStutters DEF vars, cloud
<1> QED
  BY <1>1, <1>2, <1>3, <1>4, <1>5, <1>6, <1>7, <1>8, <1>9, Zenon DEF Next

LEMMA RoutesHold ==
    ASSUME ~ReuseIds
    PROVE  Spec => []RouteInv
<1>1. Init => RouteInv
  BY RouteInit
<1>2. SdkTypes /\ RouteInv /\ [Next]_vars => RouteInv'
  BY RouteStep
<1> QED
  BY <1>1, <1>2, TypesHold, PTL DEF Spec

(* A block or an entry is given to the service that its path names, although
   pouch_downlink_data has nothing but the stream ID to go by, whichever streams
   are open at a time and wherever they are cut off, if the cloud does not use the
   ID of a stream that was cut off before the node restarts. *)
THEOREM DataIsRouted ==
    ASSUME ~ReuseIds
    PROVE  Spec => []RoutedByPath
<1>1. RouteInv => RoutedByPath
  BY DEF RouteInv, RoutedByPath
<1> QED
  BY <1>1, RoutesHold, PTL

-----------------------------------------------------------------------------
(* Settings, if they come in one block *)

(* The tokens of a message up to the nil, if there is one, are understood. *)
LEMMA MessageUnderstood ==
    ASSUME NEW v \in SettingsVersions, NEW m, NEW n, IsMessage(m, v, n)
    PROVE  /\ 2 \in Understood(m) /\ \A i \in 1..n : i + 2 \in Understood(m)
           /\ \A i \in Understood(m) :
                  m[i].t \in {"version", "setting"} => m[i].v = v
<1>1. /\ n \in Nat /\ Len(m) \in Nat /\ Len(m) >= 2
      /\ m[1] = [t |-> "map"] /\ m[2] = [t |-> "version", v |-> v]
      /\ n = 0 => Len(m) = 3 /\ m[3] = [t |-> "nil"]
      /\ n # 0 => Len(m) = n + 2
      /\ \A i \in 1..n : m[i + 2] = Setting(v, i)
  BY DEF IsMessage
<1>2. DOMAIN m = 1..Len(m)
  BY DEF IsMessage
<1>3. m[1].t = "map" /\ m[2].t = "version" /\ m[2].v = v
  BY <1>1
<1>4. \A i \in 1..n : m[i + 2].t = "setting" /\ m[i + 2].v = v
  <2>1. \A i : Setting(v, i).t = "setting" /\ Setting(v, i).v = v
    BY DEF Setting
  <2> QED
    BY <1>1, <2>1
<1> DEFINE l == Len(m)
<1>5. DOMAIN m = 1..l /\ n \in Nat /\ l \in Nat /\ l >= 2 /\ (n # 0 => l = n + 2)
  BY <1>1, <1>2
<1> HIDE DEF l
<1>6. 2 \in Understood(m)
  <2>1. \A j \in 1..2 : j = 1 \/ j = 2
    OBVIOUS
  <2>2. 2 \in DOMAIN m
    BY <1>5
  <2>3. \A j \in 1..2 : m[j].t # "nil"
    BY <1>3, <2>1
  <2> QED
    BY <1>3, <2>2, <2>3 DEF Understood
<1>7. ASSUME NEW i \in 1..n PROVE i + 2 \in Understood(m)
  <2>1. i + 2 \in DOMAIN m
    BY <1>5
  <2>2. ASSUME NEW j \in 1..(i + 2) PROVE m[j].t # "nil"
    <3>1. CASE j = 1 \/ j = 2
      BY <1>3, <3>1
    <3>2. CASE j # 1 /\ j # 2
      <4>1. j - 2 \in 1..n /\ (j - 2) + 2 = j
        BY <1>1, <3>2
      <4> QED
        BY <1>4, <4>1
    <3> QED
      BY <3>1, <3>2
  <2> QED
    BY <1>3, <2>1, <2>2 DEF Understood
<1>8. ASSUME NEW i \in DOMAIN m, m[i].t \in {"version", "setting"} PROVE m[i].v = v
  <2>1. CASE i = 1 \/ i = 2
    BY <1>3, <1>8, <2>1
  <2>2. CASE i # 1 /\ i # 2 /\ n = 0
    <3>1. Len(m) = 3 /\ m[3].t = "nil"
      BY <1>1, <2>2
    <3>2. i = 3
      BY <1>2, <2>2, <3>1
    <3> QED
      BY <1>8, <3>1, <3>2
  <2>3. CASE i # 1 /\ i # 2 /\ n # 0
    <3>1. Len(m) = n + 2
      BY <1>1, <2>3
    <3>2. i - 2 \in 1..n /\ (i - 2) + 2 = i
      BY <1>1, <1>2, <2>3, <3>1
    <3> QED
      BY <1>4, <3>2
  <2> QED
    BY <2>1, <2>2, <2>3
<1>9. Understood(m) \subseteq DOMAIN m
  BY DEF Understood
<1> QED
  BY <1>6, <1>7, <1>8, <1>9

LEMMA SettingsReceived ==
    ASSUME NEW v \in SettingsVersions, NEW m, m = SettingsMessage(v), settings_downlink(m)
    PROVE  /\ settings_version' = v
           /\ \A i \in 1..Len(SettingsSent[v]) :
                  IsHandled(SettingsSent[v][i]) => applied'[SettingsSent[v][i].key] = v
<1> DEFINE n == Len(SettingsSent[v])
           toks == {m[i] : i \in Understood(m)}
           versions == {tok.v : tok \in {x \in toks : x.t = "version"}}
           set(key) == {tok.v : tok \in {x \in toks : x.t = "setting" /\ x.key = key
                                                      /\ IsHandled(x)}}
<1>1. /\ settings_version' = IF versions = {} THEN settings_version
                             ELSE CHOOSE w \in versions : TRUE
      /\ applied' = [k \in DOMAIN Handlers |->
                        IF set(k) = {} THEN applied[k] ELSE CHOOSE w \in set(k) : TRUE]
  BY Zenon DEF settings_downlink
<1>2. IsMessage(m, v, n)
  BY MessageIs, Zenon
<1> HIDE DEF n
<1>3. /\ 2 \in Understood(m) /\ \A i \in 1..n : i + 2 \in Understood(m)
      /\ \A i \in Understood(m) : m[i].t \in {"version", "setting"} => m[i].v = v
  BY <1>2, MessageUnderstood
<1>4. m[2].t = "version" /\ m[2].v = v /\ \A i \in 1..n : m[i + 2] = Setting(v, i)
  BY <1>2 DEF IsMessage
<1>5. \A x \in toks : x.t \in {"version", "setting"} => x.v = v
  BY <1>3
<1>6. m[2] \in toks /\ \A i \in 1..n : Setting(v, i) \in toks
  BY <1>3, <1>4
<1> HIDE DEF toks
<1>7. versions = {v}
  BY <1>4, <1>5, <1>6
<1>8. settings_version' = v
  <2> HIDE DEF versions, set
  <2> QED
    BY <1>1, <1>7
<1>9. ASSUME NEW i \in 1..n, IsHandled(SettingsSent[v][i])
      PROVE  applied'[SettingsSent[v][i].key] = v
  <2> DEFINE k == SettingsSent[v][i].key
             x == Setting(v, i)
  <2>1. x.t = "setting" /\ x.v = v /\ x.key = k /\ x.type = SettingsSent[v][i].type
    BY DEF Setting
  <2>2. k \in DOMAIN Handlers /\ IsHandled(x)
    BY <1>9, <2>1 DEF IsHandled
  <2>3. x \in toks
    BY <1>6
  <2> HIDE DEF k, x
  <2>4. set(k) = {v}
    BY <1>5, <2>1, <2>2, <2>3
  <2> HIDE DEF set
  <2>5. applied'[k] = IF set(k) = {} THEN applied[k] ELSE CHOOSE w \in set(k) : TRUE
    BY <1>1, <2>2
  <2>6. applied'[k] = v
    BY <2>4, <2>5
  <2> QED
    BY <2>6 DEF k
<1> QED
  BY <1>8, <1>9 DEF n

(* A block that is no map has no effect. *)
LEMMA UnitsIgnored ==
    ASSUME NEW data, data[1].t = "unit", settings_downlink(data)
    PROVE  /\ settings_version' = settings_version
           /\ \A k \in DOMAIN Handlers : applied'[k] = applied[k]
<1> DEFINE toks == {data[i] : i \in Understood(data)}
           versions == {tok.v : tok \in {x \in toks : x.t = "version"}}
           set(key) == {tok.v : tok \in {x \in toks : x.t = "setting" /\ x.key = key
                                                      /\ IsHandled(x)}}
<1>1. /\ settings_version' = IF versions = {} THEN settings_version
                             ELSE CHOOSE w \in versions : TRUE
      /\ applied' = [k \in DOMAIN Handlers |->
                        IF set(k) = {} THEN applied[k] ELSE CHOOSE w \in set(k) : TRUE]
  BY Zenon DEF settings_downlink
<1>2. toks = {}
  BY DEF Understood
<1> HIDE DEF toks
<1>3. versions = {} /\ \A k : set(k) = {}
  BY <1>2
<1> HIDE DEF versions, set
<1> QED
  BY <1>1, <1>3

(* The streams that there are carry units. *)
Carries(st) == \A i \in 1..Len(st.left) : st.left[i][1].t = "unit"

SettingsInv ==
    /\ SettingsApplied
    /\ ~Live("settings")
    /\ \A k \in Kinds : Live(k) => Carries(streams[k])

LEMMA AppliedStays ==
    ASSUME SdkTypes, SettingsApplied, settings_version' = settings_version,
           \A k \in DOMAIN Handlers : applied'[k] = applied[k]
    PROVE  SettingsApplied'
  BY DEF SettingsApplied, IsHandled

LEMMA SettingsStutters ==
    ASSUME SdkTypes, SettingsInv, UNCHANGED <<settings_version, applied, streams>>
    PROVE  SettingsInv'
<1>1. SettingsApplied'
  BY AppliedStays DEF SettingsInv
<1> QED
  BY <1>1 DEF SettingsInv, Live

LEMMA UnitBlocks ==
    ASSUME NEW kind \in {"component", "unknown"}, NEW v, NEW st, st.left = Blocks(kind, v)
    PROVE  Carries(st)
<1>1. \A w, off : <<Unit(w, off)>>[1].t = "unit"
  BY DEF Unit
<1>2. CASE kind = "component"
  <2>1. st.left = [i \in 1..ImageUnits |-> <<Image(v)[i]>>]
    BY <1>2 DEF Blocks
  <2>2. \A i \in 1..ImageUnits : Image(v)[i] = Unit(v, i)
    BY DEF Image
  <2>3. ImageUnits \in Nat
    BY SdkAssumption
  <2>4. Len(st.left) = ImageUnits
    BY <2>1, <2>3
  <2>5. \A i \in 1..ImageUnits : st.left[i] = <<Unit(v, i)>>
    BY <2>1, <2>2
  <2> QED
    BY <1>1, <2>4, <2>5 DEF Carries
<1>3. CASE kind = "unknown"
  <2>1. st.left = [i \in 1..2 |-> <<Unit(0, i)>>]
    BY <1>3 DEF Blocks
  <2>2. Len(st.left) = 2 /\ \A i \in 1..2 : st.left[i] = <<Unit(0, i)>>
    BY <2>1
  <2> QED
    BY <1>1, <2>2 DEF Carries
<1> QED
  BY <1>2, <1>3

LEMMA SettingsOpen ==
    ASSUME ~Fragments, SdkTypes, SettingsInv, NEW kind \in Kinds, OpenStream(kind)
    PROVE  SettingsInv'
<1>1. PICK st \in Streams :
          /\ streams'[kind] = st
          /\ \A k \in Kinds : k # kind => streams'[k] = streams[k]
          /\ st.left = Blocks(kind, st.v)
          /\ kind = "settings" => Fragments
          /\ UNCHANGED <<dispatch, node, version, desired, reported, stale, misrouted, faults>>
  BY StreamOpened, Zenon
<1>2. UNCHANGED <<settings_version, applied>>
  BY <1>1 DEF node
<1>3. SettingsApplied'
  BY <1>2, AppliedStays DEF SettingsInv
<1>4. kind \in {"component", "unknown"}
  BY <1>1 DEF Kinds
<1>5. Carries(st)
  BY <1>1, <1>4, UnitBlocks
<1>6. ~Live("settings")'
  BY <1>1, <1>4 DEF SettingsInv, Live, Kinds
<1>7. \A k \in Kinds : Live(k)' => Carries(streams'[k])
  BY <1>1, <1>5 DEF SettingsInv, Live
<1> QED
  BY <1>3, <1>6, <1>7 DEF SettingsInv

LEMMA CarriesOn ==
    ASSUME NEW st \in Streams, Carries(st)
    PROVE  /\ Head(st.left)[1].t = "unit"
           /\ Len(st.left) # 1 => Carries(Advanced(st))
<1> DEFINE T == Seq(Tokens)
           l == st.left
<1>1. l \in Seq(T) /\ l # <<>>
  BY DEF Streams
<1> HIDE DEF T, l
<1>2. /\ Len(l) \in Nat \ {0} /\ Head(l) = l[1]
      /\ Tail(l) \in Seq(T) /\ Len(Tail(l)) = Len(l) - 1
      /\ \A i \in 1..Len(Tail(l)) : Tail(l)[i] = l[i + 1]
  BY <1>1, HeadTailProperties, LenProperties, EmptySeq
<1>3. \A i \in 1..Len(l) : l[i][1].t = "unit"
  BY DEF Carries, l
<1>4. Head(l)[1].t = "unit"
  BY <1>2, <1>3
<1>5. ASSUME Len(l) # 1 PROVE Carries(Advanced(st))
  <2>1. Advanced(st).left = Tail(l)
    BY <1>5, AdvancedIs DEF l
  <2> DEFINE r == Tail(l)
  <2>2. /\ Advanced(st).left = r /\ Len(r) = Len(l) - 1
        /\ \A i \in 1..Len(r) : r[i] = l[i + 1]
    BY <1>2, <2>1
  <2> HIDE DEF r
  <2>3. \A i \in 1..Len(r) : r[i][1].t = "unit"
    BY <1>2, <1>3, <2>2
  <2> QED
    BY <2>2, <2>3 DEF Carries
<1> QED
  BY <1>4, <1>5 DEF l

LEMMA SettingsBlock ==
    ASSUME SdkTypes, SettingsInv, NEW kind \in Kinds, SendBlock(kind)
    PROVE  SettingsInv'
<1> DEFINE st == streams[kind]
           data == Head(st.left)
           is_last == (Len(st.left) = 1)
           s == Receiver(st.id, kind, st.v, st.first)
           dl == Download(st.id, kind, st.v, st.first)
<1>1. /\ st \in Streams /\ st # Nil /\ data \in Seq(Tokens)
      /\ \A k \in Kinds : k # kind => streams'[k] = streams[k]
      /\ Len(st.left) = 1 => streams'[kind] = Nil
      /\ Len(st.left) # 1 => streams'[kind] = Advanced(st)
      /\ block_push(st.id, kind, st.v, st.first, data, is_last)
  BY BlockSent, Zenon
<1>2. /\ st.id \in 1..31 /\ st.first \in BOOLEAN /\ is_last \in BOOLEAN
  BY <1>1 DEF Streams
<1>3. Carries(st)
  BY <1>1 DEF SettingsInv, Live
<1>4. data[1].t = "unit" /\ (Len(st.left) # 1 => Carries(Advanced(st)))
  BY <1>1, <1>3, CarriesOn
<1>5. /\ s \in {"ota_component", "settings", Nil}
      /\ s = "ota_component" => ota_receive_component_data(dl, data, is_last)
      /\ s = "settings" => settings_downlink(data)
      /\ s = Nil => UNCHANGED <<ota, settings_version, applied, flash_context, flash, holed, image, faults>>
  <2>1. NodeTypes
    BY DEF SdkTypes
  <2>2. s = Receiver(st.id, kind, st.v, st.first) /\ dl = Download(st.id, kind, st.v, st.first)
    OBVIOUS
  <2> HIDE DEF s, dl, st, data
  <2>3. Received(s, dl, st.id, kind, st.first, data, is_last)
    BY <1>1, <1>2, <2>1, <2>2, BlockPushed, ZenonT(30)
  <2> QED
    BY <2>3 DEF Received
<1> HIDE DEF s, dl, data, is_last
<1>6. /\ settings_version' = settings_version
      /\ \A k \in DOMAIN Handlers : applied'[k] = applied[k]
  <2>1. CASE s = "ota_component"
    BY <1>5, <2>1 DEF ota_receive_component_data
  <2>2. CASE s = "settings"
    BY <1>4, <1>5, <2>2, UnitsIgnored
  <2>3. CASE s = Nil
    BY <1>5, <2>3
  <2> QED
    BY <1>5, <2>1, <2>2, <2>3
<1>7. SettingsApplied'
  BY <1>6, AppliedStays DEF SettingsInv
<1>8. kind # "settings"
  BY <1>1 DEF SettingsInv, Live
<1>9. ~Live("settings")'
  BY <1>1, <1>8 DEF SettingsInv, Live, Kinds
<1>10. \A k \in Kinds : Live(k)' => Carries(streams'[k])
  BY <1>1, <1>4 DEF SettingsInv, Live
<1> QED
  BY <1>7, <1>9, <1>10 DEF SettingsInv

LEMMA SettingsManifest ==
    ASSUME SdkTypes, SettingsInv, NEW ok \in BOOLEAN, SendManifest(ok)
    PROVE  SettingsInv'
<1>1. UNCHANGED cloud /\ block_push(0, "manifest", Nil, TRUE, Manifest(ok), TRUE)
  BY Zenon DEF SendManifest
<1>2. ota_receive_manifest(Manifest(ok))
  BY <1>1, EntryPushed DEF SdkTypes
<1>3. UNCHANGED <<settings_version, applied>>
  BY <1>2 DEF ota_receive_manifest
<1> QED
  BY <1>1, <1>3, SettingsStutters DEF cloud

LEMMA SettingsEntry ==
    ASSUME SdkTypes, SettingsInv, SendSettings
    PROVE  SettingsInv'
<1> DEFINE v == desired.settings
           m == SettingsMessage(v)
<1>1. UNCHANGED cloud /\ block_push(0, "settings", Nil, TRUE, m, TRUE)
  BY Zenon DEF SendSettings
<1>2. v \in SettingsVersions /\ m = SettingsMessage(v)
  BY DEF SdkTypes, CloudTypes
<1> HIDE DEF m
<1>3. settings_downlink(m)
  BY <1>1, EntryPushed DEF SdkTypes
<1>4. /\ settings_version' = v
      /\ \A i \in 1..Len(SettingsSent[v]) :
             IsHandled(SettingsSent[v][i]) => applied'[SettingsSent[v][i].key] = v
  BY <1>2, <1>3, SettingsReceived
<1>5. DOMAIN SettingsSent[v] = 1..Len(SettingsSent[v])
  BY <1>2, SettingsSentIs
<1> HIDE DEF v
<1>6. SettingsApplied'
  BY <1>4, <1>5 DEF SettingsApplied
<1>7. UNCHANGED streams
  BY <1>1 DEF cloud
<1> QED
  BY <1>6, <1>7 DEF SettingsInv, Live

LEMMA SettingsStep ==
    ASSUME ~Fragments, SdkTypes, SettingsInv, [Next]_vars
    PROVE  SettingsInv'
<1>1. CASE golioth_sync_to_cloud
  BY <1>1, SettingsStutters DEF golioth_sync_to_cloud, node
<1>2. CASE \E state \in {"IDLE", "UPDATING"} : golioth_ota_set_status(state)
  BY <1>2, SettingsStutters DEF golioth_ota_set_status, cloud
<1>3. CASE Desire
  BY <1>3, SettingsStutters DEF Desire, node
<1>4. CASE \E ok \in BOOLEAN : SendManifest(ok)
  BY <1>4, SettingsManifest
<1>5. CASE SendSettings
  BY <1>5, SettingsEntry
<1>6. CASE \E kind \in Kinds : OpenStream(kind) \/ SendBlock(kind)
  BY <1>6, SettingsOpen, SettingsBlock
<1>7. CASE Cut
  <2>1. streams' = [k \in Kinds |-> Nil] /\ UNCHANGED <<settings_version, applied>>
    BY <1>7 DEF Cut, node
  <2>2. \A k \in Kinds : ~Live(k)'
    BY <2>1 DEF Live
  <2>3. SettingsApplied'
    BY <2>1, AppliedStays DEF SettingsInv
  <2> QED
    BY <2>2, <2>3 DEF SettingsInv, Kinds
<1>8. CASE sys_reboot \/ PowerLoss
  <2>1. Restart
    BY <1>8, Zenon DEF sys_reboot, PowerLoss
  <2>2. streams' = [k \in Kinds |-> Nil] /\ settings_version' = Nil
    BY <2>1 DEF Restart, Boot
  <2>3. \A k \in Kinds : ~Live(k)'
    BY <2>2 DEF Live
  <2>4. SettingsApplied'
    BY <2>2 DEF SettingsApplied
  <2> QED
    BY <2>3, <2>4 DEF SettingsInv, Kinds
<1>9. CASE UNCHANGED vars
  BY <1>9, SettingsStutters DEF vars, cloud, node
<1> QED
  BY <1>1, <1>2, <1>3, <1>4, <1>5, <1>6, <1>7, <1>8, <1>9, Zenon DEF Next

(* A settings version that settings_uplink reports is one of which every setting
   that has a handler was given to it, if the cloud sends settings in one block:
   restarts, cuts and streams for other services, misrouted ones too, do not get
   in between the version and the settings. *)
THEOREM SettingsAreApplied ==
    ASSUME ~Fragments
    PROVE  Spec => []SettingsApplied
<1>1. Init => SettingsInv
  <2> SUFFICES ASSUME Init PROVE SettingsInv
    OBVIOUS
  <2>1. streams = [k \in Kinds |-> Nil] /\ settings_version = Nil
    BY Zenon DEF Init
  <2>2. \A k \in Kinds : ~Live(k)
    BY <2>1 DEF Live
  <2> QED
    BY <2>1, <2>2 DEF SettingsInv, SettingsApplied, Kinds
<1>2. SdkTypes /\ SettingsInv /\ [Next]_vars => SettingsInv'
  BY SettingsStep
<1>3. SettingsInv => SettingsApplied
  BY DEF SettingsInv
<1> QED
  BY <1>1, <1>2, <1>3, TypesHold, PTL DEF Spec

-----------------------------------------------------------------------------
(* Images, if the cloud moreover sends no manifest between the blocks of a component *)

(* The first n units of an image *)
Part(v, n) == [i \in 1..n |-> Unit(v, i)]

(* A component of which n units were sent: the rest of them is left *)
Remains(st, n) ==
    /\ n \in 0..(ImageUnits - 1) /\ Len(st.left) = ImageUnits - n
    /\ \A i \in 1..Len(st.left) : st.left[i] = <<Unit(st.v, n + i)>>
    /\ st.first <=> n = 0

(* and, after the first, the node has got as far as that. *)
Arrived(st, n) ==
    /\ component_download.id = st.id /\ component_download.offset = n
    /\ ota.state = "DOWNLOADING" => (holed \/ (flash_context /\ flash = Part(st.v, n)))

ComponentAt(st, n) == Remains(st, n) /\ (~st.first => Arrived(st, n))

ImageInv ==
    /\ WholeImage
    /\ Live("component") =>
           \E n \in 0..(ImageUnits - 1) : ComponentAt(streams["component"], n)

LEMMA PartEmpty ==
    ASSUME NEW v
    PROVE  Part(v, 0) = <<>>
  BY DEF Part

LEMMA PartGrows ==
    ASSUME NEW v, NEW n \in Nat
    PROVE  Part(v, n) \o <<Unit(v, n + 1)>> = Part(v, n + 1)
<1> DEFINE S == {Unit(v, i) : i \in 1..(n + 1)}
           x == Part(v, n)
           y == <<Unit(v, n + 1)>>
           z == Part(v, n + 1)
<1>1. x \in Seq(S) /\ Len(x) = n /\ \A i \in 1..n : x[i] = Unit(v, i)
  BY DEF Part
<1>2. y \in Seq(S) /\ Len(y) = 1 /\ y[1] = Unit(v, n + 1)
  <2> DEFINE e == Unit(v, n + 1)
  <2>1. e \in S
    OBVIOUS
  <2> HIDE DEF e, S
  <2>2. <<e>> \in Seq(S) /\ Len(<<e>>) = 1 /\ <<e>>[1] = e
    BY <2>1
  <2> QED
    BY <2>2 DEF e
<1>3. z \in Seq(S) /\ Len(z) = n + 1 /\ \A i \in 1..(n + 1) : z[i] = Unit(v, i)
  BY DEF Part
<1> HIDE DEF S, x, y, z
<1>4. /\ x \o y \in Seq(S) /\ Len(x \o y) = Len(x) + Len(y)
      /\ \A i \in 1..Len(x) + Len(y) : (x \o y)[i] = IF i <= Len(x) THEN x[i] ELSE y[i - Len(x)]
  BY <1>1, <1>2, ConcatProperties
<1> DEFINE w == x \o y
<1>5. /\ w \in Seq(S) /\ Len(w) = n + 1
      /\ \A i \in 1..(n + 1) : w[i] = IF i <= n THEN x[i] ELSE y[i - n]
  BY <1>1, <1>2, <1>4
<1> HIDE DEF w
<1>6. ASSUME NEW i \in 1..(n + 1) PROVE w[i] = z[i]
  <2>1. CASE i <= n
    BY <1>1, <1>3, <1>5, <2>1
  <2>2. CASE ~(i <= n)
    <3>1. i = n + 1 /\ i - n = 1
      BY <2>2
    <3> QED
      BY <1>2, <1>3, <1>5, <2>2, <3>1
  <2> QED
    BY <2>1, <2>2
<1>7. w = z
  BY <1>3, <1>5, <1>6, SeqEqual
<1> QED
  BY <1>7, Zenon DEF w, x, y, z

LEMMA PartWhole ==
    ASSUME NEW v
    PROVE  Part(v, ImageUnits) = Image(v)
  BY Zenon DEF Part, Image

LEMMA ComponentOpened ==
    ASSUME NEW st, st.left = Blocks("component", st.v), st.first = TRUE
    PROVE  ComponentAt(st, 0)
<1>1. ImageUnits \in Nat \ {0}
  BY SdkAssumption
<1>2. st.left = [i \in 1..ImageUnits |-> <<Image(st.v)[i]>>]
  BY DEF Blocks
<1>3. \A i \in 1..ImageUnits : Image(st.v)[i] = Unit(st.v, i)
  BY DEF Image
<1>4. Len(st.left) = ImageUnits
  BY <1>1, <1>2
<1>5. \A i \in 1..ImageUnits : st.left[i] = <<Unit(st.v, 0 + i)>>
  <2>1. \A i \in 1..ImageUnits : st.left[i] = <<Unit(st.v, i)>>
    BY <1>2, <1>3
  <2>2. \A i \in 1..ImageUnits : 0 + i = i
    BY <1>1
  <2> QED
    BY <2>1, <2>2
<1>6. Remains(st, 0)
  BY <1>1, <1>4, <1>5 DEF Remains
<1> QED
  BY <1>6 DEF ComponentAt

LEMMA RemainsOn ==
    ASSUME NEW st \in Streams, NEW n, Remains(st, n)
    PROVE  /\ Head(st.left) = <<Unit(st.v, n + 1)>>
           /\ Len(st.left) = 1 => n + 1 = ImageUnits
           /\ Len(st.left) # 1 => (n + 1 \in 0..(ImageUnits - 1) /\ Remains(Advanced(st), n + 1))
<1> DEFINE T == Seq(Tokens)
           l == st.left
           v == st.v
<1>1. l \in Seq(T) /\ l # <<>>
  BY DEF Streams
<1> HIDE DEF T
<1>2. /\ Len(l) \in Nat \ {0} /\ Head(l) = l[1]
      /\ Tail(l) \in Seq(T) /\ Len(Tail(l)) = Len(l) - 1
      /\ \A i \in 1..Len(Tail(l)) : Tail(l)[i] = l[i + 1]
  <2> HIDE DEF l
  <2> QED
    BY <1>1, HeadTailProperties, LenProperties, EmptySeq
<1>3. /\ n \in 0..(ImageUnits - 1) /\ Len(l) = ImageUnits - n
      /\ \A i \in 1..Len(l) : l[i] = <<Unit(v, n + i)>>
  BY DEF Remains
<1>4. ImageUnits \in Nat \ {0}
  BY SdkAssumption
<1>5. ASSUME Len(l) # 1
      PROVE  n + 1 \in 0..(ImageUnits - 1) /\ Remains(Advanced(st), n + 1)
  <2> DEFINE r == Tail(l)
             b == Advanced(st)
  <2>1. b.left = r /\ b.v = v /\ b.first = FALSE
    BY <1>5, AdvancedIs
  <2>2. /\ Len(r) = Len(l) - 1 /\ \A i \in 1..Len(r) : r[i] = l[i + 1]
    BY <1>2
  <2> HIDE DEF r, b, l, v
  <2>3. n + 1 \in 0..(ImageUnits - 1) /\ Len(r) = ImageUnits - (n + 1) /\ n + 1 # 0
    BY <1>2, <1>3, <1>4, <1>5, <2>2
  <2>4. ASSUME NEW i \in 1..Len(r) PROVE r[i] = <<Unit(v, (n + 1) + i)>>
    <3>1. i + 1 \in 1..Len(l) /\ n + (i + 1) = (n + 1) + i
      BY <1>2, <1>3, <1>4, <2>2
    <3>2. r[i] = l[i + 1] /\ l[i + 1] = <<Unit(v, n + (i + 1))>>
      BY <1>3, <2>2, <3>1
    <3> QED
      BY <3>1, <3>2
  <2>5. \A i \in 1..Len(b.left) : b.left[i] = <<Unit(b.v, (n + 1) + i)>>
    BY <2>1, <2>4
  <2>6. Remains(b, n + 1)
    BY <2>1, <2>3, <2>5 DEF Remains
  <2> QED
    BY <2>3, <2>6 DEF b
<1>6. Head(l) = <<Unit(v, n + 1)>>
  <2> HIDE DEF l, v
  <2>1. 1 \in 1..Len(l)
    BY <1>2
  <2> QED
    BY <1>2, <1>3, <2>1
<1>7. Len(l) = 1 => n + 1 = ImageUnits
  <2> DEFINE k == Len(l)
  <2>1. k = ImageUnits - n /\ n \in Nat
    BY <1>3, <1>4
  <2> HIDE DEF k
  <2>2. k = 1 => n + 1 = ImageUnits
    BY <1>4, <2>1
  <2> QED
    BY <2>2 DEF k
<1> QED
  BY <1>5, <1>6, <1>7

(* The units of a block that is the next one go where they belong. *)
LEMMA UnitWritten ==
    ASSUME NEW dl \in Downloads, NEW v \in 1..Versions, NEW n \in 0..(ImageUnits - 1),
           NEW data, data = <<Unit(v, n + 1)>>, NEW is_last \in BOOLEAN,
           is_last => n + 1 = ImageUnits, image = Nil,
           dl.id # Nil, dl.offset = n, ota_receive_component_data(dl, data, is_last),
           (n # 0 /\ ota.state = "DOWNLOADING") => (holed \/ (flash_context /\ flash = Part(v, n)))
    PROVE  /\ component_download'.id = dl.id /\ component_download'.offset = n + 1
           /\ ota' = ota
           /\ ota.state = "DOWNLOADING" => (holed' \/ (flash_context' /\ flash' = Part(v, n + 1)))
           /\ WholeImage'
<1>1. ImageUnits \in Nat \ {0} /\ n \in Nat
  BY SdkAssumption
<1>2. /\ golioth_ota_receive_component(dl.offset, data, is_last)
      /\ component_download' = [dl EXCEPT !.offset = @ + Len(data)]
      /\ ota' = ota
  BY Zenon DEF ota_receive_component_data
<1>3. component_download'.id = dl.id /\ component_download'.offset = n + 1
  <2>1. Len(data) = 1
    OBVIOUS
  <2> DEFINE k == Len(data)
  <2>2. component_download' = [dl EXCEPT !.offset = @ + k] /\ k = 1
    BY <1>2, <2>1
  <2> HIDE DEF k
  <2> QED
    BY <2>2 DEF Downloads
<1>4. CASE ota.state # "DOWNLOADING"
  <2>1. image' = image
    BY <1>2, <1>4 DEF golioth_ota_receive_component
  <2>2. WholeImage'
    BY <2>1 DEF WholeImage
  <2> QED
    BY <1>2, <1>3, <1>4, <2>2
<1>5. CASE ota.state = "DOWNLOADING"
  <2>1. ota_main_receive(data, n, is_last)
    BY <1>2, <1>5, Zenon DEF golioth_ota_receive_component
  <2> DEFINE old == IF n = 0 THEN <<>> ELSE flash
  <2>2. \/ holed' = TRUE /\ image' = image
        \/ n # 0 /\ ~flash_context /\ holed' = holed /\ image' = image
        \/ /\ n = 0 \/ flash_context
           /\ flash_context' = TRUE /\ flash' = old \o data /\ holed' = (n # 0 /\ holed)
           /\ image' = image \/ (is_last /\ image' = flash')
    BY <2>1, Zenon DEF ota_main_receive
  <2>3. CASE holed' = TRUE /\ image' = image
    <3>1. WholeImage'
      BY <2>3 DEF WholeImage
    <3> QED
      BY <1>2, <1>3, <2>3, <3>1
  <2>5. CASE n # 0 /\ ~flash_context /\ holed' = holed /\ image' = image
    <3>1. WholeImage'
      BY <2>5 DEF WholeImage
    <3>2. holed'
      BY <1>5, <2>5
    <3> QED
      BY <1>2, <1>3, <3>1, <3>2
  <2>4. CASE /\ n = 0 \/ flash_context
             /\ flash_context' = TRUE /\ flash' = old \o data /\ holed' = (n # 0 /\ holed)
             /\ image' = image \/ (is_last /\ image' = flash')
    <3>1. (n # 0 /\ holed) \/ old = Part(v, n)
      BY <1>5, PartEmpty
    <3>2. CASE n # 0 /\ holed
      <4>1. holed'
        BY <2>4, <3>2, Zenon
      <4>2. WholeImage'
        BY <4>1 DEF WholeImage
      <4> QED
        BY <1>2, <1>3, <4>1, <4>2
    <3>3. CASE old = Part(v, n)
      <4>1. old \o data = Part(v, n + 1)
        BY <1>1, <3>3, PartGrows, Zenon
      <4>2. flash' = Part(v, n + 1)
        BY <2>4, <4>1, Zenon
      <4> HIDE DEF old
      <4>3. image' # Nil => image' = Image(v)
        <5>1. ASSUME image' # Nil PROVE image' = Image(v)
          <6>0. is_last
            BY <2>4, <5>1, Zenon
          <6>1. n + 1 = ImageUnits
            BY <6>0
          <6>2. flash' = Part(v, ImageUnits)
            BY <4>2, <6>1
          <6>3. image' = flash'
            BY <2>4, <5>1, Zenon
          <6> QED
            BY <6>2, <6>3, PartWhole, Zenon
        <5> QED
          BY <5>1
      <4>4. WholeImage'
        BY <4>3 DEF WholeImage
      <4> QED
        BY <1>2, <1>3, <2>4, <4>2, <4>4
    <3> QED
      BY <3>1, <3>2, <3>3
  <2> QED
    BY <2>2, <2>3, <2>4, <2>5
<1> QED
  BY <1>4, <1>5

(* Steps that have nothing to do with a component *)
LEMMA ImageStutters ==
    ASSUME ImageInv, UNCHANGED <<component_download, flash_context, flash, holed, image>>,
           streams'["component"] = streams["component"],
           ota'.state = "DOWNLOADING" => ota.state = "DOWNLOADING"
    PROVE  ImageInv'
<1>1. WholeImage'
  BY DEF ImageInv, WholeImage
<1>2. ASSUME Live("component")'
      PROVE  \E n \in 0..(ImageUnits - 1) : ComponentAt(streams["component"], n)'
  <2>1. Live("component")
    BY <1>2 DEF Live
  <2>2. PICK n \in 0..(ImageUnits - 1) : ComponentAt(streams["component"], n)
    BY <2>1 DEF ImageInv
  <2> DEFINE st == streams["component"]
  <2>3. Remains(st, n) /\ (~st.first => Arrived(st, n))
    BY <2>2 DEF ComponentAt
  <2> HIDE DEF st
  <2>4. Arrived(st, n) => (Arrived(st, n))'
    <3>1. st' = st
      BY DEF st
    <3> QED
      BY <3>1 DEF Arrived
  <2>5. st' = st
    BY DEF st
  <2>6. (Remains(st, n))'
    BY <2>3, <2>5 DEF Remains
  <2>7. ComponentAt(st, n)'
    BY <2>3, <2>4, <2>5, <2>6 DEF ComponentAt
  <2> QED
    BY <2>7 DEF st
<1> QED
  BY <1>1, <1>2 DEF ImageInv

LEMMA ImageGone ==
    ASSUME WholeImage', streams'["component"] = Nil
    PROVE  ImageInv'
  BY DEF ImageInv, Live

LEMMA ImageManifest ==
    ASSUME ~Interleaved, SdkTypes, ImageInv, NEW ok \in BOOLEAN, SendManifest(ok)
    PROVE  ImageInv'
<1>1. /\ UNCHANGED cloud /\ block_push(0, "manifest", Nil, TRUE, Manifest(ok), TRUE)
      /\ streams["component"] = Nil
  BY Zenon DEF SendManifest
<1>2. image = Nil /\ ota_receive_manifest(Manifest(ok))
  BY <1>1, EntryPushed DEF SdkTypes
<1>3. image' = Nil
  BY <1>2 DEF ota_receive_manifest
<1> QED
  BY <1>1, <1>3, ImageGone DEF cloud, WholeImage

LEMMA ImageSettings ==
    ASSUME SdkTypes, ImageInv, SendSettings
    PROVE  ImageInv'
<1> DEFINE m == SettingsMessage(desired.settings)
<1>1. UNCHANGED cloud /\ block_push(0, "settings", Nil, TRUE, m, TRUE)
  BY Zenon DEF SendSettings
<1> HIDE DEF m
<1>2. UNCHANGED component_download /\ settings_downlink(m)
  BY <1>1, EntryPushed DEF SdkTypes
<1>3. UNCHANGED <<ota, flash_context, flash, holed, image>>
  BY <1>2 DEF settings_downlink
<1> QED
  BY <1>1, <1>2, <1>3, ImageStutters DEF cloud

LEMMA ImageOpen ==
    ASSUME SdkTypes, ImageInv, NEW kind \in Kinds, OpenStream(kind)
    PROVE  ImageInv'
<1>1. PICK st \in Streams :
          /\ streams'[kind] = st
          /\ \A k \in Kinds : k # kind => streams'[k] = streams[k]
          /\ st.first = TRUE /\ st.left = Blocks(kind, st.v)
          /\ UNCHANGED <<dispatch, node, version, desired, reported, stale, misrouted, faults>>
  BY StreamOpened, Zenon
<1>2. UNCHANGED <<component_download, ota, flash_context, flash, holed, image>>
  BY <1>1 DEF node
<1>3. CASE kind # "component"
  BY <1>1, <1>2, <1>3, ImageStutters DEF Kinds
<1>4. CASE kind = "component"
  <2>1. Remains(st, 0)
    BY <1>1, <1>4, ComponentOpened DEF ComponentAt
  <2>2. streams'["component"] = st
    BY <1>1, <1>4
  <2>3. (Remains(streams["component"], 0))'
    BY <2>1, <2>2 DEF Remains
  <2>4. streams'["component"].first
    BY <1>1, <2>2
  <2>5. ComponentAt(streams["component"], 0)'
    BY <2>3, <2>4 DEF ComponentAt
  <2>6. 0 \in 0..(ImageUnits - 1)
    BY SdkAssumption
  <2>7. WholeImage'
    BY <1>2 DEF ImageInv, WholeImage
  <2> QED
    BY <2>5, <2>6, <2>7 DEF ImageInv
<1> QED
  BY <1>3, <1>4

LEMMA ImageBlock ==
    ASSUME SdkTypes, RouteInv, ImageInv, NEW kind \in Kinds, SendBlock(kind)
    PROVE  ImageInv'
<1> DEFINE st == streams[kind]
           data == Head(st.left)
           is_last == (Len(st.left) = 1)
           t == Target(kind)
           dl == Download(st.id, kind, st.v, st.first)
<1>1. /\ st \in Streams /\ st # Nil
      /\ \A k \in Kinds : k # kind => streams'[k] = streams[k]
      /\ Len(st.left) = 1 => streams'[kind] = Nil
      /\ Len(st.left) # 1 => streams'[kind] = Advanced(st)
      /\ block_push(st.id, kind, st.v, st.first, data, is_last)
  BY BlockSent, Zenon
<1>2. /\ st.id \in 1..31 /\ st.first \in BOOLEAN /\ is_last \in BOOLEAN
  BY <1>1 DEF Streams
<1>3. t = Receiver(st.id, kind, st.v, st.first)
  BY <1>1, ReceiverIs DEF Live
<1>4. /\ image = Nil
      /\ t # "ota_component" => component_download' = dl
      /\ t = "ota_component" => ota_receive_component_data(dl, data, is_last)
      /\ t = "settings" => settings_downlink(data)
      /\ t = Nil => UNCHANGED <<ota, settings_version, applied, flash_context, flash, holed, image, faults>>
  <2>1. NodeTypes
    BY DEF SdkTypes
  <2>2. dl = Download(st.id, kind, st.v, st.first)
    OBVIOUS
  <2> HIDE DEF dl, st, data, t
  <2>3. Received(t, dl, st.id, kind, st.first, data, is_last)
    BY <1>1, <1>2, <1>3, <2>1, <2>2, BlockPushed, ZenonT(30)
  <2> QED
    BY <2>3 DEF Received
<1>5. CASE kind # "component"
  <2>1. t \in {"settings", Nil} /\ t # "ota_component"
    BY <1>5, TargetFacts DEF Kinds, Service
  <2>2. dl = component_download
    BY <2>1, Zenon DEF Download, Begun
  <2>3. streams'["component"] = streams["component"]
    BY <1>1, <1>5 DEF Kinds
  <2> HIDE DEF dl, st, data, t, is_last
  <2>4. UNCHANGED <<ota, flash_context, flash, holed, image>>
    BY <1>4, <2>1 DEF settings_downlink
  <2> QED
    BY <1>4, <2>1, <2>2, <2>3, <2>4, ImageStutters
<1>6. CASE kind = "component"
  <2>1. t = "ota_component" /\ st = streams["component"]
    BY <1>6, TargetFacts
  <2>2. PICK n \in 0..(ImageUnits - 1) : ComponentAt(st, n)
    BY <1>1, <2>1 DEF ImageInv, Live
  <2>3. Remains(st, n) /\ (~st.first => Arrived(st, n)) /\ (st.first <=> n = 0)
    BY <2>2 DEF ComponentAt, Remains
  <2>4. /\ data = <<Unit(st.v, n + 1)>>
        /\ Len(st.left) = 1 => n + 1 = ImageUnits
        /\ Len(st.left) # 1 => (n + 1 \in 0..(ImageUnits - 1) /\ Remains(Advanced(st), n + 1))
    BY <1>1, <2>3, RemainsOn
  <2>5. st.v \in 1..Versions /\ st.id # Nil
    <3>1. st.v \in 1..Versions
      BY <1>1, <2>1 DEF SdkTypes, CloudTypes
    <3> QED
      BY <1>2, <3>1, NilAssumption
  <2>6. dl \in Downloads /\ dl.id = st.id /\ dl.offset = n
    <3>1. CASE st.first
      <4>1. dl = [id |-> st.id, version |-> st.v, offset |-> 0]
        BY <2>1, <3>1, Zenon DEF Download, Begun
      <4>2. n = 0
        BY <2>3, <3>1
      <4> HIDE DEF st, dl
      <4>3. dl.id = st.id /\ dl.offset = 0
        BY <4>1
      <4>4. dl \in Downloads
        BY <1>2, <2>5, <4>1 DEF Downloads
      <4> QED
        BY <4>2, <4>3, <4>4
    <3>2. CASE ~st.first
      <4>1. dl = component_download
        BY <3>2, Zenon DEF Download
      <4>2. component_download \in Downloads
        BY DEF SdkTypes, NodeTypes
      <4> QED
        BY <2>3, <3>2, <4>1, <4>2 DEF Arrived
    <3> QED
      BY <1>2, <3>1, <3>2
  <2>7. (n # 0 /\ ota.state = "DOWNLOADING") => (holed \/ (flash_context /\ flash = Part(st.v, n)))
    BY <2>3 DEF Arrived
  <2>8. ota_receive_component_data(dl, data, is_last)
    BY <1>4, <2>1
  <2> DEFINE v == st.v
             id == st.id
  <2>9. /\ component_download'.id = id /\ component_download'.offset = n + 1
        /\ ota' = ota
        /\ ota.state = "DOWNLOADING" => (holed' \/ (flash_context' /\ flash' = Part(v, n + 1)))
        /\ WholeImage'
    <3>1. /\ v \in 1..Versions /\ data = <<Unit(v, n + 1)>> /\ dl.id = id /\ id # Nil
          /\ (n # 0 /\ ota.state = "DOWNLOADING") => (holed \/ (flash_context /\ flash = Part(v, n)))
          /\ is_last => n + 1 = ImageUnits
      BY <2>4, <2>5, <2>6, <2>7
    <3> HIDE DEF v, data, dl, id, st, is_last
    <3> QED
      BY <1>2, <1>4, <2>6, <2>8, <3>1, UnitWritten
  <2>10. CASE Len(st.left) = 1
    <3>1. streams'["component"] = Nil
      BY <1>1, <1>6, <2>10
    <3> QED
      BY <2>9, <3>1, ImageGone
  <2>11. CASE Len(st.left) # 1
    <3> DEFINE b == Advanced(st)
    <3>1. /\ streams'["component"] = b
          /\ n + 1 \in 0..(ImageUnits - 1) /\ Remains(b, n + 1)
      BY <1>1, <1>6, <2>4, <2>11
    <3>2. b.id = id /\ b.v = v
      BY <1>1, <2>11, AdvancedIs
    <3> HIDE DEF b, id, v, st
    <3>3. (Remains(streams["component"], n + 1))'
      BY <3>1 DEF Remains
    <3>4. (Arrived(streams["component"], n + 1))'
      BY <2>9, <3>1, <3>2 DEF Arrived
    <3>5. ComponentAt(streams["component"], n + 1)'
      BY <3>3, <3>4 DEF ComponentAt
    <3> QED
      BY <2>9, <3>1, <3>5 DEF ImageInv
  <2> QED
    BY <2>10, <2>11
<1> QED
  BY <1>5, <1>6

LEMMA ImageStep ==
    ASSUME ~Interleaved, SdkTypes, RouteInv, ImageInv, [Next]_vars
    PROVE  ImageInv'
<1>1. CASE golioth_sync_to_cloud
  BY <1>1, ImageStutters DEF golioth_sync_to_cloud, node
<1>2. CASE \E state \in {"IDLE", "UPDATING"} : golioth_ota_set_status(state)
  <2>1. PICK state \in {"IDLE", "UPDATING"} : golioth_ota_set_status(state)
    BY <1>2
  <2>2. /\ ota' = [ota EXCEPT !.state = state]
        /\ UNCHANGED <<component_download, flash_context, flash, holed, image, streams>>
    BY <2>1 DEF golioth_ota_set_status, cloud
  <2>3. ota \in [target : 1..Versions, state : OtaStates]
    BY DEF SdkTypes, NodeTypes
  <2>4. ota'.state # "DOWNLOADING"
    BY <2>2, <2>3
  <2> QED
    BY <2>2, <2>4, ImageStutters
<1>3. CASE Desire
  BY <1>3, ImageStutters DEF Desire, node
<1>4. CASE \E ok \in BOOLEAN : SendManifest(ok)
  BY <1>4, ImageManifest
<1>5. CASE SendSettings
  BY <1>5, ImageSettings
<1>6. CASE \E kind \in Kinds : OpenStream(kind) \/ SendBlock(kind)
  BY <1>6, ImageOpen, ImageBlock
<1>7. CASE Cut
  <2>1. streams' = [k \in Kinds |-> Nil] /\ UNCHANGED <<image, holed>>
    BY <1>7 DEF Cut, node
  <2>2. WholeImage' /\ streams'["component"] = Nil
    BY <2>1 DEF ImageInv, WholeImage, Kinds
  <2> QED
    BY <2>2, ImageGone
<1>8. CASE sys_reboot \/ PowerLoss
  <2>1. Restart
    BY <1>8, Zenon DEF sys_reboot, PowerLoss
  <2>2. streams' = [k \in Kinds |-> Nil] /\ image' = Nil
    BY <2>1 DEF Restart, Boot
  <2>3. WholeImage' /\ streams'["component"] = Nil
    BY <2>2 DEF WholeImage, Kinds
  <2> QED
    BY <2>3, ImageGone
<1>9. CASE UNCHANGED vars
  BY <1>9, ImageStutters DEF vars, cloud, node
<1> QED
  BY <1>1, <1>2, <1>3, <1>4, <1>5, <1>6, <1>7, <1>8, <1>9, Zenon DEF Next

(* boot_request_upgrade is called for one whole image of one version, or after a
   flash_img_init or a flash write that failed, however many downloads were cut off, begun again or
   abandoned before: ota_receive_component_data counts the offset from the start of
   the stream, and ota_main_receive starts over at offset 0.  This needs that the
   cloud neither uses the ID of a stream that was cut off nor sends a manifest
   between the blocks of a component. *)
THEOREM ImagesAreWhole ==
    ASSUME ~ReuseIds, ~Interleaved
    PROVE  Spec => []WholeImage
<1>1. Init => ImageInv
  <2> SUFFICES ASSUME Init PROVE ImageInv
    OBVIOUS
  <2>1. streams = [k \in Kinds |-> Nil] /\ image = Nil
    BY Zenon DEF Init
  <2>2. ~Live("component") /\ WholeImage
    BY <2>1 DEF Live, WholeImage, Kinds
  <2> QED
    BY <2>2 DEF ImageInv
<1>2. SdkTypes /\ RouteInv /\ ImageInv /\ [Next]_vars => ImageInv'
  BY ImageStep
<1>3. ImageInv => WholeImage
  BY DEF ImageInv
<1> QED
  BY <1>1, <1>2, <1>3, TypesHold, RoutesHold, PTL DEF Spec

================================================================================
