------------------------------ MODULE GoliothSdk ------------------------------
(***************************************************************************)
(* What becomes of downlink blocks once they are decrypted: entry.c calls  *)
(* dispatch.c, which finds a service by path, and later by stream ID:      *)
(* firmware manifests and components (ota.c, ota_upper.c, the example's    *)
(* fw_update.c) or settings (settings.c, settings_callbacks.c, the CBOR map *)
(* helper).  All of it runs on the Pouch work queue, one block at a time,  *)
(* as does golioth_sync_to_cloud, which reports to the cloud what state the *)
(* services are in.  The cloud answers that report with pouches.           *)
(*                                                                         *)
(* The pouches come through PouchDownlink: in order and without gaps, but  *)
(* they may stop anywhere (NoGaps).  A node may lose power at any time: its *)
(* RAM is gone, its flash is not.                                          *)
(*                                                                         *)
(* Paths are sequences of segments.  An image is a sequence of units, a    *)
(* settings message a sequence of tokens.                                  *)
(***************************************************************************)
EXTENDS Integers, Sequences

LOCAL INSTANCE SequencesExt

CONSTANTS
    Nil,          \* NULL, DOWNLINK_ID_INVALID, a version that is not there
    ImageUnits,   \* units of a firmware image
    Versions,     \* bound: firmware versions are 1..Versions
    SettingsSent, \* for each version of the settings, the settings: a sequence of [key, type]
    Handlers,     \* for each setting the application handles, its type
    ReuseIds,     \* the cloud may use the stream ID of a stream that was cut off
    Fragments,    \* the cloud may send settings in a stream of several blocks
    Interleaved,  \* a manifest may come between the blocks of a component
    MaxFaults     \* bound: cuts, power losses, flash errors, marks by the application

ASSUME SdkAssumption ==
    /\ {ImageUnits, Versions} \subseteq Nat \ {0}
    /\ MaxFaults \in Nat
    /\ {ReuseIds, Fragments, Interleaved} \subseteq BOOLEAN
    /\ SettingsSent \in Seq(Seq([key : STRING, type : STRING])) \ {<<>>}

(* GOLIOTH_DOWNLINK_HANDLER: the linker sorts the services by name.  The path of
   a service ends in "*" or not; either way a prefix is compared. *)
Services == <<"ota_component", "ota_manifest", "settings">>

Service == {"ota_component", "ota_manifest", "settings"}

ASSUME NilAssumption == Nil \notin Nat /\ Nil \notin Service

ServicePath ==
    [s \in Service |-> CASE s = "ota_component" -> <<".u", "c">>
                         [] s = "ota_manifest"  -> <<".u", "desired">>
                         [] s = "settings"      -> <<".c">>]

VARIABLES
    last_seen, downlink_id,      \* dispatch.c
    component_download,          \* ota.c: [id, version, offset]
    ota,                         \* ota_upper.c: [target, state] of the package "main"
    settings_version,            \* settings.c; Nil for -1
    applied,                     \* the version each setting was last set from
    flash_context,               \* fw_update.c: flash_img_init has succeeded since the boot
    flash,                       \* units written since flash_img_init
    image,                       \* the image boot_request_upgrade was called for, or Nil
    version,                     \* the firmware that runs
    \* the cloud
    desired,                     \* [firmware, settings]: what the node ought to have
    reported,                    \* what the last golioth_sync_to_cloud said, or Nil
    streams,                     \* streams of the pouch being sent: [id, first, left] or Nil
    \* history
    stale,                       \* IDs of streams that were cut off
    holed,                       \* it, or a flash write since, has failed
    misrouted,                   \* data went to a service other than the one its path names
    faults

dispatch == <<last_seen, downlink_id>>
node     == <<component_download, ota, settings_version, applied, flash_context, flash, holed,
              image>>
cloud    == <<desired, reported, streams, stale>>
vars     == <<dispatch, node, version, cloud, misrouted, faults>>

Unit(v, off) == [t |-> "unit", v |-> v, off |-> off]

Image(v) == [i \in 1..ImageUnits |-> Unit(v, i)]

(* The kinds of streams the cloud sends: a component, settings, or something on
   a path that no service of this node has *)
Kinds == {"component", "settings", "unknown"}

Path(kind) ==
    CASE kind = "component" -> <<".u", "c", "main@">>
      [] kind = "manifest"  -> <<".u", "desired">>
      [] kind = "settings"  -> <<".c">>
      [] kind = "unknown"   -> <<".d">>

NoDownload == [id |-> Nil, version |-> Nil, offset |-> 0]

(* Mutant: the target version is not initialised. *)
boot_without_target(v) ==
    /\ last_seen' = Nil /\ downlink_id' = [s \in Service |-> Nil]
    /\ component_download' = NoDownload
    /\ ota' = [target |-> Nil, state |-> "IDLE"]
    /\ settings_version' = Nil /\ applied' = [k \in DOMAIN Handlers |-> Nil]
    /\ version' = v /\ image' = Nil /\ flash_context' = FALSE

(* RAM after a boot of firmware v *)
Boot(v) ==
    /\ last_seen' = Nil /\ downlink_id' = [s \in Service |-> Nil]
    /\ component_download' = NoDownload
    /\ ota' = [target |-> v, state |-> "IDLE"]
    /\ settings_version' = Nil /\ applied' = [k \in DOMAIN Handlers |-> Nil]
    /\ version' = v /\ image' = Nil /\ flash_context' = FALSE

Init ==
    /\ last_seen = Nil /\ downlink_id = [s \in Service |-> Nil]
    /\ component_download = NoDownload
    /\ ota = [target |-> 1, state |-> "IDLE"]
    /\ settings_version = Nil /\ applied = [k \in DOMAIN Handlers |-> Nil]
    /\ flash_context = FALSE /\ flash = <<>> /\ holed = FALSE /\ image = Nil /\ version = 1
    /\ desired = [firmware |-> 1, settings |-> 1]
    /\ reported = Nil
    /\ streams = [k \in Kinds |-> Nil] /\ stale = {}
    /\ misrouted = FALSE /\ faults = 0

(***************************************************************************)
(* Settings                                                                *)
(***************************************************************************)

(* A settings message: a map of a version and of a map of settings, or of nil if
   there are none *)
SettingsMessage(v) ==
    <<[t |-> "map"], [t |-> "version", v |-> v]>>
    \o IF SettingsSent[v] = <<>> THEN <<[t |-> "nil"]>>
       ELSE [i \in 1..Len(SettingsSent[v]) |->
                 [t |-> "setting", v |-> v, key |-> SettingsSent[v][i].key,
                                            type |-> SettingsSent[v][i].type]]

(* golioth_settings_receive_one: a setting is set if it has a handler of its type;
   what is returned is ignored. *)
IsHandled(s) == s.key \in DOMAIN Handlers /\ Handlers[s.key] = s.type

(* Mutant: settings_decode gives up when a callback returns an error. *)
understood_till_error(data) ==
    {i \in DOMAIN data : \A j \in 1..i : /\ data[1].t = "map" /\ data[j].t # "nil"
                                        /\ data[j].t = "setting" => IsHandled(data[j])}

(* The tokens that zcbor_map_decode and settings_decode get through: none unless a
   map starts there, and no more after a nil or where the block ends.  What they
   decoded before that has had its effect. *)
Understood(data) ==
    {i \in DOMAIN data : data[1].t = "map" /\ \A j \in 1..i : data[j].t # "nil"}

(* settings_downlink decodes every block as a map of its own. *)
settings_downlink(data) ==
    LET toks     == {data[i] : i \in Understood(data)}
        versions == {tok.v : tok \in {x \in toks : x.t = "version"}}
        set(key) == {tok.v : tok \in {x \in toks : x.t = "setting" /\ x.key = key
                                                   /\ IsHandled(x)}}
    IN  /\ settings_version' = IF versions = {} THEN settings_version
                               ELSE CHOOSE v \in versions : TRUE
        /\ applied' = [k \in DOMAIN Handlers |->
                          IF set(k) = {} THEN applied[k] ELSE CHOOSE v \in set(k) : TRUE]
        /\ UNCHANGED <<ota, flash_context, flash, holed, image, faults>>

(***************************************************************************)
(* Firmware                                                                *)
(***************************************************************************)

(* Mutant: a download is wanted only when the target is a new one. *)
manifest_receive_changed(o) ==
    IF o.target # version /\ o.target # ota.target THEN [o EXCEPT !.state = "DOWNLOADING"] ELSE o

(* ota_manifest_receive of the application, from golioth_ota_manifest_complete *)
ota_manifest_receive(o) == IF o.target # version THEN [o EXCEPT !.state = "DOWNLOADING"] ELSE o

golioth_ota_manifest_receive_one(component, o) ==
    IF component.package = "main" THEN [o EXCEPT !.target = component.version] ELSE o

golioth_ota_manifest_complete(o) == ota_manifest_receive(o)

(* ota_receive_manifest takes note of one component after the other, up to the
   first that cannot be decoded, and the manifest is complete if all of them can.
   The last one that is registered has the last word. *)
ota_receive_manifest(components) ==
    LET decoded    == {i \in DOMAIN components : \A j \in 1..i : components[j].ok}
        registered == {i \in decoded : components[i].package = "main"}
        last       == CHOOSE i \in registered : \A j \in registered : j <= i
        got        == IF registered = {} THEN ota
                      ELSE golioth_ota_manifest_receive_one(components[last], ota)
    IN  /\ ota' = IF decoded = DOMAIN components THEN golioth_ota_manifest_complete(got) ELSE got
        /\ UNCHANGED <<settings_version, applied, flash_context, flash, holed, image, faults>>

(* Mutant: the offset goes on where the last download stopped. *)
component_start_resumes(id, v) ==
    [id |-> id, version |-> v, offset |-> component_download.offset]

(* ota_receive_component_start, for a path that names a package and a version *)
ota_receive_component_start(id, v) == [id |-> id, version |-> v, offset |-> 0]

(* ota_main_receive of fw_update.c for units that arrive at an offset: flash_img_init
   if it is 0, flash_img_buffered_write, which fails while there was no flash_img_init,
   and boot_request_upgrade after the last.  When one of them fails it gives up, and
   is called again for the next units. *)
ota_main_receive(units, offset, is_last) ==
    LET ready   == offset = 0 \/ flash_context
        before  == IF offset = 0 THEN <<>> ELSE flash
        written == /\ ready
                   /\ flash_context' = TRUE
                   /\ flash' = before \o units
                   /\ holed' = (offset # 0 /\ holed)
    IN  \/ /\ written
           /\ image' = IF is_last THEN flash' ELSE image
           /\ UNCHANGED faults
        \/ /\ ~ready
           /\ UNCHANGED <<flash_context, flash, holed, image, faults>>
        \/ /\ faults < MaxFaults
           /\ faults' = faults + 1
           /\ UNCHANGED image
           /\ \/ offset = 0 /\ holed' = TRUE /\ UNCHANGED <<flash_context, flash>>
              \/ ready /\ flash_context' = TRUE /\ flash' = before /\ holed' = TRUE
              \/ written /\ is_last

(* Whether data is wanted is asked for every block of it. *)
golioth_ota_receive_component(offset, units, is_last) ==
    IF ota.state = "DOWNLOADING" THEN ota_main_receive(units, offset, is_last)
    ELSE UNCHANGED <<flash_context, flash, holed, image, faults>>

(* ota_receive_component_data, dl being component_download *)
ota_receive_component_data(dl, units, is_last) ==
    /\ IF dl.id # Nil THEN golioth_ota_receive_component(dl.offset, units, is_last)
       ELSE UNCHANGED <<flash_context, flash, holed, image, faults>>
    /\ component_download' = IF dl.id # Nil THEN [dl EXCEPT !.offset = @ + Len(units)] ELSE dl
    /\ UNCHANGED <<ota, settings_version, applied>>

(***************************************************************************)
(* entry.c and dispatch.c                                                  *)
(***************************************************************************)

(* The one of some services that is the first in the section *)
FirstService(found) ==
    IF found = {} THEN Nil
    ELSE LET i == CHOOSE i \in DOMAIN Services :
                      Services[i] \in found /\ \A j \in 1..(i - 1) : Services[j] \notin found
         IN  Services[i]

ServiceFor ==
    [path \in {Path(k) : k \in Kinds \cup {"manifest"}} |->
         FirstService({s \in Service : IsPrefix(ServicePath[s], path)})]

(* pouch_downlink_start of dispatch.c: a path without a service changes nothing. *)
downlink_start(id, path, v) ==
    LET s == ServiceFor[path]
    IN  [seen |-> IF s = Nil THEN last_seen ELSE s,
         ids  |-> IF s = Nil THEN downlink_id ELSE [downlink_id EXCEPT ![s] = id],
         dl   |-> IF s = "ota_component" THEN ota_receive_component_start(id, v)
                                         ELSE component_download]

(* pouch_downlink_data of dispatch.c: the service that is called *)
ActiveService(id, st) ==
    IF st.seen # Nil /\ st.ids[st.seen] = id THEN st.seen
    ELSE FirstService({s \in Service : st.ids[s] = id})

(* Mutant: the service keeps the ID of its last stream. *)
forget_nothing(s, st, is_last) == last_seen' = st.seen /\ downlink_id' = st.ids

(* What it forgets after the last data *)
forget(s, st, is_last) ==
    IF s # Nil /\ is_last
    THEN last_seen' = Nil /\ downlink_id' = [st.ids EXCEPT ![s] = Nil]
    ELSE last_seen' = st.seen /\ downlink_id' = st.ids

(* pouch_downlink_block_push: downlink_start if this is the first block of a
   stream, or an entry (which has ID 0 and is its own last block); then
   downlink_data.  The work queue is busy rebooting once an image is complete. *)
block_push(id, kind, v, is_first, data, is_last) ==
    \E st \in {IF is_first THEN downlink_start(id, Path(kind), v)
               ELSE [seen |-> last_seen, ids |-> downlink_id, dl |-> component_download]} :
    \E s \in {ActiveService(id, st)} :
        /\ image = Nil
        /\ misrouted' = (misrouted \/ s # ServiceFor[Path(kind)])
        /\ forget(s, st, is_last)
        /\ s # "ota_component" => component_download' = st.dl
        /\ CASE s = "ota_component" -> ota_receive_component_data(st.dl, data, is_last)
             [] s = "ota_manifest"  -> ota_receive_manifest(data)
             [] s = "settings"      -> settings_downlink(data)
             [] s = Nil             -> UNCHANGED <<ota, settings_version, applied, flash_context,
                                                   flash, holed, image, faults>>
        /\ UNCHANGED version

(* What the services report; ota_uplink leaves the target out in state IDLE. *)
ota_uplink ==
    [version |-> version, state |-> ota.state,
     target |-> IF ota.state = "IDLE" THEN Nil ELSE ota.target]

settings_uplink == settings_version

golioth_sync_to_cloud ==
    /\ image = Nil
    /\ reported' = [ota |-> ota_uplink, settings |-> settings_uplink]
    /\ UNCHANGED <<dispatch, node, version, desired, streams, stale, misrouted, faults>>

(* golioth_ota_mark_idle or golioth_ota_mark_updating, called by the application *)
golioth_ota_set_status(state) ==
    /\ faults < MaxFaults
    /\ faults' = faults + 1
    /\ ota' = [ota EXCEPT !.state = state]
    /\ UNCHANGED <<dispatch, component_download, settings_version, applied, flash_context,
                   flash, holed, image, version, cloud, misrouted>>

(***************************************************************************)
(* The cloud, the boot loader and the power supply                         *)
(***************************************************************************)
Desire ==
    /\ \/ desired.firmware < Versions
          /\ desired' = [desired EXCEPT !.firmware = @ + 1]
       \/ desired.settings < Len(SettingsSent)
          /\ desired' = [desired EXCEPT !.settings = @ + 1]
    /\ UNCHANGED <<dispatch, node, version, reported, streams, stale, misrouted, faults>>

(* A manifest, of which some other component may be damaged *)
Manifest(ok) ==
    <<[t |-> "component", package |-> "main", version |-> desired.firmware, ok |-> TRUE],
      [t |-> "component", package |-> "other", version |-> 1, ok |-> ok]>>

SendManifest(ok) ==
    /\ reported # Nil /\ reported.ota.version # desired.firmware
    /\ streams["component"] = Nil \/ Interleaved
    /\ UNCHANGED cloud
    /\ block_push(0, "manifest", Nil, TRUE, Manifest(ok), TRUE)

SendSettings ==
    /\ reported # Nil /\ reported.settings # desired.settings
    /\ streams["settings"] = Nil
    /\ UNCHANGED cloud
    /\ block_push(0, "settings", Nil, TRUE, SettingsMessage(desired.settings), TRUE)

(* What a stream carries, in blocks *)
Blocks(kind, v) ==
    CASE kind = "component" -> [i \in 1..ImageUnits |-> <<Image(v)[i]>>]
      [] kind = "settings"  -> LET msg == SettingsMessage(v)
                               IN  <<SubSeq(msg, 1, 3), SubSeq(msg, 4, Len(msg))>>
      [] kind = "unknown"   -> [i \in 1..2 |-> <<Unit(0, i)>>]

(* The streams that there can be: blocks consist of units or of tokens of a
   settings message. *)
Tokens ==
    {Unit(v, off) : v \in 0..Versions, off \in 1..(ImageUnits + 2)}
    \union UNION {{SettingsMessage(v)[i] : i \in 1..Len(SettingsMessage(v))}
                 : v \in DOMAIN SettingsSent}

Streams ==
    [id : 1..31, v : (1..Versions) \union DOMAIN SettingsSent \union {Nil}, first : BOOLEAN,
     left : Seq(Seq(Tokens)) \ {<<>>}]

ASSUME StreamsAssumption == Nil \notin Streams

(* The stream IDs the cloud may use next, of which it takes the least *)
FreeIds ==
    (1..31) \ ({streams[k].id : k \in {j \in Kinds : streams[j] # Nil}}
               \cup IF ReuseIds THEN {} ELSE stale)

FreeId == CHOOSE i \in FreeIds : \A j \in FreeIds : i <= j

OpenStream(kind) ==
    LET v == CASE kind = "component" -> reported.ota.target
               [] kind = "settings"  -> desired.settings
               [] kind = "unknown"   -> Nil
    IN  /\ streams[kind] = Nil /\ FreeIds # {}
        /\ kind = "component" => reported # Nil /\ reported.ota.state = "DOWNLOADING"
        /\ kind = "settings"  => Fragments /\ Len(SettingsMessage(desired.settings)) > 3
        /\ streams' = [streams EXCEPT ![kind] =
                           [id |-> FreeId, v |-> v, first |-> TRUE, left |-> Blocks(kind, v)]]
        /\ UNCHANGED <<dispatch, node, version, desired, reported, stale, misrouted, faults>>

SendBlock(kind) ==
    LET st == streams[kind]
        is_last == Len(st.left) = 1
    IN  /\ st # Nil
        /\ streams' = [streams EXCEPT ![kind] =
                           IF is_last THEN Nil
                           ELSE [st EXCEPT !.first = FALSE, !.left = Tail(@)]]
        /\ UNCHANGED <<desired, reported, stale>>
        /\ block_push(st.id, kind, st.v, st.first, Head(st.left), is_last)

(* The pouch ends early, with streams the node has heard of. *)
Cut ==
    /\ faults < MaxFaults
    /\ faults' = faults + 1
    /\ stale' = stale \cup {streams[k].id : k \in {j \in Kinds : streams[j] # Nil
                                                                /\ ~streams[j].first}}
    /\ streams' = [k \in Kinds |-> Nil]
    /\ UNCHANGED <<dispatch, node, version, desired, reported, misrouted>>

(* The boot loader installs an image that was asked for if it is one. *)
Restart ==
    /\ Boot(IF \E v \in 1..Versions : image = Image(v)
            THEN CHOOSE v \in 1..Versions : image = Image(v) ELSE version)
    /\ streams' = [k \in Kinds |-> Nil] /\ stale' = {}
    /\ UNCHANGED <<flash, holed, desired, reported, misrouted>>

sys_reboot == image # Nil /\ Restart /\ UNCHANGED faults

PowerLoss == faults < MaxFaults /\ faults' = faults + 1 /\ Restart

Next ==
    \/ golioth_sync_to_cloud
    \/ \E state \in {"IDLE", "UPDATING"} : golioth_ota_set_status(state)
    \/ Desire
    \/ \E ok \in BOOLEAN : SendManifest(ok)
    \/ SendSettings
    \/ \E kind \in Kinds : OpenStream(kind) \/ SendBlock(kind)
    \/ Cut \/ sys_reboot \/ PowerLoss

(* Gateways keep visiting the node; the cloud sends what the last report calls
   for and finishes the components it began. *)
Fairness ==
    /\ SF_vars(golioth_sync_to_cloud)
    /\ SF_vars(SendManifest(TRUE))
    /\ SF_vars(SendSettings)
    /\ SF_vars(OpenStream("component"))
    /\ WF_vars(SendBlock("component"))
    /\ WF_vars(sys_reboot)

Spec == Init /\ [][Next]_vars /\ Fairness

(***************************************************************************)
(* Properties                                                              *)
(***************************************************************************)

(* The state of the services has the shape the declarations give it. *)
TypeOK ==
    /\ last_seen \in Service \cup {Nil}
    /\ DOMAIN downlink_id = Service /\ \A s \in Service : downlink_id[s] \in 0..31 \cup {Nil}
    /\ component_download.offset \in Nat
    /\ ota.target \in 1..Versions /\ ota.state \in {"IDLE", "DOWNLOADING", "UPDATING"}
    /\ settings_version \in DOMAIN SettingsSent \cup {Nil}
    /\ DOMAIN applied = DOMAIN Handlers
    /\ version \in 1..Versions /\ flash_context \in BOOLEAN

(* When ota_main_receive calls boot_request_upgrade, what it has written to flash
   is one whole image, however many downloads were cut off, restarted by another
   pouch or overtaken by a new manifest before.  The exception is a flash_img_init
   or a flash write that failed: ota_main_receive does not remember it, and leaves
   it to the boot loader to notice. *)
WholeImage == image # Nil => holed \/ \E v \in 1..Versions : image = Image(v)

(* Data goes to the service that the path of its entry or stream names
   (pouch_downlink_data of dispatch.c has nothing but the stream ID to go by). *)
RoutedByPath == ~misrouted

(* If the node reports that it has a version of the settings (settings_uplink),
   every setting of that version that the application handles has been given to
   its callback. *)
SettingsApplied ==
    settings_version # Nil =>
        \A i \in DOMAIN SettingsSent[settings_version] :
            LET s == SettingsSent[settings_version][i]
            IN  IsHandled(s) => applied[s.key] = settings_version

(* The node ends up running the firmware and having the settings that the cloud
   wants: cuts, restarts, failed writes, damaged manifests and interference by
   the application delay it but cannot wedge dispatch.c, ota.c or ota_upper.c. *)
CaughtUp == <>[](version = desired.firmware /\ settings_version = desired.settings)
================================================================================
