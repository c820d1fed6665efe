------------------------------- MODULE Entry -------------------------------
(***************************************************************************)
(* The life of one appliance's entry (__init__.py): it is loaded from the  *)
(* store, migrated, set up, reloaded when its settings change, unloaded,   *)
(* and lost from memory when Home Assistant stops.  Set-up reads the       *)
(* options at three moments, with awaits between them; only at its end is  *)
(* the listener registered that reloads the entry after a change.          *)
(*                                                                         *)
(* The entities of RequestGroups are added by the platforms and removed    *)
(* when the entry is unloaded; the commands of ClimateEntity are taken     *)
(* while it is loaded.  Home Assistant's part (the store with its delayed  *)
(* save, the retry, the lock a reload takes) is external.                  *)
(***************************************************************************)
EXTENDS RequestGroups, EntryOptions, ClimateEntity

(* The types of appliance an entry is made for, the modes and preset flags. *)
Kinds == {"AC", "CC"}
ModeCaps == {"auto", "cool", "dry", "heat", "fan_only", "smart_dry"}
Flag == {Order[i] : i \in DOMAIN Order}

CONSTANTS
    Stored,     \* the entries a start may find
    Choices,    \* the options the settings form may send
    Devices,    \* the states a refresh may find the device in, for each type
    Reports,    \* what the device reports it supports, for each type
    Speeds,     \* the named fan speeds it reports
    Numbers,    \* fan speeds without a name
    Crashes, Changes, Failures   \* bounds on what may go wrong or be changed

DeviceState ==
    [power : BOOLEAN, mode : ModeCaps, active : SUBSET Flag, fan : NamedSpeed \cup Numbers]

ASSUME StoredAssumption ==
    \A s \in Stored : Sound(s) /\ Get(s.data, "device_type", "AC") \in Kinds

ASSUME SpeedsAssumption == Speeds \subseteq NamedSpeed

ASSUME DevicesAssumption == Devices \in [Kinds -> SUBSET DeviceState]

VARIABLES
    disk,       \* the entry as last saved
    entry,      \* the entry in memory
    life,       \* how far its set-up is
    running,    \* the settings the objects in use were built with
    reload,     \* a reload task waits
    missed,     \* (history) the options changed while set-up was running
    ac,         \* the device, as the entities see it
    asked,      \* (history) the command given last, if nothing else set the device and no
                \* reload began since
    budget      \* what is left of the bounds

entryVars == <<disk, entry, life, running, reload, missed, ac, asked, budget>>
allVars == <<phase, count, enabled, disk, entry, life, running, reload, missed, ac, asked, budget>>

Life == {"down", "stopped", "connecting", "refreshing", "forwarding",
         "ready", "closing", "stuck", "waiting", "broken", "refused"}

SettingUp == {"connecting", "refreshing", "forwarding"}

(* The entities answer to their user: an unload that failed leaves them.    *)
Loaded == {"ready", "stuck"}

Kind == Get(entry.data, "device_type", "AC")

(* override_capabilities: an override merges with what was detected or      *)
(* replaces it, key by key; one that is not accepted is logged and leaves   *)
(* the capabilities as they were.                                           *)
PresetCaps == {"eco", "away", "boost"}

Touched(widen) ==
    (IF "presets" \in widen THEN PresetCaps ELSE {})
        \cup (IF "modes" \in widen THEN ModeCaps ELSE {})

Added(widen) ==
    (IF "presets" \in widen THEN PresetCaps ELSE {})
        \cup (IF "modes" \in widen THEN {"heat"} ELSE {})

Overridden(kind, widen, merge) ==
    IF "bad" \in widen THEN Reports[kind]
    ELSE (Reports[kind] \ IF merge THEN {} ELSE Touched(widen)) \cup Added(widen)

Nothing == [caps |-> {}, interval |-> 0, fan_only |-> FALSE,
            energy |-> Absent, power |-> Absent]

(* Only an air conditioner has energy sensors. *)
ForKind(kind, setting) == IF kind = "AC" THEN setting ELSE Absent

Off == [power |-> FALSE, mode |-> "cool", active |-> {}, fan |-> "auto"]

NoCommand == [of |-> "nothing", what |-> "nothing"]

Spend(what) == budget[what] > 0 /\ budget' = [budget EXCEPT ![what] = @ - 1]

EntryInit ==
    /\ Init
    /\ disk \in {With(s, [wish |-> Meaning(s)]) : s \in Stored}
    /\ entry = disk
    /\ life = "down"
    /\ running = Nothing
    /\ reload = FALSE
    /\ missed = FALSE
    /\ ac = Off /\ asked = NoCommand
    /\ budget = [crashes |-> Crashes, changes |-> Changes, failures |-> Failures]
-----------------------------------------------------------------------------
(* Home Assistant starts and loads the entry from its store. *)
Start ==
    /\ life = "down"
    /\ life' = "stopped"
    /\ entry' = disk
    /\ UNCHANGED <<vars, disk, running, reload, missed, ac, asked, budget>>

(* It stops, or crashes: memory is lost, with what was not saved yet. *)
Crash ==
    /\ life # "down"
    /\ Spend("crashes")
    /\ life' = "down"
    /\ entry' = disk
    /\ running' = Nothing /\ ac' = Off /\ asked' = NoCommand
    /\ reload' = FALSE /\ missed' = FALSE
    /\ phase' = [e \in Entity |-> "absent"]
    /\ count' = [g \in Group |-> 0]
    /\ enabled' = [g \in Group |-> FALSE]
    /\ UNCHANGED disk

(* The delayed save. *)
Save ==
    /\ life # "down" /\ disk # entry
    /\ disk' = entry
    /\ UNCHANGED <<vars, entry, life, running, reload, missed, ac, asked, budget>>

\* Slip: a set-up that was not ready is not tried again.
OpenOnce ==
    /\ life = "stopped"
    /\ IF entry.major > 1
       THEN life' = "refused" /\ UNCHANGED entry
       ELSE life' = "connecting" /\ entry' = Migrated(entry)
    /\ missed' = FALSE
    /\ count' = [g \in Group |-> 0]
    /\ enabled' = [g \in Group |-> FALSE]
    /\ UNCHANGED <<phase, disk, running, reload, ac, asked, budget>>

(* The entry is migrated and its set-up begins: the device is constructed   *)
(* and authenticated.  After a failed attempt it is the retry, or a reload  *)
(* that waited, that comes here.                                            *)
Open ==
    /\ life = "stopped" \/ life = "waiting" \/ (life = "broken" /\ reload)
    /\ IF entry.major > 1
       THEN life' = "refused" /\ UNCHANGED entry
       ELSE life' = "connecting" /\ entry' = Migrated(entry)
    /\ reload' = (reload /\ life = "stopped")
    /\ missed' = FALSE
    /\ count' = [g \in Group |-> 0]
    /\ enabled' = [g \in Group |-> FALSE]
    /\ UNCHANGED <<phase, disk, running, ac, asked, budget>>

(* No authentication, or no first refresh: ConfigEntryNotReady, retried.    *)
(* An error of get_capabilities is not turned into one: set-up has failed.  *)
Fail ==
    /\ Spend("failures")
    /\ \/ life = "connecting" /\ life' \in {"waiting", "broken"}
       \/ life = "refreshing" /\ life' = "waiting"
    /\ running' = Nothing
    /\ UNCHANGED <<vars, disk, entry, reload, missed, ac, asked>>

(* Authenticated and the capabilities known: overrides and interval. *)
Prepare ==
    /\ life = "connecting"
    /\ life' = "refreshing"
    /\ running' = [Nothing EXCEPT
           !.caps = Overridden(Kind, Get(entry.options, "capability_overrides", {}),
                               Get(entry.options, "merge_capability_overrides", TRUE)),
           !.interval = Get(entry.options, "update_interval", UPDATE_INTERVAL)]
    /\ UNCHANGED <<vars, disk, entry, reload, missed, ac, asked, budget>>

(* The first refresh is back: the platforms are set up, each reading its    *)
(* options.                                                                 *)
Forward ==
    /\ life = "refreshing"
    /\ life' = "forwarding"
    /\ running' = [running EXCEPT
           !.fan_only = /\ Kind = "AC"
                        /\ Get(Get(entry.options, "workarounds", [k \in {} |-> FALSE]),
                               "use_fan_only_workaround", FALSE),
           !.energy = ForKind(Kind, Get(entry.options, "energy_sensor", Absent)),
           !.power  = ForKind(Kind, Get(entry.options, "power_sensor", Absent))]
    /\ ac' \in Devices[Kind]
    /\ UNCHANGED <<vars, disk, entry, reload, missed, asked, budget>>

(* All platforms are set up: the listener is registered. *)
Finish ==
    /\ life = "forwarding"
    /\ \A e \in Entity : phase[e] # "adding"
    /\ life' = "ready"
    /\ UNCHANGED <<vars, disk, entry, running, reload, missed, ac, asked, budget>>

\* Slip: the listener is never registered.
ConfigureUnheard ==
    \E options \in Choices[Kind] :
        /\ life \notin {"down", "refused"} /\ At(entry, 7)
        /\ options # entry.options
        /\ Spend("changes")
        /\ entry' = [entry EXCEPT !.options = options,
                                  !.wish = Meaning([entry EXCEPT !.options = options])]
        /\ missed' = (missed \/ life \in SettingUp)
        /\ UNCHANGED <<vars, disk, life, running, reload, ac, asked>>

(* The settings form replaces all options; the listener, if registered,     *)
(* asks for a reload.  A form that changes nothing is not reported.         *)
Configure ==
    \E options \in Choices[Kind] :
        /\ life \notin {"down", "refused"} /\ At(entry, 7)
        /\ options # entry.options
        /\ Spend("changes")
        /\ entry' = [entry EXCEPT !.options = options,
                                  !.wish = Meaning([entry EXCEPT !.options = options])]
        /\ reload' = (reload \/ life \in {"ready", "closing"})
        /\ missed' = (missed \/ life \in SettingUp)
        /\ UNCHANGED <<vars, disk, life, running, ac, asked>>

(* The reload task unloads the platforms, which removes their entities; the *)
(* coordinator goes, and the listener with it, once all are gone.           *)
Reload ==
    /\ life = "ready" /\ reload
    /\ life' = "closing"
    /\ reload' = FALSE
    /\ asked' = NoCommand
    /\ UNCHANGED <<vars, disk, entry, running, missed, ac, budget>>

Closed ==
    /\ life = "closing"
    /\ \A e \in Entity : phase[e] = "absent"
    /\ life' = "stopped"
    /\ running' = Nothing /\ ac' = Off /\ asked' = NoCommand
    /\ UNCHANGED <<vars, disk, entry, reload, missed, budget>>

(* A platform is not unloaded: the coordinator stays, with the entities     *)
(* that are left.  Home Assistant does not take the entry further, and      *)
(* reloads no entry in this state, before it is started again.              *)
UnloadFails ==
    /\ life = "closing"
    /\ \A e \in Entity : phase[e] \in {"absent", "added"}
    /\ Spend("failures")
    /\ life' = "stuck"
    /\ reload' = FALSE
    /\ UNCHANGED <<vars, disk, entry, running, missed, ac, asked>>

(* Entities come with the platforms; they go with the entry, or when their  *)
(* user disables them.                                                      *)
Come(e) == life = "forwarding" /\ Kind = "AC" /\ Add(e) /\ UNCHANGED entryVars

Go(e) == life = "closing" /\ Remove(e) /\ UNCHANGED entryVars

Disable(e) ==
    /\ life \in Loaded
    /\ Remove(e)
    /\ Spend("changes")
    /\ UNCHANGED <<disk, entry, life, running, reload, missed, ac, asked>>

Count(e) == (Register(e) \/ Unregister(e)) /\ UNCHANGED entryVars
-----------------------------------------------------------------------------
(* The climate entity's commands, each for what the entity offers, and what *)
(* a refresh brings in from the remote control.                             *)
Command(device, command) ==
    /\ life \in Loaded
    /\ ac' = device
    /\ asked' = command
    /\ UNCHANGED <<vars, disk, entry, life, running, reload, missed, budget>>

ChooseMode(m) ==
    /\ m \in HvacModes(running.caps \cap ModeCaps)
    /\ Command(SetHvacMode(Kind, running.caps, ac, m), [of |-> "mode", what |-> m])

ChoosePreset(p) ==
    /\ p \in PresetModes(Kind, running.caps, ac)
    /\ Command(SetPreset(Kind, running.caps, ac, p), [of |-> "preset", what |-> p])

ChooseFan(f) ==
    /\ f \in FanModes(Kind, running.caps, Speeds, ac)
    /\ Command(SetFanMode(ac, f), [of |-> "fan", what |-> f])

Switch == Command(TurnOn(ac), NoCommand) \/ Command(TurnOff(ac), NoCommand)

Remote == \E d \in Devices[Kind] : Command(d, NoCommand)

Mode == ModeCaps \cup {"off"}
Preset == Flag \cup {"none"}
Fan == NamedSpeed \cup {"custom"}

EntryNext ==
    \/ Start \/ Crash \/ Save \/ Open \/ Fail \/ Prepare \/ Forward \/ Finish
    \/ Configure \/ Reload \/ Closed \/ UnloadFails
    \/ \E e \in Entity : Come(e) \/ Go(e) \/ Disable(e) \/ Count(e)
    \/ \E m \in Mode : ChooseMode(m)
    \/ \E p \in Preset : ChoosePreset(p)
    \/ \E f \in Fan : ChooseFan(f)
    \/ Switch \/ Remote

EntrySpec == EntryInit /\ [][EntryNext]_allVars

(* Home Assistant runs the tasks of set-up, unload and reload to their end  *)
(* and retries a set-up that was not ready; nobody has to change anything.  *)
Tasks ==
    \/ Open \/ Prepare \/ Forward \/ Finish \/ Reload \/ Closed
    \/ \E e \in Entity : Count(e) \/ Go(e)

EntryFair == EntrySpec /\ WF_allVars(Tasks)
-----------------------------------------------------------------------------
(* Every variable keeps its type. *)
EntryTypeOK ==
    /\ TypeOK
    /\ life \in Life
    /\ reload \in BOOLEAN /\ missed \in BOOLEAN
    /\ entry.minor \in 1..7 /\ disk.minor \in 1..7
    /\ ac \in DeviceState
    /\ asked.of \in {"nothing", "mode", "preset", "fan"}

(* The options say what the entry's user last chose, in whatever version    *)
(* they were written and however often a crash made the migration start     *)
(* over from the saved entry (test_init.py:39 to 330 try one step each).    *)
MeaningKept ==
    /\ Meaning(entry) = entry.wish
    /\ Meaning(disk) = disk.wish

(* What the set-up makes of settings. *)
Wanted(kind, w) ==
    [caps     |-> Overridden(kind, w.widen, w.merge),
     interval |-> w.interval,
     fan_only |-> kind = "AC" /\ w.fan_only,
     energy   |-> ForKind(kind, w.energy),
     power    |-> ForKind(kind, w.power)]

(* A loaded entry runs with the settings its user last chose, all of them:  *)
(* set-up reads them at three moments, and only a change made while it was  *)
(* still running may go unheard (as an address does in AddressOverlap).     *)
SettingsInEffect ==
    life = "ready" /\ ~ reload /\ ~ missed => running = Wanted(Kind, entry.wish)

(* What is chosen of what the climate entity offers is what it shows from   *)
(* then on, whatever the remote control had set before, until it is used    *)
(* again or something else is chosen.                                       *)
Shown(of) ==
    CASE of = "mode"   -> HvacMode(Kind, ac)
      [] of = "preset" -> PresetMode(Kind, running.caps, ac)
      [] of = "fan"    -> FanMode(ac)

CommandsShow == asked # NoCommand => Shown(asked.of) = asked.what

(* A change its listener heard is in effect in the end, through unload and  *)
(* failed set-ups, unless set-up broke, an unload failed, or Home Assistant *)
(* stopped; these three leave the entry to its user.                        *)
ChangesTakeEffect ==
    reload ~> (life = "ready" /\ ~ reload) \/ life \in {"down", "broken", "stuck"}
=============================================================================
