--------------------------- MODULE ClimateEntity ---------------------------
(***************************************************************************)
(* The climate entity (climate.py): what it offers and shows of a device   *)
(* and what its commands stage on it.  The device, as its proxy shows it,  *)
(* is a record                                                             *)
(*   power   whether it runs,                                              *)
(*   mode    its operational mode,                                         *)
(*   active  which of the device's preset flags are set,                   *)
(*   fan     its fan speed: a named one, or any other number.              *)
(* kind is the device type, caps what the device supports after overrides. *)
(* Every command ends in coordinator.apply, which is DeviceCoordinator's.  *)
(***************************************************************************)
EXTENDS Integers, Sequences

(* The mode of the device a named HVAC mode stands for, and back; smart dry *)
(* is shown as dry and never offered under its own name.                    *)
Smart(kind, caps, m) ==
    IF kind = "AC" /\ m = "dry" /\ "humidity" \in caps THEN "smart_dry" ELSE m

HvacModes(modes) == (modes \ {"smart_dry"}) \cup {"off"}

HvacMode(kind, d) ==
    IF ~ d.power THEN "off"
    ELSE IF kind = "AC" /\ d.mode = "smart_dry" THEN "dry" ELSE d.mode

SetHvacMode(kind, caps, d, m) ==
    IF m = "off" THEN [d EXCEPT !.power = FALSE]
    ELSE [d EXCEPT !.power = TRUE, !.mode = Smart(kind, caps, m)]

TurnOn(d) == [d EXCEPT !.power = TRUE]

TurnOff(d) == [d EXCEPT !.power = FALSE]
-----------------------------------------------------------------------------
(* Presets: the entity reads the flags in a fixed order and shows the first *)
(* that is set and supported; an AC always supports sleep.                  *)
Order == <<"eco", "ieco", "boost", "away", "silent", "sleep">>

Known(kind) ==
    IF kind = "AC" THEN {"eco", "ieco", "boost", "away", "sleep"}
                   ELSE {"eco", "silent", "sleep"}

Backed(kind, caps) ==
    Known(kind) \cap (caps \cup IF kind = "AC" THEN {"sleep"} ELSE {})

PresetMode(kind, caps, d) ==
    LET shown == {i \in DOMAIN Order : Order[i] \in d.active \cap Backed(kind, caps)}
    IN IF shown = {} THEN "none" ELSE Order[CHOOSE i \in shown : \A j \in shown : i <= j]

(* An AC offers only what suits the mode it is in, a CC all it supports. *)
Suited(mode) ==
    CASE mode \in {"auto", "cool"} -> {"eco", "ieco", "sleep", "boost"}
      [] mode = "dry"              -> {"eco", "ieco"}
      [] mode = "heat"             -> {"away", "sleep", "boost"}
      [] OTHER                     -> {}

PresetModes(kind, caps, d) ==
    {"none"} \cup (Backed(kind, caps)
                     \cap IF kind = "AC" THEN Suited(d.mode) ELSE Known(kind))

\* Slip: iECO is never cleared.
SetPresetKeepIeco(kind, caps, d, p) ==
    [d EXCEPT !.active = (@ \cap {"ieco"}) \cup ({p} \cap Known(kind))]

(* Every flag is set or cleared, except that iECO is left alone where it is *)
(* not supported.                                                           *)
SetPreset(kind, caps, d, p) ==
    LET left == IF kind = "AC" THEN {"ieco"} \ caps ELSE {"ieco", "boost", "away"}
    IN [d EXCEPT !.active = (@ \cap left) \cup ({p} \cap (Known(kind) \ left))]
-----------------------------------------------------------------------------
(* Fan speeds: a number without a name is shown and offered as custom, and  *)
(* choosing custom changes nothing and sends nothing.                       *)
NamedSpeed == {"auto", "low", "high"}

FanMode(d) == IF d.fan \in NamedSpeed THEN d.fan ELSE "custom"

FanModes(kind, caps, speeds, d) ==
    speeds \cup IF kind = "AC" /\ "custom_fan" \in caps /\ d.fan \notin NamedSpeed
                THEN {"custom"} ELSE {}

SetFanMode(d, f) == IF f = "custom" THEN d ELSE [d EXCEPT !.fan = f]
=============================================================================
