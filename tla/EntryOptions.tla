---------------------------- MODULE EntryOptions ----------------------------
(***************************************************************************)
(* What a stored entry holds, over the versions of its layout, and how     *)
(* async_migrate_entry (__init__.py) carries an entry of any earlier       *)
(* version to the current one.  An entry is a record                       *)
(*   major, minor  the version of its layout,                              *)
(*   data          the settings of the connection; only the type matters,  *)
(*   options       a function from the keys that are present,              *)
(*   wish          (history) the settings its user last chose, in today's  *)
(*                 terms.                                                  *)
(* Scales are in tenths.  The lines of the capability overrides are a set: *)
(* "presets" for the additional_capabilities line the migration writes,    *)
(* "modes" for a supported_modes line.                                     *)
(***************************************************************************)
EXTENDS Integers

UPDATE_INTERVAL == 15

Get(f, k, default) == IF k \in DOMAIN f THEN f[k] ELSE default

Without(f, ks) == [k \in DOMAIN f \ ks |-> f[k]]

With(f, g) == [k \in DOMAIN f \cup DOMAIN g |-> IF k \in DOMAIN g THEN g[k] ELSE f[k]]

Section(format, scale) == [data_format |-> format, data_scale |-> scale]

Absent == Section("none", 0)

At(e, minor) == e.major = 1 /\ e.minor = minor

Upgraded(e, options) == [e EXCEPT !.minor = @ + 1, !.options = options]
-----------------------------------------------------------------------------
(* 1.1 -> 1.2: the identifier becomes a string, the options stay. *)
To12(e) == IF At(e, 1) THEN Upgraded(e, e.options) ELSE e

(* 1.2 -> 1.3: the energy flag becomes the name of a format. *)
To13(e) ==
    IF ~ At(e, 2) THEN e
    ELSE Upgraded(e, With(Without(e.options, {"use_alternate_energy_format"}),
             [energy_format |-> IF Get(e.options, "use_alternate_energy_format", FALSE)
                                THEN "alternate_b" ELSE "default"]))

\* Slip: the scale of the alternate formats is not told apart.
To14Unscaled(e) ==
    LET old == Get(e.options, "energy_format", "default")
        data_format == IF old = "default" THEN "bcd" ELSE "binary"
        flat == {"use_fan_only_workaround", "show_all_presets", "additional_operation_modes"}
    IN IF ~ At(e, 3) THEN e
       ELSE Upgraded(e, With(Without(e.options, flat \cup {"energy_format"}),
                [energy_sensor |-> Section(data_format, 10),
                 power_sensor  |-> Section(data_format, 10),
                 workarounds   |-> [k \in flat |-> Get(e.options, k, FALSE)]]))

(* 1.3 -> 1.4: the format becomes two sections, the workarounds a third. *)
To14(e) ==
    LET old == Get(e.options, "energy_format", "default")
        data_format == IF old = "default" THEN "bcd" ELSE "binary"
        scale == IF old = "alternate_b" THEN 1 ELSE 10
        flat == {"use_fan_only_workaround", "show_all_presets", "additional_operation_modes"}
    IN IF ~ At(e, 3) THEN e
       ELSE Upgraded(e, With(Without(e.options, flat \cup {"energy_format"}),
                [energy_sensor |-> Section(data_format, scale),
                 power_sensor  |-> Section(data_format, 10),
                 workarounds   |-> [k \in flat |-> Get(e.options, k, FALSE)]]))

(* 1.4 -> 1.5: an entry without a device type is an air conditioner's. *)
To15(e) ==
    IF ~ At(e, 4) THEN e
    ELSE [Upgraded(e, e.options) EXCEPT !.data = With([device_type |-> "AC"], @)]

(* 1.5 -> 1.6: two of the workarounds become lines of capability overrides. *)
Lines(workarounds) ==
    (IF Get(workarounds, "show_all_presets", FALSE) THEN {"presets"} ELSE {})
        \cup (IF Get(workarounds, "additional_operation_modes", FALSE) THEN {"modes"} ELSE {})

To16(e) ==
    LET old == Get(e.options, "workarounds", [k \in {} |-> FALSE])
        popped == {"show_all_presets", "additional_operation_modes"}
        kept == IF "workarounds" \in DOMAIN e.options
                THEN With(e.options, [workarounds |-> Without(old, popped)])
                ELSE e.options
    IN IF ~ At(e, 5) THEN e
       ELSE Upgraded(e, With(kept, [capability_overrides |-> Lines(old),
                                    merge_capability_overrides |-> TRUE]))

\* Slip: the step asks for any version from 1.6 on.
To17Again(e) ==
    IF e.major # 1 \/ e.minor < 6 THEN e
    ELSE Upgraded(e, With([update_interval |-> UPDATE_INTERVAL], e.options))

(* 1.6 -> 1.7: the update interval becomes an option. *)
To17(e) ==
    IF ~ At(e, 6) THEN e
    ELSE Upgraded(e, With([update_interval |-> UPDATE_INTERVAL], e.options))

(* async_migrate_entry: it runs in one go, every step on what the steps     *)
(* before it left; an entry of a later major version is refused as it is.   *)
Migrated(e) == To17(To16(To15(To14(To13(To12(e))))))
-----------------------------------------------------------------------------
(* What the options of an entry mean, each version read by itself: in 1.1   *)
(* and 1.2 a flag and in 1.3 a name tells the energy format, the default    *)
(* being BCD and both alternates binary, B in tenths; the workarounds are   *)
(* flat up to 1.3 and a section after; up to 1.5 they, and since 1.6 the    *)
(* overrides, widen what the appliance reports.                             *)
OldFormat(e) ==
    IF e.minor = 3 THEN Get(e.options, "energy_format", "default")
    ELSE IF Get(e.options, "use_alternate_energy_format", FALSE)
         THEN "alternate_b" ELSE "default"

Energy(e) ==
    IF e.minor > 3 THEN Get(e.options, "energy_sensor", Absent)
    ELSE CASE OldFormat(e) = "default"     -> Section("bcd", 10)
           [] OldFormat(e) = "alternate_a" -> Section("binary", 10)
           [] OldFormat(e) = "alternate_b" -> Section("binary", 1)

Power(e) ==
    IF e.minor > 3 THEN Get(e.options, "power_sensor", Absent)
    ELSE Section(Energy(e).data_format, 10)

Workarounds(e) ==
    IF e.minor > 3 THEN Get(e.options, "workarounds", [k \in {} |-> FALSE]) ELSE e.options

Widening(e) ==
    IF e.minor > 5 THEN Get(e.options, "capability_overrides", {}) ELSE Lines(Workarounds(e))

Meaning(e) ==
    [energy   |-> Energy(e),
     power    |-> Power(e),
     fan_only |-> Get(Workarounds(e), "use_fan_only_workaround", FALSE),
     widen    |-> Widening(e),
     merge    |-> Get(e.options, "merge_capability_overrides", TRUE),
     interval |-> Get(e.options, "update_interval", UPDATE_INTERVAL)]

(* What an entry of any version may look like: 1.3 knows three formats, and *)
(* overrides came with 1.6.                                                 *)
Sound(e) ==
    /\ {"major", "minor", "data", "options"} \subseteq DOMAIN e
    /\ e.major \in Nat \ {0} /\ e.minor \in 1..7
    /\ e.minor = 3 => Get(e.options, "energy_format", "default")
                         \in {"default", "alternate_a", "alternate_b"}
    /\ e.minor < 6 => DOMAIN e.options
                         \cap {"capability_overrides", "merge_capability_overrides"} = {}
=============================================================================
