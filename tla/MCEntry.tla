------------------------------ MODULE MCEntry ------------------------------
(* A small instance of Entry for TLC. *)
EXTENDS Entry

CONSTANTS s1, s2, s3, energy, group2

OneEach == [e \in Entity |-> CASE e \in {s1, s2} -> energy
                               [] OTHER -> group2]

None == [k \in {} |-> FALSE]
AC == [device_type |-> "AC"]
CC == [device_type |-> "CC"]
Flags(ks) == [k \in ks |-> TRUE]
Layout(minor, data, options) ==
    [major |-> 1, minor |-> minor, data |-> data, options |-> options]

Sections(e, ks) ==
    [energy_sensor |-> e, power_sensor |-> Section(e.data_format, 10), workarounds |-> Flags(ks)]

Overrides(widen, merge) ==
    [capability_overrides |-> widen, merge_capability_overrides |-> merge]

(* The ones a run starts from. *)
SomeStored ==
    {Layout(1, None, Flags({"use_alternate_energy_format", "use_fan_only_workaround",
                            "additional_operation_modes"})),
     Layout(5, CC, None),
     [Layout(1, AC, None) EXCEPT !.major = 2]}

(* What the form sends: sections as they are shown, other fields or not. *)
SomeChoices ==
    [AC |-> {With(Sections(Section("bcd", 10), {}), Overrides({"presets", "modes"}, FALSE)),
             With(Sections(Section("binary", 1), {"use_fan_only_workaround"}),
                  [update_interval |-> 5, capability_overrides |-> {"bad"}])},
     CC |-> {With([update_interval |-> 5], Overrides({"modes"}, FALSE))}]

SomeDevices ==
    [AC |-> {[power |-> TRUE, mode |-> "smart_dry", active |-> {"ieco", "eco"}, fan |-> "87"]},
     CC |-> {[power |-> TRUE, mode |-> "cool", active |-> {"silent", "eco"}, fan |-> "auto"]}]

SomeReports ==
    [AC |-> {"cool", "dry", "ieco", "humidity", "custom_fan"},
     CC |-> {"cool", "dry", "eco", "silent"}]

SomeSpeeds == {"auto"}
=============================================================================
