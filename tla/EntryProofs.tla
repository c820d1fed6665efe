---------------------------- MODULE EntryProofs ----------------------------
(***************************************************************************)
(* The migration keeps what an entry's options mean, for every option that *)
(* is there or missing, and a loaded entry runs with the settings its user *)
(* last chose, for any stored entries, any forms and any number of crashes, *)
(* changes and failed set-ups.                                             *)
(***************************************************************************)
EXTENDS Entry, RequestGroupsProofs

(* What is read from options after keys were taken out or put in. *)
LEMMA GetWithout ==
    \A f, ks, k, d : Get(Without(f, ks), k, d) = IF k \in ks THEN d ELSE Get(f, k, d)
BY DEF Get, Without

LEMMA GetWith ==
    \A f, g, k, d : Get(With(f, g), k, d) = IF k \in DOMAIN g THEN g[k] ELSE Get(f, k, d)
BY DEF Get, With

(* Entries mean the same when they do in each of these six. *)
LEMMA SameMeaning ==
    ASSUME NEW e, NEW n, Energy(n) = Energy(e), Power(n) = Power(e), Widening(n) = Widening(e),
           Get(Workarounds(n), "use_fan_only_workaround", FALSE)
             = Get(Workarounds(e), "use_fan_only_workaround", FALSE),
           Get(n.options, "merge_capability_overrides", TRUE)
             = Get(e.options, "merge_capability_overrides", TRUE),
           Get(n.options, "update_interval", UPDATE_INTERVAL)
             = Get(e.options, "update_interval", UPDATE_INTERVAL)
    PROVE  Meaning(n) = Meaning(e)
BY Zenon DEF Meaning

(* What a step of the migration promises: it raises the version by one if   *)
(* the entry is of the one it is for, and keeps the rest.                   *)
StepFrom(k, e, n) ==
    /\ Sound(n)
    /\ Meaning(n) = Meaning(e)
    /\ n.major = e.major
    /\ n.minor = IF At(e, k) THEN k + 1 ELSE e.minor
    /\ "wish" \in DOMAIN e => "wish" \in DOMAIN n /\ n.wish = e.wish

LEMMA Step12 == ASSUME NEW e, Sound(e) PROVE StepFrom(1, e, To12(e))
<1>1. CASE At(e, 1)
  <2> DEFINE n == Upgraded(e, e.options)
  <2>1. n.options = e.options /\ n.minor = 2 /\ n.major = e.major /\ DOMAIN n = DOMAIN e
        /\ ("wish" \in DOMAIN e => n.wish = e.wish)
    BY <1>1 DEF Upgraded, Sound, At
  <2>2. Sound(n)
    BY <1>1, <2>1 DEF Sound, At
  <2>3. Energy(n) = Energy(e)
    BY <1>1, <2>1 DEF Energy, OldFormat, At
  <2>4. Power(n) = Power(e) /\ Workarounds(n) = Workarounds(e)
    BY <1>1, <2>1, <2>3 DEF Power, Workarounds, At
  <2>5. Meaning(n) = Meaning(e)
    <3>1. Widening(n) = Widening(e)
      BY <1>1, <2>1, <2>4 DEF Widening, At
    <3>2. QED
      BY <2>1, <2>3, <2>4, <3>1, SameMeaning
  <2>6. To12(e) = n
    BY <1>1 DEF To12
  <2>7. QED
    BY <1>1, <2>1, <2>2, <2>5, <2>6 DEF StepFrom
<1>2. CASE ~ At(e, 1)
  BY <1>2 DEF StepFrom, To12
<1>3. QED
  BY <1>1, <1>2

LEMMA Step13 == ASSUME NEW e, Sound(e) PROVE StepFrom(2, e, To13(e))
<1>1. CASE At(e, 2)
  <2> DEFINE flag == Get(e.options, "use_alternate_energy_format", FALSE)
             f == IF flag THEN "alternate_b" ELSE "default"
             g == [energy_format |-> f]
             o == With(Without(e.options, {"use_alternate_energy_format"}), g)
             n == Upgraded(e, o)
  <2>1. n.options = o /\ n.minor = 3 /\ n.major = e.major /\ DOMAIN n = DOMAIN e
        /\ ("wish" \in DOMAIN e => n.wish = e.wish)
    BY <1>1 DEF Upgraded, Sound, At
  <2>2. DOMAIN g = {"energy_format"} /\ g["energy_format"] = f
    OBVIOUS
  <2>3. To13(e) = n
    BY <1>1 DEF To13
  <2>4. /\ f \in {"alternate_a", "alternate_b", "default"}
        /\ OldFormat(e) = f
    BY <1>1 DEF OldFormat, At
  <2> HIDE DEF f, g
  <2>5. \A k, d : k \notin {"use_alternate_energy_format", "energy_format"} =>
           Get(o, k, d) = Get(e.options, k, d)
    BY <2>2, GetWith, GetWithout
  <2>6. Get(o, "energy_format", "default") = f
    BY <2>2, GetWith
  <2>7. DOMAIN o \subseteq DOMAIN e.options \cup {"energy_format"}
    BY <2>2 DEF With, Without
  <2> HIDE DEF o, n
  <2>8. Sound(n)
    BY <1>1, <2>1, <2>4, <2>6, <2>7 DEF Sound, At
  <2>9. Energy(n) = Energy(e)
    <3>1. OldFormat(n) = f
      BY <2>1, <2>6 DEF OldFormat
    <3>2. QED
      BY <1>1, <2>1, <2>4, <3>1 DEF Energy, At
  <2>10. Power(n) = Power(e)
    BY <1>1, <2>1, <2>9 DEF Power, At
  <2>11. Workarounds(n) = o /\ Workarounds(e) = e.options
    BY <1>1, <2>1 DEF Workarounds, At
  <2>12. Lines(o) = Lines(e.options)
    BY <2>5 DEF Lines
  <2>13. Meaning(n) = Meaning(e)
    <3>1. /\ Get(o, "use_fan_only_workaround", FALSE)
               = Get(e.options, "use_fan_only_workaround", FALSE)
          /\ Get(o, "merge_capability_overrides", TRUE)
               = Get(e.options, "merge_capability_overrides", TRUE)
          /\ Get(o, "update_interval", UPDATE_INTERVAL)
               = Get(e.options, "update_interval", UPDATE_INTERVAL)
      BY <2>5, Zenon
    <3>2. Widening(n) = Widening(e)
      BY <1>1, <2>1, <2>11, <2>12 DEF Widening, At
    <3>3. QED
      BY <2>1, <2>9, <2>10, <2>11, <3>1, <3>2, SameMeaning, Zenon
  <2>14. QED
    BY <1>1, <2>1, <2>3, <2>8, <2>13 DEF StepFrom
<1>2. CASE ~ At(e, 2)
  BY <1>2 DEF StepFrom, To13
<1>3. QED
  BY <1>1, <1>2

LEMMA Step14 == ASSUME NEW e, Sound(e) PROVE StepFrom(3, e, To14(e))
<1>1. CASE At(e, 3)
  <2> DEFINE old == Get(e.options, "energy_format", "default")
             format == IF old = "default" THEN "bcd" ELSE "binary"
             scale == IF old = "alternate_b" THEN 1 ELSE 10
             flat == {"use_fan_only_workaround", "show_all_presets",
                      "additional_operation_modes"}
             w == [k \in flat |-> Get(e.options, k, FALSE)]
             g == [energy_sensor |-> Section(format, scale),
                   power_sensor  |-> Section(format, 10),
                   workarounds   |-> w]
             o == With(Without(e.options, flat \cup {"energy_format"}), g)
             n == Upgraded(e, o)
  <2>1. n.options = o /\ n.minor = 4 /\ n.major = e.major /\ DOMAIN n = DOMAIN e
        /\ ("wish" \in DOMAIN e => n.wish = e.wish)
    BY <1>1 DEF Upgraded, Sound, At
  <2>2. /\ DOMAIN g = {"energy_sensor", "power_sensor", "workarounds"}
        /\ g["energy_sensor"] = Section(format, scale)
        /\ g["power_sensor"] = Section(format, 10)
        /\ g["workarounds"] = w
    OBVIOUS
  <2>3. To14(e) = n
    BY <1>1 DEF To14
  <2>4. \A d : \A k \in flat : Get(w, k, d) = Get(e.options, k, FALSE)
    BY DEF Get
  <2> HIDE DEF g, w
  <2>5. /\ Get(o, "energy_sensor", Absent) = Section(format, scale)
        /\ Get(o, "power_sensor", Absent) = Section(format, 10)
        /\ \A d : Get(o, "workarounds", d) = w
    BY <2>2, GetWith
  <2>6. /\ Get(o, "merge_capability_overrides", TRUE)
             = Get(e.options, "merge_capability_overrides", TRUE)
        /\ Get(o, "update_interval", UPDATE_INTERVAL)
             = Get(e.options, "update_interval", UPDATE_INTERVAL)
    <3>1. \A k, d : k \notin DOMAIN g \cup flat \cup {"energy_format"} =>
             Get(o, k, d) = Get(e.options, k, d)
      BY GetWith, GetWithout
    <3>2. {"merge_capability_overrides", "update_interval"}
            \cap (DOMAIN g \cup flat \cup {"energy_format"}) = {}
      BY <2>2
    <3>3. QED
      BY <3>1, <3>2
  <2>7. DOMAIN o \subseteq DOMAIN e.options \cup {"energy_sensor", "power_sensor", "workarounds"}
    BY <2>2 DEF With, Without
  <2>8. old \in {"default", "alternate_a", "alternate_b"}
    BY <1>1 DEF Sound, At
  <2>9. /\ Energy(e) = Section(format, scale)
        /\ Energy(e).data_format = format
    BY <1>1, <2>8 DEF Energy, OldFormat, At, Section
  <2> HIDE DEF o, n
  <2>10. Sound(n)
    BY <1>1, <2>1, <2>7 DEF Sound, At
  <2>11. Energy(n) = Energy(e)
    <3>1. Energy(n) = Get(o, "energy_sensor", Absent)
      BY <2>1 DEF Energy
    <3>2. QED
      BY <2>5, <2>9, <3>1, Zenon
  <2>12. Power(n) = Power(e)
    BY <1>1, <2>1, <2>5, <2>9 DEF Power, At
  <2>13. Workarounds(n) = w /\ Workarounds(e) = e.options
    BY <1>1, <2>1, <2>5 DEF Workarounds, At
  <2>14. /\ Lines(w) = Lines(e.options)
         /\ Get(w, "use_fan_only_workaround", FALSE)
              = Get(e.options, "use_fan_only_workaround", FALSE)
    BY <2>4 DEF Lines
  <2>15. Meaning(n) = Meaning(e)
    <3>1. Widening(n) = Widening(e)
      BY <1>1, <2>1, <2>13, <2>14 DEF Widening, At
    <3>2. QED
      BY <2>1, <2>6, <2>11, <2>12, <2>13, <2>14, <3>1, SameMeaning, Zenon
  <2>16. QED
    BY <1>1, <2>1, <2>3, <2>10, <2>15 DEF StepFrom
<1>2. CASE ~ At(e, 3)
  BY <1>2 DEF StepFrom, To14
<1>3. QED
  BY <1>1, <1>2

LEMMA Step15 == ASSUME NEW e, Sound(e) PROVE StepFrom(4, e, To15(e))
<1>1. CASE At(e, 4)
  <2> DEFINE data == With([device_type |-> "AC"], Upgraded(e, e.options).data)
             n == [Upgraded(e, e.options) EXCEPT !.data = data]
  <2>1. n.options = e.options /\ n.minor = 5 /\ n.major = e.major /\ DOMAIN n = DOMAIN e
        /\ ("wish" \in DOMAIN e => n.wish = e.wish)
    BY <1>1 DEF Upgraded, Sound, At
  <2>2. To15(e) = n
    BY <1>1 DEF To15
  <2> HIDE DEF n
  <2>3. Sound(n)
    BY <1>1, <2>1 DEF Sound, At
  <2>4. Energy(n) = Energy(e) /\ Power(n) = Power(e) /\ Workarounds(n) = Workarounds(e)
    BY <1>1, <2>1 DEF Energy, Power, Workarounds, At
  <2>5. Meaning(n) = Meaning(e)
    <3>1. Widening(n) = Widening(e)
      BY <1>1, <2>1, <2>4 DEF Widening, At
    <3>2. QED
      BY <2>1, <2>4, <3>1, SameMeaning
  <2>6. QED
    BY <1>1, <2>1, <2>2, <2>3, <2>5 DEF StepFrom
<1>2. CASE ~ At(e, 4)
  BY <1>2 DEF StepFrom, To15
<1>3. QED
  BY <1>1, <1>2

LEMMA Step16 == ASSUME NEW e, Sound(e) PROVE StepFrom(5, e, To16(e))
<1>1. CASE At(e, 5)
  <2> DEFINE none == [k \in {} |-> FALSE]
             old == Get(e.options, "workarounds", none)
             popped == {"show_all_presets", "additional_operation_modes"}
             left == Without(old, popped)
             h == [workarounds |-> left]
             kept == IF "workarounds" \in DOMAIN e.options
                     THEN With(e.options, h) ELSE e.options
             g == [capability_overrides |-> Lines(old), merge_capability_overrides |-> TRUE]
             o == With(kept, g)
             n == Upgraded(e, o)
  <2>1. n.options = o /\ n.minor = 6 /\ n.major = e.major /\ DOMAIN n = DOMAIN e
        /\ ("wish" \in DOMAIN e => n.wish = e.wish)
    BY <1>1 DEF Upgraded, Sound, At
  <2>2. To16(e) = n
    BY <1>1 DEF To16
  <2>3. /\ DOMAIN h = {"workarounds"} /\ h["workarounds"] = left
        /\ DOMAIN g = {"capability_overrides", "merge_capability_overrides"}
        /\ g["capability_overrides"] = Lines(old)
        /\ g["merge_capability_overrides"] = TRUE
    OBVIOUS
  <2> HIDE DEF g, h
  <2>4. \A k, d : k # "workarounds" => Get(kept, k, d) = Get(e.options, k, d)
    BY <2>3, GetWith
  <2>5. Get(Get(kept, "workarounds", none), "use_fan_only_workaround", FALSE)
          = Get(old, "use_fan_only_workaround", FALSE)
    <3>1. CASE "workarounds" \in DOMAIN e.options
      <4>1. Get(kept, "workarounds", none) = left
        BY <2>3, <3>1, GetWith
      <4>2. Get(left, "use_fan_only_workaround", FALSE)
              = Get(old, "use_fan_only_workaround", FALSE)
        BY DEF Get, Without
      <4>3. QED
        BY <4>1, <4>2, Zenon
    <3>2. CASE "workarounds" \notin DOMAIN e.options
      BY <3>2
    <3>3. QED
      BY <3>1, <3>2
  <2> HIDE DEF kept
  <2>6. \A k, d : k \notin {"capability_overrides", "merge_capability_overrides"} =>
           Get(o, k, d) = Get(kept, k, d)
    BY <2>3, GetWith
  <2>7. /\ Get(o, "capability_overrides", {}) = Lines(old)
        /\ Get(o, "merge_capability_overrides", TRUE) = TRUE
    BY <2>3, GetWith
  <2>8. Get(e.options, "merge_capability_overrides", TRUE) = TRUE
    BY <1>1 DEF Get, Sound, At
  <2> HIDE DEF o, n
  <2>9. Sound(n)
    BY <1>1, <2>1 DEF Sound, At
  <2>10. Energy(n) = Energy(e) /\ Power(n) = Power(e)
    <3>1. /\ Get(o, "energy_sensor", Absent) = Get(e.options, "energy_sensor", Absent)
          /\ Get(o, "power_sensor", Absent) = Get(e.options, "power_sensor", Absent)
      BY <2>4, <2>6
    <3>2. QED
      BY <1>1, <2>1, <3>1 DEF Energy, Power, At
  <2>11. Workarounds(e) = old /\ Workarounds(n) = Get(kept, "workarounds", none)
    BY <1>1, <2>1, <2>6 DEF Workarounds, At
  <2>12. Get(o, "update_interval", UPDATE_INTERVAL)
           = Get(e.options, "update_interval", UPDATE_INTERVAL)
    BY <2>4, <2>6
  <2>13. Meaning(n) = Meaning(e)
    <3>1. Widening(n) = Lines(old) /\ Widening(e) = Lines(old)
      BY <1>1, <2>1, <2>7, <2>11 DEF Widening, At
    <3>2. QED
      BY <2>1, <2>5, <2>7, <2>8, <2>10, <2>11, <2>12, <3>1, SameMeaning, Zenon
  <2>14. QED
    BY <1>1, <2>1, <2>2, <2>9, <2>13 DEF StepFrom
<1>2. CASE ~ At(e, 5)
  BY <1>2 DEF StepFrom, To16
<1>3. QED
  BY <1>1, <1>2

LEMMA Step17 == ASSUME NEW e, Sound(e) PROVE StepFrom(6, e, To17(e))
<1>1. CASE At(e, 6)
  <2> DEFINE g == [update_interval |-> UPDATE_INTERVAL]
             o == With(g, e.options)
             n == Upgraded(e, o)
  <2>1. n.options = o /\ n.minor = 7 /\ n.major = e.major /\ DOMAIN n = DOMAIN e
        /\ ("wish" \in DOMAIN e => n.wish = e.wish)
    BY <1>1 DEF Upgraded, Sound, At
  <2>2. To17(e) = n
    BY <1>1 DEF To17
  <2>3. DOMAIN g = {"update_interval"} /\ g["update_interval"] = UPDATE_INTERVAL
    OBVIOUS
  <2> HIDE DEF g
  <2>4. \A k, d : k # "update_interval" => Get(o, k, d) = Get(e.options, k, d)
    BY <2>3 DEF Get, With
  <2>5. Get(o, "update_interval", UPDATE_INTERVAL)
          = Get(e.options, "update_interval", UPDATE_INTERVAL)
    BY <2>3 DEF Get, With
  <2> HIDE DEF o, n
  <2>6. Sound(n)
    BY <1>1, <2>1 DEF Sound, At
  <2>7. /\ Get(o, "energy_sensor", Absent) = Get(e.options, "energy_sensor", Absent)
        /\ Get(o, "power_sensor", Absent) = Get(e.options, "power_sensor", Absent)
        /\ \A d : Get(o, "workarounds", d) = Get(e.options, "workarounds", d)
        /\ Get(o, "capability_overrides", {}) = Get(e.options, "capability_overrides", {})
        /\ Get(o, "merge_capability_overrides", TRUE)
             = Get(e.options, "merge_capability_overrides", TRUE)
    BY <2>4
  <2>8. Energy(n) = Energy(e) /\ Power(n) = Power(e) /\ Workarounds(n) = Workarounds(e)
    BY <1>1, <2>1, <2>7 DEF Energy, Power, Workarounds, At
  <2>9. Meaning(n) = Meaning(e)
    <3>1. Widening(n) = Widening(e)
      BY <1>1, <2>1, <2>7 DEF Widening, At
    <3>2. QED
      BY <2>1, <2>5, <2>7, <2>8, <3>1, SameMeaning, Zenon
  <2>10. QED
    BY <1>1, <2>1, <2>2, <2>6, <2>9 DEF StepFrom
<1>2. CASE ~ At(e, 6)
  BY <1>2 DEF StepFrom, To17
<1>3. QED
  BY <1>1, <1>2

(* The whole migration takes any entry of a version 1 to 1.7 and leaves     *)
(* what its options mean, and its owner's wish, as they were.               *)
THEOREM MigrationKeepsMeaning ==
    ASSUME NEW e, Sound(e)
    PROVE  LET n == Migrated(e)
           IN /\ Sound(n)
              /\ Meaning(n) = Meaning(e)
              /\ e.major = 1 => At(n, 7)
              /\ "wish" \in DOMAIN e => "wish" \in DOMAIN n /\ n.wish = e.wish
<1> DEFINE a == To12(e)  b == To13(a)  c == To14(b)
           d == To15(c)  f == To16(d)  n == To17(f)
<1>1. StepFrom(1, e, a)
  BY Step12
<1>2. StepFrom(2, a, b)
  BY <1>1, Step13 DEF StepFrom
<1>3. StepFrom(3, b, c)
  BY <1>2, Step14 DEF StepFrom
<1>4. StepFrom(4, c, d)
  BY <1>3, Step15 DEF StepFrom
<1>5. StepFrom(5, d, f)
  BY <1>4, Step16 DEF StepFrom
<1>6. StepFrom(6, f, n)
  BY <1>5, Step17 DEF StepFrom
<1>7. e.minor \in 1..7
  BY DEF Sound
<1>8. Migrated(e) = n
  BY DEF Migrated
<1> HIDE DEF a, b, c, d, f, n
<1>9. Meaning(n) = Meaning(e) /\ Sound(n)
  BY <1>1, <1>2, <1>3, <1>4, <1>5, <1>6 DEF StepFrom
<1>10. e.major = 1 => At(n, 7)
  BY <1>1, <1>2, <1>3, <1>4, <1>5, <1>6, <1>7 DEF StepFrom, At
<1>11. "wish" \in DOMAIN e => "wish" \in DOMAIN n /\ n.wish = e.wish
  BY <1>1, <1>2, <1>3, <1>4, <1>5, <1>6 DEF StepFrom
<1>12. QED
  BY <1>8, <1>9, <1>10, <1>11
(* Migrating what was migrated before changes nothing: a set-up that is     *)
(* retried or reloaded goes through async_migrate_entry again.             *)
THEOREM MigrationSettles ==
    ASSUME NEW e, Sound(e)
    PROVE  Migrated(Migrated(e)) = Migrated(e)
<1>1. ASSUME NEW n, \A k \in 1..6 : ~ At(n, k) PROVE Migrated(n) = n
  <2>1. To12(n) = n /\ To13(n) = n
    BY <1>1 DEF To12, To13
  <2>2. To14(n) = n
    BY <1>1 DEF To14
  <2>3. To15(n) = n
    BY <1>1 DEF To15
  <2>4. To16(n) = n
    BY <1>1 DEF To16
  <2>5. To17(n) = n
    BY <1>1 DEF To17
  <2>6. QED
    BY <2>1, <2>2, <2>3, <2>4, <2>5 DEF Migrated
<1>2. CASE e.major = 1
  <2>1. At(Migrated(e), 7)
    BY <1>2, MigrationKeepsMeaning
  <2>2. \A k \in 1..6 : ~ At(Migrated(e), k)
    BY <2>1 DEF At
  <2>3. QED
    BY <1>1, <2>2
<1>3. CASE e.major # 1
  BY <1>1, <1>3 DEF At
<1>4. QED
  BY <1>2, <1>3

-----------------------------------------------------------------------------
(* What a loaded entry's options mean, read at the current layout. *)
LEMMA CurrentMeaning ==
    ASSUME NEW e, At(e, 7)
    PROVE  LET m == Meaning(e)
           IN /\ m.energy = Get(e.options, "energy_sensor", Absent)
              /\ m.power = Get(e.options, "power_sensor", Absent)
              /\ m.fan_only = Get(Get(e.options, "workarounds", [k \in {} |-> FALSE]),
                                  "use_fan_only_workaround", FALSE)
              /\ m.widen = Get(e.options, "capability_overrides", {})
              /\ m.merge = Get(e.options, "merge_capability_overrides", TRUE)
              /\ m.interval = Get(e.options, "update_interval", UPDATE_INTERVAL)
<1>1. e.minor = 7
  BY DEF At
<1>2. /\ Energy(e) = Get(e.options, "energy_sensor", Absent)
      /\ Power(e) = Get(e.options, "power_sensor", Absent)
      /\ Workarounds(e) = Get(e.options, "workarounds", [k \in {} |-> FALSE])
      /\ Widening(e) = Get(e.options, "capability_overrides", {})
  BY <1>1 DEF Energy, Power, Workarounds, Widening
<1>3. QED
  BY <1>2 DEF Meaning

(* An entry that carries what its user chose. *)
Carried(e) == Sound(e) /\ "wish" \in DOMAIN e /\ Meaning(e) = e.wish

(* How far the objects in use follow the settings at each stage of set-up. *)
Half(w) ==
    [Nothing EXCEPT !.caps = Overridden(Kind, w.widen, w.merge), !.interval = w.interval]

Stage ==
    /\ life \in SettingUp \cup {"ready", "closing"} => At(entry, 7)
    /\ ~ missed /\ life = "refreshing" => running = Half(entry.wish)
    /\ ~ missed /\ life = "forwarding" => running = Wanted(Kind, entry.wish)
    /\ SettingsInEffect

Settings == Carried(entry) /\ Carried(disk) /\ Stage

(* Entities exist only while the coordinator that counts them does: with    *)
(* this, the counts may start over at the next set-up.                      *)
EntitiesInside ==
    life \notin {"forwarding", "ready", "closing", "stuck"} => \A e \in Entity : phase[e] = "absent"

(* A start finds no entities, and stored entries that mean what they mean. *)
LEMMA EntryBegins == EntryInit => IInv /\ EntitiesInside /\ Settings
<1> SUFFICES ASSUME EntryInit PROVE IInv /\ EntitiesInside /\ Settings
  OBVIOUS
<1>1. IInv
  BY GroupsInit DEF EntryInit
<1>2. EntitiesInside
  BY DEF EntryInit, Init, EntitiesInside
<1>3. PICK s \in Stored : disk = With(s, [wish |-> Meaning(s)])
  BY DEF EntryInit
<1>4. Carried(disk)
  <2> DEFINE g == [wish |-> Meaning(s)]
  <2>1. Sound(s)
    BY StoredAssumption
  <2>2. DOMAIN g = {"wish"} /\ g["wish"] = Meaning(s)
    OBVIOUS
  <2> HIDE DEF g
  <2>3. disk = With(s, g)
    BY <1>3 DEF g
  <2>4. /\ disk.options = s.options /\ disk.minor = s.minor /\ disk.major = s.major
        /\ DOMAIN disk = DOMAIN s \cup {"wish"} /\ disk.wish = Meaning(s)
    BY <2>1, <2>2, <2>3 DEF With, Sound
  <2>5. Sound(disk)
    BY <2>1, <2>4 DEF Sound
  <2>6. Energy(disk) = Energy(s) /\ Power(disk) = Power(s) /\ Workarounds(disk) = Workarounds(s)
    <3>1. OldFormat(disk) = OldFormat(s)
      BY <2>4 DEF OldFormat
    <3>2. Energy(disk) = Energy(s)
      BY <2>4, <3>1 DEF Energy
    <3>3. QED
      BY <2>4, <3>2 DEF Power, Workarounds
  <2>7. Meaning(disk) = Meaning(s)
    <3>1. Widening(disk) = Widening(s)
      BY <2>4, <2>6 DEF Widening
    <3>2. QED
      BY <2>4, <2>6, <3>1, SameMeaning
  <2>8. QED
    BY <2>4, <2>5, <2>7 DEF Carried
<1>5. Carried(entry) /\ Stage
  BY <1>4 DEF EntryInit, Stage, SettingUp, SettingsInEffect
<1>6. QED
  BY <1>1, <1>2, <1>4, <1>5 DEF Settings

(* Whatever happens to the entry, the counts stay exact, and entities live  *)
(* only inside the coordinator that counts them.                            *)
LEMMA EntryGroups ==
    IInv /\ EntitiesInside /\ [EntryNext]_allVars => IInv' /\ EntitiesInside'
<1> SUFFICES ASSUME IInv, EntitiesInside, [EntryNext]_allVars PROVE IInv' /\ EntitiesInside'
  OBVIOUS
<1>1. Init' => IInv'
  BY GroupsInit, PTL
<1>2. ASSUME UNCHANGED vars PROVE IInv'
  BY <1>2, GroupsStep
<1>3. CASE Start
  BY <1>2, <1>3 DEF Start, EntitiesInside, vars
<1>4. CASE Crash
  BY <1>1, <1>4 DEF Crash, Init, EntitiesInside
<1>5. CASE Save
  BY <1>2, <1>5 DEF Save, EntitiesInside, vars
<1>6. CASE Open
  <2>1. \A e \in Entity : phase[e] = "absent"
    BY <1>6 DEF Open, EntitiesInside
  <2>2. phase' = [e \in Entity |-> "absent"]
    BY <1>6, <2>1 DEF Open, IInv, TypeOK
  <2>3. Init'
    BY <1>6, <2>2 DEF Open, Init
  <2>4. EntitiesInside'
    BY <2>2 DEF EntitiesInside
  <2>5. QED
    BY <1>1, <2>3, <2>4
<1>7. CASE Fail
  BY <1>2, <1>7 DEF Fail, EntitiesInside, vars
<1>8. CASE Prepare
  BY <1>2, <1>8 DEF Prepare, EntitiesInside, vars
<1>9. CASE Forward
  BY <1>2, <1>9 DEF Forward, EntitiesInside, vars
<1>10. CASE Finish
  BY <1>2, <1>10 DEF Finish, EntitiesInside, vars
<1>11. CASE Configure
  BY <1>2, <1>11 DEF Configure, EntitiesInside, vars
<1>12. CASE Reload
  BY <1>2, <1>12 DEF Reload, EntitiesInside, vars
<1>13. CASE Closed
  BY <1>2, <1>13 DEF Closed, EntitiesInside, vars
<1>18. CASE UnloadFails
  BY <1>2, <1>18 DEF UnloadFails, EntitiesInside, vars
<1>14. ASSUME NEW e \in Entity, Come(e) \/ Go(e) \/ Disable(e) \/ Count(e)
       PROVE  IInv' /\ EntitiesInside'
  <2>1. Add(e) \/ Register(e) \/ Remove(e) \/ Unregister(e)
    BY <1>14 DEF Come, Go, Disable, Count
  <2>2. IInv'
    BY <2>1, GroupsStep DEF Next
  <2>3. life' = life /\ (life \in {"forwarding", "ready", "closing", "stuck"} \/ Count(e))
    BY <1>14 DEF Come, Go, Disable, Count, Loaded, entryVars
  <2>4. CASE life \in {"forwarding", "ready", "closing", "stuck"}
    BY <2>2, <2>3, <2>4 DEF EntitiesInside
  <2>5. CASE life \notin {"forwarding", "ready", "closing", "stuck"}
    <3>1. Register(e) \/ Unregister(e)
      BY <2>3, <2>5 DEF Count
    <3>2. phase[e] # "absent"
      BY <3>1 DEF Register, Unregister, Shift
    <3>3. QED
      BY <2>5, <3>2 DEF EntitiesInside
  <2>6. QED
    BY <2>4, <2>5
<1>15. ASSUME NEW d, NEW c, Command(d, c) PROVE IInv' /\ EntitiesInside'
  BY <1>2, <1>15 DEF Command, EntitiesInside, vars
<1>16. CASE UNCHANGED allVars
  BY <1>2, <1>16 DEF allVars, EntitiesInside, vars
<1>17. QED
  BY <1>3, <1>4, <1>5, <1>6, <1>7, <1>8, <1>9, <1>10, <1>11, <1>12, <1>13, <1>14, <1>15, <1>16, <1>18
     DEF EntryNext, ChooseMode, ChoosePreset, ChooseFan, Switch, Remote

(* A step that leaves the entry, its settings in use and the stage alone.   *)
LEMMA SettingsUntouched ==
    ASSUME Settings, UNCHANGED <<disk, entry, life, running, reload, missed>>
    PROVE  Settings'
BY DEF Settings, Stage, SettingsInEffect, Carried, Half, Kind

(* Every step keeps what the options mean, and set-up follows them through  *)
(* its stages unless they change under it.                                  *)
LEMMA EntrySettingsStep == Settings /\ [EntryNext]_allVars => Settings'
<1> SUFFICES ASSUME Settings, [EntryNext]_allVars PROVE Settings'
  OBVIOUS
<1> USE DEF Settings
<1>1. CASE Start
  BY <1>1 DEF Start, Stage, SettingsInEffect, SettingUp
<1>2. CASE Crash
  BY <1>2 DEF Crash, Stage, SettingsInEffect, SettingUp
<1>3. CASE Save
  BY <1>3 DEF Save, Stage, SettingsInEffect, Half, Kind, Carried
<1>4. CASE Open
  <2>1. CASE entry.major > 1
    BY <1>4, <2>1 DEF Open, Stage, SettingsInEffect, SettingUp, Carried
  <2>2. CASE ~ entry.major > 1
    <3>1. Sound(entry) /\ "wish" \in DOMAIN entry /\ Meaning(entry) = entry.wish
      BY DEF Carried
    <3>2. entry.major = 1
      BY <2>2, <3>1 DEF Sound
    <3>3. entry' = Migrated(entry) /\ life' = "connecting" /\ disk' = disk
      BY <1>4, <2>2 DEF Open
    <3>4. Carried(entry') /\ At(entry', 7)
      BY <3>1, <3>2, <3>3, MigrationKeepsMeaning DEF Carried
    <3>5. Stage'
      BY <3>3, <3>4 DEF Stage, SettingsInEffect
    <3>6. QED
      BY <3>3, <3>4, <3>5 DEF Carried
  <2>3. QED
    BY <2>1, <2>2
<1>5. CASE Fail
  BY <1>5 DEF Fail, Stage, SettingsInEffect, SettingUp
<1>6. CASE Prepare
  <2>1. At(entry, 7)
    BY <1>6 DEF Prepare, Stage, SettingUp
  <2>2. running' = Half(entry.wish)
    BY <1>6, <2>1, CurrentMeaning DEF Prepare, Half, Carried
  <2>3. entry' = entry /\ disk' = disk /\ life' = "refreshing"
    BY <1>6 DEF Prepare
  <2>4. Half(entry.wish)' = Half(entry.wish)
    BY <2>3 DEF Half, Kind
  <2>5. QED
    BY <2>1, <2>2, <2>3, <2>4 DEF Stage, SettingsInEffect, Carried
<1>7. CASE Forward
  <2>1. At(entry, 7)
    BY <1>7 DEF Forward, Stage, SettingUp
  <2>2. ASSUME ~ missed PROVE running' = Wanted(Kind, entry.wish)
    <3> DEFINE w == entry.wish
    <3>1. running = Half(w)
      BY <1>7, <2>2 DEF Forward, Stage
    <3>2. running' = [running EXCEPT !.fan_only = Kind = "AC" /\ w.fan_only,
                                     !.energy = ForKind(Kind, w.energy),
                                     !.power = ForKind(Kind, w.power)]
      <4>1. w = Meaning(entry)
        BY DEF Carried
      <4>2. /\ w.energy = Get(entry.options, "energy_sensor", Absent)
            /\ w.power = Get(entry.options, "power_sensor", Absent)
            /\ w.fan_only = Get(Get(entry.options, "workarounds", [k \in {} |-> FALSE]),
                                "use_fan_only_workaround", FALSE)
        BY <2>1, <4>1, CurrentMeaning
      <4>3. QED
        BY <1>7, <4>2, Zenon DEF Forward
    <3>3. QED
      BY <3>1, <3>2 DEF Half, Wanted, Nothing
  <2>3. entry' = entry /\ disk' = disk /\ life' = "forwarding" /\ missed' = missed
    BY <1>7 DEF Forward
  <2>4. Wanted(Kind, entry.wish)' = Wanted(Kind, entry.wish)
    BY <2>3 DEF Kind
  <2>5. QED
    BY <2>1, <2>2, <2>3, <2>4 DEF Stage, SettingsInEffect, Carried
<1>8. CASE Finish
  BY <1>8 DEF Finish, Stage, SettingsInEffect, SettingUp, Kind, Carried
<1>9. CASE Configure
  <2>1. PICK options \in Choices[Kind] :
           /\ life \notin {"down", "refused"} /\ At(entry, 7)
           /\ entry' = [entry EXCEPT !.options = options,
                                     !.wish = Meaning([entry EXCEPT !.options = options])]
           /\ reload' = (reload \/ life \in {"ready", "closing"})
           /\ missed' = (missed \/ life \in SettingUp)
           /\ disk' = disk /\ life' = life
    BY <1>9 DEF Configure
  <2> DEFINE e == [entry EXCEPT !.options = options]
  <2>2. At(entry', 7) /\ Sound(entry') /\ "wish" \in DOMAIN entry'
    BY <2>1 DEF Carried, Sound, At
  <2>3. Meaning(entry') = entry'.wish
    <3>1. At(e, 7) /\ e.options = entry'.options
      BY <2>1 DEF Carried, Sound, At
    <3>2. e.minor = 7 /\ entry'.minor = 7
      BY <2>2, <3>1 DEF At
    <3>3. /\ Energy(e) = Energy(entry') /\ Power(e) = Power(entry')
          /\ Workarounds(e) = Workarounds(entry') /\ Widening(e) = Widening(entry')
      BY <3>1, <3>2 DEF Energy, Power, Workarounds, Widening
    <3>4. Meaning(e) = Meaning(entry')
      BY <3>1, <3>3, SameMeaning
    <3>5. entry'.wish = Meaning(e)
      BY <2>1 DEF Carried
    <3>6. QED
      BY <3>4, <3>5
  <2>4. Carried(entry') /\ Carried(disk')
    BY <2>1, <2>2, <2>3 DEF Carried
  <2>5. Stage'
    BY <2>1, <2>2 DEF Stage, SettingsInEffect, SettingUp
  <2>6. QED
    BY <2>4, <2>5
<1>10. CASE Reload
  BY <1>10 DEF Reload, Stage, SettingsInEffect, SettingUp, Carried
<1>11. CASE Closed
  BY <1>11 DEF Closed, Stage, SettingsInEffect, SettingUp, Carried
<1>16. CASE UnloadFails
  BY <1>16 DEF UnloadFails, Stage, SettingsInEffect, SettingUp, Carried
<1>12. ASSUME NEW e \in Entity, Come(e) \/ Go(e) \/ Disable(e) \/ Count(e)
       PROVE  Settings'
  BY <1>12, SettingsUntouched DEF Come, Go, Disable, Count, entryVars
<1>13. ASSUME NEW d, NEW c, Command(d, c) PROVE Settings'
  BY <1>13, SettingsUntouched DEF Command
<1>14. CASE UNCHANGED allVars
  BY <1>14, SettingsUntouched DEF allVars
<1>15. QED
  BY <1>1, <1>2, <1>3, <1>4, <1>5, <1>6, <1>7, <1>8, <1>9, <1>10, <1>11, <1>12, <1>13, <1>14, <1>16
     DEF EntryNext, ChooseMode, ChoosePreset, ChooseFan, Switch, Remote

(* A refresh asks for a group exactly while an entity needs it, through     *)
(* reloads, failed set-ups and crashes.                                     *)
THEOREM EntryRequests == EntrySpec => [](TypeOK /\ RequestsFollowEntities)
<1>1. IInv => TypeOK /\ RequestsFollowEntities
  BY DEF IInv
<1>2. QED
  BY <1>1, EntryBegins, EntryGroups, PTL DEF EntrySpec

(* The options in memory and in the store mean what their user chose.       *)
THEOREM EntryMeaning == EntrySpec => []MeaningKept
<1>1. Settings => MeaningKept
  BY DEF Settings, Carried, MeaningKept
<1>2. QED
  BY <1>1, EntryBegins, EntrySettingsStep, PTL DEF EntrySpec

(* A loaded entry runs with the settings its user last chose, unless they   *)
(* changed while it was being set up.                                       *)
THEOREM EntrySettings == EntrySpec => []SettingsInEffect
<1>1. Settings => SettingsInEffect
  BY DEF Settings, Stage
<1>2. QED
  BY <1>1, EntryBegins, EntrySettingsStep, PTL DEF EntrySpec
-----------------------------------------------------------------------------
(* The device the entities see.  Its type comes from the entry's data,      *)
(* which the migration only fills in where it is missing.                   *)
TypeOf(e) == Get(e.data, "device_type", "AC")

LEMMA MigrationKeepsType ==
    ASSUME NEW e, Sound(e)
    PROVE  TypeOf(Migrated(e)) = TypeOf(e)
<1> DEFINE a == To12(e)  b == To13(a)  c == To14(b)
           d == To15(c)  f == To16(d)  n == To17(f)
<1>1. StepFrom(1, e, a)
  BY Step12
<1>2. StepFrom(2, a, b)
  BY <1>1, Step13 DEF StepFrom
<1>3. StepFrom(3, b, c)
  BY <1>2, Step14 DEF StepFrom
<1>4. StepFrom(4, c, d)
  BY <1>3, Step15 DEF StepFrom
<1>5. StepFrom(5, d, f)
  BY <1>4, Step16 DEF StepFrom
<1>6. "data" \in DOMAIN a /\ "data" \in DOMAIN b /\ "data" \in DOMAIN c
      /\ "data" \in DOMAIN d /\ "data" \in DOMAIN f /\ "data" \in DOMAIN e
  BY <1>1, <1>2, <1>3, <1>4, <1>5 DEF StepFrom, Sound
<1>7. \A g, o : "data" \in DOMAIN g => Upgraded(g, o).data = g.data
  BY DEF Upgraded
<1>8. a.data = e.data
  BY <1>6, <1>7 DEF To12
<1>9. b.data = a.data
  <2> HIDE DEF a
  <2>1. QED
    BY <1>6, <1>7 DEF To13
<1>10. c.data = b.data
  <2> HIDE DEF b
  <2>1. QED
    BY <1>6, <1>7 DEF To14
<1>11. TypeOf(d) = TypeOf(c)
  <2> HIDE DEF c
  <2>1. CASE At(c, 4)
    <3> DEFINE g == [device_type |-> "AC"]
               u == Upgraded(c, c.options)
    <3>1. u.data = c.data /\ DOMAIN u = DOMAIN c
      BY <1>6, <1>7 DEF Upgraded
    <3>2. d = [u EXCEPT !.data = With(g, u.data)]
      BY <2>1 DEF To15
    <3>3. DOMAIN g = {"device_type"} /\ g["device_type"] = "AC"
      OBVIOUS
    <3> HIDE DEF g, u, d
    <3>4. d.data = With(g, c.data)
      BY <1>6, <3>1, <3>2
    <3>5. Get(With(g, c.data), "device_type", "AC") = Get(c.data, "device_type", "AC")
      BY <3>3 DEF Get, With
    <3>6. QED
      BY <3>4, <3>5 DEF TypeOf
  <2>2. CASE ~ At(c, 4)
    BY <2>2 DEF To15
  <2>3. QED
    BY <2>1, <2>2
<1>12. f.data = d.data
  <2> HIDE DEF d
  <2>1. QED
    BY <1>6, <1>7 DEF To16
<1>13. n.data = f.data
  <2> HIDE DEF f
  <2>1. QED
    BY <1>6, <1>7 DEF To17
<1>14. Migrated(e) = n
  BY DEF Migrated
<1> HIDE DEF a, b, c, d, f, n
<1>15. QED
  BY <1>8, <1>9, <1>10, <1>11, <1>12, <1>13, <1>14 DEF TypeOf

(* The flags, and where each is in the order they are read in. *)
LEMMA FlagsAre ==
    /\ DOMAIN Order = 1..6
    /\ Flag = {"eco", "ieco", "boost", "away", "silent", "sleep"}
    /\ \A i, j \in 1..6 : Order[i] = Order[j] => i = j
<1>1. DOMAIN Order = 1..6
  BY DEF Order
<1>2. /\ Order[1] = "eco" /\ Order[2] = "ieco" /\ Order[3] = "boost"
      /\ Order[4] = "away" /\ Order[5] = "silent" /\ Order[6] = "sleep"
  BY DEF Order
<1> HIDE DEF Order
<1>3. \A i \in 1..6 : i = 1 \/ i = 2 \/ i = 3 \/ i = 4 \/ i = 5 \/ i = 6
  OBVIOUS
<1>4. Flag = {"eco", "ieco", "boost", "away", "silent", "sleep"}
  BY <1>1, <1>2, <1>3 DEF Flag
<1>5. \A i, j \in 1..6 : Order[i] = Order[j] => i = j
  BY <1>2, <1>3
<1>6. QED
  BY <1>1, <1>4, <1>5

(* A command leaves the device in a state it can be in. *)
LEMMA CommandsStage ==
    ASSUME NEW d \in DeviceState, NEW kind, NEW caps
    PROVE  /\ \A m \in HvacModes(caps \cap ModeCaps) : SetHvacMode(kind, caps, d, m) \in DeviceState
           /\ \A p : SetPreset(kind, caps, d, p) \in DeviceState
           /\ \A f \in NamedSpeed \cup {"custom"} : SetFanMode(d, f) \in DeviceState
           /\ TurnOn(d) \in DeviceState /\ TurnOff(d) \in DeviceState
<1>1. \A m \in HvacModes(caps \cap ModeCaps) : SetHvacMode(kind, caps, d, m) \in DeviceState
  BY DEF HvacModes, SetHvacMode, Smart, DeviceState, ModeCaps
<1>2. ASSUME NEW p PROVE SetPreset(kind, caps, d, p) \in DeviceState
  <2> DEFINE left == IF kind = "AC" THEN {"ieco"} \ caps ELSE {"ieco", "boost", "away"}
             new == (d.active \cap left) \cup ({p} \cap (Known(kind) \ left))
  <2>1. Known(kind) \subseteq Flag
    BY FlagsAre DEF Known
  <2>2. new \subseteq Flag
    BY <2>1 DEF DeviceState
  <2>3. SetPreset(kind, caps, d, p) = [d EXCEPT !.active = new]
    BY DEF SetPreset, DeviceState
  <2> HIDE DEF new
  <2>4. QED
    BY <2>2, <2>3 DEF DeviceState
<1>3. \A f \in NamedSpeed \cup {"custom"} : SetFanMode(d, f) \in DeviceState
  BY DEF SetFanMode, DeviceState
<1>4. TurnOn(d) \in DeviceState /\ TurnOff(d) \in DeviceState
  BY DEF TurnOn, TurnOff, DeviceState
<1>5. QED
  BY <1>1, <1>2, <1>3, <1>4

(* Beside the settings, what the types need.                                *)
Typed ==
    /\ life \in Life
    /\ reload \in BOOLEAN /\ missed \in BOOLEAN
    /\ TypeOf(entry) \in Kinds /\ TypeOf(disk) \in Kinds
    /\ ac \in DeviceState
    /\ asked.of \in {"nothing", "mode", "preset", "fan"}

LEMMA EntryTyped == EntryInit => Typed
<1> SUFFICES ASSUME EntryInit PROVE Typed
  OBVIOUS
<1>1. PICK s \in Stored : disk = With(s, [wish |-> Meaning(s)])
  BY DEF EntryInit
<1>2. disk.data = s.data
  <2> DEFINE g == [wish |-> Meaning(s)]
  <2>1. Sound(s)
    BY StoredAssumption
  <2>2. DOMAIN g = {"wish"}
    OBVIOUS
  <2> HIDE DEF g
  <2>3. disk = With(s, g)
    BY <1>1 DEF g
  <2>4. QED
    BY <2>1, <2>2, <2>3 DEF With, Sound
<1>3. TypeOf(disk) \in Kinds /\ TypeOf(entry) \in Kinds
  BY <1>2, StoredAssumption DEF TypeOf, EntryInit
<1>4. Off \in DeviceState
  BY DEF Off, DeviceState, ModeCaps, NamedSpeed
<1>5. QED
  BY <1>3, <1>4 DEF EntryInit, Typed, Life, NoCommand

LEMMA EntryTypedStep == Typed /\ Settings /\ [EntryNext]_allVars => Typed'
<1> SUFFICES ASSUME Typed, Settings, [EntryNext]_allVars PROVE Typed'
  OBVIOUS
<1> USE DEF Typed, Life, NoCommand
<1>1. Off \in DeviceState
  BY DEF Off, DeviceState, ModeCaps, NamedSpeed
<1>2. CASE Start
  BY <1>2 DEF Start, TypeOf
<1>3. CASE Crash
  BY <1>1, <1>3 DEF Crash, TypeOf
<1>4. CASE Save
  BY <1>4 DEF Save, TypeOf
<1>5. CASE Open
  <2>1. Sound(entry)
    BY DEF Settings, Carried
  <2>2. TypeOf(Migrated(entry)) \in Kinds
    BY <2>1, MigrationKeepsType
  <2>3. entry' \in {entry, Migrated(entry)} /\ TypeOf(entry)' = TypeOf(entry')
    BY <1>5 DEF Open, TypeOf
  <2>4. TypeOf(entry') \in Kinds
    BY <2>2, <2>3
  <2>5. TypeOf(disk)' = TypeOf(disk)
    BY <1>5 DEF Open, TypeOf
  <2>6. QED
    BY <1>5, <2>3, <2>4, <2>5 DEF Open
<1>6. CASE Fail
  BY <1>6 DEF Fail, TypeOf
<1>7. CASE Prepare
  BY <1>7 DEF Prepare, TypeOf
<1>8. CASE Forward
  <2>1. Kind \in Kinds
    BY DEF Kind, TypeOf
  <2>2. ac' \in DeviceState
    BY <1>8, <2>1, DevicesAssumption DEF Forward
  <2>3. QED
    BY <1>8, <2>2 DEF Forward, TypeOf
<1>9. CASE Finish
  BY <1>9 DEF Finish, TypeOf
<1>10. CASE Configure
  <2>1. PICK options \in Choices[Kind] :
           /\ entry' = [entry EXCEPT !.options = options,
                                     !.wish = Meaning([entry EXCEPT !.options = options])]
           /\ reload' = (reload \/ life \in {"ready", "closing"})
           /\ missed' = (missed \/ life \in SettingUp)
           /\ UNCHANGED <<vars, disk, life, running, ac, asked>>
    BY <1>10 DEF Configure
  <2>2. entry'.data = entry.data
    BY <2>1 DEF Settings, Carried, Sound
  <2>3. QED
    BY <2>1, <2>2 DEF TypeOf
<1>11. CASE Reload
  BY <1>11 DEF Reload, TypeOf
<1>12. CASE Closed
  BY <1>1, <1>12 DEF Closed, TypeOf
<1>22. CASE UnloadFails
  BY <1>22 DEF UnloadFails, TypeOf
<1>13. ASSUME NEW e \in Entity, Come(e) \/ Go(e) \/ Disable(e) \/ Count(e)
       PROVE  Typed'
  BY <1>13 DEF Come, Go, Disable, Count, entryVars, TypeOf
<1>14. ASSUME NEW d \in DeviceState, NEW c, Command(d, c),
              c.of \in {"nothing", "mode", "preset", "fan"}
       PROVE  Typed'
  BY <1>14 DEF Command, TypeOf
<1>15. ASSUME NEW m \in Mode, ChooseMode(m) PROVE Typed'
  BY <1>14, <1>15, CommandsStage DEF ChooseMode
<1>16. ASSUME NEW p \in Preset, ChoosePreset(p) PROVE Typed'
  BY <1>14, <1>16, CommandsStage DEF ChoosePreset
<1>17. ASSUME NEW f \in Fan, ChooseFan(f) PROVE Typed'
  BY <1>14, <1>17, CommandsStage DEF ChooseFan, Fan
<1>18. CASE Switch
  BY <1>14, <1>18, CommandsStage DEF Switch
<1>19. CASE Remote
  <2>1. Kind \in Kinds
    BY DEF Kind, TypeOf
  <2>2. PICK d \in Devices[Kind] : Command(d, NoCommand)
    BY <1>19 DEF Remote
  <2>3. d \in DeviceState
    BY <2>1, DevicesAssumption
  <2>4. QED
    BY <1>14, <2>2, <2>3
<1>20. CASE UNCHANGED allVars
  BY <1>20 DEF allVars, TypeOf
<1>21. QED
  BY <1>2, <1>3, <1>4, <1>5, <1>6, <1>7, <1>8, <1>9, <1>10, <1>11, <1>12, <1>13,
     <1>15, <1>16, <1>17, <1>18, <1>19, <1>20, <1>22 DEF EntryNext

(* Every variable keeps its type, whatever the device reports. *)
THEOREM EntryTypes == EntrySpec => []EntryTypeOK
<1>1. IInv /\ Settings /\ Typed => EntryTypeOK
  BY DEF IInv, Settings, Carried, Sound, Typed, EntryTypeOK
<1>2. QED
  BY <1>1, EntryBegins, EntryGroups, EntrySettingsStep, EntryTyped, EntryTypedStep, PTL
     DEF EntrySpec

(* What is chosen of what the climate entity offers is what it then shows,  *)
(* for any capabilities and any flags set before.                           *)
LEMMA PresetShows ==
    ASSUME NEW d \in DeviceState, NEW kind, NEW caps,
           NEW p \in PresetModes(kind, caps, d)
    PROVE  PresetMode(kind, caps, SetPreset(kind, caps, d, p)) = p
<1> DEFINE left == IF kind = "AC" THEN {"ieco"} \ caps ELSE {"ieco", "boost", "away"}
           new == (d.active \cap left) \cup ({p} \cap (Known(kind) \ left))
           n == SetPreset(kind, caps, d, p)
           shown == {i \in DOMAIN Order : Order[i] \in n.active \cap Backed(kind, caps)}
<1> SUFFICES PresetMode(kind, caps, n) = p
  OBVIOUS
<1>1. n.active = new
  BY DEF SetPreset, DeviceState
<1>2. Backed(kind, caps) \cap left = {} /\ Backed(kind, caps) \subseteq Known(kind)
  BY DEF Backed, Known
<1>3. "none" \notin Known(kind) /\ Known(kind) \subseteq Flag
  BY FlagsAre DEF Known
<1>4. p = "none" \/ p \in Backed(kind, caps)
  BY DEF PresetModes
<1>5. PresetMode(kind, caps, n)
        = IF shown = {} THEN "none" ELSE Order[CHOOSE i \in shown : \A j \in shown : i <= j]
  BY DEF PresetMode
<1> HIDE DEF n
<1>6. \A i : i \in shown <=> i \in 1..6 /\ Order[i] \in n.active \cap Backed(kind, caps)
  BY FlagsAre
<1> HIDE DEF shown
<1>7. CASE p = "none"
  <2>1. n.active \cap Backed(kind, caps) = {}
    BY <1>1, <1>2, <1>3, <1>7
  <2>2. shown = {}
    BY <1>6, <2>1
  <2>3. QED
    BY <1>5, <1>7, <2>2
<1>8. CASE p \in Backed(kind, caps)
  <2>1. n.active \cap Backed(kind, caps) = {p}
    BY <1>1, <1>2, <1>8
  <2>2. PICK i \in 1..6 : Order[i] = p
    BY <1>2, <1>3, <1>8, FlagsAre DEF Flag
  <2>3. shown = {i}
    BY <1>6, <2>1, <2>2, FlagsAre
  <2>4. i <= i
    OBVIOUS
  <2>5. (CHOOSE k \in shown : \A j \in shown : k <= j) = i
    BY <2>3, <2>4
  <2>6. QED
    BY <1>5, <2>2, <2>3, <2>5
<1>9. QED
  BY <1>4, <1>7, <1>8

LEMMA ModeShows ==
    ASSUME NEW d \in DeviceState, NEW kind, NEW caps,
           NEW m \in HvacModes(caps \cap ModeCaps)
    PROVE  HvacMode(kind, SetHvacMode(kind, caps, d, m)) = m
BY DEF HvacModes, HvacMode, SetHvacMode, Smart, DeviceState, ModeCaps

LEMMA FanShows ==
    ASSUME NEW d \in DeviceState, NEW kind, NEW caps, NEW f \in FanModes(kind, caps, Speeds, d)
    PROVE  FanMode(SetFanMode(d, f)) = f
BY SpeedsAssumption DEF FanModes, FanMode, SetFanMode, NamedSpeed, DeviceState

(* A command is remembered only while the entities answer, and shows.       *)
Answering ==
    /\ asked # NoCommand => life \in Loaded
    /\ CommandsShow

(* A step that leaves alone what is shown.                                  *)
LEMMA ShownUntouched ==
    ASSUME Answering, UNCHANGED <<entry, running, ac, asked>>, life \in Loaded => life' \in Loaded
    PROVE  Answering'
BY DEF Answering, CommandsShow, Shown, Kind, Loaded

(* After a command it is what was chosen; nothing else but the remote       *)
(* control and an end of the entry changes what is shown, for an entry's    *)
(* type stays and its capabilities change only in a set-up.                 *)
LEMMA EntryShowsStep == Answering /\ Typed /\ Settings /\ [EntryNext]_allVars => Answering'
<1> SUFFICES ASSUME Answering, Typed, Settings, [EntryNext]_allVars PROVE Answering'
  OBVIOUS
<1>1. ASSUME asked' = NoCommand PROVE Answering'
  BY <1>1 DEF Answering, CommandsShow
<1>2. ASSUME UNCHANGED asked, life \notin Loaded PROVE Answering'
  BY <1>1, <1>2 DEF Answering
<1>3. CASE Start
  BY <1>2, <1>3 DEF Start, Loaded
<1>4. CASE Crash
  BY <1>1, <1>4 DEF Crash
<1>5. CASE Save
  BY <1>5, ShownUntouched DEF Save
<1>6. CASE Open \/ Fail \/ Prepare \/ Forward \/ Finish
  BY <1>2, <1>6 DEF Open, Fail, Prepare, Forward, Finish, Loaded
<1>7. CASE Configure
  <2>1. PICK options \in Choices[Kind] :
           /\ entry' = [entry EXCEPT !.options = options,
                                     !.wish = Meaning([entry EXCEPT !.options = options])]
           /\ UNCHANGED <<vars, disk, life, running, ac, asked>>
    BY <1>7 DEF Configure
  <2>2. entry'.data = entry.data
    BY <2>1 DEF Settings, Carried, Sound
  <2>3. Kind' = Kind
    BY <2>2 DEF Kind
  <2>4. QED
    BY <2>1, <2>3 DEF Answering, CommandsShow, Shown
<1>8. CASE Reload
  BY <1>1, <1>8 DEF Reload
<1>9. CASE Closed
  BY <1>1, <1>9 DEF Closed
<1>10. CASE UnloadFails
  BY <1>2, <1>10 DEF UnloadFails, Loaded
<1>11. ASSUME NEW e \in Entity, Come(e) \/ Go(e) \/ Disable(e) \/ Count(e)
       PROVE  Answering'
  BY <1>11, ShownUntouched DEF Come, Go, Disable, Count, entryVars
<1>12. ASSUME NEW d, NEW c, Command(d, c)
       PROVE  /\ life' \in Loaded /\ asked' = c /\ ac' = d
              /\ Kind' = Kind /\ running' = running
  BY <1>12 DEF Command, Kind
<1>13. ac \in DeviceState
  BY DEF Typed
<1>14. ASSUME NEW m \in Mode, ChooseMode(m) PROVE Answering'
  <2>1. HvacMode(Kind, SetHvacMode(Kind, running.caps, ac, m)) = m
    BY <1>13, <1>14, ModeShows DEF ChooseMode
  <2>2. QED
    BY <1>12, <1>14, <2>1 DEF ChooseMode, Answering, CommandsShow, Shown
<1>15. ASSUME NEW p \in Preset, ChoosePreset(p) PROVE Answering'
  <2>1. PresetMode(Kind, running.caps, SetPreset(Kind, running.caps, ac, p)) = p
    BY <1>13, <1>15, PresetShows DEF ChoosePreset
  <2>2. QED
    BY <1>12, <1>15, <2>1 DEF ChoosePreset, Answering, CommandsShow, Shown
<1>16. ASSUME NEW f \in Fan, ChooseFan(f) PROVE Answering'
  <2>1. FanMode(SetFanMode(ac, f)) = f
    BY <1>13, <1>16, FanShows DEF ChooseFan
  <2>2. QED
    BY <1>12, <1>16, <2>1 DEF ChooseFan, Answering, CommandsShow, Shown
<1>17. CASE Switch \/ Remote
  BY <1>1, <1>12, <1>17 DEF Switch, Remote
<1>18. CASE UNCHANGED allVars
  BY <1>18, ShownUntouched DEF allVars
<1>19. QED
  BY <1>3, <1>4, <1>5, <1>6, <1>7, <1>8, <1>9, <1>10, <1>11, <1>14, <1>15, <1>16, <1>17, <1>18
     DEF EntryNext

(* Every mode, preset and fan speed chosen of those offered is shown until  *)
(* something else sets the device, or the entry is reloaded or lost.        *)
THEOREM EntryCommands == EntrySpec => []CommandsShow
<1>1. EntryInit => Answering
  BY DEF EntryInit, Answering, CommandsShow
<1>2. Answering => CommandsShow
  BY DEF Answering
<1>3. QED
  BY <1>1, <1>2, EntryShowsStep, EntryBegins, EntrySettingsStep, EntryTyped, EntryTypedStep, PTL
     DEF EntrySpec
=============================================================================
