------------------------------ MODULE Settings ------------------------------
(***************************************************************************)
(* RuntimeConfig and BanMap: how the settings and the list of bans are     *)
(* read from their files and written back.                                 *)
(*                                                                         *)
(* A configuration has four maps.  A document, the file's contents, has a  *)
(* section for each and the greeting beside them; a section is a map, a    *)
(* null, or something else.  An entry that cannot be read as the           *)
(* section's type is Unreadable.  A map is read in the order of its keys.  *)
(***************************************************************************)
EXTENDS Integers, Sequences, SequencesExt

CONSTANTS Keys,        \* the keys, in the order in which a map is read
          NullSection, \* a section that is null
          NotAMap,     \* a section that is missing or no map
          Absent,      \* no greeting in the document
          Unreadable,  \* a value that is not of its section's type
          Unwritten    \* what save() did not write

ASSUME SettingsAssumption == IsInjective(Keys)

Kinds == {"Strings", "Integers", "Floats", "Booleans"}
NoKeys == <<>>
Blank == [k \in Kinds |-> NoKeys]

Key == {Keys[i] : i \in DOMAIN Keys}
Before(k, l) == \E i, j \in DOMAIN Keys : i < j /\ Keys[i] = k /\ Keys[j] = l

Restricted(f, S) == [k \in DOMAIN f \cap S |-> f[k]]
Joined(f, g) == [k \in DOMAIN f \cup DOMAIN g |-> IF k \in DOMAIN f THEN f[k] ELSE g[k]]

IsMap(section) == section \notin {NullSection, NotAMap}

\* the entries that stop the reading: unreadable, or there already
Stops(have, section) == {k \in DOMAIN section : section[k] = Unreadable \/ k \in DOMAIN have}

Ok(have, section) ==
    section # NotAMap /\ (IsMap(section) => Stops(have, section) = {})

ReadInto(have, section) ==
    IF ~IsMap(section) THEN have
    ELSE Joined(have, Restricted(section, {k \in Key : \A s \in Stops(have, section) : Before(k, s)}))

\* the first section that fails is the last that is read
LoadConfig(doc) ==
    LET greeting == [k \in {"Greeting"} |-> doc.Greeting]
        ints == Ok(greeting, doc.Strings)
        floats == ints /\ Ok(NoKeys, doc.Integers)
        bools == floats /\ Ok(NoKeys, doc.Floats)
    IN  IF doc.Greeting \in {Absent, Unreadable} THEN Blank
        ELSE [Strings  |-> ReadInto(greeting, doc.Strings),
              Integers |-> IF ints THEN ReadInto(NoKeys, doc.Integers) ELSE NoKeys,
              Floats   |-> IF floats THEN ReadInto(NoKeys, doc.Floats) ELSE NoKeys,
              Booleans |-> IF bools THEN ReadInto(NoKeys, doc.Booleans) ELSE NoKeys]

\* mistaken: an empty map is written as a null
SaveEmptyToo(config) ==
    LET Section(f) == IF DOMAIN f = {} THEN NullSection ELSE f
    IN  [Greeting |-> Absent, Strings |-> Section(config["Strings"]),
         Integers |-> Section(config["Integers"]), Floats |-> Section(config["Floats"]),
         Booleans |-> Section(config["Booleans"])]

\* an empty map spoils the emitter, and then nothing is written; the greeting
\* is one of the strings by now
SaveConfig(config) ==
    IF \E k \in Kinds : DOMAIN config[k] = {} THEN Unwritten
    ELSE [Greeting |-> Absent, Strings |-> config["Strings"], Integers |-> config["Integers"],
          Floats |-> config["Floats"], Booleans |-> config["Booleans"]]

Value(config, kind, key, default) ==
    IF key \in DOMAIN config[kind] THEN config[kind][key] ELSE default

-----------------------------------------------------------------------------
(* BanMap.  A document is the map under "BannedIPs". *)

LoadBans(doc) == doc
SaveBans(bans) == IF DOMAIN bans = {} THEN Unwritten ELSE bans

IsBanned(bans, ip) == ip \in DOMAIN bans
Banned(bans, ip, reason) == Joined(bans, [i \in {ip} |-> reason])
Lifted(bans, ip) == Restricted(bans, DOMAIN bans \ {ip})
=============================================================================
