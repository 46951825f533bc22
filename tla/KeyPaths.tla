------------------------------- MODULE KeyPaths -------------------------------
(***************************************************************************)
(* missing_required_key_values: walks a manifest along a required key path *)
(* level by level and reports the first item that is absent or empty.  A   *)
(* part of a path is a key, and may ask for each item of a list.           *)
(***************************************************************************)
EXTENDS Naturals, Sequences, SequencesExt

Null == [type |-> "null"]
Text(blank) == [type |-> "text", blank |-> blank]
Number == [type |-> "number"]
List(items) == [type |-> "list", items |-> items]
Mapping(items) == [type |-> "mapping", items |-> items]

HasNonEmptyValue(v) ==
    /\ v.type # "null"
    /\ v.type = "text" => ~v.blank
    /\ v.type \in {"list", "mapping"} => DOMAIN v.items # {}

Lookup(v, key) == IF key \in DOMAIN v.items THEN v.items[key] ELSE Null

Provides(v, part) ==
    /\ v.type = "mapping"
    /\ HasNonEmptyValue(Lookup(v, part.key))
    /\ part.each => Lookup(v, part.key).type = "list"

Lacking(level, part) == {i \in DOMAIN level : ~Provides(level[i].value, part)}

(***************************************************************************)
(* Seeded fault: of a list only the first item is followed.                *)
(***************************************************************************)
FirstBelow(entry, part) ==
    LET value == Lookup(entry.value, part.key)
    IN  <<[value |-> IF part.each THEN value.items[1] ELSE value,
           display |-> Append(entry.display, part.key)]>>

Below(entry, part) ==
    LET value == Lookup(entry.value, part.key)
    IN  IF part.each
        THEN [i \in DOMAIN value.items |->
                 [value |-> value.items[i],
                  display |-> entry.display \o <<part.key, i>>]]
        ELSE <<[value |-> value, display |-> Append(entry.display, part.key)]>>

Descend(walk, part) ==
    LET lacking == Lacking(walk.level, part)
    IN  IF walk.missing # {} THEN walk
        ELSE IF lacking = {}
        THEN [walk EXCEPT !.level =
                 FlattenSeq([i \in DOMAIN @ |-> Below(@[i], part)])]
        ELSE LET first == walk.level[Min(lacking)]
             IN  [walk EXCEPT !.missing =
                     {IF first.value.type = "mapping"
                      THEN Append(first.display, part.key)
                      ELSE <<"path">>}]

Start(manifest) ==
    [level |-> <<[value |-> manifest, display |-> <<>>]>>, missing |-> {}]

(***************************************************************************)
(* The walk after each part of the path.                                   *)
(***************************************************************************)
Walk(manifest, path) ==
    LET walk[n \in 0 .. Len(path)] ==
            IF n = 0 THEN Start(manifest) ELSE Descend(walk[n - 1], path[n])
    IN  walk

(***************************************************************************)
(* At most one display path; <<"path">> stands for the key path as it is   *)
(* required.                                                               *)
(***************************************************************************)
MissingForKeyPath(manifest, path) == Walk(manifest, path)[Len(path)].missing

-----------------------------------------------------------------------------
(***************************************************************************)
(* What a required key path asks for, level by level: of the items that    *)
(* the parts before it lead to, each provides the next part.               *)
(***************************************************************************)
Items(v, part) ==
    LET value == Lookup(v, part.key)
    IN  IF part.each THEN Range(value.items) ELSE {value}

Providing(level, part) == {v \in level : Provides(v, part)}

Reached(manifest, path) ==
    LET reached[n \in 0 .. Len(path)] ==
            IF n = 0 THEN {manifest}
            ELSE UNION {Items(v, path[n]) :
                            v \in Providing(reached[n - 1], path[n])}
    IN  reached

Present(manifest, path) ==
    \A n \in 1 .. Len(path) :
        \A v \in Reached(manifest, path)[n - 1] : Provides(v, path[n])

(***************************************************************************)
(* The walk reports something exactly when the path is not fulfilled at    *)
(* every item, however deep in which list the empty value sits.            *)
(***************************************************************************)
NothingIsMissed(manifest, path) ==
    MissingForKeyPath(manifest, path) = {} <=> Present(manifest, path)

=============================================================================
