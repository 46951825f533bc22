-------------------------------- MODULE MCRules --------------------------------
(***************************************************************************)
(* The decisions of the workflow that keep no state, each over every input *)
(* of a bounded set: a step picks one input.                               *)
(***************************************************************************)
EXTENDS CsvShape, KeyPaths, StageRecords

VARIABLE input

Init == input = [kind |-> "none"]

-----------------------------------------------------------------------------
Header == <<"h1", "h2">>

Row(width) == [i \in 1 .. width |-> "x"]

(***************************************************************************)
(* Up to three data rows of up to three fields under the right or a wrong  *)
(* header, cut anywhere.                                                   *)
(***************************************************************************)
PickCsv ==
    \E header \in {Header, <<"h2", "h1">>, <<"h1">>, <<>>},
       n \in 0 .. 3, minimum \in {{}, {1}, {2}} :
        \E widths \in [1 .. n -> 0 .. 3], r \in 0 .. n :
            LET rows == <<header>> \o [i \in 1 .. n |-> Row(widths[i])]
            IN  \E k \in 0 .. Len(rows[r + 1]) :
                    input' = [kind |-> "csv",
                              product |-> [kind |-> "file", rows |-> rows],
                              minimum |-> minimum, row |-> r, field |-> k]

Leaves == {Null, Text(TRUE), Text(FALSE), Number, List(<<>>),
           Mapping([k \in {"f"} |-> Text(FALSE)])}

Entries == {Null, Number, Mapping(<<>>)}
           \cup {Mapping([k \in {"f"} |-> leaf]) : leaf \in Leaves}

Lists == {List(<<>>)} \cup {List(<<a>>) : a \in Entries}
         \cup {List(<<a, b>>) : a \in Entries, b \in Entries}

Part(key, each) == [key |-> key, each |-> each]

Paths ==
    {<<Part("s", FALSE)>>,
     <<Part("s", FALSE), Part("f", FALSE)>>,
     <<Part("s", TRUE), Part("f", FALSE)>>,
     <<Part("t", FALSE), Part("s", TRUE), Part("f", FALSE)>>,
     <<Part("s", TRUE), Part("f", FALSE), Part("f", FALSE)>>}

PickKeys ==
    \E s \in Lists \cup Entries, path \in Paths, nested \in BOOLEAN :
        LET section == Mapping([k \in {"s"} |-> s])
        IN  input' = [kind |-> "keys", path |-> path,
                      manifest |-> IF nested
                                   THEN Mapping([k \in {"t"} |-> section])
                                   ELSE section]

-----------------------------------------------------------------------------
Configured == <<"c", "a", "p", "b">>

(***************************************************************************)
(* Four stages with any display orders, p the payload, and evidence of any *)
(* of them and of z, which is not configured.  The names stand for any     *)
(* names, so that any order of their evidence files may be alphabetical.   *)
(***************************************************************************)
Evidence(n) ==
    {names \in [1 .. n -> {"a", "b", "c", "p", "z"}] :
        \A i, j \in 1 .. n : names[i] = names[j] => i = j}

PickOrder ==
    \E n \in 0 .. 5 :
        \E names \in Evidence(n), orders \in [1 .. 4 -> 1 .. 4] :
            input' = [kind |-> "order",
                      stages |-> [i \in 1 .. 4 |->
                          [name |-> Configured[i], order |-> orders[i]]],
                      records |-> [i \in 1 .. n |-> [name |-> names[i]]]]

Stamps == {{}} \cup {{m} : m \in 0 .. 5}

PickTimes ==
    \E n \in 0 .. 2 :
        \E starts, finishes \in [1 .. n -> Stamps] :
            input' = [kind |-> "times",
                      listed |-> [i \in 1 .. n |->
                          [started |-> starts[i], finished |-> finishes[i]]]]

Next ==
    /\ input.kind = "none"
    /\ PickCsv \/ PickKeys \/ PickOrder \/ PickTimes

Spec == Init /\ [][Next]_input

-----------------------------------------------------------------------------
(***************************************************************************)
(* CutIsNoticed, for the expectation that validate-required configures: a  *)
(* header, as many columns as it has, and a minimum of data rows.          *)
(***************************************************************************)
TornProductIsNoticed ==
    input.kind = "csv" =>
        CutIsNoticed(input.product,
                     [rows |-> {}, minimum |-> input.minimum,
                      columns |-> {Len(Header)}, header |-> {Header}],
                     input.row, input.field)

(***************************************************************************)
(* NothingIsMissed: the smoke check finds an empty value in any item.      *)
(***************************************************************************)
SmokeMissesNothing ==
    input.kind = "keys" => NothingIsMissed(input.manifest, input.path)

(***************************************************************************)
(* ManifestFollowsPlaybook, with a payload stage and unknown evidence.     *)
(***************************************************************************)
OneStageOrder ==
    input.kind = "order" =>
        ManifestFollowsPlaybook(input.records, input.stages, "p")

(***************************************************************************)
(* RangeCoversStages, over two seconds.                                    *)
(***************************************************************************)
RunCoversStages == input.kind = "times" => RangeCoversStages(input.listed)

=============================================================================
