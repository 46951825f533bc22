----------------------------- MODULE StageRecords -----------------------------
(***************************************************************************)
(* The order of stages and the time range of a run.  The playbook's order  *)
(* comes from the configuration; the manifest sorts the stage evidence it  *)
(* finds by the same display_order, and its time range is the minimum and  *)
(* maximum of the stages' time stamps, compared as text.                   *)
(***************************************************************************)
EXTENDS Naturals, Sequences, FiniteSets, FiniteSetsExt

(***************************************************************************)
(* Python's sorted is stable: items of one key keep their order.  The key  *)
(* of the i-th item is key[i].  As many items as are sorted before an item *)
(* have places before its place.                                           *)
(***************************************************************************)
SortedBefore(items, key, i) ==
    {j \in DOMAIN items : key[j] < key[i] \/ (key[j] = key[i] /\ j < i)}

SortedBy(items, key) ==
    LET Item(n) == CHOOSE i \in DOMAIN items :
                       Cardinality(SortedBefore(items, key, i)) = n - 1
    IN  [n \in DOMAIN items |-> items[Item(n)]]

-----------------------------------------------------------------------------
(***************************************************************************)
(* A configuration is a sequence of stages with name and display_order.    *)
(* The targets of the playbook are those of the sorted stages, without the *)
(* payload.                                                                *)
(***************************************************************************)
OrderedStages(stages) ==
    SortedBy(stages, [i \in DOMAIN stages |-> stages[i].order])

HarnessTargets(stages, payload) ==
    LET ordered == OrderedStages(stages)
        targets[n \in 0 .. Len(stages)] ==
            IF n = 0 THEN <<>>
            ELSE IF ordered[n].name = payload THEN targets[n - 1]
            ELSE Append(targets[n - 1], ordered[n].name)
    IN  targets[Len(stages)]

(***************************************************************************)
(* Seeded fault: a stage that is not configured goes by the place of its   *)
(* evidence file, and so do all.                                           *)
(***************************************************************************)
UnsortedRecords(records, stages) == records

(***************************************************************************)
(* The records come in the order of their file names.  One of a stage that *)
(* is not configured gets the number of records as its key.                *)
(***************************************************************************)
OrderedRecords(records, stages) ==
    LET Places(name) == {p \in DOMAIN stages : stages[p].name = name}
        Rank(name) ==
            IF Places(name) = {} THEN Len(records)
            ELSE stages[Max(Places(name))].order
    IN  SortedBy(records, [i \in DOMAIN records |-> Rank(records[i].name)])

(***************************************************************************)
(* The manifest lists the evidence of the playbook's targets in the order  *)
(* in which the playbook takes them, whatever else there is evidence of,   *)
(* as long as no two stages have one display_order.                        *)
(***************************************************************************)
ManifestFollowsPlaybook(records, stages, payload) ==
    Cardinality({stages[i].order : i \in DOMAIN stages}) = Len(stages) =>
        LET targets == HarnessTargets(stages, payload)
            listed == OrderedRecords(records, stages)
            Place(name) == {i \in DOMAIN targets : targets[i] = name}
        IN  \A i, j \in DOMAIN listed :
                \A p \in Place(listed[i].name), q \in Place(listed[j].name) :
                    i < j => p < q

-----------------------------------------------------------------------------
(***************************************************************************)
(* A moment is a number of ticks, Second of them to a second.  isoformat   *)
(* writes no fraction when there is none, and "Z" sorts behind ".": as     *)
(* text a whole second comes after the fractions of the same second.       *)
(***************************************************************************)
Second == 3

TextRank(moment) ==
    IF moment % Second = 0 THEN moment + Second - 1 ELSE moment - 1

FirstAsText(moments) ==
    CHOOSE m \in moments : \A other \in moments : TextRank(m) <= TextRank(other)

LastAsText(moments) ==
    CHOOSE m \in moments : \A other \in moments : TextRank(m) >= TextRank(other)

(***************************************************************************)
(* Seeded fault: the range is that of the first and last record listed.    *)
(***************************************************************************)
ListedTimeRange(listed) ==
    [from |-> UNION {listed[i].started : i \in DOMAIN listed \cap {1}},
     to |-> UNION {listed[i].finished : i \in DOMAIN listed \cap {Len(listed)}}]

(***************************************************************************)
(* A stamp is a set of at most one moment: a record may do without.        *)
(***************************************************************************)
RunTimeRange(listed) ==
    LET starts == UNION {listed[i].started : i \in DOMAIN listed}
        finishes == UNION {listed[i].finished : i \in DOMAIN listed}
    IN  [from |-> IF starts = {} THEN {} ELSE {FirstAsText(starts)},
         to |-> IF finishes = {} THEN {} ELSE {LastAsText(finishes)}]

(***************************************************************************)
(* The time range of the manifest covers every stage: exactly if no stamp  *)
(* falls on a whole second, and short of less than a second otherwise.     *)
(***************************************************************************)
RangeCoversStages(listed) ==
    LET range == RunTimeRange(listed)
        stamps == UNION {listed[i].started \cup listed[i].finished :
                            i \in DOMAIN listed}
        slack == IF \A m \in stamps : m % Second # 0 THEN 0 ELSE Second - 1
    IN  \A i \in DOMAIN listed :
            /\ \A m \in listed[i].started :
                 \E from \in range.from : from <= m + slack
            /\ \A m \in listed[i].finished :
                 \E to \in range.to : m <= to + slack

=============================================================================
