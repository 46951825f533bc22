---------------------------- MODULE KeyPathProofs ----------------------------
(***************************************************************************)
(* The walk along a required key path, for manifests and paths of any      *)
(* depth: it finds an empty value wherever there is one.                   *)
(***************************************************************************)
EXTENDS RuleProofs

(***************************************************************************)
(* A recursive function satisfies its equation: there is a function for    *)
(* each depth, because there is one for the depth before.                  *)
(***************************************************************************)
WalkStep(manifest, path, walk, n) ==
    IF n = 0 THEN Start(manifest) ELSE Descend(walk[n - 1], path[n])

LEMMA WalkEquation ==
    ASSUME NEW manifest, NEW path, Len(path) \in Nat
    PROVE  \A n \in 0 .. Len(path) :
             Walk(manifest, path)[n] =
               WalkStep(manifest, path, Walk(manifest, path), n)
<1> DEFINE N == Len(path)
           Fits(f, n) ==
               f = [m \in 0 .. n |-> WalkStep(manifest, path, f, m)]
           Depths == {n \in 0 .. N : \E f : Fits(f, n)}
<1>1. 0 \in Depths
  <2>1. Fits([m \in 0 .. 0 |-> Start(manifest)], 0)
    BY DEF WalkStep
  <2> QED
    BY <2>1
<1>2. ASSUME NEW n \in 1 .. N, n - 1 \in Depths PROVE n \in Depths
  <2>1. PICK f : Fits(f, n - 1)
    BY <1>2
  <2> DEFINE g == [m \in 0 .. n |->
                      IF m = n THEN Descend(f[n - 1], path[n]) ELSE f[m]]
  <2>2. \A m \in 0 .. n - 1 : f[m] = WalkStep(manifest, path, f, m)
    BY <2>1
  <2>3. \A m \in 0 .. n : g[m] = WalkStep(manifest, path, g, m)
    <3> TAKE m \in 0 .. n
    <3>1. CASE m = n
      BY <3>1 DEF WalkStep
    <3>2. CASE m # n
      <4>1. m \in 0 .. n - 1 /\ (m # 0 => m - 1 \in 0 .. n - 1)
        BY <3>2
      <4>2. g[m] = f[m] /\ (m # 0 => g[m - 1] = f[m - 1])
        BY <3>2, <4>1
      <4> QED
        BY <2>2, <4>1, <4>2 DEF WalkStep
    <3> QED
      BY <3>1, <3>2
  <2>4. Fits(g, n)
    <3>1. g = [m \in 0 .. n |-> g[m]]
      OBVIOUS
    <3> HIDE DEF g
    <3> QED
      BY <2>3, <3>1
  <2> HIDE DEF Fits, g
  <2> QED
    BY <2>4
<1>3. N \in Depths
  <2>1. N \in Nat /\ N \in 0 .. N
    OBVIOUS
  <2> HIDE DEF Depths, N
  <2>2. \A n \in 0 .. N : n \in Depths
    BY <1>1, <1>2, <2>1, UpTo
  <2> QED
    BY <2>1, <2>2
<1>4. PICK f : Fits(f, N)
  BY <1>3
<1>5. Walk(manifest, path) = CHOOSE walk : Fits(walk, N)
  BY DEF Walk, WalkStep
<1>6. Fits(Walk(manifest, path), N)
  BY <1>4, <1>5
<1> QED
  BY <1>6

(***************************************************************************)
(* What the items of a level that provide a part lead to.                  *)
(***************************************************************************)
Following(level, part) == UNION {Items(v, part) : v \in Providing(level, part)}

ReachedStep(manifest, path, reached, n) ==
    IF n = 0 THEN {manifest} ELSE Following(reached[n - 1], path[n])

LEMMA ReachedEquation ==
    ASSUME NEW manifest, NEW path, Len(path) \in Nat
    PROVE  \A n \in 0 .. Len(path) :
             Reached(manifest, path)[n] =
               ReachedStep(manifest, path, Reached(manifest, path), n)
<1> DEFINE N == Len(path)
           Fits(f, n) ==
               f = [m \in 0 .. n |-> ReachedStep(manifest, path, f, m)]
           Depths == {n \in 0 .. N : \E f : Fits(f, n)}
<1>1. 0 \in Depths
  <2>1. Fits([m \in 0 .. 0 |-> {manifest}], 0)
    BY DEF ReachedStep, Following
  <2> QED
    BY <2>1
<1>2. ASSUME NEW n \in 1 .. N, n - 1 \in Depths PROVE n \in Depths
  <2>1. PICK f : Fits(f, n - 1)
    BY <1>2
  <2> DEFINE g == [m \in 0 .. n |->
                      IF m = n THEN Following(f[n - 1], path[n]) ELSE f[m]]
  <2>2. \A m \in 0 .. n - 1 : f[m] = ReachedStep(manifest, path, f, m)
    BY <2>1
  <2>3. \A m \in 0 .. n : g[m] = ReachedStep(manifest, path, g, m)
    <3> TAKE m \in 0 .. n
    <3>1. CASE m = n
      BY <3>1 DEF ReachedStep
    <3>2. CASE m # n
      <4>1. m \in 0 .. n - 1 /\ (m # 0 => m - 1 \in 0 .. n - 1)
        BY <3>2
      <4>2. g[m] = f[m] /\ (m # 0 => g[m - 1] = f[m - 1])
        BY <3>2, <4>1
      <4> QED
        BY <2>2, <4>1, <4>2 DEF ReachedStep, Following
    <3> QED
      BY <3>1, <3>2
  <2>4. Fits(g, n)
    <3>1. g = [m \in 0 .. n |-> g[m]]
      OBVIOUS
    <3> HIDE DEF g
    <3> QED
      BY <2>3, <3>1
  <2> HIDE DEF Fits, g
  <2> QED
    BY <2>4
<1>3. N \in Depths
  <2>1. N \in Nat /\ N \in 0 .. N
    OBVIOUS
  <2> HIDE DEF Depths, N
  <2>2. \A n \in 0 .. N : n \in Depths
    BY <1>1, <1>2, <2>1, UpTo
  <2> QED
    BY <2>1, <2>2
<1>4. PICK f : Fits(f, N)
  BY <1>3
<1>5. Reached(manifest, path) = CHOOSE reached : Fits(reached, N)
  BY DEF Reached, ReachedStep, Following
<1>6. Fits(Reached(manifest, path), N)
  BY <1>4, <1>5
<1> QED
  BY <1>6

-----------------------------------------------------------------------------
(***************************************************************************)
(* FlattenSeq is defined by a recursive function too.                      *)
(***************************************************************************)
Flattened(seqs, flat, i) ==
    IF i = 1 THEN seqs[i] ELSE flat[i - 1] \o seqs[i]

LEMMA FlattenEquation ==
    ASSUME NEW seqs, Len(seqs) \in Nat \ {0}
    PROVE  \E flat :
             /\ flat = [i \in 1 .. Len(seqs) |-> Flattened(seqs, flat, i)]
             /\ FlattenSeq(seqs) = flat[Len(seqs)]
<1> DEFINE N == Len(seqs)
           Fits(f, n) == f = [m \in 1 .. n |-> Flattened(seqs, f, m)]
           Depths == {n \in 0 .. N : \E f : Fits(f, n)}
<1>1. 0 \in Depths
  <2>1. Fits([m \in 1 .. 0 |-> seqs], 0)
    OBVIOUS
  <2> HIDE DEF Fits
  <2>2. \E f : Fits(f, 0)
    BY <2>1
  <2> QED
    BY <2>2
<1>2. ASSUME NEW n \in 1 .. N, n - 1 \in Depths PROVE n \in Depths
  <2>1. PICK f : Fits(f, n - 1)
    BY <1>2
  <2> DEFINE g == [m \in 1 .. n |->
                      IF m = n THEN Flattened(seqs, f, m) ELSE f[m]]
  <2>2. \A m \in 1 .. n - 1 : f[m] = Flattened(seqs, f, m)
    BY <2>1
  <2>3. \A m \in 1 .. n : g[m] = Flattened(seqs, g, m)
    <3> TAKE m \in 1 .. n
    <3>1. g[m] = Flattened(seqs, f, m)
      BY <2>2
    <3>2. m # 1 => g[m - 1] = f[m - 1]
      OBVIOUS
    <3> HIDE DEF g
    <3> QED
      BY <3>1, <3>2 DEF Flattened
  <2>4. Fits(g, n)
    <3>1. g = [m \in 1 .. n |-> g[m]]
      OBVIOUS
    <3> HIDE DEF g
    <3> QED
      BY <2>3, <3>1
  <2> HIDE DEF Fits, g
  <2> QED
    BY <2>4
<1>3. N \in Depths
  <2>1. N \in Nat /\ N \in 0 .. N
    OBVIOUS
  <2> HIDE DEF Depths, N
  <2>2. \A n \in 0 .. N : n \in Depths
    BY <1>1, <1>2, <2>1, UpTo
  <2> QED
    BY <2>1, <2>2
<1>4. PICK f : Fits(f, N)
  BY <1>3
<1> DEFINE flat == CHOOSE flatten : Fits(flatten, N)
<1>5. FlattenSeq(seqs) = flat[N]
  BY DEF FlattenSeq, Flattened
<1>6. Fits(flat, N)
  BY <1>4
<1> HIDE DEF flat
<1> QED
  BY <1>5, <1>6

(***************************************************************************)
(* The elements of two sequences joined.                                   *)
(***************************************************************************)
LEMMA JoinedRange ==
    ASSUME NEW S, NEW s \in Seq(S), NEW t \in Seq(S)
    PROVE  Range(s \o t) = Range(s) \cup Range(t)
<1>1. \A i \in 1 .. Len(s) : (s \o t)[i] = s[i]
  OBVIOUS
<1>2. \A i \in 1 .. Len(t) :
        Len(s) + i \in 1 .. Len(s \o t) /\ (s \o t)[Len(s) + i] = t[i]
  OBVIOUS
<1>3. ASSUME NEW i \in 1 .. Len(s \o t)
      PROVE  \/ i \in 1 .. Len(s) /\ (s \o t)[i] = s[i]
             \/ i - Len(s) \in 1 .. Len(t) /\ (s \o t)[i] = t[i - Len(s)]
  OBVIOUS
<1>4. /\ DOMAIN s = 1 .. Len(s) /\ DOMAIN t = 1 .. Len(t)
      /\ DOMAIN (s \o t) = 1 .. Len(s \o t)
      /\ 1 .. Len(s) \subseteq 1 .. Len(s \o t)
  OBVIOUS
<1> DEFINE u == s \o t
<1>5. Range(u) \subseteq Range(s) \cup Range(t)
  <2> HIDE DEF u
  <2> QED
    BY <1>3, <1>4 DEF Range, u
<1>6. Range(s) \subseteq Range(u)
  BY <1>1, <1>4 DEF Range
<1>7. Range(t) \subseteq Range(u)
  BY <1>2, <1>4 DEF Range
<1> QED
  BY <1>5, <1>6, <1>7

(***************************************************************************)
(* A flattened sequence has the elements of its parts and no others.       *)
(***************************************************************************)
LEMMA FlattenHolds ==
    ASSUME NEW S, NEW seqs \in Seq(Seq(S))
    PROVE  /\ FlattenSeq(seqs) \in Seq(S)
           /\ Range(FlattenSeq(seqs)) =
                UNION {Range(seqs[i]) : i \in 1 .. Len(seqs)}
<1>1. CASE Len(seqs) = 0
  <2>1. FlattenSeq(seqs) = seqs /\ seqs = << >>
    BY <1>1 DEF FlattenSeq
  <2> QED
    BY <2>1 DEF Range
<1>2. CASE Len(seqs) # 0
  <2> DEFINE N == Len(seqs)
  <2>1. N \in Nat \ {0} /\ \A i \in 1 .. N : seqs[i] \in Seq(S)
    BY <1>2
  <2>2. PICK flat : /\ flat = [i \in 1 .. N |-> Flattened(seqs, flat, i)]
                    /\ FlattenSeq(seqs) = flat[N]
    BY <2>1, FlattenEquation
  <2>3. \A i \in 1 .. N : flat[i] = Flattened(seqs, flat, i)
    BY <2>2
  <2> DEFINE Parts(n) == UNION {Range(seqs[i]) : i \in 1 .. n}
             Good == {n \in 0 .. N :
                        n # 0 => /\ flat[n] \in Seq(S)
                                 /\ Range(flat[n]) = Parts(n)}
  <2>4. 0 \in Good
    BY <2>1
  <2>5. ASSUME NEW n \in 1 .. N, n - 1 \in Good PROVE n \in Good
    <3>1. CASE n = 1
      <4>1. flat[n] = seqs[1]
        BY <2>3, <3>1 DEF Flattened
      <4>2. Parts(1) = Range(seqs[1])
        OBVIOUS
      <4> QED
        BY <2>1, <3>1, <4>1, <4>2
    <3>2. CASE n # 1
      <4>1. n - 1 \in 1 .. N
        BY <3>2
      <4>2. flat[n] = flat[n - 1] \o seqs[n]
        BY <2>3, <3>2 DEF Flattened
      <4>3. /\ flat[n - 1] \in Seq(S)
            /\ Range(flat[n - 1]) = Parts(n - 1)
        BY <2>5, <4>1
      <4>4. seqs[n] \in Seq(S)
        BY <2>1
      <4>5. flat[n] \in Seq(S)
        BY <4>2, <4>3, <4>4
      <4>6. Range(flat[n]) = Range(flat[n - 1]) \cup Range(seqs[n])
        BY <4>2, <4>3, <4>4, JoinedRange
      <4>7. Parts(n) = Parts(n - 1) \cup Range(seqs[n])
        <5>1. 1 .. n = (1 .. n - 1) \cup {n}
          BY <4>1
        <5> QED
          BY <5>1, Zenon
      <4>8. Range(flat[n]) = Parts(n)
        BY <4>3, <4>6, <4>7
      <4> HIDE DEF Parts
      <4> QED
        BY <4>5, <4>8
    <3> QED
      BY <3>1, <3>2
  <2>6. N \in Good
    <3>1. N \in Nat /\ N \in 0 .. N
      BY <2>1
    <3> HIDE DEF Good, N
    <3>2. \A n \in 0 .. N : n \in Good
      BY <2>4, <2>5, <3>1, UpTo
    <3> QED
      BY <3>1, <3>2
  <2> QED
    BY <2>1, <2>2, <2>6
<1> QED
  BY <1>1, <1>2

-----------------------------------------------------------------------------
(***************************************************************************)
(* A set of values as JSON has them: what a mapping holds is a value, and  *)
(* a list is a sequence of values.                                         *)
(***************************************************************************)
ValueSet(Values) ==
    /\ Null \in Values
    /\ \A v \in Values : v.type = "mapping" =>
         \A key \in DOMAIN v.items : v.items[key] \in Values
    /\ \A v \in Values : v.type = "list" => v.items \in Seq(Values)

Sequential(s) == s \in Seq(Range(s))

ValuesOf(level) == {level[i].value : i \in DOMAIN level}

(***************************************************************************)
(* A sequence is one of its own elements.                                  *)
(***************************************************************************)
LEMMA InItsRange ==
    ASSUME NEW S, NEW s \in Seq(S)
    PROVE  Sequential(s)
<1>1. DOMAIN s = 1 .. Len(s) /\ Len(s) \in Nat
  OBVIOUS
<1>2. s = [i \in 1 .. Len(s) |-> s[i]]
  OBVIOUS
<1>3. \A i \in 1 .. Len(s) : s[i] \in Range(s)
  BY <1>1 DEF Range
<1> DEFINE R == Range(s)
<1>4. s \in [1 .. Len(s) -> R]
  <2> HIDE DEF R
  <2> QED
    BY <1>2, <1>3 DEF R
<1>5. s \in Seq(R)
  BY <1>1, <1>4, SeqDef
<1> QED
  BY <1>5 DEF Sequential

(***************************************************************************)
(* What a part asks for of a value is a value.                             *)
(***************************************************************************)
LEMMA LookedUp ==
    ASSUME NEW Values, ValueSet(Values), NEW v \in Values, NEW part,
           Provides(v, part)
    PROVE  /\ Lookup(v, part.key) \in Values
           /\ part.each => Lookup(v, part.key).items \in Seq(Values)
<1>1. Lookup(v, part.key) \in Values
  BY DEF Provides, Lookup, ValueSet
<1> QED
  BY <1>1 DEF Provides, ValueSet

(***************************************************************************)
(* Below an item are the items that the part asks for.                     *)
(***************************************************************************)
LEMMA BelowItem ==
    ASSUME NEW Values, ValueSet(Values), NEW entry, entry.value \in Values,
           NEW part, part.each \in BOOLEAN, Provides(entry.value, part)
    PROVE  /\ Sequential(Below(entry, part))
           /\ ValuesOf(Below(entry, part)) = Items(entry.value, part)
           /\ Items(entry.value, part) \subseteq Values
<1> DEFINE value == Lookup(entry.value, part.key)
<1>1. value \in Values /\ (part.each => value.items \in Seq(Values))
  BY LookedUp
<1>2. CASE part.each
  <2> DEFINE s == value.items
             E(i) == [value |-> s[i],
                      display |-> entry.display \o <<part.key, i>>]
             below == [i \in 1 .. Len(s) |-> E(i)]
             S == {E(i) : i \in 1 .. Len(s)}
  <2>1. s \in Seq(Values)
    BY <1>1, <1>2
  <2>2. Len(s) \in Nat /\ DOMAIN s = 1 .. Len(s)
    BY <2>1
  <2>3. Below(entry, part) = below
    BY <1>2, <2>2 DEF Below
  <2>4. below \in [1 .. Len(s) -> S]
    OBVIOUS
  <2>5. Sequential(below)
    <3> HIDE DEF below, S, s
    <3> QED
      BY <2>2, <2>4, SeqDef, InItsRange
  <2>6. ValuesOf(below) = {s[i] : i \in 1 .. Len(s)}
    <3> HIDE DEF s
    <3>1. \A i \in 1 .. Len(s) : below[i].value = s[i]
      OBVIOUS
    <3>2. DOMAIN below = 1 .. Len(s)
      OBVIOUS
    <3> HIDE DEF below
    <3> QED
      BY <3>1, <3>2 DEF ValuesOf
  <2>7. Items(entry.value, part) = Range(s)
    BY <1>2 DEF Items
  <2>8. Range(s) = {s[i] : i \in 1 .. Len(s)}
    BY <2>2 DEF Range
  <2>9. Range(s) \subseteq Values
    BY <2>1, <2>8
  <2> HIDE DEF s, below
  <2> QED
    BY <2>3, <2>5, <2>6, <2>7, <2>8, <2>9
<1>3. CASE ~part.each
  <2> DEFINE e == [value |-> value,
                   display |-> Append(entry.display, part.key)]
  <2>1. Below(entry, part) = <<e>>
    BY <1>3 DEF Below
  <2>2. Items(entry.value, part) = {value}
    BY <1>3 DEF Items
  <2>3. e.value = value
    OBVIOUS
  <2> HIDE DEF e
  <2>4. <<e>> \in Seq({e}) /\ DOMAIN <<e>> = {1} /\ <<e>>[1] = e
    OBVIOUS
  <2>5. Sequential(<<e>>)
    BY <2>4, InItsRange
  <2>6. ValuesOf(<<e>>) = {value}
    BY <2>3, <2>4 DEF ValuesOf
  <2> HIDE DEF value
  <2> QED
    BY <1>1, <2>1, <2>2, <2>5, <2>6
<1> QED
  BY <1>2, <1>3

(***************************************************************************)
(* If no item of a level lacks the part, the next level holds exactly what *)
(* the part asks for.                                                      *)
(***************************************************************************)
LEMMA BelowLevel ==
    ASSUME NEW Values, ValueSet(Values), NEW level, Sequential(level),
           ValuesOf(level) \subseteq Values,
           NEW part, part.each \in BOOLEAN,
           \A v \in ValuesOf(level) : Provides(v, part)
    PROVE  LET next ==
                   FlattenSeq([i \in DOMAIN level |-> Below(level[i], part)])
           IN  /\ Sequential(next)
               /\ ValuesOf(next) = Following(ValuesOf(level), part)
               /\ ValuesOf(next) \subseteq Values
<1> DEFINE N == Len(level)
           belows == [i \in 1 .. N |-> Below(level[i], part)]
           S == UNION {Range(belows[i]) : i \in 1 .. N}
           next == FlattenSeq(belows)
<1>1. N \in Nat /\ DOMAIN level = 1 .. N
  BY DEF Sequential
<1>2. ASSUME NEW i \in 1 .. N
      PROVE  /\ level[i].value \in ValuesOf(level)
             /\ Sequential(belows[i])
             /\ ValuesOf(belows[i]) = Items(level[i].value, part)
             /\ Items(level[i].value, part) \subseteq Values
  <2>1. level[i].value \in ValuesOf(level)
    BY <1>1 DEF ValuesOf
  <2>2. level[i].value \in Values /\ Provides(level[i].value, part)
    BY <2>1
  <2>3. /\ Sequential(Below(level[i], part))
        /\ ValuesOf(Below(level[i], part)) = Items(level[i].value, part)
        /\ Items(level[i].value, part) \subseteq Values
    BY <2>2, BelowItem
  <2>4. belows[i] = Below(level[i], part)
    OBVIOUS
  <2> QED
    BY <2>1, <2>3, <2>4
<1>3. belows \in Seq(Seq(S)) /\ Len(belows) = N
  <2>1. \A i \in 1 .. N : belows[i] \in Seq(S)
    <3> TAKE i \in 1 .. N
    <3>1. belows[i] \in Seq(Range(belows[i]))
      BY <1>2 DEF Sequential
    <3>2. Range(belows[i]) \subseteq S
      OBVIOUS
    <3> HIDE DEF belows, S
    <3> QED
      BY <3>1, <3>2
  <2>2. DOMAIN belows = 1 .. N /\ belows = [i \in 1 .. N |-> belows[i]]
    OBVIOUS
  <2> HIDE DEF belows, S, N
  <2>3. belows \in [1 .. N -> Seq(S)]
    BY <2>1, <2>2
  <2> QED
    BY <1>1, <2>2, <2>3, SeqDef
<1> HIDE DEF belows
<1>4. next \in Seq(S) /\ Range(next) = S
  <2> HIDE DEF S
  <2>1. /\ next \in Seq(S)
        /\ Range(next) = UNION {Range(belows[i]) : i \in 1 .. Len(belows)}
    BY <1>3, FlattenHolds
  <2> QED
    BY <1>3, <2>1 DEF S
<1>5. Sequential(next)
  BY <1>4, InItsRange
<1>6. \A s : ValuesOf(s) = {e.value : e \in Range(s)}
  BY DEF ValuesOf, Range
<1> HIDE DEF next, N
<1>7. ValuesOf(next) = UNION {ValuesOf(belows[i]) : i \in 1 .. N}
  <2>1. ValuesOf(next) = {e.value : e \in S}
    BY <1>4, <1>6
  <2>2. {e.value : e \in S} =
          UNION {{e.value : e \in Range(belows[i])} : i \in 1 .. N}
    OBVIOUS
  <2>3. \A i \in 1 .. N :
          ValuesOf(belows[i]) = {e.value : e \in Range(belows[i])}
    BY <1>6
  <2> QED
    BY <2>1, <2>2, <2>3
<1>8. ValuesOf(next) = UNION {Items(level[i].value, part) : i \in 1 .. N}
  BY <1>2, <1>7
<1>9. Following(ValuesOf(level), part) =
        UNION {Items(level[i].value, part) : i \in 1 .. N}
  <2>1. Providing(ValuesOf(level), part) = {level[i].value : i \in 1 .. N}
    BY <1>1 DEF Providing, ValuesOf
  <2> QED
    BY <2>1 DEF Following
<1>10. ValuesOf(next) \subseteq Values
  BY <1>2, <1>8
<1> QED
  BY <1>1, <1>5, <1>8, <1>9, <1>10 DEF next, belows

-----------------------------------------------------------------------------
(***************************************************************************)
(* The walk after n parts: as long as it has not stopped, its level holds  *)
(* what the path leads to, and nothing on the way lacked its part; it has  *)
(* stopped only where something did.                                       *)
(***************************************************************************)
LacksOne(manifest, path, n) ==
    \E v \in Reached(manifest, path)[n - 1] : ~Provides(v, path[n])

OnTheWay(Values, manifest, path, n) ==
    LET walk == Walk(manifest, path)[n]
        reached == Reached(manifest, path)[n]
    IN  /\ walk = [level |-> walk.level, missing |-> walk.missing]
        /\ walk.missing = {} =>
             /\ Sequential(walk.level)
             /\ ValuesOf(walk.level) = reached
             /\ reached \subseteq Values
             /\ \A k \in 1 .. n : ~LacksOne(manifest, path, k)
        /\ walk.missing # {} =>
             \E k \in 1 .. n : LacksOne(manifest, path, k)

LEMMA WalkStarts ==
    ASSUME NEW Values, NEW manifest \in Values, NEW path, Len(path) \in Nat
    PROVE  OnTheWay(Values, manifest, path, 0)
<1> DEFINE e == [value |-> manifest, display |-> <<>>]
<1>1. Walk(manifest, path)[0] = [level |-> <<e>>, missing |-> {}]
  <2>1. Walk(manifest, path)[0] =
          WalkStep(manifest, path, Walk(manifest, path), 0)
    BY WalkEquation
  <2> QED
    BY <2>1 DEF WalkStep, Start
<1>2. Reached(manifest, path)[0] = {manifest}
  <2>1. Reached(manifest, path)[0] =
          ReachedStep(manifest, path, Reached(manifest, path), 0)
    BY ReachedEquation
  <2> QED
    BY <2>1 DEF ReachedStep
<1>3. e.value = manifest
  OBVIOUS
<1> HIDE DEF e
<1>4. <<e>> \in Seq({e}) /\ DOMAIN <<e>> = {1} /\ <<e>>[1] = e
  OBVIOUS
<1>5. Sequential(<<e>>) /\ ValuesOf(<<e>>) = {manifest}
  BY <1>3, <1>4, InItsRange DEF ValuesOf
<1> QED
  BY <1>1, <1>2, <1>5 DEF OnTheWay

LEMMA WalkGoesOn ==
    ASSUME NEW Values, ValueSet(Values), NEW manifest \in Values,
           NEW path, Len(path) \in Nat,
           NEW n \in 1 .. Len(path), path[n].each \in BOOLEAN,
           OnTheWay(Values, manifest, path, n - 1)
    PROVE  OnTheWay(Values, manifest, path, n)
<1> DEFINE before == Walk(manifest, path)[n - 1]
           after == Walk(manifest, path)[n]
           part == path[n]
           lacking == Lacking(before.level, part)
           R(k) == Reached(manifest, path)[k]
<1>1. after = Descend(before, part)
  <2>1. after = WalkStep(manifest, path, Walk(manifest, path), n)
    BY WalkEquation
  <2> QED
    BY <2>1 DEF WalkStep
<1>2. R(n) = Following(R(n - 1), part)
  <2>1. R(n) = ReachedStep(manifest, path, Reached(manifest, path), n)
    BY ReachedEquation
  <2> QED
    BY <2>1 DEF ReachedStep
<1>3. /\ before = [level |-> before.level, missing |-> before.missing]
      /\ before.missing = {} =>
           /\ Sequential(before.level)
           /\ ValuesOf(before.level) = R(n - 1)
           /\ R(n - 1) \subseteq Values
           /\ \A k \in 1 .. n - 1 : ~LacksOne(manifest, path, k)
      /\ before.missing # {} =>
           \E k \in 1 .. n - 1 : LacksOne(manifest, path, k)
  BY DEF OnTheWay
<1>4. LacksOne(manifest, path, n) <=> \E v \in R(n - 1) : ~Provides(v, part)
  BY DEF LacksOne
<1> SUFFICES
      /\ after = [level |-> after.level, missing |-> after.missing]
      /\ after.missing = {} =>
           /\ Sequential(after.level)
           /\ ValuesOf(after.level) = R(n)
           /\ R(n) \subseteq Values
           /\ \A k \in 1 .. n : ~LacksOne(manifest, path, k)
      /\ after.missing # {} => \E k \in 1 .. n : LacksOne(manifest, path, k)
  BY DEF OnTheWay
<1> HIDE DEF before, after, part, R
<1>5. lacking # {} <=> \E v \in ValuesOf(before.level) : ~Provides(v, part)
  BY DEF Lacking, ValuesOf
<1>6. CASE before.missing # {}
  <2>1. after = before
    BY <1>1, <1>6 DEF Descend
  <2> QED
    BY <1>3, <1>6, <2>1
<1>7. CASE before.missing = {} /\ lacking = {}
  <2> DEFINE next == FlattenSeq([i \in DOMAIN before.level |->
                                    Below(before.level[i], part)])
  <2>1. after = [level |-> next, missing |-> {}]
    BY <1>1, <1>3, <1>7 DEF Descend
  <2>2. \A v \in ValuesOf(before.level) : Provides(v, part)
    BY <1>5, <1>7
  <2>3. /\ Sequential(next)
        /\ ValuesOf(next) = Following(ValuesOf(before.level), part)
        /\ ValuesOf(next) \subseteq Values
    <3>1. part.each \in BOOLEAN
      BY DEF part
    <3> QED
      BY <1>3, <1>7, <2>2, <3>1, BelowLevel
  <2>4. \A k \in 1 .. n : ~LacksOne(manifest, path, k)
    <3>1. ~LacksOne(manifest, path, n)
      BY <1>3, <1>4, <1>7, <2>2
    <3>2. \A k \in 1 .. n : k = n \/ k \in 1 .. n - 1
      OBVIOUS
    <3> QED
      BY <1>3, <1>7, <3>1, <3>2
  <2> HIDE DEF next
  <2> QED
    BY <1>2, <1>3, <1>7, <2>1, <2>3, <2>4
<1>8. CASE before.missing = {} /\ lacking # {}
  <2> DEFINE first == before.level[Min(lacking)]
             found == IF first.value.type = "mapping"
                      THEN Append(first.display, part.key)
                      ELSE <<"path">>
  <2>1. after = [level |-> before.level, missing |-> {found}]
    BY <1>1, <1>3, <1>8 DEF Descend
  <2>2. LacksOne(manifest, path, n)
    BY <1>3, <1>4, <1>5, <1>8
  <2> HIDE DEF found
  <2> QED
    BY <2>1, <2>2
<1> QED
  BY <1>6, <1>7, <1>8

(***************************************************************************)
(* NothingIsMissed, for every manifest and every path: the walk reports    *)
(* something exactly when an item that the path leads to is absent, empty, *)
(* or of the wrong kind, however many lists lie above it.                  *)
(***************************************************************************)
THEOREM EveryItemIsLookedAt ==
    ASSUME NEW Values, ValueSet(Values), NEW manifest \in Values,
           NEW path, Len(path) \in Nat,
           \A n \in 1 .. Len(path) : path[n].each \in BOOLEAN
    PROVE  NothingIsMissed(manifest, path)
<1> DEFINE N == Len(path)
           Good == {n \in 0 .. N : OnTheWay(Values, manifest, path, n)}
<1>1. N \in Good
  <2>1. N \in Nat /\ N \in 0 .. N /\ 0 \in 0 .. N
    OBVIOUS
  <2>2. 0 \in Good
    BY <2>1, WalkStarts
  <2>3. ASSUME NEW n \in 1 .. N, n - 1 \in Good PROVE n \in Good
    BY <2>3, WalkGoesOn
  <2> HIDE DEF Good, N
  <2>4. \A n \in 0 .. N : n \in Good
    BY <2>1, <2>2, <2>3, UpTo
  <2> QED
    BY <2>1, <2>4
<1>2. MissingForKeyPath(manifest, path) = {} <=>
        \A n \in 1 .. N : ~LacksOne(manifest, path, n)
  BY <1>1 DEF OnTheWay, MissingForKeyPath
<1>3. Present(manifest, path) <=>
        \A n \in 1 .. N : ~LacksOne(manifest, path, n)
  BY DEF Present, LacksOne
<1> QED
  BY <1>2, <1>3 DEF NothingIsMissed

-----------------------------------------------------------------------------
(***************************************************************************)
(* The manifests that MCRules names are such values.                       *)
(***************************************************************************)
Sections == {Mapping([k \in {"s"} |-> v]) : v \in Lists \cup Entries}

Nested == {Mapping([k \in {"t"} |-> v]) : v \in Sections}

Manifests == Leaves \cup Entries \cup Lists \cup Sections \cup Nested

HoldsValues(v, Values) ==
    /\ v.type = "mapping" =>
         \A key \in DOMAIN v.items : v.items[key] \in Values
    /\ v.type = "list" => v.items \in Seq(Values)

(***************************************************************************)
(* The values of MCRules, by how they are built.                           *)
(***************************************************************************)
LEMMA Held ==
    ASSUME NEW Values
    PROVE  /\ HoldsValues(Null, Values) /\ HoldsValues(Number, Values)
           /\ HoldsValues(Text(TRUE), Values)
           /\ HoldsValues(Text(FALSE), Values)
           /\ HoldsValues(Mapping(<<>>), Values)
           /\ \A key : \A v \in Values :
                HoldsValues(Mapping([k \in {key} |-> v]), Values)
           /\ \A items \in Seq(Values) : HoldsValues(List(items), Values)
<1>1. /\ HoldsValues(Null, Values) /\ HoldsValues(Number, Values)
      /\ HoldsValues(Text(TRUE), Values) /\ HoldsValues(Text(FALSE), Values)
  BY DEF HoldsValues, Null, Number, Text
<1>2. HoldsValues(Mapping(<<>>), Values)
  BY DEF HoldsValues, Mapping
<1>3. ASSUME NEW key, NEW v \in Values
      PROVE  HoldsValues(Mapping([k \in {key} |-> v]), Values)
  BY DEF HoldsValues, Mapping
<1>4. ASSUME NEW items \in Seq(Values)
      PROVE  HoldsValues(List(items), Values)
  BY DEF HoldsValues, List
<1> QED
  BY <1>1, <1>2, <1>3, <1>4

LEMMA ManifestsAreValues == ValueSet(Manifests)
<1>1. /\ Null \in Manifests /\ Text(FALSE) \in Manifests
      /\ Leaves \subseteq Manifests /\ Entries \subseteq Manifests
      /\ Lists \subseteq Manifests /\ Sections \subseteq Manifests
      /\ Nested \subseteq Manifests
  BY DEF Manifests, Leaves
<1>2. \A a \in Manifests : <<a>> \in Seq(Manifests)
  OBVIOUS
<1>3. \A a, b \in Manifests : <<a, b>> \in Seq(Manifests)
  OBVIOUS
<1>4. <<>> \in Seq(Manifests)
  OBVIOUS
<1>5. /\ HoldsValues(Null, Manifests) /\ HoldsValues(Number, Manifests)
      /\ HoldsValues(Text(TRUE), Manifests)
      /\ HoldsValues(Text(FALSE), Manifests)
      /\ HoldsValues(Mapping(<<>>), Manifests)
  BY Held
<1>6. \A v \in Manifests, key \in {"f", "s", "t"} :
        HoldsValues(Mapping([k \in {key} |-> v]), Manifests)
  BY Held
<1>7. \A items \in Seq(Manifests) : HoldsValues(List(items), Manifests)
  BY Held
<1>8. ASSUME NEW v \in Leaves PROVE HoldsValues(v, Manifests)
  BY <1>1, <1>4, <1>5, <1>6, <1>7, Zenon DEF Leaves
<1>9. ASSUME NEW v \in Entries PROVE HoldsValues(v, Manifests)
  BY <1>1, <1>5, <1>6, Zenon DEF Entries
<1>10. ASSUME NEW v \in Lists PROVE HoldsValues(v, Manifests)
  <2>1. CASE v = List(<<>>)
    BY <1>4, <1>7, <2>1, Zenon
  <2>2. CASE \E a \in Entries : v = List(<<a>>)
    BY <1>1, <1>2, <1>7, <2>2, Zenon
  <2>3. CASE \E a \in Entries, b \in Entries : v = List(<<a, b>>)
    BY <1>1, <1>3, <1>7, <2>3, Zenon
  <2> QED
    BY <2>1, <2>2, <2>3 DEF Lists
<1>11. ASSUME NEW v \in Sections PROVE HoldsValues(v, Manifests)
  BY <1>1, <1>6, Zenon DEF Sections
<1>12. ASSUME NEW v \in Nested PROVE HoldsValues(v, Manifests)
  BY <1>1, <1>6, Zenon DEF Nested
<1>13. \A v \in Manifests : HoldsValues(v, Manifests)
  BY <1>8, <1>9, <1>10, <1>11, <1>12, Zenon DEF Manifests
<1> QED
  BY <1>1, <1>13 DEF ValueSet, HoldsValues

(***************************************************************************)
(* Each input is such a manifest, with a path of parts.                    *)
(***************************************************************************)
LEMMA KeysInputs ==
    PickKeys =>
      /\ input'.kind = "keys"
      /\ input'.manifest \in Manifests
      /\ Len(input'.path) \in Nat
      /\ \A n \in 1 .. Len(input'.path) : input'.path[n].each \in BOOLEAN
<1> DEFINE Parts == [key : {"s", "t", "f"}, each : BOOLEAN]
<1>1. Paths \subseteq Seq(Parts)
  <2>1. \A key \in {"s", "t", "f"}, each \in BOOLEAN :
          Part(key, each) \in Parts
    BY DEF Part
  <2> HIDE DEF Parts
  <2>2. \A a \in Parts : <<a>> \in Seq(Parts)
    OBVIOUS
  <2>3. \A a, b \in Parts : <<a, b>> \in Seq(Parts)
    OBVIOUS
  <2>4. \A a, b, c \in Parts : <<a, b, c>> \in Seq(Parts)
    OBVIOUS
  <2>5. /\ Part("s", TRUE) \in Parts /\ Part("s", FALSE) \in Parts
        /\ Part("f", FALSE) \in Parts /\ Part("t", FALSE) \in Parts
    BY <2>1
  <2> QED
    BY <2>2, <2>3, <2>4, <2>5, Zenon DEF Paths
<1>2. ASSUME NEW path \in Seq(Parts)
      PROVE  /\ Len(path) \in Nat
             /\ \A n \in 1 .. Len(path) : path[n].each \in BOOLEAN
  <2>1. Len(path) \in Nat /\ \A n \in 1 .. Len(path) : path[n] \in Parts
    <3> HIDE DEF Parts
    <3> QED
      BY ElementOfSeq
  <2> QED
    BY <2>1
<1> HIDE DEF Parts
<1> SUFFICES ASSUME PickKeys
             PROVE  /\ input'.kind = "keys"
                    /\ input'.manifest \in Manifests
                    /\ input'.path \in Paths
  BY <1>1, <1>2
<1>3. PICK s \in Lists \cup Entries, path \in Paths, nested \in BOOLEAN :
        input' = [kind |-> "keys", path |-> path,
                  manifest |->
                      IF nested
                      THEN Mapping([k \in {"t"} |->
                                       Mapping([k2 \in {"s"} |-> s])])
                      ELSE Mapping([k2 \in {"s"} |-> s])]
  BY DEF PickKeys
<1> DEFINE section == Mapping([k2 \in {"s"} |-> s])
<1>4. section \in Sections
  BY DEF Sections
<1>5. section \in Manifests /\ Mapping([k \in {"t"} |-> section]) \in Manifests
  BY <1>4 DEF Manifests, Nested
<1> HIDE DEF section
<1>6. /\ input'.kind = "keys" /\ input'.path = path
      /\ input'.manifest = IF nested THEN Mapping([k \in {"t"} |-> section])
                           ELSE section
  BY <1>3 DEF section
<1> QED
  BY <1>5, <1>6

(***************************************************************************)
(* SmokeMissesNothing: no empty value gets past the smoke check.           *)
(***************************************************************************)
THEOREM SmokeChecks == Spec => []SmokeMissesNothing
<1>1. Init => SmokeMissesNothing
  BY OneKind DEF SmokeMissesNothing
<1>2. ASSUME Next PROVE SmokeMissesNothing'
  <2> SUFFICES ASSUME input'.kind = "keys"
               PROVE  NothingIsMissed(input'.manifest, input'.path)
    BY DEF SmokeMissesNothing
  <2>1. PickKeys
    BY <1>2, OneKind
  <2> QED
    BY <2>1, KeysInputs, ManifestsAreValues, EveryItemIsLookedAt
<1>3. SmokeMissesNothing /\ UNCHANGED input => SmokeMissesNothing'
  BY DEF SmokeMissesNothing
<1> QED
  BY <1>1, <1>2, <1>3, PTL DEF Spec

=============================================================================
