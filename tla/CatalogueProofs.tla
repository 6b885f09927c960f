-------------------------- MODULE CatalogueProofs --------------------------
(* docgen is right for every tree of files, whatever is in them: the proofs  *)
(* that MergeFaithful and CatalogueOfTheTree are invariants of               *)
(* EventCatalogue.  It is right for every file too: those of                 *)
(* CatalogueMatchesTelemetry and RecordIntact of EventScanner.               *)
EXTENDS EventCatalogue, EventScanner, SequenceTheorems, FiniteSetTheorems,
        WellFoundedInduction, TLAPS

Numbers   == 1 .. merges
Met       == {entries[k].location : k \in Numbers}
Parts(m)  == [level |-> m.level, attributes |-> m.attributes, locations |-> m.locations]
Values(s) == {s[i] : i \in DOMAIN s}
Distinct(s) == \A i, j \in DOMAIN s : s[i] = s[j] => i = j

\* While files are scanned nothing is merged.  What is merged is a record, its
\* locations a sequence of locations of entries; only known names are warned of.
Shape ==
    /\ merges \in Nat
    /\ Collecting => merges = 0
    /\ warned \subseteq DOMAIN merged
    /\ \A n \in DOMAIN merged :
          /\ merged[n] = Parts(merged[n])
          /\ merged[n].locations \in Seq(Met)

MergeInv == Shape /\ MergeFaithful

-----------------------------------------------------------------------------
(* What a list of locations gains from one more.                             *)

Added(s, x) == IF Occurs(x, s) THEN s ELSE Append(s, x)

\* Appending a new element keeps a sequence, adds the element to its values
\* and leaves them distinct.
LEMMA AppendNew ==
  ASSUME NEW S, NEW s \in Seq(S), NEW x
  PROVE  /\ Added(s, x) \in Seq(S \cup {x})
         /\ Values(Added(s, x)) = Values(s) \cup {x}
         /\ Distinct(s) => Distinct(Added(s, x))
<1>1. s \in Seq(S \cup {x})
  OBVIOUS
<1>2. CASE Occurs(x, s)
  BY <1>1, <1>2 DEF Added, Values, Occurs
<1>3. CASE ~Occurs(x, s)
  <2>1. Added(s, x) = Append(s, x)
    BY <1>3 DEF Added
  <2>2. /\ Append(s, x) \in Seq(S \cup {x})
        /\ Len(Append(s, x)) = Len(s) + 1
        /\ DOMAIN Append(s, x) = 1 .. Len(s) + 1 /\ DOMAIN s = 1 .. Len(s)
        /\ \A i \in 1 .. Len(s) : Append(s, x)[i] = s[i]
        /\ Append(s, x)[Len(s) + 1] = x
        /\ Len(s) \in Nat
    BY <1>1
  <2>3. Values(Append(s, x)) = Values(s) \cup {x}
    BY <2>2 DEF Values
  <2>4. ASSUME Distinct(s) PROVE Distinct(Append(s, x))
    BY <1>3, <2>2, <2>4 DEF Distinct, Occurs
  <2> QED
    BY <2>1, <2>2, <2>3, <2>4
<1> QED
  BY <1>2, <1>3

-----------------------------------------------------------------------------
LEMMA InitMerge == Init => MergeInv
<1> SUFFICES ASSUME Init PROVE MergeInv
  OBVIOUS
<1>1. DOMAIN merged = {} /\ Numbers = {} /\ merges = 0 /\ warned = {}
  BY DEF Init, Numbers
<1> QED
  BY <1>1 DEF MergeInv, Shape, MergeFaithful, LocationsOnce, Numbers

\* Scanning: nothing is merged yet, so whatever is read changes nothing.
LEMMA ScanKeeps ==
  ASSUME MergeInv, ScanFile \/ NextApp
  PROVE  MergeInv'
<1>1. merges = 0 /\ UNCHANGED merge
  BY DEF MergeInv, Shape, ScanFile, NextApp
<1>2. DOMAIN merged = {}
  BY <1>1 DEF MergeInv, MergeFaithful
<1>3. merges' = 0 /\ DOMAIN merged' = {} /\ warned' = {}
  BY <1>1, <1>2 DEF merge, MergeInv, Shape
<1> QED
  BY <1>3 DEF MergeInv, Shape, MergeFaithful, LocationsOnce

\* Merging: the entry's own name gains it, the other names stay as they are.
LEMMA MergeKeeps ==
  ASSUME MergeInv, MergeEntry
  PROVE  MergeInv'
<1>0. PICK e : e = entries[merges + 1]
  OBVIOUS
<1>1. /\ merges \in Nat /\ merges' = merges + 1 /\ entries' = entries
      /\ ~Collecting /\ ~Collecting'
  BY DEF MergeInv, Shape, MergeEntry, walk, Collecting
<1>2. /\ 1 .. merges' = (1 .. merges) \cup {merges + 1}
      /\ merges + 1 \notin 1 .. merges
  BY <1>1
<1>3. \A n : Of(n)' = IF n = e.name THEN Of(n) \cup {merges + 1} ELSE Of(n)
  BY <1>0, <1>1, <1>2 DEF Of
<1>4. /\ DOMAIN merged' = DOMAIN merged \cup {e.name}
      /\ \A n \in DOMAIN merged : n # e.name => merged'[n] = merged[n]
      /\ e.name \in DOMAIN merged => merged'[e.name] = Collapse(merged[e.name], e)
      /\ e.name \notin DOMAIN merged =>
            merged'[e.name] = [level |-> e.level, attributes |-> e.attributes,
                               locations |-> <<e.location>>]
  BY <1>0 DEF MergeEntry
<1>5. warned' = IF e.name \in DOMAIN merged /\ merged[e.name].level # e.level
                THEN warned \cup {e.name} ELSE warned
  BY <1>0 DEF MergeEntry
<1>6. DOMAIN merged' = {entries'[k].name : k \in 1 .. merges'}
  BY <1>0, <1>1, <1>2, <1>4 DEF MergeInv, MergeFaithful
<1>7. Met' = Met \cup {e.location}
  BY <1>0, <1>1, <1>2 DEF Met, Numbers
<1>8. ASSUME NEW n \in DOMAIN merged, n # e.name
      PROVE  /\ merged'[n] = Parts(merged'[n]) /\ merged'[n].locations \in Seq(Met')
             /\ Summarised(n)' /\ Distinct(merged'[n].locations)
  <2>1. merged'[n] = merged[n] /\ Of(n)' = Of(n) /\ (n \in warned' <=> n \in warned)
    BY <1>3, <1>4, <1>5, <1>8
  <2>2. merged[n].locations \in Seq(Met) /\ merged[n] = Parts(merged[n])
    BY DEF MergeInv, Shape
  <2>3. merged[n].locations \in Seq(Met')
    BY <2>2, <1>7
  <2>4. Summarised(n)'
    <3>1. Summarised(n)
      BY DEF MergeInv, MergeFaithful
    <3>2. (n \in warned <=> \E k \in Of(n) : entries[k].level # merged[n].level)'
      BY <1>1, <2>1, <3>1 DEF Summarised
    <3>3. (merged[n].attributes = UNION {entries[k].attributes : k \in Of(n)})'
      BY <1>1, <2>1, <3>1 DEF Summarised
    <3>4. ({merged[n].locations[i] : i \in DOMAIN merged[n].locations}
             = {entries[k].location : k \in Of(n)})'
      <4>1. Values(merged'[n].locations) = Values(merged[n].locations)
        BY <2>1
      <4>2. Values(merged[n].locations) = {entries[k].location : k \in Of(n)}
        BY <3>1 DEF Summarised, Values
      <4>3. {entries[k].location : k \in Of(n)} = {entries'[k].location : k \in Of(n)'}
        BY <1>1, <2>1
      <4> QED
        BY <4>1, <4>2, <4>3 DEF Values
    <3>5. (\E first \in Of(n) : /\ \A k \in Of(n) : first <= k
                                /\ merged[n].level = entries[first].level)'
      BY <1>1, <2>1, <3>1 DEF Summarised
    <3> QED
      BY <3>2, <3>3, <3>4, <3>5 DEF Summarised
  <2>5. Distinct(merged[n].locations)
    BY DEF MergeInv, MergeFaithful, LocationsOnce, Distinct
  <2> QED
    BY <2>1, <2>2, <2>3, <2>4, <2>5
<1>9. ASSUME e.name \in DOMAIN merged
      PROVE  /\ merged'[e.name] = Parts(merged'[e.name])
             /\ merged'[e.name].locations \in Seq(Met')
             /\ Summarised(e.name)' /\ Distinct(merged'[e.name].locations)
  <2> DEFINE n == e.name
             old == merged[n]
  <2>1. /\ old = Parts(old) /\ old.locations \in Seq(Met)
        /\ Summarised(n) /\ Distinct(old.locations)
    BY <1>9 DEF MergeInv, Shape, MergeFaithful, LocationsOnce, Distinct
  <2>2. merged'[n] = [level |-> old.level,
                      attributes |-> old.attributes \cup e.attributes,
                      locations |-> Added(old.locations, e.location)]
    <3>1. merged'[n] = Collapse(Parts(old), e)
      BY <1>4, <1>9, <2>1
    <3> QED
      BY <3>1 DEF Collapse, Parts, Added
  <2>3. /\ Added(old.locations, e.location) \in Seq(Met')
        /\ Values(Added(old.locations, e.location))
              = Values(old.locations) \cup {e.location}
        /\ Distinct(Added(old.locations, e.location))
    <3>1. old.locations \in Seq(Met)
      BY <2>1
    <3>2. /\ Added(old.locations, e.location) \in Seq(Met \cup {e.location})
          /\ Values(Added(old.locations, e.location))
                = Values(old.locations) \cup {e.location}
          /\ Distinct(old.locations) => Distinct(Added(old.locations, e.location))
      BY <3>1, AppendNew
    <3> QED
      BY <1>7, <2>1, <3>2
  <2>4. Of(n)' = Of(n) \cup {merges + 1} /\ Of(n) \subseteq 1 .. merges
    BY <1>3 DEF Of
  <2>5. merged'[n].attributes = UNION {entries'[k].attributes : k \in Of(n)'}
    BY <2>1, <2>2, <2>4, <1>0, <1>1 DEF Summarised
  <2>6. {merged'[n].locations[i] : i \in DOMAIN merged'[n].locations}
           = {entries'[k].location : k \in Of(n)'}
    <3>1. Values(old.locations) = {entries[k].location : k \in Of(n)}
      BY <2>1 DEF Summarised, Values
    <3>2. Values(merged'[n].locations)
             = {entries[k].location : k \in Of(n)} \cup {e.location}
      BY <2>2, <2>3, <3>1
    <3>3. {entries[k].location : k \in Of(n)} \cup {e.location}
             = {entries'[k].location : k \in Of(n)'}
      BY <1>0, <1>1, <2>4
    <3> QED
      BY <3>2, <3>3 DEF Values
  <2>7. \E first \in Of(n)' :
           (\A k \in Of(n)' : first <= k) /\ merged'[n].level = entries'[first].level
    BY <2>1, <2>2, <2>4, <1>0, <1>1 DEF Summarised
  <2>8. n \in warned' <=> \E k \in Of(n)' : entries'[k].level # merged'[n].level
    BY <2>1, <2>2, <2>4, <1>0, <1>1, <1>5, <1>9 DEF Summarised
  <2>9. Summarised(n)'
    BY <2>5, <2>6, <2>7, <2>8, <1>1 DEF Summarised
  <2> QED
    BY <2>2, <2>3, <2>9 DEF Parts
<1>10. ASSUME e.name \notin DOMAIN merged
       PROVE  /\ merged'[e.name] = Parts(merged'[e.name])
              /\ merged'[e.name].locations \in Seq(Met')
              /\ Summarised(e.name)' /\ Distinct(merged'[e.name].locations)
  <2> DEFINE n == e.name
  <2>1. Of(n) = {} /\ n \notin warned
    BY <1>10 DEF MergeInv, Shape, MergeFaithful, Of
  <2>2. Of(n)' = {merges + 1}
    BY <1>3, <2>1
  <2>3. merged'[n] = [level |-> e.level, attributes |-> e.attributes,
                      locations |-> <<e.location>>]
    BY <1>4, <1>10
  <2>4. /\ <<e.location>> \in Seq(Met') /\ Values(<<e.location>>) = {e.location}
        /\ Distinct(<<e.location>>)
    BY <1>7 DEF Values, Distinct
  <2>5. n \notin warned'
    BY <1>5, <1>10, <2>1
  <2>6. Summarised(n)'
    BY <1>0, <1>1, <2>2, <2>3, <2>4, <2>5 DEF Summarised, Values
  <2> QED
    BY <2>3, <2>4, <2>6 DEF Parts
<1>11. \A n \in DOMAIN merged' :
          /\ merged'[n] = Parts(merged'[n]) /\ merged'[n].locations \in Seq(Met')
          /\ Summarised(n)' /\ Distinct(merged'[n].locations)
  BY <1>4, <1>8, <1>9, <1>10
<1>12. warned' \subseteq DOMAIN merged'
  BY <1>4, <1>5 DEF MergeInv, Shape
<1>13. Shape'
  BY <1>1, <1>11, <1>12 DEF Shape, Parts
<1>14. LocationsOnce'
  BY <1>11 DEF LocationsOnce, Distinct
<1>15. MergeFaithful'
  BY <1>6, <1>11, <1>14 DEF MergeFaithful
<1> QED
  BY <1>13, <1>15 DEF MergeInv

-----------------------------------------------------------------------------
LEMMA MergeInvariant == Spec => []MergeInv
<1>1. Init => MergeInv
  BY InitMerge
<1>2. MergeInv /\ [Next]_vars => MergeInv'
  <2> SUFFICES ASSUME MergeInv, [Next]_vars PROVE MergeInv'
    OBVIOUS
  <2>1. CASE ScanFile
    BY <2>1, ScanKeeps
  <2>2. CASE NextApp
    BY <2>2, ScanKeeps
  <2>3. CASE MergeEntry
    BY <2>3, MergeKeeps
  <2>4. CASE UNCHANGED vars
    <3>1. /\ merges' = merges /\ merged' = merged /\ warned' = warned
          /\ entries' = entries /\ app' = app
      BY <2>4 DEF vars, walk, merge
    <3>2. Shape'
      BY <3>1 DEF MergeInv, Shape, Collecting, Met, Numbers
    <3>3. \A n : Summarised(n)' <=> Summarised(n)
      BY <3>1 DEF Summarised, Of
    <3>4. LocationsOnce'
      BY <3>1 DEF MergeInv, MergeFaithful, LocationsOnce
    <3>5. MergeFaithful'
      BY <3>1, <3>3, <3>4 DEF MergeInv, MergeFaithful
    <3> QED
      BY <3>2, <3>5 DEF MergeInv
  <2> QED
    BY <2>1, <2>2, <2>3, <2>4 DEF Next
<1> QED
  BY <1>1, <1>2, PTL DEF Spec

\* merge_event_entries loses nothing, makes nothing up and repeats nothing, for
\* every set of apps and files and every content of them.
THEOREM MergeIsFaithful == Spec => []MergeFaithful
<1>1. MergeInv => MergeFaithful
  BY DEF MergeInv
<1> QED
  BY <1>1, MergeInvariant, PTL
-----------------------------------------------------------------------------
(* The walk: which files it has been to, and what it has brought from them.  *)

\* Some app's tree has the file, and the walk was there.
Walked(f) ==
    \E a \in DOMAIN Apps : Scanned(f, a) /\ (a < app \/ (a = app /\ f < next))

Lists(es, n, location) ==
    \E j \in DOMAIN es : es[j].name = n /\ es[j].location = location

\* Each event that the file f holds is among the entries.
AllListed(es, f, found) ==
    \A k \in DOMAIN found : Lists(es, found[k].name, <<f, found[k].line>>)

Event == [name : STRING, level : STRING, attributes : SUBSET STRING, line : Nat]
Entry == [name : STRING, level : STRING, attributes : SUBSET STRING,
          location : Nat \X Nat]

TreeInv ==
    /\ app \in 1 .. Len(Apps) + 1 /\ next \in 1 .. Len(Files) + 1
    /\ entries \in Seq(Entry)
    /\ DOMAIN source = {f \in DOMAIN Files : Walked(f)}
    /\ \A f \in DOMAIN source :
          /\ source[f] \in Sources
          /\ AllListed(entries, f, source[f])

LEMMA Lengths ==
  /\ Len(Files) \in Nat /\ DOMAIN Files = 1 .. Len(Files)
  /\ Len(Apps) \in Nat /\ DOMAIN Apps = 1 .. Len(Apps)
BY CatalogueAssumption

\* should_skip, read as a condition on the parts of the path.
LEMMA SkippedFiles ==
  ASSUME NEW parts \in Seq(STRING), NEW label
  PROVE  ~ShouldSkip(parts, label) <=>
            /\ \A k \in 1 .. Len(parts) - 1 : parts[k] \notin {"migrations", "tests"}
            /\ parts[Len(parts)] \notin TestName
            /\ label = "task_processor" \/ Len(parts) < 3
                 \/ SubSeq(parts, 1, 2) # <<"management", "commands">>
<1>1. ASSUME Len(parts) >= 3
      PROVE  SubSeq(parts, 1, 2) = <<parts[1], parts[2]>>
  <2>1. \A i \in 1 .. 2 : parts[i] \in STRING
    BY <1>1, ElementOfSeq
  <2>2. /\ SubSeq(parts, 1, 2) \in Seq(STRING) /\ Len(SubSeq(parts, 1, 2)) = 2
        /\ SubSeq(parts, 1, 2)[1] = parts[1] /\ SubSeq(parts, 1, 2)[2] = parts[2]
    BY <2>1, SubSeqProperties
  <2>3. /\ <<parts[1], parts[2]>> \in Seq(STRING) /\ Len(<<parts[1], parts[2]>>) = 2
        /\ \A i \in 1 .. 2 : <<parts[1], parts[2]>>[i] = parts[i]
    BY <2>1
  <2> DEFINE s == SubSeq(parts, 1, 2)
             t == <<parts[1], parts[2]>>
  <2>4. \A i \in 1 .. 2 : s[i] = t[i]
    BY <2>2, <2>3
  <2>5. s \in Seq(STRING) /\ t \in Seq(STRING) /\ Len(s) = 2 /\ Len(t) = 2
    BY <2>2, <2>3
  <2> HIDE DEF s, t
  <2>6. s = t
    BY <2>4, <2>5, SeqEqual
  <2> QED
    BY <2>6 DEF s, t
<1>2. Len(parts) >= 3 =>
         (SubSeq(parts, 1, 2) = <<"management", "commands">>
            <=> parts[1] = "management" /\ parts[2] = "commands")
  BY <1>1
<1>3. Len(parts) \in Nat
  OBVIOUS
<1> QED
  BY <1>2, <1>3 DEF ShouldSkip

\* What the scanner yields for a file is listed, at the file's lines.
LEMMA LocatedEntries ==
  ASSUME NEW f \in DOMAIN Files, NEW found \in Sources
  PROVE  /\ Located(f, found) \in Seq(Entry)
         /\ DOMAIN Located(f, found) = DOMAIN found
         /\ \A k \in DOMAIN found :
               /\ Located(f, found)[k].name = found[k].name
               /\ Located(f, found)[k].location = <<f, found[k].line>>
<1>1. f \in Nat /\ found \in Seq(Event)
  BY CatalogueAssumption, Lengths DEF Event
<1>2. Len(found) \in Nat /\ DOMAIN found = 1 .. Len(found)
      /\ \A k \in DOMAIN found : found[k] \in Event
  BY <1>1, LenProperties, ElementOfSeq
<1>3. \A k \in DOMAIN found :
         [name |-> found[k].name, level |-> found[k].level,
          attributes |-> found[k].attributes, location |-> <<f, found[k].line>>] \in Entry
  BY <1>1, <1>2 DEF Entry, Event
<1>4. Located(f, found) \in [1 .. Len(found) -> Entry]
  BY <1>2, <1>3 DEF Located
<1>5. Located(f, found) \in Seq(Entry)
  BY <1>2, <1>4
<1> QED
  BY <1>5 DEF Located

LEMMA ScanFileWalks ==
  ASSUME TreeInv, ScanFile
  PROVE  TreeInv'
<1>1. /\ next \in 1 .. Len(Files) /\ next' = next + 1 /\ app' = app
      /\ app \in DOMAIN Apps /\ next \in DOMAIN Files
  BY Lengths DEF TreeInv, ScanFile, Collecting
<1>2. \A f \in DOMAIN Files : Walked(f)' <=> Walked(f) \/ (f = next /\ Scanned(next, app))
  BY <1>1, Lengths DEF Walked, Scanned
<1>3. next' \in 1 .. Len(Files) + 1 /\ app' \in 1 .. Len(Apps) + 1
  BY <1>1, Lengths DEF TreeInv
<1>4. CASE ~Scanned(next, app)
  <2>1. UNCHANGED <<source, entries>>
    BY <1>4 DEF ScanFile
  <2>2. DOMAIN source' = {f \in DOMAIN Files : Walked(f)'}
    BY <1>2, <1>4, <2>1 DEF TreeInv
  <2> QED
    BY <1>3, <2>1, <2>2 DEF TreeInv
<1>5. CASE Scanned(next, app)
  <2>1. PICK found \in IF next \in DOMAIN source THEN {source[next]} ELSE Sources :
           /\ source' = [f \in DOMAIN source \cup {next} |->
                          IF f = next THEN found ELSE source[f]]
           /\ entries' = entries \o Located(next, found)
    BY <1>5 DEF ScanFile
  <2>2. found \in Sources /\ entries \in Seq(Entry)
    BY <2>1 DEF TreeInv
  <2>3. /\ Located(next, found) \in Seq(Entry)
        /\ DOMAIN Located(next, found) = DOMAIN found
        /\ \A k \in DOMAIN found :
              /\ Located(next, found)[k].name = found[k].name
              /\ Located(next, found)[k].location = <<next, found[k].line>>
    BY <1>1, <2>2, LocatedEntries
  <2>4. DOMAIN source' = {f \in DOMAIN Files : Walked(f)'}
    BY <1>1, <1>2, <1>5, <2>1 DEF TreeInv
  <2> DEFINE new == Located(next, found)
  <2>5. /\ entries' \in Seq(Entry)
        /\ \A j \in DOMAIN entries : j \in DOMAIN entries' /\ entries'[j] = entries[j]
        /\ \A k \in DOMAIN new :
              Len(entries) + k \in DOMAIN entries' /\ entries'[Len(entries) + k] = new[k]
    <3>1. new \in Seq(Entry) /\ entries' = entries \o new
      BY <2>1, <2>3
    <3>2. /\ Len(entries) \in Nat /\ DOMAIN entries = 1 .. Len(entries)
          /\ Len(new) \in Nat /\ DOMAIN new = 1 .. Len(new)
      BY <2>2, <3>1, LenProperties
    <3>3. /\ entries' \in Seq(Entry) /\ Len(entries') = Len(entries) + Len(new)
          /\ \A i \in 1 .. Len(entries) + Len(new) :
                entries'[i] = IF i <= Len(entries) THEN entries[i]
                              ELSE new[i - Len(entries)]
      BY <2>2, <3>1, ConcatProperties
    <3>4. DOMAIN entries' = 1 .. Len(entries) + Len(new)
      BY <3>3, LenProperties
    <3> HIDE DEF new
    <3> QED
      BY <3>2, <3>3, <3>4
  <2>6. \A f, g : AllListed(entries, f, g) => AllListed(entries', f, g)
    BY <2>5 DEF AllListed, Lists
  <2>7. AllListed(entries', next, found)
    BY <2>3, <2>5 DEF AllListed, Lists
  <2>8. ASSUME NEW f \in DOMAIN source'
        PROVE  source'[f] \in Sources /\ AllListed(entries', f, source'[f])
    <3>1. CASE f = next
      BY <2>1, <2>2, <2>7, <3>1
    <3>2. CASE f # next
      <4>1. f \in DOMAIN source /\ source'[f] = source[f]
        BY <2>1, <2>8, <3>2
      <4> QED
        BY <2>6, <4>1 DEF TreeInv
    <3> QED
      BY <3>1, <3>2
  <2> QED
    BY <1>3, <2>4, <2>5, <2>8 DEF TreeInv
<1> QED
  BY <1>4, <1>5

LEMMA NextAppWalks ==
  ASSUME TreeInv, NextApp
  PROVE  TreeInv'
<1>1. /\ app \in 1 .. Len(Apps) /\ app' = app + 1
      /\ next' = 1 /\ UNCHANGED <<source, entries>>
      /\ \A f \in DOMAIN Files : f \in Nat /\ f < next /\ ~(f < next')
  BY Lengths DEF TreeInv, NextApp, Collecting
<1>2. \A f \in DOMAIN Files : Walked(f)' <=> Walked(f)
  BY <1>1, Lengths DEF Walked, Scanned
<1>3. DOMAIN source' = {f \in DOMAIN Files : Walked(f)'}
  BY <1>1, <1>2 DEF TreeInv
<1>4. next' \in 1 .. Len(Files) + 1 /\ app' \in 1 .. Len(Apps) + 1
  BY <1>1, Lengths
<1> QED
  BY <1>1, <1>3, <1>4 DEF TreeInv

LEMMA TreeInvariant == Spec => []TreeInv
<1>1. Init => TreeInv
  <2> SUFFICES ASSUME Init PROVE TreeInv
    OBVIOUS
  <2>1. \A f \in DOMAIN Files : ~Walked(f)
    BY Lengths DEF Init, Walked
  <2> QED
    BY <2>1, Lengths DEF Init, TreeInv
<1>2. TreeInv /\ [Next]_vars => TreeInv'
  <2> SUFFICES ASSUME TreeInv, [Next]_vars PROVE TreeInv'
    OBVIOUS
  <2>1. CASE MergeEntry \/ UNCHANGED vars
    <3>1. UNCHANGED <<source, app, next, entries>>
      BY <2>1 DEF MergeEntry, vars, walk
    <3> QED
      BY <3>1 DEF TreeInv, Walked, Scanned
  <2> QED
    BY <2>1, ScanFileWalks, NextAppWalks DEF Next
<1> QED
  BY <1>1, <1>2, PTL DEF Spec

\* The finished catalogue has each event of a file, at its line, if and only if
\* some app's tree has the file and does not leave it out: for every list of
\* apps, nested or not, and every tree.
THEOREM CatalogueIsOfTheTree == Spec => []CatalogueOfTheTree
<1>1. MergeInv /\ TreeInv => CatalogueOfTheTree
  <2> SUFFICES ASSUME MergeInv, TreeInv, ~Collecting, merges = Len(entries),
                      NEW f \in DOMAIN Files
               PROVE  /\ f \in DOMAIN source <=> \E a \in DOMAIN Apps :
                           LET parts == Relative(Files[f], Apps[a].path)
                           IN  /\ IsUnder(Files[f], Apps[a].path)
                               /\ \A k \in 1 .. Len(parts) - 1 :
                                     parts[k] \notin {"migrations", "tests"}
                               /\ parts[Len(parts)] \notin TestName
                               /\ Apps[a].label = "task_processor" \/ Len(parts) < 3
                                    \/ SubSeq(parts, 1, 2) # <<"management", "commands">>
                      /\ f \in DOMAIN source => \A k \in DOMAIN source[f] :
                           /\ source[f][k].name \in DOMAIN merged
                           /\ Occurs(<<f, source[f][k].line>>,
                                     merged[source[f][k].name].locations)
    BY DEF CatalogueOfTheTree
  <2>1. f \in DOMAIN source <=> \E a \in DOMAIN Apps : Scanned(f, a)
    <3>1. \A a \in DOMAIN Apps : a < app
      BY Lengths DEF TreeInv, Collecting
    <3> QED
      BY <3>1 DEF TreeInv, Walked
  <2>2. ASSUME NEW a \in DOMAIN Apps
        PROVE  LET parts == Relative(Files[f], Apps[a].path)
               IN  Scanned(f, a) <=>
                      /\ IsUnder(Files[f], Apps[a].path)
                      /\ \A k \in 1 .. Len(parts) - 1 :
                            parts[k] \notin {"migrations", "tests"}
                      /\ parts[Len(parts)] \notin TestName
                      /\ Apps[a].label = "task_processor" \/ Len(parts) < 3
                           \/ SubSeq(parts, 1, 2) # <<"management", "commands">>
    <3> DEFINE path == Files[f]
               root == Apps[a].path
    <3>1. path \in Seq(STRING)
      BY CatalogueAssumption, Lengths, ElementOfSeq
    <3>2. ASSUME IsUnder(path, root) PROVE Relative(path, root) \in Seq(STRING)
      <4>1. Apps[a] \in [path : Seq(STRING), label : STRING]
        BY CatalogueAssumption, Lengths, ElementOfSeq
      <4>2. root \in Seq(STRING)
        BY <4>1
      <4> HIDE DEF path, root
      <4>3. Len(path) \in Nat /\ Len(root) \in Nat
        BY <3>1, <4>2, LenProperties
      <4>4. \A i \in Len(root) + 1 .. Len(path) : path[i] \in STRING
        BY <3>1, <4>3, ElementOfSeq
      <4> QED
        BY <4>3, <4>4, SubSeqProperties DEF Relative
    <3> QED
      BY <3>2, SkippedFiles DEF Scanned
  <2>3. ASSUME f \in DOMAIN source, NEW k \in DOMAIN source[f]
        PROVE  /\ source[f][k].name \in DOMAIN merged
               /\ Occurs(<<f, source[f][k].line>>, merged[source[f][k].name].locations)
    <3> DEFINE n == source[f][k].name
               location == <<f, source[f][k].line>>
    <3>1. PICK j \in DOMAIN entries : entries[j].name = n /\ entries[j].location = location
      BY <2>3 DEF TreeInv, AllListed, Lists
    <3>2. j \in 1 .. merges
      BY DEF TreeInv
    <3>3. n \in DOMAIN merged
      BY <3>1, <3>2 DEF MergeInv, MergeFaithful
    <3>4. j \in Of(n)
      BY <3>1, <3>2 DEF Of
    <3>5. {merged[n].locations[i] : i \in DOMAIN merged[n].locations}
             = {entries[i].location : i \in Of(n)}
      BY <3>3 DEF MergeInv, MergeFaithful, Summarised
    <3>6. location \in {merged[n].locations[i] : i \in DOMAIN merged[n].locations}
      BY <3>1, <3>4, <3>5
    <3> QED
      BY <3>3, <3>6 DEF Occurs
  <2> QED
    BY <2>1, <2>2, <2>3
<1> QED
  BY <1>1, MergeInvariant, TreeInvariant, PTL
-----------------------------------------------------------------------------
(* The way of an event: what becomes of the keys that a call is given.       *)

\* What structlog writes for a call.
Ours(written) == {"event", "logger", "level", "timestamp"} \cup written

\* A dictionary has the keys of the context and the call, without those that
\* are taken away, and structlog's; structlog writes over the call, and the call
\* over the context.
Layered(dict, keys, written) ==
    /\ DOMAIN dict = ((Context \cup keys) \ Consumed) \cup Ours(written)
    /\ \A k \in Ours(written) : dict[k] = "structlog"
    /\ \A k \in keys \ (Ours(written) \cup Consumed) : dict[k] = "call"
    /\ \A k \in Context \ (keys \cup Ours(written) \cup Consumed) : dict[k] = "context"

\* Such is the event's dictionary.
LEMMA EventDictOf ==
  ASSUME NEW keys, NEW written
  PROVE  Layered(EventDict(keys, written), keys, written)
<1> DEFINE given == From(Context, "context") ++ From(keys, "call")
           rest  == Without(given, Consumed)
           dict  == EventDict(keys, written)
           W     == Ours(written)
<1>1. /\ DOMAIN given = Context \cup keys
      /\ \A k \in keys : given[k] = "call"
      /\ \A k \in Context \ keys : given[k] = "context"
  BY DEF From, ++
<1>2. /\ DOMAIN rest = (Context \cup keys) \ Consumed
      /\ \A k \in DOMAIN rest : rest[k] = given[k]
  BY <1>1 DEF Without
<1>3. dict = rest ++ From(W, "structlog")
  BY DEF EventDict, Ours
<1> HIDE DEF given, rest, dict, W
<1>4. /\ DOMAIN dict = DOMAIN rest \cup W
      /\ \A k \in W : dict[k] = "structlog"
      /\ \A k \in DOMAIN rest \ W : dict[k] = rest[k]
  BY <1>3 DEF From, ++
<1> QED
  BY <1>1, <1>2, <1>4 DEF W, dict, Layered

\* A line has the record's own fields, the span's ids in a span, and every
\* other key as it was given.
KeepsRecord(line, keys, written) ==
    LET own == {"message", "levelname", "logger_name", "pid", "thread_name"}
    IN  /\ \A f \in own : line[f] = "record"
        /\ \A k \in written \ Popped : line[k] = "structlog"
        /\ \A k \in keys \ (own \cup Popped \cup Consumed \cup {"timestamp"} \cup written) :
              line[k] = "call"

\* Such is the line of any call.
LEMMA LineOf ==
  ASSUME NEW keys, NEW written \in Written(keys)
  PROVE  KeepsRecord(JsonLine(EventDict(keys, written)), keys, written)
<1> DEFINE own  == {"message", "levelname", "logger_name", "pid", "thread_name"}
           line == JsonLine(EventDict(keys, written))
           dict == EventDict(keys, written)
           record == JsonRecord(dict)
<1>1. /\ own \subseteq DOMAIN record
      /\ DOMAIN record \subseteq own \cup {"exc_info"}
      /\ \A f \in DOMAIN record : record[f] = "record"
  BY DEF JsonRecord, From
<1>2. Layered(dict, keys, written)
  BY EventDictOf
<1>3. written \subseteq {"trace_id", "span_id", "exception", "stack"}
  BY DEF Written
<1>4. line = Without(dict, Popped) ++ record
  BY DEF JsonLine
<1> HIDE DEF line, dict, record
<1>5. /\ \A f \in DOMAIN record : line[f] = record[f]
      /\ \A k \in DOMAIN dict \ (Popped \cup DOMAIN record) : line[k] = dict[k]
  BY <1>4 DEF Without, ++
<1>6. \A f \in own : line[f] = "record"
  BY <1>1, <1>5
<1>7. ASSUME NEW k \in written \ Popped PROVE line[k] = "structlog"
  <2>1. k \in DOMAIN dict /\ dict[k] = "structlog"
    BY <1>2 DEF Layered, Ours
  <2>2. k \notin own \cup {"exc_info"}
    BY <1>3
  <2> QED
    BY <1>1, <1>5, <2>1, <2>2
<1>8. ASSUME NEW k \in keys \ (own \cup Popped \cup Consumed \cup {"timestamp"} \cup written)
      PROVE  line[k] = "call"
  <2>1. k \notin Ours(written) \cup Consumed /\ k \notin own \cup {"exc_info"}
    BY DEF Ours, Popped, Consumed
  <2>2. k \in DOMAIN dict /\ dict[k] = "call"
    BY <1>2, <2>1 DEF Layered
  <2> QED
    BY <1>1, <1>5, <2>1, <2>2
<1> QED
  BY <1>6, <1>7, <1>8 DEF KeepsRecord, line

\* The JSON line of a call, inside a span or outside, has the record's own
\* fields whatever the call is given, and the call's other keys but for those
\* that structlog's processors take or write: map_event_to_json_record, for any
\* file and call.
THEOREM RecordsAreIntact == VisitSpec => []RecordIntact
<1>1. RecordIntact
  <2> DEFINE given == KeysOf(call.logger.attrs \cup call.kwargs)
  <2>1. \A written \in Written(given) :
           KeepsRecord(JsonLine(EventDict(given, written)), given, written)
    BY LineOf
  <2> QED
    BY <2>1 DEF RecordIntact, KeepsRecord
<1> QED
  BY <1>1, PTL

-----------------------------------------------------------------------------
(* The way of an event to OpenTelemetry.                                     *)

\* Dotted renames no key of structlog's own, makes none, and two keys never
\* become one.
LEMMA DottedKeys ==
  /\ \A j, k \in KeysOf(Keywords) \cup Context \cup Plain : Dotted(j) = Dotted(k) => j = k
  /\ \A k \in Plain : Dotted(k) = k
  /\ \A k \in KeysOf(Keywords) \cup Context \cup Plain : Dotted(k) \in Plain => Dotted(k) = k
<1>1. \A j, k \in KeysOf(Keywords) \cup Context \cup Plain : Dotted(j) = Dotted(k) => j = k
  BY KeyAssumption
<1>2. \A k \in Plain : Dotted(k) = k
  BY KeyAssumption DEF Dotted
<1>3. ASSUME NEW k \in KeysOf(Keywords) \cup Context \cup Plain, Dotted(k) \in Plain
      PROVE  Dotted(k) = k
  <2>1. Dotted(Dotted(k)) = Dotted(k)
    BY <1>2, <1>3
  <2> QED
    BY <1>1, <1>3, <2>1
<1> QED
  BY <1>1, <1>2, <1>3

\* What arrives at OpenTelemetry as the call's is what the call was given; all
\* else is of the context, the baggage or structlog.
Arrives(out, keys, written) ==
    LET ofCall == {a \in DOMAIN out : out[a] = "call"}
        others == Baggage \cup {"flagsmith.event"} \cup written
    IN  /\ ofCall = Mapped(keys) \ (RESERVED_KEYS \cup Consumed \cup others)
        /\ DOMAIN out \ ofCall \subseteq Mapped(Context) \cup others

\* Attributes are the kept keys, dotted, and what is written over them.
Carries(out, dict) ==
    LET kept == DOMAIN dict \ RESERVED_KEYS
        over == Baggage \cup {"flagsmith.event"}
    IN  /\ DOMAIN out = Mapped(kept) \cup over
        /\ \A a \in over : out[a] # "call"
        /\ \A k \in kept : Dotted(k) \notin over => out[Dotted(k)] = dict[k]

\* Such are the attributes of a dictionary.
LEMMA AttributesOf ==
  ASSUME NEW dict,
         \A j, k \in DOMAIN dict \ RESERVED_KEYS : Dotted(j) = Dotted(k) => j = k
  PROVE  Carries(OtelAttributes(dict), dict)
<1> DEFINE kept == DOMAIN dict \ RESERVED_KEYS
           out  == OtelAttributes(dict)
           of   == [a \in Mapped(kept) |-> dict[CHOOSE k \in kept : Dotted(k) = a]]
           both == of ++ From(Baggage, "baggage")
<1>1. out = both ++ From({"flagsmith.event"}, "structlog")
  BY DEF OtelAttributes
<1>2. /\ DOMAIN of = Mapped(kept)
      /\ \A k \in kept : of[Dotted(k)] = dict[k]
  <2>1. \A k \in kept : Dotted(k) \in Mapped(kept)
    BY DEF Mapped
  <2>2. \A k \in kept : (CHOOSE i \in kept : Dotted(i) = Dotted(k)) = k
    OBVIOUS
  <2> QED
    BY <2>1, <2>2
<1> HIDE DEF of
<1>3. /\ DOMAIN both = Mapped(kept) \cup Baggage
      /\ \A a \in Baggage : both[a] = "baggage"
      /\ \A a \in Mapped(kept) \ Baggage : both[a] = of[a]
  BY <1>2 DEF From, ++
<1> HIDE DEF both, out, kept
<1>4. /\ DOMAIN out = DOMAIN both \cup {"flagsmith.event"}
      /\ out["flagsmith.event"] = "structlog"
      /\ \A a \in DOMAIN both \ {"flagsmith.event"} : out[a] = both[a]
  BY <1>1 DEF From, ++
<1>5. \A k \in kept : Dotted(k) \in Mapped(kept)
  BY DEF Mapped
<1> QED
  BY <1>2, <1>3, <1>4, <1>5 DEF Carries, kept, out

\* Such are the attributes of any call, inside a span or outside.
LEMMA OtelAttributesOf ==
  ASSUME NEW keys \in SUBSET KeysOf(Keywords), NEW written \in Written(keys)
  PROVE  Arrives(OtelAttributes(EventDict(keys, written)), keys, written)
<1> DEFINE dict == EventDict(keys, written)
           out  == OtelAttributes(dict)
           W    == Ours(written)
           kept == DOMAIN dict \ RESERVED_KEYS
           over == Baggage \cup {"flagsmith.event"}
           ofCall == {a \in DOMAIN out : out[a] = "call"}
           others == Baggage \cup {"flagsmith.event"} \cup written
           left   == Mapped(keys) \ (RESERVED_KEYS \cup Consumed \cup others)
<1>0. written \subseteq {"trace_id", "span_id", "exception", "stack"}
  BY DEF Written
<1>1. /\ W \subseteq RESERVED_KEYS \cup written /\ written \subseteq W
      /\ W \subseteq Plain /\ written \subseteq Plain
      /\ RESERVED_KEYS \subseteq Plain /\ Consumed \subseteq Plain
  BY <1>0 DEF Ours, RESERVED_KEYS, Plain
<1>2. Layered(dict, keys, written)
  BY EventDictOf
<1>3. out = OtelAttributes(dict)
  OBVIOUS
<1> HIDE DEF dict, out, W
<1>4. /\ DOMAIN dict = ((Context \cup keys) \ Consumed) \cup W
      /\ \A k \in W : dict[k] = "structlog"
      /\ \A k \in keys \ (W \cup Consumed) : dict[k] = "call"
      /\ \A k \in Context \ (keys \cup W \cup Consumed) : dict[k] = "context"
  BY <1>2 DEF Layered, W
<1>5. kept \subseteq KeysOf(Keywords) \cup Context \cup Plain
  BY <1>1, <1>4
<1>6. \A j, k \in kept : Dotted(j) = Dotted(k) => j = k
  BY <1>5, DottedKeys
<1>7. kept = DOMAIN dict \ RESERVED_KEYS
  OBVIOUS
<1>8. Carries(out, dict)
  BY <1>3, <1>6, AttributesOf
<1> HIDE DEF kept
<1>9. /\ DOMAIN out = Mapped(kept) \cup over
      /\ \A a \in over : out[a] # "call"
  BY <1>8 DEF Carries, kept
<1>10. \A k \in kept : Dotted(k) \notin over => out[Dotted(k)] = dict[k]
  BY <1>8 DEF Carries, kept
<1>11. \A k \in kept : Dotted(k) \in Plain => Dotted(k) = k
  BY <1>5, DottedKeys
<1>12. ASSUME NEW k \in kept, dict[k] = "call"
       PROVE  k \in keys /\ k \notin W \cup RESERVED_KEYS \cup Consumed
  <2>1. k \notin W
    BY <1>4, <1>12
  <2>2. k \in (Context \cup keys) \ Consumed /\ k \notin RESERVED_KEYS
    BY <1>4, <1>7, <2>1
  <2>3. k \in keys
    BY <1>4, <1>12, <2>1, <2>2
  <2> QED
    BY <2>1, <2>2, <2>3
<1>13. ofCall \subseteq left
  <2> SUFFICES ASSUME NEW a \in ofCall PROVE a \in left
    OBVIOUS
  <2>1. a \in DOMAIN out /\ out[a] = "call" /\ a \notin over
    BY <1>9
  <2>2. PICK k \in kept : a = Dotted(k)
    BY <1>9, <2>1 DEF Mapped
  <2>3. dict[k] = "call"
    BY <1>10, <2>1, <2>2
  <2>4. k \in keys /\ k \notin W \cup RESERVED_KEYS \cup Consumed
    BY <1>12, <2>3
  <2>5. a \in Plain => a = k
    BY <1>11, <2>2
  <2>6. a \in Mapped(keys)
    BY <2>2, <2>4 DEF Mapped
  <2>7. a \notin RESERVED_KEYS \cup Consumed \cup written
    BY <1>1, <2>4, <2>5
  <2> QED
    BY <2>1, <2>6, <2>7
<1>14. left \subseteq ofCall
  <2> SUFFICES ASSUME NEW a \in left PROVE a \in ofCall
    OBVIOUS
  <2>1. PICK k \in keys : a = Dotted(k)
    BY DEF Mapped
  <2>2. k \in Plain => a = k
    BY <2>1, DottedKeys
  <2>3. k \notin RESERVED_KEYS \cup Consumed \cup written
    BY <1>1, <2>2
  <2>4. k \notin W
    BY <1>1, <2>3
  <2>5. k \in kept /\ dict[k] = "call"
    BY <1>4, <1>7, <2>3, <2>4
  <2>6. a \in DOMAIN out /\ out[a] = "call"
    BY <1>9, <1>10, <2>1, <2>5 DEF Mapped
  <2> QED
    BY <2>6
<1>15. DOMAIN out \ ofCall \subseteq Mapped(Context) \cup others
  <2> SUFFICES ASSUME NEW a \in DOMAIN out \ ofCall, a \notin over
               PROVE  a \in Mapped(Context) \cup written
    OBVIOUS
  <2>1. PICK k \in kept : a = Dotted(k)
    BY <1>9 DEF Mapped
  <2>2. dict[k] # "call"
    BY <1>10, <2>1
  <2>3. k \in Context \/ k \in W
    BY <1>4, <1>7, <2>2
  <2>4. CASE k \in Context
    BY <2>1, <2>4 DEF Mapped
  <2>5. CASE k \in W
    <3>1. k \in written /\ k \in Plain
      BY <1>1, <1>7, <2>5
    <3> QED
      BY <2>1, <3>1, DottedKeys
  <2> QED
    BY <2>3, <2>4, <2>5
<1>16. ofCall = left
  BY <1>13, <1>14
<1> QED
  BY <1>15, <1>16 DEF Arrives, out, dict

\* The keys of keywords: those that are listed, and those that have no name in
\* the source.
LEMMA KeywordsSplit ==
  /\ \A a, b : Attributes(a \cup b) = Attributes(a) \cup Attributes(b)
  /\ Attributes({}) = {}
  /\ \A ws : Attributes(Unseen(ws)) = {}
  /\ \A ws : Mapped(KeysOf(ws)) = Attributes(ws) \cup Mapped(KeysOf(ws \ Named(ws)))
  /\ \A ws \in SUBSET (Keywords \cup Unseen(Keywords)) :
        KeysOf(ws) \in SUBSET KeysOf(Keywords)
<1>1. \A a, b : Attributes(a \cup b) = Attributes(a) \cup Attributes(b)
  BY DEF Attributes, Mapped, KeysOf, Named
<1>2. Attributes({}) = {}
  BY DEF Attributes, Mapped, KeysOf, Named
<1>3. ASSUME NEW ws PROVE Attributes(Unseen(ws)) = {}
  <2>1. \A w \in Unseen(ws) : ~w.named
    BY DEF Unseen, Keyword
  <2>2. Named(Unseen(ws)) = {}
    BY <2>1 DEF Named
  <2> QED
    BY <2>2 DEF Attributes, Mapped, KeysOf
<1>4. ASSUME NEW ws
      PROVE  Mapped(KeysOf(ws)) = Attributes(ws) \cup Mapped(KeysOf(ws \ Named(ws)))
  BY DEF Attributes, Mapped, KeysOf, Named
<1>5. ASSUME NEW ws \in SUBSET (Keywords \cup Unseen(Keywords)), NEW w \in ws
      PROVE  w.key \in KeysOf(Keywords)
  <2>1. CASE w \in Keywords
    BY <2>1 DEF KeysOf
  <2>2. CASE w \in Unseen(Keywords)
    <3>1. PICK v \in Keywords : w = Keyword(v.key, FALSE)
      BY <2>2 DEF Unseen
    <3>2. w.key = v.key
      BY <3>1 DEF Keyword
    <3> QED
      BY <3>2 DEF KeysOf
  <2> QED
    BY <2>1, <2>2
<1>6. ASSUME NEW ws \in SUBSET (Keywords \cup Unseen(Keywords))
      PROVE  KeysOf(ws) \in SUBSET KeysOf(Keywords)
  <2> DEFINE all == KeysOf(Keywords)
  <2>1. \A w \in ws : w.key \in all
    BY <1>5
  <2> HIDE DEF all
  <2>2. KeysOf(ws) \subseteq all
    BY <2>1 DEF KeysOf
  <2> QED
    BY <2>2 DEF all
<1> QED
  BY <1>1, <1>2, <1>3, <1>4, <1>6

-----------------------------------------------------------------------------
(* The scopes that are open: counting them, and finding one.                 *)

\* How many of the first j frames are of these kinds.
Count(fs, kinds, j) == Cardinality({i \in 1 .. j : fs[i].kind \in kinds})

\* A count is a number that no more frames have than there are.
LEMMA Counting ==
  ASSUME NEW fs, NEW kinds, NEW j \in Nat
  PROVE  /\ Count(fs, kinds, 0) = 0
         /\ Count(fs, kinds, j) \in Nat /\ Count(fs, kinds, j) <= j
<1> DEFINE Members(l) == {i \in 1 .. l : fs[i].kind \in kinds}
<1>1. IsFiniteSet(1 .. j) /\ Cardinality(1 .. j) = j
  BY FS_Interval
<1>2. Members(j) \in SUBSET (1 .. j) /\ Members(0) = {}
  OBVIOUS
<1> HIDE DEF Members
<1>3. IsFiniteSet(Members(j)) /\ Cardinality(Members(j)) <= Cardinality(1 .. j)
  BY <1>1, <1>2, FS_Subset
<1>4. Cardinality(Members(j)) \in Nat
  BY <1>3, FS_CardinalityType
<1>5. Cardinality(Members(0)) = 0
  BY <1>2, FS_EmptySet
<1> QED
  BY <1>1, <1>3, <1>4, <1>5 DEF Count, Members

\* One more frame counts for one or for none.
LEMMA CountStep ==
  ASSUME NEW fs, NEW kinds, NEW j \in Nat
  PROVE  /\ fs[j + 1].kind \in kinds
               => Count(fs, kinds, j + 1) = Count(fs, kinds, j) + 1
         /\ fs[j + 1].kind \notin kinds
               => Count(fs, kinds, j + 1) = Count(fs, kinds, j)
<1> DEFINE Members(l) == {i \in 1 .. l : fs[i].kind \in kinds}
<1>1. IsFiniteSet(Members(j))
  <2>1. Members(j) \in SUBSET (1 .. j)
    OBVIOUS
  <2> HIDE DEF Members
  <2> QED
    BY <2>1, FS_Interval, FS_Subset
<1>2. ASSUME fs[j + 1].kind \in kinds
      PROVE  Cardinality(Members(j + 1)) = Cardinality(Members(j)) + 1
  <2>1. Members(j + 1) = Members(j) \cup {j + 1} /\ j + 1 \notin Members(j)
    BY <1>2
  <2> HIDE DEF Members
  <2> QED
    BY <1>1, <2>1, FS_AddElement
<1>3. ASSUME fs[j + 1].kind \notin kinds
      PROVE  Members(j + 1) = Members(j)
  BY <1>3
<1> QED
  BY <1>2, <1>3 DEF Count

\* A count of more frames is no smaller, and as large only if none of those
\* that came are of the kinds.
LEMMA CountGrows ==
  ASSUME NEW fs, NEW kinds, NEW i \in Nat, NEW j \in Nat, i <= j
  PROVE  /\ Count(fs, kinds, i) <= Count(fs, kinds, j)
         /\ Count(fs, kinds, i) = Count(fs, kinds, j) <=>
               \A k \in i + 1 .. j : fs[k].kind \notin kinds
<1> DEFINE Members(l) == {k \in 1 .. l : fs[k].kind \in kinds}
<1>1. Members(i) \in SUBSET Members(j) /\ Members(j) \in SUBSET (1 .. j)
  OBVIOUS
<1>2. Members(i) = Members(j) <=> \A k \in i + 1 .. j : fs[k].kind \notin kinds
  <2>1. ASSUME Members(i) = Members(j), NEW k \in i + 1 .. j, fs[k].kind \in kinds
        PROVE  FALSE
    <3>1. k \in Members(j) /\ k \notin Members(i)
      BY <2>1
    <3> QED
      BY <2>1, <3>1
  <2>2. ASSUME \A k \in i + 1 .. j : fs[k].kind \notin kinds
        PROVE  Members(i) = Members(j)
    <3>1. \A k \in 1 .. j : k \in 1 .. i \/ k \in i + 1 .. j
      OBVIOUS
    <3> QED
      BY <1>1, <2>2, <3>1
  <2> QED
    BY <2>1, <2>2
<1> HIDE DEF Members
<1>3. IsFiniteSet(Members(j))
  BY <1>1, FS_Interval, FS_Subset
<1>4. /\ Cardinality(Members(i)) <= Cardinality(Members(j))
      /\ Cardinality(Members(j)) = Cardinality(Members(i)) => Members(j) = Members(i)
  BY <1>1, <1>3, FS_Subset
<1> QED
  BY <1>2, <1>4 DEF Count, Members

\* Frames of the same kinds count the same.
LEMMA CountSame ==
  ASSUME NEW fs, NEW gs, NEW kinds, NEW j \in Nat,
         \A i \in 1 .. j : gs[i].kind = fs[i].kind
  PROVE  Count(gs, kinds, j) = Count(fs, kinds, j)
<1>1. {i \in 1 .. j : gs[i].kind \in kinds} = {i \in 1 .. j : fs[i].kind \in kinds}
  OBVIOUS
<1> QED
  BY <1>1 DEF Count

\* Some of the numbers up to a bound have a least and a greatest.
LEMMA LeastAndGreatest ==
  ASSUME NEW n \in Nat, NEW some \in SUBSET (1 .. n), some # {}
  PROVE  /\ \E k \in some : \A i \in some : k <= i
         /\ \E k \in some : \A i \in some : i <= k
<1>1. IsWellFoundedOn(OpToRel(<, Nat), Nat)
  BY NatLessThanWellFounded
<1>2. \E k \in some : \A i \in some : k <= i
  <2>1. PICK k \in some : \A i \in some : <<i, k>> \notin OpToRel(<, Nat)
    <3>1. some \subseteq Nat
      OBVIOUS
    <3> QED
      BY <1>1, <3>1, WFMin, Zenon
  <2>2. ASSUME NEW i \in some PROVE ~(i < k)
    <3>1. <<i, k>> \in Nat \X Nat /\ <<i, k>>[1] = i /\ <<i, k>>[2] = k
      OBVIOUS
    <3> QED
      BY <2>1, <3>1 DEF OpToRel
  <2> QED
    BY <2>2
<1>3. \E k \in some : \A i \in some : i <= k
  <2> DEFINE back == {n - i : i \in some}
  <2>1. PICK k \in back : \A i \in back : <<i, k>> \notin OpToRel(<, Nat)
    <3>1. back \subseteq Nat
      OBVIOUS
    <3>2. back # {}
      OBVIOUS
    <3> HIDE DEF back
    <3> QED
      BY <1>1, <3>1, <3>2, WFMin, Zenon
  <2>2. back \subseteq Nat
    OBVIOUS
  <2> HIDE DEF back
  <2>3. ASSUME NEW i \in back PROVE ~(i < k)
    <3>1. <<i, k>> \in Nat \X Nat /\ <<i, k>>[1] = i /\ <<i, k>>[2] = k
      BY <2>2
    <3> QED
      BY <2>1, <3>1 DEF OpToRel
  <2>4. PICK l \in some : k = n - l
    BY DEF back
  <2>5. ASSUME NEW i \in some PROVE i <= l
    <3>1. n - i \in back
      BY DEF back
    <3>2. ~(n - i < n - l)
      BY <2>3, <2>4, <3>1
    <3>3. i \in Nat /\ l \in Nat
      OBVIOUS
    <3> QED
      BY <3>2, <3>3
  <2> QED
    BY <2>5
<1> QED
  BY <1>2, <1>3

-----------------------------------------------------------------------------
(* What the visitor's scopes have to do with Python's.                       *)

\* A tracked scope has the logger's attributes, dotted, and its name if that
\* was given.
Matches(scope, logger) ==
    /\ scope # None
    /\ scope.attrs = Attributes(logger.attrs)
    /\ logger.explicit => scope.domain = logger.domain

\* What the visitor has of a class's accessor.
Agrees(scope, accessor) ==
    IF accessor = None THEN scope = None
    ELSE accessor.intact => Matches(scope, accessor.logger)

\* Frame h holds n for what is executed in frame l, and no frame from h to l has
\* lost track of it.  Of the class bodies only that of frame `body` is a scope.
Tracked(fs, h, l, body, n) ==
    /\ fs[h].vars[n] # None
    /\ fs[h].kind # "class" \/ h = body
    /\ \A j \in h + 1 .. l :
          fs[j].vars[n] = None \/ (fs[j].kind = "class" /\ j # body)
    /\ \A j \in h .. l : n \notin fs[j].lost

\* The scope of a frame in the visitor's stack, and its class in the other.
Running == {"module", "function"}
ScopeAt(fs, j) == Count(fs, Running, j)
ClassAt(fs, j) == Count(fs, {"class"}, j)

\* The visitor has a scope for the module and each function, and a class for
\* each class.
Layout(fs, ss, cs) ==
    /\ fs[1].kind = "module"
    /\ \A j \in 2 .. Len(fs) : fs[j].kind # "module"
    /\ Len(ss) = ScopeAt(fs, Len(fs)) /\ Len(cs) = ClassAt(fs, Len(fs))

ScopesFollow(fs, ss) ==
    \A l \in 1 .. Len(fs), n \in Name : \A body \in {0, l}, h \in 1 .. l :
       Tracked(fs, h, l, body, n)
          => Matches(ss[ScopeAt(fs, l)][n], fs[h].vars[n])

ClassesFollow(fs, cs) ==
    \A j \in 1 .. Len(fs) :
       fs[j].kind = "class" => Agrees(cs[ClassAt(fs, j)], fs[j].accessor)

Follows(fs, ss, cs) == Layout(fs, ss, cs) /\ ScopesFollow(fs, ss) /\ ClassesFollow(fs, cs)

KnownFollow ==
    \A c \in Class : defined[c] # None => Agrees(known[c], defined[c].accessor)

\* The inductive invariant: at any depth, what the visitor would find is what
\* Python has, as long as the visitor's claims to follow it hold.
VisitInv ==
    /\ ScannerTypeOK
    /\ Follows(frames, scopes, classes) /\ KnownFollow
    /\ CatalogueMatchesTelemetry

\* Binding on both sides keeps types and the match.
LEMMA Binding ==
  ASSUME NEW scope \in Scopes \cup {None}, NEW logger \in Loggers,
         NEW keys \in BindKeys
  PROVE  /\ Chained(scope, keys) \in Scopes \cup {None}
         /\ Bound(logger, keys) \in Loggers
         /\ Matches(scope, logger) => Matches(Chained(scope, keys), Bound(logger, keys))
<1>1. keys \in SUBSET Keywords
  BY DEF Keywords
<1>2. \A a, b : Attributes(a \cup b) = Attributes(a) \cup Attributes(b)
  BY KeywordsSplit
<1>3. Attributes(keys) \in SUBSET Attributes(Keywords)
  <2>1. keys \cup Keywords = Keywords
    BY <1>1
  <2> QED
    BY <1>2, <2>1
<1>4. /\ Bound(logger, keys) \in Loggers
      /\ Bound(logger, keys).attrs = logger.attrs \cup keys
      /\ Bound(logger, keys).domain = logger.domain
      /\ Bound(logger, keys).explicit = logger.explicit
  BY <1>1 DEF Bound, Loggers
<1>5. CASE scope = None
  BY <1>4, <1>5 DEF Chained, Matches
<1>6. CASE scope # None
  <2>1. /\ Chained(scope, keys) \in Scopes
        /\ Chained(scope, keys).attrs = scope.attrs \cup Attributes(keys)
        /\ Chained(scope, keys).domain = scope.domain
    BY <1>3, <1>6 DEF Chained, Scope, Scopes
  <2>2. Chained(scope, keys) # None
    BY <2>1, NoneAssumption
  <2> QED
    BY <1>2, <1>4, <2>1, <2>2 DEF Matches
<1> QED
  BY <1>5, <1>6

\* The first that is something, of at most two.
LEMMA FirstOf ==
  ASSUME NEW bases \in Bases, NEW seq, DOMAIN seq = DOMAIN bases
  PROVE  \/ First(seq) = None /\ \A k \in DOMAIN bases : seq[k] = None
         \/ \E k \in DOMAIN bases :
               /\ First(seq) = seq[k] /\ seq[k] # None
               /\ \A i \in DOMAIN bases : i < k => seq[i] = None
<1> DEFINE some == {k \in DOMAIN seq : seq[k] # None}
<1>1. PICK m \in Nat : DOMAIN bases = 1 .. m
  <2>1. \/ bases = << >> \/ bases \in [1 .. 1 -> Class] \/ bases \in [1 .. 2 -> Class]
    BY DEF Bases
  <2>2. bases = << >> => DOMAIN bases = 1 .. 0
    OBVIOUS
  <2> QED
    BY <2>1, <2>2
<1>2. CASE some = {}
  BY <1>2 DEF First
<1>3. CASE some # {}
  <2>1. some \in SUBSET (1 .. m)
    BY <1>1
  <2>2. First(seq) = seq[CHOOSE k \in some : \A i \in some : k <= i]
    BY <1>3 DEF First
  <2>3. /\ \A k \in some : k \in DOMAIN bases /\ seq[k] # None
        /\ \A i \in DOMAIN bases : seq[i] = None \/ i \in some
    OBVIOUS
  <2> HIDE DEF some
  <2>4. \E k \in some : \A i \in some : k <= i
    BY <1>3, <2>1, LeastAndGreatest
  <2>5. PICK k \in some : First(seq) = seq[k] /\ \A i \in some : k <= i
    BY <2>2, <2>4
  <2>6. \A i \in DOMAIN bases : i < k => seq[i] = None
    BY <1>1, <2>1, <2>3, <2>5
  <2> QED
    BY <2>3, <2>5, <2>6
<1> QED
  BY <1>2, <1>3

\* The body that a reader sees: that of the innermost frame, or none.
Visible(inMethod) == IF inMethod THEN 0 ELSE Top

\* An intact name is tracked in its holder.
LEMMA Held ==
  ASSUME ScannerTypeOK, NEW n \in Name, NEW inMethod, NEW h, h = Holder(n, inMethod),
         h > 0
  PROVE  /\ h \in 1 .. Top
         /\ frames[h].vars[n] # None
         /\ Intact(n, inMethod) => Tracked(frames, h, Top, Visible(inMethod), n)
<1> DEFINE Sees(j) == frames[j].kind # "class" \/ (j = Top /\ ~inMethod)
           has == {j \in DOMAIN frames : frames[j].vars[n] # None /\ Sees(j)}
<1>1. DOMAIN frames = 1 .. Top /\ Top \in Nat
  BY DEF ScannerTypeOK, Top
<1>2. h = IF has = {} THEN 0 ELSE CHOOSE j \in has : \A i \in has : i <= j
  BY DEF Holder
<1>3. /\ has \in SUBSET (1 .. Top)
      /\ \A j \in has : frames[j].vars[n] # None /\ Sees(j)
      /\ \A j \in 1 .. Top : frames[j].vars[n] = None \/ ~Sees(j) \/ j \in has
  BY <1>1
<1>4. \A j \in 1 .. Top : Sees(j) <=> frames[j].kind # "class" \/ j = Visible(inMethod)
  BY <1>1 DEF Visible
<1> HIDE DEF Sees, has
<1>5. has # {}
  BY <1>2
<1>6. \E j \in has : \A i \in has : i <= j
  BY <1>1, <1>3, <1>5, LeastAndGreatest
<1>7. h \in has /\ \A i \in has : i <= h
  BY <1>2, <1>5, <1>6
<1>8. \A j \in h + 1 .. Top : frames[j].vars[n] = None \/ ~Sees(j)
  BY <1>1, <1>3, <1>7
<1>9. ASSUME Intact(n, inMethod) PROVE Tracked(frames, h, Top, Visible(inMethod), n)
  <2>1. \A j \in h .. Top : n \notin frames[j].lost
    BY <1>9 DEF Intact
  <2>2. h \in 1 .. Top
    BY <1>3, <1>7
  <2>3. frames[h].kind # "class" \/ h = Visible(inMethod)
    BY <1>3, <1>4, <1>7, <2>2
  <2>4. \A j \in h + 1 .. Top :
           frames[j].vars[n] = None \/ (frames[j].kind = "class" /\ j # Visible(inMethod))
    BY <1>1, <1>4, <1>8, <2>2
  <2> QED
    BY <1>3, <1>7, <2>1, <2>3, <2>4 DEF Tracked
<1> QED
  BY <1>3, <1>7, <1>9

\* What Python reads is a logger; what the visitor reads matches, if the name
\* is intact.
LEMMA LookedUp ==
  ASSUME ScannerTypeOK, Follows(frames, scopes, classes),
         NEW n \in Name, NEW inMethod, Evaluable(n, inMethod),
         NEW keys \in BindKeys
  PROVE  /\ Chained(Last(scopes)[n], keys) \in Scopes \cup {None}
         /\ Evaluate(n, inMethod, keys) \in Loggers
         /\ Intact(n, inMethod)
               => Matches(Chained(Last(scopes)[n], keys), Evaluate(n, inMethod, keys))
<1> DEFINE h == Holder(n, inMethod)
           logger == frames[h].vars[n]
<1>1. h > 0
  BY DEF Evaluable
<1>2. h = Holder(n, inMethod) /\ Evaluate(n, inMethod, keys) = Bound(logger, keys)
  BY DEF Evaluate
<1> HIDE DEF h
<1>3. /\ h \in 1 .. Top
      /\ frames[h].vars[n] # None
      /\ Intact(n, inMethod) => Tracked(frames, h, Top, Visible(inMethod), n)
  BY <1>1, <1>2, Held
<1>4. Top = Len(frames) /\ Top \in Nat \ {0} /\ frames \in Seq(Frames)
  BY BoundAssumption DEF ScannerTypeOK, Top
<1>5. logger \in Loggers
  <2>1. frames[h] \in Frames
    BY <1>3, <1>4
  <2> QED
    BY <1>3, <2>1 DEF Frames
<1>6. Len(scopes) = ScopeAt(frames, Top) /\ Len(scopes) \in Nat \ {0}
  <2>1. frames[1].kind \in Running
    BY DEF Follows, Layout, Running
  <2>2. Count(frames, Running, 0) = 0 /\ Count(frames, Running, Top) \in Nat
    BY <1>4, Counting
  <2>3. Count(frames, Running, 0) = Count(frames, Running, Top) <=>
           \A k \in 0 + 1 .. Top : frames[k].kind \notin Running
    BY <1>4, CountGrows
  <2>4. 1 \in 0 + 1 .. Top
    BY <1>4
  <2> QED
    BY <1>4, <2>1, <2>2, <2>3, <2>4 DEF Follows, Layout, ScopeAt
<1>7. Last(scopes) = scopes[ScopeAt(frames, Top)] /\ Last(scopes) \in [Name -> Scopes \cup {None}]
  BY <1>6 DEF Last, ScannerTypeOK
<1>8. Visible(inMethod) \in {0, Top}
  BY DEF Visible
<1>9. ASSUME Intact(n, inMethod) PROVE Matches(Last(scopes)[n], logger)
  BY <1>3, <1>4, <1>7, <1>8, <1>9 DEF Follows, ScopesFollow
<1>10. Last(scopes)[n] \in Scopes \cup {None}
  BY <1>7
<1> HIDE DEF logger
<1> QED
  BY <1>2, <1>5, <1>9, <1>10, Binding

\* Whatever method and bases a class has, the visitor's scope for it agrees
\* with the accessor that Python finds.
LEMMA ClassAgrees ==
  ASSUME ScannerTypeOK, Follows(frames, scopes, classes), KnownFollow,
         NEW bases \in Bases, \A k \in DOMAIN bases : defined[bases[k]] # None,
         NEW own \in {None, Opaque} \cup Target(Name),
         own \notin {None, Opaque} => Evaluable(own.base, TRUE),
         NEW scope, scope = ClassScope(own, bases),
         NEW real, real = OwnOrInherited(own, bases)
  PROVE  scope \in Scopes \cup {None} /\ real \in Accessors \cup {None}
           /\ Agrees(scope, real)
<1> DEFINE seen == [k \in DOMAIN bases |-> known[bases[k]]]
           had  == [k \in DOMAIN bases |-> defined[bases[k]].accessor]
<1>1. DOMAIN bases \subseteq Nat /\ \A k \in DOMAIN bases : bases[k] \in Class
  BY DEF Bases
<1>2. ASSUME NEW k \in DOMAIN bases
      PROVE  /\ seen[k] \in Scopes \cup {None} /\ had[k] \in Accessors \cup {None}
             /\ Agrees(seen[k], had[k])
  <2>1. bases[k] \in Class /\ defined[bases[k]] # None
    BY <1>1
  <2>2. known[bases[k]] \in Scopes \cup {None}
    BY <2>1 DEF ScannerTypeOK
  <2>3. defined[bases[k]].accessor \in Accessors \cup {None}
    <3> DEFINE Known == [accessor : Accessors \cup {None}, bases : SUBSET Class]
    <3>1. defined \in [Class -> {None} \cup Known]
      BY DEF ScannerTypeOK
    <3>2. \A d \in Known : d.accessor \in Accessors \cup {None}
      OBVIOUS
    <3> HIDE DEF Known
    <3> QED
      BY <2>1, <3>1, <3>2
  <2>4. Agrees(known[bases[k]], defined[bases[k]].accessor)
    BY <2>1 DEF KnownFollow
  <2> QED
    BY <2>2, <2>3, <2>4
<1>3. DOMAIN seen = DOMAIN bases /\ DOMAIN had = DOMAIN bases
  OBVIOUS
<1>4. None # Opaque /\ None \notin Scopes /\ None \notin Accessors
  BY NoneAssumption
<1>5. CASE own = None
  <2>1. scope = First(seen) /\ real = First(had)
    <3>1. scope = First(seen)
      BY <1>5 DEF ClassScope
    <3>2. real = First(had)
      BY <1>4, <1>5 DEF OwnOrInherited
    <3> QED
      BY <3>1, <3>2
  <2> HIDE DEF seen, had
  <2>2. \/ First(seen) = None /\ \A k \in DOMAIN bases : seen[k] = None
        \/ \E k \in DOMAIN bases :
              /\ First(seen) = seen[k] /\ seen[k] # None
              /\ \A i \in DOMAIN bases : i < k => seen[i] = None
    BY <1>3, FirstOf
  <2>3. \/ First(had) = None /\ \A k \in DOMAIN bases : had[k] = None
        \/ \E k \in DOMAIN bases :
              /\ First(had) = had[k] /\ had[k] # None
              /\ \A i \in DOMAIN bases : i < k => had[i] = None
    BY <1>3, FirstOf
  <2>4. scope \in Scopes \cup {None} /\ real \in Accessors \cup {None}
    BY <1>2, <2>1, <2>2, <2>3
  <2>5. CASE First(had) = None /\ \A k \in DOMAIN bases : had[k] = None
    <3>1. \A k \in DOMAIN bases : seen[k] = None
      BY <1>2, <2>5 DEF Agrees
    <3> QED
      BY <2>1, <2>2, <2>4, <2>5, <3>1 DEF Agrees
  <2>6. ASSUME NEW k \in DOMAIN bases, First(had) = had[k], had[k] # None,
               \A i \in DOMAIN bases : i < k => had[i] = None, had[k].intact
        PROVE  Matches(First(seen), had[k].logger)
    <3>1. \A i \in DOMAIN bases : i < k => seen[i] = None
      BY <1>2, <2>6 DEF Agrees
    <3>2. Matches(seen[k], had[k].logger)
      BY <1>2, <2>6 DEF Agrees
    <3>3. seen[k] # None
      BY <3>2 DEF Matches
    <3>4. First(seen) = seen[k]
      BY <1>1, <2>2, <3>1, <3>3
    <3> QED
      BY <3>2, <3>4
  <2>7. CASE \E k \in DOMAIN bases :
              /\ First(had) = had[k] /\ had[k] # None
              /\ \A i \in DOMAIN bases : i < k => had[i] = None
    BY <2>1, <2>4, <2>6, <2>7 DEF Agrees
  <2> QED
    BY <2>3, <2>5, <2>7
<1>6. First(seen) \in Scopes \cup {None}
  <2> HIDE DEF seen
  <2> QED
    BY <1>2, <1>3, FirstOf
<1>7. CASE own = Opaque
  <2>1. scope = First(seen) /\ real = Accessor(Elsewhere, FALSE)
    BY <1>4, <1>7 DEF ClassScope, OwnOrInherited
  <2>2. real \in Accessors /\ real.intact = FALSE
    BY <2>1 DEF Accessor, Accessors, Elsewhere, Logger, Loggers
  <2> QED
    BY <1>4, <1>6, <2>1, <2>2 DEF Agrees
<1>8. CASE own \notin {None, Opaque}
  <2> DEFINE mine   == Chained(Last(scopes)[own.base], own.chain)
             logger == Evaluate(own.base, TRUE, own.chain)
             intact == Intact(own.base, TRUE)
  <2>1. own.base \in Name /\ own.chain \in BindKeys /\ own.base # "self"
    BY <1>8, NameAssumption DEF Target
  <2>2. scope = IF mine # None THEN mine ELSE First(seen)
    BY <1>8, <2>1 DEF ClassScope, ScopeForEmitTarget
  <2>3. real = Accessor(logger, intact)
    BY <1>8 DEF OwnOrInherited
  <2>4. intact \in BOOLEAN
    BY DEF Intact
  <2>5. /\ mine \in Scopes \cup {None} /\ logger \in Loggers
        /\ intact => Matches(mine, logger)
    BY <1>8, <2>1, LookedUp
  <2> HIDE DEF mine, logger, intact, seen
  <2>7. real \in Accessors /\ real.logger = logger /\ (real.intact <=> intact)
    BY <2>3, <2>4, <2>5 DEF Accessor, Accessors
  <2>8. intact => scope = mine
    BY <2>2, <2>5 DEF Matches
  <2> QED
    BY <1>4, <1>6, <2>2, <2>5, <2>7, <2>8 DEF Agrees
<1> QED
  BY <1>5, <1>7, <1>8

-----------------------------------------------------------------------------
(* What the steps leave alone.                                               *)

\* The first l frames are the same but for what is barred.
Same(fs, gs, l) ==
    \A j \in 1 .. l :
       /\ gs[j].kind = fs[j].kind /\ gs[j].accessor = fs[j].accessor
       /\ gs[j].vars = fs[j].vars /\ gs[j].lost = fs[j].lost

\* Then they have the same places in the visitor's stacks, and track the same.
LEMMA SameScopes ==
  ASSUME NEW fs, NEW gs, NEW l \in Nat, Same(fs, gs, l)
  PROVE  /\ ScopeAt(gs, l) = ScopeAt(fs, l) /\ ClassAt(gs, l) = ClassAt(fs, l)
         /\ \A n \in Name, h \in 1 .. l, body \in {0, l} :
               Tracked(gs, h, l, body, n) <=> Tracked(fs, h, l, body, n)
<1>1. \A j \in 1 .. l : gs[j].kind = fs[j].kind
  BY DEF Same
<1>2. ScopeAt(gs, l) = ScopeAt(fs, l) /\ ClassAt(gs, l) = ClassAt(fs, l)
  BY <1>1, CountSame DEF ScopeAt, ClassAt
<1>3. ASSUME NEW n \in Name, NEW h \in 1 .. l, NEW body \in {0, l}
      PROVE  Tracked(gs, h, l, body, n) <=> Tracked(fs, h, l, body, n)
  <2>1. \A j \in h .. l : j \in 1 .. l
    OBVIOUS
  <2>2. \A j \in h + 1 .. l : j \in 1 .. l
    OBVIOUS
  <2> QED
    BY <2>1, <2>2 DEF Tracked, Same
<1> QED
  BY <1>2, <1>3

\* Reading bars a name, and changes nothing else.
LEMMA ReadingBars ==
  ASSUME ScannerTypeOK, NEW n \in Name, NEW inMethod
  PROVE  /\ Reading(n, inMethod) \in Seq(Frames)
         /\ Len(Reading(n, inMethod)) = Top
         /\ Same(frames, Reading(n, inMethod), Top)
<1> DEFINE bars(j) == \/ j > Holder(n, inMethod) /\ frames[j].kind = "function"
                      \/ /\ j = Holder(n, inMethod)
                         /\ \/ inMethod
                            \/ \E i \in Holder(n, inMethod) + 1 .. Top :
                                  frames[i].kind = "function"
           read == [j \in DOMAIN frames |->
                      IF bars(j) THEN [frames[j] EXCEPT !.barred = @ \cup {n}]
                      ELSE frames[j]]
<1>1. Reading(n, inMethod) = read
  BY DEF Reading
<1>2. frames \in Seq(Frames) /\ Len(frames) = Top /\ DOMAIN frames = 1 .. Top
      /\ Top \in Nat
  BY DEF ScannerTypeOK, Top
<1> HIDE DEF bars
<1>3. ASSUME NEW j \in 1 .. Top
      PROVE  /\ read[j] \in Frames
             /\ read[j].kind = frames[j].kind /\ read[j].accessor = frames[j].accessor
             /\ read[j].vars = frames[j].vars /\ read[j].lost = frames[j].lost
  <2>1. frames[j] \in Frames
    BY <1>2
  <2>2. read[j] = [frames[j] EXCEPT !.barred = @ \cup {n}] \/ read[j] = frames[j]
    BY <1>2
  <2> HIDE DEF read
  <2>3. CASE read[j] = frames[j]
    BY <2>1, <2>3
  <2>4. CASE read[j] = [frames[j] EXCEPT !.barred = @ \cup {n}]
    BY <2>1, <2>4 DEF Frames
  <2> QED
    BY <2>2, <2>3, <2>4
<1>4. DOMAIN read = 1 .. Top
  BY <1>2
<1>5. read = [j \in 1 .. Top |-> read[j]]
  BY <1>2
<1> HIDE DEF read
<1>6. read \in Seq(Frames) /\ Len(read) = Top
  BY <1>2, <1>3, <1>4, <1>5
<1> QED
  BY <1>1, <1>3, <1>6 DEF Same

\* Where no assignment is made, the invariant's parts about scopes stay.
LEMMA SameKeeps ==
  ASSUME NEW fs, NEW gs, NEW ss, NEW cs, Len(fs) \in Nat \ {0}, Len(gs) = Len(fs),
         Same(fs, gs, Len(fs)), Follows(fs, ss, cs)
  PROVE  Follows(gs, ss, cs)
<1>1. \A l \in 1 .. Len(fs) : Same(fs, gs, l)
  BY DEF Same
<1>2. Layout(gs, ss, cs)
  <2>1. \A j \in 1 .. Len(fs) : gs[j].kind = fs[j].kind
    BY DEF Same
  <2>2. ScopeAt(gs, Len(fs)) = ScopeAt(fs, Len(fs))
        /\ ClassAt(gs, Len(fs)) = ClassAt(fs, Len(fs))
    BY SameScopes
  <2> QED
    BY <2>1, <2>2 DEF Follows, Layout
<1>3. ScopesFollow(gs, ss)
  <2> SUFFICES ASSUME NEW l \in 1 .. Len(fs), NEW n \in Name, NEW body \in {0, l},
                      NEW h \in 1 .. l, Tracked(gs, h, l, body, n)
               PROVE  Matches(ss[ScopeAt(gs, l)][n], gs[h].vars[n])
    BY DEF Follows, ScopesFollow
  <2>1. ScopeAt(gs, l) = ScopeAt(fs, l) /\ Tracked(fs, h, l, body, n)
    BY <1>1, SameScopes
  <2>2. gs[h].vars = fs[h].vars
    BY DEF Same
  <2>3. Matches(ss[ScopeAt(fs, l)][n], fs[h].vars[n])
    BY <2>1 DEF Follows, ScopesFollow
  <2> QED
    BY <2>1, <2>2, <2>3
<1>4. ClassesFollow(gs, cs)
  <2> SUFFICES ASSUME NEW l \in 1 .. Len(fs), gs[l].kind = "class"
               PROVE  Agrees(cs[ClassAt(gs, l)], gs[l].accessor)
    BY DEF Follows, ClassesFollow
  <2>1. ClassAt(gs, l) = ClassAt(fs, l)
    BY <1>1, SameScopes
  <2>2. gs[l].kind = fs[l].kind /\ gs[l].accessor = fs[l].accessor
    BY DEF Same
  <2> QED
    BY <2>1, <2>2 DEF Follows, ClassesFollow
<1> QED
  BY <1>2, <1>3, <1>4 DEF Follows

-----------------------------------------------------------------------------
(* Calls.                                                                    *)

\* `self` is of the innermost class, which is the last on the visitor's stack.
LEMMA SelfAgrees ==
  ASSUME ScannerTypeOK, Follows(frames, scopes, classes), HasAccessor
  PROVE  /\ Self \in Accessors
         /\ classes # << >> /\ Last(classes) \in Scopes \cup {None}
         /\ Self.intact => Matches(Last(classes), Self.logger)
<1> DEFINE cs == {j \in DOMAIN frames : frames[j].kind = "class"}
           c  == InnermostClass
<1>1. frames \in Seq(Frames) /\ DOMAIN frames = 1 .. Top /\ Top \in Nat /\ Top = Len(frames)
  BY DEF ScannerTypeOK, Top
<1>2. c = IF cs = {} THEN 0 ELSE CHOOSE j \in cs : \A i \in cs : i <= j
  BY DEF InnermostClass
<1>3. c \in 1 .. Top - 1 /\ frames[c].accessor # None /\ Self = frames[c].accessor
  BY DEF HasAccessor, Self
<1>4. cs \in SUBSET (1 .. Top) /\ \A j \in 1 .. Top : frames[j].kind = "class" <=> j \in cs
  BY <1>1
<1> HIDE DEF cs, c
<1>5. cs # {}
  BY <1>2, <1>3
<1>6. \E j \in cs : \A i \in cs : i <= j
  BY <1>1, <1>4, <1>5, LeastAndGreatest
<1>7. c \in cs /\ \A i \in cs : i <= c
  BY <1>2, <1>5, <1>6
<1>8. /\ c \in Nat /\ c <= Top /\ frames[c].kind = "class"
      /\ \A j \in c + 1 .. Top : frames[j].kind \notin {"class"}
  BY <1>1, <1>3, <1>4, <1>7
<1>9. Count(frames, {"class"}, c) = Count(frames, {"class"}, Top)
  BY <1>1, <1>8, CountGrows
<1>10. Count(frames, {"class"}, c) \in Nat \ {0}
  <2>1. Count(frames, {"class"}, 0) = 0 /\ Count(frames, {"class"}, c) \in Nat
    BY <1>8, Counting
  <2>2. Count(frames, {"class"}, 0) = Count(frames, {"class"}, c) <=>
           \A k \in 0 + 1 .. c : frames[k].kind \notin {"class"}
    BY <1>3, <1>8, CountGrows
  <2>3. c \in 0 + 1 .. c
    BY <1>3
  <2> QED
    BY <1>8, <2>1, <2>2, <2>3
<1>11. ClassAt(frames, c) = Len(classes) /\ Len(classes) \in Nat \ {0}
  BY <1>1, <1>9, <1>10 DEF Follows, Layout, ClassAt
<1>12. Last(classes) = classes[ClassAt(frames, c)] /\ Last(classes) \in Scopes \cup {None}
        /\ classes # << >>
  BY <1>11 DEF Last, ScannerTypeOK
<1>13. Agrees(Last(classes), Self)
  BY <1>1, <1>3, <1>8, <1>12 DEF Follows, ClassesFollow
<1>14. Self \in Accessors
  <2>1. frames[c] \in Frames
    BY <1>1, <1>3
  <2> QED
    BY <1>3, <2>1 DEF Frames
<1> QED
  BY <1>3, <1>12, <1>13, <1>14 DEF Agrees

\* The target of a call, as the visitor and as Python have it.
Called(target) ==
    IF target.base = "self" THEN Bound(Self.logger, target.chain)
    ELSE Evaluate(target.base, FALSE, target.chain)
FollowedTo(target) ==
    IF target.base = "self" THEN Self.intact ELSE Intact(target.base, FALSE)

\* The two match if the visitor claims to follow it.
LEMMA TargetMatches ==
  ASSUME ScannerTypeOK, Follows(frames, scopes, classes),
         NEW target \in Target(Name \cup {"self"}),
         IF target.base = "self" THEN HasAccessor ELSE Evaluable(target.base, FALSE)
  PROVE  /\ ScopeForEmitTarget(target) \in Scopes \cup {None}
         /\ Called(target) \in Loggers /\ FollowedTo(target) \in BOOLEAN
         /\ FollowedTo(target) => Matches(ScopeForEmitTarget(target), Called(target))
<1>1. target.chain \in BindKeys /\ target.base \in Name \cup {"self"}
  BY DEF Target
<1>2. CASE target.base = "self"
  <2> DEFINE scope == Last(classes)
             logger == Self.logger
  <2>1. /\ Self \in Accessors
        /\ classes # << >> /\ scope \in Scopes \cup {None}
        /\ Self.intact => Matches(scope, logger)
    BY <1>2, SelfAgrees
  <2>2. logger \in Loggers /\ Self.intact \in BOOLEAN
    BY <2>1 DEF Accessors
  <2>3. ScopeForEmitTarget(target) = Chained(scope, target.chain)
    BY <1>2, <2>1 DEF ScopeForEmitTarget
  <2>4. Called(target) = Bound(logger, target.chain) /\ FollowedTo(target) = Self.intact
    BY <1>2 DEF Called, FollowedTo
  <2> HIDE DEF scope, logger
  <2>5. /\ Chained(scope, target.chain) \in Scopes \cup {None}
        /\ Bound(logger, target.chain) \in Loggers
        /\ Matches(scope, logger)
              => Matches(Chained(scope, target.chain), Bound(logger, target.chain))
    BY <1>1, <2>1, <2>2, Binding
  <2>6. Self.intact => Matches(Chained(scope, target.chain), Bound(logger, target.chain))
    BY <2>1, <2>5
  <2>7. FollowedTo(target) \in BOOLEAN
    BY <2>2, <2>4
  <2>8. FollowedTo(target) => Matches(ScopeForEmitTarget(target), Called(target))
    BY <2>3, <2>4, <2>6
  <2> QED
    BY <2>3, <2>4, <2>5, <2>7, <2>8
<1>3. CASE target.base # "self"
  <2>1. target.base \in Name /\ Evaluable(target.base, FALSE)
    BY <1>1, <1>3
  <2>2. /\ ScopeForEmitTarget(target) = Chained(Last(scopes)[target.base], target.chain)
        /\ Called(target) = Evaluate(target.base, FALSE, target.chain)
        /\ FollowedTo(target) <=> Intact(target.base, FALSE)
    BY <1>3 DEF ScopeForEmitTarget, Called, FollowedTo
  <2>3. FollowedTo(target) \in BOOLEAN
    BY <1>3 DEF FollowedTo, Intact
  <2>4. /\ Chained(Last(scopes)[target.base], target.chain) \in Scopes \cup {None}
        /\ Evaluate(target.base, FALSE, target.chain) \in Loggers
        /\ Intact(target.base, FALSE)
              => Matches(Chained(Last(scopes)[target.base], target.chain),
                         Evaluate(target.base, FALSE, target.chain))
    BY <1>1, <2>1, LookedUp
  <2> QED
    BY <2>2, <2>3, <2>4
<1> QED
  BY <1>2, <1>3

\* An entry is what arrives of a call.
Delivered(entry, logger, args, kwargs) ==
    LET given  == logger.attrs \cup kwargs
        unseen == Mapped(KeysOf(given \ Named(given)))
    IN  /\ entry # None
        /\ logger.explicit /\ ~args
              => entry.name = GetOtelEventName(logger.domain, Body(args))
        /\ \A written \in Written(KeysOf(given)) :
              LET out    == OtelAttributes(EventDict(KeysOf(given), written))
                  ofCall == {a \in DOMAIN out : out[a] = "call"}
                  others == Baggage \cup {"flagsmith.event"} \cup written
              IN  /\ ofCall = (entry.attributes \cup unseen)
                                \ (RESERVED_KEYS \cup Consumed \cup others)
                  /\ DOMAIN out \ ofCall \subseteq Mapped(Context) \cup others

\* The catalogue's entry of a call is, if the visitor's scope of its target
\* matches.
LEMMA EntryArrives ==
  ASSUME NEW target \in Target(Name \cup {"self"}), NEW kwargs \in CallKeys,
         NEW scope \in Scopes \cup {None}, scope = ScopeForEmitTarget(target),
         NEW logger \in Loggers, NEW args,
         NEW entry, entry = BuildEntry(target, kwargs)
  PROVE  /\ entry \in Entries \cup {None}
         /\ Matches(scope, logger) => Delivered(entry, logger, args, kwargs)
<1> DEFINE given == logger.attrs \cup kwargs
           unseen == Mapped(KeysOf(given \ Named(given)))
<1>1. /\ kwargs \in SUBSET Keywords
      /\ logger.attrs \in SUBSET (Keywords \cup Unseen(Keywords))
      /\ Attributes(kwargs) \in SUBSET Attributes(Keywords)
  <2>1. kwargs \in SUBSET Keywords /\ kwargs \cup Keywords = Keywords
    BY DEF Keywords
  <2>2. Attributes(Keywords) = Attributes(kwargs) \cup Attributes(Keywords)
    BY <2>1, KeywordsSplit
  <2>3. logger.attrs \in SUBSET (Keywords \cup Unseen(Keywords))
    BY DEF Loggers
  <2> QED
    BY <2>1, <2>2, <2>3
<1>2. CASE scope = None
  BY <1>2 DEF BuildEntry, Matches
<1>3. CASE scope # None
  <2>1. entry = [name |-> GetOtelEventName(scope.domain, "event"),
                 attributes |-> scope.attrs \cup Attributes(kwargs)]
    BY <1>3 DEF BuildEntry
  <2>2. entry \in Entries
    <3>1. GetOtelEventName(scope.domain, "event")
             \in {GetOtelEventName(s.domain, "event") : s \in Scopes}
      BY <1>3
    <3>2. scope.attrs \cup Attributes(kwargs) \in SUBSET Attributes(Keywords)
      BY <1>1, <1>3 DEF Scopes
    <3> QED
      BY <2>1, <3>1, <3>2 DEF Entries
  <2>3. entry # None
    BY <2>2, NoneAssumption
  <2>4. ASSUME Matches(scope, logger)
        PROVE  /\ logger.explicit => entry.name = GetOtelEventName(logger.domain, "event")
               /\ entry.attributes = Attributes(given)
    <3>1. Attributes(given) = Attributes(logger.attrs) \cup Attributes(kwargs)
      BY KeywordsSplit
    <3>2. /\ entry.name = GetOtelEventName(scope.domain, "event")
          /\ entry.attributes = scope.attrs \cup Attributes(kwargs)
      BY <2>1
    <3>3. logger.explicit =>
             GetOtelEventName(scope.domain, "event") = GetOtelEventName(logger.domain, "event")
      BY <2>4, Zenon DEF Matches
    <3>4. scope.attrs = Attributes(logger.attrs)
      BY <2>4 DEF Matches
    <3> QED
      BY <3>1, <3>2, <3>3, <3>4
  <2>5. KeysOf(given) \in SUBSET KeysOf(Keywords)
    <3>1. given \in SUBSET (Keywords \cup Unseen(Keywords))
      BY <1>1
    <3> QED
      BY <3>1, KeywordsSplit
  <2>6. Mapped(KeysOf(given)) = Attributes(given) \cup unseen
    BY KeywordsSplit
  <2> HIDE DEF given, unseen
  <2>7. ASSUME NEW written \in Written(KeysOf(given))
        PROVE  Arrives(OtelAttributes(EventDict(KeysOf(given), written)), KeysOf(given),
                       written)
    BY <2>5, OtelAttributesOf
  <2>8. ASSUME Matches(scope, logger) PROVE Delivered(entry, logger, args, kwargs)
    <3>1. /\ entry # None /\ Mapped(KeysOf(given)) = entry.attributes \cup unseen
          /\ logger.explicit /\ ~args
                => entry.name = GetOtelEventName(logger.domain, Body(args))
      BY <2>3, <2>4, <2>6, <2>8 DEF Body
    <3>2. ASSUME NEW written \in Written(KeysOf(given))
          PROVE  LET out    == OtelAttributes(EventDict(KeysOf(given), written))
                     ofCall == {a \in DOMAIN out : out[a] = "call"}
                     others == Baggage \cup {"flagsmith.event"} \cup written
                 IN  /\ ofCall = (entry.attributes \cup unseen)
                                   \ (RESERVED_KEYS \cup Consumed \cup others)
                     /\ DOMAIN out \ ofCall \subseteq Mapped(Context) \cup others
      BY <2>7, <3>1 DEF Arrives
    <3> QED
      BY <3>1, <3>2 DEF Delivered, given, unseen
  <2> QED
    BY <2>2, <2>8
<1> QED
  BY <1>2, <1>3

\* A call keeps the invariant, the property of calls with it.
LEMMA EmitKeeps ==
  ASSUME VisitInv, length < MaxLength, length' = length + 1,
         NEW target \in Target(Name \cup {"self"}), NEW literal \in BOOLEAN,
         NEW args \in BOOLEAN, NEW kwargs \in CallKeys,
         EmitCall(target, literal, args, kwargs)
  PROVE  VisitInv'
<1>1. ScannerTypeOK /\ Follows(frames, scopes, classes)
        /\ KnownFollow
  BY DEF VisitInv
<1>2. UNCHANGED <<file, scopes, classes, known, defined>>
  BY DEF EmitCall, visitor
<1>3. Top = Len(frames) /\ Top \in Nat \ {0} /\ frames \in Seq(Frames)
  BY <1>1, BoundAssumption DEF ScannerTypeOK, Top
<1>4. frames' \in Seq(Frames) /\ Len(frames') = Top /\ Same(frames, frames', Top)
  <2>1. CASE target.base = "self"
    BY <1>3, <2>1 DEF EmitCall, Same
  <2>2. CASE target.base # "self"
    <3>1. target.base \in Name /\ frames' = Reading(target.base, FALSE)
      BY <2>2 DEF EmitCall, Target
    <3> QED
      BY <1>1, <3>1, ReadingBars
  <2> QED
    BY <2>1, <2>2
<1>5. Follows(frames', scopes, classes)
  BY <1>1, <1>3, <1>4, SameKeeps
<1>6. Follows(frames', scopes', classes') /\ KnownFollow'
  BY <1>1, <1>2, <1>5 DEF KnownFollow
<1>7. CASE ~literal
  <2>1. call' = None
    BY <1>7 DEF EmitCall
  <2>2. ScannerTypeOK'
    BY <1>1, <1>2, <1>3, <1>4, <2>1, BoundAssumption DEF ScannerTypeOK, Top
  <2> QED
    BY <1>6, <2>1, <2>2 DEF VisitInv, CatalogueMatchesTelemetry
<1>8. CASE literal
  <2> DEFINE entry  == BuildEntry(target, kwargs)
             scope  == ScopeForEmitTarget(target)
             logger == Called(target)
             followed == FollowedTo(target)
  <2>1. call' = [entry |-> entry, logger |-> logger, args |-> args, kwargs |-> kwargs,
                 followed |-> followed]
    BY <1>8 DEF EmitCall, Called, FollowedTo
  <2>2. /\ scope \in Scopes \cup {None} /\ logger \in Loggers /\ followed \in BOOLEAN
        /\ followed => Matches(scope, logger)
    BY <1>1, TargetMatches DEF EmitCall
  <2>3. entry \in Entries \cup {None}
    BY <2>2, EntryArrives
  <2>4. ScannerTypeOK'
    <3> HIDE DEF entry, scope, logger, followed
    <3>1. call' \in Calls
      BY <2>1, <2>2, <2>3 DEF Calls
    <3> QED
      BY <1>1, <1>2, <1>3, <1>4, <3>1, BoundAssumption DEF ScannerTypeOK, Top
  <2>5. followed => Delivered(entry, logger, args, kwargs)
    BY <2>2, EntryArrives
  <2>6. CatalogueMatchesTelemetry'
    <3> HIDE DEF entry, scope, logger, followed
    <3>1. /\ call'.entry = entry /\ call'.logger = logger /\ call'.kwargs = kwargs
          /\ call'.args = args /\ call'.followed = followed
      BY <2>1
    <3>2. followed => Delivered(call'.entry, call'.logger, call'.args, call'.kwargs)
      BY <2>5, <3>1
    <3>3. call'.followed => Delivered(call'.entry, call'.logger, call'.args, call'.kwargs)
      BY <3>1, <3>2, Zenon
    <3> QED
      BY <3>3, Zenon DEF CatalogueMatchesTelemetry, Delivered
  <2> QED
    BY <1>6, <2>4, <2>6 DEF VisitInv
<1> QED
  BY <1>7, <1>8

-----------------------------------------------------------------------------
(* Entering scopes and leaving them.                                         *)

\* No logger yet, no class.
LEMMA InitVisit == VisitInit => VisitInv
<1> SUFFICES ASSUME VisitInit PROVE VisitInv
  OBVIOUS
<1> DEFINE empty == [n \in Name |-> None]
<1>1. /\ frames = << Frame("module", None) >> /\ scopes = << empty >>
      /\ classes = << >> /\ call = None /\ known = [c \in Class |-> None]
      /\ defined = [c \in Class |-> None] /\ length = 0
      /\ file \in {"module", "package"}
  BY DEF VisitInit
<1>2. Frame("module", None) \in Frames
  BY DEF Frame, Frames
<1>3. /\ frames \in Seq(Frames) /\ Len(frames) = 1
      /\ frames[1].kind = "module" /\ frames[1].vars = empty
  BY <1>1, <1>2 DEF Frame
<1>4. /\ scopes \in Seq([Name -> Scopes \cup {None}]) /\ Len(scopes) = 1
      /\ classes \in Seq(Scopes \cup {None}) /\ Len(classes) = 0
  BY <1>1
<1>5. ScannerTypeOK
  <2>1. Top \in 1 .. MaxDepth /\ Len(scopes) + Len(classes) = Top
    BY <1>3, <1>4, BoundAssumption DEF Top
  <2>2. length \in 0 .. MaxLength
    BY <1>1, BoundAssumption
  <2> QED
    BY <1>1, <1>3, <1>4, <2>1, <2>2 DEF ScannerTypeOK
<1>6. Layout(frames, scopes, classes)
  <2>1. Count(frames, Running, 0) = 0 /\ Count(frames, {"class"}, 0) = 0
    BY Counting
  <2>2. /\ Count(frames, Running, 0 + 1) = Count(frames, Running, 0) + 1
        /\ Count(frames, {"class"}, 0 + 1) = Count(frames, {"class"}, 0)
    <3>1. frames[0 + 1].kind \in Running /\ frames[0 + 1].kind \notin {"class"}
      BY <1>3 DEF Running
    <3> QED
      BY <3>1, CountStep
  <2> QED
    BY <1>3, <1>4, <2>1, <2>2 DEF Layout, ScopeAt, ClassAt
<1>7. ScopesFollow(frames, scopes)
  BY <1>3 DEF ScopesFollow, Tracked
<1>8. ClassesFollow(frames, classes)
  BY <1>3 DEF ClassesFollow
<1>9. KnownFollow /\ CatalogueMatchesTelemetry
  BY <1>1 DEF KnownFollow, CatalogueMatchesTelemetry
<1> QED
  BY <1>5, <1>6, <1>7, <1>8, <1>9 DEF VisitInv, Follows

\* A frame of a kind has a place among those that are counted.
LEMMA Placed ==
  ASSUME NEW fs, NEW kinds, NEW l \in Nat, NEW t \in Nat, l <= t,
         NEW h \in 1 .. l, fs[h].kind \in kinds
  PROVE  Count(fs, kinds, l) \in 1 .. Count(fs, kinds, t)
<1>1. Count(fs, kinds, 0) = 0 /\ Count(fs, kinds, l) \in Nat /\ Count(fs, kinds, t) \in Nat
  BY Counting
<1>2. Count(fs, kinds, 0) = Count(fs, kinds, l) <=>
         \A k \in 0 + 1 .. l : fs[k].kind \notin kinds
  BY CountGrows
<1>3. Count(fs, kinds, l) <= Count(fs, kinds, t)
  BY CountGrows
<1>4. h \in 0 + 1 .. l
  OBVIOUS
<1> QED
  BY <1>1, <1>2, <1>3, <1>4

\* A new frame holds nothing but what is lost: what is tracked in it is tracked
\* around it, by those that are no class bodies.
LEMMA PushTracks ==
  ASSUME NEW fs, NEW gs, NEW t \in Nat, Same(fs, gs, t),
         \A n \in Name : gs[t + 1].vars[n] = None \/ n \in gs[t + 1].lost,
         NEW n \in Name, NEW h \in 1 .. t + 1, NEW body \in {0, t + 1},
         Tracked(gs, h, t + 1, body, n)
  PROVE  h \in 1 .. t /\ Tracked(fs, h, t, 0, n)
<1>1. h \in 1 .. t
  <2>1. h # t + 1
    BY DEF Tracked
  <2> QED
    BY <2>1
<1>2. \A j \in h .. t : j \in h .. t + 1 /\ j \in 1 .. t /\ j # 0 /\ j # t + 1
  BY <1>1
<1>3. \A j \in h + 1 .. t : j \in h + 1 .. t + 1 /\ j \in 1 .. t
  BY <1>1
<1>4. h \in h .. t
  BY <1>1
<1>5. /\ fs[h].vars[n] # None /\ fs[h].kind # "class"
      /\ \A j \in h .. t : n \notin fs[j].lost
  BY <1>1, <1>2, <1>4 DEF Tracked, Same
<1>6. \A j \in h + 1 .. t : fs[j].vars[n] = None \/ (fs[j].kind = "class" /\ j # 0)
  BY <1>3 DEF Tracked, Same
<1> QED
  BY <1>1, <1>5, <1>6 DEF Tracked

\* Entering a function copies the innermost scope; entering a class puts its
\* scope on the other stack.  Either way all is followed.
LEMMA Pushed ==
  ASSUME NEW fs, NEW gs, NEW ss, NEW cs, NEW tt, NEW dd, NEW S, NEW T,
         NEW t \in Nat \ {0}, Len(fs) = t, Len(gs) = t + 1, Same(fs, gs, t),
         gs[t + 1].kind \in {"class", "function"},
         \A n \in Name : gs[t + 1].vars[n] = None \/ n \in gs[t + 1].lost,
         ss \in Seq(S), cs \in Seq(T), Follows(fs, ss, cs),
         IF gs[t + 1].kind = "function"
         THEN tt = Append(ss, Last(ss)) /\ dd = cs
         ELSE tt = ss /\ \E c \in T : dd = Append(cs, c) /\ Agrees(c, gs[t + 1].accessor)
  PROVE  Follows(gs, tt, dd)
<1>1. /\ ScopeAt(gs, t) = Len(ss) /\ ClassAt(gs, t) = Len(cs)
      /\ ScopeAt(fs, t) = Len(ss) /\ ClassAt(fs, t) = Len(cs)
  BY SameScopes DEF Follows, Layout
<1>2. fs[1].kind \in Running /\ gs[1].kind = "module"
        /\ \A j \in 2 .. t : gs[j].kind # "module"
  <2>1. fs[1].kind = "module" /\ \A j \in 2 .. t : fs[j].kind # "module"
    BY DEF Follows, Layout
  <2>2. 1 \in 1 .. t /\ \A j \in 2 .. t : j \in 1 .. t
    OBVIOUS
  <2>3. gs[1].kind = fs[1].kind /\ \A j \in 2 .. t : gs[j].kind = fs[j].kind
    BY <2>2 DEF Same
  <2>4. "module" \in Running
    BY DEF Running
  <2> QED
    BY <2>1, <2>3, <2>4
<1>3. Len(ss) \in Nat \ {0} /\ Len(cs) \in Nat
  <2>1. Count(fs, Running, t) \in 1 .. Count(fs, Running, t)
    BY <1>2, Placed
  <2> QED
    BY <1>1, <2>1 DEF ScopeAt
<1>4. /\ ScopeAt(gs, t + 1) = Len(tt) /\ ClassAt(gs, t + 1) = Len(dd)
      /\ tt[Len(tt)] = ss[Len(ss)]
      /\ \A k \in 1 .. Len(ss) : tt[k] = ss[k]
      /\ \A k \in 1 .. Len(cs) : dd[k] = cs[k]
      /\ gs[t + 1].kind = "class" => Agrees(dd[Len(dd)], gs[t + 1].accessor)
  <2>1. CASE gs[t + 1].kind = "function"
    <3>1. gs[t + 1].kind \in Running /\ gs[t + 1].kind \notin {"class"}
      BY <2>1 DEF Running
    <3>2. ScopeAt(gs, t + 1) = Len(ss) + 1 /\ ClassAt(gs, t + 1) = Len(cs)
      <4>1. /\ Count(gs, Running, t + 1) = Count(gs, Running, t) + 1
            /\ Count(gs, {"class"}, t + 1) = Count(gs, {"class"}, t)
        BY <3>1, CountStep
      <4> QED
        BY <1>1, <4>1 DEF ScopeAt, ClassAt
    <3>3. tt = Append(ss, ss[Len(ss)]) /\ dd = cs
      BY <2>1 DEF Last
    <3> QED
      BY <1>3, <2>1, <3>2, <3>3
  <2>2. CASE gs[t + 1].kind = "class"
    <3>1. gs[t + 1].kind \notin Running /\ gs[t + 1].kind \in {"class"}
      BY <2>2 DEF Running
    <3>2. ScopeAt(gs, t + 1) = Len(ss) /\ ClassAt(gs, t + 1) = Len(cs) + 1
      <4>1. /\ Count(gs, Running, t + 1) = Count(gs, Running, t)
            /\ Count(gs, {"class"}, t + 1) = Count(gs, {"class"}, t) + 1
        BY <3>1, CountStep
      <4> QED
        BY <1>1, <4>1 DEF ScopeAt, ClassAt
    <3>3. tt = ss
      BY <2>2
    <3>4. PICK c \in T : dd = Append(cs, c) /\ Agrees(c, gs[t + 1].accessor)
      BY <2>2
    <3>5. Len(dd) = Len(cs) + 1 /\ dd[Len(cs) + 1] = c
            /\ \A k \in 1 .. Len(cs) : dd[k] = cs[k]
      BY <3>4
    <3> QED
      BY <1>3, <3>2, <3>3, <3>4, <3>5
  <2> QED
    BY <2>1, <2>2
<1>5. \A j \in 2 .. t + 1 : gs[j].kind # "module"
  <2>1. \A j \in 2 .. t + 1 : j \in 2 .. t \/ j = t + 1
    OBVIOUS
  <2>2. gs[t + 1].kind # "module"
    OBVIOUS
  <2> QED
    BY <1>2, <2>1, <2>2
<1>6. Layout(gs, tt, dd)
  BY <1>2, <1>4, <1>5 DEF Layout
<1>7. \A l \in 1 .. t : Same(fs, gs, l)
  BY DEF Same
<1>8. ScopesFollow(gs, tt)
  <2> SUFFICES ASSUME NEW l \in 1 .. t + 1, NEW n \in Name, NEW body \in {0, l},
                      NEW h \in 1 .. l, Tracked(gs, h, l, body, n)
               PROVE  Matches(tt[ScopeAt(gs, l)][n], gs[h].vars[n])
    BY DEF ScopesFollow
  <2>1. CASE l \in 1 .. t
    <3>1. ScopeAt(gs, l) = ScopeAt(fs, l) /\ Tracked(fs, h, l, body, n)
      BY <1>7, <2>1, SameScopes
    <3>2. Matches(ss[ScopeAt(fs, l)][n], fs[h].vars[n])
      BY <2>1, <3>1 DEF Follows, ScopesFollow
    <3>3. ScopeAt(fs, l) \in 1 .. Len(ss)
      <4>1. 1 \in 1 .. l
        OBVIOUS
      <4> QED
        BY <1>1, <1>2, <2>1, <4>1, Placed DEF ScopeAt
    <3>4. gs[h].vars = fs[h].vars
      BY <2>1 DEF Same
    <3> QED
      BY <1>4, <3>1, <3>2, <3>3, <3>4
  <2>2. CASE l = t + 1
    <3>1. h \in 1 .. t /\ Tracked(fs, h, t, 0, n)
      BY <2>2, PushTracks
    <3>2. Matches(ss[ScopeAt(fs, t)][n], fs[h].vars[n])
      BY <3>1 DEF Follows, ScopesFollow
    <3>3. gs[h].vars = fs[h].vars
      BY <3>1 DEF Same
    <3> QED
      BY <1>1, <1>4, <2>2, <3>2, <3>3
  <2> QED
    BY <2>1, <2>2
<1>9. ClassesFollow(gs, dd)
  <2> SUFFICES ASSUME NEW l \in 1 .. t + 1, gs[l].kind = "class"
               PROVE  Agrees(dd[ClassAt(gs, l)], gs[l].accessor)
    BY DEF ClassesFollow
  <2>1. CASE l \in 1 .. t
    <3>1. ClassAt(gs, l) = ClassAt(fs, l)
      BY <1>7, <2>1, SameScopes
    <3>2. fs[l].kind = "class" /\ gs[l].accessor = fs[l].accessor
      BY <2>1 DEF Same
    <3>3. Agrees(cs[ClassAt(fs, l)], fs[l].accessor)
      BY <2>1, <3>2 DEF Follows, ClassesFollow
    <3>4. ClassAt(fs, l) \in 1 .. Len(cs)
      <4>1. fs[l].kind \in {"class"} /\ l \in 1 .. l
        BY <3>2
      <4> QED
        BY <1>1, <2>1, <4>1, Placed DEF ClassAt
    <3> QED
      BY <1>4, <3>1, <3>2, <3>3, <3>4
  <2>2. CASE l = t + 1
    BY <1>4, <2>2
  <2> QED
    BY <2>1, <2>2
<1> QED
  BY <1>6, <1>8, <1>9 DEF Follows

\* What is left of a stack.
LEMMA FrontOf ==
  ASSUME NEW S, NEW s \in Seq(S), Len(s) > 0
  PROVE  /\ Front(s) \in Seq(S) /\ Len(Front(s)) = Len(s) - 1
         /\ \A k \in 1 .. Len(s) - 1 : Front(s)[k] = s[k]
<1> DEFINE n == Len(s) - 1
           front == SubSeq(s, 1, n)
<1>1. n \in Nat /\ n \in Int /\ 1 \in Int
  OBVIOUS
<1>2. \A k \in 1 .. n : s[k] \in S
  OBVIOUS
<1> HIDE DEF n
<1>3. /\ front \in Seq(S) /\ Len(front) = IF 1 <= n THEN n - 1 + 1 ELSE 0
      /\ \A k \in 1 .. n - 1 + 1 : front[k] = s[1 + k - 1]
  BY <1>1, <1>2, SubSeqProperties
<1>4. Front(s) = front
  BY DEF Front, n
<1> HIDE DEF front
<1>5. Len(front) = n
  BY <1>1, <1>3
<1>6. ASSUME NEW k \in 1 .. n PROVE front[k] = s[k]
  <2>1. k \in 1 .. n - 1 + 1 /\ 1 + k - 1 = k
    BY <1>1
  <2> QED
    BY <1>3, <2>1
<1> QED
  BY <1>3, <1>4, <1>5, <1>6 DEF n

\* Leaving a scope drops what entering it put.
LEMMA Dropped ==
  ASSUME NEW fs, NEW gs, NEW ss, NEW cs, NEW tt, NEW dd, NEW S, NEW T,
         NEW t \in Nat \ {0}, Len(fs) = t + 1, Len(gs) = t, Same(fs, gs, t),
         fs[t + 1].kind \in {"class", "function"},
         ss \in Seq(S), cs \in Seq(T), Follows(fs, ss, cs),
         IF fs[t + 1].kind = "function" THEN tt = Front(ss) /\ dd = cs
         ELSE tt = ss /\ dd = Front(cs)
  PROVE  Follows(gs, tt, dd)
<1>1. ScopeAt(fs, t + 1) = Len(ss) /\ ClassAt(fs, t + 1) = Len(cs)
  BY DEF Follows, Layout
<1>2. fs[1].kind \in Running /\ gs[1].kind = "module"
        /\ \A j \in 2 .. t : gs[j].kind # "module"
  BY DEF Follows, Layout, Running, Same
<1>3. ScopeAt(fs, t) \in Nat \ {0} /\ ClassAt(fs, t) \in Nat
  <2>1. Count(fs, Running, t) \in 1 .. Count(fs, Running, t)
    BY <1>2, Placed
  <2>2. Count(fs, {"class"}, t) \in Nat /\ Count(fs, Running, t) \in Nat
    BY Counting
  <2> QED
    BY <2>1, <2>2 DEF ScopeAt, ClassAt
<1>4. /\ Len(tt) = ScopeAt(fs, t) /\ Len(dd) = ClassAt(fs, t)
      /\ \A k \in 1 .. ScopeAt(fs, t) : tt[k] = ss[k]
      /\ \A k \in 1 .. ClassAt(fs, t) : dd[k] = cs[k]
  <2>1. CASE fs[t + 1].kind = "function"
    <3>1. fs[t + 1].kind \in Running /\ fs[t + 1].kind \notin {"class"}
      BY <2>1 DEF Running
    <3>2. Len(ss) = ScopeAt(fs, t) + 1 /\ Len(cs) = ClassAt(fs, t)
      <4>1. /\ Count(fs, Running, t + 1) = Count(fs, Running, t) + 1
            /\ Count(fs, {"class"}, t + 1) = Count(fs, {"class"}, t)
        BY <3>1, CountStep
      <4> QED
        BY <1>1, <4>1 DEF ScopeAt, ClassAt
    <3>3. tt = Front(ss) /\ dd = cs
      BY <2>1
    <3>4. Len(ss) - 1 = ScopeAt(fs, t)
      BY <1>3, <3>2
    <3>5. Len(tt) = Len(ss) - 1 /\ \A k \in 1 .. Len(ss) - 1 : tt[k] = ss[k]
      <4>1. ss \in Seq(S) /\ Len(ss) > 0
        BY <1>3, <3>2
      <4>2. /\ Len(Front(ss)) = Len(ss) - 1
            /\ \A k \in 1 .. Len(ss) - 1 : Front(ss)[k] = ss[k]
        BY <4>1, FrontOf
      <4> QED
        BY <3>3, <4>2
    <3> QED
      BY <3>2, <3>3, <3>4, <3>5
  <2>2. CASE fs[t + 1].kind = "class"
    <3>1. fs[t + 1].kind \notin Running /\ fs[t + 1].kind \in {"class"}
      BY <2>2 DEF Running
    <3>2. Len(ss) = ScopeAt(fs, t) /\ Len(cs) = ClassAt(fs, t) + 1
      <4>1. /\ Count(fs, Running, t + 1) = Count(fs, Running, t)
            /\ Count(fs, {"class"}, t + 1) = Count(fs, {"class"}, t) + 1
        BY <3>1, CountStep
      <4> QED
        BY <1>1, <4>1 DEF ScopeAt, ClassAt
    <3>3. dd = Front(cs) /\ tt = ss
      BY <2>2
    <3>4. Len(cs) - 1 = ClassAt(fs, t)
      BY <1>3, <3>2
    <3>5. Len(dd) = Len(cs) - 1 /\ \A k \in 1 .. Len(cs) - 1 : dd[k] = cs[k]
      <4>1. cs \in Seq(T) /\ Len(cs) > 0
        BY <1>3, <3>2
      <4>2. /\ Len(Front(cs)) = Len(cs) - 1
            /\ \A k \in 1 .. Len(cs) - 1 : Front(cs)[k] = cs[k]
        BY <4>1, FrontOf
      <4> QED
        BY <3>3, <4>2
    <3> QED
      BY <3>2, <3>3, <3>4, <3>5
  <2> QED
    BY <2>1, <2>2
<1>5. \A l \in 1 .. t : Same(fs, gs, l)
  BY DEF Same
<1>6. \A l \in 1 .. t : ScopeAt(gs, l) = ScopeAt(fs, l) /\ ClassAt(gs, l) = ClassAt(fs, l)
  BY <1>5, SameScopes
<1>7. Layout(gs, tt, dd)
  BY <1>2, <1>4, <1>6 DEF Layout
<1>8. ScopesFollow(gs, tt)
  <2> SUFFICES ASSUME NEW l \in 1 .. t, NEW n \in Name, NEW body \in {0, l},
                      NEW h \in 1 .. l, Tracked(gs, h, l, body, n)
               PROVE  Matches(tt[ScopeAt(gs, l)][n], gs[h].vars[n])
    BY DEF ScopesFollow
  <2>1. Tracked(fs, h, l, body, n)
    BY <1>5, SameScopes
  <2>2. Matches(ss[ScopeAt(fs, l)][n], fs[h].vars[n])
    BY <2>1 DEF Follows, ScopesFollow
  <2>3. ScopeAt(fs, l) \in 1 .. ScopeAt(fs, t)
    <3>1. 1 \in 1 .. l
      OBVIOUS
    <3> QED
      BY <1>2, <3>1, Placed DEF ScopeAt
  <2>4. gs[h].vars = fs[h].vars
    BY DEF Same
  <2> QED
    BY <1>4, <1>6, <2>2, <2>3, <2>4
<1>9. ClassesFollow(gs, dd)
  <2> SUFFICES ASSUME NEW l \in 1 .. t, gs[l].kind = "class"
               PROVE  Agrees(dd[ClassAt(gs, l)], gs[l].accessor)
    BY DEF ClassesFollow
  <2>1. fs[l].kind = "class" /\ gs[l].accessor = fs[l].accessor
    BY DEF Same
  <2>2. Agrees(cs[ClassAt(fs, l)], fs[l].accessor)
    BY <2>1 DEF Follows, ClassesFollow
  <2>3. ClassAt(fs, l) \in 1 .. ClassAt(fs, t)
    <3>1. fs[l].kind \in {"class"} /\ l \in 1 .. l
      BY <2>1
    <3> QED
      BY <3>1, Placed DEF ClassAt
  <2> QED
    BY <1>4, <1>6, <2>1, <2>2, <2>3
<1> QED
  BY <1>7, <1>8, <1>9 DEF Follows

\* A new frame has its type and holds nothing.
LEMMA FreshFrame ==
  ASSUME NEW kind \in {"module", "class", "function"},
         NEW accessor \in Accessors \cup {None}
  PROVE  /\ Frame(kind, accessor) \in Frames
         /\ Frame(kind, accessor).kind = kind
         /\ Frame(kind, accessor).accessor = accessor
         /\ Frame(kind, accessor).vars = [n \in Name |-> None]
BY DEF Frame, Frames

\* What the types say of the stacks.
LEMMA Stacks ==
  ASSUME VisitInv
  PROVE  /\ Top = Len(frames) /\ Top \in Nat \ {0} /\ frames \in Seq(Frames)
         /\ scopes \in Seq([Name -> Scopes \cup {None}])
         /\ classes \in Seq(Scopes \cup {None})
         /\ Follows(frames, scopes, classes)
         /\ Len(scopes) \in Nat \ {0} /\ Len(classes) \in Nat
         /\ Last(scopes) \in [Name -> Scopes \cup {None}]
<1>1. /\ Top = Len(frames) /\ Top \in Nat \ {0} /\ frames \in Seq(Frames)
      /\ scopes \in Seq([Name -> Scopes \cup {None}])
      /\ classes \in Seq(Scopes \cup {None})
      /\ Follows(frames, scopes, classes)
  BY BoundAssumption DEF VisitInv, ScannerTypeOK, Top
<1>2. Count(frames, Running, Top) \in 1 .. Count(frames, Running, Top)
  <2>1. frames[1].kind \in Running /\ 1 \in 1 .. Top
    BY <1>1 DEF Follows, Layout, Running
  <2> QED
    BY <1>1, <2>1, Placed
<1>3. Count(frames, Running, Top) \in Nat
  BY <1>1, Counting
<1>4. Len(scopes) = Count(frames, Running, Top)
  BY <1>1 DEF Follows, Layout, ScopeAt
<1>5. Len(scopes) \in Nat \ {0} /\ Len(classes) \in Nat
  BY <1>1, <1>2, <1>3, <1>4
<1>6. Last(scopes) \in [Name -> Scopes \cup {None}]
  BY <1>1, <1>5 DEF Last
<1> QED
  BY <1>1, <1>5, <1>6

\* Entering a function keeps the invariant.
LEMMA EnterFunctionKeeps ==
  ASSUME VisitInv, length < MaxLength - 1, length' = length + 1,
         NEW parameters \in SUBSET Name, EnterFunction(parameters)
  PROVE  VisitInv'
<1> DEFINE S == [Name -> Scopes \cup {None}]
           T == Scopes \cup {None}
           vars0 == [n \in Name |-> IF n \in parameters THEN Elsewhere ELSE None]
           new == [Frame("function", None) EXCEPT !.vars = vars0, !.lost = parameters]
<1>1. /\ Top < MaxDepth /\ scopes' = Append(scopes, Last(scopes))
      /\ frames' = Append(frames, new) /\ call' = None
      /\ UNCHANGED <<file, classes, known, defined>>
  BY DEF EnterFunction
<1>2. /\ Top = Len(frames) /\ Top \in Nat \ {0} /\ frames \in Seq(Frames)
      /\ scopes \in Seq(S) /\ classes \in Seq(T)
      /\ Follows(frames, scopes, classes) /\ Last(scopes) \in S
      /\ Len(scopes) \in Nat /\ Len(classes) \in Nat
  BY Stacks
<1>3. /\ new \in Frames /\ new.kind = "function"
      /\ \A n \in Name : new.vars[n] = None \/ n \in new.lost
  <2>1. Elsewhere \in Loggers
    BY DEF Elsewhere, Logger, Loggers
  <2>2. vars0 \in [Name -> Loggers \cup {None}]
    BY <2>1
  <2> QED
    BY <2>2 DEF Frame, Frames
<1> HIDE DEF S, T, vars0, new
<1>4. /\ Len(frames') = Top + 1 /\ frames' \in Seq(Frames) /\ frames'[Top + 1] = new
      /\ \A j \in 1 .. Top : frames'[j] = frames[j]
  BY <1>1, <1>2, <1>3
<1>5. Same(frames, frames', Top)
  BY <1>4 DEF Same
<1>6. scopes' \in Seq(S) /\ Len(scopes') = Len(scopes) + 1
  BY <1>1, <1>2
<1>7. Follows(frames', scopes', classes')
  <2>1. frames'[Top + 1].kind \in {"class", "function"}
    BY <1>3, <1>4
  <2>2. IF frames'[Top + 1].kind = "function"
        THEN scopes' = Append(scopes, Last(scopes)) /\ classes' = classes
        ELSE /\ scopes' = scopes
             /\ \E c \in T : classes' = Append(classes, c)
                               /\ Agrees(c, frames'[Top + 1].accessor)
    BY <1>1, <1>3, <1>4
  <2>3. \A n \in Name : frames'[Top + 1].vars[n] = None \/ n \in frames'[Top + 1].lost
    BY <1>3, <1>4
  <2> QED
    BY <1>2, <1>4, <1>5, <2>1, <2>2, <2>3, Pushed
<1>8. ScannerTypeOK'
  <2>1. Top' = Top + 1 /\ Top' \in 1 .. MaxDepth
    BY <1>1, <1>2, <1>4, BoundAssumption DEF Top
  <2>2. Len(scopes') + Len(classes') = Top'
    <3>1. Len(scopes) + Len(classes) = Top /\ classes' = classes
      BY <1>1 DEF VisitInv, ScannerTypeOK
    <3> QED
      BY <1>2, <1>6, <2>1, <3>1
  <2>3. length' \in 0 .. MaxLength
    BY BoundAssumption DEF VisitInv, ScannerTypeOK
  <2> QED
    BY <1>1, <1>4, <1>6, <2>1, <2>2, <2>3 DEF VisitInv, ScannerTypeOK, S
<1>9. KnownFollow'
  BY <1>1 DEF VisitInv, KnownFollow
<1> QED
  BY <1>1, <1>7, <1>8, <1>9 DEF VisitInv, CatalogueMatchesTelemetry

\* Entering a class keeps the invariant.
LEMMA EnterClassKeeps ==
  ASSUME VisitInv, length < MaxLength - 1, length' = length + 1,
         NEW c \in Class, NEW bases \in Bases,
         NEW own \in {None, Opaque} \cup Target(Name), EnterClass(c, own, bases)
  PROVE  VisitInv'
<1> DEFINE S == [Name -> Scopes \cup {None}]
           T == Scopes \cup {None}
           scope == ClassScope(own, bases)
           real  == OwnOrInherited(own, bases)
           read  == IF own \in {None, Opaque} THEN frames ELSE Reading(own.base, TRUE)
           new   == Frame("class", real)
           entry == [accessor |-> real, bases |-> Range(bases)]
<1>1. /\ Top < MaxDepth
      /\ Top > 1 => defined[c] = None
      /\ \A k \in DOMAIN bases : defined[bases[k]] # None
      /\ own \notin {None, Opaque} => Evaluable(own.base, TRUE)
  BY DEF EnterClass
<1>2. /\ known' = [known EXCEPT ![c] = scope] /\ classes' = Append(classes, scope)
      /\ frames' = Append(read, new)
      /\ defined' = IF Top > 1 THEN defined ELSE [defined EXCEPT ![c] = entry]
      /\ call' = None /\ UNCHANGED <<file, scopes>>
  BY DEF EnterClass
<1>3. /\ Top = Len(frames) /\ Top \in Nat \ {0} /\ frames \in Seq(Frames)
      /\ scopes \in Seq(S) /\ classes \in Seq(T)
      /\ Follows(frames, scopes, classes)
      /\ Len(scopes) \in Nat /\ Len(classes) \in Nat
  BY Stacks
<1>4. scope \in T /\ real \in Accessors \cup {None} /\ Agrees(scope, real)
  <2>1. ScannerTypeOK /\ KnownFollow
    BY DEF VisitInv
  <2> QED
    BY <1>1, <1>3, <2>1, ClassAgrees
<1>5. /\ new \in Frames /\ new.kind = "class" /\ new.accessor = real
      /\ new.vars = [n \in Name |-> None]
  BY <1>4, FreshFrame
<1>6. read \in Seq(Frames) /\ Len(read) = Top /\ Same(frames, read, Top)
  <2>1. CASE own \in {None, Opaque}
    BY <1>3, <2>1 DEF Same
  <2>2. CASE own \notin {None, Opaque}
    <3>1. own.base \in Name
      BY <2>2 DEF Target
    <3> QED
      BY <2>2, <3>1, ReadingBars DEF VisitInv
  <2> QED
    BY <2>1, <2>2
<1>7. entry.accessor = real /\ entry \in [accessor : Accessors \cup {None},
                                          bases : SUBSET Class]
  <2>1. Range(bases) \in SUBSET Class
    <3>1. \A k \in DOMAIN bases : bases[k] \in Class
      BY DEF Bases
    <3> QED
      BY <3>1 DEF Range
  <2> QED
    BY <1>4, <2>1
<1> HIDE DEF S, T, scope, real, read, new, entry
<1>8. /\ Len(frames') = Top + 1 /\ frames' \in Seq(Frames) /\ frames'[Top + 1] = new
      /\ \A j \in 1 .. Top : frames'[j] = read[j]
  BY <1>2, <1>3, <1>5, <1>6
<1>9. Same(frames, frames', Top)
  BY <1>6, <1>8 DEF Same
<1>10. classes' \in Seq(T) /\ Len(classes') = Len(classes) + 1
  BY <1>2, <1>3, <1>4
<1>11. Follows(frames', scopes', classes')
  <2>1. frames'[Top + 1].kind \in {"class", "function"}
    BY <1>5, <1>8
  <2>2. IF frames'[Top + 1].kind = "function"
        THEN scopes' = Append(scopes, Last(scopes)) /\ classes' = classes
        ELSE /\ scopes' = scopes
             /\ \E k \in T : classes' = Append(classes, k)
                               /\ Agrees(k, frames'[Top + 1].accessor)
    BY <1>2, <1>4, <1>5, <1>8
  <2>3. \A n \in Name : frames'[Top + 1].vars[n] = None \/ n \in frames'[Top + 1].lost
    BY <1>5, <1>8
  <2> QED
    BY <1>3, <1>8, <1>9, <2>1, <2>2, <2>3, Pushed
<1>12. /\ known \in [Class -> T]
       /\ defined \in [Class -> {None} \cup [accessor : Accessors \cup {None},
                                            bases : SUBSET Class]]
  BY DEF VisitInv, ScannerTypeOK, T
<1>13. ScannerTypeOK'
  <2>1. Top' = Top + 1 /\ Top' \in 1 .. MaxDepth
    BY <1>1, <1>3, <1>8, BoundAssumption DEF Top
  <2>2. Len(scopes') + Len(classes') = Top'
    BY <1>2, <1>3, <1>10, <2>1 DEF VisitInv, ScannerTypeOK
  <2>3. length' \in 0 .. MaxLength
    BY BoundAssumption DEF VisitInv, ScannerTypeOK
  <2>4. known' \in [Class -> T]
    BY <1>2, <1>4, <1>12
  <2>5. defined' \in [Class -> {None} \cup [accessor : Accessors \cup {None},
                                            bases : SUBSET Class]]
    BY <1>2, <1>7, <1>12
  <2> QED
    BY <1>2, <1>8, <1>10, <2>1, <2>2, <2>3, <2>4, <2>5
       DEF VisitInv, ScannerTypeOK, T
<1>14. KnownFollow'
  <2> SUFFICES ASSUME NEW d \in Class, defined'[d] # None
               PROVE  Agrees(known'[d], defined'[d].accessor)
    BY DEF KnownFollow
  <2>1. CASE d # c
    <3>1. known'[d] = known[d] /\ defined'[d] = defined[d]
      BY <1>2, <1>12, <2>1
    <3> QED
      BY <3>1 DEF VisitInv, KnownFollow
  <2>2. CASE d = c
    <3>1. ~(Top > 1)
      BY <1>1, <1>2, <2>2
    <3>2. known'[d] = scope /\ defined'[d] = entry
      BY <1>2, <1>12, <2>2, <3>1
    <3> QED
      BY <1>4, <1>7, <3>2
  <2> QED
    BY <2>1, <2>2
<1> QED
  BY <1>2, <1>11, <1>13, <1>14 DEF VisitInv, CatalogueMatchesTelemetry

\* Leaving a scope keeps the invariant.
LEMMA LeaveScopeKeeps ==
  ASSUME VisitInv, length < MaxLength - 1, length' = length + 1, LeaveScope
  PROVE  VisitInv'
<1> DEFINE S == [Name -> Scopes \cup {None}]
           T == Scopes \cup {None}
           t == Top - 1
<1>1. /\ Top > 1 /\ frames' = Front(frames)
      /\ scopes' = IF frames[Top].kind = "function" THEN Front(scopes) ELSE scopes
      /\ classes' = IF frames[Top].kind = "class" THEN Front(classes) ELSE classes
      /\ call' = None /\ UNCHANGED <<file, known, defined>>
  BY DEF LeaveScope, Enclosing
<1>2. /\ Top = Len(frames) /\ Top \in Nat \ {0} /\ frames \in Seq(Frames)
      /\ scopes \in Seq(S) /\ classes \in Seq(T)
      /\ Follows(frames, scopes, classes)
      /\ Len(scopes) \in Nat /\ Len(classes) \in Nat
  BY Stacks
<1>3. t \in Nat \ {0} /\ Len(frames) = t + 1 /\ Top = t + 1
  BY <1>1, <1>2
<1> HIDE DEF S, T, t
<1>4. frames[t + 1].kind \in {"class", "function"}
  <2>1. frames[t + 1] \in Frames
    BY <1>2, <1>3
  <2>2. frames[t + 1].kind # "module"
    BY <1>2, <1>3 DEF Follows, Layout
  <2>3. frames[t + 1].kind \in {"module", "class", "function"}
    BY <2>1 DEF Frames
  <2> QED
    BY <2>2, <2>3
<1>5. /\ frames' \in Seq(Frames) /\ Len(frames') = t
      /\ \A k \in 1 .. t : frames'[k] = frames[k]
  <2>1. /\ Front(frames) \in Seq(Frames) /\ Len(Front(frames)) = Len(frames) - 1
        /\ \A k \in 1 .. Len(frames) - 1 : Front(frames)[k] = frames[k]
    BY <1>2, <1>3, FrontOf
  <2>2. Len(frames) - 1 = t
    BY <1>3
  <2> QED
    BY <1>1, <2>1, <2>2
<1>6. Same(frames, frames', t)
  BY <1>5 DEF Same
<1>7. Follows(frames', scopes', classes')
  <2>1. IF frames[t + 1].kind = "function"
        THEN scopes' = Front(scopes) /\ classes' = classes
        ELSE scopes' = scopes /\ classes' = Front(classes)
    BY <1>1, <1>3, <1>4
  <2> QED
    BY <1>2, <1>3, <1>4, <1>5, <1>6, <2>1, Dropped
<1>8. /\ scopes' \in Seq(S) /\ classes' \in Seq(T)
      /\ Len(scopes') + Len(classes') = t
  <2>1. CASE frames[t + 1].kind = "function"
    <3>1. Count(frames, Running, t + 1) \in 1 .. Count(frames, Running, t + 1)
      <4>1. frames[t + 1].kind \in Running
        BY <2>1 DEF Running
      <4> QED
        BY <1>3, <4>1, Placed
    <3>2. Len(scopes) > 0
      BY <1>2, <1>3, <3>1 DEF Follows, Layout, ScopeAt
    <3>3. Front(scopes) \in Seq(S) /\ Len(Front(scopes)) = Len(scopes) - 1
      BY <1>2, <3>2, FrontOf
    <3>4. scopes' = Front(scopes) /\ classes' = classes
      BY <1>1, <1>3, <2>1
    <3> QED
      BY <1>2, <1>3, <3>3, <3>4 DEF VisitInv, ScannerTypeOK
  <2>2. CASE frames[t + 1].kind = "class"
    <3>1. Count(frames, {"class"}, t + 1) \in 1 .. Count(frames, {"class"}, t + 1)
      <4>1. frames[t + 1].kind \in {"class"}
        BY <2>2
      <4> QED
        BY <1>3, <4>1, Placed
    <3>2. Len(classes) > 0
      BY <1>2, <1>3, <3>1 DEF Follows, Layout, ClassAt
    <3>3. Front(classes) \in Seq(T) /\ Len(Front(classes)) = Len(classes) - 1
      BY <1>2, <3>2, FrontOf
    <3>4. classes' = Front(classes) /\ scopes' = scopes
      BY <1>1, <1>3, <2>2
    <3> QED
      BY <1>2, <1>3, <3>3, <3>4 DEF VisitInv, ScannerTypeOK
  <2> QED
    BY <1>4, <2>1, <2>2
<1>9. ScannerTypeOK'
  <2>1. Top' = t /\ Top' \in 1 .. MaxDepth
    BY <1>3, <1>5, BoundAssumption DEF Top, VisitInv, ScannerTypeOK
  <2>2. length' \in 0 .. MaxLength
    BY BoundAssumption DEF VisitInv, ScannerTypeOK
  <2> QED
    BY <1>1, <1>5, <1>8, <2>1, <2>2 DEF VisitInv, ScannerTypeOK, S, T
<1>10. KnownFollow'
  BY <1>1 DEF VisitInv, KnownFollow
<1> QED
  BY <1>1, <1>7, <1>9, <1>10 DEF VisitInv, CatalogueMatchesTelemetry

-----------------------------------------------------------------------------
(* Assignments.                                                              *)

\* What an assignment evaluates to is a logger, and what the visitor resolves it
\* to matches if it claims to follow it.
LEMMA ValueMatches ==
  ASSUME ScannerTypeOK, Follows(frames, scopes, classes), NEW v \in Value,
         Binds(v) => Evaluable(v.base, FALSE)
  PROVE  /\ Resolve(v) \in Scopes \cup {None} /\ Result(v) \in Loggers
         /\ Followed(v) => Matches(Resolve(v), Result(v))
<1>1. CASE v.form = "seed"
  <2>1. v.domain \in Literal \cup {"__name__", "no argument", "dynamic"}
    BY <1>1 DEF Value
  <2>2. ~Binds(v) /\ Resolve(v) = ResolveSeed(v)
    BY <1>1 DEF Binds, Resolve
  <2>3. Followed(v) => v.domain # "dynamic"
    BY <1>1 DEF Followed
  <2> DEFINE all == Keywords \cup Unseen(Keywords)
             given == Unseen(v.keys)
  <2>4. /\ Attributes(given) = {} /\ {} \in SUBSET Attributes(Keywords)
        /\ given \in SUBSET all /\ {} \in SUBSET all
    <3>1. v.keys \in Initial \/ v.keys = {}
      BY <1>1 DEF Value
    <3>2. v.keys \subseteq Keywords
      BY <3>1 DEF Keywords
    <3>3. given \subseteq Unseen(Keywords)
      BY <3>2 DEF Unseen
    <3> QED
      BY <3>3, KeywordsSplit
  <2> HIDE DEF all, given
  <2>5. \A d \in Literal \cup {"", "pkg.mod", "pkg.__init__"} :
           Scope(d, {}) \in Scopes /\ Scope(d, {}).attrs = {} /\ Scope(d, {}).domain = d
    BY <2>4 DEF Scope, Scopes
  <2>6. Logger("elsewhere", {}, FALSE) \in Loggers
    BY DEF Logger, Loggers
  <2>7. \A d \in Literal \cup {"pkg", "pkg.mod", "elsewhere"}, e \in BOOLEAN :
           /\ Logger(d, given, e) \in Loggers /\ Logger(d, given, e).attrs = given
           /\ Logger(d, given, e).domain = d /\ Logger(d, given, e).explicit = e
    <3>1. given \in SUBSET (Keywords \cup Unseen(Keywords))
      BY <2>4 DEF all
    <3> QED
      BY <3>1 DEF Logger, Loggers
  <2>8. \A d \in Literal \cup {"pkg", "pkg.mod", "elsewhere"} :
           /\ Logger(d, given, TRUE) \in Loggers /\ Logger(d, given, TRUE).attrs = given
           /\ Logger(d, given, TRUE).domain = d /\ Logger(d, given, TRUE).explicit = TRUE
    BY <2>7, Zenon
  <2>9. \A d \in Literal \cup {"", "pkg.mod", "pkg.__init__"} : Scope(d, {}) # None
    BY <2>5, NoneAssumption
  <2>10. file \in {"module", "package"}
    BY DEF ScannerTypeOK
  <2>11. CASE v.domain = "dynamic"
    <3>1. Resolve(v) = None /\ Result(v) = Logger("elsewhere", {}, FALSE)
      BY <2>2, <2>11 DEF ResolveSeed, Result, Elsewhere
    <3>2. ~Followed(v) /\ Result(v) \in Loggers
      BY <2>3, <2>4, <2>6, <2>11, <3>1
    <3> QED
      BY <3>1, <3>2
  <2>12. CASE v.domain = "no argument"
    <3>1. /\ Resolve(v) = Scope("", {}) /\ Result(v) = Logger(PythonName, given, FALSE)
          /\ PythonName \in {"pkg", "pkg.mod"}
      BY <2>2, <2>12 DEF ResolveSeed, Result, PythonName, given
    <3>2. /\ Resolve(v) \in Scopes /\ Resolve(v) # None /\ Resolve(v).attrs = {}
      BY <2>5, <2>9, <3>1
    <3>3. Result(v) \in Loggers /\ Result(v).attrs = given /\ Result(v).explicit = FALSE
      BY <2>7, <3>1
    <3> QED
      BY <2>4, <3>2, <3>3 DEF Matches
  <2>13. CASE v.domain = "__name__"
    <3>1. /\ Resolve(v) = Scope(ModuleDotted, {})
          /\ Result(v) = Logger(PythonName, given, file = "module")
          /\ PythonName \in {"pkg", "pkg.mod"}
          /\ ModuleDotted \in {"pkg.mod", "pkg.__init__"}
          /\ file = "module" => ModuleDotted = PythonName
      BY <2>2, <2>10, <2>13 DEF ResolveSeed, Result, PythonName, ModuleDotted, given
    <3>3. /\ Resolve(v) \in Scopes /\ Resolve(v) # None /\ Resolve(v).attrs = {}
          /\ Resolve(v).domain = ModuleDotted
      BY <2>5, <2>9, <3>1
    <3>4. /\ Result(v) \in Loggers /\ Result(v).attrs = given
          /\ Result(v).explicit = (file = "module") /\ Result(v).domain = PythonName
      <4>1. CASE file = "module"
        <5>1. Result(v) = Logger(PythonName, given, TRUE)
          BY <3>1, <4>1
        <5> QED
          BY <2>8, <3>1, <4>1, <5>1
      <4>2. CASE file # "module"
        <5>1. Result(v) = Logger(PythonName, given, FALSE)
          BY <3>1, <4>2
        <5> QED
          BY <2>7, <3>1, <4>2, <5>1
      <4> QED
        BY <4>1, <4>2
    <3> QED
      BY <2>4, <3>1, <3>3, <3>4 DEF Matches
  <2>14. CASE v.domain \notin {"__name__", "no argument", "dynamic"}
    <3>1. /\ Resolve(v) = Scope(v.domain, {}) /\ Result(v) = Logger(v.domain, given, TRUE)
          /\ v.domain \in Literal
      BY <2>1, <2>2, <2>14 DEF ResolveSeed, Result, given
    <3>2. /\ Resolve(v) \in Scopes /\ Resolve(v) # None /\ Resolve(v).attrs = {}
          /\ Resolve(v).domain = v.domain
      BY <2>5, <2>9, <3>1
    <3>3. Result(v) \in Loggers /\ Result(v).attrs = given /\ Result(v).domain = v.domain
      BY <2>8, <3>1
    <3> QED
      BY <2>4, <3>2, <3>3 DEF Matches
  <2> QED
    BY <2>11, <2>12, <2>13, <2>14
<1>2. CASE v.form \in {"bind", "bind twice"}
  <2>1. v.base \in Name /\ v.keys \in BindKeys
    BY <1>2 DEF Value
  <2>2. Binds(v) /\ Result(v) = Evaluate(v.base, FALSE, v.keys)
    BY <1>2 DEF Binds, Result
  <2>3. /\ Chained(Last(scopes)[v.base], v.keys) \in Scopes \cup {None}
        /\ Evaluate(v.base, FALSE, v.keys) \in Loggers
        /\ Intact(v.base, FALSE) => Matches(Chained(Last(scopes)[v.base], v.keys),
                                            Evaluate(v.base, FALSE, v.keys))
    BY <2>1, <2>2, LookedUp
  <2>4. Followed(v) => v.form = "bind" /\ Intact(v.base, FALSE)
    BY <1>2 DEF Followed
  <2>5. /\ v.form = "bind" => Resolve(v) = Chained(Last(scopes)[v.base], v.keys)
        /\ v.form # "bind" => Resolve(v) = None
    BY <1>2 DEF Resolve
  <2> QED
    BY <2>2, <2>3, <2>4, <2>5
<1> QED
  BY <1>1, <1>2 DEF Value

\* n is assigned r in frame t: frames[around .. t - 1], which share its scope on
\* the visitor's stack, lose track of n.
Assigned(fs, gs, n, t, around, r) ==
    /\ \A j \in 1 .. t :
          /\ gs[j].kind = fs[j].kind /\ gs[j].accessor = fs[j].accessor
          /\ \A m \in Name :
                /\ m # n \/ j # t => gs[j].vars[m] = fs[j].vars[m]
                /\ m # n \/ j < around => (m \in gs[j].lost <=> m \in fs[j].lost)
    /\ gs[t].vars[n] = r
    /\ \A j \in around .. t - 1 : n \in gs[j].lost

\* The innermost frame that is no class body.
Around(fs, around, t) ==
    /\ around \in 1 .. t /\ fs[around].kind # "class"
    /\ \A i \in around + 1 .. t : fs[i].kind = "class"

\* Frames outside of it have other scopes on the visitor's stack.
LEMMA OuterScopes ==
  ASSUME NEW fs, NEW t \in Nat \ {0}, NEW around, Around(fs, around, t),
         \A j \in 1 .. t : fs[j].kind \in {"module", "class", "function"},
         NEW l \in 1 .. t, l < around
  PROVE  ScopeAt(fs, l) \in Nat /\ ScopeAt(fs, l) < ScopeAt(fs, t)
<1>1. Count(fs, Running, l) \in Nat /\ Count(fs, Running, t) \in Nat
  BY Counting
<1>2. /\ Count(fs, Running, l) <= Count(fs, Running, t)
      /\ Count(fs, Running, l) = Count(fs, Running, t) <=>
            \A k \in l + 1 .. t : fs[k].kind \notin Running
  BY CountGrows
<1>3. around \in l + 1 .. t
  BY DEF Around
<1>4. fs[around].kind \in Running
  BY DEF Around, Running
<1> QED
  BY <1>1, <1>2, <1>3, <1>4 DEF ScopeAt

\* What is tracked of the name just assigned, where its scope is seen, is this
\* assignment.
LEMMA TrackedAssigned ==
  ASSUME NEW fs, NEW gs, NEW n \in Name, NEW t \in Nat \ {0}, NEW around, NEW r,
         Assigned(fs, gs, n, t, around, r), Around(fs, around, t), r # None
  PROVE  \A l \in around .. t : \A body \in {0, l}, h \in 1 .. l :
            Tracked(gs, h, l, body, n) => l = t /\ h = t /\ n \notin gs[t].lost
<1> SUFFICES ASSUME NEW l \in around .. t, NEW body \in {0, l}, NEW h \in 1 .. l,
                    Tracked(gs, h, l, body, n)
             PROVE  l = t /\ h = t /\ n \notin gs[t].lost
  OBVIOUS
<1>1. around \in Nat /\ around \in 1 .. t
  BY DEF Around
<1>2. l = t
  <2>1. SUFFICES ASSUME l # t PROVE FALSE
    OBVIOUS
  <2>2. l \in around .. t - 1 /\ l \in h .. l
    BY <1>1, <2>1
  <2> QED
    BY <2>2 DEF Assigned, Tracked
<1>3. h = t
  <2>1. SUFFICES ASSUME h # t PROVE FALSE
    OBVIOUS
  <2>2. h \in 1 .. t - 1 /\ t \in h + 1 .. l /\ t \in 1 .. t /\ h \in 1 .. t
    BY <1>2, <2>1
  <2>3. gs[t].vars[n] # None
    BY DEF Assigned
  <2>4. gs[t].kind = "class" /\ t # body
    BY <2>2, <2>3 DEF Tracked
  <2>5. body = 0 /\ h # body
    BY <1>2, <2>2, <2>4
  <2>6. fs[h].kind # "class" /\ fs[t].kind = "class"
    BY <2>2, <2>4, <2>5 DEF Tracked, Assigned
  <2>7. ~(h \in around + 1 .. t) /\ around # t
    BY <2>6 DEF Around
  <2>8. around \in h .. l /\ around \in around .. t - 1
    BY <1>1, <1>2, <2>2, <2>7
  <2> QED
    BY <2>8 DEF Tracked, Assigned
<1>4. n \notin gs[t].lost
  <2>1. t \in h .. l
    BY <1>2, <1>3
  <2> QED
    BY <2>1 DEF Tracked, Assigned
<1> QED
  BY <1>2, <1>3, <1>4

\* An assignment that matches if it is followed keeps all followed.
LEMMA AssignedFollows ==
  ASSUME NEW fs, NEW gs, NEW ss, NEW tt, NEW cs, NEW n \in Name, NEW t \in Nat \ {0},
         NEW around, NEW r, NEW scope,
         Len(fs) = t, Len(gs) = t,
         \A j \in 1 .. t : fs[j].kind \in {"module", "class", "function"},
         Assigned(fs, gs, n, t, around, r), Around(fs, around, t), r # None,
         n \notin gs[t].lost => Matches(scope, r),
         Follows(fs, ss, cs), Len(tt) = Len(ss), Len(ss) \in Nat,
         \A k \in 1 .. Len(ss), m \in Name :
            m # n \/ k # Len(ss) => tt[k][m] = ss[k][m],
         scope # None => tt[Len(ss)][n] = scope
  PROVE  Follows(gs, tt, cs)
<1>1. \A j \in 1 .. t : gs[j].kind = fs[j].kind /\ gs[j].accessor = fs[j].accessor
  BY DEF Assigned
<1>2. ASSUME NEW l \in 1 .. t
      PROVE  ScopeAt(gs, l) = ScopeAt(fs, l) /\ ClassAt(gs, l) = ClassAt(fs, l)
  <2>1. \A i \in 1 .. l : gs[i].kind = fs[i].kind
    BY <1>1
  <2> QED
    BY <2>1, CountSame DEF ScopeAt, ClassAt
<1>3. Layout(gs, tt, cs)
  <2>1. t \in 1 .. t /\ 1 \in 1 .. t
    OBVIOUS
  <2>2. /\ ScopeAt(gs, Len(gs)) = ScopeAt(fs, Len(fs))
        /\ ClassAt(gs, Len(gs)) = ClassAt(fs, Len(fs))
    BY <1>2, <2>1
  <2>3. \A j \in 2 .. t : gs[j].kind = fs[j].kind
    BY <1>1
  <2>4. Layout(fs, ss, cs)
    BY DEF Follows
  <2> QED
    BY <1>1, <2>1, <2>2, <2>3, <2>4 DEF Layout
<1>4. ClassesFollow(gs, cs)
  BY <1>1, <1>2 DEF Follows, ClassesFollow
<1>5. ASSUME NEW l \in 1 .. t, NEW m \in Name, NEW body \in {0, l}, NEW h \in 1 .. l,
             Tracked(gs, h, l, body, m), m # n \/ l < around
      PROVE  Tracked(fs, h, l, body, m) /\ gs[h].vars[m] = fs[h].vars[m]
  <2>1. around \in 1 .. t
    BY DEF Around
  <2>2. ASSUME NEW j \in 1 .. l
        PROVE  /\ gs[j].kind = fs[j].kind /\ gs[j].vars[m] = fs[j].vars[m]
               /\ m \in gs[j].lost <=> m \in fs[j].lost
    <3>1. /\ j \in 1 .. t
          /\ m # n \/ j # t
          /\ m # n \/ j < around
      BY <1>5, <2>1
    <3> QED
      BY <3>1 DEF Assigned
  <2>3. /\ h \in 1 .. l
        /\ \A j \in h + 1 .. l : j \in 1 .. l
        /\ \A j \in h .. l : j \in 1 .. l
    OBVIOUS
  <2> QED
    BY <1>5, <2>2, <2>3 DEF Tracked
<1>6. ASSUME NEW l \in 1 .. t
      PROVE  /\ ScopeAt(fs, l) \in 1 .. Len(ss)
             /\ l < around => ScopeAt(fs, l) # Len(ss)
  <2>1. ScopeAt(fs, t) = Len(ss) /\ fs[1].kind \in Running
    BY DEF Follows, Layout, Running
  <2>2. ScopeAt(fs, l) \in 1 .. Len(ss)
    <3>1. 1 \in 1 .. l
      OBVIOUS
    <3> QED
      BY <2>1, <3>1, Placed DEF ScopeAt
  <2>3. l < around => ScopeAt(fs, l) < ScopeAt(fs, t)
    BY OuterScopes
  <2> QED
    BY <2>1, <2>2, <2>3
<1>7. \A l \in around .. t : \A body \in {0, l}, h \in 1 .. l :
         Tracked(gs, h, l, body, n) => l = t /\ h = t /\ n \notin gs[t].lost
  BY TrackedAssigned
<1>8. ScopesFollow(gs, tt)
  <2> SUFFICES ASSUME NEW l \in 1 .. t, NEW m \in Name, NEW body \in {0, l},
                      NEW h \in 1 .. l, Tracked(gs, h, l, body, m)
               PROVE  Matches(tt[ScopeAt(gs, l)][m], gs[h].vars[m])
    BY DEF ScopesFollow
  <2>1. CASE m # n \/ l < around
    <3>1. Tracked(fs, h, l, body, m) /\ gs[h].vars[m] = fs[h].vars[m]
      BY <1>5, <2>1
    <3>2. Matches(ss[ScopeAt(fs, l)][m], fs[h].vars[m])
      BY <3>1 DEF Follows, ScopesFollow
    <3>3. tt[ScopeAt(fs, l)][m] = ss[ScopeAt(fs, l)][m]
      BY <1>6, <2>1
    <3> QED
      BY <1>2, <3>1, <3>2, <3>3
  <2>2. CASE m = n /\ l >= around
    <3>1. l \in around .. t
      BY <2>2 DEF Around
    <3>2. l = t /\ h = t /\ n \notin gs[t].lost
      BY <1>7, <2>2, <3>1
    <3>3. Matches(scope, r) /\ scope # None
      BY <3>2 DEF Matches
    <3>4. ScopeAt(gs, l) = Len(ss)
      BY <1>2, <3>2 DEF Follows, Layout
    <3>5. gs[h].vars[n] = r
      BY <3>2 DEF Assigned
    <3> QED
      BY <2>2, <3>3, <3>4, <3>5
  <2>3. around \in 1 .. t
    BY DEF Around
  <2> QED
    BY <2>1, <2>2, <2>3
<1> QED
  BY <1>3, <1>4, <1>8 DEF Follows

\* There is always one innermost frame that is no class body.
LEMMA AroundChosen ==
  ASSUME NEW fs, NEW t \in Nat \ {0}, DOMAIN fs = 1 .. t, fs[1].kind = "module",
         NEW around,
         around = CHOOSE j \in DOMAIN fs :
                    /\ fs[j].kind # "class"
                    /\ \A i \in j + 1 .. t : fs[i].kind = "class"
  PROVE  Around(fs, around, t)
<1> DEFINE some == {j \in 1 .. t : fs[j].kind # "class"}
<1>1. 1 \in some /\ some \in SUBSET (1 .. t)
  OBVIOUS
<1>2. \A j \in 1 .. t : j \in some <=> fs[j].kind # "class"
  OBVIOUS
<1> HIDE DEF some
<1>3. PICK k \in some : \A i \in some : i <= k
  BY <1>1, LeastAndGreatest
<1>4. /\ k \in DOMAIN fs /\ fs[k].kind # "class"
      /\ \A i \in k + 1 .. t : fs[i].kind = "class"
  <2>1. k \in 1 .. t /\ fs[k].kind # "class"
    BY <1>1, <1>2, <1>3
  <2>2. ASSUME NEW i \in k + 1 .. t PROVE fs[i].kind = "class"
    <3>1. i \in 1 .. t /\ ~(i <= k)
      BY <2>1
    <3> QED
      BY <1>2, <1>3, <3>1
  <2> QED
    BY <2>1, <2>2
<1>5. /\ around \in DOMAIN fs /\ fs[around].kind # "class"
      /\ \A i \in around + 1 .. t : fs[i].kind = "class"
  BY <1>4
<1> QED
  BY <1>5 DEF Around

\* An assignment keeps the invariant.
LEMMA AssignKeeps ==
  ASSUME VisitInv, length < MaxLength - 1, length' = length + 1,
         NEW n \in Name, NEW v \in Value, Assign(n, v)
  PROVE  VisitInv'
<1> DEFINE S == [Name -> Scopes \cup {None}]
           scope  == Resolve(v)
           r      == Result(v)
           around == CHOOSE j \in DOMAIN frames :
                        /\ frames[j].kind # "class"
                        /\ \A i \in j + 1 .. Top : frames[i].kind = "class"
           read   == IF Binds(v) THEN Reading(v.base, FALSE) ELSE frames
           loses(j) == (j = Top /\ ~Followed(v)) \/ j \in around .. Top - 1
           value(j) == IF j = Top THEN r ELSE read[j].vars[n]
           lost(j)  == IF loses(j) THEN read[j].lost \cup {n}
                       ELSE IF j = Top THEN read[j].lost \ {n} ELSE read[j].lost
           new(j) == [read[j] EXCEPT !.vars = [@ EXCEPT ![n] = value(j)], !.lost = lost(j)]
<1>1. /\ Binds(v) => Evaluable(v.base, FALSE)
      /\ scopes' = IF scope = None THEN scopes
                   ELSE [scopes EXCEPT ![Len(scopes)][n] = scope]
      /\ call' = None /\ UNCHANGED <<file, classes, known, defined>>
  BY DEF Assign
<1>2. frames' = [j \in DOMAIN frames |-> new(j)]
  BY DEF Assign
<1>3. /\ Top = Len(frames) /\ Top \in Nat \ {0} /\ frames \in Seq(Frames)
      /\ DOMAIN frames = 1 .. Top
      /\ scopes \in Seq(S) /\ Follows(frames, scopes, classes)
      /\ Len(scopes) \in Nat \ {0}
  BY Stacks
<1>4. /\ scope \in Scopes \cup {None} /\ r \in Loggers /\ r # None
      /\ Followed(v) => Matches(scope, r)
  <2>1. ScannerTypeOK
    BY DEF VisitInv
  <2>2. scope \in Scopes \cup {None} /\ r \in Loggers /\ (Followed(v) => Matches(scope, r))
    BY <1>1, <1>3, <2>1, ValueMatches
  <2> QED
    BY <2>2, NoneAssumption
<1>5. read \in Seq(Frames) /\ Len(read) = Top /\ Same(frames, read, Top)
  <2>1. CASE Binds(v)
    <3>1. v.base \in Name
      BY <2>1 DEF Value, Binds
    <3> QED
      BY <2>1, <3>1, ReadingBars DEF VisitInv
  <2>2. CASE ~Binds(v)
    BY <1>3, <2>2 DEF Same
  <2> QED
    BY <2>1, <2>2
<1>6. Around(frames, around, Top)
  <2>1. frames[1].kind = "module"
    BY <1>3 DEF Follows, Layout
  <2> QED
    BY <1>3, <2>1, AroundChosen
<1> HIDE DEF S, scope, r, around, read
<1>7. ASSUME NEW j \in 1 .. Top
      PROVE  /\ new(j) \in Frames
             /\ new(j).kind = frames[j].kind /\ new(j).accessor = frames[j].accessor
             /\ new(j).vars = [frames[j].vars EXCEPT ![n] = value(j)]
             /\ new(j).lost = lost(j)
             /\ frames[j].vars \in [Name -> Loggers \cup {None}]
  <2> DEFINE f == read[j]
  <2>1. /\ f \in Frames /\ f.kind = frames[j].kind /\ f.accessor = frames[j].accessor
        /\ f.vars = frames[j].vars
    BY <1>5 DEF Same
  <2> HIDE DEF f
  <2>2. f.vars \in [Name -> Loggers \cup {None}] /\ f.lost \in SUBSET Name
    BY <2>1 DEF Frames
  <2>3. value(j) \in Loggers \cup {None}
    BY <1>4, <2>2 DEF f
  <2>4. lost(j) \in SUBSET Name
    BY <2>2 DEF f
  <2>5. new(j) = [f EXCEPT !.vars = [f.vars EXCEPT ![n] = value(j)], !.lost = lost(j)]
    BY DEF f
  <2> HIDE DEF value, lost, new
  <2>6. [f.vars EXCEPT ![n] = value(j)] \in [Name -> Loggers \cup {None}]
    BY <2>2, <2>3
  <2> QED
    BY <2>1, <2>2, <2>4, <2>5, <2>6 DEF Frames
<1>8. ASSUME NEW j \in 1 .. Top
      PROVE  /\ j = Top => value(j) = r
             /\ j # Top => value(j) = frames[j].vars[n]
             /\ \A m \in Name :
                   m # n \/ j < around => (m \in lost(j) <=> m \in frames[j].lost)
             /\ j \in around .. Top - 1 => n \in lost(j)
             /\ j = Top /\ ~Followed(v) => n \in lost(j)
  <2>1. around \in 1 .. Top
    BY <1>6 DEF Around
  <2>2. read[j].vars = frames[j].vars /\ read[j].lost = frames[j].lost
    BY <1>5 DEF Same
  <2>3. j < around => j # Top /\ ~loses(j)
    BY <1>3, <2>1
  <2> QED
    BY <2>2, <2>3
<1> HIDE DEF value, lost, new
<1>9. /\ \A j \in 1 .. Top : frames'[j] = new(j)
      /\ frames' \in Seq(Frames) /\ Len(frames') = Top
  <2>1. frames' = [j \in 1 .. Top |-> new(j)]
    BY <1>2, <1>3
  <2>2. DOMAIN frames' = 1 .. Top /\ \A j \in 1 .. Top : frames'[j] = new(j)
    BY <2>1
  <2>3. frames' = [j \in 1 .. Top |-> frames'[j]]
    BY <2>1
  <2>4. \A j \in 1 .. Top : frames'[j] \in Frames
    BY <1>7, <2>2
  <2>5. frames' \in Seq(Frames) /\ Len(frames') = Top
    BY <1>3, <2>2, <2>3, <2>4
  <2> QED
    BY <2>2, <2>5
<1>10. Assigned(frames, frames', n, Top, around, r)
  <2>1. ASSUME NEW j \in 1 .. Top
        PROVE  /\ frames'[j].kind = frames[j].kind
               /\ frames'[j].accessor = frames[j].accessor
               /\ \A m \in Name :
                     /\ m # n \/ j # Top => frames'[j].vars[m] = frames[j].vars[m]
                     /\ m # n \/ j < around
                          => (m \in frames'[j].lost <=> m \in frames[j].lost)
               /\ j = Top => frames'[j].vars[n] = r
               /\ j \in around .. Top - 1 => n \in frames'[j].lost
    <3> DEFINE g == frames'[j]
    <3>1. /\ g.kind = frames[j].kind /\ g.accessor = frames[j].accessor
          /\ g.vars = [frames[j].vars EXCEPT ![n] = value(j)] /\ g.lost = lost(j)
          /\ frames[j].vars \in [Name -> Loggers \cup {None}]
      BY <1>7, <1>9
    <3>2. /\ j = Top => value(j) = r
          /\ j # Top => value(j) = frames[j].vars[n]
      BY <1>8
    <3>3. \A m \in Name : m # n \/ j < around => (m \in g.lost <=> m \in frames[j].lost)
      BY <1>8, <3>1
    <3>4. j \in around .. Top - 1 => n \in g.lost
      BY <1>8, <3>1
    <3> HIDE DEF g
    <3>5. g.vars[n] = value(j) /\ \A m \in Name : m # n => g.vars[m] = frames[j].vars[m]
      BY <3>1
    <3> QED
      BY <3>1, <3>2, <3>3, <3>4, <3>5 DEF g
  <2>2. Top \in 1 .. Top /\ \A j \in around .. Top - 1 : j \in 1 .. Top
    BY <1>3, <1>6 DEF Around
  <2> QED
    BY <2>1, <2>2 DEF Assigned
<1>11. n \notin frames'[Top].lost => Matches(scope, r)
  <2>1. Top \in 1 .. Top
    BY <1>3
  <2>2. frames'[Top].lost = lost(Top)
    BY <1>7, <1>9, <2>1
  <2>3. ~Followed(v) => n \in lost(Top)
    BY <1>8, <2>1
  <2> QED
    BY <1>4, <2>2, <2>3
<1>12. /\ scopes' \in Seq(S) /\ Len(scopes') = Len(scopes)
       /\ \A k \in 1 .. Len(scopes), m \in Name :
             m # n \/ k # Len(scopes) => scopes'[k][m] = scopes[k][m]
       /\ scope # None => scopes'[Len(scopes)][n] = scope
  <2>1. CASE scope = None
    BY <1>1, <1>3, <2>1
  <2>2. CASE scope # None
    <3> DEFINE l == Len(scopes)
               last == [scopes[l] EXCEPT ![n] = scope]
    <3>1. scopes' = [scopes EXCEPT ![l] = last]
      BY <1>1, <2>2
    <3>2. l \in 1 .. Len(scopes) /\ scopes[l] \in S
      BY <1>3
    <3>3. /\ last \in S /\ last[n] = scope
          /\ \A m \in Name : m # n => last[m] = scopes[l][m]
      BY <1>4, <3>2 DEF S
    <3> HIDE DEF last, l
    <3>4. /\ scopes' \in Seq(S) /\ Len(scopes') = Len(scopes) /\ scopes'[l] = last
          /\ \A k \in 1 .. Len(scopes) : k # l => scopes'[k] = scopes[k]
      BY <1>3, <3>1, <3>2, <3>3
    <3> QED
      BY <3>3, <3>4 DEF l
  <2> QED
    BY <2>1, <2>2
<1>13. Follows(frames', scopes', classes)
  <2>1. \A j \in 1 .. Top : frames[j].kind \in {"module", "class", "function"}
    <3>1. \A j \in 1 .. Top : frames[j] \in Frames
      BY <1>3
    <3> QED
      BY <3>1 DEF Frames
  <2>2. Len(frames) = Top /\ Len(scopes) \in Nat
    BY <1>3
  <2> QED
    BY <1>3, <1>4, <1>6, <1>9, <1>10, <1>11, <1>12, <2>1, <2>2, AssignedFollows
<1>14. ScannerTypeOK'
  <2>1. Top' = Top
    BY <1>9 DEF Top
  <2>2. length' \in 0 .. MaxLength
    BY BoundAssumption DEF VisitInv, ScannerTypeOK
  <2> QED
    BY <1>1, <1>9, <1>12, <2>1, <2>2 DEF VisitInv, ScannerTypeOK, S
<1>15. KnownFollow'
  BY <1>1 DEF VisitInv, KnownFollow
<1> QED
  BY <1>1, <1>13, <1>14, <1>15 DEF VisitInv, CatalogueMatchesTelemetry

\* The invariant holds in every state that the visitor reaches.
LEMMA VisitInvariant == VisitSpec => []VisitInv
<1>1. VisitInit => VisitInv
  BY InitVisit
<1>2. VisitInv /\ [VisitNext]_visitVars => VisitInv'
  <2> SUFFICES ASSUME VisitInv, [VisitNext]_visitVars PROVE VisitInv'
    OBVIOUS
  <2>1. ASSUME length' = length + 1, length < MaxLength - 1,
               NEW n \in Name, NEW v \in Value, Assign(n, v)
        PROVE  VisitInv'
    BY <2>1, AssignKeeps
  <2>2. ASSUME length' = length + 1, length < MaxLength - 1,
               NEW c \in Class, NEW bases \in Bases,
               NEW own \in {None, Opaque} \cup Target(Name), EnterClass(c, own, bases)
        PROVE  VisitInv'
    BY <2>2, EnterClassKeeps
  <2>3. ASSUME length' = length + 1, length < MaxLength - 1,
               NEW parameters \in SUBSET Name, EnterFunction(parameters)
        PROVE  VisitInv'
    BY <2>3, EnterFunctionKeeps
  <2>4. ASSUME length' = length + 1, length < MaxLength - 1, LeaveScope
        PROVE  VisitInv'
    BY <2>4, LeaveScopeKeeps
  <2>5. ASSUME length' = length + 1, length < MaxLength,
               NEW target \in Target(Name \cup {"self"}), NEW literal \in BOOLEAN,
               NEW args \in BOOLEAN, NEW kwargs \in CallKeys,
               EmitCall(target, literal, args, kwargs)
        PROVE  VisitInv'
    BY <2>5, EmitKeeps
  <2>6. CASE UNCHANGED visitVars
    <3>1. UNCHANGED <<file, scopes, classes, known, frames, defined, call, length>>
      BY <2>6 DEF visitVars, visitor, python
    <3>2. ScannerTypeOK'
      BY <3>1 DEF VisitInv, ScannerTypeOK, Top
    <3>3. Follows(frames, scopes, classes)' /\ KnownFollow'
      BY <3>1 DEF VisitInv, KnownFollow
    <3>4. CatalogueMatchesTelemetry'
      BY <3>1 DEF VisitInv, CatalogueMatchesTelemetry
    <3> QED
      BY <3>2, <3>3, <3>4 DEF VisitInv
  <2> QED
    BY <2>1, <2>2, <2>3, <2>4, <2>5, <2>6 DEF VisitNext
<1> QED
  BY <1>1, <1>2, PTL DEF VisitSpec

\* A logging call on a logger that the visitor claims to follow is in the
\* catalogue, under the name and with the attributes that make_structlog_otel_
\* processor sends: for any names, any classes of up to two bases, any depth of
\* nesting, any statements in any order, whatever the context and baggage hold.
THEOREM CatalogueIsWhatArrives == VisitSpec => []CatalogueMatchesTelemetry
<1>1. VisitInv => CatalogueMatchesTelemetry
  BY DEF VisitInv
<1> QED
  BY <1>1, VisitInvariant, PTL

\* Both readings of a file stay within the ranges of their variables.
THEOREM ScannerTypeCorrect == VisitSpec => []ScannerTypeOK
<1>1. VisitInv => ScannerTypeOK
  BY DEF VisitInv
<1> QED
  BY <1>1, VisitInvariant, PTL

=============================================================================
