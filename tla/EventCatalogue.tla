--------------------------- MODULE EventCatalogue ---------------------------
(* `flagsmith docgen events`: the files of every installed app are scanned,  *)
(* app after app, and then the entries merged by the name of the event.  An  *)
(* app may lie in the tree of another: its files are then read twice.        *)
EXTENDS Naturals, Sequences

CONSTANTS
    Apps,    \* the installed apps in order, [path, label]
    Files,   \* all paths in sorted order, sequences of parts
    TestName,\* names of files that are conftest.py or start with test_
    Sources  \* what a file may hold, sequences of events

ASSUME CatalogueAssumption ==
    /\ Apps \in Seq([path : Seq(STRING), label : STRING])
    /\ Files \in Seq(Seq(STRING))
    /\ Sources \subseteq Seq([name : STRING, level : STRING,
                             attributes : SUBSET STRING, line : Nat])

VARIABLES
    source,  \* [files read so far -> Sources]
    app,     \* the app whose tree is walked
    next,    \* the file that comes next in it
    entries, \* what the scanner yielded
    merges,  \* how many of them are merged
    merged,  \* [names -> an EventEntry]
    warned   \* names warned of for their levels

walk  == <<source, app, next, entries>>
merge == <<merges, merged, warned>>
vars  == <<walk, merge>>

IsUnder(path, root) ==
    Len(path) > Len(root) /\ SubSeq(path, 1, Len(root)) = root
Relative(path, root) == SubSeq(path, Len(root) + 1, Len(path))

\* Mutant of ShouldSkip: commands are looked for at any depth.
SkipCommandsAnywhere(relative, label) ==
    \/ \E k \in 1 .. Len(relative) - 1 : relative[k] \in {"migrations", "tests"}
    \/ relative[Len(relative)] \in TestName
    \/ /\ \E k \in 1 .. Len(relative) - 2 :
             relative[k] = "management" /\ relative[k + 1] = "commands"
       /\ label # "task_processor"

ShouldSkip(relative, label) ==
    \/ \E k \in 1 .. Len(relative) - 1 : relative[k] \in {"migrations", "tests"}
    \/ relative[Len(relative)] \in TestName
    \/ /\ Len(relative) >= 3
       /\ relative[1] = "management" /\ relative[2] = "commands"
       /\ label # "task_processor"

Scanned(f, a) == /\ IsUnder(Files[f], Apps[a].path)
                 /\ ~ShouldSkip(Relative(Files[f], Apps[a].path), Apps[a].label)

Located(f, found) ==
    [k \in DOMAIN found |->
       [name |-> found[k].name, level |-> found[k].level,
        attributes |-> found[k].attributes, location |-> <<f, found[k].line>>]]

Init ==
    /\ source = << >> /\ app = 1 /\ next = 1 /\ entries = << >>
    /\ merges = 0 /\ merged = << >> /\ warned = {}

Collecting == app <= Len(Apps)

\* A turn of the loop of get_event_entries_from_tree.
ScanFile ==
    /\ Collecting /\ next <= Len(Files)
    /\ next' = next + 1
    /\ IF Scanned(next, app)
       THEN \E found \in IF next \in DOMAIN source THEN {source[next]} ELSE Sources :
              /\ source' = [f \in DOMAIN source \cup {next} |->
                             IF f = next THEN found ELSE source[f]]
              /\ entries' = entries \o Located(next, found)
       ELSE UNCHANGED <<source, entries>>
    /\ UNCHANGED <<app, merge>>

NextApp ==
    /\ Collecting /\ next > Len(Files)
    /\ app' = app + 1 /\ next' = 1
    /\ UNCHANGED <<source, entries, merge>>

Occurs(x, seq) == \E k \in DOMAIN seq : seq[k] = x

\* Mutant of Collapse: the attributes are those of the first entry.
CollapseLocations(old, e) ==
    [old EXCEPT !.locations = IF Occurs(e.location, @) THEN @
                              ELSE Append(@, e.location)]

\* An entry of a name that is known: the first level stays.
Collapse(old, e) ==
    [old EXCEPT !.attributes = @ \cup e.attributes,
                !.locations = IF Occurs(e.location, @) THEN @
                              ELSE Append(@, e.location)]

\* A turn of the loop of merge_event_entries.
MergeEntry ==
    /\ ~Collecting /\ merges < Len(entries)
    /\ merges' = merges + 1
    /\ LET e       == entries[merges + 1]
           isKnown == e.name \in DOMAIN merged
       IN  /\ merged' = [n \in DOMAIN merged \cup {e.name} |->
                CASE n # e.name -> merged[n]
                  [] n = e.name /\ isKnown -> Collapse(merged[n], e)
                  [] OTHER -> [level |-> e.level, attributes |-> e.attributes,
                               locations |-> <<e.location>>]]
           /\ warned' = IF isKnown /\ merged[e.name].level # e.level
                        THEN warned \cup {e.name} ELSE warned
    /\ UNCHANGED walk

Next == ScanFile \/ NextApp \/ MergeEntry

Spec == Init /\ [][Next]_vars

-----------------------------------------------------------------------------
(* Properties.                                                               *)

\* The entries merged so far that have a name.
Of(n) == {k \in 1 .. merges : entries[k].name = n}

\* The attributes and locations of all its entries, the level of the first,
\* and a warning if and only if another has a different one.
Summarised(n) ==
    /\ merged[n].attributes = UNION {entries[k].attributes : k \in Of(n)}
    /\ {merged[n].locations[i] : i \in DOMAIN merged[n].locations}
          = {entries[k].location : k \in Of(n)}
    /\ \E first \in Of(n) :
          /\ \A k \in Of(n) : first <= k
          /\ merged[n].level = entries[first].level
    /\ n \in warned <=> \E k \in Of(n) : entries[k].level # merged[n].level

\* An event lists a location once, though nested apps have it scanned twice.
LocationsOnce ==
    \A n \in DOMAIN merged : \A i, j \in DOMAIN merged[n].locations :
       merged[n].locations[i] = merged[n].locations[j] => i = j

\* merge_event_entries loses nothing, makes nothing up and repeats nothing,
\* whatever order the entries of an event come in.
MergeFaithful ==
    /\ DOMAIN merged = {entries[k].name : k \in 1 .. merges}
    /\ \A n \in DOMAIN merged : Summarised(n)
    /\ LocationsOnce

\* Once all is merged, the catalogue has each event of a file, at its line, if
\* and only if some app's tree has the file outside migrations, tests and its
\* own commands; the commands of a nested app are in by way of the outer.
CatalogueOfTheTree ==
    ~Collecting /\ merges = Len(entries) =>
       \A f \in DOMAIN Files :
          /\ f \in DOMAIN source <=> \E a \in DOMAIN Apps :
               LET parts == Relative(Files[f], Apps[a].path)
               IN  /\ IsUnder(Files[f], Apps[a].path)
                   /\ \A k \in 1 .. Len(parts) - 1 :
                         parts[k] \notin {"migrations", "tests"}
                   /\ parts[Len(parts)] \notin TestName
                   /\ Apps[a].label = "task_processor" \/ Len(parts) < 3
                        \/ SubSeq(parts, 1, 2) # <<"management", "commands">>
          /\ f \in DOMAIN source => \A k \in DOMAIN source[f] :
               /\ source[f][k].name \in DOMAIN merged
               /\ Occurs(<<f, source[f][k].line>>,
                         merged[source[f][k].name].locations)
=============================================================================
