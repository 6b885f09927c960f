----------------------------- MODULE MCProcess -----------------------------
(* Small instances for TLC of what one process does: `docgen events`, of one *)
(* file, statement by statement (EventScanner), or of a tree of apps         *)
(* (EventCatalogue); the reads of an API (ReplicaSelection); and what is set *)
(* up around any command (CliEnvironment).  They share no variable: a        *)
(* behaviour is one of them.                                                 *)
EXTENDS EventCatalogue, EventScanner, ReplicaSelection, CliEnvironment, TLC

VARIABLE part

Dotting  == "org__id" :> "org.id" @@ "feature__id" :> "feature.id"
Symmetry == Permutations(Name) \cup Permutations(Class)

Given(names, starred) == {Keyword(k, TRUE) : k \in names} \cup {Keyword(k, FALSE) : k \in starred}
Starting == {Given({"team"}, {})}
Binding  == {{}, Given({"feature__id"}, {"trace_id"})}
Calling  == {Given({"org__id", "pid", "exc_info"}, {"stack_info"})}

Installed == << [path |-> <<"outer">>, label |-> "outer"],
                [path |-> <<"outer", "inner">>, label |-> "inner"],
                [path |-> <<"tp">>, label |-> "task_processor"] >>
Tree == << <<"outer", "inner", "management", "commands", "run">>,
           <<"outer", "inner", "models">>,
           <<"outer", "management", "commands", "load">>,
           <<"outer", "tests", "data">>,
           <<"outer", "test_models">>,
           <<"outer", "views">>,
           <<"tp", "management", "commands", "run">> >>
Found(name, level, attributes, line) ==
    [name |-> name, level |-> level, attributes |-> attributes, line |-> line]
Contents == { << >>,
              << Found("e", "info", {"a"}, 1) >>,
              << Found("e", "error", {"b"}, 1), Found("f", "info", {}, 2) >>,
              << Found("f", "info", {"a"}, 1), Found("f", "info", {"b"}, 1) >> }

LocalNames == <<"replica_1", "replica_2">>
OtherNames == <<"cross_region_replica_1">>

OneFile == file = "module"
NoReads == ReadInit /\ strategy = "SEQUENTIAL" /\ reachable = {}
NoLife  == LifeInit /\ otel = FALSE /\ logLevel = INFO /\ appsNamed = FALSE

ProcessInit ==
    /\ Init /\ VisitInit /\ ReadInit /\ LifeInit
    /\ part \in {"file", "tree", "reads", "life"}
    /\ part # "file" => OneFile
    /\ part # "reads" => NoReads
    /\ part # "life" => NoLife

\* Bound: files that end in a call, and of the longest those whose call is in a
\* method of a class that has an accessor and has no positional arguments.
Bounded ==
    /\ length = MaxLength - 2 => call' # None \/ HasAccessor'
    /\ length = MaxLength - 1 => HasAccessor /\ call' # None /\ ~call'.args

ProcessNext ==
    /\ UNCHANGED part
    /\ \/ part = "file" /\ VisitNext /\ Bounded /\ UNCHANGED <<vars, readVars, lifeVars>>
       \/ part = "tree" /\ Next /\ UNCHANGED <<visitVars, readVars, lifeVars>>
       \/ part = "reads" /\ ReadNext /\ UNCHANGED <<vars, visitVars, lifeVars>>
       \/ part = "life" /\ LifeNext /\ UNCHANGED <<vars, visitVars, readVars>>

ProcessSpec ==
    ProcessInit /\ [][ProcessNext]_<<part, vars, visitVars, readVars, lifeVars>>
=============================================================================
