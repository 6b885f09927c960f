---------------------------- MODULE EventScanner ----------------------------
(* The event catalogue's _ScopeVisitor reading one file, statement by        *)
(* statement, beside what Python makes of the same statements, and the way   *)
(* a logged event takes to OpenTelemetry and to the JSON log.                *)
EXTENDS Naturals, Sequences, FiniteSets, SequencesExt

CONSTANTS
    None,      \* no value
    Name,      \* variables that hold loggers
    Initial,   \* sets of keywords that get_logger may have
    BindKeys,  \* sets of keywords that a bind may have
    CallKeys,  \* sets of keywords that a logging call may have
    Dots,      \* [keys with a double underscore -> the key with a dot]
    Literal,   \* domains given to get_logger as a string
    Class,     \* names of classes
    Context,   \* keys of structlog's context variables
    Baggage,   \* keys of the W3C baggage
    MaxDepth,  \* bound: nested classes and functions, the module included
    MaxLength  \* bound: statements of the file, their ends included

VARIABLES
    file,    \* "module", or "package" for an __init__.py
    scopes,  \* the visitor's _scope_stack
    classes, \* its _class_stack, for one name of an accessor
    known,   \* its _module_classes
    frames,  \* what Python knows, for every scope that is open
    defined, \* [Class -> the module's class of that name]
    call,    \* the call just visited
    length   \* statements visited

visitor == <<scopes, classes, known>>
python  == <<frames, defined>>
visitVars == <<file, visitor, python, call, length>>

Dotted(k)  == IF k \in DOMAIN Dots THEN Dots[k] ELSE k
Mapped(ks) == {Dotted(k) : k \in ks}

\* A keyword argument: `named` unless `**` brings it.
Keyword(k, named) == [key |-> k, named |-> named]
KeysOf(ws) == {w.key : w \in ws}
Named(ws)  == {w \in ws : w.named}
Unseen(ws) == {Keyword(w.key, FALSE) : w \in ws}

\* _kwargs_as_attributes.
Attributes(ws) == Mapped(KeysOf(Named(ws)))

\* A logger as the visitor tracks it, and as it is.
Scope(domain, attrs) == [domain |-> domain, attrs |-> attrs]
Logger(domain, attrs, explicit) ==
    [domain |-> domain, attrs |-> attrs, explicit |-> explicit]

\* A target of a call: a variable or self's accessor, and the binds after it.
Target(bases) == [base : bases, chain : BindKeys]

\* A method that does more than return such a target.
Opaque == [base |-> "opaque", chain |-> {}]

\* What is assigned: get_logger with initial values, a bind, or else
\* ("dynamic") something that the visitor knows nothing of.
Value == [form : {"seed"}, domain : Literal \cup {"__name__", "no argument"}, keys : Initial]
           \cup [form : {"seed"}, domain : {"dynamic"}, keys : {{}}]
           \cup [form : {"bind", "bind twice"}, base : Name, keys : BindKeys \ {{}}]

Binds(v) == v.form \in {"bind", "bind twice"}

\* What loggers and scopes are made of.
Keywords == UNION (Initial \cup BindKeys \cup CallKeys)
Scopes   == [domain : Literal \cup {"", "pkg.mod", "pkg.__init__"},
             attrs : SUBSET Attributes(Keywords)]
Loggers  == [domain : Literal \cup {"pkg", "pkg.mod", "elsewhere"},
             attrs : SUBSET (Keywords \cup Unseen(Keywords)), explicit : BOOLEAN]

\* The first that is something, if any is.
First(seq) ==
    LET some == {k \in DOMAIN seq : seq[k] # None}
    IN  IF some = {} THEN None ELSE seq[CHOOSE k \in some : \A i \in some : k <= i]

-----------------------------------------------------------------------------
(* What the visitor makes of it.                                             *)

ModuleDotted == IF file = "module" THEN "pkg.mod" ELSE "pkg.__init__"

Chained(scope, keys) ==
    IF scope = None THEN None
    ELSE Scope(scope.domain, scope.attrs \cup Attributes(keys))

ScopeForEmitTarget(target) ==
    Chained(CASE target.base # "self" -> Last(scopes)[target.base]
              [] target.base = "self" /\ classes # << >> -> Last(classes)
              [] OTHER -> None,
            target.chain)

\* Initial values are not looked at.
ResolveSeed(v) ==
    CASE v.domain = "dynamic"     -> None
      [] v.domain = "no argument" -> Scope("", {})
      [] v.domain = "__name__"    -> Scope(ModuleDotted, {})
      [] OTHER                    -> Scope(v.domain, {})

\* Only a bind on a plain name is followed.
Resolve(v) == CASE v.form = "seed" -> ResolveSeed(v)
                [] v.form = "bind" -> Chained(Last(scopes)[v.base], v.keys)
                [] OTHER           -> None

\* The class's own method if that returns a tracked logger, or else the
\* first base's of this file.
ClassScope(own, bases) ==
    LET mine == IF own \in {None, Opaque} THEN None ELSE ScopeForEmitTarget(own)
    IN  IF mine # None THEN mine ELSE First([k \in DOMAIN bases |-> known[bases[k]]])

\* The event's own name, after that of its logger if there is one.
GetOtelEventName(loggerName, body) ==
    IF loggerName = "" THEN <<body>> ELSE <<loggerName, body>>

Entries == [name : {GetOtelEventName(scope.domain, "event") : scope \in Scopes},
            attributes : SUBSET Attributes(Keywords)]

BuildEntry(target, kwargs) ==
    LET scope == ScopeForEmitTarget(target)
    IN  IF scope = None THEN None
        ELSE [name |-> GetOtelEventName(scope.domain, "event"),
              attributes |-> scope.attrs \cup Attributes(kwargs)]

-----------------------------------------------------------------------------
(* What Python makes of it.                                                  *)

Top == Len(frames)
PythonName == IF file = "module" THEN "pkg.mod" ELSE "pkg"

Frame(kind, accessor) ==
    [kind |-> kind, accessor |-> accessor, vars |-> [n \in Name |-> None],
     lost |-> {}, barred |-> {}]

\* Class bodies are no scopes for what is inside them.
Holder(n, inMethod) ==
    LET has == {j \in DOMAIN frames :
                  /\ frames[j].vars[n] # None
                  /\ frames[j].kind # "class" \/ (j = Top /\ ~inMethod)}
    IN  IF has = {} THEN 0 ELSE CHOOSE j \in has : \A i \in has : i <= j

\* Every assignment of n that the visitor may have on its mind was one that
\* it follows, and is the one that Python sees.
Intact(n, inMethod) ==
    \A j \in Holder(n, inMethod) .. Top : n \notin frames[j].lost

\* Functions run later, and a name is local to all of a function or to none:
\* the names they read from outside are not assigned any more.
Reading(n, inMethod) ==
    LET h == Holder(n, inMethod)
        Runs(j) == frames[j].kind = "function"
        later == inMethod \/ \E j \in h + 1 .. Top : Runs(j)
    IN  [j \in DOMAIN frames |->
           IF (j > h /\ Runs(j)) \/ (j = h /\ later)
           THEN [frames[j] EXCEPT !.barred = @ \cup {n}] ELSE frames[j]]

Bound(logger, keys) == [logger EXCEPT !.attrs = @ \cup keys]
Elsewhere == Logger("elsewhere", {}, FALSE)

Evaluate(n, inMethod, keys) ==
    Bound(frames[Holder(n, inMethod)].vars[n], keys)

\* structlog names a logger without a name after the module that calls it,
\* and binds the initial values.
Result(v) ==
    IF Binds(v) THEN Evaluate(v.base, FALSE, v.keys)
    ELSE CASE v.domain = "dynamic"     -> Elsewhere
           [] v.domain = "no argument" -> Logger(PythonName, Unseen(v.keys), FALSE)
           [] v.domain = "__name__"    -> Logger(PythonName, Unseen(v.keys), file = "module")
           [] OTHER                    -> Logger(v.domain, Unseen(v.keys), TRUE)

\* The assignments that the visitor claims to follow.
Followed(v) == \/ v.form = "seed" /\ v.domain # "dynamic"
               \/ v.form = "bind" /\ Intact(v.base, FALSE)

Accessor(logger, intact) == [logger |-> logger, intact |-> intact]
Accessors == [logger : Loggers, intact : BOOLEAN]

\* The accessor that a class has: its own, or the first base's that has one.
OwnOrInherited(own, bases) ==
    CASE own = None   -> First([k \in DOMAIN bases |-> defined[bases[k]].accessor])
      [] own = Opaque -> Accessor(Elsewhere, FALSE)
      [] OTHER -> Accessor(Evaluate(own.base, TRUE, own.chain), Intact(own.base, TRUE))

InnermostClass ==
    LET cs == {j \in DOMAIN frames : frames[j].kind = "class"}
    IN  IF cs = {} THEN 0 ELSE CHOOSE j \in cs : \A i \in cs : i <= j

\* `self` is the first parameter of a method around this statement.
HasAccessor ==
    /\ InnermostClass \in 1 .. Top - 1
    /\ frames[InnermostClass].accessor # None
Self == frames[InnermostClass].accessor

-----------------------------------------------------------------------------
(* The way of an event: who wrote each key.                                  *)

From(keys, who) == [k \in keys |-> who]
f ++ g == [k \in DOMAIN f \cup DOMAIN g |-> IF k \in DOMAIN g THEN g[k] ELSE f[k]]
Without(f, keys) == [k \in DOMAIN f \ keys |-> f[k]]

\* PositionalArgumentsFormatter: the event with its positional arguments.
Body(args) == IF args THEN "formatted event" ELSE "event"

\* What the processors may write for one call but not for another: the ids of
\* a span that is active, an exception (the method `exception` needs no
\* exc_info) and the stack, if it is asked for.
Written(keys) ==
    {ids \cup exc \cup stack :
       ids \in {{}, {"trace_id", "span_id"}}, exc \in {{}, {"exception"}},
       stack \in {{}} \cup (IF "stack_info" \in keys \cup Context THEN {{"stack"}} ELSE {})}

\* What they take away.
Consumed == {"positional_args", "stack_info", "exc_info"}

\* The processors that setup_structlog and ensure_cli_env put before ours.
EventDict(keys, written) ==
    Without(From(Context, "context") ++ From(keys, "call"), Consumed)
      ++ From({"event", "logger", "level", "timestamp"} \cup written, "structlog")

RESERVED_KEYS == {"event", "level", "timestamp", "logger", "trace_id", "span_id"}
Plain == RESERVED_KEYS \cup Consumed \cup {"exception", "stack"}

\* Keys are names in Python and hold no dot, so that two never get the same
\* one; structlog's own have no double underscore.
ASSUME KeyAssumption ==
    /\ \A j, k \in KeysOf(Keywords) \cup Context \cup Plain : Dotted(j) = Dotted(k) => j = k
    /\ DOMAIN Dots \cap Plain = {}
ASSUME NameAssumption == "self" \notin Name
ASSUME NoneAssumption ==
    None \notin Scopes \cup Loggers \cup Accessors \cup Entries \cup {Opaque}
ASSUME BoundAssumption == MaxDepth \in Nat \ {0} /\ MaxLength \in Nat

\* make_structlog_otel_processor: baggage is copied over the attributes.
OtelAttributes(dict) ==
    LET kept == DOMAIN dict \ RESERVED_KEYS
    IN  [a \in Mapped(kept) |-> dict[CHOOSE k \in kept : Dotted(k) = a]]
          ++ From(Baggage, "baggage") ++ From({"flagsmith.event"}, "structlog")

Popped == {"event", "level", "logger", "positional_args", "exception"}

JsonRecord(dict) ==
    From({"message", "levelname", "logger_name", "pid", "thread_name"}
           \cup (IF "exception" \in DOMAIN dict THEN {"exc_info"} ELSE {}),
         "record")

\* Mutant of JsonLine: record.update(event_dict).
CallOverRecord(dict) == JsonRecord(dict) ++ Without(dict, Popped)

\* map_event_to_json_record: event_dict.update(record).
JsonLine(dict) == Without(dict, Popped) ++ JsonRecord(dict)

-----------------------------------------------------------------------------
VisitInit ==
    /\ file \in {"module", "package"}
    /\ scopes = << [n \in Name |-> None] >>
    /\ classes = << >>
    /\ known = [c \in Class |-> None]
    /\ frames = << Frame("module", None) >>
    /\ defined = [c \in Class |-> None]
    /\ call = None
    /\ length = 0

Evaluable(n, inMethod) == Holder(n, inMethod) > 0

\* visit_Assign.  In a class body the visitor writes into the scope around it.
Assign(n, v) ==
    /\ n \notin frames[Top].barred
    /\ Binds(v) => Evaluable(v.base, FALSE)
    \* Or else the name is local, and has no value yet.
    /\ Binds(v) /\ v.base = n /\ frames[Top].kind = "function"
          => Holder(n, FALSE) = Top
    /\ LET scope  == Resolve(v)
           around == CHOOSE j \in DOMAIN frames :
                        /\ frames[j].kind # "class"
                        /\ \A i \in j + 1 .. Top : frames[i].kind = "class"
           read   == IF Binds(v) THEN Reading(v.base, FALSE) ELSE frames
           loses(j) == (j = Top /\ ~Followed(v)) \/ j \in around .. Top - 1
       IN  /\ scopes' = IF scope = None THEN scopes
                        ELSE [scopes EXCEPT ![Len(scopes)][n] = scope]
           /\ frames' = [j \in DOMAIN frames |->
                [read[j] EXCEPT
                   !.vars[n] = IF j = Top THEN Result(v) ELSE @,
                   !.lost = IF loses(j) THEN @ \cup {n}
                            ELSE IF j = Top THEN @ \ {n} ELSE @]]
    /\ call' = None
    /\ UNCHANGED <<file, classes, known, defined>>

\* visit_ClassDef, up to its body.  The bases are classes of the module, and
\* no class inside another scope has the name of one.
EnterClass(c, own, bases) ==
    /\ Top < MaxDepth
    /\ Top > 1 => defined[c] = None
    /\ \A k \in DOMAIN bases : defined[bases[k]] # None
    /\ \A i, j \in DOMAIN bases :
          i < j => bases[i] # bases[j] /\ bases[i] \notin defined[bases[j]].bases
    /\ own \notin {None, Opaque} => Evaluable(own.base, TRUE)
    /\ LET scope == ClassScope(own, bases)
           read  == IF own \in {None, Opaque} THEN frames
                    ELSE Reading(own.base, TRUE)
           real  == OwnOrInherited(own, bases)
       IN  /\ known' = [known EXCEPT ![c] = scope]
           /\ classes' = Append(classes, scope)
           /\ frames' = Append(read, Frame("class", real))
           /\ defined' = IF Top > 1 THEN defined
                ELSE [defined EXCEPT ![c] = [accessor |-> real, bases |-> Range(bases)]]
    /\ call' = None
    /\ UNCHANGED <<file, scopes>>

\* visit_FunctionDef and visit_AsyncFunctionDef.  A parameter may have the name
\* of a logger that the visitor knows: it takes the one for the other.
EnterFunction(parameters) ==
    /\ Top < MaxDepth
    /\ scopes' = Append(scopes, Last(scopes))
    /\ frames' = Append(frames,
         [Frame("function", None) EXCEPT
            !.vars = [n \in Name |-> IF n \in parameters THEN Elsewhere ELSE None],
            !.lost = parameters])
    /\ call' = None
    /\ UNCHANGED <<file, classes, known, defined>>

\* Mutant of Enclosing: the scope of the function was no copy.
SharedScope == Append(SubSeq(scopes, 1, Len(scopes) - 2), Last(scopes))

Enclosing == Front(scopes)

LeaveScope ==
    /\ Top > 1
    /\ frames' = Front(frames)
    /\ scopes' = IF frames[Top].kind = "function" THEN Enclosing ELSE scopes
    /\ classes' = IF frames[Top].kind = "class" THEN Front(classes) ELSE classes
    /\ call' = None
    /\ UNCHANGED <<file, known, defined>>

\* visit_Call of an emission; Python knows what it is called on.  An event
\* whose name is computed is left out.
EmitCall(target, literal, args, kwargs) ==
    /\ IF target.base = "self" THEN HasAccessor ELSE Evaluable(target.base, FALSE)
    /\ call' = IF ~literal THEN None ELSE
         [entry  |-> BuildEntry(target, kwargs),
          logger |-> IF target.base = "self" THEN Bound(Self.logger, target.chain)
                     ELSE Evaluate(target.base, FALSE, target.chain),
          args   |-> args,
          kwargs |-> kwargs,
          followed |-> IF target.base = "self" THEN Self.intact
                       ELSE Intact(target.base, FALSE)]
    /\ frames' = IF target.base = "self" THEN frames ELSE Reading(target.base, FALSE)
    /\ UNCHANGED <<file, visitor, defined>>

Bases == {<< >>} \cup [1 .. 1 -> Class] \cup [1 .. 2 -> Class]

\* The last statement is a call, of which alone the properties speak.
VisitNext ==
    /\ length' = length + 1
    /\ \/ length < MaxLength - 1 /\
           \/ \E n \in Name, v \in Value : Assign(n, v)
           \/ \E c \in Class, bases \in Bases,
                 own \in {None, Opaque} \cup Target(Name) : EnterClass(c, own, bases)
           \/ \E parameters \in SUBSET Name : EnterFunction(parameters)
           \/ LeaveScope
       \/ length < MaxLength /\
           \E target \in Target(Name \cup {"self"}), literal, args \in BOOLEAN,
              kwargs \in CallKeys : EmitCall(target, literal, args, kwargs)

VisitSpec == VisitInit /\ [][VisitNext]_visitVars

-----------------------------------------------------------------------------
(* Properties.                                                               *)

Frames == [kind : {"module", "class", "function"}, accessor : Accessors \cup {None},
           vars : [Name -> Loggers \cup {None}], lost : SUBSET Name,
           barred : SUBSET Name]
Calls == [entry : Entries \cup {None}, logger : Loggers, args : BOOLEAN,
          kwargs : CallKeys, followed : BOOLEAN]

ScannerTypeOK ==
    /\ file \in {"module", "package"} /\ length \in 0 .. MaxLength
    /\ scopes \in Seq([Name -> Scopes \cup {None}])
    /\ classes \in Seq(Scopes \cup {None})
    /\ known \in [Class -> Scopes \cup {None}]
    /\ frames \in Seq(Frames) /\ Top \in 1 .. MaxDepth
    /\ Len(scopes) + Len(classes) = Top
    /\ defined \in [Class -> {None} \cup [accessor : Accessors \cup {None},
                                          bases : SUBSET Class]]
    /\ call \in {None} \cup Calls

\* otel.py: a call on a logger that the visitor follows is listed, and what is
\* listed is what arrives: the name, if the logger was given one (__name__ in
\* an __init__.py is another) and the event is not a format with arguments, and
\* each attribute, but for those of reserved keys, of keys that the processors
\* take or write themselves and of baggage of the same name.  What the call
\* sets and nobody lists comes from `**` or from get_logger's initial values;
\* what else arrives is ambient or the processors' own.
CatalogueMatchesTelemetry ==
    call # None /\ call.followed =>
       LET given  == call.logger.attrs \cup call.kwargs
           unseen == Mapped(KeysOf(given \ Named(given)))
       IN  /\ call.entry # None
           /\ call.logger.explicit /\ ~call.args
                 => call.entry.name = GetOtelEventName(call.logger.domain, Body(call.args))
           /\ \A written \in Written(KeysOf(given)) :
                 LET out    == OtelAttributes(EventDict(KeysOf(given), written))
                     ofCall == {a \in DOMAIN out : out[a] = "call"}
                     others == Baggage \cup {"flagsmith.event"} \cup written
                 IN  /\ ofCall = (call.entry.attributes \cup unseen)
                                   \ (RESERVED_KEYS \cup Consumed \cup others)
                     /\ DOMAIN out \ ofCall \subseteq Mapped(Context) \cup others

\* logging.py: the JSON line has the record's own fields whatever the call is
\* given, in a span the span's ids, and every key of the call as it was but for
\* those that the processors take or write, be it called `event` for the
\* catalogue or not.
RecordIntact ==
    call # None =>
       LET given == KeysOf(call.logger.attrs \cup call.kwargs)
           own   == {"message", "levelname", "logger_name", "pid", "thread_name"}
       IN  \A written \in Written(given) :
              LET line == JsonLine(EventDict(given, written))
              IN  /\ \A f \in own : line[f] = "record"
                  /\ \A k \in written \ Popped : line[k] = "structlog"
                  /\ \A k \in given \ (own \cup Popped \cup Consumed
                                           \cup {"timestamp"} \cup written) :
                        line[k] = "call"
=============================================================================
