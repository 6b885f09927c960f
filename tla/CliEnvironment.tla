---------------------------- MODULE CliEnvironment ----------------------------
(* ensure_cli_env: what a `flagsmith` process sets up around its command,    *)
(* and takes down again whichever way the command ends: the providers and    *)
(* instruments of OpenTelemetry, and logging.                                *)
EXTENDS Naturals, Sequences

CONSTANTS
    Level,       \* logging's levels, as numbers
    INFO, WARNING

ASSUME LevelAssumption ==
    Level \subseteq Nat /\ {INFO, WARNING} \subseteq Level /\ INFO < WARNING

VARIABLES
    otel,        \* OTEL_EXPORTER_OTLP_ENDPOINT is set
    logLevel,    \* LOG_LEVEL
    appsNamed,   \* APPLICATION_LOGGERS names the application's loggers
    phase,       \* where the process is
    todo,        \* what is left of the set-up
    exits,       \* the exits of the ExitStack, in the order they will run
    raised,      \* what has raised
    tracer_provider,
    instruments, \* libraries that are instrumented
    log_provider,
    pending,     \* it has records to export
    lost,        \* who has emitted to it when it was shut down
    levels,      \* of the root logger, the console and the application
    otelEvents   \* structlog's chain has the OTel processors

settings == <<otel, logLevel, appsNamed>>
stack    == <<exits, raised>>
tracing  == <<tracer_provider, instruments>>
records  == <<pending, lost>>
logging  == <<levels, otelEvents>>
lifeVars == <<settings, phase, todo, stack, tracing, log_provider, records, logging>>

Library == {"django", "psycopg2", "redis"}
Thread == {"command", "thread it left behind"}

\* Mutant of Untrace: the provider goes before what still makes spans.
ProviderFirst == <<"tracer provider", "redis", "psycopg2", "django">>

\* The finally of setup_tracing, and the callback, which runs before it.
Untrace  == <<"redis", "psycopg2", "django", "tracer provider">>
CloseAll == <<"log provider">> \o Untrace

SetUpOtel == <<"protocol", "log provider", "tracer provider", "set tracer provider",
               "django", "psycopg2", "redis", "enter tracing", "callback">>
SetUp(o)  == (IF o THEN SetUpOtel ELSE << >>) \o <<"logging", "structlog", "prometheus dir">>

LifeTypeOK ==
    /\ otel \in BOOLEAN /\ logLevel \in Level /\ appsNamed \in BOOLEAN
    /\ phase \in {"set-up", "command", "closing", "left", "failed", "exited"}
    /\ phase # "set-up" => todo = << >>
    /\ \E k \in 0 .. Len(CloseAll) : exits = SubSeq(CloseAll, k + 1, Len(CloseAll))
    /\ raised \subseteq {"set-up", "log provider", "tracer provider"} \cup Library
    /\ {log_provider, tracer_provider} \subseteq {"none", "running", "down"}
    /\ instruments \subseteq Library
    /\ pending => log_provider = "running"
    /\ lost \subseteq Thread
    /\ levels \in [root : Level, console : Level, application : Level]
    /\ otelEvents \in BOOLEAN

LifeInit ==
    /\ otel \in BOOLEAN /\ logLevel \in Level /\ appsNamed \in BOOLEAN
    /\ phase = "set-up" /\ todo = SetUp(otel)
    /\ exits = << >> /\ raised = {}
    /\ tracer_provider = "none" /\ instruments = {} /\ log_provider = "none"
    /\ pending = FALSE /\ lost = {}
    /\ levels = [root |-> WARNING, console |-> WARNING, application |-> WARNING]
    /\ otelEvents = FALSE

-----------------------------------------------------------------------------
(* The set-up, step by step; any of them may raise.                          *)

Turn(s) == /\ phase = "set-up" /\ todo # << >> /\ Head(todo) = s
           /\ todo' = Tail(todo)
           /\ UNCHANGED <<settings, phase, raised, records>>

\* Steps that change nothing else here: env.str's validation of the protocol,
\* trace.set_tracer_provider and the propagator, PROMETHEUS_MULTIPROC_DIR.
Prepare ==
    /\ \E s \in {"protocol", "set tracer provider", "prometheus dir"} : Turn(s)
    /\ UNCHANGED <<exits, tracing, log_provider, logging>>

BuildLogProvider ==
    /\ Turn("log provider") /\ log_provider' = "running"
    /\ UNCHANGED <<exits, tracing, logging>>

BuildTracerProvider ==
    /\ Turn("tracer provider") /\ tracer_provider' = "running"
    /\ UNCHANGED <<exits, instruments, log_provider, logging>>

Instrument(l) ==
    /\ Turn(l) /\ instruments' = instruments \cup {l}
    /\ UNCHANGED <<exits, tracer_provider, log_provider, logging>>

\* The last one in is the first one out.
Pushed(e) == e \o exits

EnterTracing ==
    /\ Turn("enter tracing") /\ exits' = Pushed(Untrace)
    /\ UNCHANGED <<tracing, log_provider, logging>>

PushCallback ==
    /\ Turn("callback") /\ exits' = Pushed(<<"log provider">>)
    /\ UNCHANGED <<tracing, log_provider, logging>>

RootLevel == IF logLevel < INFO THEN logLevel ELSE WARNING

\* Mutant of Console: the handler keeps its default, NOTSET.
ConsoleOpen == CHOOSE l \in Level : \A k \in Level : l <= k

Console == logLevel

\* setup_logging, without a LOGGING_CONFIGURATION_FILE.
ConfigureLogging ==
    /\ Turn("logging")
    /\ levels' = [root |-> RootLevel, console |-> Console,
                  application |-> IF appsNamed THEN logLevel ELSE RootLevel]
    /\ UNCHANGED <<exits, tracing, log_provider, otelEvents>>

ConfigureStructlog ==
    /\ Turn("structlog") /\ otelEvents' = otel
    /\ UNCHANGED <<exits, tracing, log_provider, levels>>

\* The ExitStack is not entered yet: nothing is taken down.
SetUpRaises ==
    /\ phase = "set-up" /\ todo # << >>
    /\ phase' = "failed" /\ todo' = << >> /\ raised' = {"set-up"}
    /\ UNCHANGED <<settings, exits, tracing, log_provider, records, logging>>

EnterContext ==
    /\ phase = "set-up" /\ todo = << >>
    /\ phase' = "command"
    /\ UNCHANGED <<settings, todo, stack, tracing, log_provider, records, logging>>

-----------------------------------------------------------------------------
(* The command and its events.                                               *)

\* filter_by_level comes first in structlog's chain, then the OTel processors;
\* the console looks at its own level last.
Enabled(name, l) == l >= levels[name]
Printed(name, l) == Enabled(name, l) /\ l >= levels.console
Sent(name, l)    == Enabled(name, l) /\ otelEvents

\* A provider that was shut down drops what it is given.
Emit(who, name, l) ==
    /\ phase \in IF who = "command" THEN {"command"} ELSE {"command", "closing", "left"}
    /\ Sent(name, l)
    /\ IF log_provider = "running" THEN pending' = TRUE /\ UNCHANGED lost
       ELSE lost' = lost \cup {who} /\ UNCHANGED pending
    /\ UNCHANGED <<settings, phase, todo, stack, tracing, log_provider, logging>>

Export ==
    /\ pending
    /\ pending' = FALSE
    /\ UNCHANGED <<settings, phase, todo, stack, tracing, log_provider, lost, logging>>

\* It returns, raises or exits: `with ctx` ends all the same.
CommandEnds ==
    /\ phase = "command"
    /\ phase' = "closing"
    /\ UNCHANGED <<settings, todo, stack, tracing, log_provider, records, logging>>

-----------------------------------------------------------------------------
(* The way out.                                                              *)

\* LoggerProvider.shutdown exports what is left.
Close ==
    /\ phase = "closing" /\ exits # << >>
    /\ exits' = Tail(exits)
    /\ LET e == Head(exits)
       IN  /\ log_provider' = IF e = "log provider" THEN "down" ELSE log_provider
           /\ pending' = (pending /\ e # "log provider")
           /\ tracer_provider' = IF e = "tracer provider" THEN "down" ELSE tracer_provider
           /\ instruments' = instruments \ {e}
    /\ UNCHANGED <<settings, phase, todo, raised, lost, logging>>

\* Mutant of Remaining: nothing runs after an exit that raises.
NothingRemains == << >>

\* The rest of its finally block is lost with an exit that raises, the rest of
\* the stack is not.
Remaining == IF Head(exits) = "log provider" THEN Tail(exits) ELSE << >>

CloseRaises ==
    /\ phase = "closing" /\ exits # << >>
    /\ exits' = Remaining /\ raised' = raised \cup {Head(exits)}
    /\ UNCHANGED <<settings, phase, todo, tracing, log_provider, records, logging>>

Leave ==
    /\ phase = "closing" /\ exits = << >>
    /\ phase' = "left"
    /\ UNCHANGED <<settings, todo, stack, tracing, log_provider, records, logging>>

\* After a failed set-up Python may finalise the suspended generator of
\* setup_tracing, whose finally then runs; the callback is gone with the stack.
FinaliseTracing ==
    /\ phase = "failed" /\ exits # << >>
    /\ phase' = "closing" /\ exits' = Untrace
    /\ UNCHANGED <<settings, todo, raised, tracing, log_provider, records, logging>>

\* The providers' own atexit handlers.
ExitProcess ==
    /\ phase \in {"left", "failed"}
    /\ phase' = "exited" /\ pending' = FALSE
    /\ log_provider' = IF log_provider = "running" THEN "down" ELSE log_provider
    /\ tracer_provider' = IF tracer_provider = "running" THEN "down" ELSE tracer_provider
    /\ UNCHANGED <<settings, todo, stack, instruments, lost, logging>>

LifeNext ==
    \/ Prepare \/ BuildLogProvider \/ BuildTracerProvider
    \/ \E l \in Library : Instrument(l)
    \/ EnterTracing \/ PushCallback \/ ConfigureLogging \/ ConfigureStructlog
    \/ SetUpRaises \/ EnterContext
    \/ \E who \in Thread, name \in {"root", "application"}, l \in Level : Emit(who, name, l)
    \/ Export \/ CommandEnds \/ Close \/ CloseRaises \/ Leave
    \/ FinaliseTracing \/ ExitProcess

LifeSpec == LifeInit /\ [][LifeNext]_lifeVars

-----------------------------------------------------------------------------
(* Properties.                                                               *)

StillUp(e) == IF e = "tracer provider" THEN tracer_provider = "running"
              ELSE e \in instruments

\* Once ensure_cli_env is left, whatever the command and the exits raised, what
\* is still up is what failed to come down itself, or came after it in the same
\* finally block, or belongs to a set-up that failed half way.
TornDown ==
    phase = "left" =>
       /\ log_provider = "running" => raised \cap {"log provider", "set-up"} # {}
       /\ \A k \in DOMAIN Untrace : StillUp(Untrace[k])
             => \E j \in 1 .. k : Untrace[j] \in raised

\* Nothing that the command makes comes too late: as long as the process lives,
\* a library that is instrumented makes its spans for a provider that takes
\* them, and of the events only those of a thread that outlives the command
\* reach a provider that is shut down.
TelemetryIsTaken ==
    /\ instruments # {} /\ phase # "exited" => tracer_provider = "running"
    /\ "command" \notin lost

\* What is printed is what setup_logging documents: an application's logger
\* prints from log_level on, any other from max(log_level, WARNING), all of them
\* if that is DEBUG.  The root logger itself is not at this maximum, as it says:
\* above WARNING the console makes up for it, and OpenTelemetry, which has no
\* level of its own, still gets what is not printed.
PrintedAndSent ==
    LET least == IF logLevel < INFO \/ logLevel > WARNING THEN logLevel ELSE WARNING
    IN  phase = "command" =>
           /\ \A l \in Level :
                 /\ Printed("root", l) <=> l >= least
                 /\ Printed("application", l) <=> l >= IF appsNamed THEN logLevel ELSE least
                 /\ Sent("root", l) <=> otel /\ (Printed("root", l) \/ l >= WARNING)
           /\ logLevel > WARNING => levels.root = WARNING
=============================================================================
