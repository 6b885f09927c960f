-------------------------- MODULE ReplicaSelection --------------------------
(* using_database_replica: the threads of one API process choose a replica   *)
(* for their reads.  They share one cycle of names per prefix; connections   *)
(* are each thread's own.                                                    *)
EXTENDS Naturals, Sequences, FiniteSets

CONSTANTS
    Reader,      \* threads
    Local,       \* the replica_ names of DATABASES, in order
    CrossRegion, \* the cross_region_replica_ names
    Strategies,  \* values of REPLICA_READ_STRATEGY
    Primary      \* the manager's own database

ASSUME ReplicasAssumption == Local \in Seq(STRING) /\ CrossRegion \in Seq(STRING)

VARIABLES
    strategy,  \* the setting
    reachable, \* replicas that accept a connection now
    drawn,     \* [Prefix -> Nat], how far the shared cycle has got
    search,    \* [Reader -> Prefix, "idle" or "over"]
    turns,     \* [Reader -> Nat], turns of the loop
    refused,   \* [Reader -> set of replicas], that refused in this search
    others,    \* [Reader -> Nat], draws of other threads during it, up to all
    connected, \* [Reader -> set of replicas], connections it has open
    chosen     \* [Reader -> a replica or Primary]

readers == <<search, turns, refused, others, connected, chosen>>
readVars    == <<strategy, reachable, drawn, readers>>

Prefix == {"replica_", "cross_region_replica_"}
Names(p) == IF p = "replica_" THEN Local ELSE CrossRegion
Replicas(p) == {Names(p)[k] : k \in DOMAIN Names(p)}
Every == Replicas("replica_") \cup Replicas("cross_region_replica_")

ReadTypeOK ==
    /\ strategy \in Strategies /\ reachable \subseteq Every
    /\ drawn \in [Prefix -> Nat]
    /\ \A p \in Prefix : drawn[p] < Len(Names(p)) \/ drawn[p] = 0
    /\ search \in [Reader -> Prefix \cup {"idle", "over"}]
    /\ turns \in [Reader -> Nat] /\ others \in [Reader -> Nat]
    /\ refused \in [Reader -> SUBSET Every] /\ connected \in [Reader -> SUBSET Every]
    /\ chosen \in [Reader -> Every \cup {Primary}]

ReadInit ==
    /\ strategy \in Strategies
    /\ reachable \in SUBSET Every
    /\ drawn = [p \in Prefix |-> 0]
    /\ search = [t \in Reader |-> "idle"]
    /\ turns = [t \in Reader |-> 0]
    /\ refused = [t \in Reader |-> {}]
    /\ others = [t \in Reader |-> 0]
    /\ connected = [t \in Reader |-> {}]
    /\ chosen = [t \in Reader |-> Primary]

EnterSearch(t, p) ==
    /\ search' = [search EXCEPT ![t] = p]
    /\ turns' = [turns EXCEPT ![t] = 0]
    /\ refused' = [refused EXCEPT ![t] = {}]
    /\ others' = [others EXCEPT ![t] = 0]

\* Without local replicas the manager is returned as it is, whatever there is
\* in other regions.
Search(t) ==
    /\ search[t] \in {"idle", "over"}
    /\ EnterSearch(t, IF Local = << >> THEN "over" ELSE "replica_")
    /\ chosen' = [chosen EXCEPT ![t] = Primary]
    /\ UNCHANGED <<strategy, reachable, drawn, connected>>

Left(t)  == Replicas(search[t]) \ refused[t]
Drawing(t) == search[t] \in Prefix /\ turns[t] < Len(Names(search[t]))
Sequential == strategy = "SEQUENTIAL"

\* Mutant of Drawable: random.choice over all names, refused or not.
AnyName(t) ==
    IF Sequential THEN {Names(search[t])[drawn[search[t]] + 1]}
                  ELSE Replicas(search[t])

\* next(sequence) of the shared cycle, or random.choice of the names left.
Drawable(t) ==
    IF Sequential THEN {Names(search[t])[drawn[search[t]] + 1]} ELSE Left(t)

After(p) == (drawn[p] + 1) % Len(Names(p))

\* One turn of the loop.  ensure_connection does nothing for an open one.
Draw(t) ==
    /\ Drawing(t)
    /\ \E r \in Drawable(t) :
          IF r \in connected[t] \cup reachable
          THEN /\ chosen' = [chosen EXCEPT ![t] = r]
               /\ connected' = [connected EXCEPT ![t] = @ \cup {r}]
               /\ search' = [search EXCEPT ![t] = "over"]
               /\ UNCHANGED <<turns, refused>>
          ELSE /\ turns' = [turns EXCEPT ![t] = @ + 1]
               /\ refused' = [refused EXCEPT ![t] = @ \cup {r}]
               /\ UNCHANGED <<search, connected, chosen>>
    /\ IF Sequential
       THEN /\ drawn' = [drawn EXCEPT ![search[t]] = After(search[t])]
            /\ others' = [u \in Reader |->
                 IF u # t /\ search[u] = search[t] /\ others[u] < Len(Names(search[u]))
                 THEN others[u] + 1 ELSE others[u]]
       ELSE UNCHANGED <<drawn, others>>
    /\ UNCHANGED <<strategy, reachable>>

\* The loop is over and nothing chosen.
FallBack(t) ==
    /\ search[t] \in Prefix /\ ~Drawing(t)
    /\ IF search[t] = "replica_" /\ CrossRegion # << >>
       THEN EnterSearch(t, "cross_region_replica_") /\ UNCHANGED chosen
       ELSE search' = [search EXCEPT ![t] = "over"] /\ UNCHANGED <<turns, refused, others, chosen>>
    /\ UNCHANGED <<strategy, reachable, drawn, connected>>

\* Replicas come and go; Django closes a thread's connections after a request.
Change ==
    /\ \E r \in Every : reachable' \in {reachable \cup {r}, reachable \ {r}}
    /\ UNCHANGED <<strategy, drawn, readers>>

CloseConnection(t) ==
    /\ search[t] = "over"
    /\ search' = [search EXCEPT ![t] = "idle"]
    /\ connected' = [connected EXCEPT ![t] = {}]
    /\ UNCHANGED <<strategy, reachable, drawn, turns, refused, others, chosen>>

ReadNext ==
    \/ \E t \in Reader : Search(t) \/ Draw(t) \/ FallBack(t) \/ CloseConnection(t)
    \/ Change

ReadSpec == ReadInit /\ [][ReadNext]_readVars

-----------------------------------------------------------------------------
(* Properties.                                                               *)

\* A loop that ends without a replica has asked all of them, but for at most
\* one for each draw that other threads made from the shared cycle meanwhile.
FewOverlooked ==
    \A t \in Reader :
       search[t] \in Prefix /\ ~Drawing(t) => Cardinality(Left(t)) <= others[t]
=============================================================================
