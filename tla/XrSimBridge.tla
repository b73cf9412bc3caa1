---------------------------- MODULE XrSimBridge -----------------------------
(***************************************************************************)
(* The xrSim session behind the agent bridge (xrSimBridge.cpp): the debug  *)
(* world, the zone agent, the debug actors and session packs, and the live *)
(* wakes in flight.  Every verb runs to its end on the engine thread; the  *)
(* worker of the live queue runs in between and is seen through what       *)
(* AsyncActorProviderQueue promises (WakeRequests), so a wake is submitted *)
(* in one verb, finished behind the session's back and applied by a later  *)
(* verb to whatever the session has become.                                *)
(***************************************************************************)
EXTENDS ActorRuntime, FiniteSets

CONSTANTS
    InjectDeltas,      \* the deltas of ai.inject
    ZoneReplies,       \* what a live zone wake may return
    LivePlans,         \* the plans a live actor wake may return
    EarlierSnapshots,  \* snapshots a client kept from an earlier process
    MaxLog,            \* bound: tool calls on one world
    MaxRequests,       \* bound: live wakes of one queue
    MaxPacks,          \* bound: packs of one session
    MaxSaved,          \* bound: snapshots the client holds
    None               \* "no context", "no result"

ASSUME PacksAssumption == MaxPacks \in Nat
ASSUME AmountsAssumption ==
    /\ InjectDeltas \subseteq Int
    /\ \A plan \in LivePlans : HaveAmounts(plan.actions)
    /\ \A reply \in ZoneReplies : HaveAmounts(reply.intents)

AgentIds == {0, 101, 201} \cup {2000 + id : id \in 1..MaxPacks}

VARIABLES
    bridge,     \* the globals of xrSimBridge.cpp and xrSimPackSpawn.cpp
    asked, status, outcome, closed, answer,     \* the live queue
    saved,      \* the snapshots the client has
    last        \* what the last verb did, with its ok flag

queueVars == <<asked, status, outcome, closed, answer>>
vars == <<bridge, queueVars, saved, last>>

Queue == INSTANCE WakeRequests WITH Contexts <- AgentIds

\* A queue nobody has used, which is also how no queue at all behaves.
NewQueue ==
    /\ asked' = [i \in 1..MaxRequests |-> None]
    /\ status' = [i \in 1..MaxRequests |-> "new"]
    /\ outcome' = [i \in 1..MaxRequests |-> None]
    /\ closed' = FALSE
    /\ answer' = Queue!Answer(0, "none", None)

-----------------------------------------------------------------------------
(* The session.                                                            *)

Populated(count) ==
    LET empty == CreateSpecies(CreateRegion(EmptyWorld, DebugRegion, 100), BlindDog)
    IN  SetPopulation(empty, Handle(1, FirstGeneration), Handle(1, FirstGeneration),
                      count).world

\* The code sets the same world up in two places: in ResetDebugWorld, and
\* where ai.replay starts.
DebugWorld == Populated(50)
\* MUTANT: the two have come apart.
OtherBaseline == Populated(60)
MakeDebugBaseline == Populated(50)

DebugActors == [squad |-> Actor(101, "Squad"), mutant_pack |-> Actor(201, "MutantPack")]

\* The globals when the process starts: the actors are default records.
Unset == [initialized |-> FALSE, world |-> EmptyWorld, runtime |-> NewRuntime,
          actors |-> [squad |-> Actor(0, "Zone"), mutant_pack |-> Actor(0, "Zone")],
          packs |-> <<>>, pending |-> <<>>, nextSeq |-> 1]

ResetDebugWorld ==
    [Unset EXCEPT !.initialized = TRUE, !.world = DebugWorld,
                  !.actors = DebugActors]

\* MUTANT: ai.reset keeps the bindings of the wakes in flight.
ResetKeepsBindings(b) == [ResetDebugWorld EXCEPT !.pending = b.pending]
\* MUTANT: ai.reset keeps the commands the agents had.
ResetKeepsRuntime(b) == [ResetDebugWorld EXCEPT !.runtime = b.runtime]
Reset(b) == ResetDebugWorld

EnsureDebugWorld(b) == IF b.initialized THEN b ELSE ResetDebugWorld

PackAgentId(pack) == 2000 + pack

\* Session packs have the ids 1, 2, ... in the order they were registered.
RegisterSessionMutantPack(b) ==
    [b EXCEPT !.packs = Append(@, Actor(PackAgentId(Len(@) + 1), "MutantPack"))]

\* Whom a wake is for: one of the debug actors, or a session pack.
DebugActor(name) == [kind |-> "DebugActor", actor |-> name, pack |-> 0]
SessionPack(id) == [kind |-> "SessionPack", actor |-> "", pack |-> id]
Targets == {DebugActor("squad"), DebugActor("mutant_pack")}
           \cup {SessionPack(id) : id \in 1..MaxPacks}

Known(b, target) == target.kind = "DebugActor" \/ target.pack \in DOMAIN b.packs
Find(b, target) ==
    IF target.kind = "DebugActor" THEN b.actors[target.actor] ELSE b.packs[target.pack]
WithActor(b, target, actor) ==
    IF target.kind = "DebugActor" THEN [b EXCEPT !.actors[target.actor] = actor]
    ELSE [b EXCEPT !.packs[target.pack] = actor]

\* The binding of a wake in flight is made when it is submitted, and
\* dropped when it is answered.
Bound(b, id, target) ==
    [b EXCEPT !.pending = [i \in DOMAIN @ \cup {id} |-> IF i = id THEN target ELSE @[i]]]

\* MUTANT: the answered binding stays.
StillBound(b, id) == b
Unbound(b, id) == [b EXCEPT !.pending = Forget(@, id)]

Said(verb, ok, target) == [verb |-> verb, ok |-> ok, target |-> target]
NoTarget == [kind |-> "", actor |-> "", pack |-> 0]

\* ApplyProviderResult on the session b, and the ok flag of the reply.
Apply(verb, b, target, result) ==
    \E after \in {ApplyProviderResult(b.world, b.runtime, Find(b, target), result)} :
        /\ bridge' = [WithActor(b, target, after.actor) EXCEPT
                         !.world = after.world, !.runtime = after.runtime]
        /\ last' = Said(verb, after.ok, target)

\* There is room for what one verb may add to the log.
LogHasRoom == Len(bridge.world.log) + 1 < MaxLog

-----------------------------------------------------------------------------
Init ==
    /\ bridge = Unset
    /\ asked = [i \in 1..MaxRequests |-> None]
    /\ status = [i \in 1..MaxRequests |-> "new"]
    /\ outcome = [i \in 1..MaxRequests |-> None]
    /\ closed = FALSE
    /\ answer = Queue!Answer(0, "none", None)
    /\ saved = EarlierSnapshots
    /\ last = Said("", TRUE, NoTarget)

\* ai.reset: the queue is shut down and dropped before the world goes.
AiReset ==
    /\ bridge' = Reset(bridge)
    /\ NewQueue
    /\ last' = Said("ai.reset", TRUE, NoTarget)
    /\ UNCHANGED saved

\* ai.observe, ai.replay, agent.list, agent.tree, ...: the verbs that show
\* something, and set the world up first.  (ai.status, ai.log, agent.pack.list
\* and every usage message change nothing at all.)
Observe ==
    /\ bridge' = EnsureDebugWorld(bridge)
    /\ last' = Said("observe", TRUE, NoTarget)
    /\ UNCHANGED <<queueVars, saved>>

\* A name nobody has is refused before there is a record to number.
AiInject(region, delta) ==
    LET b == EnsureDebugWorld(bridge)
        r == FindRegionByName(b.world, region)
        s == FindSpeciesByName(b.world, BlindDog)
        result == ApplyAdjustPopulation(b.world, b.nextSeq, r, s, delta, 0)
    IN  /\ LogHasRoom
        /\ IF r = Invalid \/ s = Invalid
           THEN /\ bridge' = b
                /\ last' = Said("ai.inject", FALSE, NoTarget)
           ELSE /\ bridge' = [b EXCEPT !.world = result.world, !.nextSeq = @ + 1]
                /\ last' = Said("ai.inject", result.ok, NoTarget)
        /\ UNCHANGED <<queueVars, saved>>

\* ai.wake and agent.wake: the zone agent; only a wake that went well sets
\* the number of the next injected record.
WakeZoneAgent(reply) ==
    LET b == EnsureDebugWorld(bridge)
        result == NullAgentWake(b.world, reply)
    IN  /\ LogHasRoom
        /\ bridge' = [b EXCEPT
               !.world = result.world,
               !.nextSeq = IF result.ok THEN Len(result.world.log) + 1 ELSE @]
        /\ last' = Said("agent.wake", result.ok, NoTarget)
        /\ UNCHANGED <<queueVars, saved>>

\* The reader of the text keeps it, and may forget another one.
AiSnapshot ==
    LET b == EnsureDebugWorld(bridge)
    IN  /\ bridge' = b
        /\ \E kept \in SUBSET saved :
               /\ Cardinality(kept) < MaxSaved
               /\ saved' = kept \cup {SaveSnapshot(b.world)}
        /\ last' = Said("ai.snapshot", TRUE, NoTarget)
        /\ UNCHANGED queueVars

\* ai.restore replaces the world and nothing else of the session.
AiRestore(snapshot) ==
    \E result \in {LoadSnapshot(bridge.world, snapshot)} :
        /\ bridge' = IF ~result.ok THEN bridge
                     ELSE [bridge EXCEPT !.world = result.world, !.initialized = TRUE,
                                         !.nextSeq = Len(result.world.log) + 1]
        /\ last' = Said("ai.restore", result.ok, NoTarget)
        /\ UNCHANGED <<queueVars, saved>>

\* agent.pack.register, which agent.pack.spawn ends with; more than eight
\* members are refused and use up no id.
RegisterPack(members) ==
    LET b == EnsureDebugWorld(bridge)
    IN  /\ Len(b.packs) < MaxPacks
        /\ bridge' = IF members > 8 THEN b ELSE RegisterSessionMutantPack(b)
        /\ last' = Said("agent.pack.register", members <= 8, NoTarget)
        /\ UNCHANGED <<queueVars, saved>>

\* agent.actor.wake and agent.pack.wake with the deterministic provider.
Wake(target) ==
    LET b == EnsureDebugWorld(bridge)
    IN  /\ IF Known(b, target)
           THEN Apply("wake", b, target, DeterministicActorIntentProvider(Find(b, target)))
           ELSE bridge' = b /\ last' = Said("wake", FALSE, target)
        /\ UNCHANGED <<queueVars, saved>>

\* ... live: the context is copied into the queue, the verb only remembers
\* whom it is for.
WakeLive(target) ==
    LET b == EnsureDebugWorld(bridge)
    IN  /\ Known(b, target)
        /\ \E id \in Queue!Ids :
               /\ Queue!Ask(id, Find(b, target).id)
               /\ bridge' = Bound(b, id, target)
        /\ last' = Said("wake.live", TRUE, target)
        /\ UNCHANGED saved

WakeLiveUnknown(target) ==
    LET b == EnsureDebugWorld(bridge)
    IN  /\ ~Known(b, target)
        /\ bridge' = b
        /\ last' = Said("wake.live", FALSE, target)
        /\ UNCHANGED <<queueVars, saved>>

\* agent.actor.poll: the worker fixed what a finished wake returned; which
\* plan it was is chosen here, when it is first seen.
ProviderResults(kind) ==
    CASE kind = "plan" -> {Answered(plan) : plan \in LivePlans}
      [] kind = "coast" -> {Answered(CoastPlan)}
      [] OTHER -> {Failure}

PollUnknown(id) ==
    /\ id \notin DOMAIN bridge.pending
    /\ last' = Said("poll", FALSE, NoTarget)
    /\ UNCHANGED <<bridge, queueVars, saved>>

Poll(id) ==
    /\ id \in DOMAIN bridge.pending
    /\ Queue!Take(id) \/ Queue!Inquire(id)
    /\ LET target == bridge.pending[id]
       IN  CASE answer'.answer = "pending" ->
                    /\ bridge' = bridge
                    /\ last' = Said("poll.pending", TRUE, target)
             [] answer'.answer = "result" /\ Known(bridge, target) ->
                    /\ LogHasRoom
                    /\ \E result \in ProviderResults(answer'.result.kind) :
                           Apply("poll", Unbound(bridge, id), target, result)
             [] OTHER ->     \* the queue refuses, or the pack is gone
                    /\ bridge' = Unbound(bridge, id)
                    /\ last' = Said("poll.refused", FALSE, target)
    /\ UNCHANGED saved

\* The worker of the live queue finishes the oldest wake.
WorkerFinishes ==
    /\ Queue!FinishSome
    /\ UNCHANGED <<bridge, saved, last>>

Next ==
    \/ AiReset
    \/ Observe
    \/ \E region \in {DebugRegion, OneWord("nowhere")}, delta \in InjectDeltas :
           AiInject(region, delta)
    \/ \E reply \in {NullAgentProvider} \cup ZoneReplies : WakeZoneAgent(reply)
    \/ AiSnapshot
    \/ \E snapshot \in saved :
           \/ AiRestore(snapshot)
           \/ AiRestore([snapshot EXCEPT ![1] = Word("xrsim_snapshot_v2")])
    \/ \E members \in {1, 9} : RegisterPack(members)
    \/ \E target \in Targets : Wake(target) \/ WakeLive(target) \/ WakeLiveUnknown(target)
    \/ \E id \in Queue!Ids : PollUnknown(id) \/ Poll(id)
    \/ WorkerFinishes

Spec == Init /\ [][Next]_vars

-----------------------------------------------------------------------------
(* Properties.                                                             *)

Settled == {"pending", "done"}

\* The session has a shape the verbs can work on: a world of one region and
\* one species, actors with the scopes they were made with, wakes bound to
\* known request ids, a log within its bound.
TypeOK ==
    /\ bridge.initialized \in BOOLEAN
    /\ bridge.initialized => /\ Len(bridge.world.regions) = 1
                             /\ Len(bridge.world.species) = 1
    /\ Len(bridge.world.log) \in 0..MaxLog
    /\ Population(bridge.world, Handle(1, FirstGeneration), Handle(1, FirstGeneration))
           \in 0..100
    /\ \A target \in Targets : Known(bridge, target) => Find(bridge, target).id \in AgentIds
    /\ DOMAIN bridge.pending \subseteq Queue!Ids
    /\ \A id \in DOMAIN bridge.pending : bridge.pending[id] \in Targets
    /\ bridge.nextSeq \in 1..(MaxLog + 1)
    /\ DOMAIN bridge.runtime.commands \subseteq AgentIds

\* g_pendingActorWakes and the queue's request map are two records of the
\* same thing kept in step by hand: a binding without a request would never
\* be answered, a request without a binding could never be polled.
WakesAreBound ==
    DOMAIN bridge.pending = {id \in Queue!Ids : status[id] \in Settled}

\* A result is applied to the actor it was asked for: whoever a wake in
\* flight is bound to still exists and is still the agent whose context was
\* sent, although ai.reset and ai.restore may have come in between and both
\* request and pack ids start again from 1.
BindingsHold ==
    \A id \in DOMAIN bridge.pending :
        /\ Known(bridge, bridge.pending[id])
        /\ Find(bridge, bridge.pending[id]).id = asked[id]

\* Actors that ResetDebugWorld or a registration made; a session that began
\* with ai.restore has none of the debug actors.
Made == {target \in Targets : Known(bridge, target) /\ Find(bridge, target).id # 0}

\* The commands kept for an agent, which its next coast repeats, are those
\* of its accepted intent: no other actor's, no earlier session's.
CommandsFollowIntent ==
    \A target \in Made :
        LET actor == Find(bridge, target)
        IN  actor.id \in DOMAIN bridge.runtime.commands =>
                bridge.runtime.commands[actor.id] = CommandsOf(actor.lastIntent)

\* ai.replay succeeds in every session: whatever mix of injected, zone and
\* actor calls, failed wakes, snapshots and restores made the log, replaying
\* it on the debug baseline gives the world.
ReplayWorks ==
    bridge.initialized => ReplayToolLogFrom(MakeDebugBaseline, bridge.world).ok

\* A wake or a poll speaks for one actor: the intent and the commands of all
\* the others stay what they were.
OthersUntouched ==
    [][last'.verb \in {"wake", "poll"} /\ bridge.initialized =>
          \A target \in Made \ {last'.target} :
              LET id == Find(bridge, target).id
              IN  bridge' # bridge =>
                      /\ Find(bridge', target) = Find(bridge, target)
                      /\ CommandsInForce(bridge'.runtime, id)
                             = CommandsInForce(bridge.runtime, id)
      ]_vars

\* A plan takes effect as a whole: an actor wake that is refused at its last
\* action leaves no tool call of it in the world or the log.
RefusedPlansChangeNothing ==
    [][last'.verb \in {"wake", "poll"} /\ ~last'.ok /\ bridge.initialized =>
          bridge'.world = bridge.world]_vars

=============================================================================
