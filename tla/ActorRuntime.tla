---------------------------- MODULE ActorRuntime ----------------------------
(***************************************************************************)
(* How one wake changes the world: the actor runtime that executes the     *)
(* plan a provider returned (xrSimActorRuntime.cpp, xrSimActuator.cpp,     *)
(* xrSimActors.cpp), and the zone agent that applies a list of intents     *)
(* (xrSimNullAgent.cpp).  A plan keeps what the actuator looks at: whether *)
(* it coasts, whether it sets a stance, and its actions.                   *)
(***************************************************************************)
EXTENDS WorldState

\* The one region and the one species of a session.
DebugRegion == OneWord("debug_region")
BlindDog == OneWord("blind_dog")

Act(verb) == [verb |-> verb, region |-> EmptyName, species |-> EmptyName, amount |-> 0]
AdjustBy(region, species, amount) ==
    [verb |-> "adjust_population", region |-> region, species |-> species,
     amount |-> amount]

\* What the parsers of replies grant of a list of actions: amounts are numbers.
HaveAmounts(actions) ==
    Len(actions) \in Nat /\ \A i \in 1..Len(actions) : actions[i].amount \in Int

Plan(stance, actions) == [coast |-> FALSE, stance |-> stance, actions |-> actions]
CoastPlan == [coast |-> TRUE, stance |-> FALSE, actions |-> <<>>]
NoPlan == Plan(FALSE, <<>>)      \* a default ActorIntentPlan

Actor(id, scope) == [id |-> id, scope |-> scope, lastIntent |-> NoPlan]

\* What a provider returned: a plan, a plan that coasts, or an error.
Answered(plan) == [ok |-> TRUE, plan |-> plan]
Failure == [ok |-> FALSE, plan |-> NoPlan]

\* A tool call as an agent asks for it: by names, numbered by the length of
\* the log.  Names nobody has are refused before the world is asked.
AdjustNamed(w, action) ==
    LET r == FindRegionByName(w, action.region)
        s == FindSpeciesByName(w, action.species)
    IN  IF r = Invalid \/ s = Invalid THEN Result(w, FALSE, 0, "unknown_name")
        ELSE ApplyAdjustPopulation(w, Len(w.log) + 1, r, s, action.amount, 0)

-----------------------------------------------------------------------------
(* The actuator.                                                           *)

LegalVerbs(scope) ==
    {"author_memory", "adjust_population"} \cup
    CASE scope = "Squad" -> {"move_to", "fire_pattern", "vocalize", "retreat"}
      [] scope = "MutantPack" -> {"stalk", "ambush", "retreat"}
      [] OTHER -> {}
IsActorActionLegal(scope, verb) == verb \in LegalVerbs(scope)

\* The commands of a plan: its stance, then every action but the tool calls.
CommandsOf(plan) ==
    LET shown == SelectSeq(plan.actions, LAMBDA a : a.verb # "adjust_population")
    IN  (IF plan.stance THEN <<"set_stance">> ELSE <<>>)
        \o [i \in DOMAIN shown |-> shown[i].verb]

\* One action on the staged world; nothing runs after a failure.  A tool
\* call looks its names up itself.
StageAction(actor, staged, action) ==
    CASE ~staged.ok -> staged
      [] staged.ok /\ ~IsActorActionLegal(actor.scope, action.verb) ->
             [staged EXCEPT !.ok = FALSE]
      [] staged.ok /\ action.verb = "adjust_population" -> AdjustNamed(staged.world, action)
      [] OTHER -> staged

Staged(world, actor, plan) ==
    LET after[i \in 0..Len(plan.actions)] ==
            IF i = 0 THEN Result(world, TRUE, 0, NoReason)
            ELSE StageAction(actor, after[i - 1], plan.actions[i])
    IN  after[Len(plan.actions)]

\* MUTANT: the actions are executed on the world itself.
CommittedAnyway(world, staged) == staged
\* The copy replaces the world only if nothing in it failed.
Committed(world, staged) == IF staged.ok THEN staged ELSE Result(world, FALSE, 0, "refused")

ExecuteActorIntent(world, actor, plan) == Committed(world, Staged(world, actor, plan))

-----------------------------------------------------------------------------
(* The runtime: the commands in force of each agent, by its id, and those  *)
(* shown last, whoever they were for.                                      *)

NewRuntime == [commands |-> <<>>, last |-> <<>>]

CommandsInForce(runtime, id) ==
    IF id \in DOMAIN runtime.commands THEN runtime.commands[id] ELSE <<>>

Forget(commands, id) == [a \in DOMAIN commands \ {id} |-> commands[a]]

\* MUTANT: the commands of every agent are dropped.
ForgetAll(commands, id) == <<>>
Forgotten(commands, id) == Forget(commands, id)

Remembered(actor, plan) == [actor EXCEPT !.lastIntent = plan]

Outcome(world, runtime, actor, ok) ==
    [world |-> world, runtime |-> runtime, actor |-> actor, ok |-> ok]

Cleared(runtime, actor) ==
    [commands |-> Forgotten(runtime.commands, actor.id), last |-> <<>>]
InForce(runtime, actor, commands) ==
    [commands |-> [id \in DOMAIN runtime.commands \cup {actor.id} |->
                      IF id = actor.id THEN commands ELSE runtime.commands[id]],
     last |-> commands]

AfterExecution(executed, runtime, actor, plan) ==
    IF executed.ok
    THEN Outcome(executed.world, InForce(Cleared(runtime, actor), actor, CommandsOf(plan)),
                 Remembered(actor, plan), TRUE)
    ELSE Outcome(executed.world, Cleared(runtime, actor), actor, FALSE)

ApplyProviderResult(world, runtime, actor, result) ==
    CASE ~result.ok -> Outcome(world, Cleared(runtime, actor), actor, FALSE)
      [] result.ok /\ result.plan.coast ->
             Outcome(world, [runtime EXCEPT !.last = CommandsInForce(runtime, actor.id)],
                     actor, TRUE)
      [] OTHER -> AfterExecution(ExecuteActorIntent(world, actor, result.plan),
                                 runtime, actor, result.plan)

\* What the provider of a wake without the network answers.
DeterministicActorIntentProvider(actor) ==
    Answered(IF actor.scope = "MutantPack" THEN Plan(TRUE, <<Act("stalk")>>)
             ELSE Plan(TRUE, <<Act("move_to"), Act("fire_pattern")>>))

-----------------------------------------------------------------------------
(* The zone agent: intents are applied one by one to the world itself, and *)
(* those before a bad one stay.                                            *)

Intents(intents) == [ok |-> TRUE, coast |-> FALSE, intents |-> intents]
CoastReply == [ok |-> TRUE, coast |-> TRUE, intents |-> <<>>]

NullAgentProvider == Intents(<<AdjustBy(DebugRegion, BlindDog, 5)>>)

ApplyIntent(sofar, intent) ==
    IF sofar.ok THEN AdjustNamed(sofar.world, intent) ELSE sofar

NullAgentWake(world, reply) ==
    LET start == Result(world, reply.ok /\ (reply.coast \/ reply.intents # <<>>), 0, NoReason)
        after[i \in 0..Len(reply.intents)] ==
            IF i = 0 THEN start ELSE ApplyIntent(after[i - 1], reply.intents[i])
    IN  after[Len(reply.intents)]
=============================================================================
