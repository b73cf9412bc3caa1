------------------------- MODULE XrSimBridgeProofs -------------------------
(***************************************************************************)
(* The sessions of the bridge, for any number of wakes and packs, any      *)
(* plans, snapshots and worlds: every wake in flight is bound to the actor *)
(* whose context was sent; the commands in force are those of the last     *)
(* intent; a result changes no other actor than its own, and a refused one *)
(* nothing of the world.  For these, what the world holds plays no part.   *)
(* And whatever world a session has, the calls in its log made it of the   *)
(* debug baseline, so that ai.replay succeeds.                             *)
(***************************************************************************)
EXTENDS XrSimBridge, WorldStateProofs

-----------------------------------------------------------------------------
(* The shape of a session, as far as the bindings depend on it.            *)

Plans == LivePlans \cup {CoastPlan, NoPlan, Plan(TRUE, <<Act("stalk")>>),
                         Plan(TRUE, <<Act("move_to"), Act("fire_pattern")>>)}
ActorRecords == [id : Int, scope : {"Zone", "Squad", "MutantPack"}, lastIntent : Plans]
ResultRecords == [ok : BOOLEAN, plan : Plans]

Fields == {"initialized", "world", "runtime", "actors", "packs", "pending", "nextSeq"}

IsSession(b) ==
    /\ DOMAIN b = Fields
    /\ b.actors \in [squad : ActorRecords, mutant_pack : ActorRecords]
    /\ b.packs \in Seq(ActorRecords)

IsQueue ==
    /\ DOMAIN asked = Queue!Ids
    /\ status \in [Queue!Ids -> {"new", "pending", "done", "failed", "taken"}]

\* A session that was not set up has nothing in flight, so that setting it up
\* loses nothing.
SessionInv(b, states, contexts) ==
    /\ IsSession(b)
    /\ ~b.initialized => DOMAIN b.pending = {}
    /\ DOMAIN b.pending = {id \in Queue!Ids : states[id] \in Settled}
    /\ \A id \in DOMAIN b.pending :
           /\ b.pending[id] \in Targets
           /\ Known(b, b.pending[id])
           /\ Find(b, b.pending[id]).id = contexts[id]

IInv == SessionInv(bridge, status, asked) /\ IsQueue

\* The agents of session b are those of session c, which may have more.
SameAgents(b, c) ==
    /\ IsSession(c)
    /\ b.initialized => c.initialized
    /\ \A t \in Targets : Known(b, t) => Known(c, t) /\ Find(c, t).id = Find(b, t).id

-----------------------------------------------------------------------------
(* What the operators of the session do to its agents.                     *)

\* A result may change what an actor intends, never who it is.
LEMMA ResultKeepsActor ==
    ASSUME NEW world, NEW runtime, NEW actor \in ActorRecords, NEW result \in ResultRecords
    PROVE  /\ ApplyProviderResult(world, runtime, actor, result).actor \in ActorRecords
           /\ ApplyProviderResult(world, runtime, actor, result).actor.id = actor.id
<1>1. /\ Remembered(actor, result.plan) \in ActorRecords
      /\ Remembered(actor, result.plan).id = actor.id
  BY DEF Remembered, ActorRecords, ResultRecords
<1>2. ASSUME NEW executed
      PROVE  AfterExecution(executed, runtime, actor, result.plan).actor
                 \in {actor, Remembered(actor, result.plan)}
  BY DEF AfterExecution, Outcome
<1>3. ApplyProviderResult(world, runtime, actor, result).actor
          \in {actor, Remembered(actor, result.plan)}
  BY <1>2 DEF ApplyProviderResult, Outcome
<1> QED
  BY <1>1, <1>3

LEMMA DebugTargets ==
    ASSUME NEW t \in Targets, t.kind = "DebugActor"
    PROVE  t.actor \in {"squad", "mutant_pack"}
<1>1. \A id \in 1..MaxPacks : SessionPack(id).kind = "SessionPack"
  BY DEF SessionPack
<1>2. t \notin {SessionPack(id) : id \in 1..MaxPacks}
  BY <1>1
<1>3. t \in {DebugActor("squad"), DebugActor("mutant_pack")}
  BY <1>2 DEF Targets
<1> QED
  BY <1>3 DEF DebugActor

LEMMA FoundIsActor ==
    ASSUME NEW b, IsSession(b), NEW t \in Targets, Known(b, t)
    PROVE  Find(b, t) \in ActorRecords
<1>1. CASE t.kind = "DebugActor"
  <2>1. t.actor \in {"squad", "mutant_pack"}
    BY <1>1, DebugTargets
  <2> QED
    BY <1>1, <2>1 DEF IsSession, Find
<1>2. CASE t.kind # "DebugActor"
  BY <1>2 DEF IsSession, Find, Known
<1> QED
  BY <1>1, <1>2

\* An actor is replaced by one with the same id.
LEMMA WithActorKeeps ==
    ASSUME NEW b, IsSession(b), NEW t \in Targets, Known(b, t),
           NEW a \in ActorRecords, a.id = Find(b, t).id
    PROVE  /\ SameAgents(b, WithActor(b, t, a))
           /\ WithActor(b, t, a).pending = b.pending
<1> DEFINE c == WithActor(b, t, a)
<1>1. CASE t.kind = "DebugActor"
  <2>1. t.actor \in {"squad", "mutant_pack"}
    BY <1>1, DebugTargets
  <2>2. /\ DOMAIN c = Fields
        /\ c.actors = [b.actors EXCEPT ![t.actor] = a]
        /\ c.packs = b.packs /\ c.pending = b.pending /\ c.initialized = b.initialized
    BY <1>1 DEF WithActor, IsSession, Fields
  <2>3. c.actors \in [squad : ActorRecords, mutant_pack : ActorRecords]
    BY <2>1, <2>2 DEF IsSession
  <2>4. ASSUME NEW u \in Targets, Known(b, u)
        PROVE  Known(c, u) /\ Find(c, u).id = Find(b, u).id
    <3>1. CASE u.kind = "DebugActor"
      <4>1. u.actor \in {"squad", "mutant_pack"}
        BY <3>1, DebugTargets
      <4>2. c.actors[u.actor] = IF u.actor = t.actor THEN a ELSE b.actors[u.actor]
        BY <4>1, <2>2 DEF IsSession
      <4> QED
        BY <1>1, <3>1, <4>2 DEF Known, Find
    <3>2. CASE u.kind # "DebugActor"
      BY <3>2, <2>2, <2>4 DEF Known, Find
    <3> QED
      BY <3>1, <3>2
  <2> QED
    BY <2>2, <2>3, <2>4 DEF SameAgents, IsSession
<1>2. CASE t.kind # "DebugActor"
  <2>1. t.pack \in DOMAIN b.packs
    BY <1>2 DEF Known
  <2>2. /\ DOMAIN c = Fields
        /\ c.packs = [b.packs EXCEPT ![t.pack] = a]
        /\ c.actors = b.actors /\ c.pending = b.pending /\ c.initialized = b.initialized
    BY <1>2 DEF WithActor, IsSession, Fields
  <2>3. c.packs \in Seq(ActorRecords) /\ DOMAIN c.packs = DOMAIN b.packs
    BY <2>1, <2>2, ExceptSeq DEF IsSession
  <2>4. ASSUME NEW u \in Targets, Known(b, u)
        PROVE  Known(c, u) /\ Find(c, u).id = Find(b, u).id
    <3>1. CASE u.kind = "DebugActor"
      BY <3>1, <2>2 DEF Known, Find
    <3>2. CASE u.kind # "DebugActor"
      <4>1. u.pack \in DOMAIN b.packs
        BY <3>2, <2>4 DEF Known
      <4>2. c.packs[u.pack] = IF u.pack = t.pack THEN a ELSE b.packs[u.pack]
        BY <4>1, <2>2
      <4> QED
        BY <1>2, <3>2, <4>1, <4>2, <2>3 DEF Known, Find
    <3> QED
      BY <3>1, <3>2
  <2> QED
    BY <2>2, <2>3, <2>4 DEF SameAgents, IsSession
<1> QED
  BY <1>1, <1>2

\* A fresh session has the debug actors, and nothing in flight.
LEMMA FreshSession ==
    /\ IsSession(ResetDebugWorld) /\ IsSession(Unset)
    /\ ResetDebugWorld.initialized
    /\ DOMAIN ResetDebugWorld.pending = {} /\ DOMAIN Unset.pending = {}
<1>1. <<>> \in Seq(ActorRecords) /\ DOMAIN <<>> = {}
  BY EmptySeq
<1>2. /\ DebugActors \in [squad : ActorRecords, mutant_pack : ActorRecords]
      /\ Unset.actors \in [squad : ActorRecords, mutant_pack : ActorRecords]
  BY DEF DebugActors, Unset, Actor, ActorRecords, Plans
<1>3. IsSession(Unset)
  BY <1>1, <1>2 DEF IsSession, Unset, Fields
<1>4. IsSession(ResetDebugWorld)
  BY <1>1, <1>2 DEF IsSession, ResetDebugWorld, Unset, Fields
<1> QED
  BY <1>1, <1>3, <1>4 DEF ResetDebugWorld, Unset

LEMMA EnsureKeepsInv ==
    ASSUME SessionInv(bridge, status, asked)
    PROVE  /\ SessionInv(EnsureDebugWorld(bridge), status, asked)
           /\ EnsureDebugWorld(bridge).initialized
<1>1. CASE bridge.initialized
  BY <1>1 DEF EnsureDebugWorld
<1>2. CASE ~bridge.initialized
  <2>1. EnsureDebugWorld(bridge) = ResetDebugWorld
    BY <1>2 DEF EnsureDebugWorld
  <2>2. {id \in Queue!Ids : status[id] \in Settled} = {}
    BY <1>2 DEF SessionInv
  <2> QED
    BY <2>1, <2>2, FreshSession DEF SessionInv
<1> QED
  BY <1>1, <1>2

\* A verb that leaves the queue and the bindings alone, and drops no agent.
LEMMA SameAgentsKeepInv ==
    ASSUME IInv, NEW b, SessionInv(b, status, asked), SameAgents(b, bridge'),
           bridge'.pending = b.pending,
           UNCHANGED queueVars
    PROVE  IInv'
<1>1. status' = status /\ asked' = asked
  BY DEF queueVars
<1>2. ASSUME NEW id \in DOMAIN b.pending
      PROVE  /\ b.pending[id] \in Targets
             /\ Known(bridge', b.pending[id])
             /\ Find(bridge', b.pending[id]).id = asked[id]
  BY <1>2 DEF SessionInv, SameAgents
<1>3. ~bridge'.initialized => DOMAIN b.pending = {}
  BY DEF SessionInv, SameAgents
<1>4. SessionInv(bridge', status', asked')
  BY <1>1, <1>2, <1>3 DEF SessionInv, SameAgents
<1> QED
  BY <1>1, <1>4 DEF IInv, IsQueue

\* An answered wake loses its binding, and its request its place.
LEMMA UnboundKeepsInv ==
    ASSUME IInv, NEW id \in DOMAIN bridge.pending, NEW b,
           SameAgents(bridge, b), b.pending = Forget(bridge.pending, id),
           bridge' = b, Queue!Take(id), status[id] \in Settled
    PROVE  IInv'
<1>1. id \in Queue!Ids
  BY DEF IInv, SessionInv
<1>2. status' = [status EXCEPT ![id] = "taken"] /\ asked' = asked
  BY DEF Queue!Take
<1>3. /\ status' \in [Queue!Ids -> {"new", "pending", "done", "failed", "taken"}]
      /\ {i \in Queue!Ids : status'[i] \in Settled}
             = {i \in Queue!Ids : status[i] \in Settled} \ {id}
  BY <1>1, <1>2 DEF IInv, IsQueue, Settled
<1>4. /\ DOMAIN b.pending = DOMAIN bridge.pending \ {id}
      /\ \A i \in DOMAIN b.pending : b.pending[i] = bridge.pending[i]
  BY DEF Forget
<1>5. ASSUME NEW i \in DOMAIN b.pending
      PROVE  /\ b.pending[i] \in Targets
             /\ Known(b, b.pending[i])
             /\ Find(b, b.pending[i]).id = asked[i]
  BY <1>4, <1>5 DEF IInv, SessionInv, SameAgents
<1>6. ~b.initialized => DOMAIN b.pending = {}
  BY <1>4 DEF IInv, SessionInv, SameAgents
<1>7. SessionInv(b, status', asked')
  BY <1>2, <1>3, <1>4, <1>5, <1>6 DEF IInv, SessionInv, SameAgents
<1> QED
  BY <1>2, <1>3, <1>7 DEF IInv, IsQueue

\* What a verb writes besides the agents and the bindings is its own affair.
LEMMA OtherFieldsKeep ==
    ASSUME NEW b, IsSession(b), NEW c, DOMAIN c = DOMAIN b,
           c.actors = b.actors, c.packs = b.packs, b.initialized => c.initialized
    PROVE  SameAgents(b, c)
BY DEF SameAgents, IsSession, Known, Find

\* The result of a wake, applied to a session whose bindings are being updated.
LEMMA ApplyKeeps ==
    ASSUME NEW verb, NEW b, IsSession(b), NEW t \in Targets, Known(b, t),
           NEW result \in ResultRecords, Apply(verb, b, t, result)
    PROVE  SameAgents(b, bridge') /\ bridge'.pending = b.pending
<1> DEFINE after == ApplyProviderResult(b.world, b.runtime, Find(b, t), result)
           c == WithActor(b, t, after.actor)
<1>1. after.actor \in ActorRecords /\ after.actor.id = Find(b, t).id
  BY FoundIsActor, ResultKeepsActor
<1>2. SameAgents(b, c) /\ c.pending = b.pending
  BY <1>1, WithActorKeeps
<1>3. bridge' = [c EXCEPT !.world = after.world, !.runtime = after.runtime]
  BY DEF Apply
<1>4. /\ DOMAIN bridge' = DOMAIN c /\ bridge'.pending = c.pending
      /\ bridge'.actors = c.actors /\ bridge'.packs = c.packs
      /\ bridge'.initialized = c.initialized
  BY <1>2, <1>3 DEF SameAgents, IsSession, Fields
<1> QED
  BY <1>2, <1>4 DEF SameAgents, IsSession, Known, Find

-----------------------------------------------------------------------------
(* The verbs, one lemma for each way in which they touch the bindings.     *)

\* The session is set up, and nothing else of it that matters is touched.
LEMMA EnsuredStep ==
    ASSUME IInv, UNCHANGED queueVars, NEW b, b = EnsureDebugWorld(bridge),
           DOMAIN bridge' = DOMAIN b, bridge'.actors = b.actors, bridge'.packs = b.packs,
           bridge'.initialized = b.initialized, bridge'.pending = b.pending
    PROVE  IInv'
<1>1. SessionInv(b, status, asked) /\ b.initialized
  BY EnsureKeepsInv DEF IInv
<1>2. SameAgents(b, bridge')
  BY <1>1, OtherFieldsKeep DEF SessionInv
<1> QED
  BY <1>1, <1>2, SameAgentsKeepInv

LEMMA SetUpStep ==
    ASSUME IInv, Observe \/ AiSnapshot \/ (\E t \in Targets : WakeLiveUnknown(t))
    PROVE  IInv'
BY EnsuredStep DEF Observe, AiSnapshot, WakeLiveUnknown

LEMMA InjectStep ==
    ASSUME IInv, NEW region, NEW delta, AiInject(region, delta)
    PROVE  IInv'
<1> DEFINE b == EnsureDebugWorld(bridge)
<1>1. DOMAIN b = Fields
  BY EnsureKeepsInv DEF IInv, SessionInv, IsSession
<1>2. UNCHANGED queueVars
  BY DEF AiInject
<1>3. bridge' = b \/ \E w, n : bridge' = [b EXCEPT !.world = w, !.nextSeq = n]
  BY DEF AiInject
<1> QED
  BY <1>1, <1>2, <1>3, EnsuredStep DEF Fields

LEMMA ZoneStep ==
    ASSUME IInv, NEW reply, WakeZoneAgent(reply)
    PROVE  IInv'
<1> DEFINE b == EnsureDebugWorld(bridge)
<1>1. DOMAIN b = Fields
  BY EnsureKeepsInv DEF IInv, SessionInv, IsSession
<1>2. UNCHANGED queueVars
  BY DEF WakeZoneAgent
<1>3. \E w, n : bridge' = [b EXCEPT !.world = w, !.nextSeq = n]
  BY DEF WakeZoneAgent
<1> QED
  BY <1>1, <1>2, <1>3, EnsuredStep DEF Fields

\* A restored world leaves the agents and what is in flight alone.
LEMMA RestoreStep ==
    ASSUME IInv, NEW snapshot, AiRestore(snapshot)
    PROVE  IInv'
<1>1. UNCHANGED queueVars
  BY DEF AiRestore
<1>2. SessionInv(bridge, status, asked) /\ DOMAIN bridge = Fields
  BY DEF IInv, SessionInv, IsSession
<1>3. \/ bridge' = bridge
      \/ \E w, n : bridge' = [bridge EXCEPT !.world = w, !.initialized = TRUE, !.nextSeq = n]
  BY DEF AiRestore
<1>4. /\ DOMAIN bridge' = DOMAIN bridge /\ bridge'.pending = bridge.pending
      /\ bridge'.actors = bridge.actors /\ bridge'.packs = bridge.packs
      /\ bridge.initialized => bridge'.initialized
  BY <1>2, <1>3 DEF Fields
<1>5. SameAgents(bridge, bridge')
  BY <1>2, <1>4, OtherFieldsKeep DEF SessionInv
<1> QED
  BY <1>1, <1>2, <1>4, <1>5, SameAgentsKeepInv

\* ai.reset starts over on both sides.
LEMMA ResetStep ==
    ASSUME IInv, AiReset
    PROVE  IInv'
<1>1. bridge' = ResetDebugWorld
  BY DEF AiReset, Reset
<1>2. /\ status' = [i \in Queue!Ids |-> "new"] /\ DOMAIN asked' = Queue!Ids
      /\ {id \in Queue!Ids : status'[id] \in Settled} = {}
  BY DEF AiReset, NewQueue, Queue!Ids, Settled
<1>3. SessionInv(bridge', status', asked')
  BY <1>1, <1>2, FreshSession DEF SessionInv
<1> QED
  BY <1>2, <1>3 DEF IInv, IsQueue

\* A pack is added behind the others.
LEMMA RegisterStep ==
    ASSUME IInv, MaxPacks \in Nat, NEW members, RegisterPack(members)
    PROVE  IInv'
<1> DEFINE b == EnsureDebugWorld(bridge)
           pack == Actor(PackAgentId(Len(b.packs) + 1), "MutantPack")
<1>1. SessionInv(b, status, asked) /\ IsSession(b) /\ UNCHANGED queueVars
  BY EnsureKeepsInv DEF IInv, SessionInv, RegisterPack
<1>2. CASE bridge' = b
  BY <1>1, <1>2, EnsuredStep
<1>3. CASE bridge' = RegisterSessionMutantPack(b)
  <2>1. pack \in ActorRecords
    BY <1>1, LenProperties DEF IsSession, Actor, PackAgentId, ActorRecords, Plans
  <2>2. /\ DOMAIN bridge' = Fields /\ bridge'.packs = Append(b.packs, pack)
        /\ bridge'.actors = b.actors /\ bridge'.pending = b.pending
        /\ bridge'.initialized = b.initialized
    BY <1>1, <1>3 DEF RegisterSessionMutantPack, IsSession, Fields
  <2>3. /\ bridge'.packs \in Seq(ActorRecords)
        /\ \A i \in DOMAIN b.packs : i \in DOMAIN bridge'.packs /\ bridge'.packs[i] = b.packs[i]
    BY <1>1, <2>1, <2>2, AppendProperties, LenProperties DEF IsSession
  <2>4. SameAgents(b, bridge')
    BY <1>1, <2>2, <2>3 DEF SameAgents, IsSession, Known, Find
  <2> QED
    BY <1>1, <2>2, <2>4, SameAgentsKeepInv
<1> QED
  BY <1>2, <1>3 DEF RegisterPack

LEMMA DeterministicResult ==
    ASSUME NEW actor
    PROVE  DeterministicActorIntentProvider(actor) \in ResultRecords
BY DEF DeterministicActorIntentProvider, Answered, ResultRecords, Plans

LEMMA ProviderResultsAreResults ==
    ASSUME NEW kind, NEW result \in ProviderResults(kind)
    PROVE  result \in ResultRecords
<1>1. \A plan \in Plans : Answered(plan) \in ResultRecords
  BY DEF Answered, ResultRecords
<1>2. LivePlans \cup {CoastPlan, NoPlan} \subseteq Plans
  BY DEF Plans
<1>3. Failure \in ResultRecords
  BY <1>2 DEF Failure, ResultRecords
<1>4. CASE kind = "plan"
  BY <1>1, <1>2, <1>4 DEF ProviderResults
<1>5. CASE kind = "coast"
  BY <1>1, <1>2, <1>5 DEF ProviderResults
<1>6. CASE kind \notin {"plan", "coast"}
  BY <1>3, <1>6 DEF ProviderResults
<1> QED
  BY <1>4, <1>5, <1>6

LEMMA WakeStep ==
    ASSUME IInv, NEW t \in Targets, Wake(t)
    PROVE  IInv'
<1> DEFINE b == EnsureDebugWorld(bridge)
<1>1. SessionInv(b, status, asked) /\ IsSession(b) /\ UNCHANGED queueVars
  BY EnsureKeepsInv DEF IInv, SessionInv, Wake
<1>2. CASE Known(b, t)
  <2>1. Apply("wake", b, t, DeterministicActorIntentProvider(Find(b, t)))
    BY <1>2 DEF Wake
  <2>2. SameAgents(b, bridge') /\ bridge'.pending = b.pending
    BY <1>1, <1>2, <2>1, DeterministicResult, ApplyKeeps
  <2> QED
    BY <1>1, <2>2, SameAgentsKeepInv
<1>3. CASE ~Known(b, t)
  BY <1>1, <1>3, EnsuredStep DEF Wake
<1> QED
  BY <1>2, <1>3

\* A live wake gets its request and its binding in one verb.
LEMMA WakeLiveStep ==
    ASSUME IInv, NEW t \in Targets, WakeLive(t)
    PROVE  IInv'
<1> DEFINE b == EnsureDebugWorld(bridge)
<1>1. SessionInv(b, status, asked) /\ IsSession(b) /\ b.initialized /\ Known(b, t)
  BY EnsureKeepsInv DEF IInv, SessionInv, WakeLive
<1>2. PICK id \in Queue!Ids : /\ Queue!Ask(id, Find(b, t).id)
                              /\ bridge' = Bound(b, id, t)
  BY DEF WakeLive
<1>3. /\ asked' = [asked EXCEPT ![id] = Find(b, t).id]
      /\ status[id] = "new" /\ status' = [status EXCEPT ![id] = "pending"]
  BY <1>2 DEF Queue!Ask
<1>4. /\ status' \in [Queue!Ids -> {"new", "pending", "done", "failed", "taken"}]
      /\ DOMAIN asked' = Queue!Ids
      /\ {i \in Queue!Ids : status'[i] \in Settled}
             = {i \in Queue!Ids : status[i] \in Settled} \cup {id}
  BY <1>3 DEF IInv, IsQueue, Settled
<1>5. /\ DOMAIN bridge' = Fields
      /\ bridge'.pending
             = [i \in DOMAIN b.pending \cup {id} |-> IF i = id THEN t ELSE b.pending[i]]
      /\ bridge'.actors = b.actors /\ bridge'.packs = b.packs
      /\ bridge'.initialized = b.initialized
  BY <1>1, <1>2 DEF Bound, IsSession, Fields
<1>6. /\ DOMAIN bridge'.pending = DOMAIN b.pending \cup {id}
      /\ \A i \in DOMAIN bridge'.pending :
             bridge'.pending[i] = IF i = id THEN t ELSE b.pending[i]
  BY <1>5
<1>7. \A u \in Targets : Known(bridge', u) = Known(b, u) /\ Find(bridge', u) = Find(b, u)
  BY <1>5 DEF Known, Find
<1>8. ASSUME NEW i \in DOMAIN bridge'.pending
      PROVE  /\ bridge'.pending[i] \in Targets
             /\ Known(bridge', bridge'.pending[i])
             /\ Find(bridge', bridge'.pending[i]).id = asked'[i]
  <2>1. CASE i = id
    <3>1. bridge'.pending[i] = t /\ asked'[i] = Find(b, t).id
      BY <1>3, <1>6, <1>8, <2>1 DEF IInv, IsQueue
    <3> QED
      BY <1>1, <1>7, <3>1
  <2>2. CASE i # id
    <3>1. i \in DOMAIN b.pending /\ bridge'.pending[i] = b.pending[i]
      BY <1>6, <1>8, <2>2
    <3>2. i \in Queue!Ids
      BY <1>1, <3>1 DEF SessionInv
    <3>3. asked'[i] = asked[i]
      BY <1>3, <2>2, <3>2 DEF IInv, IsQueue
    <3> QED
      BY <1>1, <1>7, <3>1, <3>3 DEF SessionInv
  <2> QED
    BY <2>1, <2>2
<1>9. SessionInv(bridge', status', asked')
  BY <1>1, <1>4, <1>5, <1>6, <1>8 DEF SessionInv, IsSession
<1> QED
  BY <1>4, <1>9 DEF IInv, IsQueue

\* A poll of a wake in flight: not answered yet, or taken and unbound.
LEMMA PollStep ==
    ASSUME IInv, NEW id \in Queue!Ids, Poll(id)
    PROVE  IInv'
<1>1. /\ id \in DOMAIN bridge.pending /\ status[id] \in Settled
      /\ IsSession(bridge) /\ bridge.pending[id] \in Targets
      /\ Known(bridge, bridge.pending[id])
  BY DEF Poll, IInv, SessionInv
<1> DEFINE t == bridge.pending[id]
           b == Unbound(bridge, id)
<1>2. SameAgents(bridge, b) /\ b.pending = Forget(bridge.pending, id) /\ IsSession(b)
  <2>1. /\ DOMAIN b = DOMAIN bridge /\ b.actors = bridge.actors /\ b.packs = bridge.packs
        /\ b.initialized = bridge.initialized /\ b.pending = Forget(bridge.pending, id)
    BY <1>1 DEF Unbound, IsSession, Fields
  <2> QED
    BY <1>1, <2>1, OtherFieldsKeep DEF SameAgents
<1>3. CASE Queue!Inquire(id)
  <2>1. status[id] = "pending"
    BY <1>1, <1>3 DEF Queue!Inquire, Settled
  <2>2. answer'.answer = "pending" /\ UNCHANGED <<asked, status>>
    BY <1>3, <2>1 DEF Queue!Inquire, Queue!Answer
  <2>3. bridge' = bridge
    BY <2>2 DEF Poll
  <2> QED
    BY <2>2, <2>3 DEF IInv, IsQueue
<1>4. CASE Queue!Take(id)
  <2>1. answer'.answer \in {"result", "queue_shutdown"}
    BY <1>4 DEF Queue!Take, Queue!Answer
  <2>2. CASE answer'.answer = "result"
    <3>1. PICK result \in ProviderResults(answer'.result.kind) : Apply("poll", b, t, result)
      BY <1>1, <2>2 DEF Poll
    <3>2. result \in ResultRecords
      BY ProviderResultsAreResults
    <3>3. Known(b, t)
      BY <1>1, <1>2 DEF SameAgents
    <3>4. SameAgents(b, bridge') /\ bridge'.pending = b.pending
      BY <1>1, <1>2, <3>1, <3>2, <3>3, ApplyKeeps
    <3>5. SameAgents(bridge, bridge')
      BY <1>2, <3>4 DEF SameAgents
    <3> QED
      BY <1>1, <1>2, <1>4, <3>4, <3>5, UnboundKeepsInv
  <2>3. CASE answer'.answer = "queue_shutdown"
    <3>1. bridge' = b
      BY <1>1, <2>3 DEF Poll
    <3> QED
      BY <1>1, <1>2, <1>4, <3>1, UnboundKeepsInv
  <2> QED
    BY <2>1, <2>2, <2>3
<1> QED
  BY <1>3, <1>4 DEF Poll

\* The worker turns a pending wake into a done one, which is as bound.
LEMMA WorkerStep ==
    ASSUME IInv, WorkerFinishes
    PROVE  IInv'
<1>1. PICK id \in Queue!Ids, kind \in {"plan", "coast", "error"} : Queue!Finish(id, kind)
  BY DEF WorkerFinishes, Queue!FinishSome
<1>2. /\ status[id] = "pending" /\ status' = [status EXCEPT ![id] = "done"]
      /\ asked' = asked /\ bridge' = bridge
  BY <1>1 DEF Queue!Finish, WorkerFinishes
<1>3. /\ status' \in [Queue!Ids -> {"new", "pending", "done", "failed", "taken"}]
      /\ {i \in Queue!Ids : status'[i] \in Settled} = {i \in Queue!Ids : status[i] \in Settled}
  BY <1>2 DEF IInv, IsQueue, Settled
<1> QED
  BY <1>2, <1>3 DEF IInv, IsQueue, SessionInv

-----------------------------------------------------------------------------
(* The invariant, and what it says of the bindings.                        *)

LEMMA InitIInv == Init => IInv
<1> SUFFICES ASSUME Init PROVE IInv
  OBVIOUS
<1>1. /\ bridge = Unset /\ status = [i \in Queue!Ids |-> "new"] /\ DOMAIN asked = Queue!Ids
      /\ {id \in Queue!Ids : status[id] \in Settled} = {}
  BY DEF Init, Queue!Ids, Settled
<1> QED
  BY <1>1, FreshSession DEF IInv, SessionInv, IsQueue

LEMMA NextIInv == MaxPacks \in Nat /\ IInv /\ [Next]_vars => IInv'
<1> SUFFICES ASSUME MaxPacks \in Nat, IInv, [Next]_vars PROVE IInv'
  OBVIOUS
<1>1. CASE UNCHANGED vars
  BY <1>1 DEF vars, queueVars, IInv, SessionInv, IsQueue
<1>2. CASE \E id \in Queue!Ids : PollUnknown(id)
  BY <1>2 DEF PollUnknown, queueVars, IInv, SessionInv, IsQueue
<1>3. CASE AiReset
  BY <1>3, ResetStep
<1>4. CASE Observe \/ AiSnapshot \/ (\E t \in Targets : WakeLiveUnknown(t))
  BY <1>4, SetUpStep
<1>5. CASE \E region, delta : AiInject(region, delta)
  BY <1>5, InjectStep
<1>6. CASE \E reply : WakeZoneAgent(reply)
  BY <1>6, ZoneStep
<1>7. CASE \E snapshot : AiRestore(snapshot)
  BY <1>7, RestoreStep
<1>8. CASE \E members : RegisterPack(members)
  BY <1>8, RegisterStep
<1>9. CASE \E t \in Targets : Wake(t)
  BY <1>9, WakeStep
<1>10. CASE \E t \in Targets : WakeLive(t)
  BY <1>10, WakeLiveStep
<1>11. CASE \E id \in Queue!Ids : Poll(id)
  BY <1>11, PollStep
<1>12. CASE WorkerFinishes
  BY <1>12, WorkerStep
<1> QED
  BY <1>1, <1>2, <1>3, <1>4, <1>5, <1>6, <1>7, <1>8, <1>9, <1>10, <1>11, <1>12 DEF Next

\* For any number of wakes and packs, any plans, any snapshots and any world:
\* the invariant of the bindings.
THEOREM SessionInvariant == Spec => []IInv
BY InitIInv, NextIInv, PacksAssumption, PTL DEF Spec

\* Every wake in flight has its binding, and every binding its request: none
\* waits for ever, and none cannot be polled (g_pendingActorWakes).
THEOREM WakesStayBound == Spec => []WakesAreBound
<1>1. IInv => WakesAreBound
  BY DEF IInv, SessionInv, WakesAreBound
<1> QED
  BY <1>1, SessionInvariant, PTL

\* The result of a wake reaches the actor whose context was sent, whatever
\* was reset, restored or registered in between.
THEOREM ResultsReachTheirActor == Spec => []BindingsHold
<1>1. IInv => BindingsHold
  BY DEF IInv, SessionInv, BindingsHold
<1> QED
  BY <1>1, SessionInvariant, PTL

-----------------------------------------------------------------------------
(* What the commands in force are, and whose.                              *)

\* No two agents have the same id, but actors that were not made; commands are
\* kept for agents only, and those of an actor that was made are its intent's.
HasAgents(b) ==
    /\ b.actors.squad.id \in {0, 101} /\ b.actors.mutant_pack.id \in {0, 201}
    /\ \A i \in DOMAIN b.packs : b.packs[i].id = PackAgentId(i)
IsRuntime(runtime) == DOMAIN runtime = {"commands", "last"}
CommandsAre(b) ==
    /\ IsRuntime(b.runtime)
    /\ DOMAIN b.runtime.commands
           \subseteq {0, 101, 201} \cup {PackAgentId(i) : i \in DOMAIN b.packs}
    /\ \A t \in Targets :
          LET actor == Find(b, t)
          IN  Known(b, t) /\ actor.id # 0 /\ actor.id \in DOMAIN b.runtime.commands =>
                  b.runtime.commands[actor.id] = CommandsOf(actor.lastIntent)
AgentsInv == HasAgents(bridge) /\ CommandsAre(bridge)

LEMMA PackTargets ==
    ASSUME NEW t \in Targets, t.kind # "DebugActor"
    PROVE  t = SessionPack(t.pack) /\ t.pack \in Int
<1>1. t \notin {DebugActor("squad"), DebugActor("mutant_pack")}
  BY DEF DebugActor
<1>2. t \in {SessionPack(id) : id \in 1..MaxPacks}
  BY <1>1 DEF Targets
<1>3. PICK id \in 1..MaxPacks : t = SessionPack(id)
  BY <1>2
<1> QED
  <2>1. t.pack = id
    BY <1>3 DEF SessionPack
  <2>2. \A n \in Nat : \A i \in 1..n : i \in Int
    OBVIOUS
  <2>3. id \in Int
    BY <2>2, PacksAssumption
  <2> QED
    BY <1>3, <2>1, <2>3

LEMMA IdOf ==
    ASSUME NEW b, IsSession(b), HasAgents(b), NEW t \in Targets, Known(b, t), Find(b, t).id # 0
    PROVE  \/ t = DebugActor("squad") /\ Find(b, t).id = 101
           \/ t = DebugActor("mutant_pack") /\ Find(b, t).id = 201
           \/ \E i \in Int : i > 0 /\ t = SessionPack(i) /\ Find(b, t).id = 2000 + i
<1>1. CASE t = DebugActor("squad")
  <2>1. Find(b, t) = b.actors.squad
    BY <1>1 DEF Find, DebugActor
  <2> QED
    BY <1>1, <2>1 DEF HasAgents
<1>2. CASE t = DebugActor("mutant_pack")
  <2>1. Find(b, t) = b.actors.mutant_pack
    BY <1>2 DEF Find, DebugActor
  <2> QED
    BY <1>2, <2>1 DEF HasAgents
<1>3. CASE t \notin {DebugActor("squad"), DebugActor("mutant_pack")}
  <2>1. PICK i \in 1..MaxPacks : t = SessionPack(i)
    BY <1>3 DEF Targets
  <2>2. \A n \in Nat : \A k \in 1..n : k \in Int /\ k > 0
    OBVIOUS
  <2>3. i \in Int /\ i > 0
    BY <2>2, PacksAssumption
  <2>4. t.kind # "DebugActor" /\ t.pack = i
    BY <2>1 DEF SessionPack
  <2>5. i \in DOMAIN b.packs /\ Find(b, t) = b.packs[i]
    BY <2>4 DEF Known, Find
  <2>6. Find(b, t).id = 2000 + i
    BY <2>5 DEF HasAgents, PackAgentId
  <2> QED
    BY <2>1, <2>3, <2>6
<1> QED
  BY <1>1, <1>2, <1>3

\* Two agents with one id are one.
LEMMA IdsDiffer ==
    ASSUME NEW b, IsSession(b), HasAgents(b), NEW t \in Targets, NEW u \in Targets,
           Known(b, t), Known(b, u), Find(b, t).id = Find(b, u).id, Find(b, t).id # 0
    PROVE  t = u
<1>1. /\ \/ t = DebugActor("squad") /\ Find(b, t).id = 101
         \/ t = DebugActor("mutant_pack") /\ Find(b, t).id = 201
         \/ \E i \in Int : i > 0 /\ t = SessionPack(i) /\ Find(b, t).id = 2000 + i
      /\ \/ u = DebugActor("squad") /\ Find(b, t).id = 101
         \/ u = DebugActor("mutant_pack") /\ Find(b, t).id = 201
         \/ \E i \in Int : i > 0 /\ u = SessionPack(i) /\ Find(b, t).id = 2000 + i
  BY IdOf
<1>2. \A i \in Int, j \in Int : /\ 2000 + i = 2000 + j => i = j
                               /\ i > 0 => 2000 + i # 101 /\ 2000 + i # 201
  OBVIOUS
<1> QED
  BY <1>1, <1>2

-----------------------------------------------------------------------------
(* What a result does to the commands in force and to the world.           *)

LEMMA RefusedResultKeepsWorld ==
    ASSUME NEW world, NEW runtime, NEW actor, NEW result,
           ~ApplyProviderResult(world, runtime, actor, result).ok
    PROVE  ApplyProviderResult(world, runtime, actor, result).world = world
<1> DEFINE executed == ExecuteActorIntent(world, actor, result.plan)
<1>1. ~executed.ok => executed.world = world
  BY DEF ExecuteActorIntent, Committed, Result
<1> HIDE DEF executed
<1>2. ASSUME NEW e, ~e.ok => e.world = world,
             ~AfterExecution(e, runtime, actor, result.plan).ok
      PROVE  AfterExecution(e, runtime, actor, result.plan).world = world
  BY <1>2 DEF AfterExecution, Outcome
<1>3. CASE ~result.ok
  BY <1>3 DEF ApplyProviderResult, Outcome
<1>4. CASE result.ok /\ result.plan.coast
  BY <1>4 DEF ApplyProviderResult, Outcome
<1>5. CASE result.ok /\ ~result.plan.coast
  BY <1>1, <1>2, <1>5 DEF ApplyProviderResult, executed
<1> QED
  BY <1>3, <1>4, <1>5

\* Only the commands of the actor that was woken change: they are dropped, kept,
\* or those of its new intent.
OnlyOf(id, commands, after) ==
    /\ DOMAIN after \cup {id} = DOMAIN commands \cup {id}
    /\ \A other \in DOMAIN commands \ {id} : after[other] = commands[other]

LEMMA ForgetIs ==
    ASSUME NEW commands, NEW id
    PROVE  /\ id \notin DOMAIN Forgotten(commands, id)
           /\ OnlyOf(id, commands, Forgotten(commands, id))
  BY DEF Forgotten, Forget, OnlyOf

LEMMA InForceIs ==
    ASSUME NEW runtime, NEW actor, NEW commands
    PROVE  LET after == InForce(Cleared(runtime, actor), actor, commands)
           IN  /\ IsRuntime(after) /\ OnlyOf(actor.id, runtime.commands, after.commands)
               /\ actor.id \in DOMAIN after.commands
               /\ after.commands[actor.id] = commands
<1> DEFINE g == Forgotten(runtime.commands, actor.id)
           after == InForce(Cleared(runtime, actor), actor, commands)
<1>1. /\ IsRuntime(after)
      /\ after.commands = [id \in DOMAIN g \cup {actor.id} |->
                              IF id = actor.id THEN commands ELSE g[id]]
  BY DEF InForce, Cleared, IsRuntime
<1>2. actor.id \notin DOMAIN g /\ OnlyOf(actor.id, runtime.commands, g)
  BY ForgetIs
<1> HIDE DEF g, after
<1> QED
  BY <1>1, <1>2 DEF OnlyOf, after

LEMMA ResultOfCommands ==
    ASSUME NEW world, NEW runtime, IsRuntime(runtime), NEW actor \in ActorRecords,
           NEW result \in ResultRecords
    PROVE  LET after == ApplyProviderResult(world, runtime, actor, result)
           IN  /\ IsRuntime(after.runtime)
               /\ OnlyOf(actor.id, runtime.commands, after.runtime.commands)
               /\ \/ actor.id \notin DOMAIN after.runtime.commands
                  \/ after.runtime.commands = runtime.commands /\ after.actor = actor
                  \/ after.runtime.commands[actor.id] = CommandsOf(after.actor.lastIntent)
<1> DEFINE after == ApplyProviderResult(world, runtime, actor, result)
           Fine(o) == /\ IsRuntime(o.runtime)
                      /\ OnlyOf(actor.id, runtime.commands, o.runtime.commands)
                      /\ \/ actor.id \notin DOMAIN o.runtime.commands
                         \/ o.runtime.commands = runtime.commands /\ o.actor = actor
                         \/ o.runtime.commands[actor.id] = CommandsOf(o.actor.lastIntent)
<1>1. ASSUME NEW w, NEW ok PROVE Fine(Outcome(w, Cleared(runtime, actor), actor, ok))
  BY ForgetIs DEF Outcome, Cleared, IsRuntime
<1>2. ASSUME NEW w, NEW ok, NEW shown
      PROVE  Fine(Outcome(w, [runtime EXCEPT !.last = shown], actor, ok))
  BY DEF Outcome, IsRuntime, OnlyOf
<1>3. ASSUME NEW w, NEW ok
      PROVE  Fine(Outcome(w, InForce(Cleared(runtime, actor), actor, CommandsOf(result.plan)),
                          Remembered(actor, result.plan), ok))
  <2>1. Remembered(actor, result.plan).lastIntent = result.plan
    BY DEF Remembered, ActorRecords
  <2> QED
    BY <2>1, InForceIs DEF Outcome
<1> HIDE DEF Fine
<1>4. ASSUME NEW e PROVE Fine(AfterExecution(e, runtime, actor, result.plan))
  BY <1>1, <1>3 DEF AfterExecution
<1>5. Fine(after)
  BY <1>1, <1>2, <1>4 DEF ApplyProviderResult
<1> QED
  BY <1>5 DEF Fine
-----------------------------------------------------------------------------
(* A wake speaks for one actor.                                            *)

LEMMA WithActorIs ==
    ASSUME NEW b, IsSession(b), NEW t \in Targets, Known(b, t), NEW a \in ActorRecords,
           NEW u \in Targets
    PROVE  /\ Known(WithActor(b, t, a), u) <=> Known(b, u)
           /\ Known(b, u) =>
                  Find(WithActor(b, t, a), u) = IF u = t THEN a ELSE Find(b, u)
           /\ WithActor(b, t, a).runtime = b.runtime /\ WithActor(b, t, a).world = b.world
<1> DEFINE c == WithActor(b, t, a)
<1>1. DOMAIN b = Fields
  BY DEF IsSession
<1>2. CASE t.kind = "DebugActor"
  <2>1. t.actor \in {"squad", "mutant_pack"}
    BY <1>2, DebugTargets
  <2>2. /\ c.actors = [b.actors EXCEPT ![t.actor] = a] /\ c.packs = b.packs
        /\ c.runtime = b.runtime /\ c.world = b.world
    BY <1>1, <1>2 DEF WithActor, Fields
  <2>3. CASE u.kind = "DebugActor"
    <3>1. u.actor \in {"squad", "mutant_pack"}
      BY <2>3, DebugTargets
    <3>2. c.actors[u.actor] = IF u.actor = t.actor THEN a ELSE b.actors[u.actor]
      BY <2>2, <3>1 DEF IsSession
    <3>3. u = t <=> u.actor = t.actor
      <4>1. \A x \in Targets : x.kind = "DebugActor" => x = DebugActor(x.actor)
        <5>1. \A id \in 1..MaxPacks : SessionPack(id).kind = "SessionPack"
          BY DEF SessionPack
        <5> QED
          BY <5>1 DEF Targets, DebugActor
      <4> QED
        BY <1>2, <2>3, <4>1
    <3> QED
      BY <2>2, <2>3, <3>2, <3>3 DEF Known, Find
  <2>4. CASE u.kind # "DebugActor"
    BY <1>2, <2>2, <2>4 DEF Known, Find
  <2> QED
    BY <2>3, <2>4
<1>3. CASE t.kind # "DebugActor"
  <2>1. t.pack \in DOMAIN b.packs
    BY <1>3 DEF Known
  <2>2. /\ c.actors = b.actors /\ c.packs = [b.packs EXCEPT ![t.pack] = a]
        /\ c.runtime = b.runtime /\ c.world = b.world
    BY <1>1, <1>3 DEF WithActor, Fields
  <2>3. DOMAIN c.packs = DOMAIN b.packs
    BY <2>2
  <2>4. CASE u.kind = "DebugActor"
    BY <1>3, <2>2, <2>4 DEF Known, Find
  <2>5. CASE u.kind # "DebugActor"
    <3>1. u = t <=> u.pack = t.pack
      BY <1>3, <2>5, PackTargets
    <3> QED
      BY <2>1, <2>2, <2>3, <2>5, <3>1 DEF Known, Find
  <2> QED
    BY <2>4, <2>5
<1> QED
  BY <1>2, <1>3

LEMMA WithActorsIds ==
    ASSUME NEW b, IsSession(b), HasAgents(b), NEW t \in Targets, Known(b, t),
           NEW a \in ActorRecords, a.id = Find(b, t).id
    PROVE  HasAgents(WithActor(b, t, a)) /\ DOMAIN WithActor(b, t, a).packs = DOMAIN b.packs
<1> DEFINE c == WithActor(b, t, a)
<1>1. DOMAIN b = Fields
  BY DEF IsSession
<1>2. CASE t.kind = "DebugActor"
  <2>1. t.actor \in {"squad", "mutant_pack"} /\ a.id = b.actors[t.actor].id
    BY <1>2, DebugTargets DEF Find
  <2>2. c.actors = [b.actors EXCEPT ![t.actor] = a] /\ c.packs = b.packs
    BY <1>1, <1>2 DEF WithActor, Fields
  <2>3. /\ c.actors.squad.id = b.actors.squad.id
        /\ c.actors.mutant_pack.id = b.actors.mutant_pack.id
    BY <2>1, <2>2 DEF IsSession
  <2> QED
    BY <2>2, <2>3 DEF HasAgents
<1>3. CASE t.kind # "DebugActor"
  <2>1. t.pack \in DOMAIN b.packs /\ a.id = b.packs[t.pack].id
    BY <1>3 DEF Known, Find
  <2>2. c.packs = [b.packs EXCEPT ![t.pack] = a] /\ c.actors = b.actors
    BY <1>1, <1>3 DEF WithActor, Fields
  <2> QED
    BY <2>1, <2>2 DEF HasAgents
<1> QED
  BY <1>2, <1>3

\* The others of session b are in session c what they were.
OthersAre(b, c, t) ==
    \A u \in Targets : Known(b, u) /\ u # t /\ Find(b, u).id # 0 =>
        /\ Find(c, u) = Find(b, u)
        /\ CommandsInForce(c.runtime, Find(b, u).id) = CommandsInForce(b.runtime, Find(b, u).id)

LEMMA ApplyIs ==
    ASSUME NEW verb, NEW b, IsSession(b), HasAgents(b), CommandsAre(b),
           NEW t \in Targets, Known(b, t),
           NEW result \in ResultRecords, Apply(verb, b, t, result)
    PROVE  /\ HasAgents(bridge') /\ CommandsAre(bridge') /\ OthersAre(b, bridge', t)
           /\ last' = Said(verb, last'.ok, t)
           /\ ~last'.ok => bridge'.world = b.world
<1> DEFINE actor == Find(b, t)
           after == ApplyProviderResult(b.world, b.runtime, actor, result)
           c == WithActor(b, t, after.actor)
<1>1. /\ actor \in ActorRecords /\ after.actor \in ActorRecords /\ after.actor.id = actor.id
  BY FoundIsActor, ResultKeepsActor
<1>2. /\ IsRuntime(after.runtime)
      /\ OnlyOf(actor.id, b.runtime.commands, after.runtime.commands)
      /\ \/ actor.id \notin DOMAIN after.runtime.commands
         \/ after.runtime.commands = b.runtime.commands /\ after.actor = actor
         \/ after.runtime.commands[actor.id] = CommandsOf(after.actor.lastIntent)
  BY <1>1, ResultOfCommands DEF CommandsAre
<1>3. ~after.ok => after.world = b.world
  BY RefusedResultKeepsWorld
<1>4. /\ bridge' = [c EXCEPT !.world = after.world, !.runtime = after.runtime]
      /\ last' = Said(verb, after.ok, t)
  BY DEF Apply
<1> HIDE DEF after, actor
<1>5. SameAgents(b, c) /\ IsSession(c)
  BY <1>1, WithActorKeeps DEF SameAgents, actor
<1>6. \A u \in Targets : /\ Known(c, u) <=> Known(b, u)
                         /\ Known(b, u) => Find(c, u) = IF u = t THEN after.actor ELSE Find(b, u)
  BY <1>1, WithActorIs
<1> DEFINE d == bridge'
<1>7. /\ d.actors = c.actors /\ d.packs = c.packs /\ DOMAIN d = Fields
      /\ d.world = after.world /\ d.runtime = after.runtime
  BY <1>4, <1>5 DEF IsSession, Fields
<1> HIDE DEF c, d
<1>8. \A u \in Targets : /\ Known(d, u) <=> Known(b, u)
                         /\ Known(b, u) => Find(d, u) = IF u = t THEN after.actor ELSE Find(b, u)
  BY <1>6, <1>7 DEF Known, Find
<1>9. last'.ok = after.ok /\ last' = Said(verb, last'.ok, t)
  BY <1>4 DEF Said
<1>10. HasAgents(d) /\ DOMAIN d.packs = DOMAIN b.packs
  <2>1. HasAgents(c) /\ DOMAIN c.packs = DOMAIN b.packs
    BY <1>1, WithActorsIds DEF c, actor
  <2> QED
    BY <1>7, <2>1 DEF HasAgents
<1>11. actor.id \in {0, 101, 201} \cup {PackAgentId(i) : i \in DOMAIN b.packs}
  <2>1. CASE t.kind = "DebugActor"
    <3>1. t.actor \in {"squad", "mutant_pack"} /\ actor = b.actors[t.actor]
      BY <2>1, DebugTargets DEF Find, actor
    <3> QED
      BY <3>1 DEF HasAgents
  <2>2. CASE t.kind # "DebugActor"
    BY <2>2 DEF Known, Find, HasAgents, actor
  <2> QED
    BY <2>1, <2>2
<1>12. ASSUME NEW u \in Targets, Known(b, u), u # t, Find(b, u).id # 0
       PROVE  Find(b, u).id # actor.id
  BY <1>12, IdsDiffer DEF actor
<1>13. CommandsAre(d)
  <2>1. IsRuntime(d.runtime)
    BY <1>2, <1>7
  <2>2. DOMAIN d.runtime.commands
           \subseteq {0, 101, 201} \cup {PackAgentId(i) : i \in DOMAIN d.packs}
    BY <1>2, <1>7, <1>10, <1>11 DEF OnlyOf, CommandsAre
  <2>3. ASSUME NEW u \in Targets, Known(d, u), Find(d, u).id # 0,
               Find(d, u).id \in DOMAIN d.runtime.commands
        PROVE  d.runtime.commands[Find(d, u).id] = CommandsOf(Find(d, u).lastIntent)
    <3>1. Known(b, u)
      BY <1>8, <2>3
    <3>2. CASE u = t
      <4>1. Find(d, u) = after.actor /\ Find(d, u).id = actor.id
        BY <1>1, <1>8, <3>1, <3>2
      <4>2. CASE after.runtime.commands = b.runtime.commands /\ after.actor = actor
        BY <1>7, <2>3, <3>1, <3>2, <4>1, <4>2 DEF CommandsAre, actor
      <4> QED
        BY <1>2, <1>7, <2>3, <4>1, <4>2
    <3>3. CASE u # t
      <4>1. Find(d, u) = Find(b, u) /\ Find(b, u).id # actor.id
        BY <1>8, <1>12, <2>3, <3>1, <3>3
      <4>2. Find(b, u).id \in DOMAIN b.runtime.commands
        BY <1>2, <1>7, <2>3, <4>1 DEF OnlyOf
      <4>3. d.runtime.commands[Find(b, u).id] = b.runtime.commands[Find(b, u).id]
        BY <1>2, <1>7, <4>1, <4>2 DEF OnlyOf
      <4> QED
        BY <2>3, <3>1, <4>1, <4>2, <4>3 DEF CommandsAre
    <3> QED
      BY <3>2, <3>3
  <2> QED
    BY <2>1, <2>2, <2>3 DEF CommandsAre
<1>14. OthersAre(b, d, t)
  <2> SUFFICES ASSUME NEW u \in Targets, Known(b, u), u # t, Find(b, u).id # 0
               PROVE  /\ Find(d, u) = Find(b, u)
                      /\ CommandsInForce(d.runtime, Find(b, u).id)
                             = CommandsInForce(b.runtime, Find(b, u).id)
    BY DEF OthersAre
  <2>1. Find(d, u) = Find(b, u) /\ Find(b, u).id # actor.id
    BY <1>8, <1>12
  <2> QED
    BY <1>2, <1>7, <2>1 DEF OnlyOf, CommandsInForce
<1> QED
  BY <1>3, <1>7, <1>9, <1>10, <1>13, <1>14 DEF d
-----------------------------------------------------------------------------
(* The verbs.                                                              *)

LEMMA SameAgentsSameCommands ==
    ASSUME NEW b, HasAgents(b), CommandsAre(b), NEW c,
           c.actors = b.actors, c.packs = b.packs, c.runtime = b.runtime
    PROVE  HasAgents(c) /\ CommandsAre(c)
<1>1. \A t \in Targets : (Known(c, t) <=> Known(b, t)) /\ Find(c, t) = Find(b, t)
  BY DEF Known, Find
<1>2. HasAgents(c)
  BY DEF HasAgents
<1>3. CommandsAre(c)
  BY <1>1 DEF CommandsAre
<1> QED
  BY <1>2, <1>3

LEMMA FreshAgents ==
    /\ HasAgents(ResetDebugWorld) /\ CommandsAre(ResetDebugWorld)
    /\ HasAgents(Unset) /\ CommandsAre(Unset)
<1>1. DOMAIN <<>> = {}
  BY EmptySeq
<1>2. /\ ResetDebugWorld.runtime = NewRuntime /\ Unset.runtime = NewRuntime
      /\ ResetDebugWorld.packs = <<>> /\ Unset.packs = <<>>
      /\ ResetDebugWorld.actors = DebugActors
      /\ Unset.actors = [squad |-> Actor(0, "Zone"), mutant_pack |-> Actor(0, "Zone")]
  BY DEF ResetDebugWorld, Unset
<1>3. IsRuntime(NewRuntime) /\ DOMAIN NewRuntime.commands = {}
  BY <1>1 DEF NewRuntime, IsRuntime
<1>4. HasAgents(ResetDebugWorld) /\ HasAgents(Unset)
  BY <1>1, <1>2 DEF HasAgents, DebugActors, Actor
<1> QED
  BY <1>2, <1>3, <1>4 DEF CommandsAre

LEMMA EnsuredAgents ==
    ASSUME IInv, AgentsInv
    PROVE  LET b == EnsureDebugWorld(bridge)
           IN  IsSession(b) /\ HasAgents(b) /\ CommandsAre(b) /\ DOMAIN b = Fields
<1>1. IsSession(EnsureDebugWorld(bridge))
  BY EnsureKeepsInv DEF IInv, SessionInv
<1> QED
  BY <1>1, FreshAgents DEF AgentsInv, EnsureDebugWorld, IsSession

\* The id of a pack is new, and no commands are kept for it.
LEMMA RegisterAgents ==
    ASSUME IInv, AgentsInv, NEW members, RegisterPack(members)
    PROVE  AgentsInv'
<1> DEFINE b == EnsureDebugWorld(bridge)
           n == Len(b.packs)
           pack == Actor(PackAgentId(n + 1), "MutantPack")
<1>1. IsSession(b) /\ HasAgents(b) /\ CommandsAre(b) /\ DOMAIN b = Fields
  BY EnsuredAgents
<1> HIDE DEF b
<1>2. CASE bridge' = b
  BY <1>1, <1>2 DEF AgentsInv
<1>3. CASE bridge' = RegisterSessionMutantPack(b)
  <2> DEFINE d == bridge'
  <2>1. d.actors = b.actors /\ d.packs = Append(b.packs, pack) /\ d.runtime = b.runtime
    BY <1>1, <1>3 DEF RegisterSessionMutantPack, Fields
  <2>2. /\ b.packs \in Seq(ActorRecords) /\ n \in Nat /\ DOMAIN b.packs = 1..n
        /\ DOMAIN d.packs = 1..(n + 1) /\ d.packs[n + 1] = pack
        /\ \A i \in 1..n : d.packs[i] = b.packs[i]
    <3>1. b.packs \in Seq(ActorRecords)
      BY <1>1 DEF IsSession
    <3> HIDE DEF pack
    <3> QED
      BY <2>1, <3>1
  <2> HIDE DEF d
  <2>3. pack.id = PackAgentId(n + 1) /\ pack.id # 0
    BY <2>2 DEF Actor, PackAgentId
  <2>4. HasAgents(d)
    <3>1. ASSUME NEW i \in 1..(n + 1) PROVE d.packs[i].id = PackAgentId(i)
      <4>1. CASE i = n + 1
        BY <2>2, <2>3, <4>1
      <4>2. CASE i # n + 1
        <5>1. i \in 1..n
          BY <2>2, <4>2
        <5> QED
          BY <1>1, <2>2, <5>1 DEF HasAgents
      <4> QED
        BY <4>1, <4>2
    <3> QED
      BY <1>1, <2>1, <2>2, <3>1 DEF HasAgents
  <2>5. pack.id \notin DOMAIN b.runtime.commands
    <3>1. \A i \in 1..n : PackAgentId(n + 1) # PackAgentId(i)
      BY <2>2 DEF PackAgentId
    <3>2. PackAgentId(n + 1) \notin {0, 101, 201}
      BY <2>2 DEF PackAgentId
    <3> QED
      BY <1>1, <2>2, <2>3, <3>1, <3>2 DEF CommandsAre
  <2>6. CommandsAre(d)
    <3>1. ASSUME NEW t \in Targets, Known(d, t), Find(d, t).id # 0,
                 Find(d, t).id \in DOMAIN b.runtime.commands
          PROVE  Known(b, t) /\ Find(b, t) = Find(d, t)
      <4>1. CASE t.kind = "DebugActor"
        BY <2>1, <4>1 DEF Known, Find
      <4>2. CASE t.kind # "DebugActor"
        <5>1. t.pack \in 1..(n + 1) /\ Find(d, t) = d.packs[t.pack]
          BY <2>2, <3>1, <4>2 DEF Known, Find
        <5>2. t.pack # n + 1
          BY <2>2, <2>5, <3>1, <5>1
        <5>3. t.pack \in 1..n
          BY <2>2, <5>1, <5>2
        <5> QED
          BY <2>2, <4>2, <5>1, <5>3 DEF Known, Find
      <4> QED
        BY <4>1, <4>2
    <3>2. DOMAIN b.packs \subseteq DOMAIN d.packs
      BY <2>2
    <3> QED
      BY <1>1, <2>1, <3>1, <3>2 DEF CommandsAre
  <2> QED
    BY <2>4, <2>6 DEF AgentsInv, d
<1> QED
  BY <1>2, <1>3 DEF RegisterPack, b

\* A wake, or the poll that applies what a live one returned.
LEMMA WakeIs ==
    ASSUME IInv, AgentsInv, NEW t \in Targets, Wake(t)
    PROVE  /\ AgentsInv'
           /\ bridge.initialized =>
                 \/ bridge' = bridge
                 \/ /\ OthersAre(bridge, bridge', t) /\ last'.target = t
                    /\ ~last'.ok => bridge'.world = bridge.world
<1> DEFINE b == EnsureDebugWorld(bridge)
<1>1. IsSession(b) /\ HasAgents(b) /\ CommandsAre(b)
  BY EnsuredAgents
<1>2. bridge.initialized => b = bridge
  BY DEF EnsureDebugWorld
<1>3. CASE Known(b, t)
  <2>1. Apply("wake", b, t, DeterministicActorIntentProvider(Find(b, t)))
    BY <1>3 DEF Wake
  <2> HIDE DEF b
  <2>2. /\ HasAgents(bridge') /\ CommandsAre(bridge') /\ OthersAre(b, bridge', t)
        /\ last' = Said("wake", last'.ok, t)
        /\ ~last'.ok => bridge'.world = b.world
    BY <1>1, <1>3, <2>1, DeterministicResult, ApplyIs
  <2>3. last'.target = t
    BY <2>2 DEF Said
  <2> QED
    BY <1>2, <2>2, <2>3 DEF AgentsInv
<1>4. CASE ~Known(b, t)
  BY <1>1, <1>2, <1>4 DEF Wake, AgentsInv
<1> QED
  BY <1>3, <1>4

LEMMA PollIs ==
    ASSUME IInv, AgentsInv, NEW id \in Queue!Ids, Poll(id)
    PROVE  /\ AgentsInv' /\ last'.verb # "wake"
           /\ last'.verb = "poll" =>
                 \E t \in Targets :
                     /\ OthersAre(bridge, bridge', t) /\ last'.target = t
                     /\ ~last'.ok => bridge'.world = bridge.world
<1> DEFINE t == bridge.pending[id]
           b == Unbound(bridge, id)
<1>1. id \in DOMAIN bridge.pending /\ IsSession(bridge) /\ t \in Targets /\ Known(bridge, t)
  BY DEF Poll, IInv, SessionInv
<1>2. /\ DOMAIN b = Fields /\ b.actors = bridge.actors /\ b.packs = bridge.packs
      /\ b.runtime = bridge.runtime /\ b.world = bridge.world
  BY <1>1 DEF Unbound, IsSession, Fields
<1>3. IsSession(b) /\ HasAgents(b) /\ CommandsAre(b)
  <2>1. IsSession(b)
    BY <1>1, <1>2 DEF IsSession
  <2> QED
    BY <1>2, <2>1, SameAgentsSameCommands DEF AgentsInv
<1>4. \A u \in Targets : (Known(b, u) <=> Known(bridge, u)) /\ Find(b, u) = Find(bridge, u)
  BY <1>2 DEF Known, Find
<1>5. CASE \E result \in ResultRecords : Apply("poll", b, t, result)
  <2>1. PICK result \in ResultRecords : Apply("poll", b, t, result)
    BY <1>5
  <2> HIDE DEF b, t
  <2>2. /\ HasAgents(bridge') /\ CommandsAre(bridge') /\ OthersAre(b, bridge', t)
        /\ last' = Said("poll", last'.ok, t)
        /\ ~last'.ok => bridge'.world = b.world
    BY <1>1, <1>3, <1>4, <2>1, ApplyIs
  <2>3. last'.target = t /\ last'.verb = "poll"
    BY <2>2 DEF Said
  <2>4. OthersAre(bridge, bridge', t)
    BY <1>2, <1>4, <2>2 DEF OthersAre
  <2> QED
    BY <1>1, <1>2, <2>2, <2>3, <2>4 DEF AgentsInv
<1>6. CASE \/ bridge' = bridge /\ last' = Said("poll.pending", TRUE, t)
           \/ bridge' = b /\ last' = Said("poll.refused", FALSE, t)
  <2>1. last'.verb \notin {"wake", "poll"}
    BY <1>6 DEF Said
  <2> QED
    BY <1>3, <1>6, <2>1 DEF AgentsInv
<1>7. \/ \E result \in ResultRecords : Apply("poll", b, t, result)
      \/ bridge' = bridge /\ last' = Said("poll.pending", TRUE, t)
      \/ bridge' = b /\ last' = Said("poll.refused", FALSE, t)
  <2>1. CASE answer'.answer = "pending"
    BY <2>1 DEF Poll
  <2>2. CASE answer'.answer = "result"
    BY <1>1, <2>2, ProviderResultsAreResults DEF Poll
  <2>3. CASE answer'.answer \notin {"pending", "result"}
    BY <2>3 DEF Poll
  <2> QED
    BY <2>1, <2>2, <2>3
<1> QED
  BY <1>5, <1>6, <1>7

LEMMA OtherVerbsKeepAgents ==
    ASSUME IInv, AgentsInv,
           \/ AiReset \/ Observe \/ AiSnapshot \/ WorkerFinishes \/ UNCHANGED vars
           \/ \E region, delta : AiInject(region, delta)
           \/ \E reply : WakeZoneAgent(reply)
           \/ \E snapshot : AiRestore(snapshot)
           \/ \E t \in Targets : WakeLive(t) \/ WakeLiveUnknown(t)
           \/ \E id \in Queue!Ids : PollUnknown(id)
    PROVE  AgentsInv'
<1> DEFINE b == EnsureDebugWorld(bridge)
           Keeps(c) == /\ bridge'.actors = c.actors /\ bridge'.packs = c.packs
                       /\ bridge'.runtime = c.runtime
<1>1. HasAgents(b) /\ CommandsAre(b) /\ DOMAIN b = Fields /\ DOMAIN bridge = Fields
  BY EnsuredAgents DEF IInv, SessionInv, IsSession
<1> HIDE DEF b
<1>2. CASE AiReset
  BY <1>2, FreshAgents DEF AiReset, Reset, AgentsInv
<1>3. CASE Keeps(b) \/ Keeps(bridge)
  BY <1>1, <1>3, SameAgentsSameCommands DEF AgentsInv
<1>4. CASE Observe \/ AiSnapshot \/ (\E t \in Targets : WakeLiveUnknown(t))
  BY <1>3, <1>4 DEF Observe, AiSnapshot, WakeLiveUnknown, b
<1>5. CASE WorkerFinishes \/ UNCHANGED vars \/ (\E id \in Queue!Ids : PollUnknown(id))
  BY <1>3, <1>5 DEF WorkerFinishes, vars, PollUnknown
<1>6. CASE \E region, delta : AiInject(region, delta)
  <2>1. bridge' = b \/ \E w, n : bridge' = [b EXCEPT !.world = w, !.nextSeq = n]
    BY <1>6 DEF AiInject, b
  <2> QED
    BY <1>1, <1>3, <2>1 DEF Fields
<1>7. CASE \E reply : WakeZoneAgent(reply)
  <2>1. \E w, n : bridge' = [b EXCEPT !.world = w, !.nextSeq = n]
    BY <1>7 DEF WakeZoneAgent, b
  <2> QED
    BY <1>1, <1>3, <2>1 DEF Fields
<1>8. CASE \E snapshot : AiRestore(snapshot)
  <2>1. \/ bridge' = bridge
        \/ \E w, n : bridge' = [bridge EXCEPT !.world = w, !.initialized = TRUE, !.nextSeq = n]
    BY <1>8 DEF AiRestore
  <2> QED
    BY <1>1, <1>3, <2>1 DEF Fields
<1>9. CASE \E t \in Targets : WakeLive(t)
  <2>1. \E p : bridge' = [b EXCEPT !.pending = p]
    BY <1>9 DEF WakeLive, Bound, b
  <2> QED
    BY <1>1, <1>3, <2>1 DEF Fields
<1> QED
  BY <1>2, <1>4, <1>5, <1>6, <1>7, <1>8, <1>9

LEMMA NextAgentsInv == IInv /\ AgentsInv /\ [Next]_vars => AgentsInv'
  BY OtherVerbsKeepAgents, RegisterAgents, WakeIs, PollIs DEF Next

LEMMA InitAgentsInv == Init => AgentsInv
  BY FreshAgents DEF Init, AgentsInv

\* Which agents have commands in force, and which commands they are, for any
\* number of wakes and packs, any plans, snapshots and worlds.
THEOREM AgentsInvariant == Spec => []AgentsInv
  BY InitAgentsInv, NextAgentsInv, SessionInvariant, PTL DEF Spec

\* CommandsFollowIntent: the commands that ActorRuntime keeps for an actor, which
\* its next coast repeats, are those of its last accepted intent.
THEOREM CommandsAreIntents == Spec => []CommandsFollowIntent
<1>1. AgentsInv => CommandsFollowIntent
  BY DEF AgentsInv, CommandsAre, CommandsFollowIntent, Made
<1> QED
  BY <1>1, AgentsInvariant, PTL

\* What a verb that applies a result has to say of the session.
LEMMA AppliesToOne ==
    ASSUME IInv, AgentsInv, [Next]_vars, last'.verb \in {"wake", "poll"}, bridge.initialized
    PROVE  \/ bridge' = bridge
           \/ \E t \in Targets :
                 /\ OthersAre(bridge, bridge', t) /\ last'.target = t
                 /\ ~last'.ok => bridge'.world = bridge.world
<1>1. CASE AiReset \/ Observe \/ AiSnapshot
  BY <1>1 DEF AiReset, Observe, AiSnapshot, Said
<1>2. CASE \/ \E region, delta : AiInject(region, delta)
           \/ \E reply : WakeZoneAgent(reply)
           \/ \E snapshot : AiRestore(snapshot)
           \/ \E members : RegisterPack(members)
           \/ \E t \in Targets : WakeLive(t) \/ WakeLiveUnknown(t)
  <2>1. \E verb, ok, t : last' = Said(verb, ok, t) /\ verb \notin {"wake", "poll"}
    <3>1. CASE \E region, delta : AiInject(region, delta)
      <4>1. \E ok : last' = Said("ai.inject", ok, NoTarget)
        BY <3>1 DEF AiInject
      <4> QED
        BY <4>1
    <3>2. CASE \E reply : WakeZoneAgent(reply)
      BY <3>2 DEF WakeZoneAgent
    <3>3. CASE \E snapshot : AiRestore(snapshot)
      BY <3>3 DEF AiRestore
    <3>4. CASE \E members : RegisterPack(members)
      BY <3>4 DEF RegisterPack
    <3>5. CASE \E t \in Targets : WakeLive(t) \/ WakeLiveUnknown(t)
      <4>1. \E ok \in {FALSE, TRUE}, t \in Targets : last' = Said("wake.live", ok, t)
        BY <3>5 DEF WakeLive, WakeLiveUnknown
      <4> QED
        BY <4>1
    <3> QED
      BY <1>2, <3>1, <3>2, <3>3, <3>4, <3>5
  <2> QED
    BY <2>1 DEF Said
<1>3. CASE WorkerFinishes \/ UNCHANGED vars \/ (\E id \in Queue!Ids : PollUnknown(id))
  <2>1. bridge' = bridge
    BY <1>3 DEF WorkerFinishes, vars, PollUnknown
  <2> QED
    BY <2>1
<1>4. CASE \E t \in Targets : Wake(t)
  BY <1>4, WakeIs
<1>5. CASE \E id \in Queue!Ids : Poll(id)
  <2>1. last'.verb = "poll"
    BY <1>5, PollIs
  <2> QED
    BY <1>5, <2>1, PollIs
<1> QED
  BY <1>1, <1>2, <1>3, <1>4, <1>5 DEF Next

\* OthersUntouched: ApplyProviderResult changes the intent and the commands of the
\* actor it is called for, and of no other.
THEOREM WakesSpeakForOne == Spec => OthersUntouched
<1>1. ASSUME IInv, AgentsInv, [Next]_vars, last'.verb \in {"wake", "poll"}, bridge.initialized,
             NEW u \in Made \ {last'.target}, bridge' # bridge
      PROVE  /\ Find(bridge', u) = Find(bridge, u)
             /\ CommandsInForce(bridge'.runtime, Find(bridge, u).id)
                    = CommandsInForce(bridge.runtime, Find(bridge, u).id)
  <2>1. PICK t \in Targets : OthersAre(bridge, bridge', t) /\ last'.target = t
    BY <1>1, AppliesToOne
  <2> QED
    BY <2>1 DEF OthersAre, Made
<1> DEFINE Untouched ==
             last'.verb \in {"wake", "poll"} /\ bridge.initialized =>
                \A target \in Made \ {last'.target} :
                    LET id == Find(bridge, target).id
                    IN  bridge' # bridge =>
                            /\ Find(bridge', target) = Find(bridge, target)
                            /\ CommandsInForce(bridge'.runtime, id)
                                   = CommandsInForce(bridge.runtime, id)
<1>2. IInv /\ AgentsInv /\ [Next]_vars => Untouched
  BY <1>1
<1> QED
  BY <1>2, SessionInvariant, AgentsInvariant, PTL DEF Spec, OthersUntouched

\* RefusedPlansChangeNothing: a plan that ExecuteActorIntent gives up half-way
\* leaves nothing in the world or in its log.
THEOREM RefusalsLeaveNothing == Spec => RefusedPlansChangeNothing
<1>1. IInv /\ AgentsInv /\ [Next]_vars =>
          (last'.verb \in {"wake", "poll"} /\ ~last'.ok /\ bridge.initialized =>
               bridge'.world = bridge.world)
  BY AppliesToOne
<1> QED
  BY <1>1, SessionInvariant, AgentsInvariant, PTL DEF Spec, RefusedPlansChangeNothing

-----------------------------------------------------------------------------
(* Where the world of a session comes from.                                *)

\* A world that the calls in its log made of the debug baseline, and the
\* snapshots of such worlds.
Genuine(w) == IsWorld(w) /\ Reproduces(MakeDebugBaseline, w)
IsGenuineSnapshot(snapshot) == \E w : Genuine(w) /\ snapshot = SaveSnapshot(w)

HasGenuineWorld(b) == b.nextSeq \in Int /\ (b.initialized => Genuine(b.world))
WorldInv == HasGenuineWorld(bridge) /\ \A snapshot \in saved : IsGenuineSnapshot(snapshot)

LEMMA DebugIsGenuine == Genuine(DebugWorld)
<1> DEFINE one == CreateRegion(EmptyWorld, DebugRegion, 100)
           empty == CreateSpecies(one, BlindDog)
           h == Handle(1, FirstGeneration)
<1>1. IsWorld(one) /\ one.log = <<>> /\ Len(one.regions) = 1 /\ one.species = <<>>
  <2>1. ASSUME NEW name \in Names, NEW cap \in Int, NEW w, IsWorld(w), w.log = <<>>,
               Len(w.regions) + 1 < IndexSpan
        PROVE  LET v == CreateRegion(w, name, cap)
               IN  /\ IsWorld(v) /\ v.log = <<>>
                   /\ Len(v.regions) = Len(w.regions) + 1 /\ v.species = w.species
    BY <2>1, CreateRegionFits
  <2>2. IsWorld(EmptyWorld) /\ EmptyWorld.log = <<>>
    BY EmptyIsWorld
  <2>3. DebugRegion \in Names /\ 100 \in Int
    <3>1. "debug_region" \in Vocabulary
      BY DEF Vocabulary
    <3> QED
      BY <3>1 DEF DebugRegion, Names
  <2>4. EmptyWorld.regions = <<>> /\ EmptyWorld.species = <<>>
    BY DEF EmptyWorld
  <2>5. Len(EmptyWorld.regions) = 0
    BY <2>4, EmptySeq
  <2>6. Len(EmptyWorld.regions) + 1 < IndexSpan
    BY <2>5 DEF IndexSpan
  <2>7. /\ IsWorld(one) /\ one.log = <<>>
        /\ Len(one.regions) = Len(EmptyWorld.regions) + 1 /\ one.species = EmptyWorld.species
    BY <2>1, <2>2, <2>3, <2>6
  <2> QED
    BY <2>4, <2>5, <2>7
<1> HIDE DEF one
<1>2. IsWorld(empty) /\ empty.log = <<>>
  <2>1. ASSUME NEW name \in Names, NEW w, IsWorld(w), w.log = <<>>,
               Len(w.species) + 1 < IndexSpan
        PROVE  LET v == CreateSpecies(w, name) IN IsWorld(v) /\ v.log = <<>>
    BY <2>1, CreateSpeciesFits
  <2>2. BlindDog \in Names
    <3>1. "blind_dog" \in Vocabulary
      BY DEF Vocabulary
    <3> QED
      BY <3>1 DEF BlindDog, Names
  <2>3. Len(one.species) + 1 < IndexSpan
    BY <1>1, EmptySeq DEF IndexSpan
  <2> QED
    BY <1>1, <2>1, <2>2, <2>3
<1> HIDE DEF empty
<1>3. h \in HandleRecords
  BY DEF Handle, FirstGeneration, HandleRecords, IndexSpan
<1> HIDE DEF h
<1>4. LET v == SetPopulation(empty, h, h, 50).world IN IsWorld(v) /\ v.log = <<>>
  BY <1>2, <1>3, SetPopulationFits
<1>5. DebugWorld = SetPopulation(empty, h, h, 50).world /\ MakeDebugBaseline = DebugWorld
  BY DEF DebugWorld, MakeDebugBaseline, Populated, empty, one, h
<1> QED
  BY <1>4, <1>5, BaselineReproduces DEF Genuine

\* A name is looked up as a handle, be it Invalid.
LEMMA FoundByName ==
    ASSUME NEW S, \A e \in S : e.gen \in Nat, NEW entries \in Seq(S), NEW name,
           Len(entries) < IndexSpan
    PROVE  FindByName(entries, name) \in HandleRecords
<1> DEFINE I == {k \in 1..Len(entries) : entries[k].name = name}
           i == SelectInSeq(entries, LAMBDA e : e.name = name)
<1>1. i = IF I # {} THEN Min(I) ELSE 0
  BY DEF SelectInSeq
<1>2. I \subseteq 1..Len(entries) /\ I \subseteq Nat /\ Len(entries) \in Nat
  OBVIOUS
<1>3. I # {} => Min(I) \in I
  <2> HIDE DEF I
  <2> QED
    BY <1>2, LeastNatural DEF Min
<1>4. FindByName(entries, name) = IF i = 0 THEN Invalid ELSE Handle(i, entries[i].gen)
  BY DEF FindByName
<1> HIDE DEF I, i
<1>5. i \in 0..Len(entries)
  <2>1. CASE I = {}
    BY <1>1, <1>2, <2>1
  <2>2. CASE I # {}
    <3>1. i \in 1..Len(entries)
      BY <1>1, <1>2, <1>3, <2>2
    <3> QED
      BY <1>2, <3>1
  <2> QED
    BY <2>1, <2>2
<1>6. Invalid \in HandleRecords
  BY DEF Invalid, Handle, HandleRecords, IndexSpan
<1>7. i # 0 => Handle(i, entries[i].gen) \in HandleRecords
  <2>1. ASSUME i # 0 PROVE i \in 0..(IndexSpan - 1) /\ entries[i].gen \in Nat
    <3>1. i \in 1..Len(entries)
      BY <1>2, <1>5, <2>1
    <3>2. entries[i].gen \in Nat
      BY <3>1
    <3>3. i \in 0..(IndexSpan - 1)
      BY <1>2, <3>1 DEF IndexSpan
    <3> QED
      BY <3>2, <3>3
  <2> QED
    BY <2>1 DEF Handle, HandleRecords
<1> QED
  BY <1>4, <1>6, <1>7

LEMMA FoundInWorld ==
    ASSUME NEW w, IsWorld(w), NEW name
    PROVE  /\ FindRegionByName(w, name) \in HandleRecords
           /\ FindSpeciesByName(w, name) \in HandleRecords
<1>1. /\ w.regions \in Seq(RegionRecords) /\ Len(w.regions) < IndexSpan
      /\ w.species \in Seq(SpeciesRecords) /\ Len(w.species) < IndexSpan
  BY DEF IsWorld, WorldRecords, HandlesFit
<1>2. (\A e \in RegionRecords : e.gen \in Nat) /\ (\A e \in SpeciesRecords : e.gen \in Nat)
  BY DEF RegionRecords, SpeciesRecords
<1> QED
  BY <1>1, <1>2, FoundByName DEF FindRegionByName, FindSpeciesByName

\* A tool call, with handles and with names.
LEMMA AdjustIsGenuine ==
    ASSUME NEW w, Genuine(w), NEW seq \in Int, NEW r \in HandleRecords, NEW s \in HandleRecords,
           NEW delta \in Int, NEW day \in Int
    PROVE  Genuine(ApplyAdjustPopulation(w, seq, r, s, delta, day).world)
<1>1. IsWorld(w) /\ Reproduces(MakeDebugBaseline, w)
  BY DEF Genuine
<1>2. IsWorld(ApplyAdjustPopulation(w, seq, r, s, delta, day).world)
  BY <1>1, AdjustFits
<1>3. Reproduces(MakeDebugBaseline, ApplyAdjustPopulation(w, seq, r, s, delta, day).world)
  BY <1>1, AdjustReproduces
<1> QED
  BY <1>2, <1>3 DEF Genuine

IsResult(x) == DOMAIN x = {"world", "ok", "applied", "reason"}

LEMMA AdjustNamedIsGenuine ==
    ASSUME NEW w, Genuine(w), NEW action, action.amount \in Int
    PROVE  IsResult(AdjustNamed(w, action)) /\ Genuine(AdjustNamed(w, action).world)
<1> DEFINE r == FindRegionByName(w, action.region)
           s == FindSpeciesByName(w, action.species)
           call == ApplyAdjustPopulation(w, Len(w.log) + 1, r, s, action.amount, 0)
           refused == Result(w, FALSE, 0, "unknown_name")
<1>1. IsWorld(w) /\ Len(w.log) + 1 \in Int /\ action.amount \in Int /\ 0 \in Int
  BY DEF Genuine, IsWorld, WorldRecords
<1>2. r \in HandleRecords /\ s \in HandleRecords
  BY <1>1, FoundInWorld
<1>3. IsResult(call)
  <2>1. \E a, b, c, d : call = Result(a, b, c, d)
    BY Zenon DEF ApplyAdjustPopulation
  <2> HIDE DEF call
  <2> QED
    BY <2>1 DEF IsResult, Result
<1>4. AdjustNamed(w, action) = IF r = Invalid \/ s = Invalid THEN refused ELSE call
  BY Zenon DEF AdjustNamed
<1> HIDE DEF r, s
<1>5. Genuine(call.world)
  BY <1>1, <1>2, AdjustIsGenuine
<1>6. IsResult(refused) /\ refused.world = w
  BY DEF IsResult, Result
<1> HIDE DEF call, refused
<1> QED
  BY <1>3, <1>4, <1>5, <1>6

-----------------------------------------------------------------------------
(* The plans of actors and the intents of the zone, call by call.          *)

IsStaging(run, w, actor, actions, n) ==
    run = [i \in 0..n |-> IF i = 0 THEN Start(w)
                          ELSE StageAction(actor, run[i - 1], actions[i])]

LEMMA StagingExists ==
    ASSUME NEW w, NEW actor, NEW actions
    PROVE  \A n \in Nat : \E run : IsStaging(run, w, actor, actions, n)
<1> DEFINE S == {n \in Nat : \E run : IsStaging(run, w, actor, actions, n)}
<1>1. 0 \in S
  <2>1. IsStaging([i \in 0..0 |-> Start(w)], w, actor, actions, 0)
    BY DEF IsStaging
  <2> QED
    BY <2>1
<1>2. ASSUME NEW n \in Nat, n \in S PROVE n + 1 \in S
  <2>1. PICK run : IsStaging(run, w, actor, actions, n)
    BY <1>2
  <2> DEFINE more == [i \in 0..(n + 1) |->
                        IF i = n + 1 THEN StageAction(actor, run[n], actions[n + 1]) ELSE run[i]]
  <2>2. \A i \in 0..n : more[i] = run[i]
    OBVIOUS
  <2>3. ASSUME NEW i \in 0..(n + 1)
        PROVE  more[i] = IF i = 0 THEN Start(w)
                         ELSE StageAction(actor, more[i - 1], actions[i])
    <3>1. CASE i = n + 1
      BY <2>2, <3>1
    <3>2. CASE i # n + 1
      <4>1. i \in 0..n /\ (i # 0 => i - 1 \in 0..n)
        BY <3>2
      <4>2. run[i] = IF i = 0 THEN Start(w)
                     ELSE StageAction(actor, run[i - 1], actions[i])
        BY <2>1, <4>1 DEF IsStaging
      <4> QED
        BY <2>2, <4>1, <4>2
    <3> QED
      BY <3>1, <3>2
  <2>4. IsStaging(more, w, actor, actions, n + 1)
    <3>1. more = [i \in 0..(n + 1) |-> more[i]]
      OBVIOUS
    <3> QED
      BY <2>3, <3>1 DEF IsStaging
  <2> QED
    BY <2>4
<1> HIDE DEF S
<1>3. Nat \subseteq S
  BY <1>1, <1>2, AllNaturals
<1> QED
  BY <1>3 DEF S

\* However far a plan gets, the staged world is one that calls made.
LEMMA StagedIsGenuine ==
    ASSUME NEW w, Genuine(w), NEW actor, NEW plan, HaveAmounts(plan.actions)
    PROVE  Genuine(Staged(w, actor, plan).world)
<1> DEFINE n == Len(plan.actions)
           run == CHOOSE run : IsStaging(run, w, actor, plan.actions, n)
<1>1. n \in Nat /\ \A i \in 1..n : plan.actions[i].amount \in Int
  BY DEF HaveAmounts
<1>2. IsStaging(run, w, actor, plan.actions, n)
  BY <1>1, StagingExists
<1>3. Staged(w, actor, plan) = run[n]
  BY DEF Staged, IsStaging, Start
<1> HIDE DEF run, n
<1>4. /\ run[0] = Start(w)
      /\ \A i \in 1..n : run[i] = StageAction(actor, run[i - 1], plan.actions[i])
  BY <1>1, <1>2 DEF IsStaging
<1> DEFINE S == {i \in Nat : i <= n => IsResult(run[i]) /\ Genuine(run[i].world)}
<1>5. 0 \in S
  <2>1. run[0].world = w /\ IsResult(run[0])
    BY <1>4 DEF Start, Result, IsResult
  <2> QED
    BY <2>1
<1>6. ASSUME NEW i \in Nat, i \in S PROVE i + 1 \in S
  <2> SUFFICES ASSUME i + 1 <= n
               PROVE  IsResult(run[i + 1]) /\ Genuine(run[i + 1].world)
    OBVIOUS
  <2>1. i + 1 \in 1..n /\ IsResult(run[i]) /\ Genuine(run[i].world)
    BY <1>1, <1>6
  <2> DEFINE staged == run[i]
             action == plan.actions[i + 1]
  <2>2. run[i + 1] = StageAction(actor, staged, action) /\ action.amount \in Int
    BY <1>1, <1>4, <2>1
  <2> HIDE DEF staged, action
  <2>3. \/ run[i + 1] = staged
        \/ run[i + 1] = [staged EXCEPT !.ok = FALSE]
        \/ run[i + 1] = AdjustNamed(staged.world, action)
    BY <2>2 DEF StageAction
  <2>4. LET x == [staged EXCEPT !.ok = FALSE] IN IsResult(x) /\ x.world = staged.world
    BY <2>1 DEF IsResult, staged
  <2>5. IsResult(AdjustNamed(staged.world, action)) /\ Genuine(AdjustNamed(staged.world, action).world)
    BY <2>1, <2>2, AdjustNamedIsGenuine DEF staged
  <2> QED
    BY <2>1, <2>3, <2>4, <2>5 DEF staged
<1> HIDE DEF S
<1>7. n \in S
  BY <1>1, <1>5, <1>6, AllNaturals
<1> QED
  BY <1>1, <1>3, <1>7 DEF S

IsZoneRun(run, start, intents, n) ==
    run = [i \in 0..n |-> IF i = 0 THEN start ELSE ApplyIntent(run[i - 1], intents[i])]

LEMMA ZoneRunExists ==
    ASSUME NEW start, NEW intents
    PROVE  \A n \in Nat : \E run : IsZoneRun(run, start, intents, n)
<1> DEFINE S == {n \in Nat : \E run : IsZoneRun(run, start, intents, n)}
<1>1. 0 \in S
  <2>1. IsZoneRun([i \in 0..0 |-> start], start, intents, 0)
    BY DEF IsZoneRun
  <2> QED
    BY <2>1
<1>2. ASSUME NEW n \in Nat, n \in S PROVE n + 1 \in S
  <2>1. PICK run : IsZoneRun(run, start, intents, n)
    BY <1>2
  <2> DEFINE more == [i \in 0..(n + 1) |->
                        IF i = n + 1 THEN ApplyIntent(run[n], intents[n + 1]) ELSE run[i]]
  <2>2. \A i \in 0..n : more[i] = run[i]
    OBVIOUS
  <2>3. ASSUME NEW i \in 0..(n + 1)
        PROVE  more[i] = IF i = 0 THEN start ELSE ApplyIntent(more[i - 1], intents[i])
    <3>1. CASE i = n + 1
      BY <2>2, <3>1
    <3>2. CASE i # n + 1
      <4>1. i \in 0..n /\ (i # 0 => i - 1 \in 0..n)
        BY <3>2
      <4>2. run[i] = IF i = 0 THEN start ELSE ApplyIntent(run[i - 1], intents[i])
        BY <2>1, <4>1 DEF IsZoneRun
      <4> QED
        BY <2>2, <4>1, <4>2
    <3> QED
      BY <3>1, <3>2
  <2>4. IsZoneRun(more, start, intents, n + 1)
    <3>1. more = [i \in 0..(n + 1) |-> more[i]]
      OBVIOUS
    <3> QED
      BY <2>3, <3>1 DEF IsZoneRun
  <2> QED
    BY <2>4
<1> HIDE DEF S
<1>3. Nat \subseteq S
  BY <1>1, <1>2, AllNaturals
<1> QED
  BY <1>3 DEF S

\* The zone agent leaves what it did before a bad intent, all of it in the log.
LEMMA ZoneWakeIsGenuine ==
    ASSUME NEW w, Genuine(w), NEW reply, HaveAmounts(reply.intents)
    PROVE  Genuine(NullAgentWake(w, reply).world) /\ Len(NullAgentWake(w, reply).world.log) \in Nat
<1> DEFINE n == Len(reply.intents)
           start == Result(w, reply.ok /\ (reply.coast \/ reply.intents # <<>>), 0, NoReason)
           run == CHOOSE run : IsZoneRun(run, start, reply.intents, n)
<1>1. n \in Nat /\ \A i \in 1..n : reply.intents[i].amount \in Int
  BY DEF HaveAmounts
<1>2. IsZoneRun(run, start, reply.intents, n)
  BY <1>1, ZoneRunExists
<1>3. NullAgentWake(w, reply) = run[n]
  BY DEF NullAgentWake, IsZoneRun
<1>4. start.world = w
  BY DEF Result
<1> HIDE DEF run, n, start
<1>5. /\ run[0] = start
      /\ \A i \in 1..n : run[i] = ApplyIntent(run[i - 1], reply.intents[i])
  BY <1>1, <1>2 DEF IsZoneRun
<1> DEFINE S == {i \in Nat : i <= n => Genuine(run[i].world)}
<1>6. 0 \in S
  BY <1>4, <1>5
<1>7. ASSUME NEW i \in Nat, i \in S PROVE i + 1 \in S
  <2> SUFFICES ASSUME i + 1 <= n PROVE Genuine(run[i + 1].world)
    OBVIOUS
  <2>1. i + 1 \in 1..n /\ Genuine(run[i].world)
    BY <1>1, <1>7
  <2>2. run[i + 1] = ApplyIntent(run[i], reply.intents[i + 1]) /\ reply.intents[i + 1].amount \in Int
    BY <1>1, <1>5, <2>1
  <2>3. run[i + 1] = run[i] \/ run[i + 1] = AdjustNamed(run[i].world, reply.intents[i + 1])
    BY <2>2 DEF ApplyIntent
  <2> QED
    BY <2>1, <2>2, <2>3, AdjustNamedIsGenuine
<1> HIDE DEF S
<1>8. n \in S
  BY <1>1, <1>6, <1>7, AllNaturals
<1>9. Genuine(NullAgentWake(w, reply).world)
  BY <1>1, <1>3, <1>8 DEF S
<1> QED
  BY <1>9 DEF Genuine, IsWorld, WorldRecords

\* The plans there are ask for numbers.
LEMMA PlansAskForNumbers ==
    ASSUME NEW plan \in Plans
    PROVE  HaveAmounts(plan.actions)
<1>1. ASSUME NEW verb PROVE Act(verb).amount \in Int
  BY DEF Act
<1>2. \A a, b : a.amount \in Int /\ b.amount \in Int => HaveAmounts(<<a>>) /\ HaveAmounts(<<a, b>>)
  BY DEF HaveAmounts
<1>3. HaveAmounts(<<Act("stalk")>>) /\ HaveAmounts(<<Act("move_to"), Act("fire_pattern")>>)
  BY <1>1, <1>2
<1>4. HaveAmounts(<<>>)
  BY DEF HaveAmounts
<1>5. CASE plan \in LivePlans
  BY <1>5, AmountsAssumption
<1>6. CASE plan.actions \in {<<>>, <<Act("stalk")>>, <<Act("move_to"), Act("fire_pattern")>>}
  BY <1>3, <1>4, <1>6
<1> QED
  BY <1>5, <1>6 DEF Plans, CoastPlan, NoPlan, Plan

\* The result of a wake leaves a world that calls made.
LEMMA ResultIsGenuine ==
    ASSUME NEW w, Genuine(w), NEW runtime, NEW actor, NEW result \in ResultRecords
    PROVE  Genuine(ApplyProviderResult(w, runtime, actor, result).world)
<1> DEFINE executed == ExecuteActorIntent(w, actor, result.plan)
<1>1. Genuine(executed.world)
  <2>1. HaveAmounts(result.plan.actions)
    BY PlansAskForNumbers DEF ResultRecords
  <2>2. Genuine(Staged(w, actor, result.plan).world)
    BY <2>1, StagedIsGenuine
  <2> QED
    BY <2>2 DEF ExecuteActorIntent, Committed, Result
<1> HIDE DEF executed
<1>2. ASSUME NEW e
      PROVE  AfterExecution(e, runtime, actor, result.plan).world = e.world
  BY DEF AfterExecution, Outcome
<1>3. ApplyProviderResult(w, runtime, actor, result).world \in {w, executed.world}
  BY <1>2 DEF ApplyProviderResult, Outcome, executed
<1> QED
  BY <1>1, <1>3

-----------------------------------------------------------------------------
(* The verbs, and the world of the session.                                *)

LEMMA EnsuredWorld ==
    ASSUME HasGenuineWorld(bridge)
    PROVE  HasGenuineWorld(EnsureDebugWorld(bridge)) /\ EnsureDebugWorld(bridge).initialized
<1>1. HasGenuineWorld(ResetDebugWorld) /\ ResetDebugWorld.initialized
  BY DebugIsGenuine DEF HasGenuineWorld, ResetDebugWorld, Unset
<1> QED
  BY <1>1 DEF EnsureDebugWorld

\* A verb may give the session the world that a result left.
LEMMA AppliedWorld ==
    ASSUME NEW verb, NEW b, IsSession(b), HasGenuineWorld(b), NEW t \in Targets, Known(b, t),
           NEW result \in ResultRecords, Apply(verb, b, t, result)
    PROVE  HasGenuineWorld(bridge')
<1> DEFINE after == ApplyProviderResult(b.world, b.runtime, Find(b, t), result)
           c == WithActor(b, t, after.actor)
<1>1. bridge' = [c EXCEPT !.world = after.world, !.runtime = after.runtime]
  BY DEF Apply
<1>2. c.initialized = b.initialized /\ c.nextSeq = b.nextSeq /\ DOMAIN c = Fields
  BY DEF WithActor, IsSession, Fields
<1>3. b.initialized => Genuine(after.world)
  BY ResultIsGenuine DEF HasGenuineWorld
<1> HIDE DEF c, after
<1>4. /\ bridge'.world = after.world /\ bridge'.initialized = b.initialized
      /\ bridge'.nextSeq = b.nextSeq
  BY <1>1, <1>2 DEF Fields
<1> QED
  BY <1>3, <1>4 DEF HasGenuineWorld

LEMMA InjectWorld ==
    ASSUME IInv, HasGenuineWorld(bridge), NEW region, NEW delta \in InjectDeltas,
           AiInject(region, delta)
    PROVE  HasGenuineWorld(bridge')
<1> DEFINE b == EnsureDebugWorld(bridge)
           r == FindRegionByName(b.world, region)
           s == FindSpeciesByName(b.world, BlindDog)
           next == ApplyAdjustPopulation(b.world, b.nextSeq, r, s, delta, 0).world
<1>1. HasGenuineWorld(b) /\ b.initialized /\ DOMAIN b = Fields
  BY EnsuredWorld, EnsureKeepsInv DEF IInv, SessionInv, IsSession
<1>2. bridge' = b \/ bridge' = [b EXCEPT !.world = next, !.nextSeq = @ + 1]
  BY DEF AiInject
<1> HIDE DEF b
<1>3. Genuine(next)
  <2>1. Genuine(b.world) /\ b.nextSeq \in Int /\ delta \in Int /\ 0 \in Int
    BY <1>1, AmountsAssumption DEF HasGenuineWorld
  <2>2. r \in HandleRecords /\ s \in HandleRecords
    BY <2>1, FoundInWorld DEF Genuine
  <2> HIDE DEF r, s
  <2> QED
    BY <2>1, <2>2, AdjustIsGenuine
<1> HIDE DEF next
<1>4. CASE bridge' = [b EXCEPT !.world = next, !.nextSeq = @ + 1]
  <2>1. bridge'.world = next /\ bridge'.nextSeq = b.nextSeq + 1
    BY <1>1, <1>4 DEF Fields
  <2>2. b.nextSeq \in Int
    BY <1>1 DEF HasGenuineWorld
  <2> QED
    BY <1>3, <2>1, <2>2 DEF HasGenuineWorld
<1> QED
  BY <1>1, <1>2, <1>4

LEMMA ZoneWorld ==
    ASSUME IInv, HasGenuineWorld(bridge), NEW reply \in {NullAgentProvider} \cup ZoneReplies,
           WakeZoneAgent(reply)
    PROVE  HasGenuineWorld(bridge')
<1> DEFINE b == EnsureDebugWorld(bridge)
           result == NullAgentWake(b.world, reply)
<1>1. HasGenuineWorld(b) /\ b.initialized /\ DOMAIN b = Fields
  BY EnsuredWorld, EnsureKeepsInv DEF IInv, SessionInv, IsSession
<1>2. bridge' = [b EXCEPT !.world = result.world,
                          !.nextSeq = IF result.ok THEN Len(result.world.log) + 1 ELSE @]
  BY DEF WakeZoneAgent
<1> HIDE DEF b
<1>3. HaveAmounts(reply.intents)
  <2>1. AdjustBy(DebugRegion, BlindDog, 5).amount \in Int
    BY DEF AdjustBy
  <2>2. HaveAmounts(NullAgentProvider.intents)
    BY <2>1 DEF NullAgentProvider, Intents, HaveAmounts
  <2> QED
    BY <2>2, AmountsAssumption
<1>4. Genuine(result.world) /\ Len(result.world.log) \in Nat
  BY <1>1, <1>3, ZoneWakeIsGenuine DEF HasGenuineWorld
<1> HIDE DEF result
<1>5. bridge'.world = result.world /\ bridge'.nextSeq \in Int
  BY <1>1, <1>2, <1>4 DEF HasGenuineWorld, Fields
<1> QED
  BY <1>4, <1>5 DEF HasGenuineWorld

\* A snapshot brings back a world as genuine as the one it replaces.
LEMMA RestoredWorld ==
    ASSUME IInv, WorldInv, NEW snapshot \in saved,
           NEW p \in {snapshot, [snapshot EXCEPT ![1] = Word("xrsim_snapshot_v2")]}, AiRestore(p)
    PROVE  HasGenuineWorld(bridge')
<1> DEFINE result == LoadSnapshot(bridge.world, p)
<1>1. PICK w : Genuine(w) /\ snapshot = SaveSnapshot(w)
  BY DEF WorldInv, IsGenuineSnapshot
<1>2. result.ok => result.world = w
  <2>1. CASE p = snapshot
    BY <1>1, <2>1, LoadOfSaved DEF Genuine
  <2>2. CASE p = [snapshot EXCEPT ![1] = Word("xrsim_snapshot_v2")]
    <3>1. IsWorld(w) /\ p = [SaveSnapshot(w) EXCEPT ![1] = Word("xrsim_snapshot_v2")]
      BY <1>1, <2>2 DEF Genuine
    <3> HIDE DEF result
    <3>2. ~result.ok
      BY <3>1, OtherVersionsAreRefused DEF result
    <3> QED
      BY <3>2
  <2> QED
    BY <2>1, <2>2
<1>3. bridge' = IF ~result.ok THEN bridge
                ELSE [bridge EXCEPT !.world = result.world, !.initialized = TRUE,
                                    !.nextSeq = Len(result.world.log) + 1]
  BY DEF AiRestore
<1>4. DOMAIN bridge = Fields /\ HasGenuineWorld(bridge)
  BY DEF IInv, SessionInv, IsSession, WorldInv
<1>5. Len(w.log) + 1 \in Int
  BY <1>1 DEF Genuine, IsWorld, WorldRecords
<1> HIDE DEF result
<1>6. CASE result.ok
  <2>1. bridge'.world = w /\ bridge'.nextSeq = Len(w.log) + 1
    BY <1>2, <1>3, <1>4, <1>6 DEF Fields
  <2> QED
    BY <1>1, <1>5, <2>1 DEF HasGenuineWorld
<1>7. CASE ~result.ok
  BY <1>3, <1>4, <1>7
<1> QED
  BY <1>6, <1>7

LEMMA WakeWorld ==
    ASSUME IInv, HasGenuineWorld(bridge), NEW t \in Targets, Wake(t)
    PROVE  HasGenuineWorld(bridge')
<1> DEFINE b == EnsureDebugWorld(bridge)
<1>1. HasGenuineWorld(b) /\ IsSession(b)
  BY EnsuredWorld, EnsureKeepsInv DEF IInv, SessionInv
<1>2. CASE Known(b, t)
  <2>1. Apply("wake", b, t, DeterministicActorIntentProvider(Find(b, t)))
    BY <1>2 DEF Wake
  <2> QED
    BY <1>1, <1>2, <2>1, DeterministicResult, AppliedWorld
<1>3. CASE ~Known(b, t)
  BY <1>1, <1>3 DEF Wake
<1> QED
  BY <1>2, <1>3

LEMMA PollWorld ==
    ASSUME IInv, HasGenuineWorld(bridge), NEW id \in Queue!Ids, Poll(id)
    PROVE  HasGenuineWorld(bridge')
<1> DEFINE t == bridge.pending[id]
           b == Unbound(bridge, id)
<1>1. id \in DOMAIN bridge.pending /\ IsSession(bridge) /\ t \in Targets /\ Known(bridge, t)
  BY DEF Poll, IInv, SessionInv
<1>2. /\ DOMAIN b = Fields /\ b.actors = bridge.actors /\ b.packs = bridge.packs
      /\ b.world = bridge.world /\ b.initialized = bridge.initialized
      /\ b.nextSeq = bridge.nextSeq
  BY <1>1 DEF Unbound, IsSession, Fields
<1>3. IsSession(b) /\ HasGenuineWorld(b) /\ Known(b, t)
  BY <1>1, <1>2 DEF IsSession, HasGenuineWorld, Known
<1>4. CASE \E result \in ResultRecords : Apply("poll", b, t, result)
  <2> HIDE DEF b, t
  <2> QED
    BY <1>1, <1>3, <1>4, AppliedWorld
<1>5. \/ \E result \in ResultRecords : Apply("poll", b, t, result)
      \/ bridge' = bridge
      \/ bridge' = b
  <2>1. CASE answer'.answer = "pending"
    BY <2>1 DEF Poll
  <2>2. CASE answer'.answer = "result"
    BY <1>1, <2>2, ProviderResultsAreResults DEF Poll
  <2>3. CASE answer'.answer \notin {"pending", "result"}
    BY <2>3 DEF Poll
  <2> QED
    BY <2>1, <2>2, <2>3
<1> QED
  BY <1>3, <1>4, <1>5

\* The other verbs leave the world of the session, once it is set up.
LEMMA OtherVerbsKeepWorld ==
    ASSUME IInv, HasGenuineWorld(bridge),
           \/ AiReset \/ Observe \/ AiSnapshot \/ WorkerFinishes \/ UNCHANGED vars
           \/ \E members : RegisterPack(members)
           \/ \E t \in Targets : WakeLive(t) \/ WakeLiveUnknown(t)
           \/ \E id \in Queue!Ids : PollUnknown(id)
    PROVE  HasGenuineWorld(bridge')
<1> DEFINE b == EnsureDebugWorld(bridge)
           Keeps(c) == /\ bridge'.world = c.world /\ bridge'.nextSeq = c.nextSeq
                       /\ bridge'.initialized = c.initialized
<1>1. HasGenuineWorld(b) /\ DOMAIN b = Fields
  BY EnsuredWorld, EnsureKeepsInv DEF IInv, SessionInv, IsSession
<1> HIDE DEF b
<1>2. CASE Keeps(b) \/ Keeps(bridge)
  BY <1>1, <1>2 DEF HasGenuineWorld
<1>3. CASE AiReset
  BY <1>3, DebugIsGenuine DEF AiReset, Reset, ResetDebugWorld, Unset, HasGenuineWorld
<1>4. CASE Observe \/ AiSnapshot \/ (\E t \in Targets : WakeLiveUnknown(t))
  BY <1>2, <1>4 DEF Observe, AiSnapshot, WakeLiveUnknown, b
<1>5. CASE WorkerFinishes \/ UNCHANGED vars \/ (\E id \in Queue!Ids : PollUnknown(id))
  BY <1>2, <1>5 DEF WorkerFinishes, vars, PollUnknown
<1>6. CASE \E members : RegisterPack(members)
  <2>1. bridge' = b \/ \E packs : bridge' = [b EXCEPT !.packs = packs]
    BY <1>6 DEF RegisterPack, RegisterSessionMutantPack, b
  <2> QED
    BY <1>1, <1>2, <2>1 DEF Fields
<1>7. CASE \E t \in Targets : WakeLive(t)
  <2>1. \E p : bridge' = [b EXCEPT !.pending = p]
    BY <1>7 DEF WakeLive, Bound, b
  <2> QED
    BY <1>1, <1>2, <2>1 DEF Fields
<1> QED
  BY <1>3, <1>4, <1>5, <1>6, <1>7

\* Every snapshot a verb hands out is one of the session's world.
LEMMA SavedStep ==
    ASSUME IInv, WorldInv, [Next]_vars
    PROVE  \A snapshot \in saved' : IsGenuineSnapshot(snapshot)
<1> DEFINE b == EnsureDebugWorld(bridge)
<1>1. CASE AiSnapshot
  <2>1. Genuine(b.world)
    BY EnsuredWorld DEF WorldInv, HasGenuineWorld
  <2>2. saved' \subseteq saved \cup {SaveSnapshot(b.world)}
    BY <1>1 DEF AiSnapshot
  <2> HIDE DEF b
  <2> QED
    BY <2>1, <2>2 DEF WorldInv, IsGenuineSnapshot
<1>2. CASE saved' = saved
  BY <1>2 DEF WorldInv
<1>3. AiSnapshot \/ saved' = saved
  BY DEF Next, vars, AiReset, Observe, AiInject, WakeZoneAgent, AiRestore, RegisterPack, Wake,
         WakeLive, WakeLiveUnknown, PollUnknown, Poll, WorkerFinishes
<1> QED
  BY <1>1, <1>2, <1>3

LEMMA NextWorldInv == IInv /\ WorldInv /\ [Next]_vars => WorldInv'
<1> SUFFICES ASSUME IInv, WorldInv, [Next]_vars PROVE WorldInv'
  OBVIOUS
<1>1. HasGenuineWorld(bridge)
  BY DEF WorldInv
<1>2. CASE \/ AiReset \/ Observe \/ AiSnapshot \/ WorkerFinishes \/ UNCHANGED vars
           \/ \E members : RegisterPack(members)
           \/ \E t \in Targets : WakeLive(t) \/ WakeLiveUnknown(t)
           \/ \E id \in Queue!Ids : PollUnknown(id)
  BY <1>1, <1>2, OtherVerbsKeepWorld, SavedStep DEF WorldInv
<1>3. CASE \E region \in {DebugRegion, OneWord("nowhere")}, delta \in InjectDeltas :
              AiInject(region, delta)
  BY <1>1, <1>3, InjectWorld, SavedStep DEF WorldInv
<1>4. CASE \E reply \in {NullAgentProvider} \cup ZoneReplies : WakeZoneAgent(reply)
  BY <1>1, <1>4, ZoneWorld, SavedStep DEF WorldInv
<1>5. CASE \E snapshot \in saved :
              \/ AiRestore(snapshot)
              \/ AiRestore([snapshot EXCEPT ![1] = Word("xrsim_snapshot_v2")])
  BY <1>5, RestoredWorld, SavedStep DEF WorldInv
<1>6. CASE \E t \in Targets : Wake(t)
  BY <1>1, <1>6, WakeWorld, SavedStep DEF WorldInv
<1>7. CASE \E id \in Queue!Ids : Poll(id)
  BY <1>1, <1>7, PollWorld, SavedStep DEF WorldInv
<1> QED
  BY <1>2, <1>3, <1>4, <1>5, <1>6, <1>7 DEF Next

\* Whatever mix of verbs a session sees, its world is one that the calls in its
\* log made of the debug baseline, and so is every snapshot it hands out: what
\* is asked of the snapshots of earlier sessions is what every session grants.
THEOREM WorldInvariant ==
    ASSUME \A snapshot \in EarlierSnapshots : IsGenuineSnapshot(snapshot)
    PROVE  Spec => []WorldInv
<1>1. ASSUME Init PROVE WorldInv
  <2>1. Unset.initialized = FALSE /\ Unset.nextSeq = 1
    BY DEF Unset
  <2>2. bridge = Unset /\ saved = EarlierSnapshots
    BY <1>1 DEF Init
  <2>3. HasGenuineWorld(bridge)
    BY <2>1, <2>2 DEF HasGenuineWorld
  <2>4. \A snapshot \in saved : IsGenuineSnapshot(snapshot)
    BY <2>2
  <2> QED
    BY <2>3, <2>4 DEF WorldInv
<1>2. IInv /\ WorldInv /\ [Next]_vars => WorldInv'
  BY NextWorldInv
<1> QED
  BY <1>1, <1>2, SessionInvariant, PTL DEF Spec

\* ReplayWorks: ai.replay, which replays the log on a baseline of its own making,
\* succeeds in every session.
THEOREM ReplaysWork ==
    ASSUME \A snapshot \in EarlierSnapshots : IsGenuineSnapshot(snapshot)
    PROVE  Spec => []ReplayWorks
<1>1. WorldInv => ReplayWorks
  BY ReplayOfReproducing DEF WorldInv, HasGenuineWorld, Genuine, ReplayWorks
<1> QED
  BY <1>1, WorldInvariant, PTL
=============================================================================
