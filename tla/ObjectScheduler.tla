-------------------------- MODULE ObjectScheduler --------------------------
(***************************************************************************)
(* CSheduler (xrSheduler.cpp): once a frame every realtime object is       *)
(* updated, and of the others those whose time has come, the most overdue  *)
(* first and as many as the frame can afford.  An update is a call into    *)
(* the game, which may register and take off objects while it runs.        *)
(*                                                                         *)
(* Everything happens on the main thread; a step of the scheduler ends     *)
(* where it calls an object, and the game's calls are steps of their own.  *)
(* A thing is an address: a scheduled object, or what is left of one.      *)
(* Times are frames from now.  An item whose object was taken off is left  *)
(* out at once: popping it has no effect but to shift the check of the     *)
(* load, which may therefore come after any update.                        *)
(***************************************************************************)
EXTENDS Integers, Sequences, SequencesExt, FiniteSetsExt

CONSTANTS
    Things,
    None,
    MaxPending,   \* bound: the length of Registration
    MaxDelay      \* bound: the longest time to the next update, in frames

ASSUME NoneAssumption == None \notin Things
ASSUME SchedulerBounds == IsFiniteSet(Things) /\ {MaxPending, MaxDelay} \subseteq Nat

VARIABLES
    itemsRT,       \* ItemsRT: its things, in order
    pastEnd,       \* what its memory holds beyond the last of them
    items,         \* Items: the things with their dwTimeForExecute
    processed,     \* ItemsProcessed
    registration,  \* Registration
    current,       \* m_current_step_obj
    isRT,          \* SchedulerData::b_RT of each thing
    pc,            \* where Update is
    nextRT,        \* the slot of ItemsRT that the loop is at
    endRT,         \* and the last one it goes to
    updating,      \* the thing whose shedule_Update is running
    life,          \* of each thing: "live", "doomed" (shedule_Needed says no), "dead"
    wanted,        \* history: what the owners have registered
    updatedNow,    \* history: what has been updated in this frame
    movedNow       \* history: did ItemsRT change while the loop was in it

lists == <<itemsRT, pastEnd, items, processed, registration>>
loop == <<pc, nextRT, endRT>>
history == <<wanted, updatedNow, movedNow>>
vars == <<lists, current, isRT, loop, updating, life, history>>

Item(o, due) == [object |-> o, due |-> due]
Entry(op, rt, o) == [op |-> op, rt |-> rt, object |-> o]

Init ==
    /\ itemsRT = <<>> /\ pastEnd = <<>>
    /\ items = {} /\ processed = {}
    /\ registration = <<>>
    /\ current = None
    /\ isRT = [o \in Things |-> FALSE]
    /\ pc = "idle" /\ nextRT = 1 /\ endRT = 0
    /\ updating = None
    /\ life = [o \in Things |-> "dead"]
    /\ wanted = {} /\ updatedNow = {} /\ movedNow = FALSE

processing == pc # "idle"          \* m_processing_now
ThingsOf(list) == {item.object : item \in list}
Drop(list, o) == {item \in list : item.object # o}

-----------------------------------------------------------------------------
(* internal_Registration: the calls that were put off are carried out in   *)
(* their order, but a registration and the first taking-off after it       *)
(* cancel each other.  The lists are those of a record.                    *)

Lists == [rt |-> itemsRT, normal |-> items, kind |-> isRT, gone |-> {}, touched |-> {}]

\* MUTANT: a realtime object goes on both lists.
OnBothLists(q, e) ==
    [q EXCEPT !.kind[e.object] = e.rt,
              !.touched = @ \cup {e.object},
              !.rt = IF e.rt THEN Append(@, e.object) ELSE @,
              !.normal = @ \cup {Item(e.object, 0)}]

\* internal_Register, with the object it reads and writes.
InternalRegister(q, e) ==
    [q EXCEPT !.kind[e.object] = e.rt,
              !.touched = @ \cup {e.object},
              !.rt = IF e.rt THEN Append(@, e.object) ELSE @,
              !.normal = IF e.rt THEN @ ELSE @ \cup {Item(e.object, 0)}]

\* internal_Unregister, outside of an update.
InternalUnregister(q, e) ==
    IF e.rt
    THEN [q EXCEPT !.rt = IF Contains(@, e.object) THEN RemoveFirst(@, e.object) ELSE @]
    ELSE [q EXCEPT !.normal = Drop(@, e.object)]

\* MUTANTS: earlier calls are searched as well, or none at all.
PairsAnywhere(i, gone) ==
    {j \in DOMAIN registration \ gone :
        ~registration[j].op /\ registration[j].object = registration[i].object}
NoPairs(i, gone) == {}

Pairs(i, gone) ==
    {j \in (i + 1)..Len(registration) \ gone :
        ~registration[j].op /\ registration[j].object = registration[i].object}

CarriedOut(q, i) ==
    LET e == registration[i]
        pairs == Pairs(i, q.gone)
    IN  CASE i \in q.gone -> q
          [] i \notin q.gone /\ ~e.op -> InternalUnregister(q, e)
          [] i \notin q.gone /\ e.op /\ pairs # {} -> [q EXCEPT !.gone = @ \cup {Min(pairs)}]
          [] OTHER -> InternalRegister(q, e)

InternalRegistration(q) ==
    LET after[i \in 0..Len(registration)] ==
            IF i = 0 THEN q ELSE CarriedOut(after[i - 1], i)
    IN  after[Len(registration)]

-----------------------------------------------------------------------------
(* Update *)

Aged(list) == {[item EXCEPT !.due = @ - 1] : item \in list}

\* A frame begins: time has passed, and the calls since the last one are carried out.
BeginUpdate ==
    /\ pc = "idle"
    /\ LET q == InternalRegistration([Lists EXCEPT !.normal = Aged(@)])
       IN  /\ itemsRT' = q.rt /\ items' = q.normal /\ isRT' = q.kind
           /\ endRT' = Len(q.rt)
    /\ registration' = <<>>
    /\ pc' = "rt" /\ nextRT' = 1
    /\ UNCHANGED <<pastEnd, processed, current, updating, life, history>>

\* The loop goes by the memory it started with.
AtSlot == (itemsRT \o pastEnd)[nextRT]

NotNeededRT ==
    /\ pc = "rt" /\ updating = None /\ nextRT <= endRT
    /\ life[AtSlot] # "live"
    /\ nextRT' = nextRT + 1
    /\ UNCHANGED <<lists, current, isRT, pc, endRT, updating, life, history>>

UpdateRT ==
    /\ pc = "rt" /\ updating = None /\ nextRT <= endRT
    /\ life[AtSlot] = "live"
    /\ updating' = AtSlot
    /\ updatedNow' = updatedNow \cup {AtSlot}
    /\ UNCHANGED <<lists, current, isRT, loop, life, wanted, movedNow>>

ReturnRT ==
    /\ pc = "rt" /\ updating # None
    /\ updating' = None
    /\ nextRT' = nextRT + 1
    /\ UNCHANGED <<lists, current, isRT, pc, endRT, life, history>>

EndRT ==
    /\ pc = "rt" /\ updating = None /\ nextRT > endRT
    /\ pc' = "step" /\ pastEnd' = <<>>
    /\ UNCHANGED <<itemsRT, items, processed, registration, current, isRT, nextRT, endRT,
                   updating, life, history>>

\* ProcessStep: the items at the top of the heap, if their time has come.
Overdue == {item \in items : item.due < 0}
\* MUTANT: no heap.
AnyOverdue == Overdue

Top == {item \in Overdue : \A other \in Overdue : item.due <= other.due}

PopNotNeeded ==
    /\ pc = "step" /\ updating = None
    /\ \E item \in Top :
        /\ life[item.object] # "live"
        /\ items' = items \ {item}
    /\ UNCHANGED <<itemsRT, pastEnd, processed, registration, current, isRT, loop, updating, life,
                   history>>

UpdateItem ==
    /\ pc = "step" /\ updating = None
    /\ \E item \in Top :
        /\ life[item.object] = "live"
        /\ items' = items \ {item}
        /\ current' = item.object
        /\ updating' = item.object
        /\ updatedNow' = updatedNow \cup {item.object}
    /\ UNCHANGED <<itemsRT, pastEnd, processed, registration, isRT, loop, life, wanted, movedNow>>

\* An object that has taken itself off does not come back.
ReturnTakenOff ==
    /\ pc = "step" /\ updating # None /\ current = None
    /\ updating' = None
    /\ UNCHANGED <<lists, current, isRT, loop, life, history>>

\* MUTANT: m_current_step_obj is not reset.
StaysCurrent ==
    /\ pc = "step" /\ updating # None /\ current # None
    /\ \E delay \in 0..MaxDelay : processed' = processed \cup {Item(updating, delay)}
    /\ updating' = None
    /\ pc' \in {"step", "overloaded"}
    /\ UNCHANGED <<itemsRT, pastEnd, items, registration, current, isRT, nextRT, endRT, life, history>>

\* Any other does, after a time that it has a say in; the frame may be over its budget now.
ReturnItem ==
    /\ pc = "step" /\ updating # None /\ current # None
    /\ \E delay \in 0..MaxDelay : processed' = processed \cup {Item(updating, delay)}
    /\ updating' = None /\ current' = None
    /\ pc' \in {"step", "overloaded"}
    /\ UNCHANGED <<itemsRT, pastEnd, items, registration, isRT, nextRT, endRT, life, history>>

\* What was updated goes back to the heap, and the calls of the game are carried out.
EndUpdate ==
    /\ updating = None
    /\ pc = "overloaded" \/ (pc = "step" /\ Overdue = {})
    /\ LET q == InternalRegistration([Lists EXCEPT !.normal = @ \cup processed])
       IN  itemsRT' = q.rt /\ items' = q.normal /\ isRT' = q.kind
    /\ processed' = {} /\ registration' = <<>>
    /\ pc' = "idle" /\ nextRT' = 1 /\ endRT' = 0
    /\ updatedNow' = {} /\ movedNow' = FALSE
    /\ UNCHANGED <<pastEnd, current, updating, life, wanted>>

-----------------------------------------------------------------------------
(* The game, between two frames or in an update.                           *)

InGame == pc = "idle" \/ updating # None
Room == Len(registration) < MaxPending

\* Register: put off until the lists are not in use.
Register(o, rt) ==
    /\ InGame /\ Room
    /\ life[o] = "live" /\ o \notin wanted
    /\ registration' = Append(registration, Entry(TRUE, rt, o))
    /\ isRT' = [isRT EXCEPT ![o] = rt]
    /\ wanted' = wanted \cup {o}
    /\ UNCHANGED <<itemsRT, pastEnd, items, processed, current, loop, updating, life, updatedNow,
                   movedNow>>

\* In the loop over ItemsRT no realtime object is taken off but by itself
\* (configs_dumper::shedule_Update), and there is one that does.
MayTakeOff(o) == pc = "rt" /\ isRT[o] => o = updating /\ ~movedNow

\* erase moves the items behind it, and leaves the last one in the memory it had.
TakeOffRT(o) ==
    /\ processing /\ isRT[o] /\ Contains(itemsRT, o)
    /\ itemsRT' = RemoveFirst(itemsRT, o)
    /\ pastEnd' = IF pc = "rt" THEN <<Last(itemsRT)>> \o pastEnd ELSE pastEnd
    /\ movedNow' = (movedNow \/ pc = "rt")
    /\ UNCHANGED <<items, current, registration>>

TakeOffItem(o) ==
    /\ processing /\ ~isRT[o] /\ o \in ThingsOf(items)
    /\ items' = Drop(items, o)
    /\ UNCHANGED <<itemsRT, pastEnd, current, registration, movedNow>>

\* MUTANT: the lists are not looked through.
OnNoList(o) == FALSE

OnAList(o) == IF isRT[o] THEN Contains(itemsRT, o) ELSE o \in ThingsOf(items)

TakeOffCurrent(o) ==
    /\ processing /\ ~OnAList(o) /\ current = o
    /\ current' = None
    /\ UNCHANGED <<itemsRT, pastEnd, items, registration, movedNow>>

PutOff(o) ==
    /\ ~processing \/ (~OnAList(o) /\ current # o)
    /\ Room
    /\ registration' = Append(registration, Entry(FALSE, isRT[o], o))
    /\ UNCHANGED <<itemsRT, pastEnd, items, current, movedNow>>

Unregister(o) ==
    /\ InGame
    /\ o \in wanted /\ MayTakeOff(o)
    /\ TakeOffRT(o) \/ TakeOffItem(o) \/ TakeOffCurrent(o) \/ PutOff(o)
    /\ wanted' = wanted \ {o}
    /\ UNCHANGED <<processed, isRT, loop, updating, life, updatedNow>>

\* The constructor leaves b_RT as it finds it.
Construct(o) ==
    /\ InGame
    /\ life[o] = "dead"
    /\ life' = [life EXCEPT ![o] = "live"]
    /\ \E rt \in BOOLEAN : isRT' = [isRT EXCEPT ![o] = rt]
    /\ UNCHANGED <<lists, current, loop, updating, history>>

\* setDestroy
Doom(o) ==
    /\ InGame
    /\ life[o] = "live"
    /\ life' = [life EXCEPT ![o] = "doomed"]
    /\ UNCHANGED <<lists, current, isRT, loop, updating, history>>

\* ~ScheduledBase takes the object off once more, in a build that is not for debugging.
Destruct(o) ==
    /\ pc = "idle"
    /\ life[o] # "dead" /\ o \notin wanted
    /\ PutOff(o)
    /\ life' = [life EXCEPT ![o] = "dead"]
    /\ UNCHANGED <<processed, isRT, loop, updating, wanted, updatedNow>>

\* Destroy, when the engine ends.
Destroy ==
    /\ pc = "idle"
    /\ itemsRT' = <<>> /\ items' = {} /\ processed' = {} /\ registration' = <<>>
    /\ isRT' = InternalRegistration(Lists).kind
    /\ wanted' = {}
    /\ UNCHANGED <<pastEnd, current, loop, updating, life, updatedNow, movedNow>>

Next ==
    \/ BeginUpdate \/ NotNeededRT \/ UpdateRT \/ ReturnRT \/ EndRT
    \/ PopNotNeeded \/ UpdateItem \/ ReturnTakenOff \/ ReturnItem \/ EndUpdate
    \/ \E o \in Things :
        \/ \E rt \in BOOLEAN : Register(o, rt)
        \/ Unregister(o) \/ Construct(o) \/ Doom(o) \/ Destruct(o)
    \/ Destroy

Spec == Init /\ [][Next]_vars

-----------------------------------------------------------------------------
(* Properties *)

TypeOK ==
    /\ itemsRT \in Seq(Things) /\ pastEnd \in Seq(Things)
    /\ items \cup processed \subseteq [object : Things, due : Int]
    /\ registration \in Seq([op : BOOLEAN, rt : BOOLEAN, object : Things])
    /\ current \in {None, updating} /\ updating \in Things \cup {None}
    /\ isRT \in [Things -> BOOLEAN]
    /\ pc \in {"idle", "rt", "step", "overloaded"}
    /\ nextRT \in 1..(endRT + 1)
    /\ life \in [Things -> {"live", "doomed", "dead"}]
    /\ wanted \subseteq Things

\* The lists as they will be when the calls that were put off have been carried out.
Settled ==
    LET back == IF current = None THEN {} ELSE {Item(current, 0)}
    IN  InternalRegistration([Lists EXCEPT !.normal = @ \cup processed \cup back])

Occurrences(q, o) ==
    Cardinality({i \in DOMAIN q.rt : q.rt[i] = o}) + Cardinality({item \in q.normal : item.object = o})

\* Whatever mix of calls was made before, in and after updates: when they
\* have been carried out, what is registered is on one list, once, on the one
\* its b_RT says (internal_Unregister looks nowhere else), and nothing else is
\* but what is about to be destroyed and may have been dropped already.
BooksAreKept ==
    LET q == Settled
    IN  \A o \in Things :
            /\ life[o] = "live" => Occurrences(q, o) = (IF o \in wanted THEN 1 ELSE 0)
            /\ Occurrences(q, o) <= (IF o \in wanted THEN 1 ELSE 0)
            /\ (\E i \in DOMAIN q.rt : q.rt[i] = o) => q.kind[o]
            /\ o \in ThingsOf(q.normal) => ~q.kind[o]

\* internal_Register reads the object: no call that is still to be carried
\* out registers one that has been destroyed in the meantime.
NothingDangles == \A o \in Settled.touched : life[o] # "dead"

\* The check of the load stops a frame after one update at the earliest, and
\* the most overdue go first: nobody waits for more frames than there are things.
NobodyStarves == \A item \in items : item.due >= -Cardinality(Things)

\* ScheduledBase::shedule_Update must not be called twice in a frame, and
\* every realtime object has its update in each frame, unless one of them
\* left while the loop was in the list.
ServedOnceAFrame ==
    [][/\ updating' \in {None, updating} \/ updating' \notin updatedNow \/ movedNow
       /\ pc = "rt" /\ pc' = "step" /\ ~movedNow =>
            \A i \in DOMAIN itemsRT : life[itemsRT[i]] = "live" => itemsRT[i] \in updatedNow]_vars

Abstract == INSTANCE ScheduledSet
    WITH registered <- wanted, doomed <- {o \in Things : life[o] # "live"}

\* One update at a time, only of what is registered and needed.
ImplementsScheduledSet == Abstract!SetSpec
=============================================================================
