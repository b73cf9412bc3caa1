------------------------------ MODULE TaskRing ------------------------------
(***************************************************************************)
(* TaskQueue (TaskManager.cpp): the lock-free ring of tasks that every     *)
(* worker owns.  Its owner is the only thread that pushes, because the     *)
(* queue is reached through the thread_local s_tl_worker; the owner and    *)
(* all thieves pop.  Each access to an atomic or to a slot is a step of    *)
(* its own, and the accesses are sequentially consistent.                  *)
(*                                                                         *)
(* The task pushed at a position is named by the position, as pushing the  *)
(* same task twice is a mistake of the caller (Task.hpp asserts it away).  *)
(***************************************************************************)
EXTENDS Integers, Sequences

CONSTANTS
    Owner,       \* the thread whose queue this is
    Thieves,     \* the other workers
    Size,        \* TASK_STORAGE_SIZE
    MaxPushed,   \* bound: how many tasks are pushed in all
    NoTask       \* nullptr

ASSUME SizeAssumption == Size \in Nat \ {0}
ASSUME MaxPushedAssumption == MaxPushed \in Nat
ASSUME ThreadsAssumption == Owner \notin Thieves
ASSUME NoTaskAssumption == NoTask \notin Nat

Takers == Thieves \cup {Owner}
Positions == 0..(MaxPushed - 1)

VARIABLES
    head,      \* m_head_pos
    tail,      \* m_tail_pos
    slot,      \* m_storage
    pc,        \* where each thread is in push or pop
    pos,       \* its task_pos or head_pos
    got,       \* pop's local task
    taken,     \* history: the tasks pop handed out, in that order
    crowded    \* history: as many positions as slots have been in use at once

vars == <<head, tail, slot, pc, pos, got, taken, crowded>>

\* position & TASK_STORAGE_MASK
SlotOf(p) == p % Size

\* Not in the code, only for the history variable: a position is in use from
\* the push that claims it until the pop that won it has cleared the slot.  What
\* push asserts (line 97) is weaker, it lets every slot be used and does not see
\* the pops that still have to clear.  n: the tail.
SlotToSpare(n) ==
    /\ n - head < Size
    /\ \A t \in Takers : pc[t] = "clear" => n - pos[t] < Size

Init ==
    /\ head = 0
    /\ tail = 0
    /\ slot = [i \in 0..(Size - 1) |-> NoTask]
    /\ pc = [t \in Takers |-> "idle"]
    /\ pos = [t \in Takers |-> 0]
    /\ got = [t \in Takers |-> NoTask]
    /\ taken = <<>>
    /\ crowded = FALSE

-----------------------------------------------------------------------------
(* push, by the owner.                                                     *)

\* m_tail_pos.fetch_add: the position is claimed before anything is there.
PushClaim ==
    /\ pc[Owner] = "idle"
    /\ tail < MaxPushed
    /\ tail' = tail + 1
    /\ pos' = [pos EXCEPT ![Owner] = tail]
    /\ pc' = [pc EXCEPT ![Owner] = "store"]
    /\ crowded' = (crowded \/ ~SlotToSpare(tail + 1))
    /\ UNCHANGED <<head, slot, got, taken>>

\* A call returns, and its locals are gone.
Returned(t) ==
    /\ pc' = [pc EXCEPT ![t] = "idle"]
    /\ pos' = [pos EXCEPT ![t] = 0]
    /\ got' = [got EXCEPT ![t] = NoTask]

\* MUTANT: the slot of the position after the claimed one.
NextSlot == SlotOf(tail)
ClaimedSlot == SlotOf(pos[Owner])

PushStore ==
    /\ pc[Owner] = "store"
    /\ slot' = [slot EXCEPT ![ClaimedSlot] = pos[Owner]]
    /\ Returned(Owner)
    /\ UNCHANGED <<head, tail, taken, crowded>>

-----------------------------------------------------------------------------
(* pop, and steal, which is the same.                                      *)

PopBegin(t) ==
    /\ pc[t] = "idle"
    /\ pos' = [pos EXCEPT ![t] = head]
    /\ pc' = [pc EXCEPT ![t] = "look"]
    /\ UNCHANGED <<head, tail, slot, got, taken, crowded>>

Found(t) == slot[SlotOf(pos[t])] # NoTask

\* The slot is read once; an empty one ends pop with nullptr, whatever the
\* counters say.
PopLook(t) ==
    /\ pc[t] = "look"
    /\ Found(t)
    /\ got' = [got EXCEPT ![t] = slot[SlotOf(pos[t])]]
    /\ pc' = [pc EXCEPT ![t] = "swap"]
    /\ UNCHANGED <<head, tail, slot, pos, taken, crowded>>

PopEmpty(t) ==
    /\ pc[t] = "look"
    /\ ~Found(t)
    /\ Returned(t)
    /\ UNCHANGED <<head, tail, slot, taken, crowded>>

\* MUTANT: the head is stored, whatever it has become meanwhile.
StoreInsteadOfExchange(t) == TRUE
HeadUnmoved(t) == head = pos[t]

\* compare_exchange_weak succeeds.
PopSwap(t) ==
    /\ pc[t] = "swap"
    /\ HeadUnmoved(t)
    /\ head' = pos[t] + 1
    /\ taken' = Append(taken, got[t])
    /\ pc' = [pc EXCEPT ![t] = "clear"]
    /\ UNCHANGED <<tail, slot, pos, got, crowded>>

\* It fails: the head has moved, or for no reason, which the weak form may.
PopFail(t) ==
    /\ pc[t] = "swap"
    /\ Returned(t)
    /\ UNCHANGED <<head, tail, slot, taken, crowded>>

\* MUTANT: the slot the head has moved to.
HeadSlot(t) == SlotOf(head)
WonSlot(t) == SlotOf(pos[t])

\* The slot is cleared after the head has moved, and pop returns the task.
PopClear(t) ==
    /\ pc[t] = "clear"
    /\ slot' = [slot EXCEPT ![WonSlot(t)] = NoTask]
    /\ Returned(t)
    /\ UNCHANGED <<head, tail, taken, crowded>>

PopStep(t) ==
    \/ PopBegin(t) \/ PopLook(t) \/ PopEmpty(t)
    \/ PopSwap(t) \/ PopFail(t) \/ PopClear(t)

Next == PushClaim \/ PushStore \/ \E t \in Takers : PopStep(t)

Spec == Init /\ [][Next]_vars

\* A thread inside push or pop goes on, some thieves keep looking for work as
\* TaskWorkerStart does, and a weak exchange does not fail for no reason for
\* ever.
Fairness ==
    /\ WF_vars(PushStore)
    /\ \A t \in Takers : WF_vars(PopLook(t) \/ PopEmpty(t)) /\ WF_vars(PopClear(t))
    /\ \A t \in Thieves : WF_vars(PopStep(t)) /\ SF_vars(PopSwap(t))

FairSpec == Spec /\ Fairness

-----------------------------------------------------------------------------
(* Properties.  All of them are about a ring that has one slot left over:  *)
(* when Size positions are in use at once, a pop that has moved the head   *)
(* and not cleared its slot yet makes another pop find its task there      *)
(* again, or clears the task that push has stored there meanwhile.         *)

TypeOK ==
    /\ head \in Nat
    /\ tail \in 0..MaxPushed
    /\ slot \in [0..(Size - 1) -> Positions \cup {NoTask}]
    /\ pc \in [Takers -> {"idle", "store", "look", "swap", "clear"}]
    /\ pos \in [Takers -> Nat]
    /\ got \in [Takers -> Positions \cup {NoTask}]
    /\ taken \in Seq(Positions)
    /\ crowded \in BOOLEAN
    /\ \A t \in Takers :
         /\ pc[t] = "store" => t = Owner /\ pos[t] < tail
         /\ pc[t] = "swap" => got[t] # NoTask

InOrder ==
    /\ Len(taken) = head
    /\ \A i \in 1..head : taken[i] = i - 1

\* What has been pushed and not taken is in its slot, or about to be.
WaitingIsStored ==
    \A p \in head..(tail - 1) :
        \/ slot[SlotOf(p)] = p
        \/ pc[Owner] = "store" /\ pos[Owner] = p

\* A task is handed out once, and the tasks of a queue in the order they were
\* pushed, although any number of pops and steals race for the same head.
OnceAndInOrder == ~crowded => InOrder

\* The counters may run ahead of the slots, but what has been pushed and not
\* taken can be found, and nothing else can once no pop is under way.
NothingIsLost ==
    ~crowded =>
        /\ head <= tail
        /\ WaitingIsStored
        /\ (\A t \in Takers : pc[t] # "clear") =>
             \A i \in 0..(Size - 1) : slot[i] # NoTask => slot[i] \in head..(tail - 1)

\* A pop that wins the head at once takes the oldest task: no step may hand out
\* a task that was never pushed, or move the head without one.
TakesTheOldest ==
    [][~crowded' /\ head' # head =>
         /\ head' = head + 1
         /\ head < tail
         /\ taken' = Append(taken, head)]_vars

\* Every task pushed is handed out in the end: no push leaves the ring in a
\* state in which all pops return nullptr.
EveryTaskIsTaken ==
    \A p \in Positions : tail > p ~> (Len(taken) > p \/ crowded)

-----------------------------------------------------------------------------
(* The inductive invariant.                                                *)

\* No pop is ahead of the head, and one about to move it has found its task.
SwapsAreCurrent ==
    \A t \in Takers :
        /\ pc[t] \in {"look", "swap"} => pos[t] <= head
        /\ pc[t] = "swap" /\ pos[t] = head =>
             /\ head < tail
             /\ got[t] = head
             /\ slot[SlotOf(head)] = head

\* The pops that have moved it each clear the slot of their own position.
ClearsAreOwn ==
    \A t \in Takers :
        pc[t] = "clear" =>
            /\ pos[t] < head
            /\ slot[SlotOf(pos[t])] = pos[t]
            /\ \A u \in Takers : pc[u] = "clear" /\ pos[u] = pos[t] => u = t

\* What is in a slot belongs there, and is waiting or being cleared.
SlotsAreCurrent ==
    \A i \in 0..(Size - 1) :
        slot[i] # NoTask =>
            /\ SlotOf(slot[i]) = i
            /\ slot[i] < tail
            /\ \/ slot[i] >= head
               \/ \E t \in Takers : pc[t] = "clear" /\ pos[t] = slot[i]

\* The owner stores into an empty slot, at the last position claimed.
StoreIsClaimed ==
    pc[Owner] = "store" =>
        /\ pos[Owner] = tail - 1
        /\ head < tail
        /\ slot[SlotOf(pos[Owner])] = NoTask

RingInv ==
    /\ head <= tail
    /\ SlotToSpare(tail)
    /\ InOrder
    /\ WaitingIsStored
    /\ SwapsAreCurrent
    /\ ClearsAreOwn
    /\ SlotsAreCurrent
    /\ StoreIsClaimed

IInv == TypeOK /\ (~crowded => RingInv)
=============================================================================
