------------------------------ MODULE ActorTimer ------------------------------
(***************************************************************************)
(* Utils/TimeUtils: SubTimer, its SubTimerEntity and the ActorTimer that    *)
(* runs them.  All three belong to one thread; what interleaves is the      *)
(* loops of OnTimer with what the handlers they call do to the timers.      *)
(*                                                                         *)
(* A handler is the number of the AddTimer call that brought it.  An entity *)
(* is its address, which a later SubTimer may be given again.               *)
(***************************************************************************)
EXTENDS Integers, Sequences

CONSTANTS
    Entities,
    NoEntity,
    MaxTime,     \* bound on the clock and on the time of a timer
    MaxAdds      \* bound on the calls of AddTimer

ASSUME TimerAssumption ==
    NoEntity \notin Entities /\ MaxTime \in Nat /\ MaxAdds \in Nat

VARIABLES
    now,          \* Time::GetNowMS()
    allocated,    \* the entities that are not freed
    setSubTimer,  \* m_setSubTimer
    actorTimer,   \* ActorTimer::m_mTimer; no entity for no entry
    timer,        \* m_mTimer of each entity; <<>> for no entry
    bDelete,      \* m_bDelete and m_bHandleing of each entity
    bHandleing,
    pc, back,     \* where OnTimer is, and where an entity's OnTimer returns
    iNowMS,       \* its argument
    setTimer,     \* its locals
    entity,
    listHandle,
    added,        \* history: the entity and the time of each AddTimer
    gone,         \* history: handlers no OnTimer may call any more: see Clear
                  \* and Delete
    begun         \* history: the handlers that were called, in order

objects == <<allocated, setSubTimer, bDelete>>
maps == <<actorTimer, timer>>
args == <<back, iNowMS, setTimer>>
history == <<added, gone, begun>>
vars == <<now, objects, maps, bHandleing, pc, args, entity, listHandle, history>>

Times == 0 .. MaxTime
Handlers == 1 .. MaxAdds
NoTimers == [t \in Times |-> <<>>]

\* The keys of the two maps, and begin().
TimesOf(e) == {t \in Times : timer[e][t] # <<>>}
ActorTimes == {t \in Times : actorTimer[t] # {}}
First(T, t) == t \in T /\ \A u \in T : t <= u

Init ==
    /\ now = 0
    /\ allocated = {} /\ setSubTimer = {}
    /\ actorTimer = [t \in Times |-> {}]
    /\ timer = [e \in Entities |-> NoTimers]
    /\ bDelete = [e \in Entities |-> FALSE]
    /\ bHandleing = [e \in Entities |-> FALSE]
    /\ pc = "idle" /\ back = "idle" /\ iNowMS = 0
    /\ setTimer = {} /\ entity = NoEntity /\ listHandle = <<>>
    /\ added = <<>> /\ gone = {} /\ begun = <<>>

Tick ==
    /\ now < MaxTime
    /\ now' = now + 1
    /\ UNCHANGED <<objects, maps, bHandleing, pc, args, entity, listHandle, history>>

-----------------------------------------------------------------------------
(* What the program does with its SubTimers, between two calls of OnTimer   *)
(* or in a handler.                                                        *)

Program == pc \in {"idle", "handler"} /\ UNCHANGED <<now, pc, args, entity, listHandle>>
Owned(e) == e \in allocated /\ ~bDelete[e]

UnRegistSubTimer(e) == actorTimer' = [t \in Times |-> actorTimer[t] \ {e}]

Create(e) ==
    /\ Program
    /\ e \notin allocated
    /\ allocated' = allocated \cup {e}
    /\ setSubTimer' = setSubTimer \cup {e}
    /\ bDelete' = [bDelete EXCEPT ![e] = FALSE]
    /\ bHandleing' = [bHandleing EXCEPT ![e] = FALSE]
    /\ UNCHANGED <<maps, history>>

\* Variant: a new timer goes to the front of the list of its time.
PushFront(e, t) ==
    timer' = [timer EXCEPT ![e][t] = <<Len(added) + 1>> \o @]

PushBack(e, t) ==
    timer' = [timer EXCEPT ![e][t] = Append(@, Len(added) + 1)]

\* Variant: the entity is registered for its first timer only.
IsFirstEver(e, t) == TimesOf(e) = {}

IsEarliest(e, t) == \A u \in TimesOf(e) : t < u

AddTimer(e, t) ==
    /\ Program
    /\ Owned(e)
    /\ t >= now
    /\ Len(added) < MaxAdds
    /\ actorTimer' = IF IsEarliest(e, t)
                     THEN [actorTimer EXCEPT ![t] = @ \cup {e}] ELSE actorTimer
    /\ PushBack(e, t)
    /\ added' = Append(added, [entity |-> e, time |-> t])
    /\ UNCHANGED <<objects, bHandleing, gone, begun>>

Pending(e) == {h \in DOMAIN added : added[h].entity = e /\ \A k \in DOMAIN begun : begun[k] # h}
Taken == {listHandle[k] : k \in DOMAIN listHandle}

(* The list that OnTimer has taken out of the map is not cleared: the rest  *)
(* of it is called after a handler of it has cleared the SubTimer.          *)
Clear(e) ==
    /\ Program
    /\ Owned(e)
    /\ UnRegistSubTimer(e)
    /\ timer' = [timer EXCEPT ![e] = NoTimers]
    /\ gone' = gone \cup (Pending(e) \ Taken)
    /\ UNCHANGED <<objects, bHandleing, added, begun>>

(* The destructor of the entity.                                           *)
Free(e) ==
    /\ UnRegistSubTimer(e)
    /\ setSubTimer' = setSubTimer \ {e}
    /\ allocated' = allocated \ {e}
    /\ timer' = [timer EXCEPT ![e] = NoTimers]

\* Variant: an entity is freed although its OnTimer is running.
NeverInUse(e) == FALSE

InUse(e) == bHandleing[e]

(* ~SubTimer.  A list that OnTimer has taken is not called any further.     *)
Delete(e) ==
    /\ Program
    /\ Owned(e)
    /\ bDelete' = [bDelete EXCEPT ![e] = TRUE]
    /\ gone' = gone \cup {h \in DOMAIN added : added[h].entity = e}
    /\ IF InUse(e) THEN UNCHANGED <<allocated, setSubTimer, maps>> ELSE Free(e)
    /\ UNCHANGED <<bHandleing, added, begun>>

-----------------------------------------------------------------------------
(* ActorTimer::OnTimer.                                                    *)

\* Variant: the argument is a tick ahead.
Ahead == now + 1

Argument == now

OnTimer ==
    /\ pc = "idle" /\ pc' = "actor"
    /\ iNowMS' = Argument
    /\ UNCHANGED <<now, objects, maps, bHandleing, back, setTimer, entity, listHandle, history>>

TakeSet ==
    /\ pc = "actor" /\ pc' = "set"
    /\ \E t \in Times :
          /\ First(ActorTimes, t) /\ t <= iNowMS
          /\ setTimer' = actorTimer[t]
          /\ actorTimer' = [actorTimer EXCEPT ![t] = {}]
    /\ UNCHANGED <<now, objects, timer, bHandleing, back, iNowMS, entity, listHandle, history>>

OnTimerReturn ==
    /\ pc = "actor" /\ pc' = "idle"
    /\ \A t \in ActorTimes : t > iNowMS
    /\ UNCHANGED <<now, objects, maps, bHandleing, args, entity, listHandle, history>>

Enter(e, from) ==
    /\ pc' = "entity" /\ back' = from /\ entity' = e
    /\ bHandleing' = [bHandleing EXCEPT ![e] = TRUE]

(* The order of a set of addresses is any order.                           *)
NextOfSet(e) ==
    /\ pc = "set"
    /\ e \in setTimer
    /\ setTimer' = setTimer \ {e}
    /\ \/ e \in setSubTimer /\ Enter(e, "set")
       \/ e \notin setSubTimer /\ UNCHANGED <<pc, back, entity, bHandleing>>
    /\ UNCHANGED <<now, objects, maps, iNowMS, listHandle, history>>

SetDone ==
    /\ pc = "set" /\ pc' = "actor"
    /\ setTimer = {}
    /\ UNCHANGED <<now, objects, maps, bHandleing, args, entity, listHandle, history>>

-----------------------------------------------------------------------------
(* SubTimerEntity::OnTimer, which SubTimer::OnTimer calls as well.          *)

SubTimerOnTimer(e) ==
    /\ pc = "idle" /\ Owned(e)
    /\ iNowMS' = now
    /\ Enter(e, "idle")
    /\ UNCHANGED <<now, objects, maps, setTimer, listHandle, history>>

TakeList ==
    /\ pc = "entity" /\ pc' = "list"
    /\ ~bDelete[entity]
    /\ \E t \in Times :
          /\ First(TimesOf(entity), t) /\ t <= iNowMS
          /\ listHandle' = timer[entity][t]
          /\ timer' = [timer EXCEPT ![entity][t] = <<>>]
    /\ UNCHANGED <<now, objects, actorTimer, bHandleing, args, entity, history>>

\* Variant: a timer of this very moment counts as later.
NotBefore(t) == t >= iNowMS

Later(t) == t > iNowMS

(* The return in the loop leaves m_bHandleing set, and registers nothing.   *)
EarlyReturn ==
    /\ pc = "entity" /\ pc' = back
    /\ ~bDelete[entity]
    /\ \E t \in Times : First(TimesOf(entity), t) /\ Later(t)
    /\ entity' = NoEntity
    /\ UNCHANGED <<now, objects, maps, bHandleing, args, listHandle, history>>

Return ==
    /\ pc = "entity" /\ pc' = back
    /\ bHandleing' = [bHandleing EXCEPT ![entity] = FALSE]
    /\ \/ bDelete[entity] /\ Free(entity)
       \/ /\ ~bDelete[entity] /\ TimesOf(entity) = {}
          /\ UNCHANGED <<allocated, setSubTimer, maps>>
    /\ entity' = NoEntity
    /\ UNCHANGED <<now, bDelete, args, listHandle, history>>

\* Variant: the loop over the list goes on after ~SubTimer.
NeverStops == FALSE

Stops == bDelete[entity]

Call ==
    /\ pc = "list" /\ pc' = "handler"
    /\ listHandle # <<>> /\ ~Stops
    /\ begun' = Append(begun, Head(listHandle))
    /\ UNCHANGED <<now, objects, maps, bHandleing, args, entity, listHandle, added, gone>>

HandlerReturn ==
    /\ pc = "handler" /\ pc' = "list"
    /\ listHandle' = Tail(listHandle)
    /\ UNCHANGED <<now, objects, maps, bHandleing, args, entity, history>>

ListDone ==
    /\ pc = "list" /\ pc' = "entity"
    /\ listHandle = <<>> \/ Stops
    /\ listHandle' = <<>>
    /\ UNCHANGED <<now, objects, maps, bHandleing, args, entity, history>>

Run ==
    \/ TakeSet \/ OnTimerReturn \/ SetDone
    \/ \E e \in Entities : NextOfSet(e)
    \/ TakeList \/ EarlyReturn \/ Return \/ Call \/ HandlerReturn \/ ListDone

Next ==
    \/ Tick \/ OnTimer \/ Run
    \/ \E e \in Entities :
          \/ Create(e) \/ Clear(e) \/ Delete(e) \/ SubTimerOnTimer(e)
          \/ \E t \in Times : AddTimer(e, t)

Spec == Init /\ [][Next]_vars

(* OnTimer is called again and again, handlers return, and time passes.     *)
FairSpec == Spec /\ WF_vars(Tick) /\ SF_vars(OnTimer) /\ WF_vars(Run)
=============================================================================
