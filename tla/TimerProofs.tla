------------------------------ MODULE TimerProofs ------------------------------
(***************************************************************************)
(* The timers are type correct and use nothing freed, are registered for    *)
(* their first time, and call no handler that is gone, for any number of    *)
(* SubTimers, times and handlers.                                          *)
(***************************************************************************)
EXTENDS TimerProperties, TLAPS

Inside == pc \in {"entity", "list", "handler"}

\* The number of handlers is bounded, which makes it a handler.
Numbered == Len(added) <= MaxAdds

\* m_bHandleing is set while OnTimer of the entity runs, and the list still has
\* the handler that was called.
Running ==
    /\ Inside => entity \in Entities /\ bHandleing[entity]
    /\ pc = "handler" => listHandle # <<>>

\* The set taken out of m_mTimer exists only in the loop over it.
Alone == setTimer # {} => pc = "set" \/ (Inside /\ back = "set")

\* The map of an entity is empty before its construction.
FreedEmpty == \A e \in Entities : e \notin allocated => timer[e] = NoTimers

TimerInv == TypeOK /\ Numbered /\ NoUseAfterFree /\ Running /\ Alone /\ FreedEmpty

USE TimerAssumption

\* The initial state satisfies the invariant.
LEMMA InitInv == Init => TimerInv
<1> SUFFICES ASSUME Init PROVE TimerInv
  OBVIOUS
<1>1. TypeOK
  BY DEF Init, TypeOK, Times, Handlers, NoTimers
<1>2. Numbered /\ NoUseAfterFree /\ Running /\ Alone /\ FreedEmpty
  BY DEF Init, Numbered, NoUseAfterFree, Running, Alone, FreedEmpty, Inside, NoTimers
<1> QED
  BY <1>1, <1>2 DEF TimerInv

\* An entity without timers is typed.
LEMMA NoTimersType == NoTimers \in [Times -> Seq(Handlers)]
BY DEF NoTimers

\* Free keeps the types.
LEMMA FreeType ==
    ASSUME TypeOK, NoUseAfterFree, NEW e \in Entities, Free(e)
    PROVE  /\ timer' \in [Entities -> [Times -> Seq(Handlers)]]
           /\ setSubTimer' = allocated'
           /\ allocated' = allocated \ {e}
           /\ \A t \in Times : actorTimer'[t] \subseteq allocated'
<1>1. timer' \in [Entities -> [Times -> Seq(Handlers)]]
  BY NoTimersType DEF TypeOK, Free
<1>2. setSubTimer' = allocated' /\ allocated' = allocated \ {e}
  BY DEF NoUseAfterFree, Free
<1>3. \A t \in Times : actorTimer'[t] \subseteq allocated'
  BY DEF NoUseAfterFree, Free, UnRegistSubTimer
<1> QED
  BY <1>1, <1>2, <1>3

\* Tick moves only the clock.
LEMMA TickInv == ASSUME TimerInv, Tick PROVE TimerInv'
<1> USE DEF TimerInv
<1>1. TypeOK'
  <2>1. now' \in Times /\ iNowMS' \in Times
    BY DEF TypeOK, Running, Inside, Numbered, Times, Handlers, NoTimers, Tick, objects, maps, args, history
  <2>2. timer' \in [Entities -> [Times -> Seq(Handlers)]]
    BY DEF TypeOK, Running, Inside, Numbered, Times, Handlers, NoTimers, Tick, objects, maps, args, history
  <2>3. actorTimer' \in [Times -> SUBSET Entities]
    BY DEF TypeOK, Running, Inside, Numbered, Times, Handlers, NoTimers, Tick, objects, maps, args, history
  <2>4. added' \in Seq([entity : Entities, time : Times]) /\ gone' \subseteq Handlers
    BY DEF TypeOK, Running, Inside, Numbered, Times, Handlers, NoTimers, Tick, objects, maps, args, history
  <2>5. bDelete' \in [Entities -> BOOLEAN] /\ bHandleing' \in [Entities -> BOOLEAN]
    BY DEF TypeOK, Running, Inside, Numbered, Times, Handlers, NoTimers, Tick, objects, maps, args, history
  <2>6. listHandle' \in Seq(Handlers) /\ begun' \in Seq(Handlers)
    BY DEF TypeOK, Running, Inside, Numbered, Times, Handlers, NoTimers, Tick, objects, maps, args, history
  <2>7. /\ allocated' \subseteq Entities /\ setSubTimer' \subseteq Entities
        /\ setTimer' \subseteq Entities /\ entity' \in Entities \cup {NoEntity}
        /\ pc' \in {"idle", "actor", "set", "entity", "list", "handler"} /\ back' \in {"idle", "set"}
    BY DEF TypeOK, Running, Inside, Numbered, Times, Handlers, NoTimers, Tick, objects, maps, args, history
  <2> QED
    BY <2>1, <2>2, <2>3, <2>4, <2>5, <2>6, <2>7 DEF TypeOK
<1>2. Numbered'
  BY DEF Numbered, TypeOK, Tick, objects, maps, args, history
<1>3. NoUseAfterFree'
  BY DEF NoUseAfterFree, Running, Inside, TypeOK, Tick, objects, maps, args, history
<1>4. Running'
  BY DEF Running, NoUseAfterFree, Inside, TypeOK, Tick, objects, maps, args, history
<1>5. Alone'
  BY DEF Alone, Inside, Tick, objects, maps, args, history
<1>6. FreedEmpty'
  BY DEF FreedEmpty, NoUseAfterFree, Running, Inside, TypeOK, NoTimers, Tick, objects, maps, args, history
<1> QED
  BY <1>1, <1>2, <1>3, <1>4, <1>5, <1>6

\* Create takes an address that is free.
LEMMA CreateInv == ASSUME TimerInv, NEW e \in Entities, Create(e) PROVE TimerInv'
<1> USE DEF TimerInv
<1>1. TypeOK'
  BY DEF TypeOK, Running, Inside, Numbered, Times, Handlers, NoTimers, Create, Program, objects, maps, args, history
<1>2. Numbered'
  BY DEF Numbered, TypeOK, Create, Program, objects, maps, args, history
<1>3. NoUseAfterFree'
  BY DEF NoUseAfterFree, Running, Inside, TypeOK, Create, Program, objects, maps, args, history
<1>4. Running'
  BY DEF Running, NoUseAfterFree, Inside, TypeOK, Create, Program, objects, maps, args, history
<1>5. Alone'
  BY DEF Alone, Inside, Create, Program, objects, maps, args, history
<1>6. FreedEmpty'
  BY DEF FreedEmpty, NoUseAfterFree, Running, Inside, TypeOK, NoTimers, Create, Program, objects, maps, args, history
<1> QED
  BY <1>1, <1>2, <1>3, <1>4, <1>5, <1>6

\* AddTimer adds to an entity that is allocated.
LEMMA AddTimerInv == ASSUME TimerInv, NEW e \in Entities, NEW t \in Times, AddTimer(e, t) PROVE TimerInv'
<1> USE DEF TimerInv
<1>1. TypeOK'
  <2>1. now' \in Times /\ iNowMS' \in Times
    BY DEF TypeOK, Running, Inside, Numbered, Times, Handlers, NoTimers, AddTimer, Program, Owned, PushBack, objects, maps, args, history
  <2>2. timer' \in [Entities -> [Times -> Seq(Handlers)]]
    <3>1. timer \in [Entities -> [Times -> Seq(Handlers)]] /\ added \in Seq([entity : Entities, time : Times])
      BY DEF TypeOK
    <3>2. Len(added) + 1 \in Handlers
      BY <3>1 DEF AddTimer, Handlers
    <3>3. timer' = [timer EXCEPT ![e][t] = Append(@, Len(added) + 1)]
      BY DEF AddTimer, PushBack
    <3>4. timer[e] \in [Times -> Seq(Handlers)] /\ Append(timer[e][t], Len(added) + 1) \in Seq(Handlers)
      BY <3>1, <3>2
    <3> QED
      BY <3>1, <3>3, <3>4
  <2>3. actorTimer' \in [Times -> SUBSET Entities]
    BY DEF TypeOK, Running, Inside, Numbered, Times, Handlers, NoTimers, AddTimer, Program, Owned, PushBack, objects, maps, args, history
  <2>4. added' \in Seq([entity : Entities, time : Times]) /\ gone' \subseteq Handlers
    BY DEF TypeOK, Running, Inside, Numbered, Times, Handlers, NoTimers, AddTimer, Program, Owned, PushBack, objects, maps, args, history
  <2>5. bDelete' \in [Entities -> BOOLEAN] /\ bHandleing' \in [Entities -> BOOLEAN]
    BY DEF TypeOK, Running, Inside, Numbered, Times, Handlers, NoTimers, AddTimer, Program, Owned, PushBack, objects, maps, args, history
  <2>6. listHandle' \in Seq(Handlers) /\ begun' \in Seq(Handlers)
    BY DEF TypeOK, Running, Inside, Numbered, Times, Handlers, NoTimers, AddTimer, Program, Owned, PushBack, objects, maps, args, history
  <2>7. /\ allocated' \subseteq Entities /\ setSubTimer' \subseteq Entities
        /\ setTimer' \subseteq Entities /\ entity' \in Entities \cup {NoEntity}
        /\ pc' \in {"idle", "actor", "set", "entity", "list", "handler"} /\ back' \in {"idle", "set"}
    BY DEF TypeOK, Running, Inside, Numbered, Times, Handlers, NoTimers, AddTimer, Program, Owned, PushBack, objects, maps, args, history
  <2> QED
    BY <2>1, <2>2, <2>3, <2>4, <2>5, <2>6, <2>7 DEF TypeOK
<1>2. Numbered'
  BY DEF Numbered, TypeOK, AddTimer, Program, Owned, PushBack, objects, maps, args, history
<1>3. NoUseAfterFree'
  BY DEF NoUseAfterFree, Running, Inside, TypeOK, AddTimer, Program, Owned, PushBack, objects, maps, args, history
<1>4. Running'
  BY DEF Running, NoUseAfterFree, Inside, TypeOK, AddTimer, Program, Owned, PushBack, objects, maps, args, history
<1>5. Alone'
  BY DEF Alone, Inside, AddTimer, Program, Owned, PushBack, objects, maps, args, history
<1>6. FreedEmpty'
  BY DEF FreedEmpty, NoUseAfterFree, Running, Inside, TypeOK, NoTimers, AddTimer, Program, Owned, PushBack, objects, maps, args, history
<1> QED
  BY <1>1, <1>2, <1>3, <1>4, <1>5, <1>6

\* Clear empties the map of an entity.
LEMMA ClearInv == ASSUME TimerInv, NEW e \in Entities, Clear(e) PROVE TimerInv'
<1> USE DEF TimerInv
<1>1. TypeOK'
  <2>1. now' \in Times /\ iNowMS' \in Times
    BY DEF TypeOK, Running, Inside, Numbered, Times, Handlers, NoTimers, Clear, Program, Owned, UnRegistSubTimer, objects, maps, args, history
  <2>2. timer' \in [Entities -> [Times -> Seq(Handlers)]]
    BY DEF TypeOK, Running, Inside, Numbered, Times, Handlers, NoTimers, Clear, Program, Owned, UnRegistSubTimer, objects, maps, args, history
  <2>3. actorTimer' \in [Times -> SUBSET Entities]
    BY DEF TypeOK, Running, Inside, Numbered, Times, Handlers, NoTimers, Clear, Program, Owned, UnRegistSubTimer, objects, maps, args, history
  <2>4. added' \in Seq([entity : Entities, time : Times]) /\ gone' \subseteq Handlers
    <3>1. added' = added /\ gone' = gone \cup (Pending(e) \ Taken)
      BY DEF Clear, objects
    <3>2. added \in Seq([entity : Entities, time : Times]) /\ gone \subseteq Handlers
      BY DEF TypeOK
    <3>3. DOMAIN added \subseteq Handlers
      BY <3>2 DEF Numbered, Handlers
    <3> QED
      BY <3>1, <3>2, <3>3 DEF Pending
  <2>5. bDelete' \in [Entities -> BOOLEAN] /\ bHandleing' \in [Entities -> BOOLEAN]
    BY DEF TypeOK, Running, Inside, Numbered, Times, Handlers, NoTimers, Clear, Program, Owned, UnRegistSubTimer, objects, maps, args, history
  <2>6. listHandle' \in Seq(Handlers) /\ begun' \in Seq(Handlers)
    BY DEF TypeOK, Running, Inside, Numbered, Times, Handlers, NoTimers, Clear, Program, Owned, UnRegistSubTimer, objects, maps, args, history
  <2>7. /\ allocated' \subseteq Entities /\ setSubTimer' \subseteq Entities
        /\ setTimer' \subseteq Entities /\ entity' \in Entities \cup {NoEntity}
        /\ pc' \in {"idle", "actor", "set", "entity", "list", "handler"} /\ back' \in {"idle", "set"}
    BY DEF TypeOK, Running, Inside, Numbered, Times, Handlers, NoTimers, Clear, Program, Owned, UnRegistSubTimer, objects, maps, args, history
  <2> QED
    BY <2>1, <2>2, <2>3, <2>4, <2>5, <2>6, <2>7 DEF TypeOK
<1>2. Numbered'
  BY DEF Numbered, TypeOK, Clear, Program, Owned, UnRegistSubTimer, objects, maps, args, history
<1>3. NoUseAfterFree'
  BY DEF NoUseAfterFree, Running, Inside, TypeOK, Clear, Program, Owned, UnRegistSubTimer, objects, maps, args, history
<1>4. Running'
  BY DEF Running, NoUseAfterFree, Inside, TypeOK, Clear, Program, Owned, UnRegistSubTimer, objects, maps, args, history
<1>5. Alone'
  BY DEF Alone, Inside, Clear, Program, Owned, UnRegistSubTimer, objects, maps, args, history
<1>6. FreedEmpty'
  BY DEF FreedEmpty, NoUseAfterFree, Running, Inside, TypeOK, NoTimers, Clear, Program, Owned, UnRegistSubTimer, objects, maps, args, history
<1> QED
  BY <1>1, <1>2, <1>3, <1>4, <1>5, <1>6

\* ~SubTimer frees the entity, or marks it when m_bHandleing is set.
LEMMA DeleteInv == ASSUME TimerInv, NEW e \in Entities, Delete(e) PROVE TimerInv'
<1> USE DEF TimerInv
<1>1. TypeOK'
  <2>1. now' \in Times /\ iNowMS' \in Times
    BY DEF TypeOK, Running, Inside, Numbered, Times, Handlers, NoTimers, Delete, Program, Owned, InUse, Free, UnRegistSubTimer, objects, maps, args, history
  <2>2. timer' \in [Entities -> [Times -> Seq(Handlers)]]
    BY FreeType DEF Delete, maps, TypeOK
  <2>3. actorTimer' \in [Times -> SUBSET Entities]
    BY DEF TypeOK, Running, Inside, Numbered, Times, Handlers, NoTimers, Delete, Program, Owned, InUse, Free, UnRegistSubTimer, objects, maps, args, history
  <2>4. added' \in Seq([entity : Entities, time : Times]) /\ gone' \subseteq Handlers
    <3>1. added' = added /\ gone' = gone \cup {h \in DOMAIN added : added[h].entity = e}
      BY DEF Delete
    <3>2. DOMAIN added \subseteq Handlers
      <4>1. DOMAIN added = 1 .. Len(added) /\ Len(added) \in Nat
        BY DEF TypeOK
      <4> QED
        BY <4>1 DEF Numbered, Handlers
    <3> QED
      BY <3>1, <3>2 DEF TypeOK
  <2>5. bDelete' \in [Entities -> BOOLEAN] /\ bHandleing' \in [Entities -> BOOLEAN]
    BY DEF TypeOK, Running, Inside, Numbered, Times, Handlers, NoTimers, Delete, Program, Owned, InUse, Free, UnRegistSubTimer, objects, maps, args, history
  <2>6. listHandle' \in Seq(Handlers) /\ begun' \in Seq(Handlers)
    BY DEF TypeOK, Running, Inside, Numbered, Times, Handlers, NoTimers, Delete, Program, Owned, InUse, Free, UnRegistSubTimer, objects, maps, args, history
  <2>7. /\ allocated' \subseteq Entities /\ setSubTimer' \subseteq Entities
        /\ setTimer' \subseteq Entities /\ entity' \in Entities \cup {NoEntity}
        /\ pc' \in {"idle", "actor", "set", "entity", "list", "handler"} /\ back' \in {"idle", "set"}
    BY DEF TypeOK, Running, Inside, Numbered, Times, Handlers, NoTimers, Delete, Program, Owned, InUse, Free, UnRegistSubTimer, objects, maps, args, history
  <2> QED
    BY <2>1, <2>2, <2>3, <2>4, <2>5, <2>6, <2>7 DEF TypeOK
<1>2. Numbered'
  BY DEF Numbered, TypeOK, Delete, Program, Owned, InUse, Free, UnRegistSubTimer, objects, maps, args, history
<1>3. NoUseAfterFree'
  <2>1. CASE InUse(e)
    BY <2>1 DEF NoUseAfterFree, Delete, Program, Owned, maps
  <2>2. CASE ~InUse(e)
    <3>1. Free(e) /\ pc' = pc /\ entity' = entity
      BY <2>2 DEF Delete, Program
    <3>2. pc \in {"entity", "list", "handler"} => entity # e
      BY <2>2 DEF InUse, Running, Inside
    <3> QED
      BY <3>1, <3>2, FreeType DEF NoUseAfterFree
  <2> QED
    BY <2>1, <2>2
<1>4. Running'
  BY DEF Running, NoUseAfterFree, Inside, TypeOK, Delete, Program, Owned, InUse, Free, UnRegistSubTimer, objects, maps, args, history
<1>5. Alone'
  BY DEF Alone, Inside, Delete, Program, Owned, InUse, Free, UnRegistSubTimer, objects, maps, args, history
<1>6. FreedEmpty'
  BY DEF FreedEmpty, NoUseAfterFree, Running, Inside, TypeOK, NoTimers, Delete, Program, Owned, InUse, Free, UnRegistSubTimer, objects, maps, args, history
<1> QED
  BY <1>1, <1>2, <1>3, <1>4, <1>5, <1>6

\* OnTimer of ActorTimer begins.
LEMMA OnTimerInv == ASSUME TimerInv, OnTimer PROVE TimerInv'
<1> USE DEF TimerInv
<1>1. TypeOK'
  BY DEF TypeOK, Running, Inside, Numbered, Times, Handlers, NoTimers, OnTimer, Argument, objects, maps, args, history
<1>2. Numbered'
  BY DEF Numbered, TypeOK, OnTimer, Argument, objects, maps, args, history
<1>3. NoUseAfterFree'
  BY DEF NoUseAfterFree, Running, Inside, TypeOK, OnTimer, Argument, objects, maps, args, history
<1>4. Running'
  BY DEF Running, NoUseAfterFree, Inside, TypeOK, OnTimer, Argument, objects, maps, args, history
<1>5. Alone'
  BY DEF Alone, Inside, OnTimer, Argument, objects, maps, args, history
<1>6. FreedEmpty'
  BY DEF FreedEmpty, NoUseAfterFree, Running, Inside, TypeOK, NoTimers, OnTimer, Argument, objects, maps, args, history
<1> QED
  BY <1>1, <1>2, <1>3, <1>4, <1>5, <1>6

\* The set of the first time leaves the map for the loop.
LEMMA TakeSetInv == ASSUME TimerInv, TakeSet PROVE TimerInv'
<1> USE DEF TimerInv
<1>1. TypeOK'
  BY DEF TypeOK, Running, Inside, Numbered, Times, Handlers, NoTimers, TakeSet, ActorTimes, First, objects, maps, args, history
<1>2. Numbered'
  BY DEF Numbered, TypeOK, TakeSet, ActorTimes, First, objects, maps, args, history
<1>3. NoUseAfterFree'
  BY DEF NoUseAfterFree, Running, Inside, TypeOK, TakeSet, ActorTimes, First, objects, maps, args, history
<1>4. Running'
  BY DEF Running, NoUseAfterFree, Inside, TypeOK, TakeSet, ActorTimes, First, objects, maps, args, history
<1>5. Alone'
  BY DEF Alone, Inside, TakeSet, ActorTimes, First, objects, maps, args, history
<1>6. FreedEmpty'
  BY DEF FreedEmpty, NoUseAfterFree, Running, Inside, TypeOK, NoTimers, TakeSet, ActorTimes, First, objects, maps, args, history
<1> QED
  BY <1>1, <1>2, <1>3, <1>4, <1>5, <1>6

\* OnTimer of ActorTimer ends.
LEMMA OnTimerReturnInv == ASSUME TimerInv, OnTimerReturn PROVE TimerInv'
<1> USE DEF TimerInv
<1>1. TypeOK'
  BY DEF TypeOK, Running, Inside, Numbered, Times, Handlers, NoTimers, OnTimerReturn, ActorTimes, objects, maps, args, history
<1>2. Numbered'
  BY DEF Numbered, TypeOK, OnTimerReturn, ActorTimes, objects, maps, args, history
<1>3. NoUseAfterFree'
  BY DEF NoUseAfterFree, Running, Inside, TypeOK, OnTimerReturn, ActorTimes, objects, maps, args, history
<1>4. Running'
  BY DEF Running, NoUseAfterFree, Inside, TypeOK, OnTimerReturn, ActorTimes, objects, maps, args, history
<1>5. Alone'
  BY DEF Alone, Inside, OnTimerReturn, ActorTimes, objects, maps, args, history
<1>6. FreedEmpty'
  BY DEF FreedEmpty, NoUseAfterFree, Running, Inside, TypeOK, NoTimers, OnTimerReturn, ActorTimes, objects, maps, args, history
<1> QED
  BY <1>1, <1>2, <1>3, <1>4, <1>5, <1>6

\* The loop takes an entity out of its set, and runs it if it is still alive.
LEMMA NextOfSetInv == ASSUME TimerInv, NEW e \in Entities, NextOfSet(e) PROVE TimerInv'
<1> USE DEF TimerInv
<1>1. TypeOK'
  BY DEF TypeOK, Running, Inside, Numbered, Times, Handlers, NoTimers, NextOfSet, Enter, objects, maps, args, history
<1>2. Numbered'
  BY DEF Numbered, TypeOK, NextOfSet, Enter, objects, maps, args, history
<1>3. NoUseAfterFree'
  BY DEF NoUseAfterFree, Running, Inside, TypeOK, NextOfSet, Enter, objects, maps, args, history
<1>4. Running'
  BY DEF Running, NoUseAfterFree, Inside, TypeOK, NextOfSet, Enter, objects, maps, args, history
<1>5. Alone'
  BY DEF Alone, Inside, NextOfSet, Enter, objects, maps, args, history
<1>6. FreedEmpty'
  BY DEF FreedEmpty, NoUseAfterFree, Running, Inside, TypeOK, NoTimers, NextOfSet, Enter, objects, maps, args, history
<1> QED
  BY <1>1, <1>2, <1>3, <1>4, <1>5, <1>6

\* The loop over a set ends.
LEMMA SetDoneInv == ASSUME TimerInv, SetDone PROVE TimerInv'
<1> USE DEF TimerInv
<1>1. TypeOK'
  BY DEF TypeOK, Running, Inside, Numbered, Times, Handlers, NoTimers, SetDone, objects, maps, args, history
<1>2. Numbered'
  BY DEF Numbered, TypeOK, SetDone, objects, maps, args, history
<1>3. NoUseAfterFree'
  BY DEF NoUseAfterFree, Running, Inside, TypeOK, SetDone, objects, maps, args, history
<1>4. Running'
  BY DEF Running, NoUseAfterFree, Inside, TypeOK, SetDone, objects, maps, args, history
<1>5. Alone'
  BY DEF Alone, Inside, SetDone, objects, maps, args, history
<1>6. FreedEmpty'
  BY DEF FreedEmpty, NoUseAfterFree, Running, Inside, TypeOK, NoTimers, SetDone, objects, maps, args, history
<1> QED
  BY <1>1, <1>2, <1>3, <1>4, <1>5, <1>6

\* SubTimer::OnTimer runs its entity: m_bHandleing is set.
LEMMA SubTimerOnTimerInv == ASSUME TimerInv, NEW e \in Entities, SubTimerOnTimer(e) PROVE TimerInv'
<1> USE DEF TimerInv
<1>1. TypeOK'
  BY DEF TypeOK, Running, Inside, Numbered, Times, Handlers, NoTimers, SubTimerOnTimer, Owned, Enter, objects, maps, args, history
<1>2. Numbered'
  BY DEF Numbered, TypeOK, SubTimerOnTimer, Owned, Enter, objects, maps, args, history
<1>3. NoUseAfterFree'
  BY DEF NoUseAfterFree, Running, Inside, TypeOK, SubTimerOnTimer, Owned, Enter, objects, maps, args, history
<1>4. Running'
  BY DEF Running, NoUseAfterFree, Inside, TypeOK, SubTimerOnTimer, Owned, Enter, objects, maps, args, history
<1>5. Alone'
  BY DEF Alone, Inside, SubTimerOnTimer, Owned, Enter, objects, maps, args, history
<1>6. FreedEmpty'
  BY DEF FreedEmpty, NoUseAfterFree, Running, Inside, TypeOK, NoTimers, SubTimerOnTimer, Owned, Enter, objects, maps, args, history
<1> QED
  BY <1>1, <1>2, <1>3, <1>4, <1>5, <1>6

\* The list of the first time leaves the map for the loop.
LEMMA TakeListInv == ASSUME TimerInv, TakeList PROVE TimerInv'
<1> USE DEF TimerInv
<1>1. TypeOK'
  BY DEF TypeOK, Running, Inside, Numbered, Times, Handlers, NoTimers, TakeList, TimesOf, First, objects, maps, args, history
<1>2. Numbered'
  BY DEF Numbered, TypeOK, TakeList, TimesOf, First, objects, maps, args, history
<1>3. NoUseAfterFree'
  BY DEF NoUseAfterFree, Running, Inside, TypeOK, TakeList, TimesOf, First, objects, maps, args, history
<1>4. Running'
  BY DEF Running, NoUseAfterFree, Inside, TypeOK, TakeList, TimesOf, First, objects, maps, args, history
<1>5. Alone'
  BY DEF Alone, Inside, TakeList, TimesOf, First, objects, maps, args, history
<1>6. FreedEmpty'
  BY DEF FreedEmpty, NoUseAfterFree, Running, Inside, TypeOK, NoTimers, TakeList, TimesOf, First, objects, maps, args, history
<1> QED
  BY <1>1, <1>2, <1>3, <1>4, <1>5, <1>6

\* The return inside the loop leaves m_bHandleing set.
LEMMA EarlyReturnInv == ASSUME TimerInv, EarlyReturn PROVE TimerInv'
<1> USE DEF TimerInv
<1>1. TypeOK'
  BY DEF TypeOK, Running, Inside, Numbered, Times, Handlers, NoTimers, EarlyReturn, TimesOf, First, Later, objects, maps, args, history
<1>2. Numbered'
  BY DEF Numbered, TypeOK, EarlyReturn, TimesOf, First, Later, objects, maps, args, history
<1>3. NoUseAfterFree'
  BY DEF NoUseAfterFree, Running, Inside, TypeOK, EarlyReturn, TimesOf, First, Later, objects, maps, args, history
<1>4. Running'
  BY DEF Running, NoUseAfterFree, Inside, TypeOK, EarlyReturn, TimesOf, First, Later, objects, maps, args, history
<1>5. Alone'
  BY DEF Alone, Inside, EarlyReturn, TimesOf, First, Later, objects, maps, args, history
<1>6. FreedEmpty'
  BY DEF FreedEmpty, NoUseAfterFree, Running, Inside, TypeOK, NoTimers, EarlyReturn, TimesOf, First, Later, objects, maps, args, history
<1> QED
  BY <1>1, <1>2, <1>3, <1>4, <1>5, <1>6

\* OnTimer of SubTimerEntity ends and frees an entity that is marked.
LEMMA ReturnInv == ASSUME TimerInv, Return PROVE TimerInv'
<1> USE DEF TimerInv
<1>1. TypeOK'
  <2>1. now' \in Times /\ iNowMS' \in Times
    BY DEF TypeOK, Running, Inside, Numbered, Times, Handlers, NoTimers, Return, Free, UnRegistSubTimer, TimesOf, objects, maps, args, history
  <2>2. timer' \in [Entities -> [Times -> Seq(Handlers)]]
    BY FreeType DEF Return, maps, TypeOK, Running, Inside
  <2>3. actorTimer' \in [Times -> SUBSET Entities]
    BY DEF TypeOK, Running, Inside, Numbered, Times, Handlers, NoTimers, Return, Free, UnRegistSubTimer, TimesOf, objects, maps, args, history
  <2>4. added' \in Seq([entity : Entities, time : Times]) /\ gone' \subseteq Handlers
    BY DEF TypeOK, Running, Inside, Numbered, Times, Handlers, NoTimers, Return, Free, UnRegistSubTimer, TimesOf, objects, maps, args, history
  <2>5. bDelete' \in [Entities -> BOOLEAN] /\ bHandleing' \in [Entities -> BOOLEAN]
    BY DEF TypeOK, Running, Inside, Numbered, Times, Handlers, NoTimers, Return, Free, UnRegistSubTimer, TimesOf, objects, maps, args, history
  <2>6. listHandle' \in Seq(Handlers) /\ begun' \in Seq(Handlers)
    BY DEF TypeOK, Running, Inside, Numbered, Times, Handlers, NoTimers, Return, Free, UnRegistSubTimer, TimesOf, objects, maps, args, history
  <2>7. /\ allocated' \subseteq Entities /\ setSubTimer' \subseteq Entities
        /\ setTimer' \subseteq Entities /\ entity' \in Entities \cup {NoEntity}
        /\ pc' \in {"idle", "actor", "set", "entity", "list", "handler"} /\ back' \in {"idle", "set"}
    BY DEF TypeOK, Running, Inside, Numbered, Times, Handlers, NoTimers, Return, Free, UnRegistSubTimer, TimesOf, objects, maps, args, history
  <2> QED
    BY <2>1, <2>2, <2>3, <2>4, <2>5, <2>6, <2>7 DEF TypeOK
<1>2. Numbered'
  BY DEF Numbered, TypeOK, Return, Free, UnRegistSubTimer, TimesOf, objects, maps, args, history
<1>3. NoUseAfterFree'
  <2>1. pc' \in {"idle", "set"} /\ entity \in Entities
    BY DEF Return, TypeOK, Running, Inside
  <2>2. CASE bDelete[entity]
    BY <2>1, <2>2, FreeType DEF NoUseAfterFree, Return
  <2>3. CASE ~bDelete[entity]
    BY <2>1, <2>3 DEF NoUseAfterFree, Return, maps
  <2> QED
    BY <2>2, <2>3
<1>4. Running'
  BY DEF Running, NoUseAfterFree, Inside, TypeOK, Return, Free, UnRegistSubTimer, TimesOf, objects, maps, args, history
<1>5. Alone'
  BY DEF Alone, Inside, Return, Free, UnRegistSubTimer, TimesOf, objects, maps, args, history
<1>6. FreedEmpty'
  BY DEF FreedEmpty, NoUseAfterFree, Running, Inside, TypeOK, NoTimers, Return, Free, UnRegistSubTimer, TimesOf, objects, maps, args, history
<1> QED
  BY <1>1, <1>2, <1>3, <1>4, <1>5, <1>6

\* The head of the list is called.
LEMMA CallInv == ASSUME TimerInv, Call PROVE TimerInv'
<1> USE DEF TimerInv
<1>1. TypeOK'
  BY DEF TypeOK, Running, Inside, Numbered, Times, Handlers, NoTimers, Call, Stops, objects, maps, args, history
<1>2. Numbered'
  BY DEF Numbered, TypeOK, Call, Stops, objects, maps, args, history
<1>3. NoUseAfterFree'
  BY DEF NoUseAfterFree, Running, Inside, TypeOK, Call, Stops, objects, maps, args, history
<1>4. Running'
  BY DEF Running, NoUseAfterFree, Inside, TypeOK, Call, Stops, objects, maps, args, history
<1>5. Alone'
  BY DEF Alone, Inside, Call, Stops, objects, maps, args, history
<1>6. FreedEmpty'
  BY DEF FreedEmpty, NoUseAfterFree, Running, Inside, TypeOK, NoTimers, Call, Stops, objects, maps, args, history
<1> QED
  BY <1>1, <1>2, <1>3, <1>4, <1>5, <1>6

\* A handler returns.
LEMMA HandlerReturnInv == ASSUME TimerInv, HandlerReturn PROVE TimerInv'
<1> USE DEF TimerInv
<1>1. TypeOK'
  <2>1. now' \in Times /\ iNowMS' \in Times
    BY DEF TypeOK, Running, Inside, Numbered, Times, Handlers, NoTimers, HandlerReturn, objects, maps, args, history
  <2>2. timer' \in [Entities -> [Times -> Seq(Handlers)]]
    BY DEF TypeOK, Running, Inside, Numbered, Times, Handlers, NoTimers, HandlerReturn, objects, maps, args, history
  <2>3. actorTimer' \in [Times -> SUBSET Entities]
    BY DEF TypeOK, Running, Inside, Numbered, Times, Handlers, NoTimers, HandlerReturn, objects, maps, args, history
  <2>4. added' \in Seq([entity : Entities, time : Times]) /\ gone' \subseteq Handlers
    BY DEF TypeOK, Running, Inside, Numbered, Times, Handlers, NoTimers, HandlerReturn, objects, maps, args, history
  <2>5. bDelete' \in [Entities -> BOOLEAN] /\ bHandleing' \in [Entities -> BOOLEAN]
    BY DEF TypeOK, Running, Inside, Numbered, Times, Handlers, NoTimers, HandlerReturn, objects, maps, args, history
  <2>6. listHandle' \in Seq(Handlers) /\ begun' \in Seq(Handlers)
    BY DEF TypeOK, Running, Inside, Numbered, Times, Handlers, NoTimers, HandlerReturn, objects, maps, args, history
  <2>7. /\ allocated' \subseteq Entities /\ setSubTimer' \subseteq Entities
        /\ setTimer' \subseteq Entities /\ entity' \in Entities \cup {NoEntity}
        /\ pc' \in {"idle", "actor", "set", "entity", "list", "handler"} /\ back' \in {"idle", "set"}
    BY DEF TypeOK, Running, Inside, Numbered, Times, Handlers, NoTimers, HandlerReturn, objects, maps, args, history
  <2> QED
    BY <2>1, <2>2, <2>3, <2>4, <2>5, <2>6, <2>7 DEF TypeOK
<1>2. Numbered'
  BY DEF Numbered, TypeOK, HandlerReturn, objects, maps, args, history
<1>3. NoUseAfterFree'
  BY DEF NoUseAfterFree, Running, Inside, TypeOK, HandlerReturn, objects, maps, args, history
<1>4. Running'
  BY DEF Running, NoUseAfterFree, Inside, TypeOK, HandlerReturn, objects, maps, args, history
<1>5. Alone'
  BY DEF Alone, Inside, HandlerReturn, objects, maps, args, history
<1>6. FreedEmpty'
  BY DEF FreedEmpty, NoUseAfterFree, Running, Inside, TypeOK, NoTimers, HandlerReturn, objects, maps, args, history
<1> QED
  BY <1>1, <1>2, <1>3, <1>4, <1>5, <1>6

\* The loop over a list ends.
LEMMA ListDoneInv == ASSUME TimerInv, ListDone PROVE TimerInv'
<1> USE DEF TimerInv
<1>1. TypeOK'
  <2>1. listHandle' = <<>> /\ pc' = "entity"
        /\ UNCHANGED <<now, allocated, bDelete, setSubTimer, actorTimer, timer, bHandleing, setTimer,
                      iNowMS, back, entity, added, gone, begun>>
    BY DEF ListDone, objects, maps, args, history
  <2>2. listHandle' \in Seq(Handlers)
    BY <2>1
  <2> QED
    BY <2>1, <2>2 DEF TypeOK, Times, Handlers
<1>2. Numbered'
  BY DEF Numbered, TypeOK, ListDone, Stops, objects, maps, args, history
<1>3. NoUseAfterFree'
  BY DEF NoUseAfterFree, Running, Inside, TypeOK, ListDone, Stops, objects, maps, args, history
<1>4. Running'
  BY DEF Running, NoUseAfterFree, Inside, TypeOK, ListDone, Stops, objects, maps, args, history
<1>5. Alone'
  BY DEF Alone, Inside, ListDone, Stops, objects, maps, args, history
<1>6. FreedEmpty'
  BY DEF FreedEmpty, NoUseAfterFree, Running, Inside, TypeOK, NoTimers, ListDone, Stops, objects, maps, args, history
<1> QED
  BY <1>1, <1>2, <1>3, <1>4, <1>5, <1>6

\* Every step keeps the invariant.
LEMMA StepInv == ASSUME TimerInv, [Next]_vars PROVE TimerInv'
<1>1. CASE UNCHANGED vars
  BY <1>1 DEF TimerInv, TypeOK, Numbered, NoUseAfterFree, Running, Alone, FreedEmpty, Inside, vars, objects, maps, args, history
<1>2. CASE Tick \/ OnTimer
  BY <1>2, TickInv, OnTimerInv
<1>3. CASE Run
  <2>1. CASE TakeSet \/ OnTimerReturn \/ SetDone \/ \E e \in Entities : NextOfSet(e)
    BY <2>1, TakeSetInv, OnTimerReturnInv, SetDoneInv, NextOfSetInv
  <2>2. CASE TakeList \/ EarlyReturn \/ Return
    BY <2>2, TakeListInv, EarlyReturnInv, ReturnInv
  <2>3. CASE Call \/ HandlerReturn \/ ListDone
    BY <2>3, CallInv, HandlerReturnInv, ListDoneInv
  <2> QED
    BY <1>3, <2>1, <2>2, <2>3 DEF Run
<1>4. ASSUME NEW e \in Entities, Create(e) \/ Clear(e) \/ Delete(e) \/ SubTimerOnTimer(e) PROVE TimerInv'
  BY <1>4, CreateInv, ClearInv, DeleteInv, SubTimerOnTimerInv
<1>5. ASSUME NEW e \in Entities, NEW t \in Times, AddTimer(e, t) PROVE TimerInv'
  BY <1>5, AddTimerInv
<1> QED
  BY <1>1, <1>2, <1>3, <1>4, <1>5 DEF Next

\* The inductive invariant (TimeUtils.cpp:112-248).
THEOREM TimerInvariance == Spec => []TimerInv
<1>1. Init => TimerInv
  BY InitInv
<1>2. TimerInv /\ [Next]_vars => TimerInv'
  BY StepInv
<1> QED
  BY <1>1, <1>2, PTL DEF Spec

\* Every variable keeps its type (TimeUtils.cpp:180, TimeUtils.h:47).
THEOREM TimerTypes == Spec => []TypeOK
<1>1. TimerInv => TypeOK
  BY DEF TimerInv
<1> QED
  BY <1>1, TimerInvariance, PTL

\* OnTimer works on entities that are not freed, and neither map keeps one that
\* is (TimeUtils.cpp:160, 233).
THEOREM UseCorrect == Spec => []NoUseAfterFree
<1>1. TimerInv => NoUseAfterFree
  BY DEF TimerInv
<1> QED
  BY <1>1, TimerInvariance, PTL

-----------------------------------------------------------------------------
(* Registration for the first time.                                        *)

\* AddTimer registers the entity for the first of its timers.
LEMMA AddTimerRegistered ==
    ASSUME TimerInv, FirstRegistered, NEW e \in Entities, NEW u \in Times, AddTimer(e, u)
    PROVE  FirstRegistered'
<1> SUFFICES ASSUME NEW f \in allocated', NEW t \in Times, First(TimesOf(f)', t),
                    t \in TimesOf(f)', \A w \in TimesOf(f)' : t <= w
             PROVE  f \in actorTimer'[t] \/ f \in setTimer' \/ bHandleing'[f]
  BY DEF FirstRegistered, First
<1>1. f \in Entities /\ f \in allocated
  BY DEF TimerInv, TypeOK, AddTimer, objects
<1>2. /\ actorTimer \in [Times -> SUBSET Entities]
      /\ timer \in [Entities -> [Times -> Seq(Handlers)]]
      /\ Len(added) \in Nat
  BY DEF TimerInv, TypeOK
<1>3. timer' = [timer EXCEPT ![e][u] = Append(timer[e][u], Len(added) + 1)]
  BY DEF AddTimer, PushBack
<1>4. setTimer' = setTimer /\ bHandleing' = bHandleing
  BY DEF AddTimer, Program, args
<1>5. actorTimer[t] \subseteq actorTimer'[t]
  BY <1>2 DEF AddTimer
<1>6. CASE f # e
  <2>1. TimesOf(f)' = TimesOf(f)
    BY <1>1, <1>2, <1>3, <1>6 DEF TimesOf
  <2> QED
    BY <1>1, <1>4, <1>5, <2>1 DEF FirstRegistered, First
<1>7. CASE f = e
  <2>1. TimesOf(f)' = TimesOf(f) \cup {u}
    <3>1. timer'[f][u] # <<>> /\ \A w \in Times : w # u => timer'[f][w] = timer[f][w]
      <4>1. timer[e][u] \in Seq(Handlers)
        BY <1>2
      <4>2. Append(timer[e][u], Len(added) + 1) # <<>>
        BY <4>1
      <4>3. timer'[e] = [timer[e] EXCEPT ![u] = Append(timer[e][u], Len(added) + 1)]
        BY <1>2, <1>3
      <4> QED
        BY <1>2, <1>7, <4>2, <4>3
    <3> QED
      BY <3>1 DEF TimesOf
  <2>2. CASE t \in TimesOf(f)
    BY <1>1, <1>4, <1>5, <2>1, <2>2 DEF FirstRegistered, First
  <2>3. CASE t \notin TimesOf(f)
    <3>1. t = u
      BY <2>1, <2>3
    <3>2. IsEarliest(e, u)
      BY <1>7, <2>1, <2>3, <3>1 DEF IsEarliest, TimesOf, Times
    <3> QED
      BY <1>2, <1>7, <3>1, <3>2 DEF AddTimer
  <2> QED
    BY <2>2, <2>3
<1> QED
  BY <1>6, <1>7

\* Free keeps FirstRegistered.
LEMMA FreeRegistered ==
    ASSUME TimerInv, FirstRegistered, NEW e \in Entities, Free(e),
           setTimer' = setTimer, \A f \in Entities \ {e} : bHandleing'[f] = bHandleing[f]
    PROVE  FirstRegistered'
<1> SUFFICES ASSUME NEW f \in allocated', NEW t \in Times, First(TimesOf(f)', t)
             PROVE  f \in actorTimer'[t] \/ f \in setTimer' \/ bHandleing'[f]
  BY DEF FirstRegistered, First
<1>1. f \in allocated /\ f # e /\ f \in Entities
  BY DEF Free, TimerInv, TypeOK
<1>2. TimesOf(f)' = TimesOf(f)
  BY <1>1 DEF Free, TimesOf, TimerInv, TypeOK
<1>3. actorTimer'[t] = actorTimer[t] \ {e}
  BY DEF Free, UnRegistSubTimer
<1> QED
  BY <1>1, <1>2, <1>3 DEF FirstRegistered

\* Every step keeps FirstRegistered.
LEMMA RegisteredStep == ASSUME TimerInv, FirstRegistered, [Next]_vars PROVE FirstRegistered'
<1> USE DEF TimerInv
<1>1. ASSUME UNCHANGED <<allocated, maps, setTimer, bHandleing>> PROVE FirstRegistered'
  BY <1>1 DEF FirstRegistered, First, TimesOf, maps
<1>2. CASE UNCHANGED vars \/ Tick \/ OnTimer \/ OnTimerReturn \/ SetDone
  BY <1>1, <1>2 DEF vars, Tick, OnTimer, OnTimerReturn, SetDone, objects, args
<1>3. CASE EarlyReturn \/ Call \/ HandlerReturn \/ ListDone
  BY <1>1, <1>3 DEF EarlyReturn, Call, HandlerReturn, ListDone, objects, args
<1>4. ASSUME NEW e \in Entities, Create(e) PROVE FirstRegistered'
  <2> SUFFICES ASSUME NEW f \in allocated', NEW t \in Times, First(TimesOf(f)', t)
               PROVE  f \in actorTimer'[t] \/ f \in setTimer' \/ bHandleing'[f]
    BY DEF FirstRegistered
  <2>1. TimesOf(f)' = TimesOf(f) /\ t \in TimesOf(f)
    BY <1>4 DEF Create, maps, TimesOf, First
  <2>2. f # e
    BY <1>4, <2>1 DEF Create, FreedEmpty, TimesOf, NoTimers
  <2> QED
    BY <1>4, <2>1, <2>2 DEF FirstRegistered, Create, Program, maps, args, TypeOK
<1>5. ASSUME NEW e \in Entities, NEW t \in Times, AddTimer(e, t) PROVE FirstRegistered'
  BY <1>5, AddTimerRegistered
<1>6. ASSUME NEW e \in Entities, Clear(e) PROVE FirstRegistered'
  <2> SUFFICES ASSUME NEW f \in allocated', NEW t \in Times, First(TimesOf(f)', t)
               PROVE  f \in actorTimer'[t] \/ f \in setTimer' \/ bHandleing'[f]
    BY DEF FirstRegistered
  <2>1. f \in Entities /\ f \in allocated /\ bHandleing' = bHandleing /\ setTimer' = setTimer
    BY <1>6 DEF Clear, Program, objects, args, TypeOK
  <2>2. f # e
    BY <1>6 DEF Clear, TimesOf, First, NoTimers, TypeOK
  <2>3. TimesOf(f)' = TimesOf(f) /\ actorTimer'[t] = actorTimer[t] \ {e}
    BY <1>6, <2>1, <2>2 DEF Clear, TimesOf, UnRegistSubTimer, TypeOK
  <2> QED
    BY <2>1, <2>2, <2>3 DEF FirstRegistered
<1>7. ASSUME NEW e \in Entities, Delete(e) PROVE FirstRegistered'
  <2>1. CASE InUse(e)
    BY <1>1, <1>7, <2>1 DEF Delete, Program, args
  <2>2. CASE ~InUse(e)
    BY <1>7, <2>2, FreeRegistered DEF Delete, Program, args
  <2> QED
    BY <2>1, <2>2
<1>8. ASSUME NEW e \in Entities, SubTimerOnTimer(e) PROVE FirstRegistered'
  BY <1>8 DEF SubTimerOnTimer, Enter, FirstRegistered, First, TimesOf, maps, objects, TypeOK
<1>9. CASE TakeSet
  <2>1. setTimer = {}
    BY <1>9 DEF TakeSet, Alone, Inside
  <2>2. PICK u \in Times : setTimer' = actorTimer[u] /\ actorTimer' = [actorTimer EXCEPT ![u] = {}]
    BY <1>9 DEF TakeSet
  <2> QED
    BY <1>9, <2>1, <2>2 DEF TakeSet, FirstRegistered, First, TimesOf, objects, TypeOK
<1>10. ASSUME NEW e \in Entities, NextOfSet(e) PROVE FirstRegistered'
  BY <1>10 DEF NextOfSet, Enter, FirstRegistered, First, TimesOf, maps, objects, TypeOK, NoUseAfterFree
<1>11. CASE TakeList
  <2> SUFFICES ASSUME NEW f \in allocated', NEW t \in Times, First(TimesOf(f)', t)
               PROVE  f \in actorTimer'[t] \/ f \in setTimer' \/ bHandleing'[f]
    BY DEF FirstRegistered
  <2>1. f \in Entities /\ f \in allocated /\ entity \in Entities
    BY <1>11 DEF TakeList, objects, TypeOK, Running, Inside
  <2>2. CASE f = entity
    BY <1>11, <2>2 DEF TakeList, Running, Inside
  <2>3. CASE f # entity
    <3>1. TimesOf(f)' = TimesOf(f)
      BY <1>11, <2>1, <2>3 DEF TakeList, TimesOf, TypeOK
    <3> QED
      BY <1>11, <2>1, <3>1 DEF TakeList, FirstRegistered, args
  <2> QED
    BY <2>2, <2>3
<1>12. CASE Return
  <2>1. entity \in Entities /\ setTimer' = setTimer /\ bHandleing' = [bHandleing EXCEPT ![entity] = FALSE]
    BY <1>12 DEF Return, Running, Inside, args
  <2>2. \A f \in Entities \ {entity} : bHandleing'[f] = bHandleing[f]
    BY <2>1 DEF TypeOK
  <2>3. CASE Free(entity)
    BY <2>1, <2>2, <2>3, FreeRegistered
  <2>4. CASE TimesOf(entity) = {} /\ UNCHANGED <<allocated, maps>>
    BY <2>1, <2>2, <2>4 DEF FirstRegistered, First, TimesOf, maps, TypeOK
  <2> QED
    BY <1>12, <2>3, <2>4 DEF Return
<1> QED
  BY <1>2, <1>3, <1>4, <1>5, <1>6, <1>7, <1>8, <1>9, <1>10, <1>11, <1>12 DEF Next, Run

\* A SubTimer that has timers is registered for the first of them, or is about to
\* run, unless an earlier run returned in its loop (TimeUtils.cpp:130, 144).
THEOREM RegisteredCorrect == Spec => []FirstRegistered
<1>1. Init => FirstRegistered
  BY DEF Init, FirstRegistered
<1>2. TimerInv /\ FirstRegistered /\ [Next]_vars => FirstRegistered'
  BY RegisteredStep
<1> QED
  BY <1>1, <1>2, TimerInvariance, PTL DEF Spec

-----------------------------------------------------------------------------
(* No handler that is gone is called.                                      *)

Known == gone \subseteq DOMAIN added

\* A handler in a map is filed under its entity and its time, and not gone
\* unless the entity is to be deleted.
Filed ==
    \A e \in Entities, t \in Times : \A k \in DOMAIN timer[e][t] :
        /\ timer[e][t][k] \in DOMAIN added
        /\ added[timer[e][t][k]] = [entity |-> e, time |-> t]
        /\ ~bDelete[e] => timer[e][t][k] \notin gone

\* The list taken out of a map has handlers of that entity, none of which is gone
\* unless the entity is to be deleted.
Listed ==
    pc \in {"list", "handler"} => \A k \in DOMAIN listHandle :
        /\ listHandle[k] \in DOMAIN added
        /\ added[listHandle[k]].entity = entity
        /\ ~bDelete[entity] => listHandle[k] \notin gone

GoneInv == Known /\ Filed /\ Listed

\* A new entity has no handlers.
LEMMA CreateGone == ASSUME TimerInv, GoneInv, NEW e \in Entities, Create(e) PROVE GoneInv'
<1>1. Known'
  BY DEF GoneInv, Known, Create, history
<1>2. Filed'
  <2> SUFFICES ASSUME NEW f \in Entities, NEW t \in Times, NEW k \in DOMAIN timer'[f][t]
               PROVE  /\ timer'[f][t][k] \in DOMAIN added'
                      /\ added'[timer'[f][t][k]] = [entity |-> f, time |-> t]
                      /\ ~bDelete'[f] => timer'[f][t][k] \notin gone'
    BY DEF Filed
  <2>1. timer[e] = NoTimers
    BY DEF TimerInv, FreedEmpty, Create
  <2>2. timer' = timer /\ added' = added /\ gone' = gone /\ \A g \in Entities \ {e} : bDelete'[g] = bDelete[g]
    BY DEF Create, maps, history, TimerInv, TypeOK
  <2>3. f # e
    BY <2>1, <2>2 DEF NoTimers
  <2> QED
    BY <2>2, <2>3 DEF GoneInv, Filed
<1>3. Listed'
  <2>1. pc \in {"list", "handler"} => entity # e /\ entity \in Entities
    BY DEF TimerInv, NoUseAfterFree, Running, Inside, Create
  <2>2. /\ timer' = timer /\ added' = added /\ gone' = gone /\ pc' = pc /\ listHandle' = listHandle /\ entity' = entity
        /\ \A f \in Entities \ {e} : bDelete'[f] = bDelete[f]
    BY DEF Create, Program, maps, history, TimerInv, TypeOK
  <2> QED
    BY <2>1, <2>2 DEF GoneInv, Listed
<1> QED
  BY <1>1, <1>2, <1>3 DEF GoneInv

\* AddTimer brings a new handler.
LEMMA AddTimerGone ==
    ASSUME TimerInv, GoneInv, NEW e \in Entities, NEW u \in Times, AddTimer(e, u)
    PROVE  GoneInv'
<1> DEFINE n == Len(added) + 1
<1>1. /\ added \in Seq([entity : Entities, time : Times]) /\ Len(added) \in Nat
      /\ DOMAIN added = 1 .. Len(added)
      /\ timer \in [Entities -> [Times -> Seq(Handlers)]]
  BY DEF TimerInv, TypeOK
<1>2. /\ added' = Append(added, [entity |-> e, time |-> u])
      /\ timer' = [timer EXCEPT ![e][u] = Append(timer[e][u], n)]
      /\ bDelete' = bDelete /\ gone' = gone
      /\ pc' = pc /\ listHandle' = listHandle /\ entity' = entity
  BY DEF AddTimer, PushBack, objects, Program
<1>3. /\ DOMAIN added' = DOMAIN added \cup {n} /\ n \notin DOMAIN added
      /\ added'[n] = [entity |-> e, time |-> u]
      /\ \A h \in DOMAIN added : added'[h] = added[h]
  BY <1>1, <1>2
<1>4. n \notin gone
  BY <1>3 DEF GoneInv, Known
<1>5. ASSUME NEW f \in Entities, NEW t \in Times, NEW k \in DOMAIN timer'[f][t]
      PROVE  \/ k \in DOMAIN timer[f][t] /\ timer'[f][t][k] = timer[f][t][k]
             \/ f = e /\ t = u /\ timer'[f][t][k] = n
  <2>1. timer[e][u] \in Seq(Handlers)
    BY <1>1
  <2>2. timer'[f][t] = IF f = e /\ t = u THEN Append(timer[e][u], n) ELSE timer[f][t]
    BY <1>1, <1>2
  <2> QED
    BY <2>1, <2>2
<1>6. Known'
  BY <1>2, <1>3 DEF GoneInv, Known
<1>7. Filed'
  <2> SUFFICES ASSUME NEW f \in Entities, NEW t \in Times, NEW k \in DOMAIN timer'[f][t]
               PROVE  /\ timer'[f][t][k] \in DOMAIN added'
                      /\ added'[timer'[f][t][k]] = [entity |-> f, time |-> t]
                      /\ ~bDelete'[f] => timer'[f][t][k] \notin gone'
    BY DEF Filed
  <2> QED
    BY <1>2, <1>3, <1>4, <1>5 DEF GoneInv, Filed
<1>8. Listed'
  <2> SUFFICES ASSUME pc \in {"list", "handler"}, NEW k \in DOMAIN listHandle
               PROVE  /\ listHandle[k] \in DOMAIN added'
                      /\ added'[listHandle[k]].entity = entity
                      /\ ~bDelete[entity] => listHandle[k] \notin gone
    BY <1>2 DEF Listed
  <2>1. /\ listHandle[k] \in DOMAIN added /\ added[listHandle[k]].entity = entity
        /\ ~bDelete[entity] => listHandle[k] \notin gone
    BY DEF GoneInv, Listed
  <2> QED
    BY <1>2, <1>3, <2>1
<1> QED
  BY <1>6, <1>7, <1>8 DEF GoneInv

\* Of the SubTimer that is cleared, no handler is left but in the list of OnTimer.
LEMMA ClearGone == ASSUME TimerInv, GoneInv, NEW e \in Entities, Clear(e) PROVE GoneInv'
<1>1. /\ added' = added /\ bDelete' = bDelete /\ gone' = gone \cup (Pending(e) \ Taken)
      /\ timer' = [timer EXCEPT ![e] = NoTimers]
      /\ pc' = pc /\ listHandle' = listHandle /\ entity' = entity
  BY DEF Clear, objects, Program
<1>2. timer'[e] = NoTimers /\ \A f \in Entities \ {e} : timer'[f] = timer[f]
  BY <1>1 DEF TimerInv, TypeOK
<1>3. \A h \in Pending(e) : h \in DOMAIN added /\ added[h].entity = e
  BY DEF Pending
<1>4. Known'
  BY <1>1, <1>3 DEF GoneInv, Known
<1>5. Filed'
  <2> SUFFICES ASSUME NEW f \in Entities, NEW t \in Times, NEW k \in DOMAIN timer'[f][t]
               PROVE  /\ timer'[f][t][k] \in DOMAIN added
                      /\ added[timer'[f][t][k]] = [entity |-> f, time |-> t]
                      /\ ~bDelete[f] => timer'[f][t][k] \notin gone'
    BY <1>1 DEF Filed
  <2>1. f # e /\ timer'[f] = timer[f]
    BY <1>2 DEF NoTimers
  <2>2. /\ timer[f][t][k] \in DOMAIN added
        /\ added[timer[f][t][k]] = [entity |-> f, time |-> t]
        /\ ~bDelete[f] => timer[f][t][k] \notin gone
    BY <2>1 DEF GoneInv, Filed
  <2>3. timer[f][t][k] \notin Pending(e)
    BY <1>3, <2>1, <2>2
  <2> QED
    BY <1>1, <2>1, <2>2, <2>3
<1>6. Listed'
  <2>1. \A k \in DOMAIN listHandle : listHandle[k] \notin Pending(e) \ Taken
    BY DEF Taken
  <2> QED
    BY <1>1, <2>1 DEF GoneInv, Listed
<1> QED
  BY <1>4, <1>5, <1>6 DEF GoneInv

\* ~SubTimer marks the entity of all it removes as one to be deleted.
LEMMA DeleteGone == ASSUME TimerInv, GoneInv, NEW e \in Entities, Delete(e) PROVE GoneInv'
<1>1. /\ added' = added /\ bDelete' = [bDelete EXCEPT ![e] = TRUE]
      /\ gone' = gone \cup {h \in DOMAIN added : added[h].entity = e}
      /\ timer' = timer \/ timer' = [timer EXCEPT ![e] = NoTimers]
      /\ pc' = pc /\ listHandle' = listHandle /\ entity' = entity
  BY DEF Delete, Free, maps, Program
<1>2. /\ timer'[e] = timer[e] \/ timer'[e] = NoTimers
      /\ \A f \in Entities \ {e} : timer'[f] = timer[f] /\ bDelete'[f] = bDelete[f]
      /\ bDelete'[e]
  BY <1>1 DEF TimerInv, TypeOK
<1>3. Known'
  BY <1>1 DEF GoneInv, Known
<1>4. Filed'
  <2> SUFFICES ASSUME NEW f \in Entities, NEW t \in Times, NEW k \in DOMAIN timer'[f][t]
               PROVE  /\ timer'[f][t][k] \in DOMAIN added
                      /\ added[timer'[f][t][k]] = [entity |-> f, time |-> t]
                      /\ ~bDelete'[f] => timer'[f][t][k] \notin gone'
    BY <1>1 DEF Filed
  <2>1. timer'[f] = timer[f]
    BY <1>2 DEF NoTimers
  <2>2. /\ timer[f][t][k] \in DOMAIN added
        /\ added[timer[f][t][k]] = [entity |-> f, time |-> t]
        /\ ~bDelete[f] => timer[f][t][k] \notin gone
    BY <2>1 DEF GoneInv, Filed
  <2> QED
    BY <1>1, <1>2, <2>1, <2>2
<1>5. Listed'
  <2>1. pc \in {"list", "handler"} => entity \in Entities
    BY DEF TimerInv, Running, Inside
  <2> QED
    BY <1>1, <1>2, <2>1 DEF GoneInv, Listed
<1> QED
  BY <1>3, <1>4, <1>5 DEF GoneInv

\* The list that is taken out holds what the map held.
LEMMA TakeListGone == ASSUME TimerInv, GoneInv, TakeList PROVE GoneInv'
<1>1. PICK u \in Times : listHandle' = timer[entity][u] /\ timer' = [timer EXCEPT ![entity][u] = <<>>]
  BY DEF TakeList
<1>2. entity \in Entities /\ pc' = "list" /\ ~bDelete[entity]
      /\ UNCHANGED <<added, gone, bDelete, entity>>
  BY DEF TakeList, TimerInv, Running, Inside, history, objects
<1>3. /\ timer'[entity][u] = <<>>
      /\ \A f \in Entities, t \in Times : f # entity \/ t # u => timer'[f][t] = timer[f][t]
  BY <1>1, <1>2 DEF TimerInv, TypeOK
<1>4. Known'
  BY <1>2 DEF GoneInv, Known
<1>5. Filed'
  <2> SUFFICES ASSUME NEW f \in Entities, NEW t \in Times, NEW k \in DOMAIN timer'[f][t]
               PROVE  /\ timer'[f][t][k] \in DOMAIN added'
                      /\ added'[timer'[f][t][k]] = [entity |-> f, time |-> t]
                      /\ ~bDelete'[f] => timer'[f][t][k] \notin gone'
    BY DEF Filed
  <2>1. timer'[f][t] = timer[f][t]
    BY <1>3
  <2> QED
    BY <1>2, <2>1 DEF GoneInv, Filed
<1>6. Listed'
  <2> SUFFICES ASSUME NEW k \in DOMAIN listHandle'
               PROVE  /\ listHandle'[k] \in DOMAIN added
                      /\ added[listHandle'[k]].entity = entity
                      /\ listHandle'[k] \notin gone
    BY <1>2 DEF Listed
  <2>1. /\ listHandle'[k] \in DOMAIN added
        /\ added[listHandle'[k]] = [entity |-> entity, time |-> u]
        /\ listHandle'[k] \notin gone
    BY <1>1, <1>2 DEF GoneInv, Filed
  <2> QED
    BY <2>1
<1> QED
  BY <1>4, <1>5, <1>6 DEF GoneInv

\* An entity that is freed at the end of its OnTimer has no handlers.
LEMMA ReturnGone == ASSUME TimerInv, GoneInv, Return PROVE GoneInv'
<1>1. /\ UNCHANGED <<added, gone, bDelete>> /\ pc' \notin {"list", "handler"}
      /\ timer' = timer \/ timer' = [timer EXCEPT ![entity] = NoTimers]
  BY DEF Return, Free, maps, history, TimerInv, TypeOK
<1>2. Known' /\ Listed'
  BY <1>1 DEF GoneInv, Known, Listed
<1>3. \A f \in Entities : timer'[f] = timer[f] \/ timer'[f] = NoTimers
  BY <1>1 DEF TimerInv, TypeOK
<1>4. Filed'
  <2> SUFFICES ASSUME NEW f \in Entities, NEW t \in Times, NEW k \in DOMAIN timer'[f][t]
               PROVE  /\ timer'[f][t][k] \in DOMAIN added'
                      /\ added'[timer'[f][t][k]] = [entity |-> f, time |-> t]
                      /\ ~bDelete'[f] => timer'[f][t][k] \notin gone'
    BY DEF Filed
  <2>1. timer'[f] = timer[f]
    BY <1>3 DEF NoTimers
  <2> QED
    BY <1>1, <2>1 DEF GoneInv, Filed
<1> QED
  BY <1>2, <1>4 DEF GoneInv

\* A handler returns: its entity goes on, or is to be deleted.
LEMMA HandlerReturnGone == ASSUME TimerInv, GoneInv, HandlerReturn PROVE GoneInv'
<1>1. /\ UNCHANGED <<timer, added, gone, bDelete, entity>>
      /\ pc = "handler" /\ listHandle' = Tail(listHandle)
  BY DEF HandlerReturn, maps, history, objects
<1>2. Known' /\ Filed'
  BY <1>1 DEF GoneInv, Known, Filed
<1>3. \A k \in DOMAIN listHandle' : k + 1 \in DOMAIN listHandle /\ listHandle'[k] = listHandle[k + 1]
  <2>1. listHandle \in Seq(Handlers) /\ listHandle # <<>>
    BY <1>1 DEF TimerInv, TypeOK, Running
  <2> QED
    BY <1>1, <2>1
<1>4. Listed'
  BY <1>1, <1>3 DEF GoneInv, Listed
<1> QED
  BY <1>2, <1>4 DEF GoneInv

\* Every step keeps the handlers that are gone out of the lists.
LEMMA GoneStep == ASSUME TimerInv, GoneInv, [Next]_vars PROVE GoneInv'
<1>1. ASSUME UNCHANGED <<timer, added, gone, bDelete>>,
             pc' \in {"list", "handler"} => pc \in {"list", "handler"} /\ UNCHANGED <<listHandle, entity>>
      PROVE  GoneInv'
  BY <1>1 DEF GoneInv, Known, Filed, Listed
<1>2. CASE UNCHANGED vars \/ Tick \/ OnTimer \/ OnTimerReturn \/ SetDone \/ TakeSet
  BY <1>1, <1>2 DEF vars, Tick, OnTimer, OnTimerReturn, SetDone, TakeSet, objects, maps, args, history
<1>3. CASE EarlyReturn \/ Call \/ ListDone
  BY <1>1, <1>3 DEF EarlyReturn, Call, ListDone, objects, maps, args, history, TimerInv, TypeOK
<1>4. ASSUME NEW e \in Entities, NextOfSet(e) \/ SubTimerOnTimer(e) PROVE GoneInv'
  BY <1>1, <1>4 DEF NextOfSet, SubTimerOnTimer, Enter, objects, maps, history
<1>5. ASSUME NEW e \in Entities, NEW t \in Times, AddTimer(e, t) PROVE GoneInv'
  BY <1>5, AddTimerGone
<1>6. ASSUME NEW e \in Entities, Create(e) \/ Clear(e) \/ Delete(e) PROVE GoneInv'
  BY <1>6, CreateGone, ClearGone, DeleteGone
<1>7. CASE TakeList \/ Return \/ HandlerReturn
  BY <1>7, TakeListGone, ReturnGone, HandlerReturnGone
<1> QED
  BY <1>2, <1>3, <1>4, <1>5, <1>6, <1>7 DEF Next, Run

\* Only Call extends begun, with a handler of the list it works on.
LEMMA CallNotGone ==
    ASSUME TimerInv, GoneInv, [Next]_vars, begun' # begun
    PROVE  begun'[Len(begun')] \notin gone
<1>1. Call
  BY DEF Next, Run, vars, Tick, OnTimer, OnTimerReturn, SetDone, TakeSet, EarlyReturn, ListDone, NextOfSet,
         SubTimerOnTimer, AddTimer, Create, Clear, Delete, TakeList, Return, HandlerReturn, history
<1>2. begun' = Append(begun, Head(listHandle)) /\ begun \in Seq(Handlers) /\ listHandle \in Seq(Handlers)
      /\ listHandle # <<>> /\ pc = "list" /\ ~bDelete[entity]
  BY <1>1 DEF Call, Stops, TimerInv, TypeOK
<1>3. begun'[Len(begun')] = listHandle[1] /\ 1 \in DOMAIN listHandle
  BY <1>2
<1> QED
  BY <1>2, <1>3 DEF GoneInv, Listed

\* No handler is called after its SubTimer was destroyed, be it by a handler called
\* before it from the same list, and none that was still to be called after its
\* SubTimer was cleared, but for the list that OnTimer has taken before, whose rest
\* is called all the same (TimeUtils.cpp:146, 148, 164).
THEOREM GoneCorrect == Spec => NoneAfterDestroyed
<1>1. Init => GoneInv
  BY DEF Init, GoneInv, Known, Filed, Listed, NoTimers
<1>2. TimerInv /\ GoneInv /\ [Next]_vars => GoneInv'
  BY GoneStep
<1>3. TimerInv /\ GoneInv /\ [Next]_vars => [begun' # begun => begun'[Len(begun')] \notin gone]_vars
  BY CallNotGone
<1> QED
  BY <1>1, <1>2, <1>3, TimerInvariance, PTL DEF Spec, NoneAfterDestroyed

-----------------------------------------------------------------------------
(* The order of the calls.                                                 *)

Before(list, g, h) ==
    \/ list[g].time < list[h].time
    \/ list[g].time = list[h].time /\ g < h

Working == pc \in {"list", "handler"}

Clock == iNowMS <= now

\* The handlers of one time stand in the order in which they were added.
Sorted ==
    \A e \in Entities, t \in Times : \A j, k \in DOMAIN timer[e][t] :
        j < k => timer[e][t][j] < timer[e][t][k]

\* The list that was taken is sorted, due, and before what is left in the map.
ListOrder ==
    Working => \A k \in DOMAIN listHandle :
        /\ added[listHandle[k]].time <= now
        /\ \A j \in DOMAIN listHandle :
              j < k => added[listHandle[j]].time = added[listHandle[k]].time /\ listHandle[j] < listHandle[k]
        /\ \A t \in Times : \A m \in DOMAIN timer[entity][t] : Before(added, listHandle[k], timer[entity][t][m])

\* What was called comes before what is in the maps and in the list.
BegunKnown ==
    \A i \in DOMAIN begun : begun[i] \in DOMAIN added /\ added[begun[i]].time <= now

BegunOrder ==
    \A i \in DOMAIN begun, e \in Entities, t \in Times :
        added[begun[i]].entity = e =>
            \A m \in DOMAIN timer[e][t] : Before(added, begun[i], timer[e][t][m])

BegunList ==
    Working => \A i \in DOMAIN begun, k \in DOMAIN listHandle :
        added[begun[i]].entity = entity /\ (pc = "handler" => k > 1) => Before(added, begun[i], listHandle[k])

OrderInv ==
    Clock /\ Sorted /\ ListOrder /\ BegunKnown /\ BegunOrder /\ BegunList /\ CalledInOrder

\* The times of an entity with a new timer.
LEMMA AddedTimes ==
    ASSUME TypeOK
    PROVE  /\ now \in Int /\ Times \subseteq Int
           /\ \A h \in DOMAIN added : h \in Int /\ added[h].time \in Times
<1>1. now \in Int /\ Times \subseteq Int
  BY DEF TypeOK, Times
<1>2. ASSUME NEW h \in DOMAIN added PROVE h \in Int /\ added[h].time \in Times
  <2>1. added \in Seq([entity : Entities, time : Times])
    BY DEF TypeOK
  <2>2. DOMAIN added = 1 .. Len(added) /\ Len(added) \in Nat
    BY <2>1
  <2> DEFINE S == [entity : Entities, time : Times]
  <2>3. added \in Seq(S) /\ h \in 1 .. Len(added)
    BY <2>1, <2>2
  <2> HIDE DEF S
  <2>4. added[h] \in S
    BY <2>3
  <2> QED
    BY <2>2, <2>4 DEF S
<1> QED
  BY <1>1, <1>2

\* Steps that move no timer keep the order.
LEMMA QuietOrder ==
    ASSUME TimerInv, GoneInv, OrderInv, UNCHANGED <<added, begun>>,
           now' \in Int, now <= now', iNowMS' <= now',
           \A f \in Entities : timer'[f] = timer[f] \/ timer'[f] = NoTimers,
           Working' => pc' = pc /\ UNCHANGED <<listHandle, entity>>
    PROVE  OrderInv'
<1>1. Clock' /\ Sorted'
  BY DEF OrderInv, Clock, Sorted, NoTimers
<1>2. now \in Int /\ \A h \in DOMAIN added : added[h].time \in Int
  BY AddedTimes DEF TimerInv
<1>3. BegunKnown'
  BY <1>2 DEF OrderInv, BegunKnown
<1>4. CalledInOrder'
  BY <1>2, <1>3 DEF OrderInv, CalledInOrder, BegunKnown
<1>5. BegunOrder'
  BY DEF OrderInv, BegunOrder, Before, NoTimers
<1>6. BegunList'
  BY DEF OrderInv, BegunList, Working, Before
<1>7. ListOrder'
  <2> SUFFICES ASSUME Working', NEW k \in DOMAIN listHandle'
               PROVE  /\ added[listHandle[k]].time <= now'
                      /\ \A j \in DOMAIN listHandle :
                            j < k => added[listHandle[j]].time = added[listHandle[k]].time /\ listHandle[j] < listHandle[k]
                      /\ \A t \in Times : \A m \in DOMAIN timer'[entity][t] : Before(added, listHandle[k], timer'[entity][t][m])
    BY DEF ListOrder, Before
  <2>1. Working /\ k \in DOMAIN listHandle /\ entity \in Entities
    BY DEF Working, TimerInv, Running, Inside
  <2>2. listHandle[k] \in DOMAIN added
    BY <2>1 DEF GoneInv, Listed, Working
  <2>3. added[listHandle[k]].time <= now'
    BY <1>2, <2>1, <2>2 DEF OrderInv, ListOrder
  <2>4. \A t \in Times : \A m \in DOMAIN timer'[entity][t] : Before(added, listHandle[k], timer'[entity][t][m])
    BY <2>1 DEF OrderInv, ListOrder, NoTimers
  <2> QED
    BY <2>1, <2>3, <2>4 DEF OrderInv, ListOrder
<1> QED
  BY <1>1, <1>3, <1>4, <1>5, <1>6, <1>7 DEF OrderInv

\* AddTimer adds behind the timers of its time.
LEMMA AddTimerOrder ==
    ASSUME TimerInv, GoneInv, OrderInv, NEW e \in Entities, NEW u \in Times, AddTimer(e, u)
    PROVE  OrderInv'
<1> DEFINE n == Len(added) + 1
<1>1. /\ added \in Seq([entity : Entities, time : Times]) /\ Len(added) \in Nat
      /\ DOMAIN added = 1 .. Len(added)
      /\ timer \in [Entities -> [Times -> Seq(Handlers)]]
      /\ now \in Int /\ u \in Int /\ now <= u
      /\ \A h \in DOMAIN added : added[h].time \in Int /\ h < n
  <2>1. /\ added \in Seq([entity : Entities, time : Times])
        /\ timer \in [Entities -> [Times -> Seq(Handlers)]]
        /\ now <= u
    BY DEF TimerInv, TypeOK, AddTimer
  <2>2. Len(added) \in Nat /\ DOMAIN added = 1 .. Len(added)
    BY <2>1
  <2>3. now \in Int /\ u \in Int /\ \A h \in DOMAIN added : added[h].time \in Int
    BY AddedTimes DEF TimerInv
  <2>4. \A h \in DOMAIN added : h < n
    BY <2>2
  <2> QED
    BY <2>1, <2>2, <2>3, <2>4
<1>2. /\ added' = Append(added, [entity |-> e, time |-> u])
      /\ timer' = [timer EXCEPT ![e][u] = Append(timer[e][u], n)]
      /\ UNCHANGED <<begun, now, iNowMS, pc, listHandle, entity>>
  BY DEF AddTimer, PushBack, Program, args
<1>3. /\ DOMAIN added' = DOMAIN added \cup {n} /\ n \notin DOMAIN added
      /\ added'[n] = [entity |-> e, time |-> u]
      /\ \A h \in DOMAIN added : added'[h] = added[h]
  BY <1>1, <1>2
<1>4. ASSUME NEW f \in Entities, NEW t \in Times, NEW k \in DOMAIN timer'[f][t]
      PROVE  \/ k \in DOMAIN timer[f][t] /\ timer'[f][t][k] = timer[f][t][k]
             \/ f = e /\ t = u /\ timer'[f][t][k] = n /\ k = Len(timer[e][u]) + 1
  <2>1. timer[e][u] \in Seq(Handlers)
    BY <1>1
  <2>2. timer'[f][t] = IF f = e /\ t = u THEN Append(timer[e][u], n) ELSE timer[f][t]
    BY <1>1, <1>2
  <2> QED
    BY <2>1, <2>2
<1>5. \A f \in Entities, t \in Times : \A k \in DOMAIN timer[f][t] : timer[f][t][k] \in DOMAIN added
  BY DEF GoneInv, Filed
<1>6. ASSUME NEW g \in DOMAIN added PROVE added[g].time <= now => Before(added', g, n)
  <2>1. added'[g].time = added[g].time /\ added'[n].time = u
    BY <1>3
  <2>2. added[g].time \in Int /\ g < n /\ now \in Int /\ u \in Int /\ now <= u
    BY <1>1
  <2> HIDE DEF n
  <2> QED
    BY <2>1, <2>2 DEF Before
<1>7. ASSUME NEW g \in DOMAIN added, NEW h \in DOMAIN added, Before(added, g, h) PROVE Before(added', g, h)
  BY <1>3, <1>7 DEF Before
<1>8. Clock' /\ BegunKnown'
  BY <1>2, <1>3 DEF OrderInv, Clock, BegunKnown
<1>9. CalledInOrder'
  <2>1. \A k \in DOMAIN begun : begun[k] \in DOMAIN added /\ added'[begun[k]] = added[begun[k]]
    BY <1>3 DEF OrderInv, BegunKnown
  <2>2. \A k \in DOMAIN begun : \A j \in 1 .. k - 1 : j \in DOMAIN begun
    BY DEF TimerInv, TypeOK
  <2> QED
    BY <1>2, <1>3, <2>1, <2>2 DEF OrderInv, CalledInOrder
<1>10. Sorted'
  <2> SUFFICES ASSUME NEW f \in Entities, NEW t \in Times,
                      NEW j \in DOMAIN timer'[f][t], NEW k \in DOMAIN timer'[f][t], j < k
               PROVE  timer'[f][t][j] < timer'[f][t][k]
    BY DEF Sorted
  <2>1. timer[f][t] \in Seq(Handlers) /\ timer[e][u] \in Seq(Handlers)
    BY <1>1
  <2>2. j \in DOMAIN timer[f][t] => timer[f][t][j] \in DOMAIN added /\ timer[f][t][j] < n
    BY <1>1, <1>5
  <2>3. CASE j \in DOMAIN timer[f][t] /\ timer'[f][t][j] = timer[f][t][j]
    BY <1>4, <2>2, <2>3 DEF OrderInv, Sorted
  <2>4. CASE f = e /\ t = u /\ timer'[f][t][j] = n /\ j = Len(timer[e][u]) + 1
    BY <1>4, <2>1, <2>4
  <2> QED
    BY <1>4, <2>3, <2>4
<1>11. BegunOrder'
  <2> SUFFICES ASSUME NEW i \in DOMAIN begun, NEW f \in Entities, NEW t \in Times,
                      added'[begun[i]].entity = f, NEW m \in DOMAIN timer'[f][t]
               PROVE  Before(added', begun[i], timer'[f][t][m])
    BY <1>2 DEF BegunOrder
  <2>1. begun[i] \in DOMAIN added /\ added[begun[i]].time <= now /\ added[begun[i]].entity = f
    BY <1>3 DEF OrderInv, BegunKnown
  <2>2. CASE m \in DOMAIN timer[f][t] /\ timer'[f][t][m] = timer[f][t][m]
    <3>1. Before(added, begun[i], timer[f][t][m])
      BY <2>1, <2>2 DEF OrderInv, BegunOrder
    <3>2. timer[f][t][m] \in DOMAIN added
      BY <1>5, <2>2
    <3> QED
      BY <1>7, <2>1, <2>2, <3>1, <3>2
  <2>3. CASE timer'[f][t][m] = n
    BY <1>6, <2>1, <2>3
  <2> QED
    BY <1>4, <2>2, <2>3
<1>12. BegunList'
  BY <1>2, <1>3 DEF OrderInv, BegunList, BegunKnown, Before, Working, GoneInv, Listed
<1>13. ListOrder'
  <2> SUFFICES ASSUME Working, NEW k \in DOMAIN listHandle
               PROVE  /\ added'[listHandle[k]].time <= now
                      /\ \A j \in DOMAIN listHandle :
                            j < k => added'[listHandle[j]].time = added'[listHandle[k]].time /\ listHandle[j] < listHandle[k]
                      /\ \A t \in Times : \A m \in DOMAIN timer'[entity][t] : Before(added', listHandle[k], timer'[entity][t][m])
    <3>1. /\ Working' <=> Working
          /\ listHandle' = listHandle /\ now' = now /\ entity' = entity
      BY <1>2 DEF Working
    <3> HIDE DEF n
    <3> QED
      BY <3>1 DEF ListOrder
  <2>1. entity \in Entities /\ \A j \in DOMAIN listHandle : listHandle[j] \in DOMAIN added
    BY DEF Working, TimerInv, Running, Inside, GoneInv, Listed
  <2>2. added[listHandle[k]].time <= now
    BY DEF OrderInv, ListOrder
  <2>3. ASSUME NEW t \in Times, NEW m \in DOMAIN timer'[entity][t]
        PROVE  Before(added', listHandle[k], timer'[entity][t][m])
    <3>1. CASE m \in DOMAIN timer[entity][t] /\ timer'[entity][t][m] = timer[entity][t][m]
      <4>1. Before(added, listHandle[k], timer[entity][t][m])
        BY <3>1 DEF OrderInv, ListOrder
      <4>2. timer[entity][t][m] \in DOMAIN added
        BY <1>5, <2>1, <3>1
      <4> QED
        BY <1>7, <2>1, <3>1, <4>1, <4>2
    <3>2. CASE timer'[entity][t][m] = n
      BY <1>6, <2>1, <2>2, <3>2
    <3> QED
      BY <1>4, <2>1, <3>1, <3>2
  <2> QED
    BY <1>3, <2>1, <2>3 DEF OrderInv, ListOrder
<1> QED
  BY <1>8, <1>9, <1>10, <1>11, <1>12, <1>13 DEF OrderInv

\* The list that is taken out comes first.
LEMMA TakeListOrder ==
    ASSUME TimerInv, GoneInv, OrderInv, TakeList
    PROVE  OrderInv'
<1>1. PICK u \in Times : /\ First(TimesOf(entity), u) /\ u <= iNowMS
                         /\ listHandle' = timer[entity][u]
                         /\ timer' = [timer EXCEPT ![entity][u] = <<>>]
  BY DEF TakeList
<1>2. entity \in Entities /\ pc' = "list" /\ UNCHANGED <<added, begun, now, iNowMS, entity>>
  BY DEF TakeList, TimerInv, Running, Inside, history, args
<1>3. /\ timer'[entity][u] = <<>>
      /\ \A f \in Entities, t \in Times : f # entity \/ t # u => timer'[f][t] = timer[f][t]
  BY <1>1, <1>2 DEF TimerInv, TypeOK
<1>4. now \in Int /\ iNowMS \in Int /\ iNowMS <= now /\ Times \subseteq Int
  BY AddedTimes DEF TimerInv, TypeOK, Times, OrderInv, Clock
<1>5. Clock' /\ Sorted' /\ BegunKnown' /\ CalledInOrder' /\ BegunOrder'
  BY <1>2, <1>3 DEF OrderInv, Clock, Sorted, BegunKnown, CalledInOrder, BegunOrder, Before
<1>6. \A k \in DOMAIN listHandle' : added[listHandle'[k]] = [entity |-> entity, time |-> u]
  BY <1>1, <1>2 DEF GoneInv, Filed
<1>7. ListOrder'
  <2> SUFFICES ASSUME NEW k \in DOMAIN listHandle'
               PROVE  /\ added[listHandle'[k]].time <= now
                      /\ \A j \in DOMAIN listHandle' :
                            j < k => /\ added[listHandle'[j]].time = added[listHandle'[k]].time
                                     /\ listHandle'[j] < listHandle'[k]
                      /\ \A t \in Times : \A m \in DOMAIN timer'[entity][t] :
                            Before(added, listHandle'[k], timer'[entity][t][m])
    BY <1>2 DEF ListOrder, Before
  <2>1. added[listHandle'[k]].time <= now
    BY <1>1, <1>4, <1>6
  <2>2. \A j \in DOMAIN listHandle' : j < k => listHandle'[j] < listHandle'[k]
    BY <1>1, <1>2 DEF OrderInv, Sorted
  <2>3. ASSUME NEW t \in Times, NEW m \in DOMAIN timer'[entity][t]
        PROVE  Before(added, listHandle'[k], timer'[entity][t][m])
    <3>1. t # u /\ timer'[entity][t] = timer[entity][t]
      BY <1>2, <1>3
    <3>2. timer[entity][t] # <<>> /\ added[timer[entity][t][m]] = [entity |-> entity, time |-> t]
      BY <1>2, <3>1 DEF GoneInv, Filed
    <3>3. u < t
      BY <1>1, <1>4, <3>1, <3>2 DEF First, TimesOf
    <3> QED
      BY <1>6, <3>1, <3>2, <3>3 DEF Before
  <2> QED
    BY <1>6, <2>1, <2>2, <2>3
<1>8. BegunList'
  BY <1>1, <1>2 DEF OrderInv, BegunOrder, BegunList, Before
<1> QED
  BY <1>5, <1>7, <1>8 DEF OrderInv

\* The head of the list comes behind what was called.
LEMMA CallOrder ==
    ASSUME TimerInv, GoneInv, OrderInv, Call
    PROVE  OrderInv'
<1> DEFINE n == Len(begun) + 1
           h == listHandle[1]
<1>1. /\ begun \in Seq(Handlers) /\ listHandle \in Seq(Handlers) /\ listHandle # <<>>
      /\ pc = "list" /\ pc' = "handler" /\ begun' = Append(begun, Head(listHandle))
      /\ UNCHANGED <<added, now, iNowMS, timer, listHandle, entity>>
  BY DEF Call, TimerInv, TypeOK, maps, args
<1>2. /\ 1 \in DOMAIN listHandle /\ Len(begun) \in Nat
      /\ DOMAIN begun' = DOMAIN begun \cup {n} /\ DOMAIN begun = 1 .. Len(begun)
      /\ begun'[n] = h /\ \A i \in DOMAIN begun : begun'[i] = begun[i]
      /\ DOMAIN listHandle \subseteq Int
  BY <1>1
<1>3. Working /\ Working'
  BY <1>1 DEF Working
<1>4. h \in DOMAIN added /\ added[h].entity = entity /\ added[h].time <= now
  BY <1>1, <1>2, <1>3 DEF GoneInv, Listed, OrderInv, ListOrder
<1> HIDE DEF h
<1>5. Clock' /\ Sorted'
  BY <1>1 DEF OrderInv, Clock, Sorted
<1>6. ListOrder'
  BY <1>1, <1>3 DEF OrderInv, ListOrder, Before
<1>7. BegunKnown'
  BY <1>1, <1>2, <1>4 DEF OrderInv, BegunKnown
<1>8. \A t \in Times : \A m \in DOMAIN timer[entity][t] : Before(added, h, timer[entity][t][m])
  BY <1>2, <1>3 DEF OrderInv, ListOrder, h
<1>9. BegunOrder'
  <2> SUFFICES ASSUME NEW i \in DOMAIN begun', NEW e \in Entities, NEW t \in Times,
                      added[begun'[i]].entity = e, NEW m \in DOMAIN timer[e][t]
               PROVE  Before(added, begun'[i], timer[e][t][m])
    BY <1>1 DEF BegunOrder, Before
  <2>1. CASE i \in DOMAIN begun
    BY <1>2, <2>1 DEF OrderInv, BegunOrder
  <2>2. CASE i = n
    BY <1>2, <1>4, <1>8, <2>2
  <2> QED
    BY <1>2, <2>1, <2>2
<1>10. \A k \in DOMAIN listHandle : k > 1 => Before(added, h, listHandle[k])
  BY <1>2, <1>3 DEF OrderInv, ListOrder, Before, h
<1>11. \A i \in DOMAIN begun, k \in DOMAIN listHandle :
           added[begun[i]].entity = entity => Before(added, begun[i], listHandle[k])
  BY <1>1, <1>3 DEF OrderInv, BegunList
<1>12. BegunList'
  <2> SUFFICES ASSUME NEW i \in DOMAIN begun', NEW k \in DOMAIN listHandle,
                      added[begun'[i]].entity = entity, k > 1
               PROVE  Before(added, begun'[i], listHandle[k])
    BY <1>1 DEF BegunList, Before
  <2> QED
    BY <1>2, <1>10, <1>11
<1>13. CalledInOrder'
  <2> SUFFICES ASSUME NEW k \in DOMAIN begun'
               PROVE  /\ begun'[k] \in DOMAIN added
                      /\ added[begun'[k]].time <= now
                      /\ \A j \in 1 .. k - 1 :
                            added[begun'[j]].entity = added[begun'[k]].entity =>
                                Before(added, begun'[j], begun'[k])
    BY <1>1 DEF CalledInOrder, Before
  <2>1. begun'[k] \in DOMAIN added /\ added[begun'[k]].time <= now
    BY <1>1, <1>7 DEF BegunKnown
  <2>2. CASE k \in DOMAIN begun
    <3>1. \A j \in 1 .. k - 1 : j \in DOMAIN begun
      BY <1>2, <2>2
    <3> QED
      BY <1>2, <2>1, <2>2, <3>1 DEF OrderInv, CalledInOrder, Before
  <2>3. CASE k = n
    <3>1. \A j \in 1 .. k - 1 : j \in DOMAIN begun
      BY <1>2, <2>3
    <3> QED
      BY <1>2, <1>4, <1>11, <2>1, <2>3, <3>1 DEF h
  <2> QED
    BY <1>2, <2>2, <2>3
<1> QED
  BY <1>5, <1>6, <1>7, <1>9, <1>12, <1>13 DEF OrderInv

\* A handler that returns leaves the order as it is.
LEMMA HandlerReturnOrder ==
    ASSUME TimerInv, GoneInv, OrderInv, HandlerReturn
    PROVE  OrderInv'
<1>1. /\ listHandle \in Seq(Handlers) /\ listHandle # <<>> /\ listHandle' = Tail(listHandle)
      /\ pc = "handler" /\ pc' = "list"
      /\ UNCHANGED <<added, begun, now, iNowMS, timer, entity>>
  BY DEF HandlerReturn, TimerInv, TypeOK, Running, maps, args, history
<1>2. /\ DOMAIN listHandle \subseteq Int
      /\ \A k \in DOMAIN listHandle' :
            k + 1 \in DOMAIN listHandle /\ k + 1 > 1 /\ k \in Int /\ listHandle'[k] = listHandle[k + 1]
  BY <1>1
<1>3. Working /\ Working'
  BY <1>1 DEF Working
<1>4. Clock' /\ Sorted' /\ BegunKnown' /\ CalledInOrder' /\ BegunOrder'
  BY <1>1 DEF OrderInv, Clock, Sorted, BegunKnown, CalledInOrder, BegunOrder, Before
<1>5. ListOrder'
  <2> SUFFICES ASSUME NEW k \in DOMAIN listHandle'
               PROVE  /\ added[listHandle'[k]].time <= now
                      /\ \A j \in DOMAIN listHandle' :
                            j < k => /\ added[listHandle'[j]].time = added[listHandle'[k]].time
                                     /\ listHandle'[j] < listHandle'[k]
                      /\ \A t \in Times : \A m \in DOMAIN timer[entity][t] :
                            Before(added, listHandle'[k], timer[entity][t][m])
    BY <1>1 DEF ListOrder, Before
  <2>1. \A j \in DOMAIN listHandle' : j < k => j + 1 < k + 1
    BY <1>2
  <2> QED
    BY <1>2, <1>3, <2>1 DEF OrderInv, ListOrder
<1>6. BegunList'
  <2> SUFFICES ASSUME NEW i \in DOMAIN begun, NEW k \in DOMAIN listHandle',
                      added[begun[i]].entity = entity
               PROVE  Before(added, begun[i], listHandle'[k])
    BY <1>1 DEF BegunList, Before
  <2> QED
    BY <1>2, <1>3 DEF OrderInv, BegunList
<1> QED
  BY <1>4, <1>5, <1>6 DEF OrderInv

\* Every step keeps the order.
LEMMA OrderStep == ASSUME TimerInv, GoneInv, OrderInv, [Next]_vars PROVE OrderInv'
<1>1. now \in Int /\ iNowMS <= now
  BY AddedTimes DEF TimerInv, OrderInv, Clock
<1>2. CASE UNCHANGED vars
  BY <1>1, <1>2, QuietOrder DEF vars, maps, args, history
<1>3. CASE Tick
  <2>1. now' \in Int /\ now <= now' /\ iNowMS' <= now'
    BY <1>1, <1>3 DEF Tick, args, TimerInv, TypeOK, Times
  <2> QED
    BY <1>3, <2>1, QuietOrder DEF Tick, maps, args, history
<1>4. CASE OnTimer
  BY <1>1, <1>4, QuietOrder DEF OnTimer, Argument, maps, history, Working
<1>5. CASE OnTimerReturn \/ SetDone \/ TakeSet \/ EarlyReturn \/ ListDone
  <2>1. UNCHANGED <<now, iNowMS, timer, added, begun>> /\ ~Working'
    BY <1>5 DEF OnTimerReturn, SetDone, TakeSet, EarlyReturn, ListDone, maps, args, history, Working,
                TimerInv, TypeOK
  <2> QED
    BY <1>1, <2>1, QuietOrder
<1>6. CASE Return
  <2>1. UNCHANGED <<now, iNowMS, added, begun>> /\ ~Working'
    BY <1>6 DEF Return, args, history, Working, TimerInv, TypeOK
  <2>2. \A f \in Entities : timer'[f] = timer[f] \/ timer'[f] = NoTimers
    BY <1>6 DEF Return, Free, maps, TimerInv, TypeOK
  <2> QED
    BY <1>1, <2>1, <2>2, QuietOrder
<1>7. ASSUME NEW e \in Entities, NextOfSet(e) \/ SubTimerOnTimer(e) PROVE OrderInv'
  <2>1. UNCHANGED <<now, timer, added, begun>> /\ ~Working' /\ iNowMS' <= now
    BY <1>1, <1>7 DEF NextOfSet, SubTimerOnTimer, Enter, maps, history, Working
  <2> QED
    BY <1>1, <2>1, QuietOrder
<1>8. ASSUME NEW e \in Entities, Create(e) \/ Clear(e) \/ Delete(e) PROVE OrderInv'
  <2>1. UNCHANGED <<now, iNowMS, pc, listHandle, entity, added, begun>>
    BY <1>8 DEF Create, Clear, Delete, Program, args, history
  <2>2. \A f \in Entities : timer'[f] = timer[f] \/ timer'[f] = NoTimers
    BY <1>8 DEF Create, Clear, Delete, Free, maps, TimerInv, TypeOK
  <2> QED
    BY <1>1, <2>1, <2>2, QuietOrder
<1>9. CASE TakeList \/ Call \/ HandlerReturn
  BY <1>9, TakeListOrder, CallOrder, HandlerReturnOrder
<1> QED
  BY <1>2, <1>3, <1>4, <1>5, <1>6, <1>7, <1>8, <1>9, AddTimerOrder DEF Next, Run

\* The handlers of one SubTimer are called by time and, for one time, as they
\* were added, none before its time (TimeUtils.cpp:143): also when handlers add
\* and clear timers of the SubTimer that is running.
THEOREM CallOrderCorrect == Spec => []CalledInOrder
<1>1. Init => GoneInv
  BY DEF Init, GoneInv, Known, Filed, Listed, NoTimers
<1>2. TimerInv /\ GoneInv /\ [Next]_vars => GoneInv'
  BY GoneStep
<1>3. Init => OrderInv
  <2>1. ASSUME Init PROVE Clock /\ Sorted /\ ListOrder /\ BegunKnown /\ BegunOrder /\ BegunList /\ CalledInOrder
    BY <2>1 DEF Init, Clock, Sorted, ListOrder, BegunKnown, BegunOrder, BegunList, CalledInOrder,
                NoTimers, Working
  <2> QED
    BY <2>1 DEF OrderInv
<1>4. TimerInv /\ GoneInv /\ OrderInv /\ [Next]_vars => OrderInv'
  BY OrderStep
<1>5. OrderInv => CalledInOrder
  BY DEF OrderInv
<1> QED
  BY <1>1, <1>2, <1>3, <1>4, <1>5, TimerInvariance, PTL DEF Spec
=============================================================================
