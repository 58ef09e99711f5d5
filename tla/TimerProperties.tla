---------------------------- MODULE TimerProperties ----------------------------
(* What must hold of the timers.                                           *)
EXTENDS ActorTimer

\* Every variable keeps its type (TimeUtils.cpp:180, TimeUtils.h:47).
TypeOK ==
    /\ now \in Times /\ iNowMS \in Times
    /\ allocated \subseteq Entities /\ setSubTimer \subseteq Entities
    /\ actorTimer \in [Times -> SUBSET Entities]
    /\ timer \in [Entities -> [Times -> Seq(Handlers)]]
    /\ bDelete \in [Entities -> BOOLEAN]
    /\ bHandleing \in [Entities -> BOOLEAN]
    /\ pc \in {"idle", "actor", "set", "entity", "list", "handler"}
    /\ back \in {"idle", "set"}
    /\ setTimer \subseteq Entities
    /\ entity \in Entities \cup {NoEntity}
    /\ listHandle \in Seq(Handlers)
    /\ added \in Seq([entity : Entities, time : Times])
    /\ gone \subseteq Handlers
    /\ begun \in Seq(Handlers)

\* OnTimer works on entities that are not freed, whatever its handlers destroy,
\* and neither map of ActorTimer keeps one that is (TimeUtils.cpp:160, 233).
NoUseAfterFree ==
    /\ pc \in {"entity", "list", "handler"} => entity \in allocated
    /\ setSubTimer = allocated
    /\ \A t \in Times : actorTimer[t] \subseteq allocated

\* A handler is called at its time or later (TimeUtils.cpp:143), the handlers
\* of one SubTimer by time, those of one time as they were added, each once:
\* also when handlers add and clear timers of the SubTimer that is running.
CalledInOrder ==
    \A k \in DOMAIN begun :
        /\ begun[k] \in DOMAIN added
        /\ added[begun[k]].time <= now
        /\ \A j \in 1 .. k - 1 :
              added[begun[j]].entity = added[begun[k]].entity =>
                  \/ added[begun[j]].time < added[begun[k]].time
                  \/ /\ added[begun[j]].time = added[begun[k]].time
                     /\ begun[j] < begun[k]

\* A SubTimer that has timers is registered for the first of them, or is about
\* to run, unless an earlier run returned in its loop (TimeUtils.cpp:144).
FirstRegistered ==
    \A e \in allocated, t \in Times :
        First(TimesOf(e), t) =>
            e \in actorTimer[t] \/ e \in setTimer \/ bHandleing[e]

\* No handler is called after its SubTimer was destroyed, be it by a handler
\* called before it from the same list (TimeUtils.cpp:148).  None that was still to
\* be called is called after its SubTimer was cleared, but for those of the list that
\* OnTimer has taken before, which Clear does not reach (TimeUtils.cpp:146, 164).
NoneAfterDestroyed ==
    [][begun' # begun => begun'[Len(begun')] \notin gone]_vars

\* A timer that its SubTimer is registered for is called, or cleared, or
\* destroyed with its SubTimer (TimeUtils.cpp:221).
RegisteredIsCalled ==
    \A h \in Handlers :
        (\E e \in Entities, t \in Times :
            h \in {timer[e][t][k] : k \in DOMAIN timer[e][t]} /\ e \in actorTimer[t])
        ~> (h \in gone \/ \E k \in DOMAIN begun : begun[k] = h)
=============================================================================
