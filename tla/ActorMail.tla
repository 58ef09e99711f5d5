------------------------------ MODULE ActorMail ------------------------------
(***************************************************************************)
(* What LibActor promises to its users, without lists, locks or threads:    *)
(* each actor has one queue, runs one handler at a time, takes messages     *)
(* first in, first out, each once, and loses its queue only when it is      *)
(* deleted, which waits for the handler that is running.                    *)
(***************************************************************************)
EXTENDS Sequences

CONSTANTS Mailboxes, Messages, NoMsg

VARIABLES
    open,      \* the mailboxes that have an actor
    queue,     \* the messages an actor was sent and has not begun
    running    \* the message an actor is handling, or NoMsg

mailbox == <<open, queue, running>>

MailInit ==
    /\ open = [m \in Mailboxes |-> FALSE]
    /\ queue = [m \in Mailboxes |-> <<>>]
    /\ running = [m \in Mailboxes |-> NoMsg]

Open(m) ==
    /\ open' = [open EXCEPT ![m] = TRUE]
    /\ UNCHANGED <<queue, running>>

Send(m, x) ==
    /\ open[m]
    /\ queue' = [queue EXCEPT ![m] = Append(@, x)]
    /\ UNCHANGED <<open, running>>

Begin(m) ==
    /\ open[m]
    /\ running[m] = NoMsg
    /\ queue[m] # <<>>
    /\ running' = [running EXCEPT ![m] = Head(queue[m])]
    /\ queue' = [queue EXCEPT ![m] = Tail(@)]
    /\ UNCHANGED open

Finish(m) ==
    /\ running[m] # NoMsg
    /\ running' = [running EXCEPT ![m] = NoMsg]
    /\ UNCHANGED <<open, queue>>

Close(m) ==
    /\ open[m]
    /\ running[m] = NoMsg
    /\ open' = [open EXCEPT ![m] = FALSE]
    /\ queue' = [queue EXCEPT ![m] = <<>>]
    /\ UNCHANGED running

MailNext ==
    \E m \in Mailboxes :
        \/ Open(m) \/ Begin(m) \/ Finish(m) \/ Close(m)
        \/ \E x \in Messages : Send(m, x)

MailSpec == MailInit /\ [][MailNext]_mailbox
=============================================================================
