------------------------------ MODULE AccountHub ------------------------------
(***************************************************************************)
(* The sampler of the account pages (server/routes.rs, AccountHub): the    *)
(* clients of one registry share a task that collects a frame every second *)
(* and puts it into a watch channel.  The first client starts it; it stops *)
(* when the last one has left.  A client may leave at any moment, without  *)
(* the lock that subscribing and stopping take.                            *)
(*                                                                         *)
(* Frames are left out: one task writes them one after the other.          *)
(***************************************************************************)
EXTENDS Naturals

CONSTANTS Clients, MaxChannels

Channels == 1..MaxChannels

VARIABLES
    current,    \* the channel new clients are given, or 0
    task,       \* of a channel: "none" yet, "running", "closing" or "failing"
                \* on its way to the lock, "gone" or "failed" for good
    client,     \* "out", "waiting" for the lock, "joining" with it, or "on"
    on,         \* the channel of a client that is "on", or 0
    lock        \* the client that is joining, if any: else the lock is free

vars == <<current, task, client, on, lock>>

Receivers(k) == {c \in Clients : on[c] = k}
Free == lock = {}

-----------------------------------------------------------------------------
(* subscribe, for a client whose token was found valid.                    *)

Ask(c) ==
    /\ client[c] = "out"
    /\ client' = [client EXCEPT ![c] = "waiting"]
    /\ UNCHANGED <<current, task, on, lock>>

\* Somebody receives from the channel: it can be shared.
LookShared(c) ==
    /\ client[c] = "waiting" /\ Free
    /\ current # 0 /\ Receivers(current) # {}
    /\ client' = [client EXCEPT ![c] = "joining"]
    /\ lock' = {c}
    /\ UNCHANGED <<current, task, on>>

\* Nobody does: a new channel and a new task.
Start(c) ==
    /\ client[c] = "waiting" /\ Free
    /\ current = 0 \/ Receivers(current) = {}
    /\ \E k \in Channels :
         /\ task[k] = "none" /\ \A j \in Channels : j < k => task[j] # "none"
         /\ task' = [task EXCEPT ![k] = "running"]
         /\ current' = k
         /\ on' = [on EXCEPT ![c] = k]
    /\ client' = [client EXCEPT ![c] = "on"]
    /\ UNCHANGED lock

Join(c) ==
    /\ client[c] = "joining"
    /\ client' = [client EXCEPT ![c] = "on"]
    /\ on' = [on EXCEPT ![c] = current]
    /\ lock' = {}
    /\ UNCHANGED <<current, task>>

\* The socket ends: it was closed or too slow, its session is over, its pair
\* was removed, or nobody is left to write to its channel.
Leave(c) ==
    /\ client[c] = "on"
    /\ client' = [client EXCEPT ![c] = "out"]
    /\ on' = [on EXCEPT ![c] = 0]
    /\ UNCHANGED <<current, task, lock>>

-----------------------------------------------------------------------------
(* The task of a channel.                                                  *)

Step(k, pc) == task' = [task EXCEPT ![k] = pc]

\* No receiver is left, which comes before the next frame.
SeesClosed(k) ==
    /\ task[k] = "running" /\ Receivers(k) = {}
    /\ Step(k, "closing")
    /\ UNCHANGED <<current, client, on, lock>>

\* A frame cannot be encoded.
Fail(k) ==
    /\ task[k] = "running" /\ Receivers(k) # {}
    /\ Step(k, "failing")
    /\ UNCHANGED <<current, client, on, lock>>

Withdraw(k) == current' = IF current = k THEN 0 ELSE current

\* faulty: does not see who joined since
StopsAnyway(k) ==
    /\ task[k] = "closing" /\ Free
    /\ Step(k, "gone") /\ Withdraw(k)
    /\ UNCHANGED <<client, on, lock>>

\* With the lock: somebody may have joined since.
Stop(k) ==
    /\ task[k] = "closing" /\ Free
    /\ \/ Receivers(k) # {} /\ Step(k, "running") /\ UNCHANGED current
       \/ Receivers(k) = {} /\ Step(k, "gone") /\ Withdraw(k)
    /\ UNCHANGED <<client, on, lock>>

GiveUp(k) ==
    /\ task[k] = "failing" /\ Free
    /\ Step(k, "failed") /\ Withdraw(k)
    /\ UNCHANGED <<client, on, lock>>

-----------------------------------------------------------------------------
Init ==
    /\ current = 0
    /\ task = [k \in Channels |-> "none"]
    /\ client = [c \in Clients |-> "out"]
    /\ on = [c \in Clients |-> 0]
    /\ lock = {}

Next ==
    \/ \E c \in Clients :
         Ask(c) \/ LookShared(c) \/ Start(c) \/ Join(c) \/ Leave(c)
    \/ \E k \in Channels : SeesClosed(k) \/ Fail(k) \/ Stop(k) \/ GiveUp(k)

Spec == Init /\ [][Next]_vars

-----------------------------------------------------------------------------
TypeOK ==
    /\ current \in Channels \cup {0}
    /\ task \in [Channels ->
                   {"none", "running", "closing", "failing", "gone", "failed"}]
    /\ client \in [Clients -> {"out", "waiting", "joining", "on"}]
    /\ on \in [Clients -> Channels \cup {0}]
    /\ \A c \in Clients : client[c] = "on" <=> on[c] # 0
    /\ \A c \in Clients : client[c] = "joining" <=> lock = {c}

\* A client that joined while the last one before it left is not turned away:
\* its task goes on, unless frames cannot be encoded (AccountHub::subscribe: a
\* subscriber may arrive after closed() becomes ready).
Served == \A c \in Clients : client[c] = "on" => task[on[c]] # "gone"

\* All clients share one task, those apart whose channel is failing
\* (AccountHub: clients share collection and JSON encoding).
OneSampler ==
    \A c, d \in Clients :
        /\ client[c] = "on" /\ task[on[c]] \in {"running", "closing"}
        /\ client[d] = "on" /\ task[on[d]] \in {"running", "closing"}
        => on[c] = on[d]
=============================================================================
