------------------------------ MODULE MCAnswers ------------------------------
(* The safety run of what is answered from memory, as scenes: the cache of   *)
(* the account; the sessions, with the sockets and the control requests they *)
(* permit; and the frames the account pages share.  A behaviour is one       *)
(* scene; the cache stays at its initial state in the others, and the        *)
(* variables of the rest stay Off.                                           *)
EXTENDS ExchangeCache, TLC

CONSTANTS eth, btc, t1, t2, s1, a1, a2, c1, c2, c3, Post, Off

VARIABLES
    scene,
    row, cached, tries, tried, verifying, begun,  \* ControlSockets
    out, req, count, inbox, engine, retired, faults,
    current, task, client, on, lock               \* AccountHub

cacheVars == <<version, cache, entry, call, invalid, seen, answer, retires>>
sockets == <<row, cached, tries, tried, verifying, begun, out, req, count,
             inbox, engine, retired, faults>>
accounts == <<current, task, client, on, lock>>
allVars == <<scene, cacheVars, sockets, accounts>>

Pair == {eth, btc}
Interchangeable == Permutations(Pair)

\* Four logins from two addresses.
Logins == INSTANCE ControlSockets WITH
    Tokens <- {t1, t2}, Sources <- {a1, a2}, Sockets <- {}, Capacity <- 1,
    SourceTries <- 2, AllTries <- 3, Workers <- 2, MaxLogins <- 4,
    MaxRequests <- 0, MaxFaults <- 1

\* One session, and a socket beside requests without one; an inbox for one.
Console == INSTANCE ControlSockets WITH
    Tokens <- {t1}, Sources <- {a1}, Sockets <- {s1}, Capacity <- 1,
    SourceTries <- 1, AllTries <- 1, Workers <- 1, MaxLogins <- 1,
    MaxRequests <- 2, MaxFaults <- 0

\* The same with one request and a failure.
Faulty == INSTANCE ControlSockets WITH
    Tokens <- {t1}, Sources <- {a1}, Sockets <- {s1}, Capacity <- 1,
    SourceTries <- 1, AllTries <- 1, Workers <- 1, MaxLogins <- 1,
    MaxRequests <- 1, MaxFaults <- 1

\* Three clients come and go.
Hub == INSTANCE AccountHub WITH Clients <- {c1, c2, c3}, MaxChannels <- 3

SocketsOff ==
    /\ row = Off /\ cached = Off /\ tries = Off /\ tried = Off
    /\ verifying = Off /\ begun = Off /\ out = Off /\ req = Off /\ count = Off
    /\ inbox = Off /\ engine = Off /\ retired = Off /\ faults = Off

AccountsOff ==
    /\ current = Off /\ task = Off /\ client = Off /\ on = Off /\ lock = Off

AnswersInit ==
    /\ Init
    /\ \/ scene = "cache" /\ SocketsOff /\ AccountsOff
       \/ scene = "logins" /\ Logins!Init /\ AccountsOff
       \/ scene = "console" /\ Console!Init /\ AccountsOff
       \/ scene = "faulty" /\ Faulty!Init /\ AccountsOff
       \/ scene = "accounts" /\ SocketsOff /\ Hub!Init

AnswersNext ==
    /\ UNCHANGED scene
    /\ \/ scene = "cache" /\ Next /\ UNCHANGED <<sockets, accounts>>
       \/ /\ UNCHANGED <<cacheVars, accounts>>
          /\ \/ scene = "logins" /\ Logins!Next
             \/ scene = "console" /\ Console!Next
             \/ scene = "faulty" /\ Faulty!Next
       \/ scene = "accounts" /\ Hub!Next /\ UNCHANGED <<cacheVars, sockets>>

AnswersSpec == AnswersInit /\ [][AnswersNext]_allVars

-----------------------------------------------------------------------------
\* Every component keeps its type.
TypesOK ==
    /\ TypeOK
    /\ scene = "logins" => Logins!TypeOK
    /\ scene = "console" => Console!TypeOK
    /\ scene = "faulty" => Faulty!TypeOK
    /\ scene = "accounts" => Hub!TypeOK

\* ControlSockets: requests reach the engine in their order, and the pauses
\* before them first (routes.rs, handle_socket and dispatch_prepared_control);
\* AccountHub: who joins is served, all by one task (routes.rs, AccountHub).
ConsoleHolds ==
    /\ scene = "console" => Console!InOrder /\ Console!PausesFirst
    /\ scene = "faulty" => Faulty!InOrder /\ Faulty!PausesFirst
    /\ scene = "accounts" => Hub!Served /\ Hub!OneSampler

\* ControlSockets: an ended session and a removed pair do nothing any more
\* (routes.rs, dispatch_prepared_control and prepare_control).
EndedIsSilent ==
    [][/\ scene = "console" => Console!RevokedIsSilent /\ Console!RetiredIsDeaf
       /\ scene = "faulty" => Faulty!RevokedIsSilent /\ Faulty!RetiredIsDeaf
      ]_sockets
=============================================================================
