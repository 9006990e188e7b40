---------------------------- MODULE ControlSockets ----------------------------
(***************************************************************************)
(* Sessions, and the way of a control request to the engine of one pair.   *)
(*                                                                         *)
(* A login adds a token to a table of the database; answers that found it  *)
(* are remembered for seconds (db/authentication.rs).  A token opens       *)
(* sockets.  One task of a socket sends frames, another receives requests: *)
(* a request is prepared (a pause is persisted), queued behind the earlier *)
(* ones of its socket, waits for room in the engine's inbox, and is        *)
(* checked once more before it is put there (server/routes.rs,             *)
(* handle_socket and dispatch_prepared_control).  A POST takes the same    *)
(* way without the queue.  The removal of the pair retires it all          *)
(* (runtime.rs, remove_pair).                                              *)
(*                                                                         *)
(* Epochs, the answers of the engine and what it does with an action are   *)
(* in TradingStatus.  A password is configured: otherwise every check      *)
(* succeeds.                                                               *)
(***************************************************************************)
EXTENDS Naturals, FiniteSets, FiniteSetsExt, Functions

CONSTANTS
    Tokens,         \* random, so never used twice
    Sources,        \* the addresses logins come from
    Sockets,
    Post,           \* stands for "no socket"
    Capacity,       \* of the engine's inbox
    SourceTries, AllTries, Workers,     \* limits of logins
    MaxLogins, MaxRequests, MaxFaults

VARIABLES
    row,            \* of a token: "none" yet, "fresh", "old" or "gone"
    cached,         \* tokens lately found fresh
    tries, tried,   \* logins begun within the window: by source, and all
    verifying,      \* passwords being verified, by source
    begun,          \* logins begun so far
    out,            \* the sending task of a socket
    req,            \* the requests, in the order they came
    count,          \* how many came
    inbox,          \* how many actions wait for the engine
    engine,         \* "on" until it ends
    retired,
    faults          \* failures so far

session == <<row, cached>>
logins == <<tries, tried, verifying, begun>>
steering == <<req, count, inbox, engine, retired>>
others == <<logins, out, count, engine, retired>>
vars == <<session, logins, out, steering, faults>>

Requests == 1..MaxRequests
Kinds == {"pause", "resume"}

\* live: the token was not revoked when the frame was taken, or when there
\* was room for the request; after: the pauses persisted before it came.
NewRequest(from, t, k, pauses) ==
    [pc |-> "new", from |-> from, token |-> t, kind |-> k, live |-> TRUE,
     after |-> pauses]
NoRequest == [pc |-> "none"]
Closed == [pc |-> "closed"]

Revoked(t) == row[t] = "gone"
Failing == faults < MaxFaults /\ faults' = faults + 1

-----------------------------------------------------------------------------
(* Sessions.                                                               *)

\* The database is asked, under its lock: an old row is deleted, if that works.
Looked(t, ok) ==
    /\ ok = (row[t] = "fresh")
    /\ cached' = IF ok THEN cached \cup {t} ELSE cached \ {t}
    /\ \/ row[t] # "old" /\ UNCHANGED <<row, faults>>
       \/ row[t] = "old" /\ UNCHANGED row /\ Failing
       \/ /\ row[t] = "old" /\ row' = [row EXCEPT ![t] = "gone"]
          /\ UNCHANGED faults

\* An answer to "is this token valid": remembered, looked up, or failed.
Answer(t, ok) ==
    \/ t \in cached /\ ok /\ UNCHANGED <<session, faults>>
    \/ Looked(t, ok)
    \/ ~ok /\ UNCHANGED session /\ Failing

CreateSession(t) ==
    /\ row[t] = "none"
    /\ row' = [row EXCEPT ![t] = "fresh"]
    /\ cached' = cached \ {t}

\* faulty: the row goes, and what is remembered stays
KeepsCached(t) ==
    /\ row' = [row EXCEPT ![t] = "gone"]
    /\ UNCHANGED <<cached, faults>>

\* What is remembered is forgotten first, and stays so if the row does not go.
DeleteSession(t) ==
    /\ cached' = cached \ {t}
    /\ \/ row' = [row EXCEPT ![t] = "gone"] /\ UNCHANGED faults
       \/ UNCHANGED row /\ Failing

Logout(t) ==
    /\ row[t] \in {"fresh", "old"}
    /\ DeleteSession(t)
    /\ UNCHANGED <<logins, out, steering>>

\* Five seconds pass since an answer, or a day since a login.
Forget(t) ==
    /\ t \in cached
    /\ cached' = cached \ {t}
    /\ UNCHANGED <<row, logins, out, steering, faults>>

Age(t) ==
    /\ row[t] = "fresh"
    /\ row' = [row EXCEPT ![t] = "old"]
    /\ UNCHANGED <<cached, logins, out, steering, faults>>

MayTry(s) ==
    /\ SumFunction(verifying) < Workers
    /\ tried < AllTries
    /\ tries[s] < SourceTries

BeginLogin(s) ==
    /\ MayTry(s)
    /\ begun < MaxLogins /\ begun' = begun + 1
    /\ tries' = [tries EXCEPT ![s] = @ + 1]
    /\ tried' = tried + 1
    /\ verifying' = [verifying EXCEPT ![s] = @ + 1]
    /\ UNCHANGED <<session, out, steering, faults>>

\* The verification ends, whoever still waits for it: the password was right,
\* and the source counts anew unless the client is gone; or it was wrong.
Verify(s) ==
    /\ verifying[s] > 0
    /\ verifying' = [verifying EXCEPT ![s] = @ - 1]
    /\ \/ /\ \E t \in Tokens : CreateSession(t)
          /\ tries' \in {tries, [tries EXCEPT ![s] = 0]}
       \/ UNCHANGED <<session, tries>>
    /\ UNCHANGED <<tried, begun, out, steering, faults>>

\* A minute passes since a login was begun, cleared or not.
TryExpires(s) ==
    /\ tried > 0
    /\ tried' = tried - 1
    /\ \/ tries[s] > 0 /\ tries' = [tries EXCEPT ![s] = @ - 1]
       \/ SumFunction(tries) < tried /\ UNCHANGED tries
    /\ UNCHANGED <<session, verifying, begun, out, steering, faults>>

-----------------------------------------------------------------------------
(* The sending task of a socket: "taken" has a frame and checks the token, *)
(* "sending" waits for the client; "upgraded" and "greeting" are the same  *)
(* for the first snapshot, before the receiving task starts.               *)

Unchecked == {"upgraded", "taken"}
Checked == {"greeting", "sending"}

Send(s, pc) == out' = [out EXCEPT ![s].pc = pc]
Close(s) == out' = [out EXCEPT ![s] = Closed]

Take(s, pc, t) ==
    out' = [out EXCEPT ![s] = [pc |-> pc, token |-> t, live |-> ~Revoked(t)]]

\* The upgrade; the first frame is a snapshot.
Connect(s, t) ==
    /\ out[s].pc = "closed" /\ ~retired
    /\ Answer(t, TRUE)
    /\ Take(s, "upgraded", t)
    /\ UNCHANGED <<logins, steering>>

TakeFrame(s) ==
    /\ out[s].pc = "open"
    /\ Take(s, "taken", out[s].token)
    /\ UNCHANGED <<session, logins, steering, faults>>

\* A frame that was vetted is sent unless the pair was retired meanwhile.
CheckFrame(s) ==
    /\ out[s].pc \in Unchecked
    /\ \/ /\ Answer(out[s].token, TRUE)
          /\ IF retired THEN Close(s)
             ELSE Send(s, IF out[s].pc = "taken" THEN "sending" ELSE "greeting")
       \/ Answer(out[s].token, FALSE) /\ Close(s)
    /\ UNCHANGED <<logins, steering>>

Sent(s) ==
    /\ out[s].pc \in Checked /\ ~retired
    /\ Send(s, "open")
    /\ UNCHANGED <<session, logins, steering, faults>>

\* Once a second.
Tick(s) ==
    /\ out[s].pc = "open"
    /\ \/ Answer(out[s].token, TRUE) /\ UNCHANGED out
       \/ Answer(out[s].token, FALSE) /\ Close(s)
    /\ UNCHANGED <<logins, steering>>

\* The client goes, a frame was missed or cannot be sent, or the pair is
\* retired: both tasks end, whatever they wait for.
Disconnect(s) ==
    /\ out[s].pc # "closed"
    /\ Close(s)
    /\ UNCHANGED <<session, logins, steering, faults>>

-----------------------------------------------------------------------------
(* A request: "new" to be prepared, "pausing" under the control lock,      *)
(* "queued" and persisted, "waiting" for room, "reserved", "locked" for    *)
(* the last check, "vetted", "cleared", and in the end "sent" or "failed". *)

Go(r, pc) == req' = [req EXCEPT ![r].pc = pc]
Preparing(r) == req[r].pc \in {"new", "pausing"}
Dispatching(r) ==
    req[r].pc \in {"waiting", "reserved", "locked", "vetted", "cleared"}
Over(r) == req[r].pc \in {"sent", "failed"}

\* Who has read access to the control lock, and who a place in the inbox.
Holds(r) == req[r].pc \in {"pausing", "locked", "vetted", "cleared"}
HasRoom(r) == req[r].pc \in {"reserved", "locked", "vetted", "cleared"}

\* The pauses that were persisted and neither reached the inbox nor failed.
Persisted == {r \in Requests : /\ req[r].pc = "queued" \/ Dispatching(r)
                               /\ req[r].kind = "pause"}

\* pending_control_pauses: the guards alive.
Pending == {r \in Requests : /\ req[r].pc # "none" /\ ~Over(r)
                             /\ req[r].kind = "pause"}

New(from, t, k) ==
    /\ count < MaxRequests
    /\ count' = count + 1
    /\ req' = [req EXCEPT ![count + 1] = NewRequest(from, t, k, Persisted)]

\* The receiving task works while the sending one does, one request at a time.
Receive(s, k) ==
    /\ out[s].pc \in {"open", "taken", "sending"}
    /\ \A r \in Requests : Preparing(r) => req[r].from # s
    /\ \/ Answer(out[s].token, TRUE) /\ New(s, out[s].token, k) /\ UNCHANGED out
       \/ Answer(out[s].token, FALSE) /\ Close(s) /\ UNCHANGED <<req, count>>
    /\ UNCHANGED <<logins, inbox, engine, retired>>

\* A POST with a token, vetted by the middleware.
ReceivePost(t, k) ==
    /\ Answer(t, TRUE)
    /\ New(Post, t, k)
    /\ UNCHANGED <<logins, out, inbox, engine, retired>>

ActsRetired == TRUE   \* faulty: does not read the flag again

MayAct == ~retired

\* prepare_control, which nobody aborts.
Prepare(r) ==
    /\ req[r].pc = "new"
    /\ IF ~MayAct THEN Go(r, "failed")
       ELSE IF req[r].kind = "pause" THEN Go(r, "pausing")
       ELSE Go(r, "queued")
    /\ UNCHANGED <<session, others, inbox, faults>>

\* pause_trading ends; the lock is released.
Pause(r) ==
    /\ req[r].pc = "pausing"
    /\ \/ Go(r, "queued") /\ UNCHANGED faults
       \/ Go(r, "failed") /\ Failing
    /\ UNCHANGED <<session, others, inbox>>

Unordered(r) == TRUE   \* faulty: the worker does not wait

\* The worker of the socket starts the next one when the one before was
\* submitted or failed; it outlives the socket.
InTurn(r) ==
    req[r].from # Post =>
        \A q \in Requests :
            Dispatching(q) \/ (q < r /\ req[q].pc = "queued") =>
                req[q].from # req[r].from

Dispatch(r) ==
    /\ req[r].pc = "queued"
    /\ InTurn(r)
    /\ Go(r, IF retired THEN "failed" ELSE "waiting")
    /\ UNCHANGED <<session, others, inbox, faults>>

Room == inbox + Cardinality({r \in Requests : HasRoom(r)}) < Capacity

\* Retirement comes first, then room, or the end of the inbox.
Reserve(r) ==
    /\ req[r].pc = "waiting"
    /\ \/ (retired \/ engine = "off") /\ Go(r, "failed")
       \/ /\ ~retired /\ engine = "on" /\ Room
          /\ req' = [req EXCEPT ![r].pc = "reserved",
                                 ![r].live = ~Revoked(req[r].token)]
    /\ UNCHANGED <<session, others, inbox, faults>>

\* The control lock is taken; a pause needs no further check, and a POST has
\* no session to lose.
Lock(r) ==
    /\ req[r].pc = "reserved"
    /\ Go(r, IF ~MayAct THEN "failed"
             ELSE IF req[r].kind = "pause" THEN "cleared"
             ELSE IF req[r].from = Post THEN "vetted"
             ELSE "locked")
    /\ UNCHANGED <<session, others, inbox, faults>>

CheckSession(r) ==
    /\ req[r].pc = "locked"
    /\ \/ Answer(req[r].token, TRUE) /\ Go(r, "vetted")
       \/ Answer(req[r].token, FALSE) /\ Go(r, "failed")
    /\ UNCHANGED <<others, inbox>>

\* faulty: does not look for pauses on their way
IgnoresPauses(r) ==
    /\ req[r].pc = "vetted"
    /\ Go(r, "cleared")
    /\ UNCHANGED <<session, others, inbox, faults>>

\* No pause is on its way.
CheckPauses(r) ==
    /\ req[r].pc = "vetted"
    /\ Go(r, IF Pending = {} THEN "cleared" ELSE "failed")
    /\ UNCHANGED <<session, others, inbox, faults>>

Submit(r) ==
    /\ req[r].pc = "cleared"
    /\ Go(r, "sent")
    /\ inbox' = IF engine = "on" THEN inbox + 1 ELSE inbox
    /\ UNCHANGED <<session, others, faults>>

-----------------------------------------------------------------------------
(* The engine, and the removal of the pair.                                *)

TakeAction ==
    /\ inbox > 0
    /\ inbox' = inbox - 1
    /\ UNCHANGED <<session, logins, out, req, count, engine, retired, faults>>

EngineEnds ==
    /\ engine = "on"
    /\ engine' = "off" /\ inbox' = 0
    /\ UNCHANGED <<session, logins, out, req, count, retired, faults>>

\* The removal has the control lock for itself.
Retire ==
    /\ ~retired
    /\ \A r \in Requests : ~Holds(r)
    /\ retired' = TRUE
    /\ UNCHANGED <<session, logins, out, req, count, inbox, engine, faults>>

-----------------------------------------------------------------------------
\* The start of the process clears all sessions.
Init ==
    /\ row = [t \in Tokens |-> "none"] /\ cached = {}
    /\ tries = [s \in Sources |-> 0] /\ tried = 0
    /\ verifying = [s \in Sources |-> 0] /\ begun = 0
    /\ out = [s \in Sockets |-> Closed]
    /\ req = [r \in Requests |-> NoRequest] /\ count = 0
    /\ inbox = 0 /\ engine = "on" /\ retired = FALSE
    /\ faults = 0

SessionStep ==
    \/ \E t \in Tokens : Logout(t) \/ Forget(t) \/ Age(t)
    \/ \E s \in Sources : BeginLogin(s) \/ Verify(s) \/ TryExpires(s)

SocketStep(s) ==
    \/ \E t \in Tokens : Connect(s, t)
    \/ TakeFrame(s) \/ CheckFrame(s) \/ Sent(s) \/ Tick(s) \/ Disconnect(s)
    \/ \E k \in Kinds : Receive(s, k)

RequestStep(r) ==
    \/ Prepare(r) \/ Pause(r) \/ Dispatch(r) \/ Reserve(r) \/ Lock(r)
    \/ CheckSession(r) \/ CheckPauses(r) \/ Submit(r)

Next ==
    \/ SessionStep
    \/ \E s \in Sockets : SocketStep(s)
    \/ \E t \in Tokens, k \in Kinds : ReceivePost(t, k)
    \/ \E r \in Requests : RequestStep(r)
    \/ TakeAction \/ EngineEnds \/ Retire

Spec == Init /\ [][Next]_vars

-----------------------------------------------------------------------------
SocketType ==
    {Closed} \cup
    [pc : Unchecked \cup Checked \cup {"open"}, token : Tokens,
     live : BOOLEAN]

RequestType ==
    {NoRequest} \cup
    [pc : {"new", "pausing", "queued", "waiting", "reserved", "locked",
           "vetted", "cleared", "sent", "failed"},
     from : Sockets \cup {Post}, token : Tokens, kind : Kinds, live : BOOLEAN,
     after : SUBSET Requests]

\* What the variables range over; the inbox never exceeds its capacity.
TypeOK ==
    /\ row \in [Tokens -> {"none", "fresh", "old", "gone"}]
    /\ cached \in SUBSET Tokens
    /\ tries \in [Sources -> 0..SourceTries] /\ tried \in 0..AllTries
    /\ verifying \in [Sources -> 0..Workers] /\ begun \in 0..MaxLogins
    /\ out \in [Sockets -> SocketType]
    /\ req \in [Requests -> RequestType]
    /\ count \in 0..MaxRequests
    /\ \A r \in Requests : req[r].pc # "none" <=> r <= count
    /\ inbox \in 0..Capacity /\ engine \in {"on", "off"}
    /\ retired \in BOOLEAN /\ faults \in 0..MaxFaults

\* What one socket asks for reaches the engine in the order it was asked
\* (handle_socket: the worker waits until each request was submitted).
InOrder ==
    \A q, r \in Requests :
        q < r /\ req[r].pc = "sent" /\ req[q].pc # "none"
              /\ req[q].from = req[r].from /\ req[r].from # Post =>
            Over(q)

\* A pause that was persisted before a resume came reaches the engine before
\* it, whoever asked for either (routes.rs, PendingControlPause: a persisted
\* pause must reach the engine before a later resume can use its epoch).
PausesFirst ==
    \A r \in Requests : req[r].pc = "sent" /\ req[r].kind = "resume" =>
        \A q \in req[r].after : Over(q)

\* A session that has ended gets no frame taken up after its end, and what it
\* asked for does not start the engine, once it had to wait for room
\* (routes.rs, dispatch_prepared_control: checking immediately before
\* submission closes the channel-wait window).
RevokedIsSilent ==
    /\ \A s \in Sockets :
         out[s].pc \in Unchecked /\ out'[s].pc \in Checked => out[s].live
    /\ \A r \in Requests :
         req[r].pc # "sent" /\ req'[r].pc = "sent" =>
             req[r].live \/ req[r].kind = "pause" \/ req[r].from = Post

\* Nothing is persisted or submitted once the pair is retired: the symbol may
\* have been added anew (runtime.rs, remove_pair; routes.rs, prepare_control).
RetiredIsDeaf ==
    retired => \A r \in Requests :
        /\ req'[r].pc # "pausing"
        /\ req'[r].pc \in {"queued", "sent"} => req[r].pc = req'[r].pc
=============================================================================
