------------------------------ MODULE MCProcess ------------------------------
(***************************************************************************)
(* The safety runs of the components that start, stop and steer the        *)
(* process, as scenes of one run: each behaviour is one component's, chosen *)
(* by ProcessInit.  The bounds of the restarts are those of the             *)
(* configuration, the others are given to the INSTANCE of the scene; the    *)
(* status stays at its initial state, the variables of the pairs stay Off.  *)
(***************************************************************************)
EXTENDS TradingStatus, TLC

CONSTANTS eth, btc, sol, ada, Off

VARIABLES
    scene,                                      \* whose behaviour this is
    saved, member, book, inbox, pairs,          \* RuntimeMembership
    published, gate, removing, lock, tradeLock,
    reply, commands, cmd, glob, edit, writers,
    stop, main, used

runtime == <<saved, member, book, inbox, pairs, published, gate, removing,
             lock, tradeLock, reply, commands, cmd, glob, edit, writers,
             stop, main, used>>

\* Two lives: controls, a clean shutdown, its deadline, and crashes between.
RestartInputs == {"pause", "resume", "shutdown", "deadline", "crash"}

\* One life of the process: every control, and what the engine does by itself.
Controls == INSTANCE TradingStatus WITH
    Inputs <- {"pause", "resume", "rebalance", "config", "limit"},
    MaxInputs <- 3, MaxFaults <- 1, MaxEvents <- 4, MaxBoots <- 1

\* Two pairs; two commands or commits, or one and a failure, and a signal.
Pairs == INSTANCE RuntimeMembership WITH
    queue <- commands, Symbols <- {eth, btc}, Initial <- {eth, btc},
    Kinds <- {"command", "commit"}, MaxMembers <- 3, MaxRequests <- 2,
    MaxFaults <- 1, MaxEvents <- 2, Contended <- TRUE

\* Two pairs; an update or an edit, a failure, and a signal.
Configs == INSTANCE RuntimeMembership WITH
    queue <- commands, Symbols <- {eth, btc}, Initial <- {eth, btc},
    Kinds <- {"global", "edit"}, MaxMembers <- 3, MaxRequests <- 1,
    MaxFaults <- 1, MaxEvents <- 2, Contended <- TRUE

\* One pair at the start; two of everything that may be asked, or a failure.
Joining == INSTANCE RuntimeMembership WITH
    queue <- commands, Symbols <- {sol, ada}, Initial <- {sol},
    Kinds <- {"command", "commit", "global", "edit"}, MaxMembers <- 3,
    MaxRequests <- 2, MaxFaults <- 1, MaxEvents <- 2, Contended <- TRUE

\* eth and btc are alike wherever they occur; sol and ada are not.
Interchangeable == Permutations({eth, btc})

\* The status before the first start, in the scenes of the pairs.
StatusIdle == Init /\ db.mode = "PAPER"

RuntimeOff ==
    /\ saved = Off /\ member = Off /\ book = Off /\ inbox = Off
    /\ pairs = Off /\ published = Off /\ gate = Off /\ removing = Off
    /\ lock = Off /\ tradeLock = Off /\ reply = Off /\ commands = Off
    /\ cmd = Off /\ glob = Off /\ edit = Off /\ writers = Off
    /\ stop = Off /\ main = Off /\ used = Off

ProcessInit ==
    \/ scene \in {"restarts", "controls"} /\ Init /\ RuntimeOff
    \/ /\ StatusIdle
       /\ \/ scene = "pairs" /\ Pairs!Init
          \/ scene = "configs" /\ Configs!Init
          \/ scene = "joining" /\ Joining!Init

ProcessNext ==
    /\ UNCHANGED scene
    /\ \/ /\ UNCHANGED runtime
          /\ \/ scene = "restarts" /\ Next
             \/ scene = "controls" /\ Controls!Next
       \/ /\ UNCHANGED vars
          /\ \/ scene = "pairs" /\ Pairs!Next
             \/ scene = "configs" /\ Configs!Next
             \/ scene = "joining" /\ Joining!Next

ProcessSpec == ProcessInit /\ [][ProcessNext]_<<scene, vars, runtime>>

------------------------------------------------------------------------------
\* Every component keeps its type.
TypesOK ==
    /\ TypeOK
    /\ scene = "pairs" => Pairs!TypeOK
    /\ scene = "configs" => Configs!TypeOK
    /\ scene = "joining" => Joining!TypeOK

\* RuntimeMembership: engines and commits of one symbol never overlap, and
\* what is not configured neither trades nor left a position (runtime.rs,
\* remove_pair and add_pair).
PairsHold ==
    /\ scene = "pairs" => Pairs!OneLife /\ Pairs!NothingOrphaned
    /\ scene = "configs" => Configs!OneLife /\ Configs!NothingOrphaned
    /\ scene = "joining" => Joining!OneLife /\ Joining!NothingOrphaned

\* RuntimeMembership: no order leaves under an unsaved global configuration.
DurableOrders ==
    [][/\ scene = "pairs" => Pairs!SendsDurable
       /\ scene = "configs" => Configs!SendsDurable
       /\ scene = "joining" => Joining!SendsDurable]_runtime
==============================================================================
