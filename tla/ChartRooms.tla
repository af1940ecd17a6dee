------------------------------ MODULE ChartRooms -------------------------------
(***************************************************************************)
(* Which client is in which room of core-backend, and which pairs are      *)
(* armed at Pocket Option for it: the sockets of index.ts, with the rooms  *)
(* of services/websocket.service.ts, and the hook by which a page of the   *)
(* client subscribes (client-app/src/hooks/useWebSocket.ts).  The hook is  *)
(* mounted twice on the chart's page, each with references of its own.     *)
(*                                                                         *)
(* A broken connection is noticed by the two ends in either order, so that *)
(* a session may outlive its client; what a session was in is kept for its *)
(* client to come back to (connectionStateRecovery).                       *)
(***************************************************************************)
EXTENDS Naturals, Sequences

CONSTANTS
    Clients,
    Symbols,
    Frames,         \* of the chart
    MaxMoves,       \* bound: what the users do
    MaxBreaks       \* bound: broken connections, and starts of the process

ASSUME RoomsAssumption ==
    /\ Symbols # {} /\ "none" \notin Symbols /\ Frames # {}
    /\ MaxMoves \in Nat /\ MaxBreaks \in Nat

VARIABLES
    page,       \* what each client shows: a symbol, a frame, the chart or not
    refs,       \* subscribedSymbolRef and lastSubscribedTfRef of each hook
    pipe,       \* the connection: both ends have it, or it is cut, or closed
    wire,       \* frames on their way; or, if closed, kept until it is open
    socket,     \* the socket core-backend has for the connection
    ghosts,     \* sockets whose clients have another by now
    kept,       \* what connectionStateRecovery holds for each client
    armed,      \* poArmedByClient
    left        \* what is left of the bounds

roomVars == <<page, refs, pipe, wire, socket, ghosts, kept, armed, left>>

Hooks == {"header", "page"}
NoRef == [sym |-> "none", frame |-> "none"]
NoSession == [rooms |-> {}, active |-> NoRef, restored |-> FALSE, up |-> FALSE]

Refs == [sym : Symbols \cup {"none"}, frame : Frames \cup {"none"}]
Rooms == Symbols \X (Frames \cup {"all"})
Sessions == [rooms : SUBSET Rooms, active : Refs, restored : BOOLEAN, up : BOOLEAN]
(* The two rooms of a chart: the symbol, and the symbol at its frame.            *)
RoomsOf(s, f) == {<<s, "all">>, <<s, f>>}

Messages ==
    [kind : {"subscribe"}, sym : Symbols, frame : Frames]
        \cup [kind : {"unsubscribe_symbol"}, sym : Symbols, frame : Frames \cup {"none"}]
Pages == [sym : Symbols, frame : Frames, chart : BOOLEAN]

RoomsTypeOK ==
    /\ page \in [Clients -> Pages]
    /\ refs \in [Clients -> [Hooks -> Refs]]
    /\ pipe \in [Clients -> {"open", "cut", "closed"}]
    /\ wire \in [Clients -> Seq(Messages)]
    /\ socket \in [Clients -> Sessions]
    /\ ghosts \subseteq Sessions
    /\ kept \in [Clients -> Sessions]
    /\ armed \subseteq Symbols
    /\ left \in [moves : 0..MaxMoves, breaks : 0..MaxBreaks]

RoomsInit ==
    /\ \E s \in Symbols, f \in Frames, shows \in BOOLEAN :
        page = [c \in Clients |-> [sym |-> s, frame |-> f, chart |-> shows]]
    /\ refs = [c \in Clients |-> [h \in Hooks |-> NoRef]]
    /\ pipe = [c \in Clients |-> "closed"]
    /\ wire = [c \in Clients |-> <<>>]
    /\ socket = [c \in Clients |-> NoSession] /\ ghosts = {}
    /\ kept = [c \in Clients |-> NoSession]
    /\ armed = {}
    /\ left = [moves |-> MaxMoves, breaks |-> MaxBreaks]

Move == left.moves > 0 /\ left' = [left EXCEPT !.moves = @ - 1]
Break == left.breaks > 0 /\ left' = [left EXCEPT !.breaks = @ - 1]

-----------------------------------------------------------------------------
(* The client.                                                                 *)

Subscribe(s, f) == [kind |-> "subscribe", sym |-> s, frame |-> f]
Unsubscribe(s, f) == [kind |-> "unsubscribe_symbol", sym |-> s, frame |-> f]

(* emitSubscribe of a hook with reference r.                                   *)
Emitted(r, p) ==
    (IF r.sym \notin {"none", p.sym} THEN <<Unsubscribe(r.sym, r.frame)>> ELSE <<>>)
        \o <<Subscribe(p.sym, p.frame)>>

Referring(p) == [sym |-> p.sym, frame |-> p.frame]

(* What is written to a connection that is cut is lost.                        *)
Emits(c, messages) ==
    wire' = [wire EXCEPT ![c] = IF pipe[c] = "cut" THEN @ ELSE @ \o messages]

(* The chart's effect on another symbol: it unsubscribes from the last one and  *)
(* subscribes, in the hook of the page alone.                                  *)
SelectSymbol(c, s) ==
    /\ page[c].chart /\ s # page[c].sym /\ Move
    /\ page' = [page EXCEPT ![c].sym = s]
    /\ refs' = [refs EXCEPT ![c]["page"] = Referring(page'[c])]
    /\ LET r == refs[c]["page"]
           after == IF r.sym = page[c].sym THEN NoRef ELSE r
       IN Emits(c, <<Unsubscribe(page[c].sym, r.frame)>> \o Emitted(after, page'[c]))
    /\ UNCHANGED <<pipe, socket, ghosts, kept, armed>>

(* Another frame: both hooks have set their reference to it before they emit.  *)
(* Without a connection nothing is emitted.                                    *)
SelectFrame(c, f) ==
    /\ page[c].chart /\ f # page[c].frame /\ Move
    /\ page' = [page EXCEPT ![c].frame = f]
    /\ IF pipe[c] = "closed" THEN UNCHANGED <<refs, wire>>
       ELSE /\ refs' = [refs EXCEPT ![c] = [h \in Hooks |-> Referring(page'[c])]]
            /\ Emits(c, Emitted([refs[c]["header"] EXCEPT !.frame = f], page'[c])
                            \o Emitted([refs[c]["page"] EXCEPT !.frame = f], page'[c]))
    /\ UNCHANGED <<pipe, socket, ghosts, kept, armed>>

(* The user leaves the chart for another page of the dashboard, or comes back.  *)
LeaveChart(c) ==
    /\ page[c].chart /\ Move
    /\ page' = [page EXCEPT ![c].chart = FALSE]
    /\ refs' = [refs EXCEPT ![c]["page"] = NoRef]
    /\ Emits(c, <<Unsubscribe(page[c].sym, refs[c]["page"].frame)>>)
    /\ UNCHANGED <<pipe, socket, ghosts, kept, armed>>

EnterChart(c) ==
    /\ ~page[c].chart /\ Move
    /\ page' = [page EXCEPT ![c].chart = TRUE]
    /\ refs' = [refs EXCEPT ![c]["page"] = Referring(page'[c])]
    /\ Emits(c, Emitted(NoRef, page'[c]))
    /\ UNCHANGED <<pipe, socket, ghosts, kept, armed>>

Mounted(c) == IF page[c].chart THEN Hooks ELSE {"header"}

(* mutant: a hook sends only what it has not sent already                       *)
RejoinIfMoved(c) ==
    IF page[c].chart /\ refs[c]["page"] # Referring(page[c])
    THEN Emitted(refs[c]["page"], page[c]) ELSE <<>>

(* What the hooks send when the connection is made, after what was kept for it    *)
(* has gone out.                                                               *)
Rejoin(c) ==
    Emitted(refs[c]["header"], page[c])
        \o (IF page[c].chart THEN Emitted(refs[c]["page"], page[c]) ELSE <<>>)

(* The connection is made.  A session that is kept may be restored.              *)
Connect(c) ==
    /\ pipe[c] = "closed"
    /\ pipe' = [pipe EXCEPT ![c] = "open"]
    /\ \E back \in IF kept[c].up THEN BOOLEAN ELSE {FALSE} :
        socket' = [socket EXCEPT
            ![c] = IF back THEN [kept[c] EXCEPT !.restored = TRUE] ELSE [NoSession EXCEPT !.up = TRUE]]
    /\ ghosts' = IF socket[c].up THEN ghosts \cup {socket[c]} ELSE ghosts
    /\ kept' = [kept EXCEPT ![c] = NoSession]
    /\ wire' = [wire EXCEPT
            ![c] = @ \o Rejoin(c)]
    /\ refs' = [refs EXCEPT ![c] = [h \in Hooks |-> IF h \in Mounted(c) THEN Referring(page[c]) ELSE @[h]]]
    /\ UNCHANGED <<page, armed, left>>

-----------------------------------------------------------------------------
(* Connections break.                                                          *)

Cut(c) ==
    /\ pipe[c] = "open" /\ Break
    /\ pipe' = [pipe EXCEPT ![c] = "cut"]
    /\ wire' = [wire EXCEPT ![c] = <<>>]
    /\ UNCHANGED <<page, refs, socket, ghosts, kept, armed>>

ClientNotices(c) ==
    /\ pipe[c] = "cut"
    /\ pipe' = [pipe EXCEPT ![c] = "closed"]
    /\ UNCHANGED <<page, refs, wire, socket, ghosts, kept, armed, left>>

(* A socket is in the room of the symbol, once the sockets are as given.         *)
InRoom(s, sockets, old) ==
    \/ \E c \in Clients : <<s, "all">> \in sockets[c].rooms
    \/ \E g \in old : <<s, "all">> \in g.rooms

(* mutant: the pair is given up for everybody *)
DisarmedForAll(s, sockets, old) == armed \ {s}

(* hasSymbolRoomSubscribers, and requestSymbolUnsubscription if there is none.  *)
Disarmed(s, sockets, old) == IF InRoom(s, sockets, old) THEN armed ELSE armed \ {s}

(* The handler of "disconnect": the rooms have been left by then.               *)
SessionEnds(c) ==
    /\ socket[c].up /\ pipe[c] # "open"
    /\ socket' = [socket EXCEPT ![c] = NoSession]
    /\ kept' = [kept EXCEPT ![c] = socket[c]]
    /\ armed' = Disarmed(socket[c].active.sym, socket', ghosts)
    /\ UNCHANGED <<page, refs, pipe, wire, ghosts, left>>

GhostEnds(g) ==
    /\ ghosts' = ghosts \ {g}
    /\ armed' = Disarmed(g.active.sym, socket, ghosts')
    /\ UNCHANGED <<page, refs, pipe, wire, socket, kept, left>>

(* The process stops and starts: nothing of it was stored.                      *)
BackendRestarts ==
    /\ Break
    /\ socket' = [c \in Clients |-> NoSession] /\ ghosts' = {}
    /\ kept' = [c \in Clients |-> NoSession] /\ armed' = {}
    /\ pipe' = [c \in Clients |-> IF pipe[c] = "open" THEN "cut" ELSE pipe[c]]
    /\ wire' = [c \in Clients |-> IF pipe[c] = "open" THEN <<>> ELSE wire[c]]
    /\ UNCHANGED <<page, refs>>

-----------------------------------------------------------------------------
(* The handlers of a socket.                                                    *)

Serves(c, kind) == pipe[c] = "open" /\ wire[c] # <<>> /\ wire[c][1].kind = kind

(* "subscribe": the rooms of another symbol are left, those of another frame of *)
(* this one are not.                                                            *)
HandleSubscribe(c) ==
    /\ Serves(c, "subscribe")
    /\ LET m == wire[c][1]
           was == socket[c].active
           leaves == was.sym \notin {"none", m.sym}
           rooms == socket[c].rooms \cup RoomsOf(m.sym, m.frame)
       IN /\ socket' = [socket EXCEPT ![c] =
                [rooms |-> IF leaves THEN rooms \ RoomsOf(was.sym, was.frame) ELSE rooms,
                 active |-> Referring(m), restored |-> FALSE, up |-> TRUE]]
          /\ armed' = (IF leaves THEN Disarmed(was.sym, socket', ghosts) ELSE armed) \cup {m.sym}
    /\ wire' = [wire EXCEPT ![c] = Tail(@)]
    /\ UNCHANGED <<page, refs, pipe, ghosts, kept, left>>

HandleUnsubscribe(c) ==
    /\ Serves(c, "unsubscribe_symbol")
    /\ LET m == wire[c][1]
           was == socket[c].active
           frame == IF was.sym = m.sym THEN was.frame ELSE m.frame
       IN /\ socket' = [socket EXCEPT
                ![c].rooms = @ \ RoomsOf(m.sym, frame),
                ![c].active = IF was.sym = m.sym THEN NoRef ELSE was]
          /\ armed' = Disarmed(m.sym, socket', ghosts)
    /\ wire' = [wire EXCEPT ![c] = Tail(@)]
    /\ UNCHANGED <<page, refs, pipe, ghosts, kept, left>>

-----------------------------------------------------------------------------
UserMoves(c) ==
    \/ \E s \in Symbols : SelectSymbol(c, s)
    \/ \E f \in Frames : SelectFrame(c, f)
    \/ LeaveChart(c) \/ EnterChart(c)

Settles(c) ==
    Connect(c) \/ ClientNotices(c) \/ SessionEnds(c) \/ HandleSubscribe(c) \/ HandleUnsubscribe(c)

RoomsNext ==
    \/ \E c \in Clients : UserMoves(c) \/ Settles(c) \/ Cut(c)
    \/ \E g \in ghosts : GhostEnds(g)
    \/ BackendRestarts

RoomsSpec == RoomsInit /\ [][RoomsNext]_roomVars

-----------------------------------------------------------------------------
Watched(k) == {s \in Symbols : <<s, "all">> \in k.rooms}

(* A pair streams from Pocket Option exactly while a chart is in its room,      *)
(* whoever joins, leaves, breaks off or outlives its client: none is armed for   *)
(* nobody, and none that a chart has subscribed to is given up.  (A session that *)
(* was restored gets its pair back with its client's next frame.)               *)
ArmedIffWatched ==
    /\ \A s \in armed : InRoom(s, socket, ghosts)
    /\ \A c \in Clients : ~socket[c].restored => Watched(socket[c]) \subseteq armed
    /\ \A g \in ghosts : ~g.restored => Watched(g) \subseteq armed

(* "The room can never be lost with the client believing it is attached": when a  *)
(* connection holds and all its frames are handled, its chart is in the rooms of   *)
(* its symbol and frame.                                                         *)
ChartAttached ==
    \A c \in Clients : pipe[c] = "open" /\ wire[c] = <<>> /\ page[c].chart =>
        RoomsOf(page[c].sym, page[c].frame) \subseteq socket[c].rooms
=============================================================================
