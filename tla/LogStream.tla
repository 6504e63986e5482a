------------------------------ MODULE LogStream -------------------------------
(***************************************************************************)
(* The live log of one deployment: the worker that writes it, the script    *)
(* that numbers, buffers and publishes every entry in Redis, the LogHub of  *)
(* the dashboard with its one subscription, the handlers that replay the    *)
(* buffer to a viewer before they follow, and the browsers that reconnect   *)
(* with the last event id they saw.                                         *)
(*                                                                          *)
(* An entry reaches a browser over two roads, the buffer and the channel,   *)
(* on two connections nothing orders.                                       *)
(***************************************************************************)
EXTENDS Integers, Sequences, FiniteSets, SequencesExt

CONSTANTS
    Browsers,    \* who looks at the log
    MaxChunks,   \* bound: chunks of the log
    Capacity,    \* LOG_BUFFER_MAX_ENTRIES
    MaxConns,    \* bound: connections all browsers make
    Faults       \* what may go wrong in this instance

FaultKinds == {"crash", "quiet", "lost"}

ASSUME LogAssumption ==
    /\ MaxChunks \in Nat
    /\ Capacity \in Nat \ {0}
    /\ MaxConns \in Nat
    /\ Faults \subseteq FaultKinds

Conns  == 1..MaxConns
NoConn == 0
EndMark   == MaxChunks + 1    \* stands for the `end' message

VARIABLES
    worker,      \* the deploy job: which part of its log is behind it
    status,      \* of the deployment's row: in flight or settled
    archive,     \* the deployment_logs row that points at the file is there
    written,     \* chunks written so far
    wire,        \* published by the worker, not at Redis yet
    seq,         \* noddle-logseq
    buffer,      \* noddle-logbuf
    subscribed,  \* Redis sends what is published to the hub
    commands,    \* SUBSCRIBE and UNSUBSCRIBE under way to Redis
    feed,        \* replies and messages under way to the hub
    listening,   \* LogHub.listeners has a set for the channel
    listeners,   \* the members of that set
    conn,        \* the handlers, one per request
    browser,     \* the EventSources
    marred       \* what happened that may lose an entry

deploy == <<worker, status, archive, written>>
redis  == <<seq, buffer>>
hub    == <<listening, listeners>>
vars   == <<deploy, wire, redis, subscribed, commands, feed, hub, conn, browser, marred>>

-----------------------------------------------------------------------------
(* Types *)

Entry == [n : 1..EndMark, seq : Nat \ {0}]

Frame == [kind : {"entry", "reset", "omitted", "archived", "unkept", "end"},
          n : 0..EndMark, id : Nat]
Plain(kind) == [kind |-> kind, n |-> 0, id |-> 0]

Conn == [ pc        : {"unused", "subscribe", "await", "backlog", "replay", "archive", "live"},
          resume    : Nat,           \* Last-Event-ID, 0 for none
          finished  : BOOLEAN,       \* the status was terminal when it was read
          mine      : BOOLEAN,       \* the set it awaits is still the hub's
          plan      : Seq(Entry),    \* the backlog it read
          pending   : Seq(Entry),    \* heard before the replay was flushed
          delivered : Nat,
          closed    : BOOLEAN,
          out       : Seq(Frame) ]   \* on its way to the browser

Unused == [ pc |-> "unused", resume |-> 0, finished |-> FALSE, mine |-> FALSE,
            plan |-> <<>>, pending |-> <<>>, delivered |-> 0, closed |-> FALSE, out |-> <<>> ]

\* The text is the chunks on the screen; `gone' where the notice of omitted
\* output, or of a log that was not kept, stands for its beginning.
Browser == [ state  : {"idle", "connecting", "open", "ended"},
             conn   : Conns \cup {NoConn},
             screen : Seq(1..MaxChunks),
             gone   : BOOLEAN,
             lastId : Nat ]

TypeOK ==
    /\ worker \in {"running", "settled", "archived", "done", "dead", "recovered"}
    /\ status \in {"running", "settled"}
    /\ archive \in BOOLEAN
    /\ written \in 0..MaxChunks
    /\ wire \in Seq(1..EndMark)
    /\ seq \in Nat
    /\ buffer \in Seq(Entry) /\ Len(buffer) <= Capacity
    /\ subscribed \in BOOLEAN
    /\ commands \in Seq(Conns \cup {NoConn})
    /\ feed \in Seq([ack : Conns \cup {NoConn}, entry : Entry \cup {[n |-> 0, seq |-> 0]}])
    /\ listening \in BOOLEAN
    /\ listeners \subseteq Conns
    /\ conn \in [Conns -> Conn]
    /\ browser \in [Browsers -> Browser]
    /\ marred \subseteq {"overlap", "lost", "quiet"}

\* The elements of s that are in T, in their order.
Among(s, T) == FoldLeft(LAMBDA kept, e : IF e \in T THEN Append(kept, e) ELSE kept, <<>>, s)

Ack(h)     == [ack |-> h, entry |-> [n |-> 0, seq |-> 0]]
Message(e) == [ack |-> NoConn, entry |-> e]

-----------------------------------------------------------------------------
(* The worker: the log sink of runDeploy, its finally, announceEnd *)

Write ==
    /\ worker = "running"
    /\ written < MaxChunks
    /\ written' = written + 1
    /\ wire' = Append(wire, written + 1)
    /\ UNCHANGED <<worker, status, archive, redis, subscribed, commands, feed, hub, conn, browser, marred>>

\* The row becomes terminal before the log is closed and pointed at.
Settle ==
    /\ worker = "running"
    /\ worker' = "settled"
    /\ status' = "settled"
    /\ UNCHANGED <<archive, written, wire, redis, subscribed, commands, feed, hub, conn, browser, marred>>

InsertPointer ==
    /\ worker = "settled"
    /\ worker' = "archived"
    /\ archive' = TRUE
    /\ UNCHANGED <<status, written, wire, redis, subscribed, commands, feed, hub, conn, browser, marred>>

\* Mutant: not on every path.
AnnounceEndOrNot ==
    /\ worker = "archived"
    /\ worker' = "done"
    /\ wire' \in {wire, Append(wire, EndMark)}
    /\ UNCHANGED <<status, archive, written, redis, subscribed, commands, feed, hub, conn, browser, marred>>

AnnounceEnd ==
    /\ worker = "archived"
    /\ worker' = "done"
    /\ wire' = Append(wire, EndMark)
    /\ UNCHANGED <<status, archive, written, redis, subscribed, commands, feed, hub, conn, browser, marred>>

\* The worker dies; what it published and Redis has not seen is lost.
Die ==
    /\ "crash" \in Faults
    /\ worker \in {"running", "settled", "archived"}
    /\ worker' = "dead"
    /\ wire' = <<>>
    /\ UNCHANGED <<status, archive, written, redis, subscribed, commands, feed, hub, conn, browser, marred>>

\* recoverStaleDeployments settles the row and announces nothing.
Recover ==
    /\ worker = "dead"
    /\ worker' = "recovered"
    /\ status' = "settled"
    /\ UNCHANGED <<archive, written, wire, redis, subscribed, commands, feed, hub, conn, browser, marred>>

Worker == Write \/ Settle \/ InsertPointer \/ AnnounceEnd \/ Die \/ Recover

-----------------------------------------------------------------------------
(* Redis *)

\* Mutant: without its LTRIM.
PublishUntrimmed ==
    /\ wire # <<>>
    /\ LET e == [n |-> Head(wire), seq |-> seq + 1]
       IN  /\ seq' = e.seq
           /\ buffer' = Append(buffer, e)
           /\ feed' = IF subscribed THEN Append(feed, Message(e)) ELSE feed
    /\ wire' = Tail(wire)
    /\ UNCHANGED <<deploy, subscribed, commands, hub, conn, browser, marred>>

\* LOG_PUBLISH_SCRIPT, one step of Redis.
Publish ==
    /\ wire # <<>>
    /\ LET e == [n |-> Head(wire), seq |-> seq + 1]
           b == Append(buffer, e)
       IN  /\ seq' = e.seq
           /\ buffer' = IF Len(b) > Capacity THEN Tail(b) ELSE b
           /\ feed' = IF subscribed THEN Append(feed, Message(e)) ELSE feed
    /\ wire' = Tail(wire)
    /\ UNCHANGED <<deploy, subscribed, commands, hub, conn, browser, marred>>

\* LOG_BUFFER_TTL_SECONDS without an entry: counter and buffer go together.
\* After the end that is a matter of time; before, the build was quiet for as
\* long, and the next entry is number 1 again.  Whatever was under way arrives
\* well before.
Expire ==
    /\ seq > 0
    /\ wire = <<>> /\ feed = <<>> /\ commands = <<>>
    /\ \A h \in Conns : conn[h].pc \in {"unused", "live"}
    /\ worker \in {"done", "recovered"} \/ "quiet" \in Faults
    /\ seq' = 0
    /\ buffer' = <<>>
    /\ marred' = IF worker \in {"done", "recovered"} THEN marred ELSE marred \cup {"quiet"}
    /\ UNCHANGED <<deploy, wire, subscribed, commands, feed, hub, conn, browser>>

\* A command of the hub's connection; NoConn stands for UNSUBSCRIBE.
Command ==
    /\ commands # <<>>
    /\ commands' = Tail(commands)
    /\ subscribed' = (Head(commands) # NoConn)
    /\ feed' = IF Head(commands) # NoConn THEN Append(feed, Ack(Head(commands))) ELSE feed
    /\ UNCHANGED <<deploy, wire, redis, hub, conn, browser, marred>>

\* The hub's connection breaks; ioredis comes back, subscribes again and
\* repeats its unanswered commands, but messages are gone.
Reconnect ==
    /\ "lost" \in Faults
    /\ \E i \in DOMAIN feed : feed[i].ack = NoConn
    /\ feed' = Among(feed, {m \in ToSet(feed) : m.ack # NoConn})
    /\ marred' = marred \cup {"lost"}
    /\ UNCHANGED <<deploy, wire, redis, subscribed, commands, hub, conn, browser>>

Redis == Publish \/ Expire \/ Command \/ Reconnect

-----------------------------------------------------------------------------
(* LogHub, sseChannel and replayer: what handlers share *)

Send(c, f) == IF c.closed THEN c ELSE [c EXCEPT !.out = Append(@, f)]

\* Mutant: nothing is recognised as delivered before.
DeliverAgain(c, e) ==
    [Send(c, [kind |-> "entry", n |-> e.n, id |-> e.seq])
        EXCEPT !.delivered = e.seq, !.closed = @ \/ e.n = EndMark]

\* replayer.deliver
Deliver(c, e) ==
    IF e.seq <= c.delivered THEN c
    ELSE [Send(c, [kind |-> "entry", n |-> e.n, id |-> e.seq])
            EXCEPT !.delivered = e.seq, !.closed = @ \/ e.n = EndMark]

DeliverAll(c, entries) == FoldLeft(Deliver, c, entries)

\* Mutant: the subscription outlives its last listener.
CancelQuietly(next, leaving) ==
    /\ listeners' = listeners \ leaving
    /\ listening' = listening
    /\ commands' = commands
    /\ conn' = next

\* The unsubscribe of every handler in `leaving', after which the handlers are
\* as in `next'.  The set goes with its last member, also under a handler that
\* created it and still awaits its SUBSCRIBE.
Cancel(next, leaving) ==
    LET rest  == listeners \ leaving
        drops == listening /\ leaving # {} /\ rest = {}
    IN  /\ listeners' = rest
        /\ listening' = (listening /\ ~drops)
        /\ commands' = IF drops THEN Append(commands, NoConn) ELSE commands
        /\ conn' = [h \in Conns |->
                      IF drops /\ next[h].pc = "await" THEN [next[h] EXCEPT !.mine = FALSE]
                      ELSE next[h]]

\* The source of a handler returned: its cancel is known, or due at once.
Returned(c) == [c EXCEPT !.pc = "live", !.plan = <<>>, !.pending = <<>>]

\* A message reaches the hub: the handlers that replay keep it for later.
Hear ==
    /\ feed # <<>> /\ Head(feed).ack = NoConn
    /\ feed' = Tail(feed)
    /\ LET e    == Head(feed).entry
           next == [h \in Conns |->
                      IF h \notin listeners THEN conn[h]
                      ELSE IF conn[h].pc = "live" THEN Deliver(conn[h], e)
                      ELSE [conn[h] EXCEPT !.pending = Append(@, e)]]
       IN  Cancel(next, {h \in listeners : next[h].pc = "live" /\ next[h].closed})
    /\ UNCHANGED <<deploy, wire, redis, subscribed, browser, marred>>

\* The SUBSCRIBE of a handler is answered: it joins the set it created, which
\* the hub may have forgotten since.
HearAck ==
    /\ feed # <<>> /\ Head(feed).ack # NoConn
    /\ feed' = Tail(feed)
    /\ LET h == Head(feed).ack
       IN  /\ listeners' = IF conn[h].mine THEN listeners \cup {h} ELSE listeners
           /\ conn' = [conn EXCEPT ![h].pc = "backlog"]
    /\ UNCHANGED <<deploy, wire, redis, subscribed, commands, listening, browser, marred>>

-----------------------------------------------------------------------------
(* GET /api/logs/$deploymentId *)

\* The request arrives, and the row is read.
Connect(b) ==
    /\ browser[b].state \in {"idle", "connecting"}
    /\ \E h \in Conns :
         /\ conn[h].pc = "unused"
         /\ \A i \in Conns : i < h => conn[i].pc # "unused"
         /\ browser' = [browser EXCEPT ![b].state = "open", ![b].conn = h]
         /\ conn' = [conn EXCEPT ![h] = [Unused EXCEPT
                !.pc = "subscribe", !.resume = browser[b].lastId, !.delivered = browser[b].lastId,
                !.finished = (status = "settled")]]
    /\ UNCHANGED <<deploy, wire, redis, subscribed, commands, feed, hub, marred>>

\* LogHub.subscribe: only who creates the set waits for Redis.  A handler that
\* finds the set of another that still waits does not wait with it.
Subscribe(h) ==
    /\ conn[h].pc = "subscribe"
    /\ \/ /\ conn[h].finished
          /\ conn' = [conn EXCEPT ![h].pc = "backlog"]
          /\ UNCHANGED <<hub, commands, marred>>
       \/ /\ ~conn[h].finished
          /\ listening
          /\ listeners' = listeners \cup {h}
          /\ conn' = [conn EXCEPT ![h].pc = "backlog"]
          /\ marred' = IF \E i \in Conns : conn[i].pc = "await"
                        THEN marred \cup {"overlap"} ELSE marred
          /\ UNCHANGED <<listening, commands>>
       \/ /\ ~conn[h].finished
          /\ ~listening
          /\ listening' = TRUE
          /\ commands' = Append(commands, h)
          /\ conn' = [conn EXCEPT ![h].pc = "await", ![h].mine = TRUE]
          /\ UNCHANGED <<listeners, marred>>
    /\ UNCHANGED <<deploy, wire, redis, subscribed, feed, browser>>

\* LRANGE
Backlog(h) ==
    /\ conn[h].pc = "backlog"
    /\ conn' = [conn EXCEPT ![h].pc = "replay", ![h].plan = buffer]
    /\ UNCHANGED <<deploy, wire, redis, subscribed, commands, feed, hub, browser, marred>>

\* planReplay: the buffer goes on where the browser stopped.
Resumes(c) == c.resume # 0 /\ c.plan # <<>> /\ c.plan[1].seq <= c.resume + 1

Restart(c) == [Send(c, Plain("reset")) EXCEPT !.delivered = 0]

\* The buffer, or what the browser misses of it, then what was heard meanwhile.
Replayed(c) ==
    DeliverAll(
        IF Resumes(c)
        THEN DeliverAll(c, Among(c.plan, {e \in ToSet(c.plan) : e.seq > c.resume}))
        ELSE DeliverAll(IF Len(c.plan) >= Capacity THEN Send(Restart(c), Plain("omitted"))
                                                   ELSE Restart(c), c.plan),
        c.pending)

End(c) == [Send(c, Plain("end")) EXCEPT !.closed = TRUE]

Replay(h) ==
    /\ conn[h].pc = "replay"
    /\ LET c == conn[h]
           r == Replayed(c)
           n == Returned(IF c.finished THEN End(r) ELSE r)
       IN  IF c.finished /\ ~Resumes(c)
           THEN /\ conn' = [conn EXCEPT ![h] =
                              [Send(c, Plain("reset")) EXCEPT !.pc = "archive", !.plan = <<>>]]
                /\ UNCHANGED <<hub, commands>>
           ELSE Cancel([conn EXCEPT ![h] = n], IF n.closed /\ ~c.finished THEN {h} ELSE {})
    /\ UNCHANGED <<deploy, wire, redis, subscribed, feed, browser, marred>>

\* readArchive, and the end of the stream.
ReadArchive(h) ==
    /\ conn[h].pc = "archive"
    /\ conn' = [conn EXCEPT ![h] =
         Returned(End(Send(@, Plain(IF archive THEN "archived" ELSE "unkept"))))]
    /\ UNCHANGED <<deploy, wire, redis, subscribed, commands, feed, hub, browser, marred>>

Handler == Hear \/ HearAck \/ \E h \in Conns : Subscribe(h) \/ Backlog(h) \/ Replay(h) \/ ReadArchive(h)

-----------------------------------------------------------------------------
(* The browser *)

Shown(s, f) ==
    CASE f.kind = "reset"    -> [s EXCEPT !.screen = <<>>, !.gone = FALSE]
      [] f.kind = "omitted"  -> [s EXCEPT !.gone = TRUE]
      [] f.kind = "unkept"   -> [s EXCEPT !.gone = TRUE]
      [] f.kind = "archived" -> [s EXCEPT !.screen = [i \in 1..written |-> i]]
      [] f.kind = "end"      -> [s EXCEPT !.state = "ended"]
      [] f.kind = "entry" /\ f.n = EndMark ->
            [s EXCEPT !.state = "ended", !.lastId = f.id]
      [] OTHER               -> [s EXCEPT !.screen = Append(@, f.n), !.lastId = f.id]

Receive(b) ==
    /\ browser[b].state = "open"
    /\ LET h == browser[b].conn
       IN  /\ conn[h].out # <<>>
           /\ browser' = [browser EXCEPT ![b] = Shown(@, Head(conn[h].out))]
           /\ conn' = [conn EXCEPT ![h].out = Tail(@)]
    /\ UNCHANGED <<deploy, wire, redis, subscribed, commands, feed, hub, marred>>

\* The connection breaks: what was under way is lost, the handler is aborted
\* and unsubscribes when its source has returned.  A connection is left for
\* every browser that has none.
Drop(b) ==
    /\ browser[b].state = "open"
    /\ Cardinality({h \in Conns : conn[h].pc = "unused"})
         > Cardinality({i \in Browsers : browser[i].state \in {"idle", "connecting"}})
    /\ browser' = [browser EXCEPT ![b].state = "connecting", ![b].conn = NoConn]
    /\ LET h == browser[b].conn
       IN  Cancel([conn EXCEPT ![h].closed = TRUE, ![h].out = <<>>],
                  IF conn[h].pc = "live" /\ ~conn[h].finished /\ ~conn[h].closed THEN {h} ELSE {})
    /\ UNCHANGED <<deploy, wire, redis, subscribed, feed, marred>>

Viewer == \E b \in Browsers : Connect(b) \/ Receive(b) \/ Drop(b)

-----------------------------------------------------------------------------
Init ==
    /\ worker = "running"
    /\ status = "running"
    /\ archive = FALSE
    /\ written = 0
    /\ wire = <<>>
    /\ seq = 0
    /\ buffer = <<>>
    /\ subscribed = FALSE
    /\ commands = <<>>
    /\ feed = <<>>
    /\ listening = FALSE
    /\ listeners = {}
    /\ conn = [h \in Conns |-> Unused]
    /\ browser = [b \in Browsers |->
         [state |-> "idle", conn |-> NoConn, screen |-> <<>>, gone |-> FALSE, lastId |-> 0]]
    /\ marred = {}

Next == Worker \/ Redis \/ Handler \/ Viewer

Spec == Init /\ [][Next]_vars

\* What goes on by itself: the deploy, Redis, the handlers, browsers that
\* receive and reconnect.  Nobody has to look, connections need not break,
\* Redis need not forget.  As no step of it can be taken for ever, that one of
\* them is taken while one can be is all the fairness there is.
Progress ==
    \/ Write \/ Settle \/ InsertPointer \/ AnnounceEnd \/ Recover
    \/ Publish \/ Command
    \/ Handler
    \/ \E b \in Browsers : Receive(b) \/ (browser[b].state = "connecting" /\ Connect(b))

FairSpec == Spec /\ WF_vars(Progress)

-----------------------------------------------------------------------------
(* Properties *)

\* What the viewers see is what LogView promises: a screen grows by the entry
\* that follows, or starts anew, is told an end only after there is one, and
\* changes no more after that.
View == INSTANCE LogView WITH
    settled <- status = "settled",
    view    <- [b \in Browsers |-> [screen |-> browser[b].screen, gone |-> browser[b].gone,
                                    ended  |-> browser[b].state = "ended"]]
ImplementsView == View!Spec

\* When every handler has returned the hub listens exactly for those whose
\* viewer is there, and Redis sends to it exactly while somebody listens.
Returning == \E h \in Conns : conn[h].pc \notin {"unused", "live"}
HubFollows ==
    ~Returning =>
        /\ listeners \subseteq {h \in Conns : conn[h].pc = "live" /\ ~conn[h].closed}
        /\ listening <=> listeners # {}
        /\ commands = <<>> => (subscribed <=> listening)
        /\ marred = {} => \A h \in Conns :
             conn[h].pc = "live" /\ ~conn[h].closed => h \in listeners

\* A browser that looks at a deployment sees it end, if the worker lives to
\* announce it.
EndIsSeen ==
    \A b \in Browsers :
        browser[b].state = "open" ~>
            browser[b].state = "ended" \/ marred # {} \/ worker = "recovered"
=============================================================================
