---------------------------- MODULE LogStreamProofs ----------------------------
(***************************************************************************)
(* That the live log of a deployment keeps its promise, for any number of   *)
(* browsers and connections, logs of any length and buffers of any size,    *)
(* through every fault of the model: the variables have their types, the    *)
(* hub listens exactly for those who are there, every step is one of        *)
(* LogView's or none, and so no viewer is shown an entry twice, out of      *)
(* order or after a gap, but where LogView names the cause.                 *)
(*                                                                          *)
(* None of that is inductive.  IInv is: it says of every place where an     *)
(* entry may be, from the worker to the screen, which entry may be there,   *)
(* and of every handler what it has asked the hub for.  What a browser      *)
(* misses is then decided where the handler is, by comparing what it has    *)
(* delivered, kept and planned with the counter (Follows, Fits).            *)
(*                                                                          *)
(* After the definitions and the lemmas on sequences come a lemma for each  *)
(* action and each part of IInv it can disturb; Grows is what no step takes *)
(* back, and carries the parts that an action does not touch.               *)
(***************************************************************************)
EXTENDS LogStream, FiniteSetTheorems, SequenceTheorems, WellFoundedInduction, TLAPS

-----------------------------------------------------------------------------
\* No entry was counted from 1 again.
Steady == "quiet" \notin marred

\* The buffer is gone for good, and nothing comes after it.
Expired == seq = 0 /\ wire = <<>> /\ worker \in {"done", "recovered"}

\* A number that was given out.
Past(id) == id <= seq \/ Expired

\* What is under way is in the log, under its own number.
Genuine(n, id) ==
    /\ n <= written \/ (n = EndMark /\ status = "settled")
    /\ Steady => (n = EndMark \/ n = id) /\ Past(id)

\* So it is for all entries of a sequence.
GenuineSeq(s) == \A i \in DOMAIN s : Genuine(s[i].n, s[i].seq)

\* The buffer does not go back to `id', whatever happens.
Stale(id) == id = 0 \/ Expired \/ (buffer # <<>> /\ buffer[1].seq > id + 1)

\* The worker and the row agree, and what is on its way to Redis continues the
\* numbers, as the worker wrote it.
DeployInv ==
    /\ worker = "running" => status = "running"
    /\ worker \in {"settled", "archived", "done", "recovered"} => status = "settled"
    /\ worker \in {"dead", "recovered"} => wire = <<>>
    /\ \A i \in DOMAIN wire : wire[i] <= written \/ (wire[i] = EndMark /\ status = "settled")
    /\ Steady =>
         /\ \A i \in DOMAIN wire : wire[i] = EndMark \/ wire[i] = seq + i
         /\ worker = "running" => seq + Len(wire) = written

\* The buffer is the last entries, numbered without a gap up to the counter.
BufferInv ==
    /\ Len(buffer) = IF seq < Capacity THEN seq ELSE Capacity
    /\ \A i \in DOMAIN buffer : buffer[i].seq = seq - Len(buffer) + i
    /\ GenuineSeq(buffer)

\* What is on its way to the hub was published.
FeedInv ==
    \A i \in DOMAIN feed :
        feed[i].ack = NoConn =>
            feed[i].entry \in Entry /\ Genuine(feed[i].entry.n, feed[i].entry.seq)

\* One SUBSCRIBE is asked for and answered once, and its handler awaits it.
CallInv ==
    /\ \A i \in DOMAIN commands : commands[i] # NoConn => conn[commands[i]].pc = "await"
    /\ \A i \in DOMAIN feed : feed[i].ack # NoConn => conn[feed[i].ack].pc = "await"
    /\ \A i, j \in DOMAIN commands :
         i # j /\ commands[i] = commands[j] => commands[i] = NoConn
    /\ \A i, j \in DOMAIN feed :
         i # j /\ feed[i].ack = feed[j].ack => feed[i].ack = NoConn
    /\ \A i \in DOMAIN commands, j \in DOMAIN feed :
         commands[i] = feed[j].ack => commands[i] = NoConn

\* The hub has a set for the channel while somebody is in it or will join it,
\* and the last of its commands says so to Redis.
HubInv ==
    /\ \A h \in listeners :
         /\ conn[h].pc \in {"backlog", "replay", "live"}
         /\ ~conn[h].finished
         /\ conn[h].pc = "live" => ~conn[h].closed
    /\ listening <=> listeners # {} \/ \E h \in Conns : conn[h].pc = "await" /\ conn[h].mine
    /\ IF commands = <<>> THEN subscribed <=> listening
       ELSE commands[Len(commands)] # NoConn <=> listening
    /\ \A h \in Conns : conn[h].pc = "await" => ~conn[h].finished

\* Without an overlap, who awaits its SUBSCRIBE is alone, and who may still
\* show something is a listener.
AloneInv ==
    marred = {} =>
        /\ \A h \in Conns : conn[h].pc = "await" =>
             /\ conn[h].mine /\ listeners = {}
             /\ \A i \in Conns : conn[i].pc = "await" => i = h
        /\ \A h \in Conns :
             /\ ~conn[h].finished
             /\ conn[h].pc \in {"backlog", "replay"} \/ (conn[h].pc = "live" /\ ~conn[h].closed)
             => h \in listeners

\* What a handler holds.
Held(c) ==
    /\ GenuineSeq(c.plan) /\ GenuineSeq(c.pending)
    /\ c.finished => status = "settled" /\ c.pending = <<>>
    /\ Steady => Past(c.resume)
    /\ c.pc \in {"unused", "subscribe", "await", "backlog", "replay"} => c.out = <<>>
    /\ c.pc \in {"unused", "subscribe", "await", "live"} => c.pending = <<>>
    /\ c.pc \in {"subscribe", "await", "backlog", "replay"} => c.delivered = c.resume
    /\ c.pc = "archive" => c.finished /\ (c.out = <<>> \/ c.out = <<Plain("reset")>>)
    /\ c.pc = "live" /\ c.finished => c.closed
    /\ c.pc = "replay" =>
         /\ \A i \in DOMAIN c.plan : c.plan[i].seq = c.plan[1].seq + i - 1
         /\ c.plan # <<>> /\ Len(c.plan) < Capacity => c.plan[1].seq = 1
         /\ Steady /\ ~Resumes(c) => Stale(c.resume)

\* So it is for every handler.
ConnInv == \A h \in Conns : Held(conn[h])

\* What is on its way to a browser.
Framed(out) ==
    \A i \in DOMAIN out :
        /\ out[i].kind = "entry" => out[i].n # 0 /\ out[i].id # 0 /\ Genuine(out[i].n, out[i].id)
        /\ out[i].kind \in {"archived", "unkept", "end"} => status = "settled"
        /\ out[i].kind = "reset" => i = 1
        /\ out[i].kind \in {"omitted", "archived", "unkept"} =>
             i = 1 \/ (i = 2 /\ out[1].kind = "reset")

\* So it is for every connection.
FrameInv == \A h \in Conns : Framed(conn[h].out)

\* The hub hears every number, once it is subscribed.
InStep ==
    listening /\ commands = <<>> =>
        \A i \in DOMAIN feed :
            (\A j \in i..Len(feed) : feed[j].ack = NoConn) =>
                feed[i].entry.seq = seq - (Len(feed) - i)

\* A listener has read or heard all that the hub has heard.
Follows(c, heard) ==
    /\ \A i \in DOMAIN c.pending : c.pending[i].seq = heard - (Len(c.pending) - i)
    /\ c.pc = "replay" =>
         heard - Len(c.pending) <= IF c.plan = <<>> THEN 0 ELSE c.plan[Len(c.plan)].seq
    /\ c.pc = "live" => heard <= c.delivered

\* So it is while nothing went wrong.
HeardInv == marred = {} => InStep /\ \A h \in listeners : Follows(conn[h], seq - Len(feed))

\* A frame with this id may be the i-th of `out', or come after all of them.
Fits(s, out, i, id) ==
    IF i = 1
    THEN /\ id > View!Shown(s.screen)
         /\ marred = {} => id = View!Shown(s.screen) + 1 \/ (s.screen = <<>> /\ s.gone)
    ELSE \/ /\ out[i - 1].kind = "entry"
            /\ id > out[i - 1].id
            /\ marred = {} => id = out[i - 1].id + 1
         \/ out[i - 1].kind = "reset" /\ (marred = {} => id = 1)
         \/ out[i - 1].kind = "omitted"

\* All of `out' fit, and what the handler delivers next will.
Linked(s, out) == \A i \in DOMAIN out : out[i].kind = "entry" => Fits(s, out, i, out[i].id)
Ready(s, c)    == c.closed \/ Fits(s, c.out, Len(c.out) + 1, c.delivered + 1)

\* A browser whose connection is open, and the handler of it.
Watches(s, c) ==
    /\ c.pc # "live" => ~c.closed
    /\ c.pc \in {"subscribe", "await", "backlog", "replay"} => c.resume = s.lastId
    /\ c.out # <<>> /\ c.out[1].kind \in {"omitted", "archived", "unkept"} => s.screen = <<>>
    /\ c.pc = "archive" /\ c.out = <<>> => s.screen = <<>>
    /\ Steady =>
         /\ Linked(s, c.out)
         /\ c.pc = "live" => Ready(s, c)
         /\ c.pc = "archive" => Stale(s.lastId)
         /\ c.out # <<>> /\ c.out[1].kind \in {"reset", "archived"} => Stale(s.lastId)
         /\ c.pc = "replay" => View!Shown(s.screen) = s.lastId \/ ~Resumes(c)

\* A browser and its connection.
Looks(s) ==
    /\ s.state \in {"open", "ended"} <=> s.conn # NoConn
    /\ s.conn # NoConn => conn[s.conn].pc # "unused"
    /\ Steady => Past(s.lastId)
    /\ Steady /\ s.state # "ended" => View!Shown(s.screen) = s.lastId \/ Stale(s.lastId)
    /\ s.state = "open" => Watches(s, conn[s.conn])

\* So it is for every browser, and no two share a connection.
BrowserInv ==
    /\ \A b \in Browsers : Looks(browser[b])
    /\ \A b, d \in Browsers :
         b # d /\ browser[b].conn = browser[d].conn => browser[b].conn = NoConn

\* All of it, which is inductive.
IInv ==
    /\ TypeOK /\ DeployInv /\ BufferInv /\ FeedInv /\ CallInv /\ HubInv /\ AloneInv
    /\ ConnInv /\ FrameInv /\ HeardInv /\ BrowserInv

-----------------------------------------------------------------------------
(* Induction and recursion on the positions of a sequence *)

\* A set of numbers that has 0, and with a number the next, has them all: else
\* there is a smallest that it has not.
LEMMA Counting ==
    ASSUME NEW T, 0 \in T, \A n \in Nat : n \in T => n + 1 \in T
    PROVE  \A n \in Nat : n \in T
<1> DEFINE M == Nat \ T
           R == {p \in Nat \X Nat : p[1] < p[2]}
<1>1. CASE M = {}
    BY <1>1
<1>2. CASE M # {}
  <2>1. IsWellFoundedOn(R, Nat)
      BY NatLessThanWellFounded, Zenon DEF OpToRel
  <2>2. M \subseteq Nat
      OBVIOUS
  <2>3. PICK x \in M : \A y \in M : ~(<<y, x>> \in R)
    <3> HIDE DEF M, R
    <3> QED BY <1>2, <2>1, <2>2, WFMin
  <2>4. \A y \in M : ~(y < x)
      BY <2>3
  <2>5. x \in Nat /\ x # 0 /\ x - 1 \in Nat
      BY <2>3
  <2>6. x - 1 \in T
      BY <2>4, <2>5
  <2>7. (x - 1) + 1 \in T
      BY <2>5, <2>6
  <2>8. (x - 1) + 1 = x
      BY <2>5
  <2> QED BY <2>3, <2>7, <2>8
<1> QED BY <1>1, <1>2

\* The largest of 1..n.
LEMMA MaxOfUpto ==
    ASSUME NEW n \in Nat, NEW s \in SUBSET (1..(n + 1)), n + 1 \in s
    PROVE  Max(s) = n + 1
<1>1. n + 1 \in s /\ \A y \in s : n + 1 >= y
    OBVIOUS
<1>2. Max(s) \in s /\ \A y \in s : Max(s) >= y
    BY <1>1 DEF Max
<1>3. Max(s) >= n + 1
    BY <1>2
<1>4. Max(s) \in 1..(n + 1)
    BY <1>2
<1> QED BY <1>3, <1>4

\* A set of positions that is not empty has a largest.
LEMMA MaxOfSome ==
    ASSUME NEW n \in Nat, NEW s \in SUBSET (1..n), s # {}
    PROVE  Max(s) \in s
<1> DEFINE T == {k \in Nat : \A t \in SUBSET (1..k) : t # {} => Max(t) \in t}
<1>1. 0 \in T
  <2>1. 1..0 = {}
      OBVIOUS
  <2> QED BY <2>1
<1>2. ASSUME NEW k \in Nat, k \in T PROVE k + 1 \in T
  <2>1. SUFFICES ASSUME NEW t \in SUBSET (1..(k + 1)), t # {} PROVE Max(t) \in t
      OBVIOUS
  <2>2. CASE k + 1 \in t
      BY <2>2, MaxOfUpto
  <2>3. CASE k + 1 \notin t
    <3>1. \A i \in 1..(k + 1) : i # k + 1 => i \in 1..k
        OBVIOUS
    <3>2. t \in SUBSET (1..k)
        BY <2>3, <3>1
    <3> QED BY <1>2, <2>1, <3>2
  <2> QED BY <2>2, <2>3
<1>3. n \in T
  <2> HIDE DEF T
  <2> QED BY <1>1, <1>2, Counting
<1> QED BY <1>3

-----------------------------------------------------------------------------
(* Folds, element by element *)

\* The function that FoldLeft iterates with, for a step G.
Folds(f, G, base, s, n) ==
    f = [t \in SUBSET (1..n) |->
           IF t = {} THEN base ELSE G[<<f[t \ {Max(t)}], s[Max(t)]>>]]

\* It is defined for every set of positions.
LEMMA FoldIsDefined ==
    ASSUME NEW X, NEW S, NEW G \in [X \X S -> X], NEW base \in X, NEW s \in Seq(S)
    PROVE  \E f \in [SUBSET (1..Len(s)) -> X] : Folds(f, G, base, s, Len(s))
<1> DEFINE Body(f, t) == IF t = {} THEN base ELSE G[<<f[t \ {Max(t)}], s[Max(t)]>>]
           T == {k \in Nat : k <= Len(s) =>
                   \E f \in [SUBSET (1..k) -> X] : f = [t \in SUBSET (1..k) |-> Body(f, t)]}
<1>1. 0 \in T
  <2> DEFINE f == [t \in {{}} |-> base]
  <2>1. SUBSET (1..0) = {{}}
      OBVIOUS
  <2>2. f \in [SUBSET (1..0) -> X] /\ f = [t \in SUBSET (1..0) |-> Body(f, t)]
      BY <2>1
  <2> QED BY <2>2
<1>2. ASSUME NEW k \in Nat, k \in T PROVE k + 1 \in T
  <2>0. SUFFICES ASSUME k + 1 <= Len(s)
                 PROVE  \E h \in [SUBSET (1..(k + 1)) -> X] :
                          h = [t \in SUBSET (1..(k + 1)) |-> Body(h, t)]
    <3> HIDE DEF Body
    <3>1. k + 1 \in Nat
        OBVIOUS
    <3> QED BY <3>1, Zenon
  <2>1. PICK f \in [SUBSET (1..k) -> X] : f = [t \in SUBSET (1..k) |-> Body(f, t)]
    <3>1. k <= Len(s)
        BY <2>0
    <3> HIDE DEF Body
    <3> QED BY <1>2, <3>1, Zenon
  <2> DEFINE g == [t \in SUBSET (1..(k + 1)) |->
                     IF k + 1 \in t THEN G[<<f[t \ {k + 1}], s[k + 1]>>] ELSE f[t]]
  <2>a. \A t \in SUBSET (1..(k + 1)) : t \ {k + 1} \in SUBSET (1..k)
    <3> SUFFICES ASSUME NEW t \in SUBSET (1..(k + 1)), NEW i \in t, i # k + 1
                 PROVE  i \in 1..k
        OBVIOUS
    <3>1. i \in 1..(k + 1)
        OBVIOUS
    <3> QED BY <3>1
  <2>b. g \in [SUBSET (1..(k + 1)) -> X]
    <3> SUFFICES ASSUME NEW t \in SUBSET (1..(k + 1)) PROVE g[t] \in X
        OBVIOUS
    <3>1. f[t \ {k + 1}] \in X /\ s[k + 1] \in S
        BY <2>0, <2>a
    <3>2. CASE k + 1 \in t
        BY <3>1, <3>2
    <3>3. CASE k + 1 \notin t
      <4>1. t \ {k + 1} = t
          BY <3>3
      <4> QED BY <3>1, <3>3, <4>1
    <3> QED BY <3>2, <3>3
  <2>2. ASSUME NEW t \in SUBSET (1..(k + 1)), k + 1 \in t
        PROVE  g[t] = Body(g, t)
    <3>1. Max(t) = k + 1 /\ t # {}
        BY <2>2, MaxOfUpto
    <3>2. t \ {k + 1} \in SUBSET (1..(k + 1)) /\ k + 1 \notin t \ {k + 1}
        OBVIOUS
    <3>3. g[t \ {k + 1}] = f[t \ {k + 1}]
        BY <3>2
    <3>4. g[t] = G[<<f[t \ {k + 1}], s[k + 1]>>]
        BY <2>2
    <3> QED BY <3>1, <3>3, <3>4
  <2>3. ASSUME NEW t \in SUBSET (1..(k + 1)), k + 1 \notin t
        PROVE  g[t] = Body(g, t)
    <3>1. t \in SUBSET (1..k)
      <4>1. t \ {k + 1} = t
          BY <2>3
      <4> QED BY <2>a, <4>1
    <3>2. t \ {Max(t)} \in SUBSET (1..(k + 1)) /\ k + 1 \notin t \ {Max(t)}
        BY <2>3
    <3>3. g[t \ {Max(t)}] = f[t \ {Max(t)}] /\ g[t] = f[t]
        BY <2>3, <3>2
    <3>4. f[t] = Body(f, t)
        BY <2>1, <3>1
    <3> QED BY <3>3, <3>4
  <2> DEFINE H == [t \in SUBSET (1..(k + 1)) |-> Body(g, t)]
  <2>4. \A t \in SUBSET (1..(k + 1)) : g[t] = Body(g, t)
      BY <2>2, <2>3
  <2>5. g = H
    <3> HIDE DEF Body
    <3> QED BY <2>4
  <2> HIDE DEF g, Body
  <2> QED BY <2>b, <2>5
<1>3. Len(s) \in T
  <2>1. Len(s) \in Nat
      OBVIOUS
  <2> HIDE DEF T
  <2> QED BY <1>1, <1>2, <2>1, Counting
<1>4. Len(s) <= Len(s)
    OBVIOUS
<1>5. \E f \in [SUBSET (1..Len(s)) -> X] : f = [t \in SUBSET (1..Len(s)) |-> Body(f, t)]
  <2> HIDE DEF Body
  <2> QED BY <1>3, <1>4, Zenon
<1> QED BY <1>5 DEF Folds

\* The prefixes of 1..n, along which FoldLeft goes.
LEMMA Initials ==
    ASSUME NEW n \in Nat, NEW k \in 1..n
    PROVE  /\ 1..k \in SUBSET (1..n)
           /\ 1..k # {}
           /\ Max(1..k) = k
           /\ (1..k) \ {k} = 1..(k - 1)
<1>1. k \in Nat /\ k >= 1 /\ k <= n /\ k - 1 \in Nat /\ (k - 1) + 1 = k
    OBVIOUS
<1>2. 1 \in 1..k /\ k \in 1..k
    BY <1>1
<1>3. 1..k \in SUBSET (1..n)
    BY <1>1
<1>4. 1..k \in SUBSET (1..((k - 1) + 1)) /\ (k - 1) + 1 \in 1..k
    BY <1>1, <1>2
<1>5. Max(1..k) = k
    BY <1>1, <1>4, MaxOfUpto
<1>6. (1..k) \ {k} = 1..(k - 1)
    BY <1>1
<1>7. 1..k # {}
    BY <1>2
<1> QED BY <1>3, <1>5, <1>6, <1>7, Zenon

\* What one entry does to a handler (replayer.deliver).
LEMMA Delivered ==
    ASSUME NEW c \in Conn, NEW e \in Entry
    PROVE  LET r == Deliver(c, e) IN
           /\ r \in Conn
           /\ r.pc = c.pc /\ r.resume = c.resume /\ r.finished = c.finished /\ r.mine = c.mine
           /\ r.plan = c.plan /\ r.pending = c.pending
           /\ IF e.seq <= c.delivered THEN r = c
              ELSE /\ r.delivered = e.seq
                   /\ r.closed = (c.closed \/ e.n = EndMark)
                   /\ r.out = IF c.closed THEN c.out
                              ELSE Append(c.out, [kind |-> "entry", n |-> e.n, id |-> e.seq])
<1> DEFINE f == [kind |-> "entry", n |-> e.n, id |-> e.seq]
<1>1. f \in Frame
    BY LogAssumption DEF Frame, Entry, EndMark
<1>2. CASE e.seq <= c.delivered
    BY <1>2 DEF Deliver
<1>3. CASE ~(e.seq <= c.delivered)
  <2>1. Append(c.out, f) \in Seq(Frame) /\ e.seq \in Nat
      BY <1>1 DEF Conn, Entry
  <2>2. CASE c.closed
      BY <1>3, <2>1, <2>2 DEF Deliver, Send, Conn
  <2>3. CASE ~c.closed
      BY <1>3, <2>1, <2>3 DEF Deliver, Send, Conn
  <2> QED BY <2>2, <2>3
<1> QED BY <1>2, <1>3

\* The handler after each of the entries.
LEMMA DeliverAllSteps ==
    ASSUME NEW c \in Conn, NEW s \in Seq(Entry)
    PROVE  \E d \in [0..Len(s) -> Conn] :
               /\ d[0] = c
               /\ \A k \in 1..Len(s) : d[k] = Deliver(d[k - 1], s[k])
               /\ DeliverAll(c, s) = d[Len(s)]
<1> DEFINE n == Len(s)
           Is(f) == f = [t \in SUBSET (1..n) |->
                           IF t = {} THEN c ELSE Deliver(f[t \ {Max(t)}], s[Max(t)])]
           G == [p \in Conn \X Entry |-> Deliver(p[1], p[2])]
           iter == CHOOSE f : Is(f)
           d == [k \in 0..n |-> iter[1..k]]
<1>1. n \in Nat /\ DOMAIN s = 1..n
    OBVIOUS
<1>2. Is(iter)
  <2>1. G \in [Conn \X Entry -> Conn]
    <3>1. \A p \in Conn \X Entry : Deliver(p[1], p[2]) \in Conn
        BY Delivered
    <3> QED BY <3>1
  <2>2. PICK f \in [SUBSET (1..n) -> Conn] : Folds(f, G, c, s, n)
    <3> HIDE DEF G
    <3> QED BY <2>1, FoldIsDefined
  <2>3. ASSUME NEW t \in SUBSET (1..n), t # {}
        PROVE  G[<<f[t \ {Max(t)}], s[Max(t)]>>] = Deliver(f[t \ {Max(t)}], s[Max(t)])
    <3>1. Max(t) \in t
        BY <1>1, <2>3, MaxOfSome
    <3>2. f[t \ {Max(t)}] \in Conn /\ s[Max(t)] \in Entry
      <4>1. Max(t) \in 1..n /\ t \ {Max(t)} \in SUBSET (1..n)
          BY <3>1
      <4> QED BY <1>1, <4>1
    <3> QED BY <3>2
  <2>4. Is(f)
      BY <2>2, <2>3 DEF Folds
  <2>5. \E g : Is(g)
      BY <2>4
  <2> HIDE DEF Is
  <2> QED BY <2>5
<1>3. DeliverAll(c, s) = iter[1..n]
    BY <1>1 DEF DeliverAll, FoldLeft, MapThenFoldSet
<1> HIDE DEF iter
<1>4. /\ d[0] = c
      /\ \A k \in 1..n : d[k] = Deliver(d[k - 1], s[k])
      /\ DeliverAll(c, s) = d[n]
  <2>0. 1..0 = {} /\ {} \in SUBSET (1..n) /\ 0 \in 0..n
      BY <1>1
  <2>1. d[0] = c
    <3>1. iter[{}] = c
        BY <1>2, <2>0
    <3> QED BY <2>0, <3>1
  <2>2. ASSUME NEW k \in 1..n PROVE d[k] = Deliver(d[k - 1], s[k])
    <3>1. iter[1..k] = Deliver(iter[1..(k - 1)], s[k])
      <4>1. 1..k \in SUBSET (1..n) /\ 1..k # {} /\ Max(1..k) = k /\ (1..k) \ {k} = 1..(k - 1)
          BY <1>1, Initials
      <4> QED BY <1>2, <4>1
    <3>2. k \in 0..n /\ k - 1 \in 0..n
        BY <1>1
    <3> QED BY <3>1, <3>2
  <2>3. DeliverAll(c, s) = d[n]
      BY <1>1, <1>3
  <2> QED BY <2>1, <2>2, <2>3
<1>5. d \in [0..n -> Conn]
  <2> DEFINE T == {k \in Nat : k <= n => d[k] \in Conn}
  <2> HIDE DEF d
  <2>1. 0 \in T
      BY <1>4
  <2>2. ASSUME NEW k \in Nat, k \in T PROVE k + 1 \in T
    <3>1. SUFFICES ASSUME k + 1 <= n PROVE d[k + 1] \in Conn
        OBVIOUS
    <3>2. k + 1 \in 1..n /\ (k + 1) - 1 = k /\ k <= n
        BY <1>1, <3>1
    <3>3. d[k + 1] = Deliver(d[k], s[k + 1]) /\ d[k] \in Conn /\ s[k + 1] \in Entry
        BY <1>4, <2>2, <3>2
    <3> QED BY <3>3, Delivered
  <2>3. \A k \in Nat : k \in T
    <3> HIDE DEF T
    <3> QED BY <2>1, <2>2, Counting
  <2>4. \A k \in 0..n : d[k] \in Conn
      BY <1>1, <2>3
  <2> QED BY <2>4 DEF d
<1> QED BY <1>4, <1>5

\* What is kept of a sequence, element by element.
Keeps(d, s, T) ==
    /\ d[0] = <<>>
    /\ \A k \in 1..Len(s) : d[k] = IF s[k] \in T THEN Append(d[k - 1], s[k]) ELSE d[k - 1]
    /\ Among(s, T) = d[Len(s)]

\* The elements that are kept, element by element.
LEMMA AmongSteps ==
    ASSUME NEW S, NEW s \in Seq(S), NEW T
    PROVE  \E d \in [0..Len(s) -> Seq(S)] : Keeps(d, s, T)
<1> DEFINE n == Len(s)
           Add(kept, e) == IF e \in T THEN Append(kept, e) ELSE kept
           Is(f) == f = [t \in SUBSET (1..n) |->
                           IF t = {} THEN <<>> ELSE Add(f[t \ {Max(t)}], s[Max(t)])]
           G == [p \in Seq(S) \X S |-> Add(p[1], p[2])]
           iter == CHOOSE f : Is(f)
           d == [k \in 0..n |-> iter[1..k]]
<1>1. n \in Nat /\ DOMAIN s = 1..n
    OBVIOUS
<1>2. Is(iter)
  <2>1. G \in [Seq(S) \X S -> Seq(S)]
    <3>1. \A p \in Seq(S) \X S : Add(p[1], p[2]) \in Seq(S)
        OBVIOUS
    <3> QED BY <3>1
  <2>2. PICK f \in [SUBSET (1..n) -> Seq(S)] : Folds(f, G, <<>>, s, n)
    <3>1. <<>> \in Seq(S)
        OBVIOUS
    <3> HIDE DEF G
    <3> QED BY <2>1, <3>1, FoldIsDefined
  <2>3. ASSUME NEW t \in SUBSET (1..n), t # {}
        PROVE  G[<<f[t \ {Max(t)}], s[Max(t)]>>] = Add(f[t \ {Max(t)}], s[Max(t)])
    <3>1. Max(t) \in t
        BY <1>1, <2>3, MaxOfSome
    <3>2. f[t \ {Max(t)}] \in Seq(S) /\ s[Max(t)] \in S
      <4>1. Max(t) \in 1..n /\ t \ {Max(t)} \in SUBSET (1..n)
          BY <3>1
      <4> QED BY <1>1, <4>1
    <3> QED BY <3>2
  <2>4. Is(f)
      BY <2>2, <2>3 DEF Folds
  <2>5. \E g : Is(g)
      BY <2>4
  <2> HIDE DEF Is
  <2> QED BY <2>5
<1>3. Among(s, T) = iter[1..n]
    BY <1>1 DEF Among, FoldLeft, MapThenFoldSet
<1> HIDE DEF iter
<1>4. /\ d[0] = <<>>
      /\ \A k \in 1..n : d[k] = Add(d[k - 1], s[k])
      /\ Among(s, T) = d[n]
  <2>0. 1..0 = {} /\ {} \in SUBSET (1..n) /\ 0 \in 0..n
      BY <1>1
  <2>1. d[0] = <<>>
    <3>1. iter[{}] = <<>>
        BY <1>2, <2>0
    <3> QED BY <2>0, <3>1
  <2>2. ASSUME NEW k \in 1..n PROVE d[k] = Add(d[k - 1], s[k])
    <3>1. iter[1..k] = Add(iter[1..(k - 1)], s[k])
      <4>1. 1..k \in SUBSET (1..n) /\ 1..k # {} /\ Max(1..k) = k /\ (1..k) \ {k} = 1..(k - 1)
          BY <1>1, Initials
      <4> QED BY <1>2, <4>1
    <3>2. k \in 0..n /\ k - 1 \in 0..n
        BY <1>1
    <3> QED BY <3>1, <3>2
  <2>3. Among(s, T) = d[n]
      BY <1>1, <1>3
  <2> QED BY <2>1, <2>2, <2>3
<1>5. d \in [0..n -> Seq(S)]
  <2> DEFINE U == {k \in Nat : k <= n => d[k] \in Seq(S)}
  <2> HIDE DEF d
  <2>1. 0 \in U
    <3>1. <<>> \in Seq(S)
        OBVIOUS
    <3> QED BY <1>4, <3>1
  <2>2. ASSUME NEW k \in Nat, k \in U PROVE k + 1 \in U
    <3>1. SUFFICES ASSUME k + 1 <= n PROVE d[k + 1] \in Seq(S)
        OBVIOUS
    <3>2. k + 1 \in 1..n /\ (k + 1) - 1 = k /\ k <= n
        BY <1>1, <3>1
    <3>3. d[k + 1] = Add(d[k], s[k + 1]) /\ d[k] \in Seq(S) /\ s[k + 1] \in S
        BY <1>4, <2>2, <3>2
    <3> QED BY <3>3
  <2>3. \A k \in Nat : k \in U
    <3> HIDE DEF U
    <3> QED BY <2>1, <2>2, Counting
  <2>4. \A k \in 0..n : d[k] \in Seq(S)
      BY <1>1, <2>3
  <2> QED BY <2>4 DEF d
<1>6. Keeps(d, s, T)
    BY <1>4 DEF Keeps
<1> HIDE DEF d
<1> QED BY <1>5, <1>6

\* What is kept, at which positions it was: all that is in T, in order.
LEMMA AmongIs ==
    ASSUME NEW S, NEW s \in Seq(S), NEW T
    PROVE  /\ Among(s, T) \in Seq(S)
           /\ \E m \in [1..Len(Among(s, T)) -> 1..Len(s)] :
                /\ \A i \in 1..Len(Among(s, T)) : Among(s, T)[i] = s[m[i]] /\ s[m[i]] \in T
                /\ \A i, j \in 1..Len(Among(s, T)) : i < j => m[i] < m[j]
                /\ \A k \in 1..Len(s) : s[k] \in T => \E i \in 1..Len(Among(s, T)) : m[i] = k
<1>0. PICK d \in [0..Len(s) -> Seq(S)] : Keeps(d, s, T)
    BY AmongSteps
<1>1. /\ d[0] = <<>>
      /\ \A k \in 1..Len(s) :
           d[k] = IF s[k] \in T THEN Append(d[k - 1], s[k]) ELSE d[k - 1]
      /\ Among(s, T) = d[Len(s)]
    BY <1>0 DEF Keeps
<1> DEFINE n == Len(s)
           Maps(m, k) ==
             /\ m \in [1..Len(d[k]) -> 1..k]
             /\ \A i \in 1..Len(d[k]) : d[k][i] = s[m[i]] /\ s[m[i]] \in T
             /\ \A i, j \in 1..Len(d[k]) : i < j => m[i] < m[j]
             /\ \A p \in 1..k : s[p] \in T => \E i \in 1..Len(d[k]) : m[i] = p
           U == {k \in Nat : k <= n => \E m : Maps(m, k)}
<1>2. n \in Nat
    OBVIOUS
<1>3. 0 \in U
  <2> DEFINE m == [i \in {} |-> 0]
  <2>1. Len(d[0]) = 0 /\ 1..0 = {}
      BY <1>1
  <2>2. Maps(m, 0)
      BY <2>1
  <2> HIDE DEF m, Maps
  <2> QED BY <2>2
<1>4. ASSUME NEW k \in Nat, k \in U PROVE k + 1 \in U
  <2>0. k + 1 \in Nat
      OBVIOUS
  <2>1. SUFFICES ASSUME k + 1 <= n PROVE \E m : Maps(m, k + 1)
      BY <2>0, Zenon
  <2>2. k + 1 \in 1..n /\ (k + 1) - 1 = k /\ k <= n /\ k \in 0..n /\ k + 1 \in 0..n
      BY <1>2, <2>1
  <2>3. PICK m : Maps(m, k)
      BY <1>4, <2>2, Zenon
  <2>4. /\ d[k] \in Seq(S) /\ s[k + 1] \in S
        /\ d[k + 1] = IF s[k + 1] \in T THEN Append(d[k], s[k + 1]) ELSE d[k]
      BY <1>1, <2>2
  <2> DEFINE l == Len(d[k])
  <2>5. l \in Nat
      BY <2>4
  <2>6. CASE s[k + 1] \notin T
    <3>1. d[k + 1] = d[k]
        BY <2>4, <2>6
    <3>2. \A p \in 1..(k + 1) : p \in 1..k \/ p = k + 1
        OBVIOUS
    <3>3. m \in [1..Len(d[k + 1]) -> 1..(k + 1)]
      <4>1. \A i \in 1..l : m[i] \in 1..k /\ m[i] \in 1..(k + 1)
          BY <2>3
      <4> QED BY <2>3, <3>1, <4>1
    <3>4. Maps(m, k + 1)
        BY <2>3, <2>6, <3>1, <3>2, <3>3
    <3> HIDE DEF Maps
    <3> QED BY <3>4
  <2>7. CASE s[k + 1] \in T
    <3> DEFINE g == [i \in 1..(l + 1) |-> IF i = l + 1 THEN k + 1 ELSE m[i]]
    <3>1. /\ Len(d[k + 1]) = l + 1
          /\ \A i \in 1..l : d[k + 1][i] = d[k][i]
          /\ d[k + 1][l + 1] = s[k + 1]
        BY <2>4, <2>7
    <3>2. /\ \A p \in 1..(k + 1) : p \in 1..k \/ p = k + 1
          /\ \A i \in 1..(l + 1) : i = l + 1 \/ (i \in 1..l /\ i # l + 1)
          /\ \A i \in 1..l : i \in 1..(l + 1) /\ i # l + 1
          /\ l + 1 \in 1..(l + 1) /\ k + 1 \in 1..(k + 1)
        BY <2>5
    <3>3. \A i \in 1..l : m[i] \in 1..k /\ g[i] = m[i] /\ m[i] \in 1..(k + 1) /\ m[i] < k + 1
      <4> SUFFICES ASSUME NEW i \in 1..l
                   PROVE  m[i] \in 1..k /\ g[i] = m[i] /\ m[i] \in 1..(k + 1) /\ m[i] < k + 1
          OBVIOUS
      <4>1. m[i] \in 1..k
          BY <2>3
      <4>2. g[i] = m[i]
          BY <3>2
      <4> QED BY <4>1, <4>2
    <3>4. g[l + 1] = k + 1
        BY <3>2
    <3>5. g \in [1..(l + 1) -> 1..(k + 1)]
        BY <3>2, <3>3
    <3> HIDE DEF g
    <3>6. \A i \in 1..(l + 1) : d[k + 1][i] = s[g[i]] /\ s[g[i]] \in T
        BY <2>3, <2>7, <3>1, <3>2, <3>3, <3>4
    <3>7. \A i, j \in 1..(l + 1) : i < j => g[i] < g[j]
      <4> SUFFICES ASSUME NEW i \in 1..(l + 1), NEW j \in 1..(l + 1), i < j
                   PROVE  g[i] < g[j]
          OBVIOUS
      <4>1. i \in 1..l
          BY <2>5
      <4>2. CASE j = l + 1
          BY <3>3, <3>4, <4>1, <4>2
      <4>3. CASE j \in 1..l
          BY <2>3, <3>3, <4>1, <4>3
      <4> QED BY <3>2, <4>2, <4>3
    <3>8. \A p \in 1..(k + 1) : s[p] \in T => \E i \in 1..(l + 1) : g[i] = p
        BY <2>3, <3>2, <3>3, <3>4
    <3>9. Maps(g, k + 1)
        BY <3>1, <3>5, <3>6, <3>7, <3>8
    <3> HIDE DEF Maps
    <3> QED BY <3>9
  <2> QED BY <2>6, <2>7
<1>5. \A k \in Nat : k \in U
  <2> HIDE DEF U
  <2> QED BY <1>3, <1>4, Counting
<1>6. \E m : Maps(m, n)
  <2>1. n <= n
      BY <1>2
  <2> HIDE DEF Maps
  <2> QED BY <1>2, <1>5, <2>1
<1>7. d[n] \in Seq(S) /\ d[n] = Among(s, T)
    BY <1>1, <1>2
<1>8. PICK m : Maps(m, n)
    BY <1>6
<1>9. /\ m \in [1..Len(Among(s, T)) -> 1..Len(s)]
      /\ \A i \in 1..Len(Among(s, T)) : Among(s, T)[i] = s[m[i]] /\ s[m[i]] \in T
      /\ \A i, j \in 1..Len(Among(s, T)) : i < j => m[i] < m[j]
      /\ \A k \in 1..Len(s) : s[k] \in T => \E i \in 1..Len(Among(s, T)) : m[i] = k
    BY <1>7, <1>8
<1> QED BY <1>7, <1>9

-----------------------------------------------------------------------------
(* What delivery does to a handler *)

\* All fields but those a delivery changes.
SameCall(r, c) ==
    /\ r.pc = c.pc /\ r.resume = c.resume /\ r.finished = c.finished /\ r.mine = c.mine
    /\ r.plan = c.plan /\ r.pending = c.pending

\* Only entries were sent.
SentEntries(r, c) ==
    /\ Len(r.out) >= Len(c.out)
    /\ \A i \in DOMAIN r.out : IF i <= Len(c.out) THEN r.out[i] = c.out[i]
                                                   ELSE r.out[i].kind = "entry"

\* What holds however much is delivered.
Advances(r, c) ==
    /\ r \in Conn
    /\ SameCall(r, c)
    /\ SentEntries(r, c)
    /\ c.closed => r.closed /\ r.out = c.out
    /\ r.delivered >= c.delivered

\* A handler that delivers nothing has gone on by nothing.
LEMMA AdvancesSelf == ASSUME NEW c \in Conn PROVE Advances(c, c)
<1>1. c.out \in Seq(Frame) /\ c.delivered \in Nat
    BY DEF Conn
<1> QED BY <1>1 DEF Advances, SameCall, SentEntries

\* A handler that went on twice went on.
LEMMA AdvancesOn ==
    ASSUME NEW c \in Conn, NEW r, NEW q, Advances(r, c), Advances(q, r)
    PROVE  Advances(q, c)
<1>1. /\ c.out \in Seq(Frame) /\ r.out \in Seq(Frame) /\ q.out \in Seq(Frame)
      /\ c.delivered \in Nat /\ r.delivered \in Nat /\ q.delivered \in Nat
    BY DEF Advances, Conn
<1>2. SameCall(q, c) /\ q \in Conn
    BY DEF Advances, SameCall
<1>3. SentEntries(q, c)
  <2>1. Len(q.out) >= Len(r.out) /\ Len(r.out) >= Len(c.out)
      BY DEF Advances, SentEntries
  <2>2. ASSUME NEW i \in DOMAIN q.out
        PROVE  IF i <= Len(c.out) THEN q.out[i] = c.out[i] ELSE q.out[i].kind = "entry"
    <3>1. i \in Nat /\ i >= 1 /\ Len(r.out) \in Nat /\ Len(c.out) \in Nat
        BY <1>1
    <3>2. i <= Len(r.out) => i \in DOMAIN r.out
        BY <1>1, <3>1
    <3> QED BY <1>1, <2>1, <2>2, <3>1, <3>2 DEF Advances, SentEntries
  <2> QED BY <1>1, <2>1, <2>2 DEF SentEntries
<1> QED BY <1>1, <1>2, <1>3 DEF Advances

\* One delivery: the handler has delivered the entry, or had it before.
LEMMA DeliverAdvances ==
    ASSUME NEW c \in Conn, NEW e \in Entry
    PROVE  /\ Advances(Deliver(c, e), c)
           /\ Deliver(c, e).delivered >= e.seq
<1> DEFINE r == Deliver(c, e)
           f == [kind |-> "entry", n |-> e.n, id |-> e.seq]
<1>1. /\ r \in Conn
      /\ r.pc = c.pc /\ r.resume = c.resume /\ r.finished = c.finished /\ r.mine = c.mine
      /\ r.plan = c.plan /\ r.pending = c.pending
      /\ IF e.seq <= c.delivered THEN r = c
         ELSE /\ r.delivered = e.seq
              /\ r.closed = (c.closed \/ e.n = EndMark)
              /\ r.out = IF c.closed THEN c.out ELSE Append(c.out, f)
    BY Delivered
<1> HIDE DEF r
<1>2. c.out \in Seq(Frame) /\ c.delivered \in Nat /\ e.seq \in Nat
    BY DEF Conn, Entry
<1>3. CASE e.seq <= c.delivered
    BY <1>1, <1>2, <1>3, AdvancesSelf DEF r
<1>4. CASE ~(e.seq <= c.delivered)
  <2>1. SentEntries(r, c)
    <3>1. CASE c.closed
        BY <1>1, <1>2, <1>4, <3>1 DEF SentEntries
    <3>2. CASE ~c.closed
      <4>1. r.out = Append(c.out, f) /\ f.kind = "entry"
          BY <1>1, <1>4, <3>2
      <4> HIDE DEF f
      <4>2. /\ Len(r.out) = Len(c.out) + 1 /\ DOMAIN r.out = 1..Len(r.out)
            /\ \A i \in 1..Len(c.out) : r.out[i] = c.out[i]
            /\ r.out[Len(c.out) + 1].kind = "entry" /\ Len(c.out) \in Nat
          BY <1>2, <4>1
      <4> QED BY <4>2 DEF SentEntries
    <3> QED BY <3>1, <3>2
  <2>2. SameCall(r, c)
      BY <1>1 DEF SameCall
  <2>3. r.delivered >= c.delivered /\ r.delivered >= e.seq
    <3>1. r.delivered = e.seq
        BY <1>1, <1>4
    <3> QED BY <1>2, <1>4, <3>1
  <2>4. c.closed => r.closed /\ r.out = c.out
      BY <1>1, <1>4
  <2> QED BY <1>1, <2>1, <2>2, <2>3, <2>4 DEF Advances, r
<1> QED BY <1>3, <1>4

\* Many deliveries: none of the entries is still to be delivered.
LEMMA DeliverAllAdvances ==
    ASSUME NEW c \in Conn, NEW s \in Seq(Entry)
    PROVE  /\ Advances(DeliverAll(c, s), c)
           /\ \A k \in 1..Len(s) : DeliverAll(c, s).delivered >= s[k].seq
<1>1. PICK d \in [0..Len(s) -> Conn] :
               /\ d[0] = c
               /\ \A k \in 1..Len(s) : d[k] = Deliver(d[k - 1], s[k])
               /\ DeliverAll(c, s) = d[Len(s)]
    BY DeliverAllSteps
<1> DEFINE n == Len(s)
           U == {k \in Nat : k <= n => /\ Advances(d[k], c)
                                       /\ \A j \in 1..k : d[k].delivered >= s[j].seq}
<1>2. n \in Nat
    OBVIOUS
<1>3. 0 \in U
    BY <1>1, AdvancesSelf
<1>4. ASSUME NEW k \in Nat, k \in U PROVE k + 1 \in U
  <2>1. SUFFICES ASSUME k + 1 <= n
                 PROVE  /\ Advances(d[k + 1], c)
                        /\ \A j \in 1..(k + 1) : d[k + 1].delivered >= s[j].seq
      OBVIOUS
  <2>2. k + 1 \in 1..n /\ (k + 1) - 1 = k /\ k <= n /\ k \in 0..n
      BY <1>2, <2>1
  <2>3. d[k] \in Conn /\ s[k + 1] \in Entry /\ d[k + 1] = Deliver(d[k], s[k + 1])
      BY <1>1, <2>2
  <2>4. Advances(d[k + 1], d[k]) /\ d[k + 1].delivered >= s[k + 1].seq
      BY <2>3, DeliverAdvances
  <2>5. Advances(d[k], c) /\ \A j \in 1..k : d[k].delivered >= s[j].seq
      BY <1>4, <2>2
  <2>6. Advances(d[k + 1], c)
      BY <2>4, <2>5, AdvancesOn
  <2>7. ASSUME NEW j \in 1..(k + 1) PROVE d[k + 1].delivered >= s[j].seq
    <3>1. /\ d[k].delivered \in Nat /\ d[k + 1].delivered \in Nat
          /\ d[k + 1].delivered >= d[k].delivered
        BY <2>3, <2>4 DEF Advances, Conn
    <3>2. j \in 1..n /\ (j \in 1..k \/ j = k + 1)
        BY <2>1
    <3>3. s[j].seq \in Nat
      <4>1. s[j] \in Entry
          BY <3>2
      <4> QED BY <4>1 DEF Entry
    <3> QED BY <2>4, <2>5, <3>1, <3>2, <3>3
  <2> QED BY <2>6, <2>7
<1>5. n \in U
  <2> HIDE DEF U
  <2> QED BY <1>2, <1>3, <1>4, Counting
<1>6. n <= n
    BY <1>2
<1> QED BY <1>1, <1>5, <1>6

\* A delivery is framed as what was sent before.
LEMMA DeliverFramed ==
    ASSUME NEW c \in Conn, NEW e \in Entry, Framed(c.out), Genuine(e.n, e.seq)
    PROVE  Framed(Deliver(c, e).out)
<1> DEFINE r == Deliver(c, e)
           f == [kind |-> "entry", n |-> e.n, id |-> e.seq]
<1>1. c.out \in Seq(Frame) /\ e.n # 0 /\ e.seq # 0
    BY DEF Conn, Entry
<1>2. r.out = c.out \/ r.out = Append(c.out, f)
    BY Delivered
<1>3. CASE r.out = Append(c.out, f)
  <2>1. f.kind = "entry" /\ f.n = e.n /\ f.id = e.seq
      OBVIOUS
  <2> HIDE DEF f, r
  <2>2. /\ Len(r.out) = Len(c.out) + 1 /\ DOMAIN r.out = 1..Len(r.out) /\ DOMAIN c.out = 1..Len(c.out)
        /\ \A i \in 1..Len(c.out) : r.out[i] = c.out[i]
        /\ r.out[Len(c.out) + 1] = f /\ Len(c.out) \in Nat
      BY <1>1, <1>3
  <2>3. \A i \in DOMAIN r.out : i \in DOMAIN c.out \/ i = Len(c.out) + 1
      BY <2>2
  <2>4. 1 \in DOMAIN c.out \/ Len(c.out) = 0
      BY <2>2
  <2>5. ASSUME NEW i \in DOMAIN r.out
        PROVE  /\ r.out[i].kind = "entry" =>
                    r.out[i].n # 0 /\ r.out[i].id # 0 /\ Genuine(r.out[i].n, r.out[i].id)
               /\ r.out[i].kind \in {"archived", "unkept", "end"} => status = "settled"
               /\ r.out[i].kind = "reset" => i = 1
               /\ r.out[i].kind \in {"omitted", "archived", "unkept"} =>
                    i = 1 \/ (i = 2 /\ r.out[1].kind = "reset")
    <3>1. CASE i = Len(c.out) + 1
        BY <1>1, <2>1, <2>2, <3>1
    <3>2. CASE i \in DOMAIN c.out
      <4>1. r.out[i] = c.out[i] /\ r.out[1] = c.out[1]
          BY <2>2, <2>4, <3>2
      <4> QED BY <3>2, <4>1 DEF Framed
    <3> QED BY <2>3, <3>1, <3>2
  <2> QED BY <2>5 DEF Framed, r
<1> QED BY <1>2, <1>3

\* What is delivered of the log is of the log on the connection.
LEMMA DeliverAllFramed ==
    ASSUME NEW c \in Conn, NEW s \in Seq(Entry), Framed(c.out), GenuineSeq(s)
    PROVE  Framed(DeliverAll(c, s).out)
<1>1. PICK d \in [0..Len(s) -> Conn] :
               /\ d[0] = c
               /\ \A k \in 1..Len(s) : d[k] = Deliver(d[k - 1], s[k])
               /\ DeliverAll(c, s) = d[Len(s)]
    BY DeliverAllSteps
<1> DEFINE n == Len(s)
           U == {k \in Nat : k <= n => Framed(d[k].out)}
<1>2. n \in Nat
    OBVIOUS
<1>3. 0 \in U
    BY <1>1
<1>4. ASSUME NEW k \in Nat, k \in U PROVE k + 1 \in U
  <2>1. SUFFICES ASSUME k + 1 <= n PROVE Framed(d[k + 1].out)
      OBVIOUS
  <2>2. k + 1 \in 1..n /\ (k + 1) - 1 = k /\ k <= n /\ k \in 0..n
      BY <1>2, <2>1
  <2>3. d[k] \in Conn /\ s[k + 1] \in Entry /\ d[k + 1] = Deliver(d[k], s[k + 1])
      BY <1>1, <2>2
  <2>4. Genuine(s[k + 1].n, s[k + 1].seq)
      BY <2>2 DEF GenuineSeq
  <2> QED BY <1>4, <2>2, <2>3, <2>4, DeliverFramed
<1>5. n \in U
  <2> HIDE DEF U
  <2> QED BY <1>2, <1>3, <1>4, Counting
<1>6. n <= n
    BY <1>2
<1> QED BY <1>1, <1>5, <1>6

\* After the notice of omitted output any number may follow.
Jumps(out) == out # <<>> /\ out[Len(out)].kind = "omitted"

\* Where the next number fits, the one that is delivered fits: it is beyond the
\* next only after a loss, or where the beginning is missing.
LEMMA FitsLater ==
    ASSUME NEW v, View!Shown(v.screen) \in Nat, NEW out \in Seq(Frame), NEW d \in Nat, NEW id \in Nat,
           Fits(v, out, Len(out) + 1, d + 1), id > d,
           marred = {} => id <= d + 1 \/ Jumps(out)
    PROVE  Fits(v, out, Len(out) + 1, id)
<1>1. Len(out) \in Nat /\ (Len(out) = 0 <=> out = <<>>)
    OBVIOUS
<1>2. CASE out = <<>>
  <2>1. Len(out) + 1 = 1 /\ ~Jumps(out)
      BY <1>1, <1>2 DEF Jumps
  <2>2. d + 1 > View!Shown(v.screen)
      BY <2>1 DEF Fits
  <2>3. id > View!Shown(v.screen)
      BY <2>2
  <2>4. marred = {} => id = d + 1
      BY <2>1
  <2> QED BY <2>1, <2>3, <2>4 DEF Fits
<1>3. CASE out # <<>>
  <2> DEFINE f == out[Len(out)]
  <2>1. Len(out) + 1 # 1 /\ (Len(out) + 1) - 1 = Len(out) /\ f \in Frame
      BY <1>1, <1>3
  <2>2. f.id \in Nat
      BY <2>1 DEF Frame
  <2>3. CASE f.kind = "omitted"
      BY <2>1, <2>3 DEF Fits
  <2>4. CASE f.kind # "omitted"
    <3>1. marred = {} => id = d + 1
        BY <2>4 DEF Jumps
    <3>2. \/ f.kind = "entry" /\ d + 1 > f.id /\ (marred = {} => d + 1 = f.id + 1)
          \/ f.kind = "reset" /\ (marred = {} => d + 1 = 1)
        BY <2>1, <2>4 DEF Fits
    <3>3. CASE f.kind = "entry"
      <4>1. id > f.id /\ (marred = {} => id = f.id + 1)
          BY <2>2, <3>1, <3>2, <3>3
      <4> QED BY <2>1, <3>3, <4>1 DEF Fits
    <3>4. CASE f.kind = "reset"
      <4>1. marred = {} => id = 1
          BY <3>1, <3>2, <3>4
      <4> QED BY <2>1, <3>4, <4>1 DEF Fits
    <3> QED BY <3>2, <3>3, <3>4
  <2> QED BY <2>3, <2>4
<1> QED BY <1>2, <1>3

\* A delivery keeps what is on its way linked.
LEMMA DeliverLinked ==
    ASSUME NEW v, View!Shown(v.screen) \in Nat, NEW c \in Conn, NEW e \in Entry,
           Linked(v, c.out), Ready(v, c),
           marred = {} => e.seq <= c.delivered + 1 \/ Jumps(c.out)
    PROVE  Linked(v, Deliver(c, e).out) /\ Ready(v, Deliver(c, e))
<1> DEFINE r == Deliver(c, e)
           f == [kind |-> "entry", n |-> e.n, id |-> e.seq]
           l == Len(c.out)
<1>1. IF e.seq <= c.delivered THEN r = c
      ELSE /\ r.delivered = e.seq
           /\ r.closed = (c.closed \/ e.n = EndMark)
           /\ r.out = IF c.closed THEN c.out ELSE Append(c.out, f)
    BY Delivered
<1> HIDE DEF r
<1>2. c.out \in Seq(Frame) /\ c.delivered \in Nat /\ e.seq \in Nat /\ l \in Nat
    BY DEF Conn, Entry
<1>3. CASE e.seq <= c.delivered
    BY <1>1, <1>3 DEF r
<1>4. CASE ~(e.seq <= c.delivered) /\ c.closed
  <2>1. r.out = c.out /\ r.closed
      BY <1>1, <1>4
  <2> QED BY <2>1 DEF r, Ready
<1>5. CASE ~(e.seq <= c.delivered) /\ ~c.closed
  <2>1. r.out = Append(c.out, f) /\ r.delivered = e.seq
      BY <1>1, <1>5
  <2>2. f.kind = "entry" /\ f.id = e.seq
      OBVIOUS
  <2> HIDE DEF f
  <2>3. /\ Len(r.out) = l + 1 /\ DOMAIN r.out = 1..(l + 1) /\ DOMAIN c.out = 1..l
        /\ \A i \in 1..l : r.out[i] = c.out[i]
        /\ r.out[l + 1] = f
      BY <1>2, <2>1
  <2>4. Fits(v, c.out, l + 1, e.seq)
    <3>1. Fits(v, c.out, l + 1, c.delivered + 1)
        BY <1>5 DEF Ready
    <3>2. e.seq > c.delivered
        BY <1>2, <1>5
    <3> QED BY <1>2, <3>1, <3>2, FitsLater
  <2>5. ASSUME NEW i \in 1..(l + 1), NEW id
        PROVE  Fits(v, r.out, i, id) <=> Fits(v, c.out, i, id)
    <3>1. CASE i = 1
        BY <3>1 DEF Fits
    <3>2. CASE i # 1
      <4>1. i - 1 \in 1..l
          BY <1>2, <3>2
      <4>2. r.out[i - 1] = c.out[i - 1]
          BY <2>3, <4>1
      <4> QED BY <3>2, <4>2 DEF Fits
    <3> QED BY <3>1, <3>2
  <2>6. Linked(v, r.out)
    <3> SUFFICES ASSUME NEW i \in 1..(l + 1), r.out[i].kind = "entry"
                 PROVE  Fits(v, r.out, i, r.out[i].id)
        BY <2>3 DEF Linked
    <3>1. CASE i = l + 1
        BY <2>2, <2>3, <2>4, <2>5, <3>1
    <3>2. CASE i # l + 1
      <4>1. i \in 1..l
          BY <1>2, <3>2
      <4> QED BY <2>3, <2>5, <4>1 DEF Linked
    <3> QED BY <3>1, <3>2
  <2>7. Fits(v, r.out, Len(r.out) + 1, r.delivered + 1)
    <3>1. Len(r.out) + 1 # 1 /\ (Len(r.out) + 1) - 1 = l + 1
        BY <1>2, <2>3
    <3>2. r.delivered + 1 > f.id /\ r.delivered + 1 = f.id + 1
        BY <1>2, <2>1, <2>2
    <3> QED BY <2>2, <2>3, <3>1, <3>2 DEF Fits
  <2> QED BY <2>6, <2>7 DEF Ready, r
<1> QED BY <1>3, <1>4, <1>5

\* Entries that follow one another, delivered after what is on the connection,
\* leave a connection without a repetition, and without a gap while nothing went
\* wrong.
LEMMA DeliverAllLinked ==
    ASSUME NEW v, View!Shown(v.screen) \in Nat, NEW c \in Conn, NEW s \in Seq(Entry),
           Linked(v, c.out), Ready(v, c),
           marred = {} =>
             /\ s # <<>> => s[1].seq <= c.delivered + 1 \/ Jumps(c.out)
             /\ \A k \in 1..(Len(s) - 1) : s[k + 1].seq = s[k].seq + 1
    PROVE  Linked(v, DeliverAll(c, s).out) /\ Ready(v, DeliverAll(c, s))
<1>1. PICK d \in [0..Len(s) -> Conn] :
               /\ d[0] = c
               /\ \A k \in 1..Len(s) : d[k] = Deliver(d[k - 1], s[k])
               /\ DeliverAll(c, s) = d[Len(s)]
    BY DeliverAllSteps
<1> DEFINE n == Len(s)
           U == {k \in Nat : k <= n =>
                   /\ Linked(v, d[k].out) /\ Ready(v, d[k])
                   /\ k # 0 => d[k].delivered >= s[k].seq}
<1>2. n \in Nat
    OBVIOUS
<1>3. 0 \in U
    BY <1>1
<1>4. ASSUME NEW k \in Nat, k \in U PROVE k + 1 \in U
  <2>1. SUFFICES ASSUME k + 1 <= n
                 PROVE  /\ Linked(v, d[k + 1].out) /\ Ready(v, d[k + 1])
                        /\ d[k + 1].delivered >= s[k + 1].seq
      OBVIOUS
  <2>2. k + 1 \in 1..n /\ (k + 1) - 1 = k /\ k <= n /\ k \in 0..n
      BY <1>2, <2>1
  <2>3. d[k] \in Conn /\ s[k + 1] \in Entry /\ d[k + 1] = Deliver(d[k], s[k + 1])
      BY <1>1, <2>2
  <2>4. Linked(v, d[k].out) /\ Ready(v, d[k]) /\ (k # 0 => d[k].delivered >= s[k].seq)
      BY <1>4, <2>2
  <2>5. marred = {} => s[k + 1].seq <= d[k].delivered + 1 \/ Jumps(d[k].out)
    <3>1. CASE k = 0
      <4>1. s # <<>> /\ d[k] = c
          BY <1>1, <2>2, <3>1
      <4> QED BY <3>1, <4>1
    <3>2. CASE k # 0
      <4>1. k \in 1..(Len(s) - 1)
          BY <1>2, <2>2, <3>2
      <4>2. s[k] \in Entry
          BY <4>1
      <4>3. s[k].seq \in Nat /\ s[k + 1].seq \in Nat /\ d[k].delivered \in Nat
          BY <2>3, <4>2 DEF Entry, Conn
      <4>4. marred = {} => s[k + 1].seq = s[k].seq + 1
          BY <4>1
      <4> QED BY <2>4, <3>2, <4>3, <4>4
    <3> QED BY <3>1, <3>2
  <2>6. d[k + 1].delivered >= s[k + 1].seq
      BY <2>3, DeliverAdvances
  <2> QED BY <2>3, <2>4, <2>5, <2>6, DeliverLinked
<1>5. n \in U
  <2> HIDE DEF U
  <2> QED BY <1>2, <1>3, <1>4, Counting
<1>6. n <= n
    BY <1>2
<1> QED BY <1>1, <1>5, <1>6

-----------------------------------------------------------------------------
(* The replay *)

\* A frame without an entry.
LEMMA PlainIs ==
    ASSUME NEW kind \in {"reset", "omitted", "archived", "unkept", "end"}
    PROVE  Plain(kind) \in Frame /\ Plain(kind).kind = kind
<1>1. 0 \in 0..EndMark
    BY LogAssumption DEF EndMark
<1> QED BY <1>1 DEF Plain, Frame

\* What Send changes: nothing on a closed stream, else what is on its way.
LEMMA SendIs ==
    ASSUME NEW c \in Conn, NEW f \in Frame
    PROVE  /\ Send(c, f) \in Conn
           /\ SameCall(Send(c, f), c)
           /\ Send(c, f).delivered = c.delivered /\ Send(c, f).closed = c.closed
           /\ Send(c, f).out = IF c.closed THEN c.out ELSE Append(c.out, f)
<1>1. Append(c.out, f) \in Seq(Frame)
    BY DEF Conn
<1>2. CASE c.closed
    BY <1>2 DEF Send, SameCall
<1>3. CASE ~c.closed
    BY <1>1, <1>3 DEF Send, SameCall, Conn
<1> QED BY <1>2, <1>3

\* What a handler sends before the backlog.
Start(c) ==
    IF Resumes(c) THEN c
    ELSE IF Len(c.plan) >= Capacity THEN Send(Restart(c), Plain("omitted"))
    ELSE Restart(c)

\* What of the backlog it sends.
Told(c) == IF Resumes(c) THEN Among(c.plan, {e \in ToSet(c.plan) : e.seq > c.resume}) ELSE c.plan

\* A replay delivers what it was told of the buffer, then what was heard.
LEMMA ReplayedInSteps ==
    ASSUME NEW c
    PROVE  Replayed(c) = DeliverAll(DeliverAll(Start(c), Told(c)), c.pending)
    BY DEF Replayed, Start, Told

\* Where a replay starts from.
LEMMA StartIs ==
    ASSUME NEW c \in Conn, c.out = <<>>
    PROVE  /\ Start(c) \in Conn
           /\ SameCall(Start(c), c)
           /\ Start(c).closed = c.closed
           /\ Resumes(c) => Start(c) = c
           /\ ~Resumes(c) => Start(c).delivered = 0
           /\ c.closed => Start(c).out = <<>>
           /\ ~Resumes(c) /\ ~c.closed =>
                Start(c).out = IF Len(c.plan) >= Capacity
                               THEN <<Plain("reset"), Plain("omitted")>>
                               ELSE <<Plain("reset")>>
<1>1. CASE Resumes(c)
    BY <1>1 DEF Start, SameCall
<1>2. CASE ~Resumes(c)
  <2> DEFINE a == Send(c, Plain("reset"))
             d == Restart(c)
             g == Send(d, Plain("omitted"))
  <2>1. Plain("reset") \in Frame /\ Plain("omitted") \in Frame
      BY PlainIs
  <2>2. /\ a \in Conn /\ SameCall(a, c) /\ a.closed = c.closed
        /\ a.out = IF c.closed THEN <<>> ELSE <<Plain("reset")>>
    <3>1. /\ a \in Conn /\ SameCall(a, c) /\ a.closed = c.closed
          /\ a.out = IF c.closed THEN c.out ELSE Append(c.out, Plain("reset"))
        BY <2>1, SendIs
    <3>2. Append(c.out, Plain("reset")) = <<Plain("reset")>>
      <4>1. \A f \in Frame : Append(<<>>, f) = <<f>>
          OBVIOUS
      <4> QED BY <2>1, <4>1
    <3> HIDE DEF a
    <3> QED BY <3>1, <3>2
  <2>3. d = [a EXCEPT !.delivered = 0]
      BY DEF Restart
  <2> HIDE DEF a, d
  <2>4. /\ d \in Conn /\ SameCall(d, c) /\ d.closed = c.closed /\ d.delivered = 0
        /\ d.out = a.out
      BY <2>2, <2>3 DEF Conn, SameCall
  <2>5. /\ g \in Conn /\ SameCall(g, c) /\ g.closed = c.closed /\ g.delivered = 0
        /\ g.out = IF d.closed THEN d.out ELSE Append(d.out, Plain("omitted"))
      BY <2>1, <2>4, SendIs DEF SameCall
  <2>6. ~c.closed => g.out = <<Plain("reset"), Plain("omitted")>>
      BY <2>2, <2>4, <2>5
  <2>7. c.closed => d.out = <<>> /\ g.out = <<>>
      BY <2>2, <2>4, <2>5
  <2>8. Start(c) = IF Len(c.plan) >= Capacity THEN g ELSE d
      BY <1>2 DEF Start, d
  <2> HIDE DEF g
  <2> QED BY <1>2, <2>2, <2>4, <2>5, <2>6, <2>7, <2>8
<1> QED BY <1>1, <1>2

\* What is told of a backlog without gaps has none, starts where the browser
\* stopped and goes to its end.
LEMMA ToldIs ==
    ASSUME NEW c \in Conn
    PROVE  /\ Told(c) \in Seq(Entry)
           /\ GenuineSeq(c.plan) => GenuineSeq(Told(c))
<1> DEFINE T == {e \in ToSet(c.plan) : e.seq > c.resume}
<1>1. c.plan \in Seq(Entry)
    BY DEF Conn
<1>2. CASE ~Resumes(c)
    BY <1>1, <1>2 DEF Told
<1>3. CASE Resumes(c)
  <2>1. Told(c) = Among(c.plan, T)
      BY <1>3 DEF Told
  <2> HIDE DEF T
  <2>2. Told(c) \in Seq(Entry)
      BY <1>1, <2>1, AmongIs
  <2>3. PICK m \in [1..Len(Told(c)) -> 1..Len(c.plan)] :
            \A i \in 1..Len(Told(c)) : Told(c)[i] = c.plan[m[i]]
      BY <1>1, <2>1, AmongIs
  <2>4. ASSUME GenuineSeq(c.plan), NEW i \in DOMAIN Told(c)
        PROVE  Genuine(Told(c)[i].n, Told(c)[i].seq)
    <3>1. i \in 1..Len(Told(c))
        BY <2>2
    <3>2. m[i] \in DOMAIN c.plan /\ Told(c)[i] = c.plan[m[i]]
        BY <1>1, <2>3, <3>1
    <3> QED BY <2>4, <3>2 DEF GenuineSeq
  <2> QED BY <2>2, <2>4 DEF GenuineSeq
<1> QED BY <1>2, <1>3

\* What a replay takes of the buffer has no gap, and follows what the browser
\* has; when it takes nothing, the browser has all of it.
LEMMA ToldHasNoGap ==
    ASSUME NEW c \in Conn, \A i \in DOMAIN c.plan : c.plan[i].seq = c.plan[1].seq + i - 1
    PROVE  LET t == Told(c) IN
           /\ \A k \in 1..(Len(t) - 1) : t[k + 1].seq = t[k].seq + 1
           /\ ~Resumes(c) => t = c.plan
           /\ Resumes(c) /\ t # <<>> => t[1].seq <= c.resume + 1
           /\ c.plan # <<>> =>
                \/ Resumes(c) /\ c.plan[Len(c.plan)].seq <= c.resume
                \/ t # <<>> /\ t[Len(t)].seq = c.plan[Len(c.plan)].seq
<1> DEFINE p == c.plan
           n == Len(p)
           t == Told(c)
           T == {e \in ToSet(p) : e.seq > c.resume}
<1>1. p \in Seq(Entry) /\ n \in Nat /\ DOMAIN p = 1..n /\ c.resume \in Nat
    BY DEF Conn
<1>2. \A i \in 1..n : p[i].seq = p[1].seq + i - 1 /\ p[i].seq \in Nat
  <2>1. \A i \in 1..n : p[i] \in Entry
      BY <1>1
  <2> QED BY <1>1, <2>1 DEF Entry
<1>a. p # <<>> => n >= 1 /\ 1 \in 1..n /\ n \in 1..n
    BY <1>1
<1>3. CASE ~Resumes(c)
  <2>1. t = p
      BY <1>3 DEF Told
  <2>2. ASSUME NEW k \in 1..(n - 1) PROVE p[k + 1].seq = p[k].seq + 1
    <3>1. k \in 1..n /\ k + 1 \in 1..n /\ 1 \in 1..n
        BY <1>1
    <3>2. p[k].seq = p[1].seq + k - 1 /\ p[k + 1].seq = p[1].seq + (k + 1) - 1 /\ p[1].seq \in Nat
        BY <1>2, <3>1
    <3> QED BY <3>2
  <2> QED BY <1>3, <2>1, <2>2
<1>4. CASE Resumes(c)
  <2>1. t = Among(p, T)
      BY <1>4 DEF Told
  <2>2. \A i \in 1..n : p[i] \in T <=> p[i].seq > c.resume
      BY <1>1 DEF ToSet
  <2> HIDE DEF T
  <2>3. t \in Seq(Entry)
      BY <1>1, <2>1, AmongIs
  <2>4. PICK m \in [1..Len(t) -> 1..n] :
            /\ \A i \in 1..Len(t) : t[i] = p[m[i]] /\ p[m[i]] \in T
            /\ \A i, j \in 1..Len(t) : i < j => m[i] < m[j]
            /\ \A k \in 1..n : p[k] \in T => \E i \in 1..Len(t) : m[i] = k
      BY <1>1, <2>1, AmongIs
  <2> DEFINE l == Len(t)
  <2>5. l \in Nat
      BY <2>3
  <2> HIDE DEF t, p, n
  <2>6. \A i \in 1..l : /\ m[i] \in 1..n /\ m[i] \in Nat /\ t[i] = p[m[i]]
                        /\ t[i].seq = p[1].seq + m[i] - 1 /\ t[i].seq > c.resume
      BY <1>1, <1>2, <2>2, <2>4
  <2>7. ASSUME NEW k \in 1..(l - 1) PROVE t[k + 1].seq = t[k].seq + 1
    <3>1. k \in 1..l /\ k + 1 \in 1..l /\ k < k + 1
        BY <2>5
    <3>2. m[k] < m[k + 1]
        BY <2>4, <3>1
    <3>3. m[k] + 1 \in 1..n
        BY <1>1, <2>6, <3>1, <3>2
    <3>4. p[m[k] + 1].seq > c.resume
      <4>1. p[m[k] + 1].seq = p[1].seq + (m[k] + 1) - 1 /\ p[m[k]].seq = p[1].seq + m[k] - 1
          BY <1>2, <2>6, <3>1, <3>3
      <4>2. 1 \in 1..n /\ p[1].seq \in Nat
          BY <1>1, <1>2, <3>3
      <4> QED BY <1>1, <2>6, <3>1, <4>1, <4>2
    <3>5. PICK i \in 1..l : m[i] = m[k] + 1
        BY <2>2, <2>4, <3>3, <3>4
    <3>6. ~(i < k) /\ ~(i > k + 1) /\ i # k
      <4>1. i < k => m[i] < m[k]
          BY <2>4, <3>1
      <4>2. i > k + 1 => m[k + 1] < m[i]
          BY <2>4, <3>1
      <4> QED BY <2>6, <3>1, <3>2, <3>5, <4>1, <4>2
    <3>7. i = k + 1
        BY <2>5, <3>1, <3>6
    <3>8. m[k + 1] = m[k] + 1 /\ m[k] \in Nat
        BY <2>6, <3>1, <3>5, <3>7
    <3>9. p[1].seq \in Nat
        BY <1>1, <1>2, <3>3
    <3> QED BY <2>6, <3>1, <3>8, <3>9
  <2>8. ASSUME t # <<>> PROVE t[1].seq <= c.resume + 1
    <3>1. 1 \in 1..l
        BY <2>3, <2>8
    <3>2. p # <<>> /\ p[1].seq <= c.resume + 1 /\ p[1].seq \in Nat
      <4>1. p # <<>> /\ p[1].seq <= c.resume + 1
          BY <1>4 DEF Resumes, p
      <4> QED BY <1>2, <1>a, <4>1
    <3>3. CASE m[1] = 1
        BY <2>6, <3>1, <3>2, <3>3
    <3>4. CASE m[1] # 1
      <4>1. m[1] - 1 \in 1..n /\ m[1] \in Nat
          BY <1>1, <2>6, <3>1, <3>4
      <4>2. p[m[1] - 1].seq <= c.resume
        <5>1. SUFFICES ASSUME p[m[1] - 1].seq > c.resume PROVE FALSE
            BY <1>1, <1>2, <4>1
        <5>2. PICK i \in 1..l : m[i] = m[1] - 1
            BY <2>2, <2>4, <4>1, <5>1
        <5>3. i = 1 \/ 1 < i
            BY <2>5
        <5>4. 1 < i => m[1] < m[i]
            BY <2>4, <3>1
        <5> QED BY <2>6, <4>1, <5>2, <5>3, <5>4
      <4>3. p[m[1] - 1].seq = p[1].seq + (m[1] - 1) - 1
          BY <1>2, <4>1
      <4> QED BY <1>1, <2>6, <3>1, <3>2, <4>1, <4>2, <4>3
    <3> QED BY <3>3, <3>4
  <2>9. ASSUME p # <<>>, ~(p[n].seq <= c.resume)
        PROVE  t # <<>> /\ t[l].seq = p[n].seq
    <3>1. p[n].seq > c.resume /\ n \in 1..n
        BY <1>1, <1>2, <1>a, <2>9
    <3>2. PICK i \in 1..l : m[i] = n
        BY <2>2, <2>4, <3>1
    <3>3. l \in 1..l /\ (i = l \/ i < l)
        BY <2>5
    <3>4. i = l
      <4>1. i < l => m[i] < m[l]
          BY <2>4, <3>3
      <4>2. m[l] <= n /\ m[l] \in Nat
        <5>1. m[l] \in 1..n
            BY <2>6, <3>3
        <5> QED BY <1>1, <5>1
      <4>3. n \in Nat
          BY <1>1 DEF n, p
      <4>4. ~(i < l)
          BY <3>2, <4>1, <4>2, <4>3
      <4> QED BY <3>3, <4>4
    <3>5. t[l] = p[n] /\ t # <<>>
        BY <2>3, <2>6, <3>2, <3>3, <3>4
    <3> QED BY <3>5
  <2> QED BY <1>4, <2>7, <2>8, <2>9 DEF t, p, n
<1> QED BY <1>3, <1>4

\* What a replay keeps of where it started.
LEMMA ReplayedAdvances ==
    ASSUME NEW c \in Conn, c.out = <<>>
    PROVE  /\ DeliverAll(Start(c), Told(c)) \in Conn
           /\ Advances(DeliverAll(Start(c), Told(c)), Start(c))
           /\ Advances(Replayed(c), DeliverAll(Start(c), Told(c)))
           /\ Advances(Replayed(c), Start(c))
<1> DEFINE a == Start(c)
           t == Told(c)
           m == DeliverAll(a, t)
<1>1. a \in Conn /\ t \in Seq(Entry) /\ c.pending \in Seq(Entry)
    BY StartIs, ToldIs DEF Conn
<1> HIDE DEF a, t
<1>2. Advances(m, a)
    BY <1>1, DeliverAllAdvances
<1>3. m \in Conn
    BY <1>2 DEF Advances
<1> HIDE DEF m
<1>4. Advances(DeliverAll(m, c.pending), m)
    BY <1>1, <1>3, DeliverAllAdvances
<1>5. Replayed(c) = DeliverAll(m, c.pending)
    BY ReplayedInSteps DEF m, a, t
<1>6. Advances(Replayed(c), m)
    BY <1>4, <1>5
<1>7. Advances(Replayed(c), a)
    BY <1>1, <1>2, <1>6, AdvancesOn
<1> QED BY <1>2, <1>3, <1>6, <1>7 DEF m, a, t

\* What a replay sends, and to whom.
LEMMA ReplayedIs ==
    ASSUME NEW c \in Conn, c.out = <<>>
    PROVE  LET r == Replayed(c) IN
           /\ r \in Conn
           /\ SameCall(r, c)
           /\ c.closed => r.closed /\ r.out = <<>>
           /\ Resumes(c) => \A i \in DOMAIN r.out : r.out[i].kind = "entry"
           /\ ~Resumes(c) /\ ~c.closed => r.out # <<>> /\ r.out[1].kind = "reset"
<1> DEFINE r == Replayed(c)
           a == Start(c)
<1>1. /\ a \in Conn /\ SameCall(a, c) /\ a.closed = c.closed
      /\ Resumes(c) => a.out = <<>>
      /\ c.closed => a.out = <<>>
      /\ ~Resumes(c) /\ ~c.closed => a.out # <<>> /\ a.out[1].kind = "reset"
  <2>1. Plain("reset").kind = "reset" /\ Plain("reset") \in Frame /\ Plain("omitted") \in Frame
      BY PlainIs
  <2>2. ASSUME ~Resumes(c), ~c.closed PROVE a.out # <<>> /\ a.out[1].kind = "reset"
    <3>1. a.out \in {<<Plain("reset"), Plain("omitted")>>, <<Plain("reset")>>}
        BY <2>2, StartIs
    <3>2. \A f, g : <<f>> # <<>> /\ <<f>>[1] = f /\ <<f, g>> # <<>> /\ <<f, g>>[1] = f
        OBVIOUS
    <3> QED BY <2>1, <3>1, <3>2
  <2> QED BY <2>2, StartIs
<1>2. Advances(r, a)
    BY ReplayedAdvances
<1> HIDE DEF r, a
<1>3. /\ r \in Conn /\ SameCall(r, a) /\ SentEntries(r, a) /\ (a.closed => r.closed /\ r.out = a.out)
    BY <1>2 DEF Advances
<1>4. SameCall(r, c)
    BY <1>1, <1>3 DEF SameCall
<1>5. r.out \in Seq(Frame) /\ a.out \in Seq(Frame)
    BY <1>1, <1>3 DEF Conn
<1>6. Resumes(c) => \A i \in DOMAIN r.out : r.out[i].kind = "entry"
  <2> SUFFICES ASSUME Resumes(c), NEW i \in DOMAIN r.out PROVE r.out[i].kind = "entry"
      OBVIOUS
  <2>1. Len(a.out) = 0 /\ i > 0
      BY <1>1, <1>5
  <2> QED BY <1>3, <2>1 DEF SentEntries
<1>7. ~Resumes(c) /\ ~c.closed => r.out # <<>> /\ r.out[1].kind = "reset"
  <2> SUFFICES ASSUME ~Resumes(c), ~c.closed PROVE r.out # <<>> /\ r.out[1].kind = "reset"
      OBVIOUS
  <2>1. Len(a.out) >= 1 /\ Len(r.out) >= Len(a.out)
      BY <1>1, <1>3, <1>5 DEF SentEntries
  <2>2. 1 \in DOMAIN r.out /\ r.out # <<>>
      BY <1>5, <2>1
  <2>3. r.out[1] = a.out[1]
      BY <1>3, <2>1, <2>2 DEF SentEntries
  <2> QED BY <1>1, <2>2, <2>3
<1> QED BY <1>1, <1>3, <1>4, <1>6, <1>7 DEF r

\* A replay goes to the end of the backlog, and of what was heard meanwhile.
LEMMA ReplayedCovers ==
    ASSUME NEW c \in Conn, c.out = <<>>, c.delivered = c.resume,
           \A i \in DOMAIN c.plan : c.plan[i].seq = c.plan[1].seq + i - 1
    PROVE  /\ c.plan # <<>> =>
                /\ DeliverAll(Start(c), Told(c)).delivered >= c.plan[Len(c.plan)].seq
                /\ Replayed(c).delivered >= c.plan[Len(c.plan)].seq
           /\ \A k \in 1..Len(c.pending) : Replayed(c).delivered >= c.pending[k].seq
<1> DEFINE a == Start(c)
           t == Told(c)
           m == DeliverAll(a, t)
           r == Replayed(c)
<1>1. a \in Conn /\ t \in Seq(Entry) /\ c.pending \in Seq(Entry) /\ c.plan \in Seq(Entry)
    BY StartIs, ToldIs DEF Conn
<1>2. m \in Conn /\ Advances(m, a) /\ Advances(r, m)
    BY ReplayedAdvances
<1>3. r = DeliverAll(m, c.pending)
    BY ReplayedInSteps
<1>4. Resumes(c) => a.delivered = c.resume
    BY StartIs
<1>5. c.plan # <<>> =>
        \/ Resumes(c) /\ c.plan[Len(c.plan)].seq <= c.resume
        \/ t # <<>> /\ t[Len(t)].seq = c.plan[Len(c.plan)].seq
    BY ToldHasNoGap
<1> HIDE DEF a, t
<1>6. \A k \in 1..Len(t) : m.delivered >= t[k].seq
    BY <1>1, DeliverAllAdvances
<1> HIDE DEF m, r
<1>7. \A k \in 1..Len(c.pending) : r.delivered >= c.pending[k].seq
    BY <1>1, <1>2, <1>3, DeliverAllAdvances
<1>8. /\ r.delivered >= m.delivered /\ m.delivered >= a.delivered
      /\ r.delivered \in Nat /\ m.delivered \in Nat /\ a.delivered \in Nat /\ c.resume \in Nat
    BY <1>1, <1>2 DEF Advances, Conn
<1>9. ASSUME c.plan # <<>>
      PROVE  m.delivered >= c.plan[Len(c.plan)].seq /\ r.delivered >= c.plan[Len(c.plan)].seq
  <2>1. c.plan[Len(c.plan)].seq \in Nat
    <3>1. c.plan[Len(c.plan)] \in Entry
        BY <1>1, <1>9
    <3> QED BY <3>1 DEF Entry
  <2>2. m.delivered >= c.plan[Len(c.plan)].seq
    <3>1. CASE Resumes(c) /\ c.plan[Len(c.plan)].seq <= c.resume
        BY <1>4, <1>8, <2>1, <3>1
    <3>2. CASE t # <<>> /\ t[Len(t)].seq = c.plan[Len(c.plan)].seq
      <4>1. Len(t) \in 1..Len(t)
          BY <1>1, <3>2
      <4> QED BY <1>6, <3>2, <4>1
    <3> QED BY <1>5, <1>9, <3>1, <3>2
  <2> QED BY <1>8, <2>1, <2>2
<1> QED BY <1>7, <1>9 DEF a, t, m, r

\* A replay is framed: what it starts with comes first.
LEMMA ReplayedFramed ==
    ASSUME NEW c \in Conn, c.out = <<>>, GenuineSeq(c.plan), GenuineSeq(c.pending)
    PROVE  Framed(Replayed(c).out)
<1> DEFINE a == Start(c)
           t == Told(c)
           m == DeliverAll(a, t)
<1>1. a \in Conn /\ t \in Seq(Entry) /\ c.pending \in Seq(Entry) /\ GenuineSeq(t)
    BY StartIs, ToldIs DEF Conn
<1>2. Framed(a.out)
  <2>1. a.out \in {<<>>, <<Plain("reset")>>, <<Plain("reset"), Plain("omitted")>>}
      BY StartIs
  <2>2. /\ Plain("reset").kind = "reset" /\ Plain("omitted").kind = "omitted"
        /\ Plain("reset") \in Frame /\ Plain("omitted") \in Frame
      BY PlainIs
  <2> HIDE DEF a
  <2>3. CASE a.out = <<>>
      BY <2>3 DEF Framed
  <2>4. CASE a.out = <<Plain("reset")>>
      BY <2>2, <2>4 DEF Framed
  <2>5. CASE a.out = <<Plain("reset"), Plain("omitted")>>
    <3>1. DOMAIN a.out = {1, 2} /\ a.out[1].kind = "reset" /\ a.out[2].kind = "omitted"
        BY <2>2, <2>5
    <3> QED BY <3>1 DEF Framed
  <2> QED BY <2>1, <2>3, <2>4, <2>5
<1>3. m \in Conn
    BY ReplayedAdvances
<1> HIDE DEF a, t
<1>4. Framed(m.out)
    BY <1>1, <1>2, DeliverAllFramed
<1>5. Replayed(c) = DeliverAll(m, c.pending)
    BY ReplayedInSteps DEF m, a, t
<1> HIDE DEF m
<1> QED BY <1>1, <1>3, <1>4, <1>5, DeliverAllFramed

\* A replay fits to what its browser shows.
LEMMA ReplayedLinked ==
    ASSUME NEW v, View!Shown(v.screen) \in Nat, NEW c \in Conn,
           c.out = <<>>, ~c.closed, c.delivered = c.resume,
           \A i \in DOMAIN c.plan : c.plan[i].seq = c.plan[1].seq + i - 1,
           c.plan # <<>> /\ Len(c.plan) < Capacity => c.plan[1].seq = 1,
           View!Shown(v.screen) = c.resume \/ ~Resumes(c),
           marred = {} =>
             /\ \A k \in 1..(Len(c.pending) - 1) : c.pending[k + 1].seq = c.pending[k].seq + 1
             /\ c.pending # <<>> =>
                  c.pending[1].seq <= (IF c.plan = <<>> THEN 0 ELSE c.plan[Len(c.plan)].seq) + 1
    PROVE  Linked(v, Replayed(c).out) /\ Ready(v, Replayed(c))
<1> DEFINE a == Start(c)
           t == Told(c)
           m == DeliverAll(a, t)
<1>1. a \in Conn /\ t \in Seq(Entry) /\ c.pending \in Seq(Entry) /\ c.plan \in Seq(Entry)
    BY StartIs, ToldIs DEF Conn
<1>2. Linked(v, a.out) /\ Ready(v, a)
  <2>1. /\ Plain("reset").kind = "reset" /\ Plain("omitted").kind = "omitted"
        /\ Plain("reset") \in Frame /\ Plain("omitted") \in Frame
      BY PlainIs
  <2>2. CASE Resumes(c)
    <3>1. a.out = <<>> /\ a.delivered = c.resume
        BY <2>2, StartIs
    <3>2. Linked(v, a.out)
        BY <3>1 DEF Linked
    <3>3. a.delivered + 1 = View!Shown(v.screen) + 1 /\ a.delivered + 1 > View!Shown(v.screen)
        BY <2>2, <3>1
    <3>4. Fits(v, a.out, Len(a.out) + 1, a.delivered + 1)
      <4>1. Len(a.out) + 1 = 1
          BY <3>1
      <4> QED BY <3>3, <4>1 DEF Fits
    <3> QED BY <3>2, <3>4 DEF Ready
  <2>3. CASE ~Resumes(c)
    <3>1. a.delivered = 0 /\ a.out \in {<<Plain("reset")>>, <<Plain("reset"), Plain("omitted")>>}
        BY <2>3, StartIs
    <3> HIDE DEF a
    <3>2. CASE a.out = <<Plain("reset")>>
      <4>1. Len(a.out) = 1 /\ DOMAIN a.out = {1} /\ a.out[1].kind = "reset"
          BY <2>1, <3>2
      <4>2. Linked(v, a.out)
          BY <4>1 DEF Linked
      <4>3. Len(a.out) + 1 # 1 /\ (Len(a.out) + 1) - 1 = 1 /\ a.delivered + 1 = 1
          BY <3>1, <4>1
      <4>4. Fits(v, a.out, Len(a.out) + 1, a.delivered + 1)
          BY <4>1, <4>3 DEF Fits
      <4> QED BY <4>2, <4>4 DEF Ready
    <3>3. CASE a.out = <<Plain("reset"), Plain("omitted")>>
      <4>1. Len(a.out) = 2 /\ DOMAIN a.out = {1, 2} /\ a.out[1].kind = "reset" /\ a.out[2].kind = "omitted"
          BY <2>1, <3>3
      <4>2. Linked(v, a.out)
          BY <4>1 DEF Linked
      <4>3. Len(a.out) + 1 # 1 /\ (Len(a.out) + 1) - 1 = 2
          BY <4>1
      <4>4. Fits(v, a.out, Len(a.out) + 1, a.delivered + 1)
          BY <4>1, <4>3 DEF Fits
      <4> QED BY <4>2, <4>4 DEF Ready
    <3> QED BY <3>1, <3>2, <3>3
  <2> QED BY <2>2, <2>3
<1>3. /\ \A k \in 1..(Len(t) - 1) : t[k + 1].seq = t[k].seq + 1
      /\ t # <<>> => t[1].seq <= a.delivered + 1 \/ Jumps(a.out)
  <2>1. /\ \A k \in 1..(Len(t) - 1) : t[k + 1].seq = t[k].seq + 1
        /\ ~Resumes(c) => t = c.plan
        /\ Resumes(c) /\ t # <<>> => t[1].seq <= c.resume + 1
      BY ToldHasNoGap
  <2>2. CASE Resumes(c)
      BY <2>1, <2>2, StartIs
  <2>3. CASE ~Resumes(c) /\ Len(c.plan) >= Capacity
    <3>1. a.out = <<Plain("reset"), Plain("omitted")>>
        BY <2>3, StartIs
    <3>2. Plain("reset") \in Frame /\ Plain("omitted") \in Frame /\ Plain("omitted").kind = "omitted"
        BY PlainIs
    <3> HIDE DEF a
    <3>3. Jumps(a.out)
        BY <3>1, <3>2 DEF Jumps
    <3> QED BY <2>1, <3>3
  <2>4. CASE ~Resumes(c) /\ ~(Len(c.plan) >= Capacity)
    <3>1. a.delivered = 0 /\ t = c.plan
        BY <2>1, <2>4, StartIs
    <3>2. Len(c.plan) < Capacity
        BY <1>1, <2>4, LogAssumption
    <3> QED BY <2>1, <3>1, <3>2
  <2> QED BY <2>2, <2>3, <2>4
<1>4. /\ m \in Conn
      /\ c.plan # <<>> => m.delivered >= c.plan[Len(c.plan)].seq
    BY ReplayedAdvances, ReplayedCovers
<1>5. Replayed(c) = DeliverAll(m, c.pending)
    BY ReplayedInSteps
<1> HIDE DEF a, t
<1>6. Linked(v, m.out) /\ Ready(v, m)
    BY <1>1, <1>2, <1>3, DeliverAllLinked
<1> HIDE DEF m
<1>7. marred = {} /\ c.pending # <<>> => c.pending[1].seq <= m.delivered + 1
  <2> SUFFICES ASSUME marred = {}, c.pending # <<>> PROVE c.pending[1].seq <= m.delivered + 1
      OBVIOUS
  <2>1. m.delivered \in Nat /\ c.pending[1].seq \in Nat
    <3>1. c.pending[1] \in Entry
        BY <1>1
    <3> QED BY <1>4, <3>1 DEF Conn, Entry
  <2>2. CASE c.plan = <<>>
      BY <2>1, <2>2
  <2>3. CASE c.plan # <<>>
    <3>1. c.plan[Len(c.plan)] \in Entry
        BY <1>1, <2>3
    <3>2. c.plan[Len(c.plan)].seq \in Nat
        BY <3>1 DEF Entry
    <3> QED BY <1>4, <2>1, <2>3, <3>2
  <2> QED BY <2>2, <2>3
<1> QED BY <1>1, <1>4, <1>5, <1>6, <1>7, DeliverAllLinked

-----------------------------------------------------------------------------
(* What a step leaves true of the numbers and the log, whoever takes it *)

\* A sequence without its first element.
LEMMA TailIs ==
    ASSUME NEW S, NEW s \in Seq(S), s # <<>>
    PROVE  /\ Tail(s) \in Seq(S) /\ Len(Tail(s)) = Len(s) - 1
           /\ Len(s) \in Nat \ {0} /\ Head(s) = s[1] /\ Head(s) \in S
           /\ DOMAIN s = 1..Len(s) /\ DOMAIN Tail(s) = 1..(Len(s) - 1)
           /\ Len(s) >= 2 => Tail(s)[1] = s[2] /\ Tail(s) # <<>>
           /\ \A i \in 1..(Len(s) - 1) : Tail(s)[i] = s[i + 1] /\ i + 1 \in DOMAIN s /\ i + 1 # 1
<1>1. /\ Tail(s) \in Seq(S) /\ Len(Tail(s)) = Len(s) - 1
      /\ Len(s) \in Nat \ {0} /\ Head(s) = s[1] /\ Head(s) \in S
      /\ DOMAIN s = 1..Len(s) /\ DOMAIN Tail(s) = 1..(Len(s) - 1)
      /\ \A i \in 1..(Len(s) - 1) : Tail(s)[i] = s[i + 1] /\ i + 1 \in DOMAIN s /\ i + 1 # 1
    OBVIOUS
<1>2. ASSUME Len(s) >= 2 PROVE Tail(s)[1] = s[2] /\ Tail(s) # <<>>
  <2>1. 1 \in 1..(Len(s) - 1) /\ 1 + 1 = 2
      BY <1>1, <1>2
  <2>2. Tail(s)[1] = s[2]
      BY <1>1, <2>1
  <2>3. Len(Tail(s)) # 0
      BY <1>1, <1>2
  <2> QED BY <1>1, <2>2, <2>3
<1> QED BY <1>1, <1>2

\* A sequence with one element more.
LEMMA AppendIs ==
    ASSUME NEW S, NEW s \in Seq(S), NEW e \in S
    PROVE  /\ Append(s, e) \in Seq(S) /\ Len(Append(s, e)) = Len(s) + 1 /\ Append(s, e) # <<>>
           /\ Len(s) \in Nat /\ DOMAIN s = 1..Len(s) /\ DOMAIN Append(s, e) = 1..(Len(s) + 1)
           /\ \A i \in 1..Len(s) : Append(s, e)[i] = s[i]
           /\ Append(s, e)[Len(s) + 1] = e
           /\ s = <<>> => Append(s, e)[1] = e
           /\ s # <<>> => Append(s, e)[1] = s[1] /\ 1 \in 1..Len(s)
    OBVIOUS

\* What goes on elsewhere: the deploy, the counter and the buffer.
Aside == <<worker, status, written, wire, seq, buffer, marred>>

\* Nothing that was given out is taken back, nor what went wrong forgotten.
Grows ==
    /\ marred \subseteq marred'
    /\ status = "settled" => status' = "settled"
    /\ written' \in Nat /\ written' >= written
    /\ Expired => Expired'
    /\ Steady' => \A id \in Nat : Past(id) => Past(id)'
    /\ Steady' => \A id \in Nat : Stale(id) => Stale(id)'

\* A message reaches Redis: the counter moves on, and the oldest entry may go.
LEMMA PublishGrows ==
    ASSUME TypeOK, DeployInv, BufferInv, Publish
    PROVE  Grows
<1>1. /\ seq \in Nat /\ seq' = seq + 1 /\ wire # <<>>
      /\ marred' = marred /\ status' = status /\ written' = written /\ worker' = worker
      /\ written \in Nat
    BY DEF Publish, TypeOK, deploy
<1>2. ~Expired
    BY <1>1 DEF Expired
<1>3. ASSUME NEW id \in Nat, Past(id) PROVE Past(id)'
    BY <1>1, <1>2, <1>3 DEF Past
<1>4. ASSUME NEW id \in Nat, Stale(id), id # 0 PROVE Stale(id)'
  <2> DEFINE e == [n |-> Head(wire), seq |-> seq + 1]
             b == Append(buffer, e)
  <2>1. buffer # <<>> /\ buffer[1].seq > id + 1
      BY <1>2, <1>4 DEF Stale
  <2>2. buffer' = IF Len(b) > Capacity THEN Tail(b) ELSE b
      BY DEF Publish
  <2>3. buffer \in Seq(Entry) /\ Capacity \in Nat \ {0}
      BY LogAssumption DEF TypeOK
  <2>4. Len(buffer) \in Nat /\ Len(buffer) >= 1 /\ 1 \in DOMAIN buffer
      BY <2>1, <2>3
  <2>5. b \in Seq(Entry \cup {e}) /\ Len(b) = Len(buffer) + 1 /\ b[1] = buffer[1]
        /\ \A i \in 1..Len(buffer) : b[i] = buffer[i]
        /\ b[Len(buffer) + 1] = e
      BY <2>3, <2>4
  <2>6. e.seq = seq + 1
      OBVIOUS
  <2>7. b[2].seq > id + 1
    <3>1. CASE Len(buffer) = 1
      <4>1. buffer[1].seq = seq
          BY <1>1, <2>4, <3>1 DEF BufferInv
      <4> QED BY <1>1, <2>1, <2>5, <2>6, <3>1, <4>1
    <3>2. CASE Len(buffer) >= 2
      <4>1. 2 \in DOMAIN buffer /\ 2 \in 1..Len(buffer)
        <5>1. Len(buffer) >= 2 /\ DOMAIN buffer = 1..Len(buffer)
          <6>1. DOMAIN buffer = 1..Len(buffer)
              BY <2>3
          <6> QED BY <3>2, <6>1
        <5> QED BY <2>4, <5>1
      <4>2. buffer[2].seq = seq - Len(buffer) + 2 /\ buffer[1].seq = seq - Len(buffer) + 1
          BY <2>4, <4>1 DEF BufferInv
      <4> QED BY <1>1, <2>1, <2>4, <2>5, <4>1, <4>2
    <3>3. Len(buffer) = 1 \/ Len(buffer) >= 2
      <4>1. \A n \in Nat : n >= 1 => n = 1 \/ n >= 2
          OBVIOUS
      <4> QED BY <2>4, <4>1
    <3> QED BY <3>1, <3>2, <3>3
  <2> HIDE DEF b, e
  <2>8. Tail(b) # <<>> /\ Tail(b)[1] = b[2] /\ b # <<>>
    <3>1. Len(b) >= 2 /\ b # <<>>
        BY <2>4, <2>5
    <3>2. Tail(b) # <<>> /\ Tail(b)[1] = b[2]
        BY <2>5, <3>1, TailIs
    <3> QED BY <3>1, <3>2
  <2>9. buffer' # <<>> /\ buffer'[1].seq > id + 1
    <3>1. CASE buffer' = b
        BY <2>1, <2>5, <2>8, <3>1
    <3>2. CASE buffer' = Tail(b)
        BY <2>7, <2>8, <3>2
    <3> QED BY <2>2, <3>1, <3>2
  <2> QED BY <2>9 DEF Stale
<1>5. \A id \in Nat : Stale(id) => Stale(id)'
  <2>1. \A id \in Nat : id = 0 => Stale(id)'
      BY DEF Stale
  <2> QED BY <1>4, <2>1
<1> QED BY <1>1, <1>2, <1>3, <1>5 DEF Grows

\* Every step.
LEMMA StepGrows ==
    ASSUME TypeOK, DeployInv, BufferInv, [Next]_vars
    PROVE  Grows
<1>0. written \in Nat /\ seq \in Nat
    BY LogAssumption DEF TypeOK
<1>1. CASE UNCHANGED Aside
    BY <1>0, <1>1 DEF Aside, Grows, Expired, Past, Stale
<1>2. CASE Write
  <2>1. /\ written' = written + 1 /\ worker' = worker /\ worker = "running"
        /\ status' = status /\ seq' = seq /\ buffer' = buffer /\ marred' = marred
      BY <1>2 DEF Write, redis
  <2>2. ~Expired
      BY <2>1 DEF Expired
  <2> QED BY <1>0, <2>1, <2>2 DEF Grows, Past, Stale
<1>3. CASE Settle \/ InsertPointer \/ AnnounceEnd
  <2>1. /\ written' = written /\ worker \in {"running", "settled", "archived"}
        /\ status' \in {status, "settled"} /\ seq' = seq /\ buffer' = buffer /\ marred' = marred
      BY <1>3 DEF Settle, InsertPointer, AnnounceEnd, redis
  <2>2. ~Expired
      BY <2>1 DEF Expired
  <2> QED BY <1>0, <2>1, <2>2 DEF Grows, Past, Stale
<1>4. CASE Die \/ Recover
  <2>1. /\ written' = written /\ worker \in {"running", "settled", "archived", "dead"}
        /\ status' \in {status, "settled"} /\ seq' = seq /\ buffer' = buffer /\ marred' = marred
      BY <1>4 DEF Die, Recover, redis
  <2>2. ~Expired
      BY <2>1 DEF Expired
  <2> QED BY <1>0, <2>1, <2>2 DEF Grows, Past, Stale
<1>5. CASE Publish
    BY <1>5, PublishGrows
<1>6. CASE Expire
  <2>1. /\ written' = written /\ worker' = worker /\ status' = status /\ wire' = wire /\ wire = <<>>
        /\ seq' = 0
        /\ marred' = IF worker \in {"done", "recovered"} THEN marred ELSE marred \cup {"quiet"}
      BY <1>6 DEF Expire, deploy
  <2>2. Steady' => Expired'
      BY <2>1 DEF Steady, Expired
  <2>3. Expired => Expired'
      BY <2>1 DEF Expired
  <2>4. \A id \in Nat : Expired' => Past(id)' /\ Stale(id)'
      BY DEF Past, Stale
  <2> QED BY <1>0, <2>1, <2>2, <2>3, <2>4 DEF Grows
<1>7. CASE Reconnect \/ \E h \in Conns : Subscribe(h)
  <2>1. /\ written' = written /\ worker' = worker /\ status' = status /\ wire' = wire
        /\ seq' = seq /\ buffer' = buffer /\ marred \subseteq marred'
      BY <1>7 DEF Reconnect, Subscribe, deploy, redis
  <2> QED BY <1>0, <2>1 DEF Grows, Expired, Past, Stale
<1>8. CASE Command \/ Hear \/ HearAck \/ (\E h \in Conns : Backlog(h) \/ Replay(h) \/ ReadArchive(h)) \/ Viewer
  <2>1. UNCHANGED Aside
      BY <1>8 DEF Command, Hear, HearAck, Backlog, Replay, ReadArchive, Viewer, Connect, Receive, Drop,
                  Aside, deploy, redis
  <2> QED BY <1>1, <2>1
<1>9. CASE UNCHANGED vars
    BY <1>1, <1>9 DEF vars, Aside, deploy, redis
<1> QED BY <1>2, <1>3, <1>4, <1>5, <1>6, <1>7, <1>8, <1>9 DEF Next, Worker, Redis, Handler

\* So what is under way stays in the log,
LEMMA GenuineStays ==
    ASSUME TypeOK, Grows
    PROVE  /\ Steady' => Steady
           /\ marred' = {} => marred = {}
           /\ \A n \in 0..EndMark, id \in Nat : Genuine(n, id) => Genuine(n, id)'
           /\ \A s \in Seq(Entry) : GenuineSeq(s) => GenuineSeq(s)'
           /\ \A out \in Seq(Frame) : Framed(out) => Framed(out)'
<1>1. (Steady' => Steady) /\ (marred' = {} => marred = {})
    BY DEF Grows, Steady
<1>2. ASSUME NEW n \in 0..EndMark, NEW id \in Nat, Genuine(n, id) PROVE Genuine(n, id)'
  <2>1. n \in Nat /\ written \in Nat /\ written' >= written
      BY LogAssumption DEF Grows, TypeOK, EndMark
  <2>2. n <= written' \/ (n = EndMark /\ status' = "settled")
    <3>1. CASE n <= written
      <4>1. written' \in Nat
          BY DEF Grows
      <4> QED BY <2>1, <3>1, <4>1
    <3>2. CASE n = EndMark /\ status = "settled"
        BY <3>2 DEF Grows
    <3> QED BY <1>2, <3>1, <3>2 DEF Genuine
  <2>3. Steady' => (n = EndMark \/ n = id) /\ Past(id)'
      BY <1>1, <1>2 DEF Genuine, Grows
  <2> QED BY <2>2, <2>3 DEF Genuine
<1>3. ASSUME NEW s \in Seq(Entry), GenuineSeq(s) PROVE GenuineSeq(s)'
  <2> SUFFICES ASSUME NEW i \in DOMAIN s PROVE Genuine(s[i].n, s[i].seq)'
      BY DEF GenuineSeq
  <2>1. s[i].n \in 0..EndMark /\ s[i].seq \in Nat
    <3>1. s[i] \in Entry
        OBVIOUS
    <3> QED BY <3>1, LogAssumption DEF Entry, EndMark
  <2> QED BY <1>2, <1>3, <2>1 DEF GenuineSeq
<1>4. ASSUME NEW out \in Seq(Frame), Framed(out) PROVE Framed(out)'
  <2>1. ASSUME NEW i \in DOMAIN out, out[i].kind = "entry"
        PROVE  out[i].n # 0 /\ out[i].id # 0 /\ Genuine(out[i].n, out[i].id)'
    <3>1. out[i].n \in 0..EndMark /\ out[i].id \in Nat
      <4>1. out[i] \in Frame
          OBVIOUS
      <4> QED BY <4>1 DEF Frame
    <3> QED BY <1>2, <1>4, <2>1, <3>1 DEF Framed
  <2>2. status = "settled" => status' = "settled"
      BY DEF Grows
  <2> QED BY <1>4, <2>1, <2>2 DEF Framed
<1> QED BY <1>1, <1>2, <1>3, <1>4

\* and what a handler holds, and what it sends to its browser, stays right.
LEMMA HeldStays ==
    ASSUME TypeOK, Grows
    PROVE  \A c \in Conn : Held(c) => Held(c)'
<1> SUFFICES ASSUME NEW c \in Conn, Held(c) PROVE Held(c)'
    OBVIOUS
<1>1. c.plan \in Seq(Entry) /\ c.pending \in Seq(Entry) /\ c.resume \in Nat
    BY DEF Conn
<1>2. GenuineSeq(c.plan)' /\ GenuineSeq(c.pending)' /\ (Steady' => Steady)
    BY <1>1, GenuineStays DEF Held
<1>3. Steady' => Past(c.resume)'
    BY <1>1, <1>2 DEF Held, Grows
<1>4. Steady' /\ c.pc = "replay" /\ ~Resumes(c) => Stale(c.resume)'
    BY <1>1, <1>2 DEF Held, Grows
<1>5. c.finished => status' = "settled"
    BY DEF Held, Grows
<1> QED BY <1>2, <1>3, <1>4, <1>5 DEF Held, Resumes

\* What a browser and its handler keep together is not lost by what others do.
LEMMA WatchesStays ==
    ASSUME TypeOK, Grows
    PROVE  \A s \in Browser, c \in Conn : Watches(s, c) => Watches(s, c)'
<1> SUFFICES ASSUME NEW s \in Browser, NEW c \in Conn, Watches(s, c) PROVE Watches(s, c)'
    OBVIOUS
<1>1. (Steady' => Steady) /\ (marred' = {} => marred = {})
    BY GenuineStays
<1>2. \A i, id : Fits(s, c.out, i, id) => Fits(s, c.out, i, id)'
    BY <1>1 DEF Fits
<1>3. Linked(s, c.out) => Linked(s, c.out)'
    BY <1>2 DEF Linked
<1>4. Ready(s, c) => Ready(s, c)'
    BY <1>2 DEF Ready
<1>5. Steady' /\ Stale(s.lastId) => Stale(s.lastId)'
  <2>1. s.lastId \in Nat
      BY DEF Browser
  <2> QED BY <2>1 DEF Grows
<1> QED BY <1>1, <1>3, <1>4, <1>5 DEF Watches, Resumes

-----------------------------------------------------------------------------
(* What a handler does next *)

\* The handler goes on from c to r, right for whoever watches it.
Onward(c, r) ==
    /\ r \in Conn /\ Held(r) /\ Framed(r.out)
    /\ c.pc # "unused" => r.pc # "unused"
    /\ \A s \in Browser :
         /\ Watches(s, c)
         /\ Steady => View!Shown(s.screen) = s.lastId \/ Stale(s.lastId)
         => Watches(s, r)

\* The last entry on a screen is a number.
LEMMA ShownNat ==
    ASSUME NEW s \in Browser
    PROVE  View!Shown(s.screen) \in Nat
<1>1. s.screen \in Seq(1..MaxChunks) /\ MaxChunks \in Nat
    BY LogAssumption DEF Browser
<1>2. s.screen # <<>> => Len(s.screen) \in 1..Len(s.screen)
    BY <1>1
<1> QED BY <1>1, <1>2 DEF View!Shown

\* A handler that does nothing is where it was.
LEMMA OnwardSelf ==
    ASSUME NEW c \in Conn, Held(c), Framed(c.out)
    PROVE  Onward(c, c)
    BY DEF Onward

\* Whose set it is that a handler awaits concerns nobody else.
LEMMA OnwardMine ==
    ASSUME NEW c, NEW r, Onward(c, r), NEW m \in BOOLEAN
    PROVE  Onward(c, [r EXCEPT !.mine = m])
<1> DEFINE q == [r EXCEPT !.mine = m]
<1>1. r \in Conn
    BY DEF Onward
<1>2. /\ q \in Conn /\ q.pc = r.pc /\ q.resume = r.resume /\ q.finished = r.finished
      /\ q.plan = r.plan /\ q.pending = r.pending /\ q.delivered = r.delivered
      /\ q.closed = r.closed /\ q.out = r.out
    BY <1>1 DEF Conn
<1> HIDE DEF q
<1>3. Held(q)
  <2>1. Held(r)
      BY DEF Onward
  <2> QED BY <1>2, <2>1 DEF Held, Resumes
<1>4. \A s : Watches(s, r) => Watches(s, q)
    BY <1>2 DEF Watches, Resumes, Ready
<1>5. Onward(c, q)
    BY <1>2, <1>3, <1>4 DEF Onward
<1> QED BY <1>5 DEF q

\* A message is delivered.
LEMMA OnwardDeliver ==
    ASSUME NEW c \in Conn, Held(c), Framed(c.out), c.pc = "live",
           NEW e \in Entry, Genuine(e.n, e.seq), marred = {} => e.seq <= c.delivered + 1
    PROVE  Onward(c, Deliver(c, e))
<1> DEFINE r == Deliver(c, e)
<1>1. Advances(r, c) /\ Framed(r.out)
    BY DeliverAdvances, DeliverFramed
<1>2. ASSUME NEW s \in Browser, Steady, Linked(s, c.out), Ready(s, c)
      PROVE  Linked(s, r.out) /\ Ready(s, r)
  <2>1. View!Shown(s.screen) \in Nat
      BY ShownNat
  <2> QED BY <1>2, <2>1, DeliverLinked
<1> HIDE DEF r
<1>3. r \in Conn /\ SameCall(r, c) /\ SentEntries(r, c) /\ (c.closed => r.closed)
    BY <1>1 DEF Advances
<1>4. Held(r)
    BY <1>3 DEF Held, SameCall
<1>5. r.out # <<>> => r.out[1].kind = "entry" \/ (c.out # <<>> /\ r.out[1] = c.out[1])
  <2>1. r.out \in Seq(Frame) /\ c.out \in Seq(Frame)
      BY <1>3 DEF Conn
  <2>2. r.out # <<>> => 1 \in DOMAIN r.out
      BY <2>1
  <2>3. Len(c.out) \in Nat /\ (1 <= Len(c.out) => c.out # <<>>)
      BY <2>1
  <2> QED BY <1>3, <2>2, <2>3 DEF SentEntries
<1>6. ASSUME NEW s \in Browser, Watches(s, c) PROVE Watches(s, r)
    BY <1>2, <1>3, <1>5, <1>6 DEF Watches, SameCall
<1>7. Onward(c, r)
    BY <1>1, <1>3, <1>4, <1>6 DEF Onward, SameCall
<1> QED BY <1>7 DEF r

\* A message is kept for after the replay.
LEMMA OnwardPending ==
    ASSUME NEW c \in Conn, Held(c), Framed(c.out), c.pc \in {"backlog", "replay"}, ~c.finished,
           NEW e \in Entry, Genuine(e.n, e.seq)
    PROVE  Onward(c, [c EXCEPT !.pending = Append(@, e)])
<1> DEFINE p == Append(c.pending, e)
           r == [c EXCEPT !.pending = p]
<1>1. c.pending \in Seq(Entry)
    BY DEF Conn
<1>2. p \in Seq(Entry) /\ \A i \in DOMAIN p : (i \in DOMAIN c.pending /\ p[i] = c.pending[i]) \/ p[i] = e
    BY <1>1, AppendIs
<1>3. GenuineSeq(p)
    BY <1>2 DEF Held, GenuineSeq
<1> HIDE DEF p
<1>4. /\ r \in Conn /\ r.pc = c.pc /\ r.resume = c.resume /\ r.finished = c.finished
      /\ r.plan = c.plan /\ r.pending = p /\ r.delivered = c.delivered
      /\ r.closed = c.closed /\ r.out = c.out
    BY <1>2 DEF Conn
<1> HIDE DEF r
<1>5. Held(r)
    BY <1>3, <1>4 DEF Held, Resumes
<1>6. \A s : Watches(s, c) => Watches(s, r)
    BY <1>4 DEF Watches, Resumes, Ready
<1>7. Onward(c, r)
    BY <1>4, <1>5, <1>6 DEF Onward
<1> QED BY <1>7 DEF r, p

\* The handler asks for the channel,
LEMMA OnwardAsk ==
    ASSUME NEW c \in Conn, Held(c), Framed(c.out), c.pc = "subscribe"
    PROVE  Onward(c, [c EXCEPT !.pc = "await", !.mine = TRUE])
<1> DEFINE r == [c EXCEPT !.pc = "await", !.mine = TRUE]
<1>1. /\ r \in Conn /\ r.pc = "await" /\ r.resume = c.resume /\ r.finished = c.finished
      /\ r.plan = c.plan /\ r.pending = c.pending /\ r.delivered = c.delivered
      /\ r.closed = c.closed /\ r.out = c.out
    BY DEF Conn
<1> HIDE DEF r
<1>2. Held(r)
    BY <1>1 DEF Held
<1>3. \A s : Watches(s, c) => Watches(s, r)
    BY <1>1 DEF Watches
<1>4. Onward(c, r)
    BY <1>1, <1>2, <1>3 DEF Onward
<1> QED BY <1>4 DEF r

\* and goes on to read the backlog.
LEMMA OnwardAck ==
    ASSUME NEW c \in Conn, Held(c), Framed(c.out), c.pc \in {"subscribe", "await"}
    PROVE  Onward(c, [c EXCEPT !.pc = "backlog"])
<1> DEFINE r == [c EXCEPT !.pc = "backlog"]
<1>1. /\ r \in Conn /\ r.pc = "backlog" /\ r.resume = c.resume /\ r.finished = c.finished
      /\ r.plan = c.plan /\ r.pending = c.pending /\ r.delivered = c.delivered
      /\ r.closed = c.closed /\ r.out = c.out
    BY DEF Conn
<1> HIDE DEF r
<1>2. Held(r)
    BY <1>1 DEF Held
<1>3. \A s : Watches(s, c) => Watches(s, r)
    BY <1>1 DEF Watches
<1>4. Onward(c, r)
    BY <1>1, <1>2, <1>3 DEF Onward
<1> QED BY <1>4 DEF r

\* The backlog goes on where the browser stopped, unless the buffer does not
\* go back so far and never will.
LEMMA OnwardBacklog ==
    ASSUME TypeOK, BufferInv, NEW c \in Conn, Held(c), Framed(c.out), c.pc = "backlog"
    PROVE  Onward(c, [c EXCEPT !.pc = "replay", !.plan = buffer])
<1> DEFINE r == [c EXCEPT !.pc = "replay", !.plan = buffer]
<1>0. /\ buffer \in Seq(Entry) /\ seq \in Nat /\ Capacity \in Nat \ {0} /\ c.resume \in Nat
      /\ Len(buffer) \in Nat /\ DOMAIN buffer = 1..Len(buffer) /\ (Len(buffer) = 0 <=> buffer = <<>>)
    BY LogAssumption DEF TypeOK, Conn
<1>1. /\ r \in Conn /\ r.pc = "replay" /\ r.resume = c.resume /\ r.finished = c.finished
      /\ r.plan = buffer /\ r.pending = c.pending /\ r.delivered = c.delivered
      /\ r.closed = c.closed /\ r.out = c.out
    BY <1>0 DEF Conn
<1> HIDE DEF r
<1>2. \A i \in 1..Len(buffer) : buffer[i].seq = buffer[1].seq + i - 1
  <2> SUFFICES ASSUME NEW i \in 1..Len(buffer) PROVE buffer[i].seq = buffer[1].seq + i - 1
      OBVIOUS
  <2>1. 1 \in 1..Len(buffer)
      BY <1>0
  <2>2. buffer[i].seq = seq - Len(buffer) + i /\ buffer[1].seq = seq - Len(buffer) + 1
      BY <1>0, <2>1 DEF BufferInv
  <2> QED BY <1>0, <2>2
<1>3. buffer # <<>> /\ Len(buffer) < Capacity => buffer[1].seq = 1
  <2> SUFFICES ASSUME buffer # <<>>, Len(buffer) < Capacity PROVE buffer[1].seq = 1
      OBVIOUS
  <2>1. Len(buffer) = seq /\ 1 \in DOMAIN buffer
      BY <1>0 DEF BufferInv
  <2> QED BY <1>0, <2>1 DEF BufferInv
<1>4. buffer = <<>> => seq = 0
    BY <1>0 DEF BufferInv
<1>5. buffer # <<>> => buffer[1].seq \in Nat
  <2> SUFFICES ASSUME buffer # <<>> PROVE buffer[1].seq \in Nat
      OBVIOUS
  <2>1. buffer[1] \in Entry
      BY <1>0
  <2> QED BY <2>1 DEF Entry
<1>6. Resumes(r) <=> c.resume # 0 /\ buffer # <<>> /\ buffer[1].seq <= c.resume + 1
    BY <1>1 DEF Resumes
<1>7. Steady /\ ~Resumes(r) => Stale(c.resume)
  <2> SUFFICES ASSUME Steady, ~Resumes(r) PROVE Stale(c.resume)
      OBVIOUS
  <2>1. CASE c.resume = 0
      BY <2>1 DEF Stale
  <2>2. CASE c.resume # 0 /\ buffer = <<>>
    <3>1. Past(c.resume)
        BY DEF Held
    <3>2. Expired
        BY <1>0, <1>4, <2>2, <3>1 DEF Past
    <3> QED BY <3>2 DEF Stale
  <2>3. CASE c.resume # 0 /\ buffer # <<>>
    <3>1. buffer[1].seq > c.resume + 1
        BY <1>0, <1>5, <1>6, <2>3
    <3> QED BY <2>3, <3>1 DEF Stale
  <2> QED BY <2>1, <2>2, <2>3
<1>8. Held(r)
  <2>1. GenuineSeq(r.plan)
      BY <1>1 DEF BufferInv
  <2> QED BY <1>0, <1>1, <1>2, <1>3, <1>7, <2>1 DEF Held
<1>9. Stale(c.resume) => ~Resumes(r)
  <2> SUFFICES ASSUME Stale(c.resume), c.resume # 0, buffer # <<>> PROVE ~(buffer[1].seq <= c.resume + 1)
      BY <1>6
  <2>1. seq # 0
      BY <1>0 DEF BufferInv
  <2>2. buffer[1].seq > c.resume + 1
      BY <2>1 DEF Stale, Expired
  <2> QED BY <1>0, <1>5, <2>2
<1>a. ASSUME NEW s \in Browser, Watches(s, c), Steady => View!Shown(s.screen) = s.lastId \/ Stale(s.lastId)
      PROVE  Watches(s, r)
  <2>1. c.resume = s.lastId
      BY <1>a DEF Watches
  <2>2. Steady => View!Shown(s.screen) = s.lastId \/ ~Resumes(r)
      BY <1>9, <1>a, <2>1
  <2> QED BY <1>1, <1>a, <2>2 DEF Watches
<1>b. Onward(c, r)
    BY <1>1, <1>8, <1>a DEF Onward
<1> QED BY <1>b DEF r

\* What goes with any frame but an entry, at the end.
LEMMA AppendPlain ==
    ASSUME NEW out \in Seq(Frame), NEW kind \in {"reset", "omitted", "archived", "unkept", "end"}
    PROVE  LET o == Append(out, Plain(kind)) IN
           /\ o \in Seq(Frame) /\ o # <<>>
           /\ \A s : Linked(s, out) => Linked(s, o)
           /\ out # <<>> => o[1] = out[1]
           /\ out = <<>> => o[1].kind = kind
           /\ Framed(out) /\ kind \notin {"entry", "reset"} /\ status = "settled"
              /\ (kind # "end" => out = <<>> \/ (Len(out) = 1 /\ out[1].kind = "reset")) => Framed(o)
<1> DEFINE f == Plain(kind)
           o == Append(out, f)
           l == Len(out)
<1>0. f \in Frame /\ f.kind = kind
    BY PlainIs
<1> HIDE DEF f
<1>1. /\ o \in Seq(Frame) /\ o # <<>> /\ l \in Nat /\ DOMAIN out = 1..l /\ DOMAIN o = 1..(l + 1)
      /\ \A i \in 1..l : o[i] = out[i]
      /\ o[l + 1] = f
      /\ out = <<>> => o[1] = f
      /\ out # <<>> => o[1] = out[1]
    BY <1>0, AppendIs
<1> HIDE DEF o
<1>2. \A i \in 1..(l + 1) : i \in 1..l \/ i = l + 1
    BY <1>1
<1>3. ASSUME NEW s, Linked(s, out) PROVE Linked(s, o)
  <2> SUFFICES ASSUME NEW i \in DOMAIN o, o[i].kind = "entry" PROVE Fits(s, o, i, o[i].id)
      BY DEF Linked
  <2>1. i \in 1..l
      BY <1>0, <1>1, <1>2
  <2>2. Fits(s, out, i, out[i].id) /\ o[i] = out[i]
      BY <1>1, <1>3, <2>1 DEF Linked
  <2>3. i # 1 => o[i - 1] = out[i - 1]
      BY <1>1, <2>1
  <2> QED BY <2>2, <2>3 DEF Fits
<1>4. ASSUME Framed(out), kind \notin {"entry", "reset"}, status = "settled",
             kind # "end" => out = <<>> \/ (l = 1 /\ out[1].kind = "reset")
      PROVE  Framed(o)
  <2>1. ASSUME NEW i \in 1..l
        PROVE  /\ o[i].kind = "entry" => o[i].n # 0 /\ o[i].id # 0 /\ Genuine(o[i].n, o[i].id)
               /\ o[i].kind = "reset" => i = 1
               /\ o[i].kind \in {"omitted", "archived", "unkept"} =>
                     i = 1 \/ (i = 2 /\ o[1].kind = "reset")
    <3>1. o[i] = out[i] /\ i \in DOMAIN out
        BY <1>1
    <3>2. o[1] = out[1]
      <4>1. 1 \in 1..l
          BY <1>1
      <4> QED BY <1>1, <4>1
    <3> QED BY <1>4, <3>1, <3>2 DEF Framed
  <2>2. kind # "end" => l + 1 = 1 \/ (l + 1 = 2 /\ o[1].kind = "reset")
    <3>1. CASE out = <<>>
        BY <1>1, <3>1
    <3>2. CASE l = 1 /\ out[1].kind = "reset"
      <4>1. o[1] = out[1]
          BY <1>1, <3>2
      <4> QED BY <3>2, <4>1
    <3> QED BY <1>4, <3>1, <3>2
  <2> QED BY <1>0, <1>1, <1>2, <1>4, <2>1, <2>2 DEF Framed
<1> QED BY <1>0, <1>1, <1>3, <1>4 DEF o, f

\* The end of a stream.
LEMMA EndIs ==
    ASSUME NEW c \in Conn
    PROVE  LET r == End(c) IN
           /\ r \in Conn /\ SameCall(r, c) /\ r.delivered = c.delivered /\ r.closed
           /\ r.out = IF c.closed THEN c.out ELSE Append(c.out, Plain("end"))
<1> DEFINE a == Send(c, Plain("end"))
<1>1. /\ a \in Conn /\ SameCall(a, c) /\ a.delivered = c.delivered
      /\ a.out = IF c.closed THEN c.out ELSE Append(c.out, Plain("end"))
  <2>1. Plain("end") \in Frame
      BY PlainIs
  <2> QED BY <2>1, SendIs
<1>2. End(c) = [a EXCEPT !.closed = TRUE]
    BY DEF End
<1> HIDE DEF a
<1> QED BY <1>1, <1>2 DEF Conn, SameCall

\* What is left of a handler whose source has returned.
LEMMA ReturnedIs ==
    ASSUME NEW c \in Conn
    PROVE  LET r == Returned(c) IN
           /\ r \in Conn /\ r.pc = "live" /\ r.plan = <<>> /\ r.pending = <<>>
           /\ r.resume = c.resume /\ r.finished = c.finished /\ r.mine = c.mine
           /\ r.delivered = c.delivered /\ r.closed = c.closed /\ r.out = c.out
<1>1. <<>> \in Seq(Entry)
    OBVIOUS
<1> QED BY <1>1 DEF Returned, Conn

\* The log is in the archive: the handler says that it starts anew, and reads it.
LEMMA OnwardArchive ==
    ASSUME NEW c \in Conn, Held(c), Framed(c.out), c.pc = "replay", c.finished, ~Resumes(c)
    PROVE  Onward(c, [Send(c, Plain("reset")) EXCEPT !.pc = "archive", !.plan = <<>>])
<1> DEFINE a == Send(c, Plain("reset"))
           r == [a EXCEPT !.pc = "archive", !.plan = <<>>]
<1>0. c.out = <<>> /\ c.pending = <<>> /\ c.delivered = c.resume /\ status = "settled"
    BY DEF Held
<1>1. Plain("reset") \in Frame /\ Plain("reset").kind = "reset"
    BY PlainIs
<1>2. /\ a \in Conn /\ SameCall(a, c) /\ a.delivered = c.delivered /\ a.closed = c.closed
      /\ a.out = IF c.closed THEN <<>> ELSE <<Plain("reset")>>
  <2>1. \A f \in Frame : Append(<<>>, f) = <<f>>
      OBVIOUS
  <2>2. a.out = IF c.closed THEN c.out ELSE Append(c.out, Plain("reset"))
      BY <1>1, SendIs
  <2>3. a \in Conn /\ SameCall(a, c) /\ a.delivered = c.delivered /\ a.closed = c.closed
      BY <1>1, SendIs
  <2> HIDE DEF a
  <2> QED BY <1>0, <1>1, <2>1, <2>2, <2>3
<1> HIDE DEF a
<1>3. /\ r \in Conn /\ r.pc = "archive" /\ r.resume = c.resume /\ r.finished = c.finished
      /\ r.plan = <<>> /\ r.pending = <<>> /\ r.delivered = c.delivered
      /\ r.closed = c.closed
      /\ r.out = IF c.closed THEN <<>> ELSE <<Plain("reset")>>
  <2>1. <<>> \in Seq(Entry)
      OBVIOUS
  <2> QED BY <1>0, <1>2, <2>1 DEF Conn, SameCall
<1> HIDE DEF r
<1>4. Framed(r.out) /\ \A s : Linked(s, r.out)
  <2>1. CASE r.out = <<>>
      BY <2>1 DEF Framed, Linked
  <2>2. CASE r.out = <<Plain("reset")>>
    <3>1. DOMAIN r.out = {1} /\ r.out[1].kind = "reset"
        BY <1>1, <2>2
    <3> QED BY <3>1 DEF Framed, Linked
  <2> QED BY <1>3, <2>1, <2>2
<1>5. Held(r)
  <2>1. GenuineSeq(r.plan) /\ GenuineSeq(r.pending)
      BY <1>3 DEF GenuineSeq
  <2> QED BY <1>0, <1>3, <2>1 DEF Held
<1>6. ASSUME NEW s \in Browser, Watches(s, c) PROVE Watches(s, r)
  <2>1. ~c.closed /\ c.resume = s.lastId
      BY <1>6 DEF Watches
  <2>2. r.out = <<Plain("reset")>> /\ ~r.closed
      BY <1>3, <2>1
  <2>3. r.out # <<>> /\ r.out[1].kind = "reset"
      BY <1>1, <2>2
  <2>4. Steady => Stale(s.lastId)
      BY <2>1 DEF Held
  <2> QED BY <1>3, <1>4, <2>2, <2>3, <2>4 DEF Watches
<1>7. Onward(c, r)
    BY <1>3, <1>4, <1>5, <1>6 DEF Onward
<1> QED BY <1>7 DEF r, a

\* The archived log is sent, or the notice that it was not kept.
LEMMA OnwardReadArchive ==
    ASSUME NEW c \in Conn, Held(c), Framed(c.out), c.pc = "archive",
           NEW kind \in {"archived", "unkept"}
    PROVE  Onward(c, Returned(End(Send(c, Plain(kind)))))
<1> DEFINE a == Send(c, Plain(kind))
           d == End(a)
           r == Returned(d)
<1>0. c.finished /\ status = "settled" /\ (c.out = <<>> \/ c.out = <<Plain("reset")>>)
    BY DEF Held
<1>1. /\ a \in Conn /\ SameCall(a, c) /\ a.closed = c.closed
      /\ a.out = IF c.closed THEN c.out ELSE Append(c.out, Plain(kind))
  <2>1. Plain(kind) \in Frame
      BY PlainIs
  <2> QED BY <2>1, SendIs
<1> HIDE DEF a
<1>2. /\ d \in Conn /\ SameCall(d, a) /\ d.closed
      /\ d.out = IF a.closed THEN a.out ELSE Append(a.out, Plain("end"))
    BY <1>1, EndIs
<1> HIDE DEF d
<1>3. /\ r \in Conn /\ r.pc = "live" /\ r.plan = <<>> /\ r.pending = <<>>
      /\ r.resume = c.resume /\ r.finished = c.finished /\ r.closed /\ r.out = d.out
    BY <1>1, <1>2, ReturnedIs DEF SameCall
<1> HIDE DEF r
<1>4. c.out \in Seq(Frame) /\ a.out \in Seq(Frame)
    BY <1>1 DEF Conn
<1>5. c.out # <<>> => Len(c.out) = 1 /\ c.out[1].kind = "reset"
  <2>1. Plain("reset") \in Frame /\ Plain("reset").kind = "reset"
      BY PlainIs
  <2>2. \A f : Len(<<f>>) = 1 /\ <<f>>[1] = f
      OBVIOUS
  <2> QED BY <1>0, <2>1, <2>2
<1>6. CASE c.closed
  <2>1. r.out = c.out
      BY <1>1, <1>2, <1>3, <1>6
  <2>2. Held(r)
    <3>1. GenuineSeq(<<>>)
        BY DEF GenuineSeq
    <3>2. Steady => Past(r.resume)
        BY <1>3 DEF Held
    <3> QED BY <1>0, <1>3, <3>1, <3>2 DEF Held
  <2>3. ASSUME NEW s, Watches(s, c) PROVE FALSE
      BY <1>6, <2>3 DEF Watches
  <2>4. Onward(c, r)
      BY <1>3, <2>1, <2>2, <2>3 DEF Onward
  <2> QED BY <2>4 DEF r, d, a
<1>7. CASE ~c.closed
  <2>1. a.out = Append(c.out, Plain(kind)) /\ d.out = Append(a.out, Plain("end"))
      BY <1>1, <1>2, <1>7
  <2>2. /\ a.out # <<>> /\ Framed(a.out) /\ (\A s : Linked(s, c.out) => Linked(s, a.out))
        /\ c.out # <<>> => a.out[1] = c.out[1]
        /\ c.out = <<>> => a.out[1].kind = kind
      BY <1>0, <1>4, <1>5, <2>1, AppendPlain
  <2>3. /\ d.out # <<>> /\ Framed(d.out) /\ (\A s : Linked(s, a.out) => Linked(s, d.out))
        /\ d.out[1] = a.out[1]
    <3> DEFINE o == Append(a.out, Plain("end"))
    <3>1. /\ o # <<>> /\ Framed(o) /\ (\A s : Linked(s, a.out) => Linked(s, o))
          /\ o[1] = a.out[1]
        BY <1>0, <1>4, <2>2, AppendPlain
    <3> QED BY <2>1, <3>1
  <2>4. Held(r)
    <3>1. GenuineSeq(<<>>)
        BY DEF GenuineSeq
    <3>2. Steady => Past(r.resume)
        BY <1>3 DEF Held
    <3> QED BY <1>0, <1>3, <3>1, <3>2 DEF Held
  <2>5. ASSUME NEW s, Watches(s, c) PROVE Watches(s, r)
    <3>1. c.out = <<>> => s.screen = <<>> /\ r.out[1].kind = kind
        BY <1>3, <2>2, <2>3, <2>5 DEF Watches
    <3>2. c.out # <<>> => r.out[1].kind = "reset"
        BY <1>3, <1>5, <2>2, <2>3
    <3>3. Steady => Linked(s, r.out) /\ Stale(s.lastId)
        BY <1>3, <2>2, <2>3, <2>5 DEF Watches
    <3>4. r.pc = "live" /\ r.closed
        BY <1>3
    <3> QED BY <3>1, <3>2, <3>3, <3>4 DEF Watches, Ready
  <2>6. Onward(c, r)
      BY <1>3, <2>3, <2>4, <2>5 DEF Onward
  <2> QED BY <2>6 DEF r, d, a
<1> QED BY <1>6, <1>7

\* The replay is sent.
LEMMA OnwardReplay ==
    ASSUME NEW c \in Conn, Held(c), Framed(c.out), c.pc = "replay", c.finished => Resumes(c),
           marred = {} =>
             /\ \A k \in 1..(Len(c.pending) - 1) : c.pending[k + 1].seq = c.pending[k].seq + 1
             /\ c.pending # <<>> =>
                  c.pending[1].seq <= (IF c.plan = <<>> THEN 0 ELSE c.plan[Len(c.plan)].seq) + 1
    PROVE  Onward(c, Returned(IF c.finished THEN End(Replayed(c)) ELSE Replayed(c)))
<1> DEFINE a == Replayed(c)
           d == IF c.finished THEN End(a) ELSE a
           r == Returned(d)
<1>0. /\ c.out = <<>> /\ c.delivered = c.resume
      /\ GenuineSeq(c.plan) /\ GenuineSeq(c.pending)
      /\ \A i \in DOMAIN c.plan : c.plan[i].seq = c.plan[1].seq + i - 1
      /\ c.plan # <<>> /\ Len(c.plan) < Capacity => c.plan[1].seq = 1
      /\ c.finished => status = "settled"
    BY DEF Held
<1>1. /\ a \in Conn /\ SameCall(a, c) /\ (c.closed => a.closed /\ a.out = <<>>)
      /\ Resumes(c) => \A i \in DOMAIN a.out : a.out[i].kind = "entry"
      /\ ~Resumes(c) /\ ~c.closed => a.out # <<>> /\ a.out[1].kind = "reset"
    BY <1>0, ReplayedIs
<1>2. Framed(a.out)
    BY <1>0, ReplayedFramed
<1>3. ASSUME NEW s \in Browser, Watches(s, c), Steady,
             View!Shown(s.screen) = s.lastId \/ Stale(s.lastId)
      PROVE  Linked(s, a.out) /\ Ready(s, a)
  <2>1. ~c.closed /\ c.resume = s.lastId /\ (View!Shown(s.screen) = s.lastId \/ ~Resumes(c))
      BY <1>3 DEF Watches
  <2>2. View!Shown(s.screen) \in Nat
      BY ShownNat
  <2> QED BY <1>0, <2>1, <2>2, ReplayedLinked
<1> HIDE DEF a
<1>4. a.out \in Seq(Frame)
    BY <1>1 DEF Conn
<1>5. /\ d \in Conn /\ SameCall(d, a) /\ (c.finished => d.closed) /\ (d.closed \/ (d.delivered = a.delivered /\ d.out = a.out))
      /\ Framed(d.out)
      /\ \A s : Linked(s, a.out) => Linked(s, d.out)
      /\ d.out = a.out \/ (c.finished /\ d.out = Append(a.out, Plain("end")))
      /\ a.closed => d.closed
  <2>1. CASE ~c.finished
      BY <1>1, <1>2, <2>1 DEF SameCall
  <2>2. CASE c.finished
    <3>1. /\ d \in Conn /\ SameCall(d, a) /\ d.closed
          /\ d.out = IF a.closed THEN a.out ELSE Append(a.out, Plain("end"))
        BY <1>1, <2>2, EndIs
    <3>2. Framed(Append(a.out, Plain("end"))) /\ \A s : Linked(s, a.out) => Linked(s, Append(a.out, Plain("end")))
        BY <1>0, <1>2, <1>4, <2>2, AppendPlain
    <3> HIDE DEF d
    <3>3. CASE a.closed
      <4>1. d.out = a.out
          BY <3>1, <3>3
      <4> QED BY <1>2, <3>1, <4>1
    <3>4. CASE ~a.closed
      <4>1. d.out = Append(a.out, Plain("end"))
          BY <3>1, <3>4
      <4>2. Framed(d.out)
          BY <3>2, <4>1
      <4>3. \A s : Linked(s, a.out) => Linked(s, d.out)
          BY <3>2, <4>1, Zenon
      <4>4. d \in Conn /\ SameCall(d, a) /\ d.closed
          BY <3>1
      <4> QED BY <2>2, <4>1, <4>2, <4>3, <4>4, Zenon
    <3> QED BY <3>3, <3>4
  <2> QED BY <2>1, <2>2
<1> HIDE DEF d
<1>6. /\ r \in Conn /\ r.pc = "live" /\ r.plan = <<>> /\ r.pending = <<>>
      /\ r.resume = c.resume /\ r.finished = c.finished /\ r.closed = d.closed /\ r.out = d.out
      /\ r.delivered = d.delivered
    BY <1>1, <1>5, ReturnedIs DEF SameCall
<1> HIDE DEF r
<1>7. Held(r)
  <2>1. GenuineSeq(<<>>)
      BY DEF GenuineSeq
  <2>2. Steady => Past(r.resume)
      BY <1>6 DEF Held
  <2> QED BY <1>0, <1>5, <1>6, <2>1, <2>2 DEF Held
<1>8. r.out # <<>> /\ ~c.closed =>
        r.out[1].kind \in {"entry", "end"} \/ (r.out[1].kind = "reset" /\ ~Resumes(c))
  <2> SUFFICES ASSUME r.out # <<>>, ~c.closed
               PROVE  r.out[1].kind \in {"entry", "end"} \/ (r.out[1].kind = "reset" /\ ~Resumes(c))
      OBVIOUS
  <2>1. a.out # <<>> => a.out[1].kind \in {"entry", "end"} \/ (a.out[1].kind = "reset" /\ ~Resumes(c))
    <3>1. a.out # <<>> => 1 \in DOMAIN a.out
        BY <1>4
    <3> QED BY <1>1, <3>1
  <2>2. CASE r.out = a.out
      BY <2>1, <2>2
  <2>3. CASE r.out = Append(a.out, Plain("end"))
    <3>1. /\ a.out # <<>> => r.out[1] = a.out[1]
          /\ a.out = <<>> => r.out[1].kind = "end"
        BY <1>4, <2>3, AppendPlain
    <3> QED BY <2>1, <3>1
  <2> QED BY <1>5, <1>6, <2>2, <2>3
<1>9. ASSUME NEW s \in Browser, Watches(s, c), Steady => View!Shown(s.screen) = s.lastId \/ Stale(s.lastId)
      PROVE  Watches(s, r)
  <2>1. ~c.closed /\ c.resume = s.lastId
      BY <1>9 DEF Watches
  <2>2. Steady => Linked(s, r.out) /\ Ready(s, r)
    <3>1. Steady => Linked(s, a.out) /\ Ready(s, a)
        BY <1>3, <1>9
    <3>2. Ready(s, a) => Ready(s, r)
      <4>1. CASE d.closed
          BY <1>6, <4>1 DEF Ready
      <4>2. CASE ~d.closed
          BY <1>5, <1>6, <4>2 DEF Ready
      <4> QED BY <4>1, <4>2
    <3> QED BY <1>5, <1>6, <3>1, <3>2
  <2>3. Steady /\ ~Resumes(c) => Stale(s.lastId)
      BY <2>1 DEF Held
  <2> QED BY <1>6, <1>8, <2>1, <2>2, <2>3 DEF Watches
<1>a. Onward(c, r)
    BY <1>5, <1>6, <1>7, <1>9 DEF Onward
<1> QED BY <1>a DEF r, d, a

-----------------------------------------------------------------------------
(* What a step leaves as it is *)

\* The unsubscribe of some handlers: the channel is given up, or it is not.
LEMMA CancelIs ==
    ASSUME NEW next \in [Conns -> Conn], NEW leaving, Cancel(next, leaving), listening \in BOOLEAN
    PROVE  /\ conn' \in [Conns -> Conn]
           /\ listeners' = listeners \ leaving
           /\ \A h \in Conns :
                \/ conn'[h] = next[h]
                \/ next[h].pc = "await" /\ conn'[h] = [next[h] EXCEPT !.mine = FALSE]
           /\ \/ /\ listening' = listening /\ commands' = commands /\ conn' = next
                 /\ leaving = {} \/ ~listening \/ listeners' # {}
              \/ /\ listening /\ leaving # {} /\ listeners' = {}
                 /\ listening' = FALSE /\ commands' = Append(commands, NoConn)
                 /\ \A h \in Conns : next[h].pc = "await" => ~conn'[h].mine
<1> DEFINE drops == listening /\ leaving # {} /\ listeners \ leaving = {}
<1>1. /\ listeners' = listeners \ leaving
      /\ listening' = (listening /\ ~drops)
      /\ commands' = IF drops THEN Append(commands, NoConn) ELSE commands
      /\ conn' = [h \in Conns |->
                    IF drops /\ next[h].pc = "await" THEN [next[h] EXCEPT !.mine = FALSE] ELSE next[h]]
    BY DEF Cancel
<1>2. \A h \in Conns : /\ [next[h] EXCEPT !.mine = FALSE] \in Conn
                       /\ [next[h] EXCEPT !.mine = FALSE].mine = FALSE
    BY DEF Conn
<1>3. CASE drops
  <2>1. conn' \in [Conns -> Conn] /\ \A h \in Conns : next[h].pc = "await" => ~conn'[h].mine
      BY <1>1, <1>2, <1>3
  <2>2. \A h \in Conns : \/ conn'[h] = next[h]
                         \/ next[h].pc = "await" /\ conn'[h] = [next[h] EXCEPT !.mine = FALSE]
      BY <1>1
  <2>3. listening' = FALSE /\ commands' = Append(commands, NoConn) /\ listeners' = {}
      BY <1>1, <1>3
  <2> QED BY <1>1, <1>3, <2>1, <2>2, <2>3
<1>4. CASE ~drops
  <2>1. conn' = next
    <3>1. \A h \in Conns : conn'[h] = next[h]
        BY <1>1, <1>4
    <3>2. conn' = [h \in Conns |-> conn'[h]] /\ next = [h \in Conns |-> next[h]]
        BY <1>1
    <3> QED BY <3>1, <3>2
  <2>2. listening' = listening /\ commands' = commands
      BY <1>1, <1>4
  <2>3. leaving = {} \/ ~listening \/ listeners' # {}
      BY <1>1, <1>4
  <2> QED BY <1>1, <2>1, <2>2, <2>3
<1> QED BY <1>3, <1>4

\* An unsubscribe leaves of every handler what others go by.
LEMMA CancelFields ==
    ASSUME NEW next \in [Conns -> Conn], NEW leaving, Cancel(next, leaving), listening \in BOOLEAN
    PROVE  \A h \in Conns :
             /\ conn'[h].pc = next[h].pc /\ conn'[h].finished = next[h].finished
             /\ conn'[h].closed = next[h].closed
<1> SUFFICES ASSUME NEW h \in Conns
             PROVE  /\ conn'[h].pc = next[h].pc /\ conn'[h].finished = next[h].finished
                    /\ conn'[h].closed = next[h].closed
    OBVIOUS
<1>1. next[h] \in Conn
    OBVIOUS
<1>2. /\ [next[h] EXCEPT !.mine = FALSE].pc = next[h].pc
      /\ [next[h] EXCEPT !.mine = FALSE].finished = next[h].finished
      /\ [next[h] EXCEPT !.mine = FALSE].closed = next[h].closed
    BY <1>1 DEF Conn
<1>3. conn'[h] = next[h] \/ conn'[h] = [next[h] EXCEPT !.mine = FALSE]
    BY CancelIs
<1> QED BY <1>2, <1>3

\* With the unsubscribe of some every handler goes on as it does without.
LEMMA CancelOnward ==
    ASSUME NEW next \in [Conns -> Conn], NEW leaving, Cancel(next, leaving), listening \in BOOLEAN,
           \A h \in Conns : Onward(conn[h], next[h])
    PROVE  conn' \in [Conns -> Conn] /\ \A h \in Conns : Onward(conn[h], conn'[h])
<1>1. conn' \in [Conns -> Conn]
    BY CancelIs
<1>2. ASSUME NEW h \in Conns PROVE Onward(conn[h], conn'[h])
  <2>1. conn'[h] = next[h] \/ conn'[h] = [next[h] EXCEPT !.mine = FALSE]
      BY CancelIs
  <2>2. Onward(conn[h], [next[h] EXCEPT !.mine = FALSE])
      BY OnwardMine
  <2> QED BY <2>1, <2>2
<1> QED BY <1>1, <1>2

\* What all handlers go on to is right afterwards too.
LEMMA AllOnward ==
    ASSUME TypeOK, BrowserInv, Grows, browser' = browser,
           \A h \in Conns : Onward(conn[h], conn'[h])
    PROVE  ConnInv' /\ FrameInv' /\ BrowserInv'
<1>1. \A h \in Conns : /\ conn'[h] \in Conn /\ conn'[h].out \in Seq(Frame)
                       /\ Held(conn'[h]) /\ Framed(conn'[h].out)
    BY DEF Onward, Conn
<1>2. ConnInv'
  <2>1. \A h \in Conns : Held(conn[h])'
      BY <1>1, HeldStays
  <2> QED BY <2>1 DEF ConnInv
<1>3. FrameInv'
  <2>1. \A h \in Conns : Framed(conn[h].out)'
      BY <1>1, GenuineStays
  <2> QED BY <2>1 DEF FrameInv
<1>4. ASSUME NEW b \in Browsers PROVE Looks(browser[b])'
  <2>0. PICK s : s = browser[b]
      OBVIOUS
  <2>1. s \in Browser /\ Looks(s) /\ s.lastId \in Nat
      BY <2>0 DEF TypeOK, BrowserInv, Browser
  <2>2. Steady' => Steady
      BY GenuineStays
  <2>3. Steady' => Past(s.lastId)' /\ (Stale(s.lastId) => Stale(s.lastId)')
      BY <2>1, <2>2 DEF Grows, Looks
  <2>4. s.conn # NoConn => s.conn \in Conns
      BY <2>1 DEF Browser
  <2>5. s.conn # NoConn => conn'[s.conn].pc # "unused"
      BY <2>1, <2>4 DEF Looks, Onward
  <2>6. ASSUME s.state = "open", NEW r, r = conn'[s.conn] PROVE Watches(s, r)'
    <3>1. s.conn # NoConn /\ Watches(s, conn[s.conn])
        BY <2>1, <2>6 DEF Looks
    <3>2. Steady => View!Shown(s.screen) = s.lastId \/ Stale(s.lastId)
        BY <2>1, <2>6 DEF Looks
    <3>3. r \in Conn /\ Watches(s, r)
        BY <1>1, <2>1, <2>4, <2>6, <3>1, <3>2 DEF Onward
    <3> QED BY <2>1, <3>3, WatchesStays
  <2>7. browser'[b] = s
      BY <2>0
  <2> QED BY <2>1, <2>2, <2>3, <2>5, <2>6, <2>7 DEF Looks
<1>5. BrowserInv'
    BY <1>4 DEF BrowserInv
<1> QED BY <1>2, <1>3, <1>5

\* Nothing happened to handlers and browsers.
LEMMA ViewersRest ==
    ASSUME TypeOK, ConnInv, FrameInv, BrowserInv, Grows, UNCHANGED <<conn, browser>>
    PROVE  ConnInv' /\ FrameInv' /\ BrowserInv'
<1>1. \A h \in Conns : Onward(conn[h], conn'[h])
  <2>1. \A h \in Conns : conn[h] \in Conn /\ Held(conn[h]) /\ Framed(conn[h].out)
      BY DEF TypeOK, ConnInv, FrameInv
  <2> QED BY <2>1, OnwardSelf
<1> QED BY <1>1, AllOnward

\* Nothing happened to the hub and its connection.
LEMMA HubRests ==
    ASSUME CallInv, HubInv, AloneInv, HeardInv, marred' = {} => marred = {},
           UNCHANGED <<seq, subscribed, commands, feed, hub, conn>>
    PROVE  CallInv' /\ HubInv' /\ AloneInv' /\ HeardInv'
<1>1. CallInv'
    BY DEF CallInv
<1>2. HubInv'
    BY DEF HubInv, hub
<1>3. AloneInv'
    BY DEF AloneInv, hub
<1>4. HeardInv'
    BY DEF HeardInv, InStep, hub
<1> QED BY <1>1, <1>2, <1>3, <1>4

\* Nothing happened in Redis.
LEMMA BufferRests ==
    ASSUME TypeOK, BufferInv, Grows, UNCHANGED redis
    PROVE  BufferInv'
<1>1. GenuineSeq(buffer)'
  <2>1. buffer \in Seq(Entry) /\ buffer' = buffer /\ GenuineSeq(buffer)
      BY DEF TypeOK, redis, BufferInv
  <2> QED BY <2>1, GenuineStays
<1> QED BY <1>1 DEF BufferInv, redis

\* Of what is under way to the hub, at most some was lost or read.
LEMMA FeedRests ==
    ASSUME TypeOK, FeedInv, Grows,
           \A i \in DOMAIN feed' : \E j \in DOMAIN feed : feed'[i] = feed[j]
    PROVE  FeedInv'
<1> SUFFICES ASSUME NEW i \in DOMAIN feed', feed'[i].ack = NoConn, NEW e, e = feed'[i].entry
             PROVE  e \in Entry /\ Genuine(e.n, e.seq)'
    BY DEF FeedInv
<1>1. PICK j \in DOMAIN feed : feed'[i] = feed[j]
    OBVIOUS
<1>2. e \in Entry /\ Genuine(e.n, e.seq)
    BY <1>1 DEF FeedInv
<1>3. e.n \in 0..EndMark /\ e.seq \in Nat
    BY <1>2, LogAssumption DEF Entry, EndMark
<1> QED BY <1>2, <1>3, GenuineStays

\* Nothing happened to the deploy and the counter.
LEMMA DeployRests ==
    ASSUME DeployInv, UNCHANGED <<worker, status, written, wire, seq>>, Steady' => Steady
    PROVE  DeployInv'
    BY DEF DeployInv

-----------------------------------------------------------------------------
(* The worker and Redis *)

\* The worker writes, settles the row, announces the end, or dies.
LEMMA WorkerKeeps ==
    ASSUME IInv, Grows, Worker
    PROVE  IInv'
<1>0. TypeOK /\ DeployInv /\ BufferInv /\ FeedInv
    BY DEF IInv
<1>1. UNCHANGED <<redis, subscribed, commands, feed, hub, conn, browser, marred>>
    BY DEF Worker, Write, Settle, InsertPointer, AnnounceEnd, Die, Recover
<1>2. /\ wire \in Seq(1..EndMark) /\ written \in 0..MaxChunks /\ seq \in Nat /\ MaxChunks \in Nat
      /\ EndMark = MaxChunks + 1 /\ EndMark \in 1..EndMark
    BY <1>0, LogAssumption DEF TypeOK, EndMark
<1>3. ASSUME Write PROVE TypeOK' /\ DeployInv'
  <2>1. /\ worker = "running" /\ worker' = worker /\ written < MaxChunks /\ written' = written + 1
        /\ status' = status /\ archive' = archive /\ wire' = Append(wire, written + 1)
      BY <1>3 DEF Write
  <2>2. written + 1 \in 1..EndMark /\ written + 1 \in 0..MaxChunks
      BY <1>2, <2>1
  <2>3. /\ wire' \in Seq(1..EndMark) /\ Len(wire') = Len(wire) + 1 /\ Len(wire) \in Nat
        /\ DOMAIN wire = 1..Len(wire) /\ DOMAIN wire' = 1..(Len(wire) + 1)
        /\ \A i \in 1..Len(wire) : wire'[i] = wire[i] /\ wire[i] \in 1..EndMark
        /\ wire'[Len(wire) + 1] = written + 1
    <3>1. \A i \in 1..Len(wire) : wire[i] \in 1..EndMark
        BY <1>2
    <3> QED BY <1>2, <2>1, <2>2, <3>1, AppendIs
  <2>4. TypeOK'
      BY <1>0, <1>1, <2>1, <2>2, <2>3 DEF TypeOK, redis, hub
  <2>5. DeployInv'
    <3>1. ASSUME NEW i \in 1..(Len(wire) + 1)
          PROVE  /\ wire'[i] <= written' \/ (wire'[i] = EndMark /\ status' = "settled")
                 /\ Steady => wire'[i] = EndMark \/ wire'[i] = seq + i
      <4>1. CASE i \in 1..Len(wire)
        <5>1. /\ wire[i] <= written \/ (wire[i] = EndMark /\ status = "settled")
              /\ Steady => wire[i] = EndMark \/ wire[i] = seq + i
            BY <1>0, <2>3, <4>1 DEF DeployInv
        <5>2. wire[i] \in Nat /\ written \in Nat
            BY <1>2, <2>3, <4>1
        <5> QED BY <2>1, <2>3, <4>1, <5>1, <5>2
      <4>2. CASE i = Len(wire) + 1
        <5>1. Steady => seq + Len(wire) = written
            BY <1>0, <2>1 DEF DeployInv
        <5> QED BY <1>2, <2>1, <2>3, <4>2, <5>1
      <4> QED BY <2>3, <4>1, <4>2
    <3>2. Steady => seq + Len(wire') = written'
      <4>1. Steady => seq + Len(wire) = written
          BY <1>0, <2>1 DEF DeployInv
      <4> QED BY <1>2, <2>1, <2>3, <4>1
    <3>3. seq' = seq /\ (Steady' <=> Steady)
        BY <1>1 DEF redis, Steady
    <3>4. status = "running"
        BY <1>0, <2>1 DEF DeployInv
    <3> QED BY <2>1, <2>3, <3>1, <3>2, <3>3, <3>4 DEF DeployInv
  <2> QED BY <2>4, <2>5
<1>4. ASSUME AnnounceEnd PROVE TypeOK' /\ DeployInv'
  <2>1. /\ worker = "archived" /\ worker' = "done" /\ written' = written
        /\ status' = status /\ archive' = archive /\ wire' = Append(wire, EndMark)
      BY <1>4 DEF AnnounceEnd
  <2>3. /\ wire' \in Seq(1..EndMark) /\ Len(wire') = Len(wire) + 1 /\ Len(wire) \in Nat
        /\ DOMAIN wire = 1..Len(wire) /\ DOMAIN wire' = 1..(Len(wire) + 1)
        /\ \A i \in 1..Len(wire) : wire'[i] = wire[i]
        /\ wire'[Len(wire) + 1] = EndMark
      BY <1>2, <2>1, AppendIs
  <2>4. TypeOK'
      BY <1>0, <1>1, <2>1, <2>3 DEF TypeOK, redis, hub
  <2>5. status = "settled"
      BY <1>0, <2>1 DEF DeployInv
  <2>6. DeployInv'
    <3>1. seq' = seq /\ (Steady' <=> Steady)
        BY <1>1 DEF redis, Steady
    <3>2. \A i \in 1..(Len(wire) + 1) : i \in 1..Len(wire) \/ i = Len(wire) + 1
        BY <2>3
    <3> QED BY <1>0, <2>1, <2>3, <2>5, <3>1, <3>2 DEF DeployInv
  <2> QED BY <2>4, <2>6
<1>5. ASSUME Settle \/ InsertPointer PROVE TypeOK' /\ DeployInv'
  <2>1. TypeOK'
      BY <1>0, <1>1, <1>5 DEF TypeOK, redis, hub, Settle, InsertPointer
  <2>2. DeployInv'
      BY <1>0, <1>1, <1>5 DEF DeployInv, Settle, InsertPointer, redis, Steady
  <2> QED BY <2>1, <2>2
<1>6. ASSUME Die \/ Recover PROVE TypeOK' /\ DeployInv'
  <2>1. wire' = <<>> /\ wire' \in Seq(1..EndMark)
    <3>1. <<>> \in Seq(1..EndMark)
        OBVIOUS
    <3>2. wire' = <<>>
        BY <1>0, <1>6 DEF Die, Recover, DeployInv
    <3> QED BY <3>1, <3>2
  <2>2. TypeOK'
      BY <1>0, <1>1, <1>6, <2>1 DEF TypeOK, redis, hub, Die, Recover
  <2>3. DeployInv'
      BY <1>0, <1>1, <1>6, <2>1 DEF DeployInv, Die, Recover, redis, Steady
  <2> QED BY <2>2, <2>3
<1>7. TypeOK' /\ DeployInv'
    BY <1>3, <1>4, <1>5, <1>6 DEF Worker
<1>8. BufferInv' /\ FeedInv'
    BY <1>0, <1>1, BufferRests, FeedRests
<1>9. CallInv' /\ HubInv' /\ AloneInv' /\ HeardInv'
  <2>1. UNCHANGED <<seq, subscribed, commands, feed, hub, conn>> /\ marred' = marred
      BY <1>1 DEF redis
  <2> QED BY <2>1, HubRests DEF IInv
<1>a. ConnInv' /\ FrameInv' /\ BrowserInv'
    BY <1>1, ViewersRest DEF IInv
<1> QED BY <1>7, <1>8, <1>9, <1>a DEF IInv

\* An element of a sequence.
LEMMA ElementIs ==
    ASSUME NEW S, NEW s \in Seq(S), NEW i \in DOMAIN s
    PROVE  s[i] \in S
    OBVIOUS

\* What is under way to the hub.
Item == [ack : Conns \cup {NoConn}, entry : Entry \cup {[n |-> 0, seq |-> 0]}]

\* Without an overlap a hub with listeners is subscribed, and nothing that was
\* asked for or answered is under way.
LEMMA SettledHub ==
    ASSUME IInv, marred = {}, listeners # {}
    PROVE  /\ listening /\ subscribed /\ commands = <<>>
           /\ \A i \in DOMAIN feed : feed[i].ack = NoConn
           /\ \A h \in Conns : conn[h].pc # "await"
<1>1. \A h \in Conns : conn[h].pc # "await"
    BY DEF IInv, AloneInv
<1>2. feed \in Seq(Item) /\ commands \in Seq(Conns \cup {NoConn})
    BY DEF IInv, TypeOK, Item
<1>3. \A i \in DOMAIN feed : feed[i].ack = NoConn
  <2> SUFFICES ASSUME NEW i \in DOMAIN feed, feed[i].ack # NoConn PROVE FALSE
      OBVIOUS
  <2>1. feed[i].ack \in Conns
    <3>1. feed[i] \in Item
        BY <1>2, ElementIs
    <3> QED BY <3>1 DEF Item
  <2> QED BY <1>1, <2>1 DEF IInv, CallInv
<1>4. listening
    BY DEF IInv, HubInv
<1>5. commands = <<>>
  <2> SUFFICES ASSUME commands # <<>> PROVE FALSE
      OBVIOUS
  <2>1. Len(commands) \in DOMAIN commands
    <3>1. Len(commands) \in Nat \ {0} /\ DOMAIN commands = 1..Len(commands)
        BY <1>2, TailIs
    <3> QED BY <3>1
  <2>2. commands[Len(commands)] # NoConn
      BY <1>4 DEF IInv, HubInv
  <2>3. commands[Len(commands)] \in Conns
      BY <1>2, <2>1, <2>2
  <2> QED BY <1>1, <2>1, <2>2, <2>3 DEF IInv, CallInv
<1>6. subscribed
    BY <1>4, <1>5 DEF IInv, HubInv
<1> QED BY <1>1, <1>3, <1>4, <1>5, <1>6

\* Redis numbers a message, keeps it and passes it on.
LEMMA PublishKeeps ==
    ASSUME IInv, Grows, Publish
    PROVE  IInv'
<1>e. PICK e : e = [n |-> Head(wire), seq |-> seq + 1]
    OBVIOUS
<1> DEFINE b == Append(buffer, e)
           l == Len(buffer)
<1>0. TypeOK /\ DeployInv /\ BufferInv /\ FeedInv
    BY DEF IInv
<1>1. /\ wire # <<>> /\ wire' = Tail(wire) /\ seq' = seq + 1
      /\ buffer' = IF Len(b) > Capacity THEN Tail(b) ELSE b
      /\ feed' = IF subscribed THEN Append(feed, Message(e)) ELSE feed
      /\ UNCHANGED <<deploy, subscribed, commands, hub, conn, browser, marred>>
    BY <1>e DEF Publish
<1>2. /\ wire \in Seq(1..EndMark) /\ written \in 0..MaxChunks /\ seq \in Nat /\ MaxChunks \in Nat
      /\ EndMark = MaxChunks + 1 /\ Capacity \in Nat \ {0}
      /\ buffer \in Seq(Entry) /\ feed \in Seq(Item)
    BY <1>0, LogAssumption DEF TypeOK, EndMark, Item
<1>3. /\ Tail(wire) \in Seq(1..EndMark) /\ Len(Tail(wire)) = Len(wire) - 1
      /\ Len(wire) \in Nat \ {0} /\ Head(wire) = wire[1] /\ Head(wire) \in 1..EndMark
      /\ DOMAIN wire = 1..Len(wire) /\ DOMAIN Tail(wire) = 1..(Len(wire) - 1)
      /\ \A i \in 1..(Len(wire) - 1) : Tail(wire)[i] = wire[i + 1] /\ i + 1 \in DOMAIN wire
    BY <1>1, <1>2, TailIs
<1>4. e \in Entry /\ e.n = wire[1] /\ e.seq = seq + 1
    BY <1>e, <1>2, <1>3 DEF Entry
<1>5. /\ b \in Seq(Entry) /\ Len(b) = l + 1 /\ b # <<>> /\ l \in Nat
      /\ DOMAIN b = 1..(l + 1) /\ DOMAIN buffer = 1..l
      /\ \A i \in 1..l : b[i] = buffer[i]
      /\ b[l + 1] = e
    BY <1>2, <1>4, AppendIs
<1>6. /\ Tail(b) \in Seq(Entry) /\ Len(Tail(b)) = Len(b) - 1
      /\ DOMAIN Tail(b) = 1..(Len(b) - 1)
      /\ \A i \in 1..(Len(b) - 1) : Tail(b)[i] = b[i + 1]
    BY <1>5, TailIs
<1> HIDE DEF b
<1>n. seq' = seq + 1 /\ seq \in Nat /\ l \in Nat
    BY <1>1, <1>2, <1>5
<1>7. l = (IF seq < Capacity THEN seq ELSE Capacity)
    BY <1>0 DEF BufferInv
<1>8. /\ buffer' \in Seq(Entry) /\ Len(buffer') = IF seq' < Capacity THEN seq' ELSE Capacity
      /\ Len(buffer') <= Capacity
  <2>1. CASE l + 1 > Capacity
      BY <1>1, <1>2, <1>5, <1>6, <1>7, <2>1
  <2>2. CASE ~(l + 1 > Capacity)
      BY <1>1, <1>2, <1>5, <1>7, <2>2
  <2> QED BY <2>1, <2>2
<1>9. Genuine(e.n, e.seq)'
  <2>1. 1 \in DOMAIN wire
      BY <1>3
  <2>2. wire[1] <= written \/ (wire[1] = EndMark /\ status = "settled")
      BY <1>0, <2>1 DEF DeployInv
  <2>3. Steady => wire[1] = EndMark \/ wire[1] = seq + 1
      BY <1>0, <2>1 DEF DeployInv
  <2>4. written' = written /\ status' = status /\ (Steady' <=> Steady) /\ e.seq <= seq'
      BY <1>1, <1>2, <1>4 DEF deploy, Steady
  <2>5. Past(e.seq)'
      BY <2>4 DEF Past
  <2> QED BY <1>4, <2>2, <2>3, <2>4, <2>5 DEF Genuine
<1>a. \A i \in 1..(l + 1) : \A f : f = b[i] => f.seq = seq - l + i /\ Genuine(f.n, f.seq)'
  <2> SUFFICES ASSUME NEW i \in 1..(l + 1), NEW f, f = b[i]
               PROVE  f.seq = seq - l + i /\ Genuine(f.n, f.seq)'
      OBVIOUS
  <2>1. CASE i = l + 1
      BY <1>2, <1>4, <1>5, <1>9, <2>1
  <2>2. CASE i \in 1..l
    <3>1. f = buffer[i] /\ f \in Entry
        BY <1>2, <1>5, <2>2
    <3>2. f.seq = seq - l + i /\ Genuine(f.n, f.seq)
        BY <1>0, <1>5, <2>2, <3>1 DEF BufferInv, GenuineSeq
    <3>3. f.n \in 0..EndMark /\ f.seq \in Nat
        BY <1>2, <3>1 DEF Entry
    <3> QED BY <1>0, <3>2, <3>3, GenuineStays
  <2> QED BY <1>5, <2>1, <2>2
<1>b. BufferInv'
  <2>1. \A i \in DOMAIN buffer' : \E j \in 1..(l + 1) :
            buffer'[i] = b[j] /\ seq - l + j = seq' - Len(buffer') + i
    <3> SUFFICES ASSUME NEW i \in DOMAIN buffer'
                 PROVE  \E j \in 1..(l + 1) :
                          buffer'[i] = b[j] /\ seq - l + j = seq' - Len(buffer') + i
        OBVIOUS
    <3>1. CASE l + 1 > Capacity
      <4>1. buffer' = Tail(b)
          BY <1>1, <1>5, <3>1
      <4>2. i \in 1..l /\ buffer'[i] = b[i + 1] /\ Len(buffer') = l
          BY <1>5, <1>6, <4>1
      <4>3. i + 1 \in 1..(l + 1)
          BY <1>5, <4>2
      <4>4. seq - l + (i + 1) = seq' - Len(buffer') + i
        <5>1. i \in Int
            BY <4>2
        <5> HIDE DEF l
        <5> QED BY <1>n, <4>2, <5>1
      <4> QED BY <4>2, <4>3, <4>4
    <3>2. CASE ~(l + 1 > Capacity)
      <4>1. buffer' = b
          BY <1>1, <1>5, <3>2
      <4>2. i \in 1..(l + 1) /\ Len(buffer') = l + 1
          BY <1>5, <4>1
      <4>3. seq - l + i = seq' - Len(buffer') + i
        <5>1. i \in Int
            BY <4>2
        <5> HIDE DEF l
        <5> QED BY <1>n, <4>2, <5>1
      <4> QED BY <4>1, <4>2, <4>3
    <3> QED BY <3>1, <3>2
  <2>2. \A i \in DOMAIN buffer' : buffer'[i].seq = seq' - Len(buffer') + i
      BY <1>a, <2>1
  <2>3. GenuineSeq(buffer)'
    <3> SUFFICES ASSUME NEW i \in DOMAIN buffer', NEW f, f = buffer'[i] PROVE Genuine(f.n, f.seq)'
        BY DEF GenuineSeq
    <3>1. PICK j \in 1..(l + 1) : f = b[j]
        BY <2>1
    <3> QED BY <1>a, <3>1
  <2> QED BY <1>8, <2>2, <2>3 DEF BufferInv
<1>c. DeployInv'
  <2>1. \A i \in DOMAIN wire' : /\ wire'[i] = wire[i + 1] /\ i + 1 \in DOMAIN wire
                                /\ i \in Nat
      BY <1>1, <1>3
  <2>2. worker' = worker /\ status' = status /\ written' = written /\ (Steady' <=> Steady)
      BY <1>1 DEF deploy, Steady
  <2>3. worker \notin {"dead", "recovered"}
      BY <1>0, <1>1 DEF DeployInv
  <2>4. Steady => \A i \in DOMAIN wire' : wire'[i] = EndMark \/ wire'[i] = seq' + i
    <3> SUFFICES ASSUME Steady, NEW i \in DOMAIN wire'
                 PROVE  wire'[i] = EndMark \/ wire'[i] = seq' + i
        OBVIOUS
    <3>1. wire[i + 1] = EndMark \/ wire[i + 1] = seq + (i + 1)
        BY <1>0, <2>1 DEF DeployInv
    <3> QED BY <1>1, <1>2, <2>1, <3>1
  <2>5. Steady /\ worker = "running" => seq' + Len(wire') = written'
    <3>1. Steady /\ worker = "running" => seq + Len(wire) = written
        BY <1>0 DEF DeployInv
    <3>2. Len(wire') = Len(wire) - 1 /\ Len(wire) \in Nat
        BY <1>1, <1>3
    <3> QED BY <1>n, <2>2, <3>1, <3>2
  <2> QED BY <1>0, <2>1, <2>2, <2>3, <2>4, <2>5 DEF DeployInv
<1>d. Message(e) \in Item /\ Message(e).ack = NoConn /\ Message(e).entry = e
    BY <1>4 DEF Message, Item
<1>f. CASE ~subscribed
  <2>1. feed' = feed
      BY <1>1, <1>f
  <2>2. TypeOK'
      BY <1>0, <1>1, <1>2, <1>3, <1>8, <2>1 DEF TypeOK, deploy, hub
  <2>3. FeedInv'
      BY <1>0, <2>1, FeedRests
  <2>4. CallInv' /\ HubInv' /\ AloneInv'
      BY <1>1, <2>1 DEF IInv, CallInv, HubInv, AloneInv, hub
  <2>5. HeardInv'
    <3>1. marred = {} => listeners = {}
        BY <1>f, SettledHub
    <3>2. ~(listening /\ commands = <<>>)
        BY <1>f DEF IInv, HubInv
    <3> QED BY <1>1, <3>1, <3>2 DEF HeardInv, InStep, hub
  <2>6. ConnInv' /\ FrameInv' /\ BrowserInv'
      BY <1>1, ViewersRest DEF IInv
  <2> QED BY <1>b, <1>c, <2>2, <2>3, <2>4, <2>5, <2>6 DEF IInv
<1>g. CASE subscribed
  <2> DEFINE m == Message(e)
             k == Len(feed)
  <2> HIDE DEF m
  <2>1. feed' = Append(feed, m) /\ m \in Item /\ m.ack = NoConn /\ m.entry = e
      BY <1>1, <1>d, <1>g DEF m
  <2>2. /\ feed' \in Seq(Item) /\ Len(feed') = k + 1 /\ k \in Nat
        /\ DOMAIN feed = 1..k /\ DOMAIN feed' = 1..(k + 1)
        /\ \A i \in 1..k : feed'[i] = feed[i]
        /\ feed'[k + 1] = m
      BY <1>2, <2>1, AppendIs
  <2>3. \A i \in 1..(k + 1) : i \in 1..k \/ i = k + 1
      BY <2>2
  <2>4. TypeOK'
      BY <1>0, <1>1, <1>2, <1>3, <1>8, <2>2 DEF TypeOK, deploy, hub, Item
  <2>5. FeedInv'
    <3> SUFFICES ASSUME NEW i \in 1..(k + 1), feed'[i].ack = NoConn, NEW f, f = feed'[i].entry
                 PROVE  f \in Entry /\ Genuine(f.n, f.seq)'
        BY <2>2 DEF FeedInv
    <3>1. CASE i = k + 1
        BY <1>4, <1>9, <2>1, <2>2, <3>1
    <3>2. CASE i \in 1..k
      <4>1. f \in Entry /\ Genuine(f.n, f.seq)
          BY <1>0, <2>2, <3>2 DEF FeedInv
      <4>2. f.n \in 0..EndMark /\ f.seq \in Nat
          BY <1>2, <4>1 DEF Entry
      <4> QED BY <1>0, <4>1, <4>2, GenuineStays
    <3> QED BY <2>3, <3>1, <3>2
  <2>6. \A i \in DOMAIN feed' : feed'[i].ack # NoConn => i \in DOMAIN feed /\ feed'[i] = feed[i]
      BY <2>1, <2>2, <2>3
  <2>7. CallInv'
    <3>1. CallInv
        BY DEF IInv
    <3> QED BY <1>1, <2>6, <3>1 DEF CallInv
  <2>8. HubInv' /\ AloneInv'
      BY <1>1 DEF IInv, HubInv, AloneInv, hub
  <2>9. HeardInv'
    <3> SUFFICES ASSUME marred = {}
                 PROVE  HeardInv'
        BY <1>1 DEF HeardInv
    <3>0. HeardInv
        BY DEF IInv
    <3>1. seq' - Len(feed') = seq - Len(feed)
        BY <1>1, <1>2, <2>2
    <3>2. ASSUME listening, commands = <<>>, NEW i \in DOMAIN feed',
                 \A j \in i..Len(feed') : feed'[j].ack = NoConn
          PROVE  feed'[i].entry.seq = seq' - (Len(feed') - i)
      <4>1. CASE i = k + 1
        <5>1. feed'[i].entry.seq = seq + 1 /\ Len(feed') = i /\ i \in Nat
            BY <1>4, <2>1, <2>2, <4>1
        <5> QED BY <1>n, <5>1
      <4>2. CASE i \in 1..k
        <5>1. \A j \in i..k : feed[j].ack = NoConn
          <6> SUFFICES ASSUME NEW j \in i..k PROVE feed[j].ack = NoConn
              OBVIOUS
          <6>1. j \in 1..k /\ j \in i..Len(feed')
              BY <2>2, <4>2
          <6> QED BY <2>2, <3>2, <6>1
        <5>2. feed[i].entry.seq = seq - (k - i)
            BY <2>2, <3>0, <3>2, <4>2, <5>1 DEF HeardInv, InStep
        <5>3. feed'[i] = feed[i] /\ Len(feed') = k + 1 /\ i \in Int /\ k \in Nat
            BY <2>2, <4>2
        <5> HIDE DEF k
        <5> QED BY <1>n, <5>2, <5>3
      <4> QED BY <2>2, <2>3, <4>1, <4>2
    <3>3. \A h \in listeners : Follows(conn[h], seq' - Len(feed'))
        BY <3>0, <3>1 DEF HeardInv
    <3>4. UNCHANGED <<listening, listeners, commands, conn, marred>>
        BY <1>1 DEF hub
    <3> QED BY <3>2, <3>3, <3>4 DEF HeardInv, InStep
  <2>a. ConnInv' /\ FrameInv' /\ BrowserInv'
      BY <1>1, ViewersRest DEF IInv
  <2> QED BY <1>b, <1>c, <2>4, <2>5, <2>7, <2>8, <2>9, <2>a DEF IInv
<1> QED BY <1>f, <1>g

\* The counter and the buffer expire together, when nothing is under way.
LEMMA ExpireKeeps ==
    ASSUME IInv, Grows, Expire
    PROVE  IInv'
<1>0. TypeOK /\ DeployInv /\ BufferInv /\ FeedInv /\ ConnInv /\ HubInv /\ CallInv /\ AloneInv
    BY DEF IInv
<1>1. /\ wire = <<>> /\ feed = <<>> /\ commands = <<>> /\ seq' = 0 /\ buffer' = <<>>
      /\ \A h \in Conns : conn[h].pc \in {"unused", "live"}
      /\ marred' = IF worker \in {"done", "recovered"} THEN marred ELSE marred \cup {"quiet"}
      /\ UNCHANGED <<worker, status, archive, written, wire, subscribed, commands, feed,
                     listening, listeners, conn, browser>>
    BY DEF Expire, deploy, hub
<1>2. TypeOK'
  <2>1. <<>> \in Seq(Entry) /\ Len(<<>>) <= Capacity
      BY LogAssumption
  <2> QED BY <1>0, <1>1, <2>1 DEF TypeOK
<1>3. DeployInv'
  <2>1. Steady' => Steady /\ worker \in {"done", "recovered"}
      BY <1>1 DEF Steady
  <2> QED BY <1>0, <1>1, <2>1 DEF DeployInv
<1>4. BufferInv'
    BY <1>1, LogAssumption DEF BufferInv, GenuineSeq
<1>5. FeedInv' /\ CallInv' /\ HubInv'
    BY <1>0, <1>1 DEF FeedInv, CallInv, HubInv
<1>6. marred' = {} => marred = {}
    BY <1>1
<1>7. AloneInv'
    BY <1>0, <1>1, <1>6 DEF AloneInv
<1>8. HeardInv'
  <2> SUFFICES ASSUME NEW h \in listeners PROVE Follows(conn[h], 0 - 0)
    <3>1. Len(feed') = 0 /\ DOMAIN feed' = {}
        BY <1>1
    <3> QED BY <1>1, <3>1 DEF HeardInv, InStep
  <2>1. h \in Conns /\ conn[h] \in Conn
      BY <1>0 DEF TypeOK
  <2>2. conn[h].pc = "live"
      BY <1>0, <1>1, <2>1 DEF HubInv
  <2>3. conn[h].pending = <<>> /\ conn[h].delivered \in Nat
      BY <1>0, <2>1, <2>2 DEF ConnInv, Held, Conn
  <2> QED BY <2>2, <2>3 DEF Follows
<1>9. ConnInv' /\ FrameInv' /\ BrowserInv'
    BY <1>1, ViewersRest DEF IInv
<1> QED BY <1>2, <1>3, <1>4, <1>5, <1>7, <1>8, <1>9 DEF IInv

\* Redis answers a SUBSCRIBE, or an UNSUBSCRIBE.
LEMMA CommandKeeps ==
    ASSUME IInv, Grows, Command
    PROVE  IInv'
<1> DEFINE k == Len(feed)
           l == Len(commands)
<1>0. TypeOK /\ DeployInv /\ BufferInv /\ FeedInv /\ ConnInv /\ HubInv /\ CallInv /\ AloneInv
    BY DEF IInv
<1>1. /\ commands # <<>> /\ commands' = Tail(commands)
      /\ subscribed' = (Head(commands) # NoConn)
      /\ feed' = IF Head(commands) # NoConn THEN Append(feed, Ack(Head(commands))) ELSE feed
      /\ UNCHANGED <<worker, status, archive, written, wire, seq, buffer, listening, listeners, conn, browser, marred>>
    BY DEF Command, deploy, redis, hub
<1>2. commands \in Seq(Conns \cup {NoConn}) /\ feed \in Seq(Item)
    BY <1>0 DEF TypeOK, Item
<1>3. /\ Tail(commands) \in Seq(Conns \cup {NoConn}) /\ Len(Tail(commands)) = l - 1
      /\ l \in Nat \ {0} /\ Head(commands) = commands[1] /\ Head(commands) \in Conns \cup {NoConn}
      /\ DOMAIN commands = 1..l /\ DOMAIN Tail(commands) = 1..(l - 1)
      /\ \A i \in 1..(l - 1) : Tail(commands)[i] = commands[i + 1] /\ i + 1 \in DOMAIN commands /\ i + 1 # 1
    BY <1>1, <1>2, TailIs
<1>p. 1 \in DOMAIN commands
    BY <1>3
<1>4. Ack(Head(commands)) \in Item /\ Ack(Head(commands)).ack = commands[1]
    BY <1>3 DEF Ack, Item
<1>5. /\ feed' \in Seq(Item) /\ k \in Nat /\ DOMAIN feed = 1..k
      /\ IF commands[1] = NoConn THEN feed' = feed
         ELSE /\ Len(feed') = k + 1 /\ DOMAIN feed' = 1..(k + 1)
              /\ \A i \in 1..k : feed'[i] = feed[i]
              /\ feed'[k + 1].ack = commands[1]
  <2>1. CASE commands[1] = NoConn
      BY <1>1, <1>2, <1>3, <2>1
  <2>2. CASE commands[1] # NoConn
    <3>1. feed' = Append(feed, Ack(Head(commands)))
        BY <1>1, <1>3, <2>2
    <3> QED BY <1>2, <1>4, <2>2, <3>1, AppendIs
  <2> QED BY <2>1, <2>2
<1>6. \A i \in DOMAIN feed' : \/ i \in DOMAIN feed /\ feed'[i] = feed[i]
                              \/ commands[1] # NoConn /\ i = k + 1 /\ feed'[i].ack = commands[1]
  <2>1. \A i \in 1..(k + 1) : i \in 1..k \/ i = k + 1
      BY <1>5
  <2> QED BY <1>5, <2>1
<1>7. TypeOK'
    BY <1>0, <1>1, <1>3, <1>5 DEF TypeOK, Item
<1>8. DeployInv' /\ BufferInv'
    BY <1>0, <1>1, DeployRests, BufferRests DEF redis, Steady
<1>9. FeedInv'
  <2> SUFFICES ASSUME NEW i \in DOMAIN feed', feed'[i].ack = NoConn, NEW f, f = feed'[i].entry
               PROVE  f \in Entry /\ Genuine(f.n, f.seq)'
      BY DEF FeedInv
  <2>1. i \in DOMAIN feed /\ feed'[i] = feed[i]
      BY <1>6
  <2>2. f \in Entry /\ Genuine(f.n, f.seq)
      BY <1>0, <2>1 DEF FeedInv
  <2>3. f.n \in 0..EndMark /\ f.seq \in Nat
      BY <2>2, LogAssumption DEF Entry, EndMark
  <2> QED BY <1>0, <2>2, <2>3, GenuineStays
<1>a. CallInv'
  <2>1. ASSUME NEW i \in DOMAIN commands'
        PROVE  i + 1 \in DOMAIN commands /\ commands'[i] = commands[i + 1] /\ i + 1 # 1 /\ i \in Int
      BY <1>1, <1>3
  <2>2. \A i \in DOMAIN commands' : commands'[i] # NoConn => conn[commands'[i]].pc = "await"
      BY <1>0, <2>1 DEF CallInv
  <2>3. \A i \in DOMAIN feed' : feed'[i].ack # NoConn => conn[feed'[i].ack].pc = "await"
      BY <1>0, <1>6, <1>p DEF CallInv
  <2>4. \A i, j \in DOMAIN commands' :
           i # j /\ commands'[i] = commands'[j] => commands'[i] = NoConn
    <3> SUFFICES ASSUME NEW i \in DOMAIN commands', NEW j \in DOMAIN commands', i # j,
                        commands'[i] = commands'[j]
                 PROVE  commands'[i] = NoConn
        OBVIOUS
    <3>1. i + 1 # j + 1
        BY <2>1
    <3> QED BY <1>0, <2>1, <3>1 DEF CallInv
  <2>5. \A i, j \in DOMAIN feed' :
           i # j /\ feed'[i].ack = feed'[j].ack => feed'[i].ack = NoConn
    <3> SUFFICES ASSUME NEW i \in DOMAIN feed', NEW j \in DOMAIN feed', i # j,
                        feed'[i].ack = feed'[j].ack, feed'[i].ack # NoConn
                 PROVE  FALSE
        OBVIOUS
    <3>1. \A j1 \in DOMAIN feed : commands[1] = feed[j1].ack => commands[1] = NoConn
        BY <1>0, <1>p DEF CallInv
    <3> QED BY <1>0, <1>6, <3>1 DEF CallInv
  <2>6. \A i \in DOMAIN commands', j \in DOMAIN feed' :
           commands'[i] = feed'[j].ack => commands'[i] = NoConn
    <3> SUFFICES ASSUME NEW i \in DOMAIN commands', NEW j \in DOMAIN feed',
                        commands'[i] = feed'[j].ack
                 PROVE  commands'[i] = NoConn
        OBVIOUS
    <3>1. CASE j \in DOMAIN feed /\ feed'[j] = feed[j]
        BY <1>0, <2>1, <3>1 DEF CallInv
    <3>2. CASE feed'[j].ack = commands[1]
        BY <1>0, <1>p, <2>1, <3>2 DEF CallInv
    <3> QED BY <1>6, <3>1, <3>2
  <2>7. conn' = conn
      BY <1>1
  <2> QED BY <2>2, <2>3, <2>4, <2>5, <2>6, <2>7 DEF CallInv
<1>b. HubInv'
  <2>1. commands[l] # NoConn <=> listening
      BY <1>0, <1>1 DEF HubInv
  <2>2. CASE commands' = <<>>
    <3>1. l = 1
        BY <1>1, <1>3, <2>2
    <3> QED BY <1>0, <1>1, <1>3, <2>1, <2>2, <3>1 DEF HubInv
  <2>3. CASE commands' # <<>>
    <3>1. l - 1 \in 1..(l - 1) /\ (l - 1) + 1 = l /\ Len(commands') = l - 1
        BY <1>1, <1>3, <2>3
    <3>2. commands'[Len(commands')] = commands[l]
        BY <1>1, <1>3, <3>1
    <3> QED BY <1>0, <1>1, <2>1, <2>3, <3>2 DEF HubInv
  <2> QED BY <2>2, <2>3
<1>c. AloneInv'
    BY <1>0, <1>1 DEF AloneInv
<1>d. HeardInv'
  <2> SUFFICES ASSUME marred = {} PROVE HeardInv'
      BY <1>1 DEF HeardInv
  <2>1. listeners = {}
      BY <1>1, SettledHub
  <2>2. ASSUME listening, commands' = <<>>, NEW i \in DOMAIN feed',
               \A j \in i..Len(feed') : feed'[j].ack = NoConn
        PROVE  FALSE
    <3>1. l = 1
        BY <1>1, <1>3, <2>2
    <3>2. commands[1] # NoConn
        BY <1>0, <1>1, <2>2, <3>1 DEF HubInv
    <3>3. k + 1 \in i..Len(feed')
        BY <1>5, <3>2
    <3> QED BY <1>5, <2>2, <3>2, <3>3
  <2> QED BY <1>1, <2>1, <2>2 DEF HeardInv, InStep
<1>e. ConnInv' /\ FrameInv' /\ BrowserInv'
    BY <1>1, ViewersRest DEF IInv
<1> QED BY <1>7, <1>8, <1>9, <1>a, <1>b, <1>c, <1>d, <1>e DEF IInv

\* The connection of the hub breaks: messages are lost, no answer is.
LEMMA ReconnectKeeps ==
    ASSUME IInv, Grows, Reconnect
    PROVE  IInv'
<1> DEFINE T == {m \in ToSet(feed) : m.ack # NoConn}
<1>0. TypeOK /\ DeployInv /\ BufferInv /\ FeedInv /\ ConnInv /\ HubInv /\ CallInv /\ AloneInv
    BY DEF IInv
<1>1. /\ feed' = Among(feed, T)
      /\ marred' = marred \cup {"lost"}
      /\ UNCHANGED <<worker, status, archive, written, wire, seq, buffer, subscribed, commands,
                     listening, listeners, conn, browser>>
    BY DEF Reconnect, deploy, redis, hub
<1>2. feed \in Seq(Item) /\ DOMAIN feed = 1..Len(feed)
    BY <1>0 DEF TypeOK, Item
<1> HIDE DEF T
<1>3. feed' \in Seq(Item) /\ DOMAIN feed' = 1..Len(feed')
  <2>1. feed' \in Seq(Item)
      BY <1>1, <1>2, AmongIs
  <2> QED BY <2>1
<1>4. PICK m \in [1..Len(feed') -> 1..Len(feed)] :
          /\ \A i \in 1..Len(feed') : feed'[i] = feed[m[i]]
          /\ \A i, j \in 1..Len(feed') : i < j => m[i] < m[j]
    BY <1>1, <1>2, AmongIs
<1>5. ASSUME NEW i \in DOMAIN feed' PROVE m[i] \in DOMAIN feed /\ feed'[i] = feed[m[i]]
    BY <1>2, <1>3, <1>4
<1>6. ASSUME NEW i \in DOMAIN feed', NEW j \in DOMAIN feed', i # j PROVE m[i] # m[j]
  <2>1. i < j \/ j < i
      BY <1>3, <1>6
  <2>2. m[i] \in Int /\ m[j] \in Int
      BY <1>2, <1>5
  <2> QED BY <1>3, <1>4, <2>1, <2>2
<1>7. TypeOK'
    BY <1>0, <1>1, <1>3 DEF TypeOK, Item
<1>8. Steady' => Steady
    BY <1>1 DEF Steady
<1>9. DeployInv' /\ BufferInv' /\ FeedInv'
    BY <1>0, <1>1, <1>5, <1>8, DeployRests, BufferRests, FeedRests DEF redis
<1>a. CallInv'
  <2>1. \A i \in DOMAIN feed' : feed'[i].ack # NoConn => conn[feed'[i].ack].pc = "await"
      BY <1>0, <1>5 DEF CallInv
  <2>2. \A i, j \in DOMAIN feed' :
           i # j /\ feed'[i].ack = feed'[j].ack => feed'[i].ack = NoConn
      BY <1>0, <1>5, <1>6 DEF CallInv
  <2>3. \A i \in DOMAIN commands, j \in DOMAIN feed' :
           commands[i] = feed'[j].ack => commands[i] = NoConn
      BY <1>0, <1>5 DEF CallInv
  <2> QED BY <1>0, <1>1, <2>1, <2>2, <2>3 DEF CallInv
<1>b. HubInv'
    BY <1>0, <1>1 DEF HubInv
<1>c. AloneInv' /\ HeardInv'
    BY <1>1 DEF AloneInv, HeardInv
<1>d. ConnInv' /\ FrameInv' /\ BrowserInv'
    BY <1>1, ViewersRest DEF IInv
<1> QED BY <1>7, <1>9, <1>a, <1>b, <1>c, <1>d DEF IInv

-----------------------------------------------------------------------------
(* The hub *)

\* Who gives a channel up leaves nobody behind in it.
LEMMA CancelKeepsHub ==
    ASSUME TypeOK, HubInv, NEW next \in [Conns -> Conn], NEW leaving, Cancel(next, leaving),
           subscribed' = subscribed,
           \A h \in Conns : next[h].pc = "await" <=> conn[h].pc = "await",
           \A h \in Conns : next[h].pc = "await" => next[h].mine = conn[h].mine /\ ~next[h].finished,
           \A h \in listeners \ leaving :
             /\ next[h].pc \in {"backlog", "replay", "live"} /\ ~next[h].finished
             /\ next[h].pc = "live" => ~next[h].closed
    PROVE  HubInv'
<1>0. listening \in BOOLEAN /\ listeners \subseteq Conns /\ commands \in Seq(Conns \cup {NoConn})
    BY DEF TypeOK
<1>1. /\ listeners' = listeners \ leaving
      /\ \A h \in Conns :
           \/ conn'[h] = next[h]
           \/ next[h].pc = "await" /\ conn'[h] = [next[h] EXCEPT !.mine = FALSE]
      /\ \/ /\ listening' = listening /\ commands' = commands /\ conn' = next
            /\ leaving = {} \/ ~listening \/ listeners' # {}
         \/ /\ listening /\ leaving # {} /\ listeners' = {}
            /\ listening' = FALSE /\ commands' = Append(commands, NoConn)
            /\ \A h \in Conns : next[h].pc = "await" => ~conn'[h].mine
    BY <1>0, CancelIs
<1>2. \A h \in Conns : /\ conn'[h].pc = next[h].pc /\ conn'[h].finished = next[h].finished
                       /\ conn'[h].closed = next[h].closed
    BY <1>0, CancelFields
<1>3. \A h \in listeners' :
         /\ conn'[h].pc \in {"backlog", "replay", "live"}
         /\ ~conn'[h].finished
         /\ conn'[h].pc = "live" => ~conn'[h].closed
    BY <1>0, <1>1, <1>2
<1>4. \A h \in Conns : conn'[h].pc = "await" => ~conn'[h].finished
    BY <1>2
<1>5. CASE /\ listening' = listening /\ commands' = commands /\ conn' = next
           /\ leaving = {} \/ ~listening \/ listeners' # {}
  <2>1. listening' <=> listeners' # {} \/ \E h \in Conns : conn'[h].pc = "await" /\ conn'[h].mine
    <3>1. listening <=> listeners # {} \/ \E h \in Conns : conn[h].pc = "await" /\ conn[h].mine
        BY DEF HubInv
    <3>2. \A h \in Conns : conn'[h].pc = "await" /\ conn'[h].mine <=> conn[h].pc = "await" /\ conn[h].mine
        BY <1>5
    <3>3. leaving = {} => listeners' = listeners
        BY <1>1
    <3>4. listeners' # {} => listeners # {}
        BY <1>1
    <3> QED BY <1>5, <3>1, <3>2, <3>3, <3>4
  <2>2. IF commands' = <<>> THEN subscribed' <=> listening'
        ELSE commands'[Len(commands')] # NoConn <=> listening'
      BY <1>5 DEF HubInv
  <2> QED BY <1>3, <1>4, <2>1, <2>2 DEF HubInv
<1>6. CASE /\ listening /\ leaving # {} /\ listeners' = {}
           /\ listening' = FALSE /\ commands' = Append(commands, NoConn)
           /\ \A h \in Conns : next[h].pc = "await" => ~conn'[h].mine
  <2>1. ~(\E h \in Conns : conn'[h].pc = "await" /\ conn'[h].mine)
      BY <1>2, <1>6
  <2>2. commands' # <<>> /\ commands'[Len(commands')] = NoConn
      BY <1>0, <1>6, AppendIs
  <2> QED BY <1>3, <1>4, <1>6, <2>1, <2>2 DEF HubInv
<1> QED BY <1>1, <1>5, <1>6

\* Nor does it leave somebody who awaits it without his set.
LEMMA CancelKeepsAlone ==
    ASSUME TypeOK, AloneInv, NEW next \in [Conns -> Conn], NEW leaving, Cancel(next, leaving),
           marred' = marred,
           \A h \in Conns : next[h].pc = "await" <=> conn[h].pc = "await",
           \A h \in Conns : next[h].pc = "await" => next[h].mine = conn[h].mine,
           marred = {} => leaving \subseteq listeners,
           marred = {} => \A h \in Conns :
             /\ ~next[h].finished
             /\ next[h].pc \in {"backlog", "replay"} \/ (next[h].pc = "live" /\ ~next[h].closed)
             => h \in listeners /\ h \notin leaving
    PROVE  AloneInv'
<1> SUFFICES ASSUME marred = {} PROVE AloneInv'
    BY DEF AloneInv
<1>0. listening \in BOOLEAN
    BY DEF TypeOK
<1>1. /\ listeners' = listeners \ leaving
      /\ \A h \in Conns :
           \/ conn'[h] = next[h]
           \/ next[h].pc = "await" /\ conn'[h] = [next[h] EXCEPT !.mine = FALSE]
      /\ conn' = next \/ leaving # {}
    BY <1>0, CancelIs
<1>2. \A h \in Conns : /\ conn'[h].pc = next[h].pc /\ conn'[h].finished = next[h].finished
                       /\ conn'[h].closed = next[h].closed
    BY <1>0, CancelFields
<1>3. ASSUME NEW h \in Conns, conn'[h].pc = "await"
      PROVE  /\ conn'[h].mine /\ listeners' = {}
             /\ \A i \in Conns : conn'[i].pc = "await" => i = h
  <2>1. conn[h].pc = "await"
      BY <1>2, <1>3
  <2>2. conn[h].mine /\ listeners = {} /\ \A i \in Conns : conn[i].pc = "await" => i = h
      BY <2>1 DEF AloneInv
  <2>3. leaving = {} /\ listeners' = {}
      BY <1>1, <2>2
  <2>4. conn'[h].mine
      BY <1>1, <1>3, <2>2, <2>3
  <2> QED BY <1>2, <2>2, <2>3, <2>4
<1>4. ASSUME NEW h \in Conns, ~conn'[h].finished,
             conn'[h].pc \in {"backlog", "replay"} \/ (conn'[h].pc = "live" /\ ~conn'[h].closed)
      PROVE  h \in listeners'
    BY <1>1, <1>2, <1>4
<1> QED BY <1>3, <1>4 DEF AloneInv

\* What was asked for and answered is awaited, until the answer is read.
LEMMA CallsRest ==
    ASSUME TypeOK, CallInv,
           commands' = commands \/ commands' = Append(commands, NoConn),
           feed' = feed \/ (feed # <<>> /\ feed' = Tail(feed)),
           \A h \in Conns : conn[h].pc = "await" =>
              \/ conn'[h].pc = "await"
              \/ feed # <<>> /\ feed' = Tail(feed) /\ h = Head(feed).ack
    PROVE  CallInv'
<1>1. commands \in Seq(Conns \cup {NoConn}) /\ feed \in Seq(Item)
    BY DEF TypeOK, Item
<1>2. ASSUME NEW i \in DOMAIN commands'
      PROVE  (i \in DOMAIN commands /\ commands'[i] = commands[i]) \/ commands'[i] = NoConn
  <2>1. CASE commands' = commands
      BY <2>1
  <2>2. CASE commands' = Append(commands, NoConn)
    <3>1. /\ DOMAIN commands' = 1..(Len(commands) + 1) /\ DOMAIN commands = 1..Len(commands)
          /\ Len(commands) \in Nat
          /\ \A j \in 1..Len(commands) : commands'[j] = commands[j]
          /\ commands'[Len(commands) + 1] = NoConn
        BY <1>1, <2>2, AppendIs
    <3>2. i \in 1..Len(commands) \/ i = Len(commands) + 1
        BY <3>1
    <3> QED BY <3>1, <3>2
  <2> QED BY <2>1, <2>2
<1>3. PICK d \in {0, 1} : /\ d = IF feed' = feed THEN 0 ELSE 1
                          /\ feed' # feed => feed # <<>> /\ feed' = Tail(feed)
    OBVIOUS
<1>4. ASSUME NEW i \in DOMAIN feed'
      PROVE  /\ i + d \in DOMAIN feed /\ feed'[i] = feed[i + d] /\ i \in Int
             /\ d = 1 => 1 \in DOMAIN feed /\ Head(feed) = feed[1] /\ i + d # 1
  <2>1. CASE feed' = feed
    <3>1. d = 0
        BY <1>3, <2>1
    <3>2. DOMAIN feed = 1..Len(feed) /\ Len(feed) \in Nat /\ i \in DOMAIN feed
        BY <1>1, <2>1
    <3>3. i \in Int /\ i + 0 = i
      <4>1. i \in Int
          BY <3>2
      <4> QED BY <4>1
    <3> QED BY <2>1, <3>1, <3>3
  <2>2. CASE feed' # feed
    <3>1. d = 1 /\ feed # <<>> /\ feed' = Tail(feed)
        BY <1>3, <2>2
    <3>2. /\ DOMAIN feed = 1..Len(feed) /\ DOMAIN Tail(feed) = 1..(Len(feed) - 1)
          /\ Len(feed) \in Nat \ {0} /\ Head(feed) = feed[1]
          /\ \A j \in 1..(Len(feed) - 1) : Tail(feed)[j] = feed[j + 1] /\ j + 1 \in DOMAIN feed /\ j + 1 # 1
        BY <1>1, <3>1, TailIs
    <3>3. i \in 1..(Len(feed) - 1)
        BY <3>1, <3>2
    <3>4. i \in Int /\ 1 \in DOMAIN feed
        BY <3>2, <3>3
    <3>5. feed'[i] = feed[i + 1] /\ i + 1 \in DOMAIN feed /\ i + 1 # 1
        BY <3>1, <3>2, <3>3
    <3> QED BY <3>1, <3>2, <3>4, <3>5
  <2> QED BY <2>1, <2>2
<1>5. ASSUME NEW i \in DOMAIN commands', commands'[i] # NoConn
      PROVE  conn'[commands'[i]].pc = "await"
  <2>1. i \in DOMAIN commands /\ commands'[i] = commands[i] /\ commands[i] \in Conns
      BY <1>1, <1>2, <1>5
  <2>2. conn[commands[i]].pc = "await"
      BY <1>5, <2>1 DEF CallInv
  <2>3. ~(feed # <<>> /\ commands[i] = Head(feed).ack)
    <3> SUFFICES ASSUME feed # <<>>, commands[i] = Head(feed).ack PROVE FALSE
        OBVIOUS
    <3>1. 1 \in DOMAIN feed /\ Head(feed) = feed[1]
      <4>1. Len(feed) \in Nat \ {0} /\ DOMAIN feed = 1..Len(feed) /\ Head(feed) = feed[1]
          BY <1>1, TailIs
      <4> QED BY <4>1
    <3> QED BY <1>5, <2>1, <3>1 DEF CallInv
  <2> QED BY <2>1, <2>2, <2>3
<1>6. ASSUME NEW i \in DOMAIN feed', feed'[i].ack # NoConn
      PROVE  conn'[feed'[i].ack].pc = "await"
  <2>1. i + d \in DOMAIN feed /\ feed'[i] = feed[i + d]
      BY <1>4
  <2>2. conn[feed[i + d].ack].pc = "await"
      BY <1>6, <2>1 DEF CallInv
  <2>3. feed[i + d].ack \in Conns
    <3>1. feed[i + d] \in Item
        BY <1>1, <2>1, ElementIs
    <3> QED BY <1>6, <2>1, <3>1 DEF Item
  <2>4. ~(d = 1 /\ feed[i + d].ack = Head(feed).ack)
      BY <1>4, <1>6, <2>1 DEF CallInv
  <2>5. feed # <<>> /\ feed' = Tail(feed) => d = 1
    <3> SUFFICES ASSUME feed # <<>>, feed' = Tail(feed) PROVE feed' # feed
        BY <1>3
    <3>1. Len(Tail(feed)) = Len(feed) - 1 /\ Len(feed) \in Nat
        BY <1>1, TailIs
    <3>2. Len(Tail(feed)) # Len(feed)
      <4>1. \A n \in Nat : n - 1 # n
          OBVIOUS
      <4> QED BY <3>1, <4>1, Zenon
    <3> QED BY <3>2
  <2> QED BY <2>1, <2>2, <2>3, <2>4, <2>5
<1>7. \A i, j \in DOMAIN commands' :
         i # j /\ commands'[i] = commands'[j] => commands'[i] = NoConn
    BY <1>2 DEF CallInv
<1>8. \A i, j \in DOMAIN feed' :
         i # j /\ feed'[i].ack = feed'[j].ack => feed'[i].ack = NoConn
  <2> SUFFICES ASSUME NEW i \in DOMAIN feed', NEW j \in DOMAIN feed', i # j,
                      feed'[i].ack = feed'[j].ack
               PROVE  feed'[i].ack = NoConn
      OBVIOUS
  <2>1. i + d # j + d
      BY <1>4
  <2> QED BY <1>4, <2>1 DEF CallInv
<1>9. \A i \in DOMAIN commands', j \in DOMAIN feed' :
         commands'[i] = feed'[j].ack => commands'[i] = NoConn
    BY <1>2, <1>4 DEF CallInv
<1> QED BY <1>5, <1>6, <1>7, <1>8, <1>9 DEF CallInv

\* The hub goes on hearing every number.
LEMMA StillInStep ==
    ASSUME TypeOK, InStep, listening' => listening, commands' = <<>> => commands = <<>>,
           seq' = seq, feed' = feed \/ (feed # <<>> /\ feed' = Tail(feed))
    PROVE  InStep'
<1>1. feed \in Seq(Item) /\ seq \in Nat
    BY DEF TypeOK, Item
<1>2. CASE feed' = feed
    BY <1>2 DEF InStep
<1>3. CASE feed # <<>> /\ feed' = Tail(feed)
  <2> DEFINE k == Len(feed)
  <2>1. /\ DOMAIN feed = 1..k /\ DOMAIN feed' = 1..(k - 1) /\ Len(feed') = k - 1
        /\ k \in Nat \ {0}
        /\ \A j \in 1..(k - 1) : feed'[j] = feed[j + 1] /\ j + 1 \in DOMAIN feed
      BY <1>1, <1>3, TailIs
  <2> SUFFICES ASSUME listening, commands = <<>>, NEW i \in DOMAIN feed',
                      \A j \in i..Len(feed') : feed'[j].ack = NoConn
               PROVE  feed'[i].entry.seq = seq' - (Len(feed') - i)
      BY DEF InStep
  <2>2. i \in Int /\ feed'[i] = feed[i + 1] /\ i + 1 \in DOMAIN feed
      BY <2>1
  <2>3. \A j \in (i + 1)..Len(feed) : feed[j].ack = NoConn
    <3> SUFFICES ASSUME NEW j \in (i + 1)..Len(feed) PROVE feed[j].ack = NoConn
        OBVIOUS
    <3>1. j - 1 \in i..Len(feed') /\ j - 1 \in 1..(k - 1) /\ (j - 1) + 1 = j
        BY <2>1, <2>2
    <3> QED BY <2>1, <3>1
  <2>4. feed[i + 1].entry.seq = seq - (k - (i + 1))
      BY <2>2, <2>3 DEF InStep
  <2>5. seq - (k - (i + 1)) = seq' - (Len(feed') - i)
    <3>1. k \in Nat /\ Len(feed') = k - 1
        BY <2>1
    <3> HIDE DEF k
    <3> QED BY <1>1, <2>2, <3>1
  <2> QED BY <2>2, <2>4, <2>5
<1> QED BY <1>2, <1>3

-----------------------------------------------------------------------------
(* The handlers *)

\* Who hears the next number has heard or read all up to it.
LEMMA FollowsDelivered ==
    ASSUME NEW c \in Conn, c.pc = "live", c.pending = <<>>, NEW e \in Entry,
           NEW heard \in Int, Follows(c, heard), e.seq = heard + 1
    PROVE  Follows(Deliver(c, e), heard + 1)
<1> DEFINE r == Deliver(c, e)
<1>1. r.pc = c.pc /\ r.pending = c.pending
    BY Delivered
<1>2. r.delivered >= e.seq
    BY DeliverAdvances
<1> HIDE DEF r
<1>3. Follows(r, heard + 1)
    BY <1>1, <1>2 DEF Follows
<1> QED BY <1>3 DEF r

\* A handler that keeps what the hub heard has heard as much as the hub.
LEMMA FollowsPending ==
    ASSUME NEW c \in Conn, c.pc # "live", NEW e \in Entry,
           NEW heard \in Int, Follows(c, heard), e.seq = heard + 1
    PROVE  Follows([c EXCEPT !.pending = Append(@, e)], heard + 1)
<1> DEFINE p == Append(c.pending, e)
           r == [c EXCEPT !.pending = p]
           l == Len(c.pending)
<1>1. /\ p \in Seq(Entry) /\ Len(p) = l + 1 /\ l \in Nat
      /\ DOMAIN p = 1..(l + 1) /\ DOMAIN c.pending = 1..l
      /\ \A i \in 1..l : p[i] = c.pending[i]
      /\ p[l + 1] = e
  <2>1. c.pending \in Seq(Entry)
      BY DEF Conn
  <2> QED BY <2>1, AppendIs
<1>2. r.pending = p /\ r.pc = c.pc /\ r.plan = c.plan
    BY DEF Conn
<1> HIDE DEF p, r
<1>3. \A i \in DOMAIN p : p[i].seq = (heard + 1) - (Len(p) - i)
  <2> SUFFICES ASSUME NEW i \in 1..(l + 1) PROVE p[i].seq = (heard + 1) - (Len(p) - i)
      BY <1>1
  <2>1. CASE i = l + 1
      BY <1>1, <2>1
  <2>2. CASE i \in 1..l
    <3>1. p[i].seq = heard - (l - i)
        BY <1>1, <2>2 DEF Follows
    <3>2. Len(p) = l + 1 /\ l \in Nat /\ i \in Int
        BY <1>1, <2>2
    <3> HIDE DEF l
    <3> QED BY <3>1, <3>2
  <2> QED BY <1>1, <2>1, <2>2
<1>4. (heard + 1) - Len(p) = heard - l
  <2>1. Len(p) = l + 1 /\ l \in Nat
      BY <1>1
  <2> HIDE DEF l
  <2> QED BY <2>1
<1>5. Follows(r, heard + 1)
    BY <1>2, <1>3, <1>4 DEF Follows
<1> QED BY <1>5 DEF r, p

\* Who starts to listen has heard nothing yet.
LEMMA FollowsFirst ==
    ASSUME NEW c \in Conn, c.pending = <<>>, c.pc = "backlog", NEW heard
    PROVE  Follows(c, heard)
    BY DEF Follows

\* A message reaches the hub.
LEMMA HearKeeps ==
    ASSUME IInv, Grows, Hear
    PROVE  IInv'
<1>0. /\ TypeOK /\ DeployInv /\ BufferInv /\ FeedInv /\ ConnInv /\ FrameInv /\ HubInv /\ CallInv
      /\ AloneInv /\ HeardInv /\ BrowserInv
    BY DEF IInv
<1>e. PICK e : e = Head(feed).entry
    OBVIOUS
<1> DEFINE next == [h \in Conns |->
                      IF h \notin listeners THEN conn[h]
                      ELSE IF conn[h].pc = "live" THEN Deliver(conn[h], e)
                      ELSE [conn[h] EXCEPT !.pending = Append(@, e)]]
           leaving == {h \in listeners : next[h].pc = "live" /\ next[h].closed}
           heard == seq - Len(feed)
<1>1. /\ feed # <<>> /\ Head(feed).ack = NoConn /\ feed' = Tail(feed)
      /\ Cancel(next, leaving)
      /\ UNCHANGED <<worker, status, archive, written, wire, seq, buffer, subscribed, browser, marred>>
    BY <1>e DEF Hear, deploy, redis
<1>2. /\ feed \in Seq(Item) /\ listening \in BOOLEAN /\ listeners \subseteq Conns
      /\ conn \in [Conns -> Conn] /\ seq \in Nat
    BY <1>0 DEF TypeOK, Item
<1>3. /\ Tail(feed) \in Seq(Item) /\ Len(Tail(feed)) = Len(feed) - 1
      /\ Len(feed) \in Nat \ {0} /\ Head(feed) = feed[1]
      /\ DOMAIN feed = 1..Len(feed) /\ DOMAIN Tail(feed) = 1..(Len(feed) - 1)
      /\ \A i \in 1..(Len(feed) - 1) : Tail(feed)[i] = feed[i + 1] /\ i + 1 \in DOMAIN feed
    BY <1>1, <1>2, TailIs
<1>4. e \in Entry /\ Genuine(e.n, e.seq)
  <2>1. 1 \in DOMAIN feed
      BY <1>3
  <2> QED BY <1>0, <1>e, <1>1, <1>3, <2>1 DEF FeedInv
<1>5. ASSUME marred = {}, listeners # {} PROVE e.seq = heard + 1
  <2>1. listening /\ commands = <<>> /\ \A i \in DOMAIN feed : feed[i].ack = NoConn
      BY <1>5, SettledHub
  <2>2. 1 \in DOMAIN feed /\ \A j \in 1..Len(feed) : feed[j].ack = NoConn
      BY <1>3, <2>1
  <2>3. feed[1].entry.seq = seq - (Len(feed) - 1)
      BY <1>0, <1>5, <2>1, <2>2 DEF HeardInv, InStep
  <2> QED BY <1>2, <1>3, <1>e, <2>3
<1>6. ASSUME NEW h \in listeners
      PROVE  /\ h \in Conns /\ conn[h] \in Conn /\ Held(conn[h]) /\ Framed(conn[h].out)
             /\ conn[h].pc \in {"backlog", "replay", "live"} /\ ~conn[h].finished
             /\ conn[h].pc = "live" => ~conn[h].closed /\ conn[h].pending = <<>>
             /\ marred = {} => Follows(conn[h], heard)
  <2>1. h \in Conns /\ conn[h] \in Conn
      BY <1>2
  <2>2. Held(conn[h]) /\ Framed(conn[h].out)
      BY <1>0, <2>1 DEF ConnInv, FrameInv
  <2>3. conn[h].pc = "live" => conn[h].pending = <<>>
      BY <2>2 DEF Held
  <2> QED BY <1>0, <2>1, <2>2, <2>3 DEF HubInv, HeardInv
<1>7. ASSUME NEW h \in Conns
      PROVE  /\ next[h] \in Conn /\ Onward(conn[h], next[h])
             /\ next[h].pc = conn[h].pc /\ next[h].finished = conn[h].finished
             /\ next[h].mine = conn[h].mine
             /\ h \notin listeners => next[h] = conn[h]
  <2>1. CASE h \notin listeners
    <3>1. next[h] = conn[h]
        BY <2>1
    <3>2. conn[h] \in Conn /\ Held(conn[h]) /\ Framed(conn[h].out)
        BY <1>0, <1>2 DEF ConnInv, FrameInv
    <3>3. Onward(conn[h], conn[h])
        BY <3>2, OnwardSelf
    <3> QED BY <3>1, <3>2, <3>3
  <2>2. CASE h \in listeners /\ conn[h].pc = "live"
    <3>1. next[h] = Deliver(conn[h], e)
        BY <2>2
    <3>2. conn[h] \in Conn /\ Held(conn[h]) /\ Framed(conn[h].out)
        BY <1>6, <2>2
    <3>3. marred = {} => e.seq <= conn[h].delivered + 1
      <4> SUFFICES ASSUME marred = {} PROVE e.seq <= conn[h].delivered + 1
          OBVIOUS
      <4>1. heard <= conn[h].delivered
          BY <1>6, <2>2 DEF Follows
      <4>2. e.seq = heard + 1
          BY <1>5, <2>2
      <4>3. heard \in Int /\ conn[h].delivered \in Nat
          BY <1>2, <1>3, <3>2 DEF Conn
      <4> QED BY <4>1, <4>2, <4>3
    <3>4. Onward(conn[h], Deliver(conn[h], e))
        BY <1>4, <2>2, <3>2, <3>3, OnwardDeliver
    <3>5. /\ Deliver(conn[h], e) \in Conn
          /\ Deliver(conn[h], e).pc = conn[h].pc /\ Deliver(conn[h], e).finished = conn[h].finished
          /\ Deliver(conn[h], e).mine = conn[h].mine
        BY <1>4, <3>2, Delivered
    <3> QED BY <2>2, <3>1, <3>4, <3>5
  <2>3. CASE h \in listeners /\ conn[h].pc # "live"
    <3> DEFINE r == [conn[h] EXCEPT !.pending = Append(@, e)]
    <3>1. next[h] = r
        BY <2>3
    <3>2. conn[h] \in Conn /\ Held(conn[h]) /\ Framed(conn[h].out)
          /\ conn[h].pc \in {"backlog", "replay"} /\ ~conn[h].finished
        BY <1>6, <2>3
    <3>3. Onward(conn[h], r)
        BY <1>4, <3>2, OnwardPending
    <3>4. r.pc = conn[h].pc /\ r.finished = conn[h].finished /\ r.mine = conn[h].mine
        BY <3>2 DEF Conn
    <3>5. r \in Conn
        BY <3>3 DEF Onward
    <3> HIDE DEF r
    <3> QED BY <2>3, <3>1, <3>3, <3>4, <3>5
  <2> QED BY <2>1, <2>2, <2>3
<1>8. next \in [Conns -> Conn]
    BY <1>7
<1>9. \A h \in Conns : h \in leaving <=> h \in listeners /\ next[h].pc = "live" /\ next[h].closed
    OBVIOUS
<1>n. \A h \in listeners : next[h] = IF conn[h].pc = "live" THEN Deliver(conn[h], e)
                                     ELSE [conn[h] EXCEPT !.pending = Append(@, e)]
    BY <1>2
<1>l. leaving \subseteq listeners
    OBVIOUS
<1> HIDE DEF next, leaving
<1>a. /\ conn' \in [Conns -> Conn] /\ \A h \in Conns : Onward(conn[h], conn'[h])
    BY <1>1, <1>2, <1>7, <1>8, CancelOnward
<1>b. /\ \A h \in Conns : conn'[h].pc = conn[h].pc
      /\ \A h \in Conns : conn[h].pc # "await" => conn'[h] = next[h]
      /\ listeners' = listeners \ leaving
      /\ (listening' = listening /\ commands' = commands)
         \/ (listening' = FALSE /\ commands' = Append(commands, NoConn))
    BY <1>1, <1>2, <1>7, <1>8, CancelIs, CancelFields
<1>c. TypeOK'
  <2>1. commands' \in Seq(Conns \cup {NoConn})
    <3>1. commands \in Seq(Conns \cup {NoConn}) /\ NoConn \in Conns \cup {NoConn}
        BY <1>0 DEF TypeOK
    <3>2. Append(commands, NoConn) \in Seq(Conns \cup {NoConn})
        BY <3>1, AppendIs
    <3> QED BY <1>b, <3>1, <3>2
  <2>2. listening' \in BOOLEAN
      BY <1>2, <1>b
  <2>3. listeners' \subseteq Conns
      BY <1>2, <1>b
  <2> QED BY <1>0, <1>1, <1>3, <1>a, <2>1, <2>2, <2>3 DEF TypeOK, Item
<1>d. DeployInv' /\ BufferInv' /\ FeedInv'
  <2>1. \A i \in DOMAIN feed' : \E j \in DOMAIN feed : feed'[i] = feed[j]
      BY <1>1, <1>3
  <2>2. Steady' => Steady
      BY <1>1 DEF Steady
  <2> QED BY <1>0, <1>1, <2>1, <2>2, DeployRests, BufferRests, FeedRests DEF redis
<1>f. CallInv'
    BY <1>0, <1>1, <1>b, CallsRest
<1>g. HubInv'
  <2>1. \A h \in listeners \ leaving :
             /\ next[h].pc \in {"backlog", "replay", "live"} /\ ~next[h].finished
             /\ next[h].pc = "live" => ~next[h].closed
      BY <1>2, <1>6, <1>7, <1>9
  <2>2. \A h \in Conns : next[h].pc = "await" => next[h].mine = conn[h].mine /\ ~next[h].finished
      BY <1>0, <1>7 DEF HubInv
  <2>3. \A h \in Conns : next[h].pc = "await" <=> conn[h].pc = "await"
      BY <1>7
  <2> QED BY <1>0, <1>1, <1>8, <2>1, <2>2, <2>3, CancelKeepsHub
<1>h. AloneInv'
  <2>1. ASSUME marred = {}, NEW h \in Conns, ~next[h].finished,
               next[h].pc \in {"backlog", "replay"} \/ (next[h].pc = "live" /\ ~next[h].closed)
        PROVE  h \in listeners /\ h \notin leaving
    <3>1. h \notin leaving
        BY <1>9, <2>1
    <3>2. h \notin listeners => next[h] = conn[h]
        BY <1>7
    <3>3. h \in listeners
        BY <1>0, <2>1, <3>2 DEF AloneInv
    <3> QED BY <3>1, <3>3
  <2>2. \A h \in Conns : next[h].pc = "await" => next[h].mine = conn[h].mine
      BY <1>7
  <2>3. \A h \in Conns : next[h].pc = "await" <=> conn[h].pc = "await"
      BY <1>7
  <2> QED BY <1>0, <1>1, <1>8, <1>l, <2>1, <2>2, <2>3, CancelKeepsAlone
<1>i. HeardInv'
  <2> SUFFICES ASSUME marred = {} PROVE InStep' /\ \A h \in listeners' : Follows(conn'[h], seq' - Len(feed'))
      BY <1>1 DEF HeardInv
  <2>1. InStep'
    <3>1. commands' = <<>> => commands = <<>>
      <4>1. commands \in Seq(Conns \cup {NoConn}) /\ NoConn \in Conns \cup {NoConn}
          BY <1>0 DEF TypeOK
      <4>2. Append(commands, NoConn) # <<>>
          BY <4>1, AppendIs
      <4> QED BY <1>b, <4>2
    <3> QED BY <1>0, <1>1, <1>b, <3>1, StillInStep DEF HeardInv
  <2>2. ASSUME NEW h \in listeners' PROVE Follows(conn'[h], seq' - Len(feed'))
    <3>1. h \in listeners /\ e.seq = heard + 1 /\ heard \in Int
        BY <1>2, <1>3, <1>5, <1>b
    <3>2. conn'[h] = next[h]
        BY <1>6, <1>b, <3>1
    <3>3. seq' - Len(feed') = heard + 1
        BY <1>1, <1>2, <1>3
    <3>4. conn[h] \in Conn /\ Follows(conn[h], heard) /\ (conn[h].pc = "live" => conn[h].pending = <<>>)
        BY <1>6, <3>1
    <3> HIDE DEF heard
    <3>5. CASE conn[h].pc = "live"
      <4>1. next[h] = Deliver(conn[h], e)
          BY <1>n, <3>1, <3>5
      <4> QED BY <1>4, <3>1, <3>2, <3>3, <3>4, <3>5, <4>1, FollowsDelivered
    <3>6. CASE conn[h].pc # "live"
      <4>1. next[h] = [conn[h] EXCEPT !.pending = Append(@, e)]
          BY <1>n, <3>1, <3>6
      <4>2. ASSUME NEW c \in Conn, c.pc # "live", Follows(c, heard)
            PROVE  Follows([c EXCEPT !.pending = Append(@, e)], heard + 1)
          BY <1>4, <3>1, <4>2, FollowsPending
      <4>3. Follows([conn[h] EXCEPT !.pending = Append(@, e)], heard + 1)
          BY <3>4, <3>6, <4>2
      <4> QED BY <3>2, <3>3, <4>1, <4>3
    <3> QED BY <3>5, <3>6
  <2> QED BY <2>1, <2>2
<1>j. ConnInv' /\ FrameInv' /\ BrowserInv'
    BY <1>0, <1>1, <1>a, AllOnward
<1> QED BY <1>c, <1>d, <1>f, <1>g, <1>h, <1>i, <1>j DEF IInv

-----------------------------------------------------------------------------
(* One handler *)

\* Where only the handler h goes on, to r.
LEMMA OneOnward ==
    ASSUME TypeOK, ConnInv, FrameInv, BrowserInv, Grows, browser' = browser,
           NEW h \in Conns, NEW r, Onward(conn[h], r), conn' = [conn EXCEPT ![h] = r]
    PROVE  conn' \in [Conns -> Conn] /\ ConnInv' /\ FrameInv' /\ BrowserInv'
<1>1. conn \in [Conns -> Conn] /\ r \in Conn
    BY DEF TypeOK, Onward
<1>2. \A i \in Conns : Onward(conn[i], conn'[i])
  <2> SUFFICES ASSUME NEW i \in Conns PROVE Onward(conn[i], conn'[i])
      OBVIOUS
  <2>1. CASE i = h
      BY <1>1, <2>1
  <2>2. CASE i # h
    <3>1. conn'[i] = conn[i] /\ conn[i] \in Conn
        BY <1>1, <2>2
    <3>2. Held(conn[i]) /\ Framed(conn[i].out)
        BY DEF ConnInv, FrameInv
    <3> QED BY <3>1, <3>2, OnwardSelf
  <2> QED BY <2>1, <2>2
<1> QED BY <1>1, <1>2, AllOnward

\* The hub does not notice a handler that neither asks nor waits for it.
LEMMA OneAside ==
    ASSUME TypeOK, CallInv, HubInv, AloneInv, HeardInv,
           UNCHANGED <<hub, commands, subscribed, feed, seq, marred>>,
           NEW h \in Conns, NEW r, conn' = [conn EXCEPT ![h] = r],
           conn[h].pc # "await", r.pc # "await",
           h \in listeners =>
             /\ r.pc \in {"backlog", "replay", "live"} /\ ~r.finished
             /\ r.pc = "live" => ~r.closed,
           ~r.finished /\ (r.pc \in {"backlog", "replay"} \/ (r.pc = "live" /\ ~r.closed)) =>
             /\ ~conn[h].finished
             /\ conn[h].pc \in {"backlog", "replay"} \/ (conn[h].pc = "live" /\ ~conn[h].closed),
           marred = {} /\ h \in listeners => Follows(r, seq - Len(feed))
    PROVE  CallInv' /\ HubInv' /\ AloneInv' /\ HeardInv'
<1>0. /\ conn \in [Conns -> Conn] /\ listeners \subseteq Conns
      /\ listeners' = listeners /\ listening' = listening
    BY DEF TypeOK, hub
<1>1. conn'[h] = r /\ \A i \in Conns : i # h => conn'[i] = conn[i]
    BY <1>0
<1>2. \A i \in Conns : /\ conn[i].pc = "await" <=> conn'[i].pc = "await"
                       /\ conn[i].pc = "await" => conn'[i] = conn[i]
    BY <1>1
<1>3. CallInv'
    BY <1>2, CallsRest
<1>4. HubInv'
  <2>1. \A i \in listeners : /\ conn'[i].pc \in {"backlog", "replay", "live"}
                             /\ ~conn'[i].finished
                             /\ conn'[i].pc = "live" => ~conn'[i].closed
      BY <1>0, <1>1 DEF HubInv
  <2>2. (\E i \in Conns : conn[i].pc = "await" /\ conn[i].mine)
          <=> \E i \in Conns : conn'[i].pc = "await" /\ conn'[i].mine
      BY <1>2
  <2>3. \A i \in Conns : conn'[i].pc = "await" => ~conn'[i].finished
      BY <1>2 DEF HubInv
  <2> QED BY <1>0, <2>1, <2>2, <2>3 DEF HubInv
<1>5. AloneInv'
  <2> SUFFICES ASSUME marred = {} PROVE AloneInv'
      BY DEF AloneInv
  <2>1. ASSUME NEW i \in Conns, conn'[i].pc = "await"
        PROVE  /\ conn'[i].mine /\ listeners' = {}
               /\ \A j \in Conns : conn'[j].pc = "await" => j = i
      BY <1>0, <1>2, <2>1 DEF AloneInv
  <2>2. ASSUME NEW i \in Conns, ~conn'[i].finished,
               conn'[i].pc \in {"backlog", "replay"} \/ (conn'[i].pc = "live" /\ ~conn'[i].closed)
        PROVE  i \in listeners'
      BY <1>0, <1>1, <2>2 DEF AloneInv
  <2> QED BY <2>1, <2>2 DEF AloneInv
<1>6. HeardInv'
  <2> SUFFICES ASSUME marred = {} PROVE HeardInv'
      BY DEF HeardInv
  <2>1. InStep'
      BY <1>0 DEF HeardInv, InStep
  <2>2. \A i \in listeners : Follows(conn'[i], seq - Len(feed))
      BY <1>0, <1>1 DEF HeardInv
  <2> QED BY <1>0, <2>1, <2>2 DEF HeardInv
<1> QED BY <1>3, <1>4, <1>5, <1>6

\* What a handler does changes nothing of the log.
LEMMA LogRests ==
    ASSUME TypeOK, DeployInv, BufferInv, FeedInv, Grows,
           UNCHANGED <<deploy, wire, redis>>, feed' = feed \/ (feed # <<>> /\ feed' = Tail(feed))
    PROVE  DeployInv' /\ BufferInv' /\ FeedInv'
<1>1. \A i \in DOMAIN feed' : \E j \in DOMAIN feed : feed'[i] = feed[j]
  <2>1. feed \in Seq(Item)
      BY DEF TypeOK, Item
  <2>2. CASE feed' = feed
      BY <2>2
  <2>3. CASE feed # <<>> /\ feed' = Tail(feed)
      BY <2>1, <2>3, TailIs
  <2> QED BY <2>2, <2>3
<1>2. Steady' => Steady
    BY GenuineStays
<1> QED BY <1>1, <1>2, DeployRests, BufferRests, FeedRests DEF redis, deploy

\* The answer to a SUBSCRIBE reaches the hub.
LEMMA HearAckKeeps ==
    ASSUME IInv, Grows, HearAck
    PROVE  IInv'
<1>0. /\ TypeOK /\ DeployInv /\ BufferInv /\ FeedInv /\ ConnInv /\ FrameInv /\ HubInv /\ CallInv
      /\ AloneInv /\ HeardInv /\ BrowserInv
    BY DEF IInv
<1>1. /\ feed \in Seq(Item) /\ listening \in BOOLEAN /\ listeners \subseteq Conns
      /\ conn \in [Conns -> Conn]
    BY <1>0 DEF TypeOK, Item
<1>2. feed # <<>> /\ Head(feed).ack # NoConn /\ feed' = Tail(feed)
    BY DEF HearAck
<1>3. 1 \in DOMAIN feed /\ Head(feed) = feed[1] /\ Head(feed) \in Item /\ Tail(feed) \in Seq(Item)
  <2>1. /\ Len(feed) \in Nat \ {0} /\ DOMAIN feed = 1..Len(feed) /\ Head(feed) = feed[1]
        /\ Head(feed) \in Item /\ Tail(feed) \in Seq(Item)
      BY <1>1, <1>2, TailIs
  <2> QED BY <2>1
<1>h. PICK h \in Conns : h = Head(feed).ack
    BY <1>2, <1>3 DEF Item
<1> DEFINE r == [conn[h] EXCEPT !.pc = "backlog"]
<1>4. /\ listeners' = IF conn[h].mine THEN listeners \cup {h} ELSE listeners
      /\ conn' = [conn EXCEPT ![h] = r]
      /\ UNCHANGED <<deploy, wire, redis, subscribed, commands, listening, browser, marred>>
    BY <1>h DEF HearAck
<1>5. conn[h].pc = "await" /\ ~conn[h].finished /\ conn[h] \in Conn
    BY <1>0, <1>1, <1>2, <1>3, <1>h DEF CallInv, HubInv
<1>6. Held(conn[h]) /\ Framed(conn[h].out)
    BY <1>0 DEF ConnInv, FrameInv
<1>7. r.pc = "backlog" /\ r.finished = conn[h].finished /\ r.pending = conn[h].pending
    BY <1>5 DEF Conn
<1>8. Onward(conn[h], r)
    BY <1>5, <1>6, OnwardAck
<1> HIDE DEF r
<1>9. conn' \in [Conns -> Conn] /\ ConnInv' /\ FrameInv' /\ BrowserInv'
    BY <1>0, <1>4, <1>8, OneOnward
<1>a. conn'[h] = r /\ \A i \in Conns : i # h => conn'[i] = conn[i]
    BY <1>1, <1>4
<1>b. TypeOK'
  <2>1. listeners' \subseteq Conns
      BY <1>1, <1>4
  <2> QED BY <1>0, <1>2, <1>3, <1>4, <1>9, <2>1 DEF TypeOK, Item, deploy, redis
<1>c. DeployInv' /\ BufferInv' /\ FeedInv'
    BY <1>0, <1>2, <1>4, LogRests
<1>d. CallInv'
    BY <1>0, <1>2, <1>4, <1>a, <1>h, CallsRest
<1>e. HubInv'
  <2>1. \A i \in listeners' : /\ conn'[i].pc \in {"backlog", "replay", "live"}
                              /\ ~conn'[i].finished
                              /\ conn'[i].pc = "live" => ~conn'[i].closed
      BY <1>0, <1>1, <1>4, <1>5, <1>7, <1>a DEF HubInv
  <2>2. \A i \in Conns : conn'[i].pc = "await" => conn'[i] = conn[i]
      BY <1>7, <1>a
  <2>3. listening <=> listeners' # {} \/ \E i \in Conns : conn'[i].pc = "await" /\ conn'[i].mine
    <3>1. listening <=> listeners # {} \/ \E i \in Conns : conn[i].pc = "await" /\ conn[i].mine
        BY <1>0 DEF HubInv
    <3>2. CASE conn[h].mine
        BY <1>4, <1>5, <3>1, <3>2
    <3>3. CASE ~conn[h].mine
        BY <1>4, <1>5, <1>7, <1>a, <3>1, <3>3
    <3> QED BY <3>2, <3>3
  <2> QED BY <1>0, <1>4, <2>1, <2>2, <2>3 DEF HubInv
<1>f. ASSUME marred = {} PROVE listeners' = {h} /\ \A i \in Conns : conn'[i].pc # "await"
  <2>1. conn[h].mine /\ listeners = {} /\ \A i \in Conns : conn[i].pc = "await" => i = h
      BY <1>0, <1>5, <1>f DEF AloneInv
  <2> QED BY <1>4, <1>7, <1>a, <2>1
<1>g. AloneInv'
  <2> SUFFICES ASSUME marred = {} PROVE AloneInv'
      BY <1>4 DEF AloneInv
  <2>1. ASSUME NEW i \in Conns, ~conn'[i].finished,
               conn'[i].pc \in {"backlog", "replay"} \/ (conn'[i].pc = "live" /\ ~conn'[i].closed)
        PROVE  i \in listeners'
    <3>1. i # h => i \in listeners
        BY <1>0, <1>a, <2>1 DEF AloneInv
    <3> QED BY <1>4, <1>f, <3>1
  <2> QED BY <1>f, <2>1 DEF AloneInv
<1>i. HeardInv'
  <2> SUFFICES ASSUME marred = {} PROVE InStep' /\ \A i \in listeners' : Follows(conn'[i], seq' - Len(feed'))
      BY <1>4 DEF HeardInv
  <2>1. InStep'
      BY <1>0, <1>2, <1>4, StillInStep DEF HeardInv, redis
  <2>2. r \in Conn /\ r.pending = <<>>
      BY <1>5, <1>6, <1>7, <1>8 DEF Held, Onward
  <2>3. Follows(r, seq' - Len(feed'))
      BY <1>7, <2>2, FollowsFirst
  <2> QED BY <1>a, <1>f, <2>1, <2>3
<1> QED BY <1>9, <1>b, <1>c, <1>d, <1>e, <1>g, <1>i DEF IInv

\* The backlog is read.
LEMMA BacklogKeeps ==
    ASSUME IInv, Grows, NEW h \in Conns, Backlog(h)
    PROVE  IInv'
<1>0. /\ TypeOK /\ DeployInv /\ BufferInv /\ FeedInv /\ ConnInv /\ FrameInv /\ HubInv /\ CallInv
      /\ AloneInv /\ HeardInv /\ BrowserInv
    BY DEF IInv
<1> DEFINE r == [conn[h] EXCEPT !.pc = "replay", !.plan = buffer]
<1>1. /\ conn[h].pc = "backlog" /\ conn' = [conn EXCEPT ![h] = r]
      /\ UNCHANGED <<deploy, wire, redis, subscribed, commands, feed, hub, browser, marred>>
    BY DEF Backlog
<1>2. conn[h] \in Conn /\ Held(conn[h]) /\ Framed(conn[h].out)
    BY <1>0 DEF TypeOK, ConnInv, FrameInv
<1>3. /\ r.pc = "replay" /\ r.finished = conn[h].finished /\ r.pending = conn[h].pending
      /\ r.plan = buffer
    BY <1>2 DEF Conn
<1>4. Onward(conn[h], r)
    BY <1>0, <1>1, <1>2, OnwardBacklog
<1> HIDE DEF r
<1>5. conn' \in [Conns -> Conn] /\ ConnInv' /\ FrameInv' /\ BrowserInv'
    BY <1>0, <1>1, <1>4, OneOnward
<1>6. ASSUME marred = {}, h \in listeners PROVE Follows(r, seq - Len(feed))
  <2>1. Follows(conn[h], seq - Len(feed))
      BY <1>0, <1>6 DEF HeardInv
  <2>2. /\ Len(buffer) \in Nat /\ seq \in Nat /\ Len(feed) \in Nat /\ Len(r.pending) \in Nat
        /\ Capacity \in Nat \ {0} /\ DOMAIN buffer = 1..Len(buffer) /\ (Len(buffer) = 0 <=> buffer = <<>>)
    <3>1. buffer \in Seq(Entry) /\ seq \in Nat /\ feed \in Seq(Item) /\ r.pending \in Seq(Entry)
        BY <1>0, <1>2, <1>3 DEF TypeOK, Item, Conn
    <3> QED BY <3>1, LogAssumption
  <2>3. buffer # <<>> => buffer[Len(buffer)].seq = seq
    <3> SUFFICES ASSUME buffer # <<>> PROVE buffer[Len(buffer)].seq = seq
        OBVIOUS
    <3>1. Len(buffer) \in DOMAIN buffer
        BY <2>2
    <3>2. buffer[Len(buffer)].seq = seq - Len(buffer) + Len(buffer)
        BY <1>0, <3>1 DEF BufferInv
    <3> QED BY <2>2, <3>2
  <2>4. buffer = <<>> => seq = 0
      BY <1>0, <2>2 DEF BufferInv
  <2>5. (seq - Len(feed)) - Len(r.pending) <= seq
      BY <2>2
  <2> QED BY <1>3, <2>1, <2>3, <2>4, <2>5 DEF Follows
<1>7. CallInv' /\ HubInv' /\ AloneInv' /\ HeardInv'
  <2>1. h \in listeners => ~conn[h].finished
      BY <1>0 DEF HubInv
  <2>2. UNCHANGED <<hub, commands, subscribed, feed, seq, marred>>
      BY <1>1 DEF redis
  <2>3. conn[h].pc # "await" /\ r.pc # "await" /\ r.pc # "live"
      BY <1>1, <1>3
  <2> QED BY <1>0, <1>1, <1>3, <1>6, <2>1, <2>2, <2>3, OneAside
<1>8. TypeOK'
    BY <1>0, <1>1, <1>5 DEF TypeOK, deploy, redis, hub
<1>9. DeployInv' /\ BufferInv' /\ FeedInv'
    BY <1>0, <1>1, LogRests
<1> QED BY <1>5, <1>7, <1>8, <1>9 DEF IInv

\* The archived log is read.
LEMMA ReadArchiveKeeps ==
    ASSUME IInv, Grows, NEW h \in Conns, ReadArchive(h)
    PROVE  IInv'
<1>0. /\ TypeOK /\ DeployInv /\ BufferInv /\ FeedInv /\ ConnInv /\ FrameInv /\ HubInv /\ CallInv
      /\ AloneInv /\ HeardInv /\ BrowserInv
    BY DEF IInv
<1>k. PICK kind \in {"archived", "unkept"} : kind = IF archive THEN "archived" ELSE "unkept"
    OBVIOUS
<1> DEFINE r == Returned(End(Send(conn[h], Plain(kind))))
<1>1. /\ conn[h].pc = "archive" /\ conn' = [conn EXCEPT ![h] = r]
      /\ UNCHANGED <<deploy, wire, redis, subscribed, commands, feed, hub, browser, marred>>
    BY <1>k DEF ReadArchive
<1>2. conn[h] \in Conn /\ Held(conn[h]) /\ Framed(conn[h].out)
    BY <1>0 DEF TypeOK, ConnInv, FrameInv
<1>3. r.pc = "live" /\ r.finished
  <2>1. Plain(kind) \in Frame
      BY PlainIs
  <2>2. Send(conn[h], Plain(kind)) \in Conn /\ SameCall(Send(conn[h], Plain(kind)), conn[h])
      BY <1>2, <2>1, SendIs
  <2>3. /\ End(Send(conn[h], Plain(kind))) \in Conn
        /\ SameCall(End(Send(conn[h], Plain(kind))), Send(conn[h], Plain(kind)))
      BY <2>2, EndIs
  <2>4. conn[h].finished
      BY <1>1, <1>2 DEF Held
  <2>5. End(Send(conn[h], Plain(kind))).finished
      BY <2>2, <2>3, <2>4 DEF SameCall
  <2> QED BY <2>3, <2>5, ReturnedIs
<1>4. Onward(conn[h], r)
    BY <1>1, <1>2, OnwardReadArchive
<1> HIDE DEF r
<1>5. conn' \in [Conns -> Conn] /\ ConnInv' /\ FrameInv' /\ BrowserInv'
    BY <1>0, <1>1, <1>4, OneOnward
<1>7. CallInv' /\ HubInv' /\ AloneInv' /\ HeardInv'
  <2>1. h \notin listeners
      BY <1>0, <1>1 DEF HubInv
  <2>2. UNCHANGED <<hub, commands, subscribed, feed, seq, marred>>
      BY <1>1 DEF redis
  <2>3. conn[h].pc # "await" /\ r.pc # "await"
      BY <1>1, <1>3
  <2> QED BY <1>0, <1>1, <1>3, <2>1, <2>2, <2>3, OneAside
<1>8. TypeOK'
    BY <1>0, <1>1, <1>5 DEF TypeOK, deploy, redis, hub
<1>9. DeployInv' /\ BufferInv' /\ FeedInv'
    BY <1>0, <1>1, LogRests
<1> QED BY <1>5, <1>7, <1>8, <1>9 DEF IInv

\* The hub after an unsubscribe.
LEMMA CancelTypes ==
    ASSUME TypeOK, NEW next \in [Conns -> Conn], NEW leaving, Cancel(next, leaving)
    PROVE  /\ listening' \in BOOLEAN /\ listeners' \subseteq Conns
           /\ commands' \in Seq(Conns \cup {NoConn})
           /\ commands' = commands \/ commands' = Append(commands, NoConn)
           /\ commands' = <<>> => commands = <<>>
           /\ listening' => listening
<1>1. listening \in BOOLEAN /\ listeners \subseteq Conns
    BY DEF TypeOK
<1>2. /\ listeners' = listeners \ leaving
      /\ (listening' = listening /\ commands' = commands)
         \/ (listening' = FALSE /\ commands' = Append(commands, NoConn))
    BY <1>1, CancelIs
<1>3. Append(commands, NoConn) \in Seq(Conns \cup {NoConn}) /\ Append(commands, NoConn) # <<>>
  <2>1. commands \in Seq(Conns \cup {NoConn}) /\ NoConn \in Conns \cup {NoConn}
      BY DEF TypeOK
  <2> QED BY <2>1, AppendIs
<1>4. commands \in Seq(Conns \cup {NoConn})
    BY DEF TypeOK
<1>5. listening' \in BOOLEAN /\ listeners' \subseteq Conns /\ (listening' => listening)
  <2>1. listening' = listening \/ listening' = FALSE
      BY <1>2
  <2>2. listening' \in BOOLEAN
      BY <1>1, <2>1
  <2>3. listening' => listening
      BY <2>1
  <2>4. listeners' \subseteq Conns
      BY <1>1, <1>2
  <2> QED BY <2>2, <2>3, <2>4
<1>6. /\ commands' \in Seq(Conns \cup {NoConn})
      /\ commands' = commands \/ commands' = Append(commands, NoConn)
      /\ commands' = <<>> => commands = <<>>
    BY <1>2, <1>3, <1>4
<1> QED BY <1>5, <1>6

\* A new SUBSCRIBE is the only one of its handler.
LEMMA CallsAsk ==
    ASSUME TypeOK, CallInv, NEW h \in Conns, conn[h].pc # "await", conn'[h].pc = "await",
           commands' = Append(commands, h), feed' = feed,
           \A i \in Conns : conn[i].pc = "await" => conn'[i].pc = "await"
    PROVE  CallInv'
<1>1. commands \in Seq(Conns \cup {NoConn}) /\ feed \in Seq(Item) /\ h # NoConn
    BY DEF TypeOK, Item, Conns, NoConn
<1>2. /\ DOMAIN commands' = 1..(Len(commands) + 1) /\ DOMAIN commands = 1..Len(commands)
      /\ Len(commands) \in Nat
      /\ \A i \in 1..Len(commands) : commands'[i] = commands[i]
      /\ commands'[Len(commands) + 1] = h
    BY <1>1, AppendIs
<1>3. ASSUME NEW i \in DOMAIN commands'
      PROVE  \/ i \in DOMAIN commands /\ commands'[i] = commands[i]
             \/ i = Len(commands) + 1 /\ commands'[i] = h
  <2>1. i \in 1..Len(commands) \/ i = Len(commands) + 1
      BY <1>2
  <2> QED BY <1>2, <2>1
<1>4. \A i \in DOMAIN commands : commands[i] # h
    BY <1>1 DEF CallInv
<1>5. \A i \in DOMAIN feed : feed[i].ack # h
    BY <1>1 DEF CallInv
<1>6. ASSUME NEW i \in DOMAIN commands', commands'[i] # NoConn
      PROVE  conn'[commands'[i]].pc = "await"
  <2>1. CASE i \in DOMAIN commands /\ commands'[i] = commands[i]
    <3>1. commands[i] \in Conns
        BY <1>1, <1>6, <2>1
    <3> QED BY <1>6, <2>1, <3>1 DEF CallInv
  <2>2. CASE commands'[i] = h
      BY <2>2
  <2> QED BY <1>3, <2>1, <2>2
<1>7. ASSUME NEW i \in DOMAIN feed, feed[i].ack # NoConn
      PROVE  conn'[feed[i].ack].pc = "await"
  <2>1. feed[i].ack \in Conns
    <3>1. feed[i] \in Item
        BY <1>1, ElementIs
    <3> QED BY <1>7, <3>1 DEF Item
  <2> QED BY <1>7, <2>1 DEF CallInv
<1>8. \A i, j \in DOMAIN commands' :
         i # j /\ commands'[i] = commands'[j] => commands'[i] = NoConn
    BY <1>3, <1>4 DEF CallInv
<1>9. \A i \in DOMAIN commands', j \in DOMAIN feed :
         commands'[i] = feed[j].ack => commands'[i] = NoConn
    BY <1>3, <1>5 DEF CallInv
<1>a. \A i, j \in DOMAIN feed : i # j /\ feed[i].ack = feed[j].ack => feed[i].ack = NoConn
    BY DEF CallInv
<1> QED BY <1>6, <1>7, <1>8, <1>9, <1>a DEF CallInv

\* A handler subscribes to the channel.
LEMMA SubscribeKeeps ==
    ASSUME IInv, Grows, NEW h \in Conns, Subscribe(h)
    PROVE  IInv'
<1>0. /\ TypeOK /\ DeployInv /\ BufferInv /\ FeedInv /\ ConnInv /\ FrameInv /\ HubInv /\ CallInv
      /\ AloneInv /\ HeardInv /\ BrowserInv
    BY DEF IInv
<1>1. /\ conn[h].pc = "subscribe"
      /\ UNCHANGED <<deploy, wire, redis, subscribed, feed, browser>>
    BY DEF Subscribe
<1>2. /\ conn[h] \in Conn /\ Held(conn[h]) /\ Framed(conn[h].out) /\ conn \in [Conns -> Conn]
      /\ conn[h].pending = <<>> /\ h \notin listeners /\ listeners \subseteq Conns /\ listening \in BOOLEAN
      /\ commands \in Seq(Conns \cup {NoConn})
    BY <1>0, <1>1 DEF TypeOK, ConnInv, FrameInv, Held, HubInv
<1>3. DeployInv' /\ BufferInv' /\ FeedInv'
    BY <1>0, <1>1, LogRests
<1>r. PICK r : r = [conn[h] EXCEPT !.pc = "backlog"]
    OBVIOUS
<1>4. /\ r.pc = "backlog" /\ r.finished = conn[h].finished /\ r.pending = <<>>
      /\ Onward(conn[h], r) /\ r \in Conn
  <2>1. Onward(conn[h], [conn[h] EXCEPT !.pc = "backlog"])
      BY <1>1, <1>2, OnwardAck
  <2>2. r.pc = "backlog" /\ r.finished = conn[h].finished /\ r.pending = <<>>
      BY <1>2, <1>r DEF Conn
  <2> QED BY <1>r, <2>1, <2>2 DEF Onward
<1>5. ASSUME conn[h].finished, conn' = [conn EXCEPT ![h] = r], UNCHANGED <<hub, commands, marred>>
      PROVE  IInv'
  <2>1. conn' \in [Conns -> Conn] /\ ConnInv' /\ FrameInv' /\ BrowserInv'
      BY <1>0, <1>1, <1>4, <1>5, OneOnward
  <2>2. CallInv' /\ HubInv' /\ AloneInv' /\ HeardInv'
    <3>1. UNCHANGED <<hub, commands, subscribed, feed, seq, marred>>
        BY <1>1, <1>5 DEF redis
    <3>2. conn[h].pc # "await" /\ r.pc # "await" /\ h \notin listeners /\ r.finished
        BY <1>1, <1>2, <1>4, <1>5
    <3> QED BY <1>0, <1>5, <3>1, <3>2, OneAside
  <2>3. TypeOK'
      BY <1>0, <1>1, <1>5, <2>1 DEF TypeOK, deploy, redis, hub
  <2> QED BY <1>3, <2>1, <2>2, <2>3 DEF IInv
<1>6. ASSUME ~conn[h].finished, listening, listeners' = listeners \cup {h},
             conn' = [conn EXCEPT ![h] = r],
             marred' = IF \E i \in Conns : conn[i].pc = "await"
                       THEN marred \cup {"overlap"} ELSE marred,
             UNCHANGED <<listening, commands>>
      PROVE  IInv'
  <2>1. conn' \in [Conns -> Conn] /\ ConnInv' /\ FrameInv' /\ BrowserInv'
      BY <1>0, <1>1, <1>4, <1>6, OneOnward
  <2>2. conn'[h] = r /\ \A i \in Conns : i # h => conn'[i] = conn[i]
      BY <1>2, <1>6
  <2>3. TypeOK'
    <3>1. listeners' \subseteq Conns
        BY <1>2, <1>6
    <3>2. marred' \subseteq {"overlap", "lost", "quiet"}
        BY <1>0, <1>6 DEF TypeOK
    <3> QED BY <1>0, <1>1, <1>6, <2>1, <3>1, <3>2 DEF TypeOK, deploy, redis
  <2>4. CallInv'
      BY <1>0, <1>1, <1>6, <2>2, CallsRest
  <2>5. HubInv'
    <3>1. \A i \in listeners' : /\ conn'[i].pc \in {"backlog", "replay", "live"}
                                /\ ~conn'[i].finished
                                /\ conn'[i].pc = "live" => ~conn'[i].closed
        BY <1>0, <1>2, <1>4, <1>6, <2>2 DEF HubInv
    <3>2. \A i \in Conns : conn'[i].pc = "await" => ~conn'[i].finished
        BY <1>0, <1>4, <2>2 DEF HubInv
    <3>3. listening' /\ listeners' # {}
        BY <1>6
    <3>4. IF commands = <<>> THEN subscribed <=> listening
          ELSE commands[Len(commands)] # NoConn <=> listening
        BY <1>0 DEF HubInv
    <3> QED BY <1>1, <1>6, <3>1, <3>2, <3>3, <3>4 DEF HubInv
  <2>6. marred' = {} => marred = {} /\ \A i \in Conns : conn[i].pc # "await" /\ conn'[i].pc # "await"
      BY <1>4, <1>6, <2>2
  <2>7. AloneInv'
    <3>1. ASSUME marred' = {}, NEW i \in Conns, ~conn'[i].finished,
                 conn'[i].pc \in {"backlog", "replay"} \/ (conn'[i].pc = "live" /\ ~conn'[i].closed)
          PROVE  i \in listeners'
        BY <1>0, <1>6, <2>2, <2>6, <3>1 DEF AloneInv
    <3> QED BY <2>6, <3>1 DEF AloneInv
  <2>8. HeardInv'
    <3> SUFFICES ASSUME marred' = {}
                 PROVE  InStep' /\ \A i \in listeners' : Follows(conn'[i], seq' - Len(feed'))
        BY DEF HeardInv
    <3>1. InStep'
        BY <1>0, <1>1, <1>6, <2>6 DEF HeardInv, InStep, redis
    <3>2. Follows(r, seq' - Len(feed'))
        BY <1>4, FollowsFirst
    <3>3. \A i \in listeners : Follows(conn[i], seq' - Len(feed'))
        BY <1>0, <1>1, <2>6 DEF HeardInv, redis
    <3> QED BY <1>2, <1>6, <2>2, <3>1, <3>2, <3>3
  <2> QED BY <1>3, <2>1, <2>3, <2>4, <2>5, <2>7, <2>8 DEF IInv
<1>7. ASSUME ~conn[h].finished, ~listening, listening' = TRUE, commands' = Append(commands, h),
             conn' = [conn EXCEPT ![h].pc = "await", ![h].mine = TRUE],
             UNCHANGED <<listeners, marred>>
      PROVE  IInv'
  <2>r. PICK q : q = [conn[h] EXCEPT !.pc = "await", !.mine = TRUE]
      OBVIOUS
  <2>0. conn' = [conn EXCEPT ![h] = q]
    <3>1. conn' = [i \in Conns |-> IF i = h THEN q ELSE conn[i]]
        BY <1>2, <1>7, <2>r
    <3> QED BY <1>2, <3>1
  <2>1. q.pc = "await" /\ q.mine /\ q.finished = conn[h].finished
      BY <1>2, <2>r DEF Conn
  <2>2. Onward(conn[h], q)
    <3>1. Onward(conn[h], [conn[h] EXCEPT !.pc = "await", !.mine = TRUE])
        BY <1>1, <1>2, OnwardAsk
    <3> QED BY <2>r, <3>1
  <2>3. conn' \in [Conns -> Conn] /\ ConnInv' /\ FrameInv' /\ BrowserInv'
      BY <1>0, <1>1, <2>0, <2>2, OneOnward
  <2>4. conn'[h] = q /\ \A i \in Conns : i # h => conn'[i] = conn[i]
      BY <1>2, <2>0
  <2>5. /\ commands' \in Seq(Conns \cup {NoConn}) /\ commands' # <<>>
        /\ commands'[Len(commands')] = h /\ h # NoConn
    <3>1. /\ Append(commands, h) \in Seq(Conns \cup {NoConn}) /\ Append(commands, h) # <<>>
          /\ Append(commands, h)[Len(commands) + 1] = h /\ Len(Append(commands, h)) = Len(commands) + 1
        BY <1>2, AppendIs
    <3>2. h # NoConn
        BY DEF Conns, NoConn
    <3> QED BY <1>7, <3>1, <3>2
  <2>6. TypeOK'
      BY <1>0, <1>1, <1>7, <2>3, <2>5 DEF TypeOK, deploy, redis
  <2>7. listeners = {} /\ \A i \in Conns : ~(conn[i].pc = "await" /\ conn[i].mine)
      BY <1>0, <1>7 DEF HubInv
  <2>8. CallInv'
    <3>1. conn[h].pc # "await" /\ conn'[h].pc = "await"
        BY <1>1, <2>1, <2>4
    <3>2. \A i \in Conns : conn[i].pc = "await" => conn'[i].pc = "await"
        BY <2>4, <3>1
    <3> QED BY <1>0, <1>1, <1>7, <3>1, <3>2, CallsAsk
  <2>9. HubInv'
    <3>1. \A i \in Conns : conn'[i].pc = "await" => ~conn'[i].finished
        BY <1>0, <1>7, <2>1, <2>4 DEF HubInv
    <3>2. \E i \in Conns : conn'[i].pc = "await" /\ conn'[i].mine
        BY <2>1, <2>4
    <3>3. listeners' = {} /\ listening' = TRUE
        BY <1>7, <2>7
    <3> QED BY <2>5, <3>1, <3>2, <3>3 DEF HubInv
  <2>a. AloneInv'
    <3> SUFFICES ASSUME marred = {} PROVE AloneInv'
        BY <1>7 DEF AloneInv
    <3>1. \A i \in Conns : conn[i].pc # "await"
        BY <1>0, <2>7 DEF AloneInv
    <3>2. ASSUME NEW i \in Conns, conn'[i].pc = "await"
          PROVE  /\ conn'[i].mine /\ listeners' = {}
                 /\ \A j \in Conns : conn'[j].pc = "await" => j = i
      <4>1. \A j \in Conns : conn'[j].pc = "await" => j = h
          BY <2>4, <3>1
      <4> QED BY <1>7, <2>1, <2>4, <2>7, <3>2, <4>1
    <3>3. ASSUME NEW i \in Conns, ~conn'[i].finished,
                 conn'[i].pc \in {"backlog", "replay"} \/ (conn'[i].pc = "live" /\ ~conn'[i].closed)
          PROVE  i \in listeners'
        BY <1>0, <1>7, <2>1, <2>4, <3>3 DEF AloneInv
    <3> QED BY <3>2, <3>3 DEF AloneInv
  <2>b. HeardInv'
    <3>1. InStep'
        BY <2>5 DEF InStep
    <3> QED BY <1>7, <2>7, <3>1 DEF HeardInv
  <2> QED BY <1>3, <2>3, <2>6, <2>8, <2>9, <2>a, <2>b DEF IInv
<1> QED BY <1>5, <1>6, <1>7, <1>r DEF Subscribe

\* The last number of the backlog a handler read.
LEMMA LastIs ==
    ASSUME NEW c \in Conn, c.plan # <<>>
    PROVE  c.plan[Len(c.plan)].seq \in Nat
<1>1. c.plan \in Seq(Entry)
    BY DEF Conn
<1>2. Len(c.plan) \in DOMAIN c.plan
  <2>1. Len(c.plan) \in Nat \ {0} /\ DOMAIN c.plan = 1..Len(c.plan)
      BY <1>1, TailIs
  <2> QED BY <2>1
<1>3. c.plan[Len(c.plan)] \in Entry
    BY <1>1, <1>2, ElementIs
<1> QED BY <1>3 DEF Entry

\* The backlog is sent, or the archived log is asked for.
LEMMA ReplayKeeps ==
    ASSUME IInv, Grows, NEW h \in Conns, Replay(h)
    PROVE  IInv'
<1>0. /\ TypeOK /\ DeployInv /\ BufferInv /\ FeedInv /\ ConnInv /\ FrameInv /\ HubInv /\ CallInv
      /\ AloneInv /\ HeardInv /\ BrowserInv
    BY DEF IInv
<1>c. PICK c : c = conn[h]
    OBVIOUS
<1>1. /\ c.pc = "replay"
      /\ UNCHANGED <<deploy, wire, redis, subscribed, feed, browser, marred>>
    BY <1>c DEF Replay
<1>2. /\ c \in Conn /\ Held(c) /\ Framed(c.out) /\ conn \in [Conns -> Conn]
      /\ listeners \subseteq Conns /\ listening \in BOOLEAN
      /\ c.out = <<>> /\ c.delivered = c.resume
      /\ \A i \in DOMAIN c.plan : c.plan[i].seq = c.plan[1].seq + i - 1
    BY <1>0, <1>1, <1>c DEF TypeOK, ConnInv, FrameInv, Held
<1>3. DeployInv' /\ BufferInv' /\ FeedInv'
    BY <1>0, <1>1, LogRests
<1> DEFINE heard == seq - Len(feed)
<1>4. heard \in Int
  <2>1. seq \in Nat /\ feed \in Seq(Item)
      BY <1>0 DEF TypeOK, Item
  <2> QED BY <2>1
<1>5. h \in listeners => ~c.finished /\ (marred = {} => Follows(c, heard))
    BY <1>0, <1>c DEF HubInv, HeardInv
<1>6. marred = {} /\ ~c.finished => h \in listeners
    BY <1>0, <1>1, <1>c DEF AloneInv
<1>7. ASSUME c.finished, ~Resumes(c),
             conn' = [conn EXCEPT ![h] = [Send(c, Plain("reset")) EXCEPT !.pc = "archive", !.plan = <<>>]],
             UNCHANGED <<hub, commands>>
      PROVE  IInv'
  <2>r. PICK r : r = [Send(c, Plain("reset")) EXCEPT !.pc = "archive", !.plan = <<>>]
      OBVIOUS
  <2>1. r.pc = "archive"
    <3>1. Plain("reset") \in Frame
        BY PlainIs
    <3>2. Send(c, Plain("reset")) \in Conn
        BY <1>2, <3>1, SendIs
    <3> QED BY <2>r, <3>2 DEF Conn
  <2>2. Onward(c, r)
      BY <1>1, <1>2, <1>7, <2>r, OnwardArchive
  <2>3. conn' \in [Conns -> Conn] /\ ConnInv' /\ FrameInv' /\ BrowserInv'
      BY <1>0, <1>1, <1>7, <1>c, <2>2, <2>r, OneOnward
  <2>4. CallInv' /\ HubInv' /\ AloneInv' /\ HeardInv'
    <3>1. UNCHANGED <<hub, commands, subscribed, feed, seq, marred>>
        BY <1>1, <1>7 DEF redis
    <3>2. conn[h].pc # "await" /\ r.pc # "await" /\ h \notin listeners
        BY <1>1, <1>5, <1>7, <1>c, <2>1
    <3>3. conn' = [conn EXCEPT ![h] = r]
        BY <1>7, <2>r
    <3> QED BY <1>0, <2>1, <3>1, <3>2, <3>3, OneAside
  <2>5. TypeOK'
      BY <1>0, <1>1, <1>7, <2>3 DEF TypeOK, deploy, redis, hub
  <2> QED BY <1>3, <2>3, <2>4, <2>5 DEF IInv
<1>n. PICK n : n = Returned(IF c.finished THEN End(Replayed(c)) ELSE Replayed(c))
    OBVIOUS
<1>8. ASSUME c.finished => Resumes(c), NEW leaving,
             leaving = IF n.closed /\ ~c.finished THEN {h} ELSE {},
             Cancel([conn EXCEPT ![h] = n], leaving)
      PROVE  IInv'
  <2>1. marred = {} =>
          /\ \A k \in 1..(Len(c.pending) - 1) : c.pending[k + 1].seq = c.pending[k].seq + 1
          /\ c.pending # <<>> =>
               c.pending[1].seq <= (IF c.plan = <<>> THEN 0 ELSE c.plan[Len(c.plan)].seq) + 1
    <3> SUFFICES ASSUME marred = {}, c.pending # <<>>
                 PROVE /\ \A k \in 1..(Len(c.pending) - 1) : c.pending[k + 1].seq = c.pending[k].seq + 1
                       /\ c.pending[1].seq <= (IF c.plan = <<>> THEN 0 ELSE c.plan[Len(c.plan)].seq) + 1
      <4>1. c.pending = <<>> => \A k \in 1..(Len(c.pending) - 1) : FALSE
          OBVIOUS
      <4> QED BY <4>1
    <3> DEFINE l == Len(c.pending)
               last == IF c.plan = <<>> THEN 0 ELSE c.plan[Len(c.plan)].seq
    <3>1. l \in Nat \ {0} /\ DOMAIN c.pending = 1..l
      <4>1. c.pending \in Seq(Entry)
          BY <1>2 DEF Conn
      <4> QED BY <4>1, TailIs
    <3>2. Follows(c, heard)
      <4>1. h \in listeners
          BY <1>2, <1>6 DEF Held
      <4> QED BY <1>5, <4>1
    <3>3. \A i \in 1..l : c.pending[i].seq = heard - (l - i)
        BY <3>1, <3>2 DEF Follows
    <3>4. heard - l <= last
        BY <1>1, <3>2 DEF Follows
    <3>5. last \in Int
      <4>1. c.plan # <<>> => c.plan[Len(c.plan)].seq \in Nat
          BY <1>2, LastIs
      <4> QED BY <4>1
    <3> HIDE DEF l, last, heard
    <3>6. ASSUME NEW k \in 1..(l - 1) PROVE c.pending[k + 1].seq = c.pending[k].seq + 1
      <4>1. k \in 1..l /\ k + 1 \in 1..l /\ k \in Int
          BY <3>1
      <4>2. c.pending[k].seq = heard - (l - k) /\ c.pending[k + 1].seq = heard - (l - (k + 1))
          BY <3>3, <4>1
      <4> QED BY <1>4, <3>1, <4>1, <4>2
    <3>7. c.pending[1].seq <= last + 1
      <4>1. c.pending[1].seq = heard - (l - 1)
          BY <3>1, <3>3
      <4> QED BY <1>4, <3>1, <3>4, <3>5, <4>1
    <3> QED BY <3>6, <3>7 DEF l, last
  <2>2. Onward(c, n)
      BY <1>1, <1>2, <1>8, <1>n, <2>1, OnwardReplay
  <2>3. /\ n.pc = "live" /\ n.finished = c.finished /\ n.mine = c.mine /\ n.pending = <<>>
        /\ ~c.finished => n.delivered = Replayed(c).delivered
    <3> DEFINE a == Replayed(c)
               d == IF c.finished THEN End(a) ELSE a
    <3>1. a \in Conn /\ SameCall(a, c)
        BY <1>2, ReplayedIs
    <3> HIDE DEF a
    <3>2. d \in Conn /\ SameCall(d, a) /\ (~c.finished => d = a)
        BY <3>1, EndIs DEF SameCall
    <3>3. d.finished = c.finished /\ d.mine = c.mine
        BY <3>1, <3>2 DEF SameCall
    <3> HIDE DEF d
    <3>4. /\ Returned(d).pc = "live" /\ Returned(d).finished = d.finished
          /\ Returned(d).mine = d.mine /\ Returned(d).pending = <<>>
          /\ Returned(d).delivered = d.delivered
        BY <3>2, ReturnedIs
    <3>5. n = Returned(d)
        BY <1>n DEF d, a
    <3> QED BY <3>2, <3>3, <3>4, <3>5 DEF a
  <2> DEFINE next == [conn EXCEPT ![h] = n]
  <2>4. n \in Conn
      BY <2>2 DEF Onward
  <2>5. /\ next \in [Conns -> Conn] /\ next[h] = n
        /\ \A i \in Conns : i # h => next[i] = conn[i]
      BY <1>2, <2>4
  <2>6. Cancel(next, leaving)
      BY <1>8
  <2> HIDE DEF next
  <2>7. \A i \in Conns : Onward(conn[i], next[i])
    <3> SUFFICES ASSUME NEW i \in Conns PROVE Onward(conn[i], next[i])
        OBVIOUS
    <3>1. CASE i = h
        BY <1>c, <2>2, <2>5, <3>1
    <3>2. CASE i # h
      <4>1. conn[i] \in Conn /\ Held(conn[i]) /\ Framed(conn[i].out)
          BY <1>0, <1>2 DEF ConnInv, FrameInv
      <4> QED BY <2>5, <3>2, <4>1, OnwardSelf
    <3> QED BY <3>1, <3>2
  <2>8. conn' \in [Conns -> Conn] /\ ConnInv' /\ FrameInv' /\ BrowserInv'
    <3>1. conn' \in [Conns -> Conn] /\ \A i \in Conns : Onward(conn[i], conn'[i])
        BY <1>2, <2>5, <2>6, <2>7, CancelOnward
    <3> QED BY <1>0, <1>1, <3>1, AllOnward
  <2>9. /\ listening' \in BOOLEAN /\ listeners' \subseteq Conns
        /\ commands' \in Seq(Conns \cup {NoConn})
        /\ commands' = commands \/ commands' = Append(commands, NoConn)
        /\ commands' = <<>> => commands = <<>>
        /\ listening' => listening
      BY <1>0, <2>5, <2>6, CancelTypes
  <2>a. TypeOK'
      BY <1>0, <1>1, <2>8, <2>9 DEF TypeOK, deploy, redis
  <2>b. \A i \in Conns : next[i].pc = "await" <=> conn[i].pc = "await"
      BY <1>1, <1>c, <2>3, <2>5
  <2>c. \A i \in Conns : next[i].pc = "await" => next[i] = conn[i]
      BY <2>3, <2>5
  <2>d. CallInv'
    <3>1. \A i \in Conns : conn[i].pc = "await" => conn'[i].pc = "await"
        BY <1>2, <2>5, <2>6, <2>b, CancelFields
    <3> QED BY <1>0, <1>1, <2>9, <3>1, CallsRest
  <2>e. HubInv'
    <3>1. \A i \in Conns : next[i].pc = "await" => next[i].mine = conn[i].mine /\ ~next[i].finished
        BY <1>0, <2>b, <2>c DEF HubInv
    <3>2. ASSUME NEW i \in listeners \ leaving
          PROVE  /\ next[i].pc \in {"backlog", "replay", "live"} /\ ~next[i].finished
                 /\ next[i].pc = "live" => ~next[i].closed
      <4>1. CASE i = h
          BY <1>5, <1>8, <2>3, <2>5, <4>1
      <4>2. CASE i # h
          BY <1>0, <1>2, <2>5, <4>2 DEF HubInv
      <4> QED BY <4>1, <4>2
    <3>3. subscribed' = subscribed
        BY <1>1
    <3> QED BY <1>0, <2>5, <2>6, <2>b, <3>1, <3>2, <3>3, CancelKeepsHub
  <2>f. AloneInv'
    <3>1. \A i \in Conns : next[i].pc = "await" => next[i].mine = conn[i].mine
        BY <2>c
    <3>2. marred = {} => leaving \subseteq listeners
        BY <1>6, <1>8
    <3>3. ASSUME marred = {}, NEW i \in Conns, ~next[i].finished,
                 next[i].pc \in {"backlog", "replay"} \/ (next[i].pc = "live" /\ ~next[i].closed)
          PROVE  i \in listeners /\ i \notin leaving
      <4>1. CASE i = h
          BY <1>6, <1>8, <2>3, <2>5, <3>3, <4>1
      <4>2. CASE i # h
          BY <1>0, <1>8, <2>5, <3>3, <4>2 DEF AloneInv
      <4> QED BY <4>1, <4>2
    <3>4. marred' = marred
        BY <1>1
    <3> QED BY <1>0, <2>5, <2>6, <2>b, <3>1, <3>2, <3>3, <3>4, CancelKeepsAlone
  <2>g. HeardInv'
    <3> SUFFICES ASSUME marred = {}
                 PROVE  InStep' /\ \A i \in listeners' : Follows(conn'[i], seq' - Len(feed'))
        BY <1>1 DEF HeardInv
    <3>1. InStep'
        BY <1>0, <1>1, <2>9, StillInStep DEF HeardInv, redis
    <3>2. ASSUME NEW i \in listeners' PROVE Follows(conn'[i], heard)
      <4>1. i \in listeners /\ i \in Conns
          BY <1>2, <2>5, <2>6, <2>9, CancelIs
      <4>2. conn'[i] = next[i]
        <5>1. conn[i].pc # "await"
            BY <1>0, <4>1 DEF HubInv
        <5> QED BY <1>2, <2>5, <2>6, <2>b, <4>1, <5>1, CancelIs
      <4>3. CASE i # h
          BY <1>0, <2>5, <4>1, <4>2, <4>3 DEF HeardInv
      <4>4. CASE i = h
        <5>1. Follows(c, heard) /\ ~c.finished
            BY <1>5, <4>1, <4>4
        <5>2. /\ c.plan # <<>> => Replayed(c).delivered >= c.plan[Len(c.plan)].seq
              /\ \A k \in 1..Len(c.pending) : Replayed(c).delivered >= c.pending[k].seq
            BY <1>2, ReplayedCovers
        <5>3. Replayed(c) \in Conn
            BY <1>2, ReplayedIs
        <5>4. Replayed(c).delivered \in Nat
            BY <5>3 DEF Conn
        <5>5. heard <= Replayed(c).delivered
          <6> DEFINE l == Len(c.pending)
                     m == Replayed(c).delivered
          <6>1. l \in Nat /\ DOMAIN c.pending = 1..l /\ c.plan \in Seq(Entry)
            <7>1. c.pending \in Seq(Entry) /\ c.plan \in Seq(Entry)
                BY <1>2 DEF Conn
            <7> QED BY <7>1
          <6>2. CASE l = 0
            <7>1. heard <= IF c.plan = <<>> THEN 0 ELSE c.plan[Len(c.plan)].seq
              <8>1. heard - l <= IF c.plan = <<>> THEN 0 ELSE c.plan[Len(c.plan)].seq
                  BY <1>1, <5>1 DEF Follows
              <8>2. heard - l = heard
                <9> HIDE DEF l, heard
                <9> QED BY <1>4, <6>2
              <8> QED BY <8>1, <8>2
            <7>2. CASE c.plan = <<>>
              <8> HIDE DEF heard, m
              <8>1. m \in Nat
                  BY <5>4 DEF m
              <8>2. heard <= 0
                  BY <7>1, <7>2
              <8>3. heard <= m
                  BY <1>4, <8>1, <8>2
              <8> QED BY <8>3 DEF m
            <7>3. CASE c.plan # <<>>
              <8>1. PICK q : q = c.plan[Len(c.plan)].seq
                  OBVIOUS
              <8>2. q \in Int
                  BY <1>2, <7>3, <8>1, LastIs
              <8>3. heard <= q /\ m >= q
                  BY <5>2, <7>1, <7>3, <8>1
              <8> HIDE DEF heard, m
              <8>4. m \in Nat
                  BY <5>4 DEF m
              <8>5. heard <= m
                  BY <1>4, <8>2, <8>3, <8>4
              <8> QED BY <8>5 DEF m
            <7> QED BY <7>2, <7>3
          <6>3. CASE l # 0
            <7>1. l \in 1..l
                BY <6>1, <6>3
            <7>2. c.pending[l].seq = heard - (l - l)
                BY <5>1, <6>1, <7>1 DEF Follows
            <7>3. m >= c.pending[l].seq
                BY <5>2, <7>1
            <7>4. heard - (l - l) = heard
              <8> HIDE DEF heard, l
              <8> QED BY <1>4, <6>1
            <7>5. m >= heard
                BY <7>2, <7>3, <7>4
            <7> HIDE DEF heard, m
            <7>6. m \in Nat
                BY <5>4 DEF m
            <7>7. heard <= m
                BY <1>4, <7>5, <7>6
            <7> QED BY <7>7 DEF m
          <6> QED BY <6>2, <6>3
        <5>6. Follows(n, heard)
          <6> HIDE DEF heard
          <6>1. n.pending = <<>> /\ n.pc = "live" /\ heard <= n.delivered
              BY <2>3, <5>1, <5>5
          <6> QED BY <6>1 DEF Follows
        <5> QED BY <2>5, <4>2, <4>4, <5>6
      <4> QED BY <4>3, <4>4
    <3>3. seq' - Len(feed') = heard
        BY <1>1 DEF redis
    <3> QED BY <3>1, <3>2, <3>3
  <2> QED BY <1>3, <2>8, <2>a, <2>d, <2>e, <2>f, <2>g DEF IInv
<1>9. \/ /\ c.finished /\ ~Resumes(c)
         /\ conn' = [conn EXCEPT ![h] = [Send(c, Plain("reset")) EXCEPT !.pc = "archive", !.plan = <<>>]]
         /\ UNCHANGED <<hub, commands>>
      \/ /\ c.finished => Resumes(c)
         /\ Cancel([conn EXCEPT ![h] = n], IF n.closed /\ ~c.finished THEN {h} ELSE {})
  <2>1. CASE c.finished /\ ~Resumes(c)
      BY <1>c, <2>1 DEF Replay
  <2>2. CASE ~(c.finished /\ ~Resumes(c))
      BY <1>c, <1>n, <2>2 DEF Replay
  <2> QED BY <2>1, <2>2
<1> QED BY <1>7, <1>8, <1>9

-----------------------------------------------------------------------------
(* The browsers *)

\* What a browser shows and waits for stays right, whatever happens elsewhere.
LEMMA LooksStays ==
    ASSUME TypeOK, Grows, NEW s \in Browser,
           s.state \in {"open", "ended"} <=> s.conn # NoConn,
           s.conn # NoConn => conn'[s.conn].pc # "unused",
           Steady => Past(s.lastId),
           Steady /\ s.state # "ended" => View!Shown(s.screen) = s.lastId \/ Stale(s.lastId),
           NEW r \in Conn, s.state = "open" => r = conn'[s.conn] /\ Watches(s, r)
    PROVE  Looks(s)'
<1>1. Steady' => Steady
    BY GenuineStays
<1>2. s.lastId \in Nat
    BY DEF Browser
<1>3. Steady' => Past(s.lastId)' /\ (Stale(s.lastId) => Stale(s.lastId)')
    BY <1>1, <1>2 DEF Grows
<1>4. s.state = "open" => Watches(s, r)'
    BY WatchesStays
<1> QED BY <1>1, <1>3, <1>4 DEF Looks

\* What a browser shows, whose connection is h, or was, with the handler r.
Sees(t, h, r) ==
    /\ t.state \in {"open", "ended"} <=> t.conn # NoConn
    /\ t.conn \in {h, NoConn} /\ r.pc # "unused"
    /\ Steady => Past(t.lastId)
    /\ Steady /\ t.state # "ended" => View!Shown(t.screen) = t.lastId \/ Stale(t.lastId)
    /\ t.state = "open" => Watches(t, r)

\* Where the browser b becomes t, and only its handler h does anything else
\* but go on.
LEMMA OneLooks ==
    ASSUME TypeOK, BrowserInv, Grows, NEW b \in Browsers, NEW t \in Browser,
           browser' = [browser EXCEPT ![b] = t],
           NEW h \in Conns, NEW r \in Conn, conn'[h] = r,
           \A d \in Browsers : d # b => browser[d].conn # h,
           \A i \in Conns : i # h => Onward(conn[i], conn'[i]),
           Sees(t, h, r)
    PROVE  browser' \in [Browsers -> Browser] /\ BrowserInv'
<1>1. browser \in [Browsers -> Browser]
    BY DEF TypeOK
<1>2. browser'[b] = t /\ \A d \in Browsers : d # b => browser'[d] = browser[d]
    BY <1>1
<1>3. Looks(t)'
  <2>1. t.state = "open" => r = conn'[t.conn] /\ Watches(t, r)
      BY DEF Sees
  <2>2. t.conn # NoConn => conn'[t.conn].pc # "unused"
      BY DEF Sees
  <2>3. /\ t.state \in {"open", "ended"} <=> t.conn # NoConn
        /\ Steady => Past(t.lastId)
        /\ Steady /\ t.state # "ended" => View!Shown(t.screen) = t.lastId \/ Stale(t.lastId)
      BY DEF Sees
  <2> QED BY <2>1, <2>2, <2>3, LooksStays
<1>4. ASSUME NEW d \in Browsers, d # b, NEW s, s = browser[d] PROVE Looks(s)'
  <2>1. s \in Browser /\ Looks(s)
      BY <1>1, <1>4 DEF BrowserInv
  <2>2. s.conn # NoConn => s.conn \in Conns /\ s.conn # h
      BY <1>4, <2>1 DEF Browser
  <2>3. s.conn # NoConn => Onward(conn[s.conn], conn'[s.conn])
      BY <2>2
  <2>4. s.conn # NoConn => conn'[s.conn].pc # "unused"
      BY <2>1, <2>3 DEF Looks, Onward
  <2>5. s.state = "open" => conn'[s.conn] \in Conn /\ Watches(s, conn'[s.conn])
    <3> SUFFICES ASSUME s.state = "open"
                 PROVE  conn'[s.conn] \in Conn /\ Watches(s, conn'[s.conn])
        OBVIOUS
    <3>1. s.conn # NoConn /\ Watches(s, conn[s.conn])
        BY <2>1 DEF Looks
    <3>2. Steady => View!Shown(s.screen) = s.lastId \/ Stale(s.lastId)
        BY <2>1 DEF Looks
    <3> QED BY <2>1, <2>3, <3>1, <3>2 DEF Onward
  <2>6. PICK q \in Conn : s.state = "open" => q = conn'[s.conn] /\ Watches(s, q)
      BY <2>5
  <2>7. /\ s.state \in {"open", "ended"} <=> s.conn # NoConn
        /\ Steady => Past(s.lastId)
        /\ Steady /\ s.state # "ended" => View!Shown(s.screen) = s.lastId \/ Stale(s.lastId)
      BY <2>1 DEF Looks
  <2> QED BY <2>1, <2>4, <2>6, <2>7, LooksStays
<1>5. \A d \in Browsers : Looks(browser[d])'
  <2> SUFFICES ASSUME NEW d \in Browsers, NEW s, s = browser'[d] PROVE Looks(s)'
      OBVIOUS
  <2> QED BY <1>2, <1>3, <1>4
<1>6. t.conn \in {h, NoConn}
    BY DEF Sees
<1>7. \A d, g \in Browsers :
         d # g /\ browser'[d].conn = browser'[g].conn => browser'[d].conn = NoConn
    BY <1>2, <1>6 DEF BrowserInv
<1> QED BY <1>1, <1>2, <1>5, <1>7 DEF BrowserInv

\* The browser's connection, which is nobody else's.
LEMMA OpenIs ==
    ASSUME TypeOK, BrowserInv, NEW b \in Browsers, browser[b].state = "open"
    PROVE  LET h == browser[b].conn
           IN  /\ h \in Conns /\ h # NoConn /\ conn[h] \in Conn /\ conn[h].pc # "unused"
               /\ Watches(browser[b], conn[h])
               /\ \A d \in Browsers : d # b => browser[d].conn # h
<1>1. browser[b] \in Browser /\ Looks(browser[b]) /\ conn \in [Conns -> Conn]
    BY DEF TypeOK, BrowserInv
<1> QED BY <1>1 DEF Looks, Browser, BrowserInv

\* A connection is made.
LEMMA ConnectKeeps ==
    ASSUME IInv, Grows, NEW b \in Browsers, Connect(b)
    PROVE  IInv'
<1>0. /\ TypeOK /\ DeployInv /\ BufferInv /\ FeedInv /\ ConnInv /\ FrameInv /\ HubInv /\ CallInv
      /\ AloneInv /\ HeardInv /\ BrowserInv
    BY DEF IInv
<1>s. PICK s : s = browser[b]
    OBVIOUS
<1>h. PICK h \in Conns : 
         /\ conn[h].pc = "unused"
         /\ browser' = [browser EXCEPT ![b].state = "open", ![b].conn = h]
         /\ conn' = [conn EXCEPT ![h] = [Unused EXCEPT
                !.pc = "subscribe", !.resume = s.lastId, !.delivered = s.lastId,
                !.finished = (status = "settled")]]
    BY <1>s DEF Connect
<1>r. PICK r : r = [Unused EXCEPT
                !.pc = "subscribe", !.resume = s.lastId, !.delivered = s.lastId,
                !.finished = (status = "settled")]
    OBVIOUS
<1>t. PICK t : t = [s EXCEPT !.state = "open", !.conn = h]
    OBVIOUS
<1>1. /\ browser \in [Browsers -> Browser] /\ conn \in [Conns -> Conn]
      /\ s \in Browser /\ Looks(s) /\ s.state \in {"idle", "connecting"} /\ s.conn = NoConn
      /\ UNCHANGED <<deploy, wire, redis, subscribed, commands, feed, hub, marred>>
    BY <1>0, <1>s DEF TypeOK, BrowserInv, Looks, Connect
<1>2. browser' = [browser EXCEPT ![b] = t]
  <2>1. browser' = [d \in Browsers |-> IF d = b THEN t ELSE browser[d]]
      BY <1>1, <1>h, <1>s, <1>t
  <2> QED BY <1>1, <2>1
<1>3. /\ t \in Browser /\ t.state = "open" /\ t.conn = h /\ t.screen = s.screen /\ t.gone = s.gone
      /\ t.lastId = s.lastId
    BY <1>1, <1>t DEF Browser
<1>4. /\ r \in Conn /\ r.pc = "subscribe" /\ r.resume = s.lastId /\ r.delivered = s.lastId
      /\ r.finished = (status = "settled") /\ r.plan = <<>> /\ r.pending = <<>> /\ r.out = <<>>
      /\ r.closed = FALSE
  <2>1. <<>> \in Seq(Entry) /\ <<>> \in Seq(Frame)
      OBVIOUS
  <2>2. s.lastId \in Nat
      BY <1>1 DEF Browser
  <2> QED BY <1>r, <2>1, <2>2 DEF Unused, Conn
<1>5. conn' = [conn EXCEPT ![h] = r] /\ conn' \in [Conns -> Conn] /\ conn'[h] = r
      /\ \A i \in Conns : i # h => conn'[i] = conn[i]
    BY <1>1, <1>4, <1>h, <1>r
<1>6. Held(r) /\ Framed(r.out)
  <2>1. Steady => Past(s.lastId)
      BY <1>1 DEF Looks
  <2>2. GenuineSeq(r.plan) /\ GenuineSeq(r.pending)
      BY <1>4 DEF GenuineSeq
  <2>3. Framed(r.out)
      BY <1>4 DEF Framed
  <2> QED BY <1>4, <2>1, <2>2, <2>3 DEF Held
<1>7. ASSUME NEW i \in Conns, i # h PROVE Onward(conn[i], conn'[i])
  <2>1. conn[i] \in Conn /\ Held(conn[i]) /\ Framed(conn[i].out)
      BY <1>0, <1>1 DEF ConnInv, FrameInv
  <2> QED BY <1>5, <1>7, <2>1, OnwardSelf
<1>8. ConnInv' /\ FrameInv'
  <2>1. ASSUME NEW i \in Conns PROVE Held(conn'[i]) /\ Framed(conn'[i].out) /\ conn'[i].out \in Seq(Frame)
    <3>1. CASE i = h
      <4>1. r.out \in Seq(Frame)
          BY <1>4 DEF Conn
      <4> QED BY <1>5, <1>6, <3>1, <4>1
    <3>2. CASE i # h
        BY <1>7, <3>2 DEF Onward, Conn
    <3> QED BY <3>1, <3>2
  <2>2. \A i \in Conns : Held(conn[i])'
      BY <1>0, <1>5, <2>1, HeldStays
  <2>3. \A i \in Conns : Framed(conn[i].out)'
      BY <1>0, <2>1, GenuineStays
  <2> QED BY <2>2, <2>3 DEF ConnInv, FrameInv
<1>9. browser' \in [Browsers -> Browser] /\ BrowserInv'
  <2>1. \A d \in Browsers : d # b => browser[d].conn # h
    <3>1. \A d \in Browsers : Looks(browser[d])
        BY <1>0 DEF BrowserInv
    <3>2. h # NoConn
        BY DEF Conns, NoConn
    <3> QED BY <1>h, <3>1, <3>2 DEF Looks
  <2>2. Watches(t, r)
      BY <1>3, <1>4 DEF Watches, Linked
  <2>3. t.conn # NoConn
      BY <1>3 DEF Conns, NoConn
  <2>4. /\ Steady => Past(t.lastId)
        /\ Steady => View!Shown(t.screen) = t.lastId \/ Stale(t.lastId)
      BY <1>1, <1>3 DEF Looks
  <2>5. r.pc # "unused"
      BY <1>4
  <2>6. Sees(t, h, r)
      BY <1>3, <2>2, <2>3, <2>4, <2>5 DEF Sees
  <2>7. \A i \in Conns : i # h => Onward(conn[i], conn'[i])
      BY <1>7
  <2>8. t \in Browser /\ r \in Conn /\ conn'[h] = r
      BY <1>3, <1>4, <1>5
  <2> QED BY <1>0, <1>2, <2>1, <2>6, <2>7, <2>8, OneLooks
<1>a. CallInv' /\ HubInv' /\ AloneInv' /\ HeardInv'
  <2>1. UNCHANGED <<hub, commands, subscribed, feed, seq, marred>>
      BY <1>1 DEF redis
  <2>2. conn[h].pc # "await" /\ r.pc = "subscribe" /\ h \notin listeners
      BY <1>0, <1>4, <1>h DEF HubInv
  <2> QED BY <1>0, <1>5, <2>1, <2>2, OneAside
<1>b. TypeOK'
    BY <1>0, <1>1, <1>5, <1>9 DEF TypeOK, deploy, redis, hub
<1>c. DeployInv' /\ BufferInv' /\ FeedInv'
    BY <1>0, <1>1, LogRests
<1> QED BY <1>8, <1>9, <1>a, <1>b, <1>c DEF IInv

\* A connection breaks.
LEMMA DropKeeps ==
    ASSUME IInv, Grows, NEW b \in Browsers, Drop(b)
    PROVE  IInv'
<1>0. /\ TypeOK /\ DeployInv /\ BufferInv /\ FeedInv /\ ConnInv /\ FrameInv /\ HubInv /\ CallInv
      /\ AloneInv /\ HeardInv /\ BrowserInv
    BY DEF IInv
<1>s. PICK s : s = browser[b]
    OBVIOUS
<1>h. PICK h : h = s.conn
    OBVIOUS
<1>c. PICK c : c = conn[h]
    OBVIOUS
<1>q. PICK q : q = [c EXCEPT !.closed = TRUE, !.out = <<>>]
    OBVIOUS
<1>t. PICK t : t = [s EXCEPT !.state = "connecting", !.conn = NoConn]
    OBVIOUS
<1>l. PICK leaving : leaving = IF c.pc = "live" /\ ~c.finished /\ ~c.closed THEN {h} ELSE {}
    OBVIOUS
<1>1. /\ browser \in [Browsers -> Browser] /\ conn \in [Conns -> Conn]
      /\ listeners \subseteq Conns /\ listening \in BOOLEAN
      /\ s \in Browser /\ Looks(s) /\ s.state = "open"
      /\ UNCHANGED <<deploy, wire, redis, subscribed, feed, marred>>
    BY <1>0, <1>s DEF TypeOK, BrowserInv, Drop
<1>2. /\ h \in Conns /\ c \in Conn /\ c.pc # "unused"
      /\ \A d \in Browsers : d # b => browser[d].conn # h
    BY <1>0, <1>1, <1>c, <1>h, <1>s, OpenIs
<1>3. /\ Held(c) /\ Framed(c.out)
    BY <1>0, <1>2, <1>c DEF ConnInv, FrameInv
<1>4. browser' = [browser EXCEPT ![b] = t]
  <2>1. browser' = [browser EXCEPT ![b].state = "connecting", ![b].conn = NoConn]
      BY DEF Drop
  <2>2. browser' = [d \in Browsers |-> IF d = b THEN t ELSE browser[d]]
      BY <1>1, <1>s, <1>t, <2>1
  <2> QED BY <1>1, <2>2
<1>5. /\ t \in Browser /\ t.state = "connecting" /\ t.conn = NoConn /\ t.screen = s.screen
      /\ t.lastId = s.lastId
    BY <1>1, <1>t DEF Browser
<1>6. /\ q \in Conn /\ q.pc = c.pc /\ q.resume = c.resume /\ q.finished = c.finished
      /\ q.mine = c.mine /\ q.plan = c.plan /\ q.pending = c.pending
      /\ q.delivered = c.delivered /\ q.closed = TRUE /\ q.out = <<>>
  <2>1. <<>> \in Seq(Frame)
      OBVIOUS
  <2> QED BY <1>2, <1>q, <2>1 DEF Conn
<1>7. Held(q) /\ Framed(q.out)
  <2>1. Framed(<<>>)
      BY DEF Framed
  <2>2. Held(q)
      BY <1>3, <1>6 DEF Held, Resumes
  <2> QED BY <1>6, <2>1, <2>2
<1> DEFINE next == [conn EXCEPT ![h] = q]
<1>8. Cancel(next, leaving)
  <2>1. Cancel([conn EXCEPT ![h].closed = TRUE, ![h].out = <<>>], leaving)
      BY <1>c, <1>h, <1>l, <1>s DEF Drop
  <2>2. [conn EXCEPT ![h].closed = TRUE, ![h].out = <<>>] = next
    <3>1. [conn EXCEPT ![h].closed = TRUE, ![h].out = <<>>] = [i \in Conns |-> IF i = h THEN q ELSE conn[i]]
        BY <1>1, <1>2, <1>c, <1>q
    <3>2. next = [i \in Conns |-> IF i = h THEN q ELSE conn[i]]
        BY <1>1
    <3> QED BY <3>1, <3>2
  <2> QED BY <2>1, <2>2
<1>9. next \in [Conns -> Conn] /\ next[h] = q /\ \A i \in Conns : i # h => next[i] = conn[i]
    BY <1>1, <1>2, <1>6
<1> HIDE DEF next
<1>a. /\ listening' \in BOOLEAN /\ listeners' \subseteq Conns
      /\ commands' \in Seq(Conns \cup {NoConn})
      /\ commands' = commands \/ commands' = Append(commands, NoConn)
      /\ commands' = <<>> => commands = <<>>
      /\ listening' => listening
    BY <1>0, <1>8, <1>9, CancelTypes
<1>b. /\ conn' \in [Conns -> Conn] /\ listeners' = listeners \ leaving
      /\ \A i \in Conns : conn'[i] = next[i] \/ (next[i].pc = "await" /\ conn'[i] = [next[i] EXCEPT !.mine = FALSE])
      /\ \A i \in Conns : conn'[i].pc = next[i].pc
    BY <1>1, <1>8, <1>9, CancelIs, CancelFields
<1>d. ASSUME NEW i \in Conns, i # h PROVE Onward(conn[i], conn'[i])
  <2>1. Onward(conn[i], conn[i])
    <3>1. conn[i] \in Conn /\ Held(conn[i]) /\ Framed(conn[i].out)
        BY <1>0, <1>1 DEF ConnInv, FrameInv
    <3> QED BY <3>1, OnwardSelf
  <2>2. Onward(conn[i], [conn[i] EXCEPT !.mine = FALSE])
      BY <2>1, OnwardMine
  <2> QED BY <1>9, <1>b, <1>d, <2>1, <2>2
<1>e. PICK r \in Conn : r = conn'[h]
    BY <1>2, <1>b
<1>f. Held(r) /\ Framed(r.out) /\ r.pc # "unused"
  <2>1. Onward(q, q)
      BY <1>6, <1>7, OnwardSelf
  <2>2. Onward(q, [q EXCEPT !.mine = FALSE])
      BY <2>1, OnwardMine
  <2>3. r = q \/ r = [q EXCEPT !.mine = FALSE]
      BY <1>2, <1>9, <1>b, <1>e
  <2>4. q.pc # "unused"
      BY <1>2, <1>6
  <2> QED BY <2>1, <2>2, <2>3, <2>4 DEF Onward
<1>g. ConnInv' /\ FrameInv'
  <2>1. ASSUME NEW i \in Conns PROVE Held(conn'[i]) /\ Framed(conn'[i].out) /\ conn'[i].out \in Seq(Frame)
    <3>1. CASE i = h
      <4>1. r.out \in Seq(Frame)
          BY DEF Conn
      <4> QED BY <1>e, <1>f, <3>1, <4>1
    <3>2. CASE i # h
        BY <1>d, <3>2 DEF Onward, Conn
    <3> QED BY <3>1, <3>2
  <2>2. \A i \in Conns : Held(conn[i])'
      BY <1>0, <1>b, <2>1, HeldStays
  <2>3. \A i \in Conns : Framed(conn[i].out)'
      BY <1>0, <2>1, GenuineStays
  <2> QED BY <2>2, <2>3 DEF ConnInv, FrameInv
<1>i. browser' \in [Browsers -> Browser] /\ BrowserInv'
  <2>1. /\ t.state \in {"open", "ended"} <=> t.conn # NoConn
        /\ t.conn \in {h, NoConn} /\ t.state # "open"
        /\ Steady => Past(t.lastId)
        /\ Steady /\ t.state # "ended" => View!Shown(t.screen) = t.lastId \/ Stale(t.lastId)
      BY <1>1, <1>5 DEF Looks
  <2>2. \A i \in Conns : i # h => Onward(conn[i], conn'[i])
      BY <1>d
  <2>3. Sees(t, h, r)
      BY <1>f, <2>1 DEF Sees
  <2> QED BY <1>0, <1>2, <1>4, <1>5, <1>e, <2>2, <2>3, OneLooks
<1>j. TypeOK'
    BY <1>0, <1>1, <1>a, <1>b, <1>i DEF TypeOK, deploy, redis
<1>k. DeployInv' /\ BufferInv' /\ FeedInv'
    BY <1>0, <1>1, LogRests
<1>m. \A i \in Conns : /\ next[i].pc = conn[i].pc /\ next[i].finished = conn[i].finished
                       /\ next[i].mine = conn[i].mine
    BY <1>6, <1>9, <1>c
<1>n. CallInv'
  <2>1. \A i \in Conns : conn[i].pc = "await" => conn'[i].pc = "await"
      BY <1>b, <1>m
  <2> QED BY <1>0, <1>1, <1>a, <2>1, CallsRest
<1>o. HubInv'
  <2>1. \A i \in Conns : next[i].pc = "await" => next[i].mine = conn[i].mine /\ ~next[i].finished
      BY <1>0, <1>m DEF HubInv
  <2>2. ASSUME NEW i \in listeners \ leaving
        PROVE  /\ next[i].pc \in {"backlog", "replay", "live"} /\ ~next[i].finished
               /\ next[i].pc = "live" => ~next[i].closed
    <3>1. CASE i = h
      <4>1. c.pc \in {"backlog", "replay", "live"} /\ ~c.finished /\ (c.pc = "live" => ~c.closed)
          BY <1>0, <1>c, <3>1 DEF HubInv
      <4>2. c.pc # "live"
          BY <1>l, <3>1, <4>1
      <4> QED BY <1>6, <1>9, <3>1, <4>1, <4>2
    <3>2. CASE i # h
        BY <1>0, <1>1, <1>9, <3>2 DEF HubInv
    <3> QED BY <3>1, <3>2
  <2>3. \A i \in Conns : next[i].pc = "await" <=> conn[i].pc = "await"
      BY <1>m
  <2>4. subscribed' = subscribed
      BY <1>1
  <2> QED BY <1>0, <1>8, <1>9, <2>1, <2>2, <2>3, <2>4, CancelKeepsHub
<1>p. AloneInv'
  <2>1. \A i \in Conns : next[i].pc = "await" => next[i].mine = conn[i].mine
      BY <1>m
  <2>2. marred = {} => leaving \subseteq listeners
      BY <1>0, <1>2, <1>c, <1>l DEF AloneInv
  <2>3. ASSUME marred = {}, NEW i \in Conns, ~next[i].finished,
               next[i].pc \in {"backlog", "replay"} \/ (next[i].pc = "live" /\ ~next[i].closed)
        PROVE  i \in listeners /\ i \notin leaving
    <3>1. CASE i = h
      <4>1. c.pc \in {"backlog", "replay"} /\ ~c.finished
          BY <1>6, <1>9, <2>3, <3>1
      <4>2. leaving = {}
          BY <1>l, <4>1
      <4> QED BY <1>0, <1>c, <2>3, <3>1, <4>1, <4>2 DEF AloneInv
    <3>2. CASE i # h
        BY <1>0, <1>9, <1>l, <2>3, <3>2 DEF AloneInv
    <3> QED BY <3>1, <3>2
  <2>4. \A i \in Conns : next[i].pc = "await" <=> conn[i].pc = "await"
      BY <1>m
  <2>5. marred' = marred
      BY <1>1
  <2> QED BY <1>0, <1>8, <1>9, <2>1, <2>2, <2>3, <2>4, <2>5, CancelKeepsAlone
<1>r. HeardInv'
  <2> SUFFICES ASSUME marred = {}
               PROVE  InStep' /\ \A i \in listeners' : Follows(conn'[i], seq' - Len(feed'))
      BY <1>1 DEF HeardInv
  <2>1. InStep'
      BY <1>0, <1>1, <1>a, StillInStep DEF HeardInv, redis
  <2> DEFINE heard == seq - Len(feed)
  <2>2. \A i \in listeners : i \in Conns /\ conn[i].pc # "await" /\ Follows(conn[i], heard)
      BY <1>0, <1>1 DEF HubInv, HeardInv
  <2> HIDE DEF heard
  <2>3. ASSUME NEW i \in listeners' PROVE Follows(conn'[i], heard)
    <3>1. i \in listeners /\ i \notin leaving
        BY <1>b, <2>3
    <3>2. conn'[i] = next[i]
        BY <1>b, <1>m, <2>2, <3>1
    <3>3. CASE i # h
        BY <1>9, <2>2, <3>1, <3>2, <3>3
    <3>4. CASE i = h
      <4>1. Follows(c, heard)
          BY <1>c, <2>2, <3>1, <3>4
      <4>2. Follows(q, heard)
          BY <1>6, <4>1 DEF Follows
      <4> QED BY <1>9, <3>2, <3>4, <4>2
    <3> QED BY <3>3, <3>4
  <2>4. seq' - Len(feed') = heard
      BY <1>1 DEF heard, redis
  <2> QED BY <2>1, <2>3, <2>4
<1> QED BY <1>g, <1>i, <1>j, <1>k, <1>n, <1>o, <1>p, <1>r DEF IInv

\* What a frame does to a browser.
LEMMA ShownIs ==
    ASSUME TypeOK, NEW s \in Browser, NEW f \in Frame, f.kind = "entry" => f.n # 0
    PROVE  LET t == Shown(s, f) IN
           /\ t \in Browser /\ t.conn = s.conn
           /\ f.kind # "entry" => t.lastId = s.lastId
           /\ f.kind = "entry" => t.lastId = f.id
           /\ f.kind = "end" \/ (f.kind = "entry" /\ f.n = EndMark) =>
                t.state = "ended" /\ t.screen = s.screen /\ t.gone = s.gone
           /\ ~(f.kind = "end" \/ (f.kind = "entry" /\ f.n = EndMark)) => t.state = s.state
           /\ f.kind = "reset" => t.screen = <<>> /\ t.gone = FALSE
           /\ f.kind \in {"omitted", "unkept"} => t.screen = s.screen /\ t.gone = TRUE
           /\ f.kind = "archived" => t.screen = [i \in 1..written |-> i] /\ t.gone = s.gone
           /\ f.kind = "entry" /\ f.n # EndMark =>
                /\ t.screen = Append(s.screen, f.n) /\ t.gone = s.gone
                /\ f.n \in 1..MaxChunks
<1>0. /\ s.screen \in Seq(1..MaxChunks) /\ f.n \in 0..EndMark /\ f.id \in Nat
      /\ f.kind \in {"entry", "reset", "omitted", "archived", "unkept", "end"}
    BY DEF Browser, Frame
<1>1. CASE f.kind = "reset"
  <2>1. Shown(s, f) = [s EXCEPT !.screen = <<>>, !.gone = FALSE]
      BY <1>1 DEF Shown
  <2>2. <<>> \in Seq(1..MaxChunks)
      OBVIOUS
  <2> QED BY <1>1, <2>1, <2>2 DEF Browser
<1>2. CASE f.kind \in {"omitted", "unkept"}
  <2>1. Shown(s, f) = [s EXCEPT !.gone = TRUE]
      BY <1>2 DEF Shown
  <2> QED BY <1>2, <2>1 DEF Browser
<1>3. CASE f.kind = "archived"
  <2>1. Shown(s, f) = [s EXCEPT !.screen = [i \in 1..written |-> i]]
      BY <1>3 DEF Shown
  <2>2. [i \in 1..written |-> i] \in Seq(1..MaxChunks)
    <3>1. written \in 0..MaxChunks /\ MaxChunks \in Nat
        BY LogAssumption DEF TypeOK
    <3>2. \A i \in 1..written : i \in 1..MaxChunks
        BY <3>1
    <3>3. written \in Nat
        BY <3>1
    <3> QED BY <3>2, <3>3
  <2> QED BY <1>3, <2>1, <2>2 DEF Browser
<1>4. CASE f.kind = "end"
  <2>1. Shown(s, f) = [s EXCEPT !.state = "ended"]
      BY <1>4 DEF Shown
  <2> QED BY <1>4, <2>1 DEF Browser
<1>5. CASE f.kind = "entry" /\ f.n = EndMark
  <2>1. Shown(s, f) = [s EXCEPT !.state = "ended", !.lastId = f.id]
      BY <1>5 DEF Shown
  <2> QED BY <1>0, <1>5, <2>1 DEF Browser
<1>6. CASE f.kind = "entry" /\ f.n # EndMark
  <2>1. Shown(s, f) = [s EXCEPT !.screen = Append(@, f.n), !.lastId = f.id]
      BY <1>6 DEF Shown
  <2>2. f.n \in 1..MaxChunks
      BY <1>0, <1>6, LogAssumption DEF EndMark
  <2>3. Append(s.screen, f.n) \in Seq(1..MaxChunks)
      BY <1>0, <2>2
  <2> QED BY <1>0, <1>6, <2>1, <2>2, <2>3 DEF Browser
<1> QED BY <1>0, <1>1, <1>2, <1>3, <1>4, <1>5, <1>6

\* The number of a screen to which an entry was added, and of an empty one.
LEMMA ShownLast ==
    /\ \A s \in Seq(1..MaxChunks), n \in 1..MaxChunks : View!Shown(Append(s, n)) = n
    /\ View!Shown(<<>>) = 0
<1>1. ASSUME NEW s \in Seq(1..MaxChunks), NEW n \in 1..MaxChunks
      PROVE  View!Shown(Append(s, n)) = n
  <2> DEFINE r == Append(s, n)
  <2>1. Len(r) = Len(s) + 1 /\ r[Len(s) + 1] = n /\ r # <<>>
      BY AppendIs
  <2> HIDE DEF r
  <2>2. View!Shown(r) = n
      BY <2>1 DEF View!Shown
  <2> QED BY <2>2 DEF r
<1>2. View!Shown(<<>>) = 0
    BY DEF View!Shown
<1> QED BY <1>1, <1>2

\* What fits behind a frame fits when it was shown.
LEMMA FitsOn ==
    ASSUME TypeOK, Steady, NEW s \in Browser, s.state = "open",
           NEW c \in Conn, c.out # <<>>, Watches(s, c), Framed(c.out),
           NEW t, t = Shown(s, Head(c.out)), t.state = "open",
           NEW i \in 1..Len(c.out), NEW id \in Nat \ {0}, Fits(s, c.out, i + 1, id)
    PROVE  Fits(t, Tail(c.out), i, id)
<1>f. PICK f : f = Head(c.out)
    OBVIOUS
<1>o. PICK o : o = Tail(c.out)
    OBVIOUS
<1>0. /\ c.out \in Seq(Frame) /\ f \in Frame /\ f = c.out[1] /\ 1 \in DOMAIN c.out
      /\ Len(c.out) \in Nat \ {0} /\ i \in Int
      /\ \A j \in 1..(Len(c.out) - 1) : o[j] = c.out[j + 1]
  <2>1. c.out \in Seq(Frame)
      BY DEF Conn
  <2>2. /\ Len(c.out) \in Nat \ {0} /\ Head(c.out) = c.out[1] /\ Head(c.out) \in Frame
        /\ DOMAIN c.out = 1..Len(c.out)
        /\ \A j \in 1..(Len(c.out) - 1) : Tail(c.out)[j] = c.out[j + 1]
      BY <2>1, TailIs
  <2> QED BY <1>f, <1>o, <2>1, <2>2
<1>1. f.kind = "entry" => f.n # 0 /\ f.id # 0 /\ Genuine(f.n, f.id)
    BY <1>0 DEF Framed
<1>2. CASE i = 1
  <2>1. \/ /\ f.kind = "entry" /\ id > f.id /\ (marred = {} => id = f.id + 1)
        \/ f.kind = "reset" /\ (marred = {} => id = 1)
        \/ f.kind = "omitted"
    <3>1. i + 1 # 1 /\ (i + 1) - 1 = 1
        BY <1>2
    <3> QED BY <1>0, <3>1 DEF Fits
  <2>2. ASSUME f.kind = "entry" PROVE View!Shown(t.screen) = f.id
    <3>1. f.n # EndMark
        BY <1>0, <1>1, <1>f, <2>2, ShownIs
    <3>2. t.screen = Append(s.screen, f.n) /\ f.n \in 1..MaxChunks
        BY <1>0, <1>1, <1>f, <2>2, <3>1, ShownIs
    <3>3. f.n = f.id
        BY <1>1, <2>2, <3>1 DEF Genuine
    <3>4. s.screen \in Seq(1..MaxChunks)
        BY DEF Browser
    <3> QED BY <3>2, <3>3, <3>4, ShownLast
  <2>3. ASSUME f.kind = "reset" PROVE View!Shown(t.screen) = 0
    <3>1. t.screen = <<>>
        BY <1>0, <1>f, <2>3, ShownIs
    <3> QED BY <3>1, ShownLast
  <2>4. ASSUME f.kind = "omitted" PROVE View!Shown(t.screen) = 0 /\ t.screen = <<>> /\ t.gone
    <3>1. t.screen = s.screen /\ t.gone
      <4>1. f.kind \in {"omitted", "unkept"} /\ f.kind # "entry"
          BY <2>4
      <4>2. Shown(s, f).screen = s.screen /\ Shown(s, f).gone = TRUE
          BY <1>0, <4>1, ShownIs
      <4> QED BY <1>f, <4>2
    <3>2. s.screen = <<>>
        BY <1>0, <2>4 DEF Watches
    <3> QED BY <3>1, <3>2, ShownLast
  <2>5. id > View!Shown(t.screen)
      BY <2>1, <2>2, <2>3, <2>4
  <2>6. marred = {} => id = View!Shown(t.screen) + 1 \/ (t.screen = <<>> /\ t.gone)
    <3>1. CASE f.kind = "entry"
        BY <2>1, <2>2, <3>1
    <3>2. CASE f.kind = "reset"
        BY <2>1, <2>3, <3>2
    <3>3. CASE f.kind = "omitted"
        BY <2>4, <3>3
    <3> QED BY <2>1, <3>1, <3>2, <3>3
  <2>7. Fits(t, o, i, id)
      BY <1>2, <2>5, <2>6 DEF Fits
  <2> QED BY <1>o, <2>7
<1>3. CASE i # 1
  <2>1. i - 1 \in 1..(Len(c.out) - 1) /\ (i - 1) + 1 = i /\ (i + 1) - 1 = i /\ i + 1 # 1
      BY <1>0, <1>3
  <2>2. o[i - 1] = c.out[i]
      BY <1>0, <2>1
  <2>3. Fits(t, o, i, id)
      BY <1>3, <2>1, <2>2 DEF Fits
  <2> QED BY <1>o, <2>3
<1> QED BY <1>2, <1>3

\* The handler whose first frame arrived.
LEMMA ArrivedIs ==
    ASSUME TypeOK, NEW c \in Conn, Held(c), Framed(c.out), c.out # <<>>,
           NEW q, q = [c EXCEPT !.out = Tail(@)]
    PROVE  /\ q \in Conn /\ q.pc = c.pc /\ q.resume = c.resume /\ q.finished = c.finished
           /\ q.mine = c.mine /\ q.plan = c.plan /\ q.pending = c.pending
           /\ q.delivered = c.delivered /\ q.closed = c.closed /\ q.out = Tail(c.out)
           /\ c.pc \in {"archive", "live"}
           /\ c.pc = "archive" => Head(c.out).kind = "reset" /\ q.out = <<>>
           /\ q.out # <<>> /\ q.out[1].kind \in {"reset", "omitted", "archived", "unkept"} =>
                Head(c.out).kind = "reset" /\ q.out[1].kind # "reset"
           /\ Held(q) /\ Framed(q.out)
<1>0. /\ c.out \in Seq(Frame) /\ Tail(c.out) \in Seq(Frame) /\ Head(c.out) = c.out[1]
      /\ Len(c.out) \in Nat \ {0} /\ Len(Tail(c.out)) = Len(c.out) - 1
      /\ DOMAIN Tail(c.out) = 1..(Len(c.out) - 1)
      /\ \A i \in 1..(Len(c.out) - 1) : Tail(c.out)[i] = c.out[i + 1] /\ i + 1 \in DOMAIN c.out /\ i + 1 # 1
  <2>1. c.out \in Seq(Frame)
      BY DEF Conn
  <2> QED BY <2>1, TailIs
<1>1. /\ q \in Conn /\ q.pc = c.pc /\ q.resume = c.resume /\ q.finished = c.finished
      /\ q.mine = c.mine /\ q.plan = c.plan /\ q.pending = c.pending
      /\ q.delivered = c.delivered /\ q.closed = c.closed /\ q.out = Tail(c.out)
    BY <1>0 DEF Conn
<1>2. c.pc \in {"archive", "live"}
    BY DEF Held, Conn
<1>3. c.pc = "archive" => Head(c.out).kind = "reset" /\ Tail(c.out) = <<>>
  <2> SUFFICES ASSUME c.pc = "archive" PROVE Head(c.out).kind = "reset" /\ Tail(c.out) = <<>>
      OBVIOUS
  <2>1. c.out = <<Plain("reset")>>
      BY DEF Held
  <2>2. Plain("reset") \in Frame /\ Plain("reset").kind = "reset"
      BY PlainIs
  <2>3. \A f \in Frame : Head(<<f>>) = f /\ Tail(<<f>>) = <<>>
      OBVIOUS
  <2> QED BY <2>1, <2>2, <2>3
<1>o. PICK o : o = Tail(c.out)
    OBVIOUS
<1>4. Framed(o)
  <2> SUFFICES ASSUME NEW i \in DOMAIN o
               PROVE  /\ o[i].kind = "entry" => o[i].n # 0 /\ o[i].id # 0 /\ Genuine(o[i].n, o[i].id)
                      /\ o[i].kind \in {"archived", "unkept", "end"} => status = "settled"
                      /\ o[i].kind # "reset"
                      /\ o[i].kind \in {"omitted", "archived", "unkept"} => i = 1
      BY DEF Framed
  <2>1. o[i] = c.out[i + 1] /\ i + 1 \in DOMAIN c.out /\ i + 1 # 1 /\ (i + 1 = 2 => i = 1)
      BY <1>0, <1>o
  <2> QED BY <2>1 DEF Framed
<1>5. o # <<>> /\ o[1].kind \in {"reset", "omitted", "archived", "unkept"} =>
         Head(c.out).kind = "reset" /\ o[1].kind # "reset"
  <2> SUFFICES ASSUME o # <<>>, o[1].kind \in {"reset", "omitted", "archived", "unkept"}
               PROVE  Head(c.out).kind = "reset" /\ o[1].kind # "reset"
      OBVIOUS
  <2>1. 1 \in 1..(Len(c.out) - 1)
    <3>1. o \in Seq(Frame) /\ Len(o) = Len(c.out) - 1
        BY <1>0, <1>o
    <3>2. Len(o) \in Nat \ {0}
        BY <3>1, TailIs
    <3> QED BY <1>0, <3>1, <3>2
  <2>2. o[1] = c.out[1 + 1] /\ 1 + 1 \in DOMAIN c.out /\ 1 + 1 # 1
      BY <1>0, <1>o, <2>1
  <2> QED BY <1>0, <2>2 DEF Framed
<1>6. Held(q)
  <2>1. q.pc = "archive" => q.out = <<>>
      BY <1>1, <1>3
  <2> QED BY <1>1, <1>2, <2>1 DEF Held, Resumes
<1> QED BY <1>1, <1>2, <1>3, <1>4, <1>5, <1>6, <1>o

\* A frame arrives at a browser.
LEMMA ReceiveKeeps ==
    ASSUME IInv, Grows, NEW b \in Browsers, Receive(b)
    PROVE  IInv'
<1>0. /\ TypeOK /\ DeployInv /\ BufferInv /\ FeedInv /\ ConnInv /\ FrameInv /\ HubInv /\ CallInv
      /\ AloneInv /\ HeardInv /\ BrowserInv
    BY DEF IInv
<1>s. PICK s : s = browser[b]
    OBVIOUS
<1>h. PICK h : h = s.conn
    OBVIOUS
<1>c. PICK c : c = conn[h]
    OBVIOUS
<1>f. PICK f : f = Head(c.out)
    OBVIOUS
<1>q. PICK q : q = [c EXCEPT !.out = Tail(@)]
    OBVIOUS
<1>t. PICK t : t = Shown(s, f)
    OBVIOUS
<1>1. /\ browser \in [Browsers -> Browser] /\ conn \in [Conns -> Conn]
      /\ s \in Browser /\ Looks(s) /\ s.state = "open" /\ c.out # <<>>
      /\ UNCHANGED <<deploy, wire, redis, subscribed, commands, feed, hub, marred>>
    BY <1>0, <1>c, <1>h, <1>s DEF TypeOK, BrowserInv, Receive
<1>2. /\ h \in Conns /\ h # NoConn /\ c \in Conn /\ c.pc # "unused" /\ Watches(s, c)
      /\ \A d \in Browsers : d # b => browser[d].conn # h
    BY <1>0, <1>1, <1>c, <1>h, <1>s, OpenIs
<1>3. /\ Held(c) /\ Framed(c.out)
    BY <1>0, <1>2, <1>c DEF ConnInv, FrameInv
<1>4. browser' = [browser EXCEPT ![b] = t] /\ conn' = [conn EXCEPT ![h] = q]
  <2>1. /\ browser' = [browser EXCEPT ![b] = Shown(@, Head(conn[h].out))]
        /\ conn' = [conn EXCEPT ![h].out = Tail(@)]
      BY <1>h, <1>s DEF Receive
  <2>2. browser' = [d \in Browsers |-> IF d = b THEN t ELSE browser[d]]
      BY <1>1, <1>c, <1>f, <1>s, <1>t, <2>1
  <2>3. conn' = [i \in Conns |-> IF i = h THEN q ELSE conn[i]]
      BY <1>1, <1>c, <1>q, <2>1
  <2> QED BY <1>1, <2>2, <2>3
<1>5. /\ c.out \in Seq(Frame) /\ f \in Frame /\ f = c.out[1] /\ 1 \in DOMAIN c.out
      /\ Len(c.out) \in Nat \ {0}
  <2>1. c.out \in Seq(Frame)
      BY <1>2 DEF Conn
  <2>2. /\ Len(c.out) \in Nat \ {0} /\ Head(c.out) = c.out[1] /\ Head(c.out) \in Frame
        /\ DOMAIN c.out = 1..Len(c.out)
      BY <1>1, <2>1, TailIs
  <2> QED BY <1>f, <2>1, <2>2
<1>6. f.kind = "entry" => f.n # 0 /\ f.id # 0 /\ Genuine(f.n, f.id)
    BY <1>3, <1>5 DEF Framed
<1>7. /\ t \in Browser /\ t.conn = h /\ t.state \in {"open", "ended"}
      /\ f.kind # "entry" => t.lastId = s.lastId
      /\ f.kind = "entry" => t.lastId = f.id
      /\ t.state = "open" => ~(f.kind = "end" \/ (f.kind = "entry" /\ f.n = EndMark))
      /\ f.kind = "reset" => t.screen = <<>>
      /\ f.kind \in {"omitted", "unkept"} => t.screen = s.screen
      /\ f.kind = "entry" /\ f.n # EndMark => t.screen = Append(s.screen, f.n) /\ f.n \in 1..MaxChunks
  <2>1. /\ t \in Browser /\ t.conn = s.conn
        /\ f.kind # "entry" => t.lastId = s.lastId
        /\ f.kind = "entry" => t.lastId = f.id
      BY <1>0, <1>1, <1>5, <1>6, <1>t, ShownIs
  <2>2. /\ f.kind = "end" \/ (f.kind = "entry" /\ f.n = EndMark) => t.state = "ended"
        /\ ~(f.kind = "end" \/ (f.kind = "entry" /\ f.n = EndMark)) => t.state = s.state
      BY <1>0, <1>1, <1>5, <1>6, <1>t, ShownIs
  <2>3. /\ f.kind = "reset" => t.screen = <<>>
        /\ f.kind \in {"omitted", "unkept"} => t.screen = s.screen
        /\ f.kind = "entry" /\ f.n # EndMark => t.screen = Append(s.screen, f.n) /\ f.n \in 1..MaxChunks
      BY <1>0, <1>1, <1>5, <1>6, <1>t, ShownIs
  <2> QED BY <1>1, <1>h, <2>1, <2>2, <2>3
<1>8. /\ q \in Conn /\ q.pc = c.pc /\ q.resume = c.resume /\ q.finished = c.finished
      /\ q.mine = c.mine /\ q.plan = c.plan /\ q.pending = c.pending
      /\ q.delivered = c.delivered /\ q.closed = c.closed /\ q.out = Tail(c.out)
      /\ c.pc \in {"archive", "live"}
      /\ c.pc = "archive" => f.kind = "reset" /\ q.out = <<>>
      /\ q.out # <<>> /\ q.out[1].kind \in {"reset", "omitted", "archived", "unkept"} =>
           f.kind = "reset" /\ q.out[1].kind # "reset"
      /\ Held(q) /\ Framed(q.out)
    BY <1>0, <1>1, <1>2, <1>3, <1>f, <1>q, ArrivedIs
<1>9. Steady => Past(t.lastId)
  <2>1. CASE f.kind = "entry"
      BY <1>6, <1>7, <2>1 DEF Genuine
  <2>2. CASE f.kind # "entry"
      BY <1>1, <1>7, <2>2 DEF Looks
  <2> QED BY <2>1, <2>2
<1>a. Steady /\ t.state # "ended" => View!Shown(t.screen) = t.lastId \/ Stale(t.lastId)
  <2> SUFFICES ASSUME Steady, t.state = "open"
               PROVE  View!Shown(t.screen) = t.lastId \/ Stale(t.lastId)
      BY <1>7
  <2>1. CASE f.kind = "entry"
    <3>1. f.n # EndMark /\ f.n = f.id
        BY <1>6, <1>7, <2>1 DEF Genuine
    <3>2. View!Shown(t.screen) = f.n
      <4>1. s.screen \in Seq(1..MaxChunks)
          BY <1>1 DEF Browser
      <4> QED BY <1>7, <2>1, <3>1, <4>1, ShownLast
    <3> QED BY <1>7, <2>1, <3>1, <3>2
  <2>2. CASE f.kind \in {"reset", "archived"}
    <3>1. Stale(s.lastId)
        BY <1>1, <1>2, <1>5, <2>2 DEF Watches
    <3> QED BY <1>7, <2>2, <3>1
  <2>3. CASE f.kind \in {"omitted", "unkept"}
    <3>1. t.screen = s.screen /\ t.lastId = s.lastId
        BY <1>7, <2>3
    <3>2. View!Shown(s.screen) = s.lastId \/ Stale(s.lastId)
        BY <1>1 DEF Looks
    <3> QED BY <3>1, <3>2
  <2> QED BY <1>5, <1>7, <2>1, <2>2, <2>3 DEF Frame
<1>b. t.state = "open" => Watches(t, q)
  <2> SUFFICES ASSUME t.state = "open" PROVE Watches(t, q)
      OBVIOUS
  <2>1. q.pc # "live" => ~q.closed
      BY <1>2, <1>8 DEF Watches
  <2>2. q.out # <<>> /\ q.out[1].kind \in {"omitted", "archived", "unkept"} => t.screen = <<>>
      BY <1>7, <1>8
  <2>3. q.pc = "archive" /\ q.out = <<>> => t.screen = <<>>
      BY <1>7, <1>8
  <2>4. ASSUME Steady PROVE Linked(t, q.out) /\ (q.pc = "live" => Ready(t, q))
    <3>0. Len(q.out) = Len(c.out) - 1 /\ DOMAIN q.out = 1..(Len(c.out) - 1)
          /\ \A i \in 1..(Len(c.out) - 1) : q.out[i] = c.out[i + 1] /\ i + 1 \in DOMAIN c.out /\ i \in 1..Len(c.out)
      <4>1. /\ Len(Tail(c.out)) = Len(c.out) - 1 /\ DOMAIN Tail(c.out) = 1..(Len(c.out) - 1)
            /\ \A i \in 1..(Len(c.out) - 1) : Tail(c.out)[i] = c.out[i + 1] /\ i + 1 \in DOMAIN c.out
          BY <1>1, <1>5, TailIs
      <4>2. \A i \in 1..(Len(c.out) - 1) : i \in 1..Len(c.out)
          BY <1>5
      <4> QED BY <1>8, <4>1, <4>2
    <3>1. ASSUME NEW i \in 1..Len(c.out), NEW id \in Nat \ {0}, Fits(s, c.out, i + 1, id)
          PROVE  Fits(t, q.out, i, id)
      <4>1. Fits(t, Tail(c.out), i, id)
          BY <1>0, <1>1, <1>2, <1>3, <1>f, <1>t, <2>4, <3>1, FitsOn
      <4> QED BY <1>8, <4>1
    <3>2. Linked(t, q.out)
      <4> SUFFICES ASSUME NEW i \in DOMAIN q.out, q.out[i].kind = "entry"
                   PROVE  Fits(t, q.out, i, q.out[i].id)
          BY DEF Linked
      <4>1. /\ i \in 1..Len(c.out) /\ i + 1 \in DOMAIN c.out /\ q.out[i] = c.out[i + 1]
          BY <3>0
      <4>2. q.out[i].id \in Nat \ {0}
        <5>1. q.out \in Seq(Frame)
            BY <1>8 DEF Conn
        <5>2. q.out[i] \in Frame
            BY <5>1, ElementIs
        <5>3. q.out[i].id # 0
            BY <1>8 DEF Framed
        <5> QED BY <5>2, <5>3 DEF Frame
      <4>3. Fits(s, c.out, i + 1, q.out[i].id)
          BY <1>2, <2>4, <4>1 DEF Watches, Linked
      <4> QED BY <3>1, <4>1, <4>2, <4>3
    <3>3. q.pc = "live" => Ready(t, q)
      <4> SUFFICES ASSUME q.pc = "live", ~q.closed
                   PROVE  Fits(t, q.out, Len(q.out) + 1, q.delivered + 1)
          BY DEF Ready
      <4>1. Fits(s, c.out, Len(c.out) + 1, c.delivered + 1)
          BY <1>2, <1>8, <2>4 DEF Watches, Ready
      <4>2. Len(q.out) + 1 = Len(c.out) /\ Len(c.out) \in 1..Len(c.out)
          BY <1>5, <3>0
      <4>3. c.delivered + 1 \in Nat \ {0} /\ q.delivered = c.delivered
        <5>1. c.delivered \in Nat
            BY <1>2 DEF Conn
        <5> QED BY <1>8, <5>1
      <4> QED BY <3>1, <4>1, <4>2, <4>3
    <3> QED BY <3>2, <3>3
  <2>5. Steady => (q.pc = "archive" => Stale(t.lastId))
      BY <1>2, <1>7, <1>8 DEF Watches
  <2>6. Steady => (q.out # <<>> /\ q.out[1].kind \in {"reset", "archived"} => Stale(t.lastId))
      BY <1>1, <1>2, <1>5, <1>7, <1>8 DEF Watches
  <2> QED BY <1>8, <2>1, <2>2, <2>3, <2>4, <2>5, <2>6 DEF Watches
<1>c1. conn'[h] = q /\ conn' \in [Conns -> Conn] /\ \A i \in Conns : i # h => conn'[i] = conn[i]
    BY <1>1, <1>2, <1>4, <1>8
<1>d. ASSUME NEW i \in Conns, i # h PROVE Onward(conn[i], conn'[i])
  <2>1. conn[i] \in Conn /\ Held(conn[i]) /\ Framed(conn[i].out)
      BY <1>0, <1>1 DEF ConnInv, FrameInv
  <2> QED BY <1>c1, <1>d, <2>1, OnwardSelf
<1>e. ConnInv' /\ FrameInv'
  <2>1. ASSUME NEW i \in Conns PROVE Held(conn'[i]) /\ Framed(conn'[i].out) /\ conn'[i].out \in Seq(Frame)
    <3>1. CASE i = h
      <4>1. q.out \in Seq(Frame)
          BY <1>8 DEF Conn
      <4> QED BY <1>8, <1>c1, <3>1, <4>1
    <3>2. CASE i # h
        BY <1>d, <3>2 DEF Onward, Conn
    <3> QED BY <3>1, <3>2
  <2>2. \A i \in Conns : Held(conn[i])'
      BY <1>0, <1>c1, <2>1, HeldStays
  <2>3. \A i \in Conns : Framed(conn[i].out)'
      BY <1>0, <2>1, GenuineStays
  <2> QED BY <2>2, <2>3 DEF ConnInv, FrameInv
<1>g. browser' \in [Browsers -> Browser] /\ BrowserInv'
  <2>1. Sees(t, h, q)
    <3>1. t.state \in {"open", "ended"} <=> t.conn # NoConn
        BY <1>2, <1>7
    <3>2. t.conn \in {h, NoConn} /\ q.pc # "unused"
        BY <1>2, <1>7, <1>8
    <3> QED BY <1>9, <1>a, <1>b, <3>1, <3>2 DEF Sees
  <2>2. \A i \in Conns : i # h => Onward(conn[i], conn'[i])
      BY <1>d
  <2> QED BY <1>0, <1>2, <1>4, <1>7, <1>8, <1>c1, <2>1, <2>2, OneLooks
<1>i. CallInv' /\ HubInv' /\ AloneInv' /\ HeardInv'
  <2>1. UNCHANGED <<hub, commands, subscribed, feed, seq, marred>>
      BY <1>1 DEF redis
  <2>2. conn[h].pc # "await" /\ q.pc # "await"
      BY <1>8, <1>c
  <2>3. h \in listeners => /\ q.pc \in {"backlog", "replay", "live"} /\ ~q.finished
                           /\ q.pc = "live" => ~q.closed
      BY <1>0, <1>8, <1>c DEF HubInv
  <2>4. ~q.finished /\ (q.pc \in {"backlog", "replay"} \/ (q.pc = "live" /\ ~q.closed)) =>
             /\ ~conn[h].finished
             /\ conn[h].pc \in {"backlog", "replay"} \/ (conn[h].pc = "live" /\ ~conn[h].closed)
      BY <1>8, <1>c
  <2>5. marred = {} /\ h \in listeners => Follows(q, seq - Len(feed))
    <3> DEFINE heard == seq - Len(feed)
    <3>1. marred = {} /\ h \in listeners => Follows(c, heard)
        BY <1>0, <1>c DEF HeardInv
    <3> HIDE DEF heard
    <3>2. Follows(c, heard) => Follows(q, heard)
        BY <1>8 DEF Follows
    <3>3. marred = {} /\ h \in listeners => Follows(q, heard)
        BY <3>1, <3>2
    <3> QED BY <3>3 DEF heard
  <2> QED BY <1>0, <1>2, <1>4, <2>1, <2>2, <2>3, <2>4, <2>5, OneAside
<1>j. TypeOK'
    BY <1>0, <1>1, <1>c1, <1>g DEF TypeOK, deploy, redis, hub
<1>k. DeployInv' /\ BufferInv' /\ FeedInv'
    BY <1>0, <1>1, LogRests
<1> QED BY <1>e, <1>g, <1>i, <1>j, <1>k DEF IInv

-----------------------------------------------------------------------------
(* The invariant *)

\* All of it holds at the start.
LEMMA InitIInv == Init => IInv
<1> SUFFICES ASSUME Init PROVE IInv
    OBVIOUS
<1>1. TypeOK
  <2>1. /\ <<>> \in Seq(1..EndMark) /\ <<>> \in Seq(Entry) /\ <<>> \in Seq(Frame) /\ <<>> \in Seq(Item)
        /\ <<>> \in Seq(Conns \cup {NoConn}) /\ <<>> \in Seq(1..MaxChunks) /\ Len(<<>>) = 0
      OBVIOUS
  <2>2. Unused \in Conn
      BY <2>1 DEF Unused, Conn
  <2>3. [state |-> "idle", conn |-> NoConn, screen |-> <<>>, gone |-> FALSE, lastId |-> 0] \in Browser
      BY <2>1 DEF Browser
  <2>4. 0 \in 0..MaxChunks /\ Capacity \in Nat
      BY LogAssumption
  <2>5. conn \in [Conns -> Conn] /\ browser \in [Browsers -> Browser]
      BY <2>2, <2>3 DEF Init
  <2>6. buffer \in Seq(Entry) /\ Len(buffer) <= Capacity
      BY <2>1, <2>4 DEF Init
  <2> QED BY <2>1, <2>4, <2>5, <2>6 DEF Init, TypeOK, Item
<1>2. \A h \in Conns : conn[h] = Unused
    BY DEF Init
<1>3. DeployInv /\ FeedInv /\ CallInv
    BY DEF Init, DeployInv, FeedInv, CallInv
<1>4. BufferInv
    BY LogAssumption DEF Init, BufferInv, GenuineSeq
<1>5. HubInv /\ AloneInv
  <2>1. \A h \in Conns : conn[h].pc = "unused"
      BY <1>2 DEF Unused
  <2> QED BY <2>1 DEF Init, HubInv, AloneInv
<1>6. HeardInv
    BY DEF Init, HeardInv, InStep
<1>7. Past(0)
    BY DEF Init, Past
<1>8. ConnInv /\ FrameInv
  <2>1. Framed(Unused.out)
      BY DEF Framed, Unused
  <2>2. GenuineSeq(Unused.plan) /\ GenuineSeq(Unused.pending)
      BY DEF GenuineSeq, Unused
  <2>3. Held(Unused)
      BY <1>7, <2>2 DEF Held, Unused
  <2> QED BY <1>2, <2>1, <2>3 DEF ConnInv, FrameInv
<1>9. BrowserInv
  <2> DEFINE s == [state |-> "idle", conn |-> NoConn, screen |-> <<>>, gone |-> FALSE, lastId |-> 0]
  <2>1. \A b \in Browsers : browser[b] = s
      BY DEF Init
  <2>2. Looks(s)
      BY <1>7, ShownLast DEF Looks
  <2>3. s.conn = NoConn
      OBVIOUS
  <2> HIDE DEF s
  <2> QED BY <2>1, <2>2, <2>3 DEF BrowserInv
<1> QED BY <1>1, <1>3, <1>4, <1>5, <1>6, <1>8, <1>9 DEF IInv

\* Every step keeps it.
LEMMA NextIInv == IInv /\ [Next]_vars => IInv'
<1> SUFFICES ASSUME IInv, [Next]_vars PROVE IInv'
    OBVIOUS
<1>1. Grows
    BY StepGrows DEF IInv
<1>2. CASE Worker
    BY <1>1, <1>2, WorkerKeeps
<1>3. CASE Redis
    BY <1>1, <1>3, PublishKeeps, ExpireKeeps, CommandKeeps, ReconnectKeeps DEF Redis
<1>4. CASE Handler
    BY <1>1, <1>4, HearKeeps, HearAckKeeps, SubscribeKeeps, BacklogKeeps, ReplayKeeps,
       ReadArchiveKeeps DEF Handler
<1>5. CASE Viewer
    BY <1>1, <1>5, ConnectKeeps, ReceiveKeeps, DropKeeps DEF Viewer
<1>6. CASE UNCHANGED vars
  <2>1. UNCHANGED <<deploy, wire, redis, subscribed, commands, feed, hub, conn, browser, marred>>
      BY <1>6 DEF vars
  <2>2. TypeOK'
      BY <2>1 DEF TypeOK, IInv, deploy, redis, hub
  <2>3. DeployInv' /\ BufferInv' /\ FeedInv'
      BY <1>1, <2>1, LogRests DEF IInv
  <2>4. CallInv' /\ HubInv' /\ AloneInv' /\ HeardInv'
      BY <2>1, HubRests DEF IInv, redis
  <2>5. ConnInv' /\ FrameInv' /\ BrowserInv'
      BY <1>1, <2>1, ViewersRest DEF IInv
  <2> QED BY <2>2, <2>3, <2>4, <2>5 DEF IInv
<1> QED BY <1>2, <1>3, <1>4, <1>5, <1>6 DEF Next

\* What the worker, Redis, the hub, the handlers and the browsers keep
\* together, whatever goes wrong on the way.
THEOREM Inductive == Spec => []IInv
    BY InitIInv, NextIInv, PTL DEF Spec

\* Every variable keeps its type.
THEOREM TypeCorrect == Spec => []TypeOK
<1>1. IInv => TypeOK
    BY DEF IInv
<1> QED BY <1>1, Inductive, PTL

\* When every handler has returned, the hub is subscribed exactly while it has
\* listeners, and those are the viewers that are there (LogHub.subscribe and
\* its unsubscribe).
THEOREM HubIsRight == Spec => []HubFollows
<1>1. IInv => HubFollows
  <2> SUFFICES ASSUME IInv, ~Returning PROVE HubFollows
      BY DEF HubFollows
  <2>1. \A h \in Conns : conn[h].pc \in {"unused", "live"}
      BY DEF Returning
  <2>2. listeners \subseteq Conns
      BY DEF IInv, TypeOK
  <2>3. listeners \subseteq {h \in Conns : conn[h].pc = "live" /\ ~conn[h].closed}
      BY <2>1, <2>2 DEF IInv, HubInv
  <2>4. listening <=> listeners # {}
    <3>1. ~(\E h \in Conns : conn[h].pc = "await" /\ conn[h].mine)
        BY <2>1
    <3> QED BY <3>1 DEF IInv, HubInv
  <2>5. commands = <<>> => (subscribed <=> listening)
      BY DEF IInv, HubInv
  <2>6. ASSUME marred = {}, NEW h \in Conns, conn[h].pc = "live", ~conn[h].closed
        PROVE  h \in listeners
    <3>1. ~conn[h].finished
        BY <2>6 DEF IInv, ConnInv, Held
    <3> QED BY <2>6, <3>1 DEF IInv, AloneInv
  <2> QED BY <2>3, <2>4, <2>5, <2>6 DEF HubFollows
<1> QED BY <1>1, Inductive, PTL

-----------------------------------------------------------------------------
(* What the viewers see *)

\* What a browser shows, as LogView has it.
Seen(s) == [screen |-> s.screen, gone |-> s.gone, ended |-> s.state = "ended"]

\* One field of what is shown.
LEMMA SeenParts ==
    ASSUME NEW x, NEW g, NEW e, NEW r, r = [screen |-> x, gone |-> g, ended |-> e]
    PROVE  /\ r.screen = x /\ r.gone = g /\ r.ended = e
           /\ \A y : [r EXCEPT !.screen = y] = [screen |-> y, gone |-> g, ended |-> e]
           /\ \A y : [r EXCEPT !.gone = y] = [screen |-> x, gone |-> y, ended |-> e]
           /\ \A y : [r EXCEPT !.ended = y] = [screen |-> x, gone |-> g, ended |-> y]
    OBVIOUS

\* A step is one of LogView's, if a screen changes as there.
LEMMA ViewSteps ==
    ASSUME NEW b \in Browsers, browser \in [Browsers -> Browser], browser' \in [Browsers -> Browser],
           \A d \in Browsers : d # b => browser'[d] = browser[d],
           NEW s, s = browser[b], NEW t, t = browser'[b], s.state # "ended",
           written' = written, status' = status, marred' = marred
    PROVE  /\ \A n \in 1..written :
                /\ marred = {} => n = View!Shown(s.screen) + 1 \/ (s.screen = <<>> /\ s.gone)
                /\ "quiet" \notin marred => n > View!Shown(s.screen)
                /\ t.screen = Append(s.screen, n) /\ t.gone = s.gone /\ t.state # "ended"
                => View!Follow(b)
           /\ t.screen = <<>> /\ t.gone = FALSE /\ t.state # "ended" => View!Reset(b)
           /\ s.screen = <<>> /\ t.screen = s.screen /\ t.gone = TRUE /\ t.state # "ended" => View!Omit(b)
           /\ status = "settled" /\ s.screen = <<>> /\ t.screen = [i \in 1..written |-> i]
              /\ t.gone = s.gone /\ t.state # "ended"
              => View!Unroll(b)
           /\ status = "settled" /\ t.screen = s.screen /\ t.gone = s.gone /\ t.state = "ended"
              => View!End(b)
<1> DEFINE v == [d \in Browsers |-> [screen |-> browser[d].screen, gone |-> browser[d].gone,
                                     ended  |-> browser[d].state = "ended"]]
           w == [d \in Browsers |-> [screen |-> browser'[d].screen, gone |-> browser'[d].gone,
                                     ended  |-> browser'[d].state = "ended"]]
           D == [screen |-> <<>>, gone |-> FALSE, ended |-> FALSE]
           Still == written' = written /\ (status' = "settled") = (status = "settled") /\ marred' = marred
<1>1. /\ s.gone \in BOOLEAN /\ t.gone \in BOOLEAN
      /\ v[b] = Seen(s) /\ w[b] = Seen(t) /\ \A d \in Browsers : d # b => w[d] = v[d]
    BY DEF Browser, Seen
<1>2. v = [d \in Browsers |-> v[d]] /\ w = [d \in Browsers |-> w[d]]
    OBVIOUS
<1>3. Still
    OBVIOUS
<1>4. \A x : w[b] = x => w = [v EXCEPT ![b] = x]
  <2> HIDE DEF v, w
  <2>1. SUFFICES ASSUME NEW x, w[b] = x PROVE w = [v EXCEPT ![b] = x]
      OBVIOUS
  <2>2. [v EXCEPT ![b] = x] = [d \in Browsers |-> IF d = b THEN x ELSE v[d]]
      BY <1>2
  <2>3. \A d \in Browsers : w[d] = IF d = b THEN x ELSE v[d]
      BY <1>1, <2>1
  <2> QED BY <1>2, <2>2, <2>3
<1>a. (s.state = "ended") = FALSE /\ (t.state # "ended" => (t.state = "ended") = FALSE)
    OBVIOUS
<1>n. PICK no : no = FALSE
    OBVIOUS
<1>y. PICK yes : yes = TRUE
    OBVIOUS
<1>b. Seen(s) = [screen |-> s.screen, gone |-> s.gone, ended |-> no]
    BY <1>a, <1>n, Zenon DEF Seen
<1>c. t.state # "ended" => Seen(t) = [screen |-> t.screen, gone |-> t.gone, ended |-> no]
    BY <1>a, <1>n, Zenon DEF Seen
<1>d. t.state = "ended" => Seen(t) = [screen |-> t.screen, gone |-> t.gone, ended |-> yes]
  <2>1. t.state = "ended" => (t.state = "ended") = TRUE
      OBVIOUS
  <2> QED BY <1>y, <2>1, Zenon DEF Seen
<1>e. /\ Seen(s).screen = s.screen /\ Seen(s).gone = s.gone
      /\ \A y : [Seen(s) EXCEPT !.screen = y] = [screen |-> y, gone |-> s.gone, ended |-> no]
      /\ \A y : [Seen(s) EXCEPT !.gone = y] = [screen |-> s.screen, gone |-> y, ended |-> no]
      /\ \A y : [Seen(s) EXCEPT !.ended = y] = [screen |-> s.screen, gone |-> s.gone, ended |-> y]
    BY <1>b, SeenParts
<1>f. ~Seen(s).ended
  <2>1. Seen(s).ended = no
      BY <1>b, SeenParts
  <2> QED BY <1>n, <2>1, Zenon
<1>5. ASSUME NEW n \in 1..written,
             marred = {} => n = View!Shown(s.screen) + 1 \/ (s.screen = <<>> /\ s.gone),
             "quiet" \notin marred => n > View!Shown(s.screen),
             t.screen = Append(s.screen, n), t.gone = s.gone, t.state # "ended"
      PROVE  View!Follow(b)
  <2>1. w[b] = [v[b] EXCEPT !.screen = Append(@, n)]
    <3>1. Seen(t) = [Seen(s) EXCEPT !.screen = Append(@, n)]
      <4>1. Seen(t) = [screen |-> Append(s.screen, n), gone |-> s.gone, ended |-> no]
          BY <1>5, <1>c
      <4> QED BY <1>e, <4>1
    <3> HIDE DEF v, w
    <3> QED BY <1>1, <3>1
  <2>2. w = [v EXCEPT ![b].screen = Append(@, n)]
    <3> HIDE DEF v, w
    <3> QED BY <1>4, <2>1
  <2>3. ~v[b].ended /\ v[b].screen = s.screen /\ v[b].gone = s.gone
      BY <1>1 DEF Seen
  <2>4. \E k \in 1..written :
           /\ ~v[b].ended
           /\ marred = {} => k = View!Shown(v[b].screen) + 1 \/ (v[b].screen = <<>> /\ v[b].gone)
           /\ "quiet" \notin marred => k > View!Shown(v[b].screen)
           /\ w = [v EXCEPT ![b].screen = Append(@, k)]
           /\ Still
    <3> HIDE DEF v, w, Still
    <3> QED BY <1>3, <1>5, <2>2, <2>3
  <2> QED BY <2>4 DEF View!Follow
<1>6. ASSUME t.screen = <<>>, t.gone = FALSE, t.state # "ended" PROVE View!Reset(b)
  <2>1. w[b] = D /\ ~v[b].ended
      BY <1>1, <1>6 DEF Seen
  <2>2. w = [v EXCEPT ![b] = D]
      BY <1>4, <2>1
  <2> QED BY <1>3, <2>1, <2>2 DEF View!Reset, View!Dark
<1>7. ASSUME s.screen = <<>>, t.screen = s.screen, t.gone = TRUE, t.state # "ended" PROVE View!Omit(b)
  <2>1. w[b] = [v[b] EXCEPT !.gone = TRUE] /\ ~v[b].ended /\ v[b].screen = <<>>
    <3>1. Seen(t) = [Seen(s) EXCEPT !.gone = TRUE] /\ ~Seen(s).ended /\ Seen(s).screen = <<>>
      <4>1. Seen(t) = [screen |-> s.screen, gone |-> TRUE, ended |-> no]
          BY <1>7, <1>c, Zenon
      <4>2. Seen(t) = [Seen(s) EXCEPT !.gone = TRUE]
          BY <1>e, <4>1, Zenon
      <4> QED BY <1>7, <1>e, <1>f, <4>2, Zenon
    <3> HIDE DEF v, w
    <3> QED BY <1>1, <3>1
  <2>2. w = [v EXCEPT ![b].gone = TRUE]
    <3> HIDE DEF v, w
    <3> QED BY <1>4, <2>1
  <2> QED BY <1>3, <2>1, <2>2 DEF View!Omit
<1>8. ASSUME status = "settled", s.screen = <<>>, t.screen = [i \in 1..written |-> i],
             t.gone = s.gone, t.state # "ended"
      PROVE  View!Unroll(b)
  <2>1. w[b] = [v[b] EXCEPT !.screen = [i \in 1..written |-> i]] /\ ~v[b].ended /\ v[b].screen = <<>>
    <3> DEFINE l == [i \in 1..written |-> i]
    <3>0. t.screen = l
        BY <1>8
    <3> HIDE DEF l
    <3>1. Seen(t) = [Seen(s) EXCEPT !.screen = l] /\ ~Seen(s).ended /\ Seen(s).screen = <<>>
      <4>1. Seen(t) = [screen |-> l, gone |-> s.gone, ended |-> no]
          BY <1>8, <1>c, <3>0, Zenon
      <4>2. Seen(t) = [Seen(s) EXCEPT !.screen = l]
          BY <1>e, <4>1, Zenon
      <4> QED BY <1>8, <1>e, <1>f, <4>2, Zenon
    <3> HIDE DEF v, w
    <3>2. w[b] = [v[b] EXCEPT !.screen = l] /\ ~v[b].ended /\ v[b].screen = <<>>
        BY <1>1, <3>1
    <3> QED BY <3>2 DEF l
  <2>2. w = [v EXCEPT ![b].screen = [i \in 1..written |-> i]]
    <3> HIDE DEF v, w
    <3> QED BY <1>4, <2>1
  <2> QED BY <1>3, <1>8, <2>1, <2>2 DEF View!Unroll
<1>9. ASSUME status = "settled", t.screen = s.screen, t.gone = s.gone, t.state = "ended"
      PROVE  View!End(b)
  <2>1. w[b] = [v[b] EXCEPT !.ended = TRUE]
    <3>1. Seen(t) = [Seen(s) EXCEPT !.ended = TRUE]
      <4>1. Seen(t) = [Seen(s) EXCEPT !.ended = yes]
        <5>1. Seen(t) = [screen |-> s.screen, gone |-> s.gone, ended |-> yes]
            BY <1>9, <1>d, Zenon
        <5> QED BY <1>e, <5>1, Zenon
      <4> QED BY <1>y, <4>1, Zenon
    <3> HIDE DEF v, w
    <3> QED BY <1>1, <3>1
  <2>2. w = [v EXCEPT ![b].ended = TRUE]
    <3> HIDE DEF v, w
    <3> QED BY <1>4, <2>1
  <2> QED BY <1>3, <1>9, <2>2 DEF View!End
<1> QED BY <1>5, <1>6, <1>7, <1>8, <1>9

\* A step that changes no screen changes nothing for the viewers.
LEMMA ViewRests ==
    ASSUME \A b \in Browsers : Seen(browser'[b]) = Seen(browser[b])
    PROVE  [b \in Browsers |-> [screen |-> browser'[b].screen, gone |-> browser'[b].gone,
                                ended  |-> browser'[b].state = "ended"]]
           = [b \in Browsers |-> [screen |-> browser[b].screen, gone |-> browser[b].gone,
                                  ended  |-> browser[b].state = "ended"]]
<1> DEFINE v == [b \in Browsers |-> Seen(browser[b])]
           w == [b \in Browsers |-> Seen(browser'[b])]
<1>1. w = v
    OBVIOUS
<1> QED BY <1>1 DEF Seen

\* A frame that arrives changes the screen as LogView has it.
LEMMA ReceiveViews ==
    ASSUME IInv, NEW b \in Browsers, Receive(b)
    PROVE  View!Next
<1>s. PICK s : s = browser[b]
    OBVIOUS
<1>c. PICK c : c = conn[s.conn]
    OBVIOUS
<1>f. PICK f : f = Head(c.out)
    OBVIOUS
<1>t. PICK t : t = Shown(s, f)
    OBVIOUS
<1>1. /\ TypeOK /\ browser \in [Browsers -> Browser]
      /\ s \in Browser /\ Looks(s) /\ s.state = "open" /\ c.out # <<>>
      /\ c \in Conn /\ Watches(s, c) /\ Framed(c.out)
  <2>1. /\ TypeOK /\ BrowserInv /\ FrameInv /\ browser \in [Browsers -> Browser]
        /\ s \in Browser /\ Looks(s) /\ s.state = "open" /\ c.out # <<>>
      BY <1>c, <1>s DEF IInv, TypeOK, BrowserInv, Receive
  <2>2. s.conn \in Conns /\ c \in Conn /\ Watches(s, c)
      BY <1>c, <1>s, <2>1, OpenIs
  <2> QED BY <1>c, <2>1, <2>2 DEF FrameInv
<1>2. /\ browser' = [browser EXCEPT ![b] = t]
      /\ written' = written /\ status' = status /\ marred' = marred
    BY <1>c, <1>f, <1>s, <1>t DEF Receive, deploy
<1>3. c.out \in Seq(Frame) /\ f \in Frame /\ f = c.out[1] /\ 1 \in DOMAIN c.out
  <2>1. c.out \in Seq(Frame)
      BY <1>1 DEF Conn
  <2>2. /\ Len(c.out) \in Nat \ {0} /\ Head(c.out) = c.out[1] /\ Head(c.out) \in Frame
        /\ DOMAIN c.out = 1..Len(c.out)
      BY <1>1, <2>1, TailIs
  <2> QED BY <1>f, <2>1, <2>2
<1>4. f.kind = "entry" => f.n # 0 /\ f.id # 0 /\ Genuine(f.n, f.id)
    BY <1>1, <1>3 DEF Framed
<1>5. t \in Browser
    BY <1>1, <1>3, <1>4, <1>t, ShownIs
<1>6. /\ browser' \in [Browsers -> Browser] /\ t = browser'[b]
      /\ \A d \in Browsers : d # b => browser'[d] = browser[d]
    BY <1>1, <1>2, <1>5
<1>7. s.state # "ended"
    BY <1>1
<1>8. CASE f.kind = "entry" /\ f.n # EndMark
  <2>1. /\ t.screen = Append(s.screen, f.n) /\ t.gone = s.gone /\ f.n \in 1..MaxChunks
        /\ t.state = s.state
    <3>1. ~(f.kind = "end" \/ (f.kind = "entry" /\ f.n = EndMark))
        BY <1>8
    <3> QED BY <1>1, <1>3, <1>4, <1>8, <1>t, <3>1, ShownIs
  <2>2. f.n \in 1..written
    <3>1. f.n <= written /\ written \in 0..MaxChunks
        BY <1>1, <1>4, <1>8 DEF Genuine, TypeOK
    <3> QED BY <2>1, <3>1
  <2>3. ASSUME Steady
        PROVE  /\ f.n > View!Shown(s.screen)
               /\ marred = {} => f.n = View!Shown(s.screen) + 1 \/ (s.screen = <<>> /\ s.gone)
    <3>1. f.n = f.id
        BY <1>4, <1>8, <2>3 DEF Genuine
    <3>2. Fits(s, c.out, 1, f.id)
        BY <1>1, <1>3, <1>8, <2>3 DEF Watches, Linked
    <3>3. /\ f.id > View!Shown(s.screen)
          /\ marred = {} => f.id = View!Shown(s.screen) + 1 \/ (s.screen = <<>> /\ s.gone)
        BY <3>2 DEF Fits
    <3> QED BY <3>1, <3>3
  <2>4. marred = {} => Steady
      BY DEF Steady
  <2>5. "quiet" \notin marred => f.n > View!Shown(s.screen)
      BY <2>3 DEF Steady
  <2>6. marred = {} => f.n = View!Shown(s.screen) + 1 \/ (s.screen = <<>> /\ s.gone)
      BY <2>3, <2>4
  <2>7. t.state # "ended"
      BY <1>1, <2>1
  <2>8. View!Follow(b)
      BY <1>1, <1>2, <1>6, <1>7, <1>s, <2>1, <2>2, <2>5, <2>6, <2>7, ViewSteps
  <2> QED BY <2>8 DEF View!Next
<1>9. CASE f.kind = "end" \/ (f.kind = "entry" /\ f.n = EndMark)
  <2>1. t.state = "ended" /\ t.screen = s.screen /\ t.gone = s.gone
      BY <1>1, <1>3, <1>4, <1>9, <1>t, ShownIs
  <2>2. status = "settled"
    <3>1. CASE f.kind = "end"
        BY <1>1, <1>3, <3>1 DEF Framed
    <3>2. CASE f.kind = "entry" /\ f.n = EndMark
      <4>1. EndMark > written
          BY <1>1, LogAssumption DEF TypeOK, EndMark
      <4>2. ~(EndMark <= written)
        <5>1. EndMark \in Int /\ written \in Int
            BY <1>1, LogAssumption DEF TypeOK, EndMark
        <5> QED BY <4>1, <5>1
      <4> QED BY <1>4, <3>2, <4>2 DEF Genuine
    <3> QED BY <1>9, <3>1, <3>2
  <2>3. View!End(b)
      BY <1>1, <1>2, <1>6, <1>7, <1>s, <2>1, <2>2, ViewSteps
  <2> QED BY <2>3 DEF View!Next
<1>10. CASE f.kind \in {"reset", "omitted", "archived", "unkept"}
  <2>1. t.state # "ended"
    <3>1. ~(f.kind = "end" \/ (f.kind = "entry" /\ f.n = EndMark))
        BY <1>10
    <3>2. t.state = s.state
        BY <1>1, <1>3, <1>4, <1>t, <3>1, ShownIs
    <3> QED BY <1>1, <3>2
  <2>2. CASE f.kind = "reset"
    <3>1. t.screen = <<>> /\ t.gone = FALSE
        BY <1>1, <1>3, <1>4, <1>t, <2>2, ShownIs
    <3>2. View!Reset(b)
        BY <1>1, <1>2, <1>6, <1>7, <1>s, <2>1, <3>1, ViewSteps
    <3> QED BY <3>2 DEF View!Next
  <2>3. CASE f.kind \in {"omitted", "unkept"}
    <3>1. t.screen = s.screen /\ t.gone = TRUE
        BY <1>1, <1>3, <1>4, <1>t, <2>3, ShownIs
    <3>2. s.screen = <<>>
        BY <1>1, <1>3, <2>3 DEF Watches
    <3>3. View!Omit(b)
        BY <1>1, <1>2, <1>6, <1>7, <1>s, <2>1, <3>1, <3>2, ViewSteps
    <3> QED BY <3>3 DEF View!Next
  <2>4. CASE f.kind = "archived"
    <3>1. t.screen = [i \in 1..written |-> i] /\ t.gone = s.gone
        BY <1>1, <1>3, <1>4, <1>t, <2>4, ShownIs
    <3>2. s.screen = <<>> /\ status = "settled"
        BY <1>1, <1>3, <2>4 DEF Watches, Framed
    <3>3. View!Unroll(b)
        BY <1>1, <1>2, <1>6, <1>7, <1>s, <2>1, <3>1, <3>2, ViewSteps
    <3> QED BY <3>3 DEF View!Next
  <2> QED BY <1>10, <2>2, <2>3, <2>4
<1> QED BY <1>3, <1>8, <1>9, <1>10 DEF Frame

\* Every step is one of LogView's, or none.
LEMMA NextViews ==
    ASSUME IInv, [Next]_vars
    PROVE  [View!Next]_(View!vars)
<1> DEFINE Same == \A b \in Browsers : Seen(browser'[b]) = Seen(browser[b])
           v == [b \in Browsers |-> [screen |-> browser[b].screen, gone |-> browser[b].gone,
                                     ended  |-> browser[b].state = "ended"]]
           w == [b \in Browsers |-> [screen |-> browser'[b].screen, gone |-> browser'[b].gone,
                                     ended  |-> browser'[b].state = "ended"]]
<1>0. TypeOK /\ DeployInv
    BY DEF IInv
<1>1. Same => w = v
    BY ViewRests
<1>2. browser' = browser => Same
    OBVIOUS
<1>3. Same /\ UNCHANGED <<written, status, marred>> => UNCHANGED View!vars
    BY <1>1 DEF View!vars
<1>4. Same /\ UNCHANGED <<written, status>> /\ marred \subseteq marred'
      /\ marred' \in SUBSET {"overlap", "lost", "quiet"} => View!Mar
    BY <1>1 DEF View!Mar, View!Causes
<1>5. marred \subseteq {"overlap", "lost", "quiet"}
    BY <1>0 DEF TypeOK
<1>6. CASE Write
  <2>1. /\ status # "settled" /\ status' = status /\ written' = written + 1 /\ marred' = marred
        /\ browser' = browser
      BY <1>0, <1>6 DEF Write, DeployInv
  <2>2. View!Write
      BY <1>1, <1>2, <2>1 DEF View!Write
  <2> QED BY <2>2 DEF View!Next
<1>7. CASE Settle \/ Recover
  <2>1. /\ status' = "settled" /\ written' = written /\ marred' = marred /\ browser' = browser
      BY <1>7 DEF Settle, Recover
  <2>2. CASE status = "settled"
      BY <1>2, <1>3, <2>1, <2>2
  <2>3. CASE status # "settled"
    <3>1. View!Settle
        BY <1>1, <1>2, <2>1, <2>3 DEF View!Settle
    <3> QED BY <3>1 DEF View!Next
  <2> QED BY <2>2, <2>3
<1>8. CASE InsertPointer \/ AnnounceEnd \/ Die \/ Publish \/ Command \/ Hear \/ HearAck
  <2>1. UNCHANGED <<written, status, marred>> /\ browser' = browser
      BY <1>8 DEF InsertPointer, AnnounceEnd, Die, Publish, Command, Hear, HearAck, deploy
  <2> QED BY <1>2, <1>3, <2>1
<1>9. CASE Expire \/ Reconnect \/ \E h \in Conns : Subscribe(h)
  <2>1. UNCHANGED <<written, status>> /\ browser' = browser
      BY <1>9 DEF Expire, Reconnect, Subscribe, deploy
  <2>2. marred' \in {marred, marred \cup {"quiet"}, marred \cup {"lost"}, marred \cup {"overlap"}}
    <3>1. ASSUME NEW h \in Conns, Subscribe(h) PROVE marred' \in {marred, marred \cup {"overlap"}}
        BY <3>1 DEF Subscribe
    <3> QED BY <1>9, <3>1 DEF Expire, Reconnect
  <2>3. marred \subseteq marred' /\ marred' \in SUBSET {"overlap", "lost", "quiet"}
      BY <1>5, <2>2
  <2>4. View!Mar
      BY <1>2, <1>4, <2>1, <2>3
  <2> QED BY <2>4 DEF View!Next
<1>10. ASSUME NEW h \in Conns, Backlog(h) \/ Replay(h) \/ ReadArchive(h)
       PROVE  [View!Next]_(View!vars)
  <2>1. UNCHANGED <<written, status, marred>> /\ browser' = browser
      BY <1>10 DEF Backlog, Replay, ReadArchive, deploy
  <2> QED BY <1>2, <1>3, <2>1
<1>11. ASSUME NEW b \in Browsers, Connect(b) \/ Drop(b)
       PROVE  [View!Next]_(View!vars)
  <2>1. UNCHANGED <<written, status, marred>>
      BY <1>11 DEF Connect, Drop, deploy
  <2>2. PICK s : s = browser[b]
      OBVIOUS
  <2>3. browser \in [Browsers -> Browser] /\ s \in Browser /\ s.state # "ended"
      BY <1>0, <1>11, <2>2 DEF TypeOK, Connect, Drop
  <2>4. PICK t : /\ browser' = [browser EXCEPT ![b] = t]
                 /\ t.screen = s.screen /\ t.gone = s.gone /\ t.state # "ended"
    <3>1. \E k \in {"open", "connecting"}, h \in Conns \cup {NoConn} :
             browser' = [browser EXCEPT ![b].state = k, ![b].conn = h]
      <4>1. CASE Connect(b)
        <5>1. PICK h \in Conns : browser' = [browser EXCEPT ![b].state = "open", ![b].conn = h]
            BY <4>1 DEF Connect
        <5> QED BY <5>1
      <4>2. CASE Drop(b)
        <5>1. browser' = [browser EXCEPT ![b].state = "connecting", ![b].conn = NoConn]
            BY <4>2 DEF Drop
        <5> QED BY <5>1
      <4> QED BY <1>11, <4>1, <4>2
    <3>2. PICK k \in {"open", "connecting"}, h \in Conns \cup {NoConn} :
             browser' = [browser EXCEPT ![b].state = k, ![b].conn = h]
        BY <3>1
    <3> DEFINE t == [s EXCEPT !.state = k, !.conn = h]
    <3>3. browser' = [d \in Browsers |-> IF d = b THEN t ELSE browser[d]]
        BY <2>2, <2>3, <3>2
    <3>4. t.screen = s.screen /\ t.gone = s.gone /\ t.state # "ended"
        BY <2>3, <3>2 DEF Browser
    <3> HIDE DEF t
    <3>5. browser' = [browser EXCEPT ![b] = t]
        BY <2>3, <3>3
    <3> QED BY <3>4, <3>5
  <2>5. Seen(t) = Seen(s)
    <3>1. (t.state = "ended") = (s.state = "ended")
        BY <2>3, <2>4
    <3> QED BY <2>4, <3>1, Zenon DEF Seen
  <2>6. Same
      BY <2>2, <2>3, <2>4, <2>5
  <2> QED BY <1>3, <2>1, <2>6
<1>12. ASSUME NEW b \in Browsers, Receive(b) PROVE View!Next
    BY <1>12, ReceiveViews
<1>13. CASE UNCHANGED vars
  <2>1. UNCHANGED <<written, status, marred>> /\ browser' = browser
      BY <1>13 DEF vars, deploy
  <2> QED BY <1>2, <1>3, <2>1
<1> QED BY <1>6, <1>7, <1>8, <1>9, <1>10, <1>11, <1>12, <1>13
        DEF Next, Worker, Redis, Handler, Viewer

\* What the viewers see is what LogView promises, for any number of browsers,
\* connections and chunks and a buffer of any size, also where the worker
\* dies, messages are lost or Redis forgets the counter (the LogHub, planReplay
\* and replayer of the dashboard, with the script that numbers the entries).
THEOREM LogStreamImplementsView == Spec => ImplementsView
<1>1. Init => View!Init
  <2> SUFFICES ASSUME Init PROVE View!Init
      OBVIOUS
  <2> DEFINE v == [b \in Browsers |-> [screen |-> browser[b].screen, gone |-> browser[b].gone,
                                       ended  |-> browser[b].state = "ended"]]
             D == [screen |-> <<>>, gone |-> FALSE, ended |-> FALSE]
  <2>1. \A b \in Browsers : Seen(browser[b]) = D
    <3> SUFFICES ASSUME NEW b \in Browsers PROVE Seen(browser[b]) = D
        OBVIOUS
    <3>1. /\ browser[b].screen = <<>> /\ browser[b].gone = FALSE
          /\ (browser[b].state = "ended") = FALSE
        BY DEF Init
    <3> QED BY <3>1, Zenon DEF Seen
  <2>2. [b \in Browsers |-> Seen(browser[b])] = [b \in Browsers |-> D]
      BY <2>1, Zenon
  <2>3. v = [b \in Browsers |-> D]
      BY <2>2 DEF Seen
  <2>4. written = 0 /\ (status = "settled") = FALSE /\ marred = {}
      BY DEF Init
  <2> QED BY <2>3, <2>4 DEF View!Init, View!Dark
<1>2. IInv /\ [Next]_vars => [View!Next]_(View!vars)
    BY NextViews
<1> QED BY <1>1, <1>2, Inductive, PTL DEF Spec, ImplementsView, View!Spec

\* Only what goes wrong is remembered, and a screen grows by an entry, starts
\* anew or becomes the log, or stays and may be told that its beginning is gone.
LEMMA ViewMoves ==
    ASSUME TypeOK, [View!Next]_(View!vars), NEW b \in Browsers,
           browser \in [Browsers -> Browser], browser' \in [Browsers -> Browser],
           NEW s, s = browser[b], NEW t, t = browser'[b]
    PROVE  /\ marred \subseteq marred'
           /\ \/ t.screen = s.screen /\ (s.gone => t.gone)
              \/ t.screen = <<>>
              \/ t.screen = [i \in 1..written |-> i]
              \/ \E n \in 1..written :
                   /\ marred = {} => n = View!Shown(s.screen) + 1 \/ (s.screen = <<>> /\ s.gone)
                   /\ "quiet" \notin marred => n > View!Shown(s.screen)
                   /\ t.screen = Append(s.screen, n) /\ t.gone = s.gone
<1> DEFINE v == [d \in Browsers |-> [screen |-> browser[d].screen, gone |-> browser[d].gone,
                                     ended  |-> browser[d].state = "ended"]]
           w == [d \in Browsers |-> [screen |-> browser'[d].screen, gone |-> browser'[d].gone,
                                     ended  |-> browser'[d].state = "ended"]]
           Log == [i \in 1..written |-> i]
           Moves == \/ t.screen = s.screen /\ (s.gone => t.gone)
                    \/ t.screen = <<>>
                    \/ t.screen = Log
                    \/ \E n \in 1..written :
                         /\ marred = {} => n = View!Shown(s.screen) + 1 \/ (s.screen = <<>> /\ s.gone)
                         /\ "quiet" \notin marred => n > View!Shown(s.screen)
                         /\ t.screen = Append(s.screen, n) /\ t.gone = s.gone
<1>1. /\ v[b].screen = s.screen /\ v[b].gone = s.gone
      /\ w[b].screen = t.screen /\ w[b].gone = t.gone
    OBVIOUS
<1>2. \A d \in Browsers : \E x, g, e : v[d] = [screen |-> x, gone |-> g, ended |-> e]
  <2> SUFFICES ASSUME NEW d \in Browsers
               PROVE  \E x, g, e : v[d] = [screen |-> x, gone |-> g, ended |-> e]
      OBVIOUS
  <2>1. PICK e : e = (browser[d].state = "ended")
      OBVIOUS
  <2>2. v[d] = [screen |-> browser[d].screen, gone |-> browser[d].gone, ended |-> e]
      BY <2>1, Zenon
  <2> QED BY <2>2, Zenon
<1>3. \A d \in Browsers : \A y : /\ [v[d] EXCEPT !.screen = y].screen = y
                                 /\ [v[d] EXCEPT !.screen = y].gone = v[d].gone
                                 /\ [v[d] EXCEPT !.gone = y].screen = v[d].screen
                                 /\ [v[d] EXCEPT !.gone = y].gone = y
                                 /\ [v[d] EXCEPT !.ended = y].screen = v[d].screen
                                 /\ [v[d] EXCEPT !.ended = y].gone = v[d].gone
  <2> HIDE DEF v
  <2> QED BY <1>2
<1>4. v = [d \in Browsers |-> v[d]]
    OBVIOUS
<1>5. \A d \in Browsers : \A x : w = [v EXCEPT ![d] = x] => w[b] = IF b = d THEN x ELSE v[b]
  <2> HIDE DEF v, w
  <2> QED BY <1>4
<1>6. marred \subseteq marred' /\ (w = v => Moves)
  <2>1. marred \subseteq marred'
      BY DEF View!Next, View!vars, View!Write, View!Settle, View!Mar, View!Follow, View!Reset,
             View!Omit, View!Unroll, View!End
  <2> HIDE DEF v, w
  <2> QED BY <1>1, <2>1
<1>7. ASSUME View!Write \/ View!Settle \/ View!Mar \/ UNCHANGED View!vars PROVE Moves
  <2>1. w = v
      BY <1>7 DEF View!Write, View!Settle, View!Mar, View!vars
  <2> QED BY <1>6, <2>1
<1>8. ASSUME NEW d \in Browsers, View!Follow(d) PROVE Moves
  <2>1. PICK n \in 1..written :
          /\ marred = {} => n = View!Shown(v[d].screen) + 1 \/ (v[d].screen = <<>> /\ v[d].gone)
          /\ "quiet" \notin marred => n > View!Shown(v[d].screen)
          /\ w = [v EXCEPT ![d].screen = Append(@, n)]
      BY <1>8 DEF View!Follow
  <2> HIDE DEF v, w
  <2>2. PICK x : x = [v[d] EXCEPT !.screen = Append(v[d].screen, n)]
      OBVIOUS
  <2>3. w[b] = IF b = d THEN x ELSE v[b]
    <3>1. w = [v EXCEPT ![d] = x]
        BY <2>1, <2>2
    <3> QED BY <1>5, <3>1
  <2>4. x.screen = Append(v[d].screen, n) /\ x.gone = v[d].gone
      BY <1>3, <2>2
  <2>5. CASE b # d
      BY <1>1, <2>3, <2>5
  <2>6. CASE b = d
    <3>1. t.screen = Append(s.screen, n) /\ t.gone = s.gone
        BY <1>1, <2>3, <2>4, <2>6
    <3>2. v[d].screen = s.screen /\ v[d].gone = s.gone
        BY <1>1, <2>6
    <3> QED BY <2>1, <3>1, <3>2
  <2> QED BY <2>5, <2>6
<1>9. ASSUME NEW d \in Browsers, View!Reset(d) PROVE Moves
  <2>1. w = [v EXCEPT ![d] = [screen |-> <<>>, gone |-> FALSE, ended |-> FALSE]]
      BY <1>9 DEF View!Reset, View!Dark
  <2>2. PICK x : x = [screen |-> <<>>, gone |-> FALSE, ended |-> FALSE]
      OBVIOUS
  <2>5. x.screen = <<>>
      BY <2>2
  <2> HIDE DEF v, w
  <2>3. w = [v EXCEPT ![d] = x]
      BY <2>1, <2>2
  <2>4. w[b] = IF b = d THEN x ELSE v[b]
      BY <1>5, <2>3
  <2> QED BY <1>1, <2>4, <2>5
<1>10. ASSUME NEW d \in Browsers, View!Omit(d) PROVE Moves
  <2>1. w = [v EXCEPT ![d].gone = TRUE]
      BY <1>10 DEF View!Omit
  <2> HIDE DEF v, w
  <2>2. PICK x : x = [v[d] EXCEPT !.gone = TRUE]
      OBVIOUS
  <2>3. w[b] = IF b = d THEN x ELSE v[b]
    <3>1. w = [v EXCEPT ![d] = x]
        BY <2>1, <2>2
    <3> QED BY <1>5, <3>1
  <2>4. x.screen = v[d].screen /\ x.gone
      BY <1>3, <2>2, Zenon
  <2> QED BY <1>1, <2>3, <2>4
<1>11. ASSUME NEW d \in Browsers, View!Unroll(d) PROVE Moves
  <2>1. w = [v EXCEPT ![d].screen = Log]
      BY <1>11 DEF View!Unroll
  <2> HIDE DEF v, w, Log
  <2>2. PICK x : x = [v[d] EXCEPT !.screen = Log]
      OBVIOUS
  <2>3. w[b] = IF b = d THEN x ELSE v[b]
    <3>1. w = [v EXCEPT ![d] = x]
        BY <2>1, <2>2
    <3> QED BY <1>5, <3>1
  <2> QED BY <1>1, <1>3, <2>2, <2>3
<1>12. ASSUME NEW d \in Browsers, View!End(d) PROVE Moves
  <2>1. w = [v EXCEPT ![d].ended = TRUE]
      BY <1>12 DEF View!End
  <2> HIDE DEF v, w
  <2>2. PICK x : x = [v[d] EXCEPT !.ended = TRUE]
      OBVIOUS
  <2>3. w[b] = IF b = d THEN x ELSE v[b]
    <3>1. w = [v EXCEPT ![d] = x]
        BY <2>1, <2>2
    <3> QED BY <1>5, <3>1
  <2> QED BY <1>1, <1>3, <2>2, <2>3
<1> QED
  <2> HIDE DEF v, w, Moves
  <2>1. Moves
      BY <1>7, <1>6, <1>8, <1>9, <1>10, <1>11, <1>12 DEF View!Next
  <2> QED BY <1>6, <2>1 DEF Moves

\* An increasing screen goes on increasing with an entry beyond its last one.
LEMMA AppendIncreasing ==
    ASSUME NEW s \in Seq(Nat), NEW n \in Nat, View!Increasing(s), n > View!Shown(s)
    PROVE  View!Increasing(Append(s, n))
<1> DEFINE t == Append(s, n)
<1>1. /\ Len(t) = Len(s) + 1
      /\ \A i \in 1..Len(s) : t[i] = s[i] /\ s[i] \in Nat
      /\ t[Len(s) + 1] = n
      /\ Len(s) \in Nat
    OBVIOUS
<1> SUFFICES ASSUME NEW i \in 1..Len(t), NEW j \in 1..Len(t), i < j
             PROVE  t[i] < t[j]
    BY DEF View!Increasing
<1>2. CASE j <= Len(s)
    BY <1>1, <1>2 DEF View!Increasing
<1>3. CASE j = Len(s) + 1
  <2>1. i \in 1..Len(s) /\ s # <<>>
      BY <1>1, <1>3
  <2>2. s[i] <= s[Len(s)]
      BY <1>1, <2>1 DEF View!Increasing
  <2>3. s[Len(s)] < n
      BY <2>1 DEF View!Shown
  <2> QED BY <1>1, <1>3, <2>1, <2>2, <2>3
<1> QED BY <1>1, <1>2, <1>3

\* A screen without gaps stays one with the entry that follows its last.
LEMMA AppendConsecutive ==
    ASSUME NEW s \in Seq(Nat), NEW n \in Nat, View!Consecutive(s),
           n = View!Shown(s) + 1 \/ s = <<>>
    PROVE  /\ View!Consecutive(Append(s, n))
           /\ s # <<>> => Append(s, n)[1] = s[1]
           /\ s = <<>> => Append(s, n)[1] = n
<1> DEFINE t == Append(s, n)
<1>1. /\ Len(t) = Len(s) + 1
      /\ \A i \in 1..Len(s) : t[i] = s[i] /\ s[i] \in Nat
      /\ t[Len(s) + 1] = n
      /\ Len(s) \in Nat
      /\ s = <<>> <=> Len(s) = 0
    OBVIOUS
<1>2. ASSUME NEW i \in 1..(Len(t) - 1)
      PROVE  t[i + 1] = t[i] + 1
  <2>1. CASE i < Len(s)
      BY <1>1, <2>1 DEF View!Consecutive
  <2>2. CASE i = Len(s)
    <3>1. s # <<>>
        BY <1>1, <2>2
    <3>2. s[Len(s)] = View!Shown(s)
        BY <3>1 DEF View!Shown
    <3> QED BY <1>1, <2>2, <3>1, <3>2
  <2> QED BY <1>1, <2>1, <2>2
<1>3. View!Consecutive(t)
    BY <1>2 DEF View!Consecutive
<1> QED BY <1>1, <1>3

\* The log itself, as it is put on a screen when the deployment is over, and
\* the empty screen.
LEMMA UnrolledIsWhole ==
    ASSUME NEW n \in Nat
    PROVE  /\ LET s == [i \in 1..n |-> i]
              IN  /\ View!Increasing(s) /\ View!Consecutive(s)
                  /\ s # <<>> => s[1] = 1
           /\ View!Increasing(<<>>) /\ View!Consecutive(<<>>)
<1> DEFINE s == [i \in 1..n |-> i]
<1>1. s \in Seq(Nat) /\ Len(s) = n
    OBVIOUS
<1>2. \A i \in 1..n : s[i] = i
    OBVIOUS
<1>3. View!Increasing(s) /\ View!Consecutive(s)
    BY <1>1, <1>2 DEF View!Increasing, View!Consecutive
<1>4. s # <<>> => s[1] = 1
    BY <1>1, <1>2
<1>5. Len(<<>>) = 0
    OBVIOUS
<1>6. View!Increasing(<<>>) /\ View!Consecutive(<<>>)
    BY <1>5 DEF View!Increasing, View!Consecutive
<1> QED BY <1>1, <1>3, <1>4, <1>6

\* What Ordered and Whole of LogView say of the browsers.
LEMMA ViewSays ==
    /\ View!Ordered <=>
         (Steady => \A b \in Browsers : View!Increasing(browser[b].screen))
    /\ View!Whole <=>
         (marred = {} => \A b \in Browsers :
            /\ View!Consecutive(browser[b].screen)
            /\ browser[b].screen # <<>> => browser[b].screen[1] = 1 \/ browser[b].gone)
    BY DEF View!Ordered, View!Whole, Steady

\* No viewer is shown an entry twice or out of order, unless the entries were
\* counted from 1 again (planReplay and replayer.deliver of the dashboard).
THEOREM ShownInOrder == Spec => []View!Ordered
<1> DEFINE Good(s) == View!Increasing(s.screen)
<1>1. Init => View!Ordered
  <2> SUFFICES ASSUME Init, NEW b \in Browsers PROVE Good(browser[b])
      BY ViewSays
  <2>1. browser[b].screen = <<>>
      BY DEF Init
  <2>2. View!Increasing(<<>>)
      BY UnrolledIsWhole
  <2> QED BY <2>1, <2>2
<1>2. IInv /\ IInv' /\ View!Ordered /\ [View!Next]_(View!vars) => View!Ordered'
  <2> SUFFICES ASSUME IInv, IInv', View!Ordered, [View!Next]_(View!vars), Steady',
                      NEW b \in Browsers
               PROVE  Good(browser'[b])
      BY DEF View!Ordered, Steady
  <2>1. PICK s : s = browser[b]
      OBVIOUS
  <2>2. PICK t : t = browser'[b]
      OBVIOUS
  <2>3. /\ TypeOK /\ browser \in [Browsers -> Browser] /\ browser' \in [Browsers -> Browser]
        /\ written \in Nat
      BY LogAssumption DEF IInv, TypeOK
  <2>4. s.screen \in Seq(1..MaxChunks) /\ s.screen \in Seq(Nat)
    <3>1. s.screen \in Seq(1..MaxChunks) /\ MaxChunks \in Nat
        BY <2>1, <2>3, LogAssumption DEF Browser
    <3> QED BY <3>1
  <2>5. marred \subseteq marred'
      BY <2>1, <2>2, <2>3, ViewMoves
  <2>6. "quiet" \notin marred /\ View!Increasing(s.screen)
    <3>1. Steady
        BY <2>5 DEF Steady
    <3> QED BY <2>1, <3>1, ViewSays DEF Steady
  <2>7. \/ t.screen = s.screen
        \/ t.screen = <<>>
        \/ t.screen = [i \in 1..written |-> i]
        \/ \E n \in 1..written : n > View!Shown(s.screen) /\ t.screen = Append(s.screen, n)
      BY <2>1, <2>2, <2>3, <2>6, ViewMoves
  <2>8. ASSUME NEW n \in 1..written, n > View!Shown(s.screen), t.screen = Append(s.screen, n)
        PROVE  View!Increasing(t.screen)
      BY <2>3, <2>4, <2>6, <2>8, AppendIncreasing
  <2>9. View!Increasing(<<>>) /\ View!Increasing([i \in 1..written |-> i])
      BY <2>3, UnrolledIsWhole
  <2> QED BY <2>2, <2>6, <2>7, <2>8, <2>9
<1>3. IInv /\ [Next]_vars => [View!Next]_(View!vars)
    BY NextViews
<1> QED BY <1>1, <1>2, <1>3, Inductive, PTL DEF Spec

\* Nothing is missing on a screen but a beginning it says is gone, while no
\* two handlers overlapped, no message was lost and the build was not quiet
\* for the life of the buffer.
THEOREM ShownWhole == Spec => []View!Whole
<1> DEFINE Fine(s) == /\ View!Consecutive(s.screen)
                      /\ s.screen # <<>> => s.screen[1] = 1 \/ s.gone
<1>1. Init => View!Whole
  <2> SUFFICES ASSUME Init, NEW b \in Browsers PROVE Fine(browser[b])
      BY ViewSays
  <2>1. browser[b].screen = <<>>
      BY DEF Init
  <2>2. View!Consecutive(<<>>)
      BY UnrolledIsWhole
  <2> QED BY <2>1, <2>2
<1>2. IInv /\ IInv' /\ View!Whole /\ [View!Next]_(View!vars) => View!Whole'
  <2> SUFFICES ASSUME IInv, IInv', View!Whole, [View!Next]_(View!vars), marred' = {},
                      NEW b \in Browsers
               PROVE  Fine(browser'[b])
      BY DEF View!Whole
  <2>1. PICK s : s = browser[b]
      OBVIOUS
  <2>2. PICK t : t = browser'[b]
      OBVIOUS
  <2>3. /\ TypeOK /\ browser \in [Browsers -> Browser] /\ browser' \in [Browsers -> Browser]
        /\ written \in Nat
      BY LogAssumption DEF IInv, TypeOK
  <2>4. s.screen \in Seq(Nat)
    <3>1. s.screen \in Seq(1..MaxChunks) /\ MaxChunks \in Nat
        BY <2>1, <2>3, LogAssumption DEF Browser
    <3> QED BY <3>1
  <2>5. marred = {}
      BY <2>1, <2>2, <2>3, ViewMoves
  <2>6. Fine(s)
      BY <2>1, <2>5, ViewSays
  <2>7. \/ t.screen = s.screen /\ (s.gone => t.gone)
        \/ t.screen = <<>>
        \/ t.screen = [i \in 1..written |-> i]
        \/ \E n \in 1..written :
             /\ n = View!Shown(s.screen) + 1 \/ (s.screen = <<>> /\ s.gone)
             /\ t.screen = Append(s.screen, n) /\ t.gone = s.gone
      BY <2>1, <2>2, <2>3, <2>5, ViewMoves
  <2>8. ASSUME NEW n \in 1..written,
               n = View!Shown(s.screen) + 1 \/ (s.screen = <<>> /\ s.gone),
               t.screen = Append(s.screen, n), t.gone = s.gone
        PROVE  Fine(t)
    <3>1. /\ View!Consecutive(Append(s.screen, n))
          /\ s.screen # <<>> => Append(s.screen, n)[1] = s.screen[1]
          /\ s.screen = <<>> => Append(s.screen, n)[1] = n
        BY <2>3, <2>4, <2>6, <2>8, AppendConsecutive
    <3>2. s.screen = <<>> => n = 1 \/ s.gone
        BY <2>8 DEF View!Shown
    <3> QED BY <2>6, <2>8, <3>1, <3>2
  <2>9. /\ View!Consecutive(<<>>) /\ View!Consecutive([i \in 1..written |-> i])
        /\ [i \in 1..written |-> i] # <<>> => [i \in 1..written |-> i][1] = 1
      BY <2>3, UnrolledIsWhole
  <2>10. CASE t.screen = [i \in 1..written |-> i]
    <3> DEFINE log == [i \in 1..written |-> i]
    <3>1. View!Consecutive(log) /\ (log # <<>> => log[1] = 1) /\ t.screen = log
        BY <2>9, <2>10
    <3> HIDE DEF log
    <3> QED BY <2>2, <3>1
  <2>11. CASE t.screen = <<>> \/ (t.screen = s.screen /\ (s.gone => t.gone))
      BY <2>2, <2>6, <2>9, <2>11
  <2> QED BY <2>2, <2>7, <2>8, <2>10, <2>11
<1>3. IInv /\ [Next]_vars => [View!Next]_(View!vars)
    BY NextViews
<1> QED BY <1>1, <1>2, <1>3, Inductive, PTL DEF Spec
=============================================================================
