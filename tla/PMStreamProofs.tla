--------------------------- MODULE PMStreamProofs ---------------------------
(***************************************************************************)
(* The daemon behind its event stream: it is still the Daemon, so that all *)
(* that is proved of that holds of it, and what it knows of the kernel's   *)
(* connections is exact but for the messages in the buffer.                *)
(*                                                                         *)
(* The argument is that reconcileLocked forgets closed connections only    *)
(* and changes the subflows of none (ReconcileKeeps), so that a message    *)
(* read does to the view of its connection what it does to Replayed.       *)
(***************************************************************************)
EXTENDS PMStream, DaemonTableProofs

EventTypes == Wanted \cup {EventOther}

\* What the kernel sends: subflow events name a subflow.
Messages ==
    {n \in [type : EventTypes, token : Tokens, flow : Flows \cup {None}, attrs : {Attrs}] :
        n.type \notin {EventClosed, EventOther} => n.flow \in Flows}

StreamTypeOK ==
    /\ kernel \in [Tokens -> (SUBSET Flows) \cup {None}]
    /\ fresh \in SUBSET Tokens
    /\ queue \in Seq(Messages)
    /\ overrun \in BOOLEAN

\* Of a connection that is older than the subscription nobody has seen, or
\* will see, how it began.
OldIsUnseen ==
    \A t \in Tokens : kernel[t] # None /\ t \notin fresh =>
        /\ Known(t) => connections[t].initial = None
        /\ \A i \in DOMAIN queue :
              ~(queue[i].token = t /\ queue[i].type = EventEstablished)

StreamInv == StreamTypeOK /\ OldIsUnseen /\ ViewIsExact
-----------------------------------------------------------------------------
(* reconcileLocked and the views *)

\* One turn keeps what was observed of a connection, unless it is closed.
LEMMA TurnKeeps ==
    ASSUME NEW c \in ObservedConnection, NEW m0, NEW ctxs,
           NEW r \in ReconcileConnection(c, m0, ctxs)
    PROVE  \/ c.closed /\ r.conn = None
           \/ /\ r.conn \in ObservedConnection
              /\ r.conn.initial = c.initial /\ r.conn.flows = c.flows
              /\ r.conn.closed = c.closed
  <1>1. c # None
    BY DaemonConstants
  <1>2. ASSUME NEW i \in Ids \cup {None}, NEW e \in BOOLEAN, NEW d,
               d = [c EXCEPT !.owner = i, !.err = e]
        PROVE  /\ d \in ObservedConnection
               /\ d.initial = c.initial /\ d.flows = c.flows /\ d.closed = c.closed
    BY <1>2 DEF ObservedConnection
  <1>3. CASE Retiring(c, ctxs)
    <2>1. CASE c.owner = None
      BY <1>1, <1>3, <2>1 DEF ReconcileConnection, Retire, Result, Retiring
    <2>2. CASE c.owner # None
      <3>1. r.conn = Released(c) \/ r.conn = Kept(c)
        BY <1>1, <1>3, <2>2 DEF ReconcileConnection, Retire, Result
      <3>2. Kept(c) = [c EXCEPT !.owner = c.owner, !.err = TRUE] /\ c.owner \in Ids
        BY <2>2 DEF Kept, ObservedConnection
      <3>3. CASE r.conn = Kept(c)
        <4>1. c.owner \in Ids \cup {None} /\ TRUE \in BOOLEAN
          BY <3>2
        <4>2. r.conn = [c EXCEPT !.owner = c.owner, !.err = TRUE]
          BY <3>2, <3>3
        <4>3. /\ r.conn \in ObservedConnection
              /\ r.conn.initial = c.initial /\ r.conn.flows = c.flows
              /\ r.conn.closed = c.closed
          BY <1>2, <4>1, <4>2
        <4>4. QED
          BY <4>3
      <3>4. CASE r.conn = Released(c)
        BY <1>2, <3>4 DEF Released
      <3>5. QED
        BY <3>1, <3>3, <3>4
    <2>3. QED
      BY <2>1, <2>2
  <1>4. CASE ~Retiring(c, ctxs)
    <2>1. PICK i \in OwnerChoices(c, ctxs) : r \in Install(c, m0, i, ctxs)
      BY <1>1, <1>4 DEF ReconcileConnection
    <2>2. i \in Ids \cup {None}
      BY DEF OwnerChoices, Candidates, ObservedConnection
    <2>3. r.conn = c \/ \E e \in BOOLEAN : r.conn = [c EXCEPT !.owner = i, !.err = e]
      <3>1. CASE i = None \/ ctxs[i] = None
        <4>1. Install(c, m0, i, ctxs) = {Result(c, m0)}
          BY <3>1 DEF Install
        <4>2. r = Result(c, m0)
          BY <2>1, <4>1
        <4>3. r.conn = c
          BY <4>2 DEF Result
        <4>4. QED
          BY <4>3
      <3>2. CASE ~(i = None \/ ctxs[i] = None)
        <4>1. PICK o \in ApplyConnection(m0, c, ctxs[i]) :
                 r = Result([c EXCEPT !.owner = i, !.err = ~o.ok], o.maps)
          BY <2>1, <3>2 DEF Install
        <4>2. (~o.ok) \in BOOLEAN
          OBVIOUS
        <4>3. r.conn = [c EXCEPT !.owner = i, !.err = ~o.ok]
          BY <4>1 DEF Result
        <4>4. QED
          BY <4>2, <4>3
      <3>3. QED
        BY <3>1, <3>2
    <2>4. QED
      BY <1>2, <2>2, <2>3
  <1>5. QED
    BY <1>3, <1>4

\* reconcileLocked forgets closed connections only.
LEMMA ReconcileKeeps ==
    ASSUME NEW ctxs, NEW conns \in ConnType, ReconcileLocked(ctxs, conns),
           NEW t \in Tokens
    PROVE  IF connections'[t] = None THEN conns[t] = None \/ conns[t].closed
           ELSE /\ conns[t] # None
                /\ connections'[t].initial = conns[t].initial
                /\ connections'[t].flows = conns[t].flows
                /\ connections'[t].closed = conns[t].closed
  <1> DEFINE turn == [u \in Tokens |-> ReconcileConnection(conns[u], maps[u], ctxs)]
  <1>1. PICK out : /\ \A u \in Tokens : out[u] \in turn[u]
                   /\ connections' = [u \in Tokens |-> out[u].conn]
    BY DEF ReconcileLocked
  <1>2. out[t] \in ReconcileConnection(conns[t], maps[t], ctxs)
    BY <1>1
  <1>3. connections'[t] = out[t].conn
    BY <1>1
  <1>4. CASE conns[t] = None
    BY <1>2, <1>3, <1>4 DEF ReconcileConnection, Result
  <1>5. CASE conns[t] # None
    <2>1. conns[t] \in ObservedConnection
      BY <1>5 DEF ConnType
    <2> HIDE DEF turn
    <2>2. \/ conns[t].closed /\ out[t].conn = None
          \/ /\ out[t].conn \in ObservedConnection
             /\ out[t].conn.initial = conns[t].initial
             /\ out[t].conn.flows = conns[t].flows
             /\ out[t].conn.closed = conns[t].closed
      BY <1>2, <2>1, TurnKeeps
    <2>3. QED
      BY <1>3, <1>5, <2>2, DaemonConstants
  <1>6. QED
    BY <1>4, <1>5

\* What the daemon will know of a connection that it now finds as c.
ViewOf(c) == IF c # None /\ ~c.closed THEN Observed(c) ELSE {}

LEMMA ReconcileViews ==
    ASSUME NEW ctxs, NEW conns \in ConnType, ReconcileLocked(ctxs, conns),
           NEW t \in Tokens
    PROVE  /\ View(t)' = ViewOf(conns[t])
           /\ connections'[t] # None =>
                 conns[t] # None /\ connections'[t].initial = conns[t].initial
  BY ReconcileKeeps DEF View, ViewOf, Known, Observed
-----------------------------------------------------------------------------
(* Messages *)

\* The view of t after one more message.
Effect(n, t, V) == {f \in Flows : Adds(n, t, f) \/ (f \in V /\ ~Drops(n, t, f))}

Replay(V, q, t) ==
    {f \in Flows :
        \/ f \in V /\ \A j \in DOMAIN q : ~Drops(q[j], t, f)
        \/ \E i \in DOMAIN q :
              /\ Adds(q[i], t, f)
              /\ \A j \in DOMAIN q : j > i => ~Drops(q[j], t, f)}

LEMMA ReplayedIsReplay == \A t : Replayed(t) = Replay(View(t), queue, t)
  BY DEF Replayed, Replay

LEMMA ReplayAppend ==
    ASSUME NEW q \in Seq(Messages), NEW n \in Messages, NEW t \in Tokens, NEW V
    PROVE  Replay(V, Append(q, n), t) = Effect(n, t, Replay(V, q, t))
  <1> DEFINE a == Append(q, n)
             N == Len(q) + 1
  <1>1. Len(q) \in Nat /\ DOMAIN q = 1 .. Len(q)
    OBVIOUS
  <1>2. /\ DOMAIN a = 1 .. N /\ a[N] = n
        /\ \A j \in 1 .. Len(q) : a[j] = q[j]
    OBVIOUS
  <1> HIDE DEF a
  <1>3. ASSUME NEW f \in Flows
        PROVE  f \in Replay(V, a, t) <=> f \in Effect(n, t, Replay(V, q, t))
    <2>1. (\A j \in DOMAIN a : ~Drops(a[j], t, f))
             <=> (\A j \in DOMAIN q : ~Drops(q[j], t, f)) /\ ~Drops(n, t, f)
      <3>1. \A j : j \in DOMAIN a <=> j \in DOMAIN q \/ j = N
        BY <1>1, <1>2
      <3>2. QED
        BY <1>1, <1>2, <3>1
    <2>2. ASSUME NEW i \in DOMAIN q
          PROVE  (\A j \in DOMAIN a : j > i => ~Drops(a[j], t, f))
                   <=> /\ \A j \in DOMAIN q : j > i => ~Drops(q[j], t, f)
                       /\ ~Drops(n, t, f)
      <3>1. \A j : j \in DOMAIN a <=> j \in DOMAIN q \/ j = N
        BY <1>1, <1>2
      <3>2. N > i
        BY <1>1
      <3>3. QED
        BY <1>1, <1>2, <3>1, <3>2
    <2>3. \A j \in DOMAIN a : ~(j > N)
      BY <1>1, <1>2
    <2>4. (\E i \in DOMAIN a : /\ Adds(a[i], t, f)
                               /\ \A j \in DOMAIN a : j > i => ~Drops(a[j], t, f))
             <=> \/ Adds(n, t, f)
                 \/ /\ \E i \in DOMAIN q :
                          /\ Adds(q[i], t, f)
                          /\ \A j \in DOMAIN q : j > i => ~Drops(q[j], t, f)
                    /\ ~Drops(n, t, f)
      <3>1. \A j : j \in DOMAIN a <=> j \in DOMAIN q \/ j = N
        BY <1>1, <1>2
      <3>2. \A i \in DOMAIN q : a[i] = q[i]
        BY <1>1, <1>2
      <3>3. QED
        BY <1>2, <2>2, <2>3, <3>1, <3>2
    <2>5. QED
      BY <2>1, <2>4 DEF Replay, Effect
  <1>4. QED
    BY <1>3 DEF Replay, Effect, a

LEMMA ReplayTail ==
    ASSUME NEW q \in Seq(Messages), q # <<>>, NEW t \in Tokens, NEW V
    PROVE  Replay(Effect(Head(q), t, V), Tail(q), t) = Replay(V, q, t)
  <1> DEFINE r == Tail(q)
             n == Head(q)
             W == Effect(n, t, V)
  <1>1. Len(q) \in Nat \ {0} /\ DOMAIN q = 1 .. Len(q) /\ n = q[1]
    OBVIOUS
  <1>2. /\ DOMAIN r = 1 .. Len(q) - 1
        /\ \A j \in 1 .. Len(q) - 1 : r[j] = q[j + 1]
    OBVIOUS
  <1>3. \A f \in Flows : f \in W <=> Adds(n, t, f) \/ (f \in V /\ ~Drops(n, t, f))
    BY DEF Effect
  <1> HIDE DEF r, n, W
  <1>4. ASSUME NEW f \in Flows
        PROVE  f \in Replay(W, r, t) <=> f \in Replay(V, q, t)
    <2>1. 1 \in DOMAIN q /\ \A j \in DOMAIN r : j + 1 \in DOMAIN q /\ q[j + 1] = r[j]
      BY <1>1, <1>2
    <2>2. \A j \in DOMAIN q : j = 1 \/ (j - 1 \in DOMAIN r /\ r[j - 1] = q[j])
      BY <1>1, <1>2
    <2>3. (\A j \in DOMAIN q : ~Drops(q[j], t, f))
             <=> ~Drops(n, t, f) /\ \A j \in DOMAIN r : ~Drops(r[j], t, f)
      BY <1>1, <2>1, <2>2
    <2>4. (\A j \in DOMAIN q : j > 1 => ~Drops(q[j], t, f))
             <=> \A j \in DOMAIN r : ~Drops(r[j], t, f)
      <3>1. \A j \in DOMAIN r : j + 1 > 1
        BY <1>1, <1>2
      <3>2. \A j \in DOMAIN q : j > 1 => j # 1
        BY <1>1
      <3>3. QED
        BY <2>1, <2>2, <3>1, <3>2
    <2>5. ASSUME NEW i \in DOMAIN r
          PROVE  (\A j \in DOMAIN q : j > i + 1 => ~Drops(q[j], t, f))
                   <=> \A j \in DOMAIN r : j > i => ~Drops(r[j], t, f)
      <3>1. \A j \in DOMAIN r : j > i => j + 1 > i + 1
        BY <1>1, <1>2
      <3>2. \A j \in DOMAIN q : j > i + 1 => j # 1 /\ j - 1 > i
        BY <1>1, <1>2
      <3>3. QED
        BY <2>1, <2>2, <3>1, <3>2
    <2>6. (\E i \in DOMAIN q : /\ Adds(q[i], t, f)
                               /\ \A j \in DOMAIN q : j > i => ~Drops(q[j], t, f))
             <=> \/ /\ Adds(n, t, f)
                    /\ \A j \in DOMAIN r : ~Drops(r[j], t, f)
                 \/ \E i \in DOMAIN r :
                       /\ Adds(r[i], t, f)
                       /\ \A j \in DOMAIN r : j > i => ~Drops(r[j], t, f)
      <3>1. ASSUME NEW i \in DOMAIN q, Adds(q[i], t, f),
                   \A j \in DOMAIN q : j > i => ~Drops(q[j], t, f)
            PROVE  \/ /\ Adds(n, t, f)
                      /\ \A j \in DOMAIN r : ~Drops(r[j], t, f)
                   \/ \E h \in DOMAIN r :
                         /\ Adds(r[h], t, f)
                         /\ \A j \in DOMAIN r : j > h => ~Drops(r[j], t, f)
        <4>1. CASE i = 1
          BY <1>1, <2>4, <3>1, <4>1
        <4>2. CASE i # 1
          <5>1. i - 1 \in DOMAIN r /\ r[i - 1] = q[i] /\ (i - 1) + 1 = i
            BY <1>1, <2>2, <4>2
          <5>2. \A j \in DOMAIN r : j > i - 1 => ~Drops(r[j], t, f)
            BY <2>5, <3>1, <5>1
          <5>3. QED
            BY <3>1, <5>1, <5>2
        <4>3. QED
          BY <4>1, <4>2
      <3>2. ASSUME Adds(n, t, f), \A j \in DOMAIN r : ~Drops(r[j], t, f)
            PROVE  \E i \in DOMAIN q :
                      /\ Adds(q[i], t, f)
                      /\ \A j \in DOMAIN q : j > i => ~Drops(q[j], t, f)
        BY <1>1, <2>1, <2>4, <3>2
      <3>3. ASSUME NEW h \in DOMAIN r, Adds(r[h], t, f),
                   \A j \in DOMAIN r : j > h => ~Drops(r[j], t, f)
            PROVE  \E i \in DOMAIN q :
                      /\ Adds(q[i], t, f)
                      /\ \A j \in DOMAIN q : j > i => ~Drops(q[j], t, f)
        BY <2>1, <2>5, <3>3
      <3>4. QED
        BY <3>1, <3>2, <3>3
    <2>7. QED
      BY <1>3, <2>3, <2>6 DEF Replay
  <1>5. QED
    BY <1>4 DEF Replay, r, n, W
-----------------------------------------------------------------------------
(* The stream drives the daemon *)

\* What Run has decoded: like a message, but for attributes that are lost.
Typed(m) ==
    /\ m.type \in EventTypes /\ m.token \in Tokens
    /\ m.type \notin {EventClosed, EventOther} => m.flow \in Flows

LEMMA ReadingsAreTyped ==
    ASSUME NEW n \in Messages, NEW m \in Readings(n)
    PROVE  /\ Typed(m)
           /\ m.type = n.type /\ m.token = n.token /\ m.flow = n.flow
  BY DEF Readings, Messages, Typed

\* Sending keeps the types.
LEMMA SendType ==
    ASSUME queue \in Seq(Messages), overrun \in BOOLEAN, NEW n \in Messages, Send(n)
    PROVE  queue' \in Seq(Messages) /\ overrun' \in BOOLEAN
  <1>1. Append(queue, n) \in Seq(Messages)
    OBVIOUS
  <1>2. CASE Len(queue) < MaxQueue
    BY <1>1, <1>2 DEF Send
  <1>3. CASE ~(Len(queue) < MaxQueue)
    BY <1>3 DEF Send
  <1>4. QED
    BY <1>2, <1>3

LEMMA MessageType ==
    ASSUME NEW type \in EventTypes, NEW t \in Tokens, NEW f \in Flows \cup {None},
           type \notin {EventClosed, EventOther} => f \in Flows
    PROVE  Message(type, t, f) \in Messages
  BY DEF Message, Messages

\* One thing that happens in the kernel, and the message that tells of it.
KernelStep(t, n) ==
    \/ CloseConnection(t) /\ n = Message(EventClosed, t, None)
    \/ /\ n = Message(EventOther, t, None)
       /\ Send(n) /\ UNCHANGED <<kernel, fresh>>
    \/ \E f \in Flows :
          \/ Establish(t, f) /\ n = Message(EventEstablished, t, f)
          \/ Join(t, f) /\ n = Message(EventSubEstablished, t, f)
          \/ Leave(t, f) /\ n = Message(EventSubClosed, t, f)

LEMMA KernelSteps ==
    ASSUME Kernel
    PROVE  /\ streaming /\ UNCHANGED vars
           /\ \E t \in Tokens, n \in Messages : Send(n) /\ KernelStep(t, n)
  <1>1. PICK t \in Tokens :
           \/ CloseConnection(t)
           \/ Send(Message(EventOther, t, None)) /\ UNCHANGED <<kernel, fresh>>
           \/ \E f \in Flows : Establish(t, f) \/ Join(t, f) \/ Leave(t, f)
    BY DEF Kernel
  <1>2. /\ EventClosed \in EventTypes /\ EventOther \in EventTypes
        /\ EventEstablished \in EventTypes /\ EventSubEstablished \in EventTypes
        /\ EventSubClosed \in EventTypes
        /\ {EventEstablished, EventSubEstablished, EventSubClosed}
              \cap {EventClosed, EventOther} = {}
    BY DEF EventTypes, Wanted, EventClosed, EventOther, EventEstablished,
           EventSubEstablished, EventSubClosed
  <1>3. CASE CloseConnection(t)
    <2>1. Message(EventClosed, t, None) \in Messages
      BY <1>2, MessageType
    <2>2. QED
      BY <1>3, <2>1 DEF Kernel, KernelStep, CloseConnection
  <1>4. CASE Send(Message(EventOther, t, None)) /\ UNCHANGED <<kernel, fresh>>
    <2>1. Message(EventOther, t, None) \in Messages
      BY <1>2, MessageType
    <2>2. QED
      BY <1>4, <2>1 DEF Kernel, KernelStep
  <1>5. ASSUME NEW f \in Flows, Establish(t, f)
        PROVE  \E n \in Messages : Send(n) /\ KernelStep(t, n)
    <2>1. Message(EventEstablished, t, f) \in Messages
      BY <1>2, MessageType
    <2>2. QED
      BY <1>5, <2>1 DEF KernelStep, Establish
  <1>6. ASSUME NEW f \in Flows, Join(t, f)
        PROVE  \E n \in Messages : Send(n) /\ KernelStep(t, n)
    <2>1. Message(EventSubEstablished, t, f) \in Messages
      BY <1>2, MessageType
    <2>2. QED
      BY <1>6, <2>1 DEF KernelStep, Join
  <1>7. ASSUME NEW f \in Flows, Leave(t, f)
        PROVE  \E n \in Messages : Send(n) /\ KernelStep(t, n)
    <2>1. Message(EventSubClosed, t, f) \in Messages
      BY <1>2, MessageType
    <2>2. QED
      BY <1>7, <2>1 DEF KernelStep, Leave
  <1>8. streaming /\ UNCHANGED vars
    BY DEF Kernel
  <1>9. QED
    BY <1>1, <1>3, <1>4, <1>5, <1>6, <1>7, <1>8

LEMMA StreamTypeStep == StreamTypeOK /\ [StreamNext]_streamVars => StreamTypeOK'
  <1> SUFFICES ASSUME StreamTypeOK, [StreamNext]_streamVars PROVE StreamTypeOK'
    OBVIOUS
  <1>1. CASE Kernel
    <2>1. PICK t \in Tokens, n \in Messages : Send(n) /\ KernelStep(t, n)
      BY <1>1, KernelSteps
    <2>2. queue' \in Seq(Messages) /\ overrun' \in BOOLEAN
      BY <2>1, SendType DEF StreamTypeOK
    <2>3. /\ kernel' \in [Tokens -> (SUBSET Flows) \cup {None}]
          /\ fresh' \in SUBSET Tokens
      BY <2>1 DEF KernelStep, CloseConnection, Establish, Join, Leave, StreamTypeOK
    <2>4. QED
      BY <2>2, <2>3 DEF StreamTypeOK
  <1>2. CASE Receive
    BY <1>2 DEF Receive, StreamTypeOK
  <1>3. CASE ReadFails
    BY <1>3 DEF ReadFails, StreamTypeOK
  <1>4. CASE Others
    BY <1>4 DEF Others, StreamTypeOK
  <1>5. CASE UNCHANGED streamVars
    BY <1>5 DEF streamVars, StreamTypeOK
  <1>6. QED
    BY <1>1, <1>2, <1>3, <1>4, <1>5 DEF StreamNext

\* The kernel, its messages and the buffer keep their types.
THEOREM StreamTypeCorrect == StreamSpec => []StreamTypeOK
  <1>1. StreamInit => StreamTypeOK
    <2> SUFFICES ASSUME StreamInit PROVE StreamTypeOK
      OBVIOUS
    <2>1. {None, {}} \subseteq (SUBSET Flows) \cup {None}
      OBVIOUS
    <2>2. kernel \in [Tokens -> (SUBSET Flows) \cup {None}]
      BY <2>1 DEF StreamInit
    <2>3. queue \in Seq(Messages)
      BY DEF StreamInit
    <2>4. fresh \in SUBSET Tokens /\ overrun \in BOOLEAN
      BY DEF StreamInit
    <2>5. QED
      BY <2>2, <2>3, <2>4 DEF StreamTypeOK
  <1>2. QED
    BY <1>1, StreamTypeStep, PTL DEF StreamSpec

\* What Observe does with a message is a step of the daemon.
LEMMA ObserveIsStep ==
    ASSUME NEW m, Typed(m), NEW ix \in EventIndexes, Observe(m, ix)
    PROVE  [Next]_vars
  <1>1. CASE m.type = EventClosed
    BY <1>1 DEF Observe, Typed, Next, EventClosed, EventSubClosed, EventEstablished,
                EventSubEstablished, EventOther
  <1>2. CASE m.type = EventSubClosed
    <2>1. m.token \in Tokens /\ m.flow \in Flows /\ FALSE \in BOOLEAN
      BY <1>2 DEF Typed, EventClosed, EventSubClosed, EventOther
    <2>2. \/ ObserveSubClosed(m.token, m.flow)
          \/ ObserveRefused(m.token, m.flow, FALSE)
          \/ UNCHANGED vars
      BY <1>2 DEF Observe, EventClosed, EventSubClosed, EventEstablished,
                  EventSubEstablished, EventOther
    <2>3. QED
      BY <2>1, <2>2 DEF Next
  <1>3. CASE m.type \in {EventEstablished, EventSubEstablished}
    <2> DEFINE e == m.type = EventEstablished
    <2>1. m.token \in Tokens /\ m.flow \in Flows /\ e \in BOOLEAN
      BY <1>3 DEF Typed, EventEstablished, EventSubEstablished, EventClosed, EventOther
    <2>2. \/ ObserveEstablished(m.token, m.flow, ix, e)
          \/ ObserveRefused(m.token, m.flow, e)
          \/ ObserveOverflow(m.token, m.flow, e)
      BY <1>3 DEF Observe, EventClosed, EventSubClosed, EventEstablished,
                  EventSubEstablished, EventOther
    <2> HIDE DEF e
    <2>3. QED
      BY <2>1, <2>2 DEF Next
  <1>4. CASE m.type = EventOther
    BY <1>4 DEF Observe, EventClosed, EventSubClosed, EventEstablished,
                EventSubEstablished, EventOther
  <1>5. QED
    BY <1>1, <1>2, <1>3, <1>4 DEF Typed, EventTypes, Wanted

LEMMA StreamStepIsStep ==
    StreamTypeOK /\ [StreamNext]_streamVars => [Next]_vars
  <1> SUFFICES ASSUME StreamTypeOK, [StreamNext]_streamVars PROVE [Next]_vars
    OBVIOUS
  <1>1. CASE Kernel
    BY <1>1 DEF Kernel
  <1>2. CASE Receive
    <2>1. PICK m \in Readings(Head(queue)), ix \in EventIndexes : HandleMessage(m, ix)
      BY <1>2 DEF Receive
    <2>2. Head(queue) \in Messages
      BY <1>2 DEF Receive, StreamTypeOK
    <2>3. Typed(m)
      BY <2>2, ReadingsAreTyped
    <2>4. CASE Decodes(m)
      BY <2>1, <2>3, <2>4, ObserveIsStep DEF HandleMessage
    <2>5. CASE ~Decodes(m)
      BY <2>1, <2>5 DEF HandleMessage, Next
    <2>6. QED
      BY <2>4, <2>5
  <1>3. CASE ReadFails
    BY <1>3 DEF ReadFails, Next
  <1>4. CASE Others
    BY <1>4 DEF Others, Next
  <1>5. CASE UNCHANGED streamVars
    BY <1>5 DEF streamVars
  <1>6. QED
    BY <1>1, <1>2, <1>3, <1>4, <1>5 DEF StreamNext

(***************************************************************************)
(* Behind its event stream the daemon is still the Daemon: the order of    *)
(* the events, and which of them arrive, is one of those Daemon allows.    *)
(* All that is proved of Daemon therefore holds of the stream's daemon.    *)
(***************************************************************************)
THEOREM StreamIsDaemon == StreamSpec => Spec
  <1>1. StreamInit => Init
    BY DEF StreamInit
  <1>2. QED
    BY <1>1, StreamStepIsStep, StreamTypeCorrect, PTL DEF StreamSpec, Spec

\* Status tells the truth of the kernel's real event stream as well.
THEOREM StreamStatusIsTruthful == StreamSpec => []ReadyIsInstalled
  BY StreamIsDaemon, StatusIsTruthful, PTL
-----------------------------------------------------------------------------
(* What Observe does to the views *)

\* Observe has read m: only the view of its connection has changed, as m
\* says, and nobody but an ESTABLISHED event names a first subflow.
Saw(m) ==
    \A t \in Tokens :
        /\ View(t)' = Effect(m, t, View(t))
        /\ connections'[t] # None /\ ~(m.token = t /\ m.type = EventEstablished)
           => connections'[t].initial = Entry(t).initial

LEMMA OtherViews ==
    ASSUME NEW m, NEW t \in Tokens, m.token # t
    PROVE  Effect(m, t, View(t)) = View(t)
  <1>1. View(t) \subseteq Flows
    BY DEF View, Observed
  <1>2. QED
    BY <1>1 DEF Effect, Adds, Drops

\* Reconciling what is there, after a message that says nothing.
LEMMA SawNothing ==
    ASSUME TypeOK, NEW m,
           \A t \in Tokens : Effect(m, t, View(t)) = View(t),
           ReconcileLocked(contexts, connections)
    PROVE  Saw(m)
  <1>1. connections \in ConnType
    BY DEF TypeOK, ConnType
  <1>2. ASSUME NEW t \in Tokens
        PROVE  /\ View(t)' = View(t)
               /\ connections'[t] # None => connections'[t].initial = Entry(t).initial
    <2>1. /\ View(t)' = ViewOf(connections[t])
          /\ connections'[t] # None =>
                connections[t] # None /\ connections'[t].initial = connections[t].initial
      BY <1>1, ReconcileViews
    <2>2. QED
      BY <2>1 DEF View, ViewOf, Known, Entry
  <1>3. QED
    BY <1>2 DEF Saw

\* Reconciling after the connection of the message has become e.
LEMMA SawChange ==
    ASSUME TypeOK, NEW m, NEW u \in Tokens, m.token = u,
           NEW e \in ObservedConnection,
           ViewOf(e) = Effect(m, u, View(u)),
           m.type = EventEstablished \/ e.initial = Entry(u).initial,
           ReconcileLocked(contexts, [connections EXCEPT ![u] = e])
    PROVE  Saw(m)
  <1> DEFINE conns == [connections EXCEPT ![u] = e]
  <1>1. conns \in ConnType
    BY DEF TypeOK, ConnType
  <1>2. conns[u] = e /\ \A t \in Tokens \ {u} : conns[t] = connections[t]
    BY DEF TypeOK
  <1>3. ReconcileLocked(contexts, conns)
    OBVIOUS
  <1> HIDE DEF conns
  <1>4. ASSUME NEW t \in Tokens
        PROVE  /\ View(t)' = ViewOf(conns[t])
               /\ connections'[t] # None =>
                     conns[t] # None /\ connections'[t].initial = conns[t].initial
    BY <1>1, <1>3, ReconcileViews
  <1>5. ASSUME NEW t \in Tokens \ {u}
        PROVE  /\ ViewOf(conns[t]) = Effect(m, t, View(t))
               /\ conns[t] # None => conns[t].initial = Entry(t).initial
    <2>1. ViewOf(conns[t]) = View(t)
      BY <1>2 DEF View, ViewOf, Known
    <2>2. QED
      BY <1>2, <2>1, OtherViews DEF Entry, Known
  <1>6. QED
    BY <1>2, <1>4, <1>5 DEF Saw

LEMMA SawClosed ==
    ASSUME TypeOK, NEW m, Typed(m), m.type = EventClosed, ObserveClosed(m.token)
    PROVE  Saw(m)
  <1> DEFINE u == m.token
  <1>1. u \in Tokens
    BY DEF Typed
  <1>2. \A t : Effect(m, t, View(t)) = IF t = u THEN {} ELSE {f \in Flows : f \in View(t)}
    BY DEF Effect, Adds, Drops, EventClosed, EventEstablished, EventSubEstablished,
           EventSubClosed
  <1>3. CASE ~Known(u)
    <2>1. View(u) = {}
      BY <1>3 DEF View
    <2>2. \A t \in Tokens : Effect(m, t, View(t)) = View(t)
      BY <1>2, <2>1 DEF View, Observed
    <2>3. ReconcileLocked(contexts, connections)
      BY <1>3 DEF ObserveClosed
    <2>4. QED
      BY <2>2, <2>3, SawNothing
  <1>4. CASE Known(u)
    <2> DEFINE e == [connections[u] EXCEPT !.closed = TRUE]
    <2>1. connections[u] \in ObservedConnection
      BY <1>1, <1>4 DEF TypeOK, Known
    <2>2. e \in ObservedConnection /\ e.closed /\ e.initial = Entry(u).initial
      BY <1>4, <2>1 DEF ObservedConnection, Entry
    <2>3. ReconcileLocked(contexts, [connections EXCEPT ![u] = e])
      BY <1>4 DEF ObserveClosed
    <2> HIDE DEF e
    <2>4. ViewOf(e) = Effect(m, u, View(u))
      BY <1>2, <2>2 DEF ViewOf
    <2>5. QED
      BY <1>1, <2>2, <2>3, <2>4, SawChange
  <1>5. QED
    BY <1>3, <1>4

LEMMA SawSubClosed ==
    ASSUME TypeOK, NEW m, Typed(m), m.type = EventSubClosed,
           ObserveSubClosed(m.token, m.flow)
    PROVE  Saw(m)
  <1> DEFINE u == m.token
             c == connections[u]
             e == [c EXCEPT !.flows[m.flow] = NotObserved]
  <1>1. u \in Tokens /\ m.flow \in Flows
    BY DEF Typed, EventSubClosed, EventClosed, EventOther
  <1>2. c \in ObservedConnection /\ Known(u) /\ ~c.closed
    BY <1>1 DEF ObserveSubClosed, TypeOK, Known
  <1>3. /\ e \in ObservedConnection
        /\ e.closed = c.closed /\ e.initial = c.initial
        /\ e.flows = [c.flows EXCEPT ![m.flow] = NotObserved]
    BY <1>1, <1>2 DEF ObservedConnection
  <1>4. \A f \in Flows : e.flows[f] = IF f = m.flow THEN NotObserved ELSE c.flows[f]
    BY <1>2, <1>3 DEF ObservedConnection
  <1>5. ReconcileLocked(contexts, [connections EXCEPT ![u] = e])
    BY DEF ObserveSubClosed
  <1> HIDE DEF e
  <1>6. e # None
    BY <1>3, DaemonConstants
  <1>7. ViewOf(e) = {f \in Flows : f # m.flow /\ f \in View(u)}
    BY <1>2, <1>3, <1>4, <1>6 DEF View, ViewOf, Observed
  <1>8. \A f \in Flows : ~Adds(m, u, f) /\ (Drops(m, u, f) <=> f = m.flow)
    BY DEF Adds, Drops, EventSubClosed, EventClosed, EventEstablished,
           EventSubEstablished
  <1>9. ViewOf(e) = Effect(m, u, View(u))
    BY <1>7, <1>8 DEF Effect
  <1>10. e.initial = Entry(u).initial
    BY <1>2, <1>3 DEF Entry
  <1>11. QED
    BY <1>1, <1>3, <1>5, <1>9, <1>10, SawChange

LEMMA SawEstablished ==
    ASSUME TypeOK, NEW m, Typed(m), m.type \in {EventEstablished, EventSubEstablished},
           NEW ix \in EventIndexes,
           ObserveEstablished(m.token, m.flow, ix, m.type = EventEstablished)
    PROVE  Saw(m)
  <1> DEFINE u == m.token
             b == m.type = EventEstablished
             c == Entry(u)
             w == WithInitial(c, m.flow, b)
             e == [w EXCEPT !.flows[m.flow] = ix]
  <1>1. u \in Tokens /\ m.flow \in Flows
    BY DEF Typed, EventEstablished, EventSubEstablished, EventClosed, EventOther
  <1>2. /\ NewConnection \in ObservedConnection
        /\ \A f \in Flows : NewConnection.flows[f] = NotObserved
        /\ ~NewConnection.closed
    BY DEF NewConnection, ObservedConnection
  <1>3. c \in ObservedConnection /\ ~c.closed
    BY <1>1, <1>2 DEF Entry, Known, TypeOK, ObserveEstablished
  <1>4. /\ w \in ObservedConnection
        /\ w.closed = c.closed /\ w.flows = c.flows
        /\ b \/ w.initial = c.initial
    BY <1>1, <1>3 DEF WithInitial, ObservedConnection
  <1>5. ReconcileLocked(contexts, [connections EXCEPT ![u] = e])
    BY DEF ObserveEstablished
  <1> HIDE DEF w
  <1>6. /\ e \in ObservedConnection
        /\ e.closed = w.closed /\ e.initial = w.initial
        /\ e.flows = [w.flows EXCEPT ![m.flow] = ix]
    BY <1>1, <1>4 DEF ObservedConnection
  <1>7. \A f \in Flows : e.flows[f] = IF f = m.flow THEN ix ELSE c.flows[f]
    BY <1>4, <1>6 DEF ObservedConnection
  <1> HIDE DEF e
  <1>8. e # None /\ ix # NotObserved
    BY <1>6, DaemonConstants DEF NotObserved
  <1>9. View(u) = Observed(c)
    BY <1>2, <1>3 DEF View, Entry, Observed
  <1>10. ViewOf(e) = {f \in Flows : f = m.flow \/ f \in View(u)}
    BY <1>3, <1>4, <1>6, <1>7, <1>8, <1>9 DEF ViewOf, Observed
  <1>11. \A f \in Flows : (Adds(m, u, f) <=> f = m.flow) /\ ~Drops(m, u, f)
    BY DEF Adds, Drops, EventSubClosed, EventClosed, EventEstablished,
           EventSubEstablished
  <1>12. ViewOf(e) = Effect(m, u, View(u))
    BY <1>10, <1>11 DEF Effect
  <1>13. m.type = EventEstablished \/ e.initial = Entry(u).initial
    BY <1>4, <1>6
  <1>14. QED
    BY <1>1, <1>5, <1>6, <1>12, <1>13, SawChange

\* An event Observe accepts changes the views as it says.
LEMMA ObserveSees ==
    ASSUME TypeOK, NEW m, Typed(m), NEW ix \in EventIndexes, Observe(m, ix), streaming'
    PROVE  Saw(m)
  <1>1. ASSUME UNCHANGED vars, \A t \in Tokens : Effect(m, t, View(t)) = View(t)
        PROVE  Saw(m)
    <2>1. \A t \in Tokens : View(t)' = View(t)
      BY <1>1 DEF vars, View, Known, Observed
    <2>2. QED
      BY <1>1, <2>1 DEF Saw, Entry, Known, vars
  <1>2. CASE m.type = EventClosed
    BY <1>2, SawClosed DEF Observe, EventClosed, EventSubClosed, EventEstablished,
                           EventSubEstablished, EventOther
  <1>3. CASE m.type = EventSubClosed
    <2>1. m.token \in Tokens
      BY DEF Typed
    <2>2. \/ ObserveSubClosed(m.token, m.flow)
          \/ ObserveRefused(m.token, m.flow, FALSE)
          \/ ~Known(m.token) /\ UNCHANGED vars
      BY <1>3 DEF Observe, EventClosed, EventSubClosed, EventEstablished,
                  EventSubEstablished, EventOther
    <2>3. ~ObserveRefused(m.token, m.flow, FALSE)
      BY DEF ObserveRefused, LoseStream
    <2>4. CASE ~Known(m.token) /\ UNCHANGED vars
      <3>1. View(m.token) = {}
        BY <2>4 DEF View
      <3>2. \A f \in Flows : ~Adds(m, m.token, f)
        BY <1>3 DEF Adds, EventSubClosed, EventEstablished, EventSubEstablished
      <3>3. Effect(m, m.token, View(m.token)) = View(m.token)
        BY <3>1, <3>2 DEF Effect
      <3>4. \A t \in Tokens : Effect(m, t, View(t)) = View(t)
        BY <3>3, OtherViews
      <3>5. QED
        BY <1>1, <2>4, <3>4
    <2>5. QED
      BY <1>3, <2>2, <2>3, <2>4, SawSubClosed
  <1>4. CASE m.type \in {EventEstablished, EventSubEstablished}
    <2> DEFINE e == m.type = EventEstablished
    <2>1. \/ ObserveEstablished(m.token, m.flow, ix, e)
          \/ ObserveRefused(m.token, m.flow, e)
          \/ ObserveOverflow(m.token, m.flow, e)
      BY <1>4 DEF Observe, EventClosed, EventSubClosed, EventEstablished,
                  EventSubEstablished, EventOther
    <2>2. ~ObserveRefused(m.token, m.flow, e) /\ ~ObserveOverflow(m.token, m.flow, e)
      BY DEF ObserveRefused, ObserveOverflow, LoseStream
    <2>3. QED
      BY <1>4, <2>1, <2>2, SawEstablished
  <1>5. CASE m.type = EventOther
    <2>1. UNCHANGED vars
      BY <1>5 DEF Observe, EventClosed, EventSubClosed, EventEstablished,
                  EventSubEstablished, EventOther
    <2>2. \A t, f : ~Adds(m, t, f) /\ ~Drops(m, t, f)
      BY <1>5 DEF Adds, Drops, EventClosed, EventSubClosed, EventEstablished,
                  EventSubEstablished, EventOther
    <2>3. \A t \in Tokens : Effect(m, t, View(t)) = View(t)
      BY <2>2 DEF Effect, View, Observed
    <2>4. QED
      BY <1>1, <2>1, <2>3
  <1>6. QED
    BY <1>2, <1>3, <1>4, <1>5 DEF Typed, EventTypes, Wanted

\* Even an event that ends the stream names no first subflow but its own.
LEMMA ObserveKeepsInitial ==
    ASSUME TypeOK, NEW m, Typed(m), NEW ix \in EventIndexes, Observe(m, ix),
           NEW t \in Tokens, ~(m.token = t /\ m.type = EventEstablished),
           connections'[t] # None
    PROVE  connections'[t].initial = Entry(t).initial
  <1>1. CASE streaming'
    BY <1>1, ObserveSees DEF Saw
  <1>2. CASE ~streaming'
    <2>1. CASE UNCHANGED connections
      BY <2>1 DEF Entry, Known
    <2>2. CASE \E e \in BOOLEAN :
                  /\ e => m.type = EventEstablished
                  /\ ObserveOverflow(m.token, m.flow, e)
      <3>1. PICK e \in BOOLEAN : /\ e => m.type = EventEstablished
                                 /\ ObserveOverflow(m.token, m.flow, e)
        BY <2>2
      <3>2. connections'[t] = connections[t]
        BY <3>1 DEF ObserveOverflow, WithInitial, TypeOK
      <3>3. QED
        BY <3>2 DEF Entry, Known
    <2>3. \/ UNCHANGED connections
          \/ \E e \in BOOLEAN : /\ e => m.type = EventEstablished
                                /\ ObserveOverflow(m.token, m.flow, e)
      <3>1. m.type # EventClosed \/ ~ObserveClosed(m.token)
        BY <1>2 DEF ObserveClosed
      <3>2. ~ObserveSubClosed(m.token, m.flow)
        BY <1>2 DEF ObserveSubClosed
      <3>3. \A e \in BOOLEAN : ~ObserveEstablished(m.token, m.flow, ix, e)
        BY <1>2 DEF ObserveEstablished
      <3> DEFINE b == m.type = EventEstablished
      <3>4. \/ ObserveRefused(m.token, m.flow, FALSE)
            \/ UNCHANGED vars
            \/ ObserveRefused(m.token, m.flow, b)
            \/ ObserveOverflow(m.token, m.flow, b)
        BY <3>1, <3>2, <3>3 DEF Observe
      <3>5. b \in BOOLEAN
        OBVIOUS
      <3>6. QED
        BY <3>4, <3>5 DEF ObserveRefused, vars
    <2>4. QED
      BY <2>1, <2>2, <2>3
  <1>3. QED
    BY <1>1, <1>2

\* What is not an event keeps every view and every first subflow.
LEMMA OthersKeep ==
    ASSUME TypeOK, Others, NEW t \in Tokens
    PROVE  /\ View(t)' = View(t)
           /\ connections'[t] # None =>
                 connections[t] # None /\ connections'[t].initial = connections[t].initial
           /\ streaming' = streaming
           /\ UNCHANGED <<kernel, fresh, queue, overrun>>
  <1>1. /\ streaming' = streaming
        /\ UNCHANGED <<kernel, fresh, queue, overrun>>
        /\ UNCHANGED connections \/ \E ctxs : ReconcileLocked(ctxs, connections)
    BY DEF Others, Put, Delete, Retry, StoreFlip, Fail
  <1>2. CASE UNCHANGED connections
    BY <1>1, <1>2 DEF View, Known, Observed
  <1>3. CASE \E ctxs : ReconcileLocked(ctxs, connections)
    <2>1. PICK ctxs : ReconcileLocked(ctxs, connections)
      BY <1>3
    <2>2. connections \in ConnType
      BY DEF TypeOK, ConnType
    <2>3. QED
      BY <1>1, <2>1, <2>2, ReconcileViews DEF View, ViewOf, Known
  <1>4. QED
    BY <1>1, <1>2, <1>3
-----------------------------------------------------------------------------
(* The views stay exact *)

Alive(t) == IF kernel[t] = None THEN {} ELSE kernel[t]

LEMMA ReplayedNext == \A t : Replayed(t)' = Replay(View(t)', queue', t)
  BY DEF Replayed, Replay, Adds, Drops

\* The kernel's message says what has happened.
LEMMA KernelEffect ==
    ASSUME StreamTypeOK, NEW u \in Tokens, NEW n, KernelStep(u, n), NEW t \in Tokens
    PROVE  Alive(t)' = Effect(n, t, Alive(t))
  <1>1. /\ Alive(t) \subseteq Flows
        /\ \A S \in SUBSET Flows : S # None
    BY PMStreamConstants DEF Alive, StreamTypeOK
  <1>2. CASE t # u
    <2>1. n.token = u
      BY DEF KernelStep, Message
    <2>2. \/ UNCHANGED kernel
          \/ \E S : kernel' = [kernel EXCEPT ![u] = S]
      BY DEF KernelStep, CloseConnection, Establish, Join, Leave
    <2>3. kernel'[t] = kernel[t]
      BY <1>2, <2>2 DEF StreamTypeOK
    <2>4. QED
      BY <1>1, <1>2, <2>1, <2>3 DEF Alive, Effect, Adds, Drops
  <1>3. CASE t = u
    <2>1. CASE CloseConnection(u) /\ n = Message(EventClosed, u, None)
      <3>1. kernel'[t] = None
        BY <1>3, <2>1 DEF CloseConnection, StreamTypeOK
      <3>2. \A f \in Flows : ~Adds(n, t, f) /\ Drops(n, t, f)
        BY <1>3, <2>1 DEF Adds, Drops, Message, EventClosed, EventEstablished,
                          EventSubEstablished
      <3>3. QED
        BY <3>1, <3>2 DEF Alive, Effect
    <2>2. CASE n = Message(EventOther, u, None) /\ UNCHANGED <<kernel, fresh>>
      <3>1. \A f \in Flows : ~Adds(n, t, f) /\ ~Drops(n, t, f)
        BY <2>2 DEF Adds, Drops, Message, EventClosed, EventEstablished,
                    EventSubEstablished, EventSubClosed, EventOther
      <3>2. Effect(n, t, Alive(t)) = Alive(t)
        BY <1>1, <3>1 DEF Effect
      <3>3. QED
        BY <2>2, <3>2 DEF Alive
    <2>3. ASSUME NEW f \in Flows,
                 \/ Establish(u, f) /\ n = Message(EventEstablished, u, f)
                 \/ Join(u, f) /\ n = Message(EventSubEstablished, u, f)
          PROVE  Alive(t)' = Effect(n, t, Alive(t))
      <3>1. kernel'[t] = Alive(t) \cup {f} /\ kernel'[t] # None
        BY <1>1, <1>3, <2>3 DEF Establish, Join, Alive, StreamTypeOK
      <3>2. \A g \in Flows : (Adds(n, t, g) <=> g = f) /\ ~Drops(n, t, g)
        BY <1>3, <2>3 DEF Adds, Drops, Message, EventClosed, EventEstablished,
                          EventSubEstablished, EventSubClosed
      <3>3. Alive(t)' = Alive(t) \cup {f}
        BY <3>1 DEF Alive
      <3>4. Effect(n, t, Alive(t)) = Alive(t) \cup {f}
        BY <1>1, <3>2 DEF Effect
      <3>5. QED
        BY <3>3, <3>4
    <2>4. ASSUME NEW f \in Flows, Leave(u, f), n = Message(EventSubClosed, u, f)
          PROVE  Alive(t)' = Effect(n, t, Alive(t))
      <3>1. kernel'[t] = Alive(t) \ {f} /\ kernel'[t] # None
        BY <1>1, <1>3, <2>4 DEF Leave, Alive, StreamTypeOK
      <3>2. \A g \in Flows : ~Adds(n, t, g) /\ (Drops(n, t, g) <=> g = f)
        BY <1>3, <2>4 DEF Adds, Drops, Message, EventClosed, EventEstablished,
                          EventSubEstablished, EventSubClosed
      <3>3. Alive(t)' = Alive(t) \ {f}
        BY <3>1 DEF Alive
      <3>4. Effect(n, t, Alive(t)) = Alive(t) \ {f}
        BY <1>1, <3>2 DEF Effect
      <3>5. QED
        BY <3>3, <3>4
    <2>5. QED
      BY <2>1, <2>2, <2>3, <2>4 DEF KernelStep
  <1>4. QED
    BY <1>2, <1>3

\* What was read and what is still in the buffer give the kernel's subflows.
LEMMA ExactStep ==
    ASSUME TypeOK, StreamTypeOK, ViewIsExact, [StreamNext]_streamVars
    PROVE  ViewIsExact'
  <1> SUFFICES ASSUME streaming', ~overrun', NEW t \in Tokens
               PROVE  Replayed(t)' = Alive(t)'
    BY DEF ViewIsExact, Alive
  <1>1. streaming /\ ~overrun => Replay(View(t), queue, t) = Alive(t)
    BY ReplayedIsReplay DEF ViewIsExact, Alive
  <1>2. CASE Kernel
    <2>1. PICK u \in Tokens, n \in Messages : Send(n) /\ KernelStep(u, n)
      BY <1>2, KernelSteps
    <2>2. streaming /\ UNCHANGED vars
      BY <1>2, KernelSteps
    <2>3. ~overrun /\ queue' = Append(queue, n)
      BY <2>1 DEF Send, StreamTypeOK
    <2>4. View(t)' = View(t)
      BY <2>2 DEF vars, View, Known, Observed
    <2>5. Replayed(t)' = Effect(n, t, Replay(View(t), queue, t))
      BY <2>3, <2>4, ReplayedNext, ReplayAppend DEF StreamTypeOK
    <2>6. Alive(t)' = Effect(n, t, Alive(t))
      BY <2>1, KernelEffect
    <2>7. QED
      BY <1>1, <2>2, <2>3, <2>5, <2>6
  <1>3. CASE Receive
    <2>1. PICK m \in Readings(Head(queue)), ix \in EventIndexes : HandleMessage(m, ix)
      BY <1>3 DEF Receive
    <2>2. /\ streaming /\ ~overrun /\ queue # <<>>
          /\ queue' = Tail(queue) /\ UNCHANGED kernel
          /\ Head(queue) \in Messages
      BY <1>3 DEF Receive, StreamTypeOK
    <2>3. Observe(m, ix)
      BY <2>1 DEF HandleMessage, StreamLost, LoseStream
    <2>4. /\ Typed(m) /\ m.type = Head(queue).type
          /\ m.token = Head(queue).token /\ m.flow = Head(queue).flow
      BY <2>2, ReadingsAreTyped
    <2>5. View(t)' = Effect(m, t, View(t))
      BY <2>3, <2>4, ObserveSees DEF Saw
    <2>6. Effect(m, t, View(t)) = Effect(Head(queue), t, View(t))
      BY <2>4 DEF Effect, Adds, Drops
    <2>7. Replay(View(t)', queue', t) = Replay(View(t), queue, t)
      BY <2>2, <2>5, <2>6, ReplayTail DEF StreamTypeOK
    <2>8. Alive(t)' = Alive(t)
      BY <2>2 DEF Alive
    <2>9. QED
      BY <1>1, <2>2, <2>7, <2>8, ReplayedNext
  <1>4. CASE ReadFails
    BY <1>4 DEF ReadFails, StreamLost, LoseStream
  <1>5. CASE Others
    <2>1. /\ View(t)' = View(t) /\ streaming' = streaming
          /\ UNCHANGED <<kernel, fresh, queue, overrun>>
      BY <1>5, OthersKeep
    <2>2. Replayed(t)' = Replay(View(t), queue, t) /\ Alive(t)' = Alive(t)
      BY <2>1, ReplayedNext DEF Alive
    <2>3. QED
      BY <1>1, <2>1, <2>2
  <1>6. CASE UNCHANGED streamVars
    <2>1. View(t)' = View(t) /\ streaming' = streaming
      BY <1>6 DEF streamVars, vars, View, Known, Observed
    <2>2. Replayed(t)' = Replay(View(t), queue, t) /\ Alive(t)' = Alive(t)
      BY <1>6, <2>1, ReplayedNext DEF Alive, streamVars
    <2>3. QED
      BY <1>1, <1>6, <2>1, <2>2 DEF streamVars
  <1>7. QED
    BY <1>2, <1>3, <1>4, <1>5, <1>6 DEF StreamNext

\* Nobody sees how an old connection began.
LEMMA OldStep ==
    ASSUME TypeOK, StreamTypeOK, OldIsUnseen, [StreamNext]_streamVars
    PROVE  OldIsUnseen'
  <1> DEFINE Unseen(q, t) ==
         \A i \in DOMAIN q : ~(q[i].token = t /\ q[i].type = EventEstablished)
  <1> SUFFICES ASSUME NEW t \in Tokens, kernel'[t] # None, t \notin fresh'
               PROVE  /\ connections'[t] # None => connections'[t].initial = None
                      /\ Unseen(queue', t)
    BY DEF OldIsUnseen, Known
  <1>1. kernel[t] # None /\ t \notin fresh =>
           /\ connections[t] # None => connections[t].initial = None
           /\ Unseen(queue, t)
    BY DEF OldIsUnseen, Known
  <1>2. CASE Kernel
    <2>1. PICK u \in Tokens, n \in Messages : Send(n) /\ KernelStep(u, n)
      BY <1>2, KernelSteps
    <2>2. UNCHANGED connections
      BY <1>2, KernelSteps DEF vars
    <2>3. kernel[t] # None /\ t \notin fresh /\ ~(n.token = t /\ n.type = EventEstablished)
      <3>1. CASE CloseConnection(u) /\ n = Message(EventClosed, u, None)
        BY <3>1 DEF CloseConnection, Message, EventClosed, EventEstablished, StreamTypeOK
      <3>2. CASE n = Message(EventOther, u, None) /\ UNCHANGED <<kernel, fresh>>
        BY <3>2 DEF Message, EventOther, EventEstablished
      <3>3. ASSUME NEW f \in Flows, Establish(u, f), n = Message(EventEstablished, u, f)
            PROVE  kernel[t] # None /\ t \notin fresh /\ n.token # t
        <4>1. t # u /\ t \notin fresh
          BY <3>3 DEF Establish
        <4>2. kernel'[t] = kernel[t]
          BY <3>3, <4>1 DEF Establish, StreamTypeOK
        <4>3. QED
          BY <3>3, <4>1, <4>2 DEF Message
      <3>4. ASSUME NEW f \in Flows, Join(u, f), n = Message(EventSubEstablished, u, f)
            PROVE  kernel[t] # None /\ t \notin fresh /\ n.type # EventEstablished
        BY <3>4 DEF Join, Message, EventSubEstablished, EventEstablished, StreamTypeOK
      <3>5. ASSUME NEW f \in Flows, Leave(u, f), n = Message(EventSubClosed, u, f)
            PROVE  kernel[t] # None /\ t \notin fresh /\ n.type # EventEstablished
        BY <3>5 DEF Leave, Message, EventSubClosed, EventEstablished, StreamTypeOK
      <3>6. QED
        BY <2>1, <3>1, <3>2, <3>3, <3>4, <3>5 DEF KernelStep
    <2>4. CASE queue' = queue
      BY <1>1, <2>2, <2>3, <2>4
    <2>5. CASE queue' = Append(queue, n)
      <3>1. Unseen(queue, t)
        BY <1>1, <2>3
      <3>2. Unseen(queue', t)
        <4>1. /\ DOMAIN queue' = 1 .. Len(queue) + 1 /\ queue'[Len(queue) + 1] = n
              /\ \A j \in 1 .. Len(queue) : queue'[j] = queue[j]
              /\ Len(queue) \in Nat /\ DOMAIN queue = 1 .. Len(queue)
          BY <2>5 DEF StreamTypeOK
        <4>2. \A j \in DOMAIN queue' : j \in DOMAIN queue \/ j = Len(queue) + 1
          BY <4>1
        <4>3. QED
          BY <2>3, <3>1, <4>1, <4>2
      <3>3. QED
        BY <1>1, <2>2, <2>3, <3>2
    <2>6. QED
      BY <2>1, <2>4, <2>5 DEF Send
  <1>3. CASE Receive
    <2>1. PICK m \in Readings(Head(queue)), ix \in EventIndexes : HandleMessage(m, ix)
      BY <1>3 DEF Receive
    <2>2. /\ UNCHANGED <<kernel, fresh>> /\ queue # <<>>
          /\ queue' = Tail(queue) \/ queue' = <<>>
          /\ Head(queue) \in Messages
      BY <1>3 DEF Receive, StreamTypeOK
    <2>3. Unseen(queue, t) /\ (connections[t] # None => connections[t].initial = None)
      BY <1>1, <2>2
    <2>4. Typed(m) /\ m.type = Head(queue).type /\ m.token = Head(queue).token
      BY <2>2, ReadingsAreTyped
    <2>5. ~(m.token = t /\ m.type = EventEstablished)
      <3>1. 1 \in DOMAIN queue /\ Head(queue) = queue[1]
        BY <2>2 DEF StreamTypeOK
      <3>2. QED
        BY <2>3, <2>4, <3>1
    <2>6. Unseen(queue', t)
      <3>1. \A j \in DOMAIN Tail(queue) :
               j + 1 \in DOMAIN queue /\ Tail(queue)[j] = queue[j + 1]
        BY <2>2 DEF StreamTypeOK
      <3>2. CASE queue' = Tail(queue)
        BY <2>3, <3>1, <3>2
      <3>3. CASE queue' = <<>>
        BY <3>3
      <3>4. QED
        BY <2>2, <3>2, <3>3
    <2>7. ASSUME connections'[t] # None
          PROVE  connections'[t].initial = None
      <3>1. Entry(t).initial = None
        BY <2>3 DEF Entry, Known, NewConnection
      <3>2. CASE Decodes(m)
        <4>1. Observe(m, ix)
          BY <2>1, <3>2 DEF HandleMessage
        <4>2. QED
          BY <2>4, <2>5, <2>7, <3>1, <4>1, ObserveKeepsInitial
      <3>3. CASE ~Decodes(m)
        BY <2>1, <2>3, <2>7, <3>3 DEF HandleMessage, StreamLost
      <3>4. QED
        BY <3>2, <3>3
    <2>8. QED
      BY <2>6, <2>7
  <1>4. CASE ReadFails
    <2>1. UNCHANGED <<kernel, fresh, connections>> /\ queue' = <<>>
      BY <1>4 DEF ReadFails, StreamLost
    <2>2. QED
      BY <1>1, <2>1
  <1>5. CASE Others
    <2>1. /\ connections'[t] # None =>
                connections[t] # None /\ connections'[t].initial = connections[t].initial
          /\ UNCHANGED <<kernel, fresh, queue, overrun>>
      BY <1>5, OthersKeep
    <2>2. QED
      BY <1>1, <2>1
  <1>6. CASE UNCHANGED streamVars
    <2>1. UNCHANGED <<kernel, fresh, connections, queue>>
      BY <1>6 DEF streamVars, vars
    <2>2. QED
      BY <1>1, <2>1
  <1>7. QED
    BY <1>2, <1>3, <1>4, <1>5, <1>6 DEF StreamNext

\* The three parts together are inductive, over any daemon that is well
\* typed: the stream is all an event knows.
THEOREM StreamInvariant == StreamSpec => []StreamInv
  <1>1. StreamInit => OldIsUnseen /\ ViewIsExact
    <2> SUFFICES ASSUME StreamInit PROVE OldIsUnseen /\ ViewIsExact
      OBVIOUS
    <2>1. \A t \in Tokens : ~Known(t) /\ View(t) = {}
      BY DEF StreamInit, Init, View, Known
    <2>2. queue = <<>> /\ \A t \in Tokens : kernel[t] \in {None, {}}
      BY DEF StreamInit
    <2>3. \A t \in Tokens : Replayed(t) = {}
      BY <2>1, <2>2 DEF Replayed
    <2>4. OldIsUnseen
      BY <2>1, <2>2 DEF OldIsUnseen
    <2>5. ViewIsExact
      BY <2>2, <2>3 DEF ViewIsExact
    <2>6. QED
      BY <2>4, <2>5
  <1>2. TypeOK /\ StreamTypeOK /\ OldIsUnseen /\ ViewIsExact /\ [StreamNext]_streamVars
        => OldIsUnseen' /\ ViewIsExact'
    BY OldStep, ExactStep
  <1>3. StreamSpec => []TypeOK
    BY StreamIsDaemon, TypeCorrect, PTL
  <1>4. StreamTypeOK /\ OldIsUnseen /\ ViewIsExact => StreamInv
    BY DEF StreamInv
  <1>5. QED
    BY <1>1, <1>2, <1>3, <1>4, StreamTypeCorrect, PTL DEF StreamSpec

(***************************************************************************)
(* While the stream lasts, the daemon knows the kernel's subflows but for  *)
(* what is in the buffer, for every number of connections, every size of   *)
(* the buffer and every failure of the map store: nothing but the loss of  *)
(* the stream can make an event be missed.                                 *)
(***************************************************************************)
THEOREM ViewStaysExact == StreamSpec => []ViewIsExact
  <1>1. StreamInv => ViewIsExact
    BY DEF StreamInv
  <1>2. QED
    BY StreamInvariant, <1>1, PTL

(***************************************************************************)
(* A connection older than the subscription is never steered: it has no    *)
(* first subflow, hence no owner, hence no map entry.                      *)
(***************************************************************************)
THEOREM OnlyFreshSteered == StreamSpec => []OnlyFreshAreSteered
  <1>1. StreamInv /\ EntriesAreOwned /\ OwnersExist => OnlyFreshAreSteered
    BY DEF StreamInv, OldIsUnseen, EntriesAreOwned, OwnersExist, Owned,
           OnlyFreshAreSteered
  <1>2. StreamSpec => [](EntriesAreOwned /\ OwnersExist)
    BY StreamIsDaemon, NoOrphans, PTL
  <1>3. QED
    BY StreamInvariant, <1>1, <1>2, PTL
=============================================================================
