------------------------------ MODULE PMStream ------------------------------
(***************************************************************************)
(* The daemon behind its real source of events: the kernel's MPTCP         *)
(* connections, the multicast group that announces what happens to them,   *)
(* the socket's receive buffer, and PMSubscription.Run, which decodes one  *)
(* message after the other for Observe.  What is in the buffer has         *)
(* happened already; the daemon learns it later, in order, or not at all.  *)
(***************************************************************************)
EXTENDS Daemon, Sequences

CONSTANTS MaxQueue   \* bound: messages the receive buffer holds

ASSUME PMStreamConstants ==
    /\ MaxQueue \in Nat \ {0}
    /\ \A S \in SUBSET Flows : S # None

VARIABLES
    kernel,  \* the subflows of every MPTCP connection, or None
    fresh,   \* connections established since the subscription
    queue,   \* the socket's receive buffer
    overrun  \* the buffer was full: the socket's next read is ENOBUFS

streamVars == <<vars, kernel, fresh, queue, overrun>>

EventEstablished    == "established"
EventClosed         == "closed"
EventSubEstablished == "sub_established"
EventSubClosed      == "sub_closed"
EventOther          == "other"   \* any event Observe does not want

Wanted == {EventEstablished, EventClosed, EventSubEstablished, EventSubClosed}

\* Attributes; the interface index is the only one that may be missing.
Attrs == {"token", "family", "addresses", "ids", "ports"}

Message(type, t, f) == [type |-> type, token |-> t, flow |-> f, attrs |-> Attrs]

\* Of a connection that is older than the subscription, `kernel' has the
\* subflows that came later.
StreamInit ==
    /\ Init
    /\ kernel \in [Tokens -> {None, {}}]
    /\ fresh   = {}
    /\ queue   = <<>>
    /\ overrun = FALSE
-----------------------------------------------------------------------------
(* The kernel *)

Send(m) ==
    IF Len(queue) < MaxQueue
    THEN queue' = Append(queue, m) /\ UNCHANGED overrun
    ELSE overrun' = TRUE /\ UNCHANGED queue

Establish(t, f) ==
    /\ kernel[t] = None
    /\ kernel' = [kernel EXCEPT ![t] = {f}]
    /\ fresh'  = fresh \cup {t}
    /\ Send(Message(EventEstablished, t, f))

Join(t, f) ==
    /\ kernel[t] # None /\ f \notin kernel[t]
    /\ kernel' = [kernel EXCEPT ![t] = @ \cup {f}]
    /\ Send(Message(EventSubEstablished, t, f))
    /\ UNCHANGED fresh

Leave(t, f) ==
    /\ kernel[t] # None /\ (t \in fresh => f \in kernel[t])
    /\ kernel' = [kernel EXCEPT ![t] = @ \ {f}]
    /\ Send(Message(EventSubClosed, t, f))
    /\ UNCHANGED fresh

CloseConnection(t) ==
    /\ kernel[t] # None
    /\ kernel' = [kernel EXCEPT ![t] = None]
    /\ fresh'  = fresh \ {t}
    /\ Send(Message(EventClosed, t, None))

Kernel ==
    /\ streaming
    /\ \E t \in Tokens :
          \/ CloseConnection(t)
          \/ Send(Message(EventOther, t, None)) /\ UNCHANGED <<kernel, fresh>>
          \/ \E f \in Flows : Establish(t, f) \/ Join(t, f) \/ Leave(t, f)
    /\ UNCHANGED vars
-----------------------------------------------------------------------------
(* PMSubscription.Run *)

Required(type) == IF type = EventClosed THEN {"token"} ELSE Attrs

\* What is read: the message, or one that lacks attributes.
Readings(m) == {[m EXCEPT !.attrs = @ \ lost] : lost \in SUBSET {"token", "addresses"}}

\* DecodePMEvent returns no error.
Decodes(m) == m.type \in Wanted => Required(m.type) \subseteq m.attrs

\* Observe, the whole of it: what Daemon leaves out changes nothing.
Observe(m, ix) ==
    \/ m.type = EventClosed /\ ObserveClosed(m.token)
    \/ /\ m.type = EventSubClosed
       /\ \/ ObserveSubClosed(m.token, m.flow)
          \/ Known(m.token) /\ ObserveRefused(m.token, m.flow, FALSE)
          \/ ~Known(m.token) /\ UNCHANGED vars
    \/ /\ m.type \in {EventEstablished, EventSubEstablished}
       /\ LET e == m.type = EventEstablished
          IN \/ ObserveEstablished(m.token, m.flow, ix, e)
             \/ ObserveRefused(m.token, m.flow, e)
             \/ ObserveOverflow(m.token, m.flow, e)
    \/ m.type = EventOther /\ UNCHANGED vars

\* Slip: what cannot be decoded is skipped.
HandleOrSkip(m, ix) == IF Decodes(m) THEN Observe(m, ix) ELSE UNCHANGED vars

\* One message of Run's loop.
HandleMessage(m, ix) == IF Decodes(m) THEN Observe(m, ix) ELSE StreamLost

Receive ==
    /\ streaming /\ ~overrun
    /\ queue # <<>>
    /\ \E m \in Readings(Head(queue)), ix \in EventIndexes : HandleMessage(m, ix)
    /\ queue' = IF streaming' THEN Tail(queue) ELSE <<>>
    /\ UNCHANGED <<kernel, fresh, overrun>>

\* ENOBUFS, a truncated datagram, a foreign sender, or a netlink error.
ReadFails ==
    /\ StreamLost
    /\ queue' = <<>>
    /\ UNCHANGED <<kernel, fresh, overrun>>
-----------------------------------------------------------------------------
\* Requests, retries and the map store, as in Daemon.  What requests do after
\* the end of the stream is Daemon's and Serve's subject.
Others ==
    /\ \/ /\ streaming
          /\ \/ \E id \in Ids, spec \in Specs, gen \in Gens, pol \in Policies :
                   Put(id, spec, gen, pol)
             \/ \E id \in Ids : Delete(id)
             \/ StoreFlip
       \/ Retry
       \/ Fail
    /\ UNCHANGED <<kernel, fresh, queue, overrun>>

StreamNext == Kernel \/ Receive \/ ReadFails \/ Others

StreamSpec == StreamInit /\ [][StreamNext]_streamVars
-----------------------------------------------------------------------------
(* Properties *)

View(t) ==
    IF Known(t) /\ ~connections[t].closed THEN Observed(connections[t]) ELSE {}

\* What a message does to the view of a connection.
Adds(m, t, f) ==
    m.token = t /\ m.flow = f /\ m.type \in {EventEstablished, EventSubEstablished}

Drops(m, t, f) ==
    m.token = t /\ (m.type = EventClosed \/ (m.type = EventSubClosed /\ m.flow = f))

\* The view once the messages in the buffer have been read: what a message
\* adds, or is there now, and no later message drops.
Replayed(t) ==
    {f \in Flows :
        \/ f \in View(t) /\ \A j \in DOMAIN queue : ~Drops(queue[j], t, f)
        \/ \E i \in DOMAIN queue :
              /\ Adds(queue[i], t, f)
              /\ \A j \in DOMAIN queue : j > i => ~Drops(queue[j], t, f)}

(***************************************************************************)
(* As long as the stream is not lost, the daemon knows every subflow of    *)
(* every connection and no other, but for what is still in the buffer: no  *)
(* message is skipped, forgotten by a failing map call or applied to the   *)
(* wrong connection.  Otherwise the stream ends, for missed events cannot  *)
(* be replayed.                                                            *)
(***************************************************************************)
ViewIsExact ==
    streaming /\ ~overrun =>
        \A t \in Tokens :
            Replayed(t) = IF kernel[t] = None THEN {} ELSE kernel[t]

(***************************************************************************)
(* "Fresh connections only": a connection older than the subscription is   *)
(* never steered, though its later subflows are observed, because only the *)
(* ESTABLISHED event nobody saw would have bound it to a context.          *)
(***************************************************************************)
OnlyFreshAreSteered ==
    \A t \in Tokens : kernel[t] # None /\ t \notin fresh => maps[t] = EmptyMaps
=============================================================================
