------------------------------- MODULE Events -------------------------------
(***************************************************************************)
(* The libpod event stream (system.go, Events) over the event bus.         *)
(*                                                                         *)
(* Each GET /libpod/events runs on its own goroutine: it writes the        *)
(* header, parses its filters, subscribes to the bus, and then loops on a  *)
(* select between the request context's Done channel (the client went     *)
(* away: unsubscribe and return) and its subscription channel (an event:   *)
(* write it out if the filter matches).  The bus is not under src/; as the *)
(* spec (4.3) describes it, Publish appends an event to the channel of     *)
(* every registered subscriber, best effort: a full channel drops the      *)
(* event rather than block the publisher.                                  *)
(***************************************************************************)
EXTENDS Naturals, Sequences, FiniteSets, SequencesExt

CONSTANTS
    Streams,     \* the concurrent event stream requests
    EventKinds,  \* event types (container, image, volume, ...)
    MaxEvents,   \* bound on the events published in a behaviour
    BufferSize   \* capacity of a subscription channel

ASSUME /\ MaxEvents \in Nat
       /\ BufferSize \in Nat \ {0}

VARIABLES
    published,   \* every event published so far, in order: [seq, kind]
    subs,        \* the bus's registered subscriptions
    chan,        \* chan[s]: the events waiting in s's subscription channel
    from,        \* from[s]: how many events were published when s subscribed
    dropped,     \* dropped[s]: the bus dropped an event for s's full channel
    filter,      \* filter[s]: the event kinds s's filters accept
    pc,          \* pc[s]: "start", "loop" (in the select) or "done"
    cancelled,   \* cancelled[s]: s's request context is done
    written      \* written[s]: the events encoded and flushed to s's client

vars == <<published, subs, chan, from, dropped, filter, pc, cancelled, written>>

Event == [seq : 1 .. MaxEvents, kind : EventKinds]

(* filtr.Match(&msg), with the filter engine reduced to the set of kinds   *)
(* it accepts; filters that fail to parse accept every kind.              *)
EventMatches(s, e) == e.kind \in filter[s]

Init ==
    /\ published = <<>>
    /\ subs = {}
    /\ chan = [s \in Streams |-> <<>>]
    /\ from = [s \in Streams |-> 0]
    /\ dropped = [s \in Streams |-> FALSE]
    /\ filter \in [Streams -> SUBSET EventKinds]
    /\ pc = [s \in Streams |-> "start"]
    /\ cancelled = [s \in Streams |-> FALSE]
    /\ written = [s \in Streams |-> <<>>]

-----------------------------------------------------------------------------
(* Mutant: a publish that ignores the channel's capacity.                 *)
PublishIgnoringCapacity(k) ==
    LET e == [seq |-> Len(published) + 1, kind |-> k]
    IN  /\ Len(published) < MaxEvents
        /\ published' = Append(published, e)
        /\ chan' = [s \in Streams |-> IF s \in subs THEN Append(chan[s], e) ELSE chan[s]]
        /\ UNCHANGED <<subs, from, dropped, filter, pc, cancelled, written>>

(* The bus's Publish: a new event for every registered subscriber, dropped *)
(* for one whose channel is full.                                          *)
Publish(k) ==
    LET e == [seq |-> Len(published) + 1, kind |-> k]
        full == {s \in subs : Len(chan[s]) >= BufferSize}
    IN  /\ Len(published) < MaxEvents
        /\ published' = Append(published, e)
        /\ chan' = [s \in Streams |-> IF s \in subs \ full THEN Append(chan[s], e)
                                                         ELSE chan[s]]
        /\ dropped' = [s \in Streams |-> dropped[s] \/ s \in full]
        /\ UNCHANGED <<subs, from, filter, pc, cancelled, written>>

(* The client closes the connection: the request context is done.         *)
Cancel(s) ==
    /\ ~cancelled[s]
    /\ cancelled' = [cancelled EXCEPT ![s] = TRUE]
    /\ UNCHANGED <<published, subs, chan, from, dropped, filter, pc, written>>

(* Header, filter parsing and cr.Events.Subscribe().                       *)
StreamSubscribe(s) ==
    /\ pc[s] = "start"
    /\ subs' = subs \cup {s}
    /\ chan' = [chan EXCEPT ![s] = <<>>]
    /\ from' = [from EXCEPT ![s] = Len(published)]
    /\ pc' = [pc EXCEPT ![s] = "loop"]
    /\ UNCHANGED <<published, dropped, filter, cancelled, written>>

(* select case <-ctx.Done(): cr.Events.Unsubscribe(id) and return.        *)
StreamDone(s) ==
    /\ pc[s] = "loop"
    /\ cancelled[s]
    /\ subs' = subs \ {s}
    /\ chan' = [chan EXCEPT ![s] = <<>>]
    /\ pc' = [pc EXCEPT ![s] = "done"]
    /\ UNCHANGED <<published, from, dropped, filter, cancelled, written>>

(* Mutant: every received event is written, the filter not consulted.     *)
StreamReceiveUnfiltered(s) ==
    /\ pc[s] = "loop"
    /\ chan[s] # <<>>
    /\ chan' = [chan EXCEPT ![s] = Tail(@)]
    /\ written' = [written EXCEPT ![s] = Append(@, Head(chan[s]))]
    /\ UNCHANGED <<published, subs, from, dropped, filter, pc, cancelled>>

(* select case msg := <-el: encode and flush the event if it matches.     *)
StreamReceive(s) ==
    /\ pc[s] = "loop"
    /\ chan[s] # <<>>
    /\ chan' = [chan EXCEPT ![s] = Tail(@)]
    /\ written' = IF EventMatches(s, Head(chan[s]))
                    THEN [written EXCEPT ![s] = Append(@, Head(chan[s]))]
                    ELSE written
    /\ UNCHANGED <<published, subs, from, dropped, filter, pc, cancelled>>

Next ==
    \/ \E k \in EventKinds : Publish(k)
    \/ \E s \in Streams :
          \/ Cancel(s)
          \/ StreamSubscribe(s)
          \/ StreamDone(s)
          \/ StreamReceive(s)

Spec == Init /\ [][Next]_vars

-----------------------------------------------------------------------------
TypeOK ==
    /\ published \in Seq(Event) /\ Len(published) <= MaxEvents
    /\ subs \subseteq Streams
    /\ chan \in [Streams -> Seq(Event)]
    /\ \A s \in Streams : Len(chan[s]) <= BufferSize
    /\ from \in [Streams -> 0 .. MaxEvents]
    /\ dropped \in [Streams -> BOOLEAN]
    /\ filter \in [Streams -> SUBSET EventKinds]
    /\ pc \in [Streams -> {"start", "loop", "done"}]
    /\ cancelled \in [Streams -> BOOLEAN]
    /\ written \in [Streams -> Seq(Event)]

(* A live stream whose channel never overflowed has written exactly the   *)
(* events its filters accept among those published since it subscribed,  *)
(* in publication order, except those still waiting in its channel: no    *)
(* event lost, duplicated, reordered, or let through the filter.          *)
StreamFaithful ==
    \A s \in Streams :
        (pc[s] = "loop" /\ ~dropped[s]) =>
            LET Accepted(q) == SelectSeq(q, LAMBDA e : EventMatches(s, e))
            IN  written[s] \o Accepted(chan[s])
                  = Accepted(SubSeq(published, from[s] + 1, Len(published)))
=============================================================================
