------------------------------ MODULE EventBus ------------------------------
(***************************************************************************)
(* EventBus (include/core/EventBus.h): several threads subscribe,          *)
(* unsubscribe and publish; a handler may do all of that too, so each      *)
(* thread has a stack of publish() calls.  subscribe, unsubscribe and the  *)
(* first half of publish hold the mutex and are one step each; the         *)
(* handlers are called after it was released.                              *)
(***************************************************************************)
EXTENDS Integers, SequencesExt

CONSTANTS
  BusThreads, Events,
  MaxSubs,       \* bound: how many subscriptions are ever made
  MaxDepth       \* bound: how deep publish() is nested in handlers

ASSUME BusAssumption == MaxSubs \in Nat /\ MaxDepth \in Nat /\ "none" \notin Events

VARIABLES
  subs,          \* subs_: the ids subscribed to each event; a handler is its id
  nextSub,       \* nextId_
  calls,         \* the publish() calls each thread is in, the innermost last
  subscribedTo   \* history: the event each id is subscribed to, or "none"

busVars == <<subs, nextSub, calls, subscribedTo>>

BusInit ==
  /\ subs = [e \in Events |-> <<>>]
  /\ nextSub = 0
  /\ calls = [t \in BusThreads |-> <<>>]
  /\ subscribedTo = [id \in 0 .. MaxSubs - 1 |-> "none"]

\* A publish() call: its copy hs of the handlers, how many it has called, is one
\* of them running; and, as history, whom it had to call.
Call(e) == [event |-> e, hs |-> subs[e], called |-> <<>>, running |-> FALSE,
            owed |-> {id \in DOMAIN subscribedTo : subscribedTo[id] = e}]

\* A thread can make a call when it is in no publish() or in a handler.
Top(t)    == Last(calls[t])
MayAct(t) == calls[t] # <<>> => Top(t).running
-----------------------------------------------------------------------------
Subscribe(t, e) ==
  /\ MayAct(t) /\ nextSub < MaxSubs
  /\ subs' = [subs EXCEPT ![e] = Append(@, nextSub)]
  /\ subscribedTo' = [subscribedTo EXCEPT ![nextSub] = e]
  /\ nextSub' = nextSub + 1
  /\ UNCHANGED calls

Unsubscribe(t, id) ==
  /\ MayAct(t) /\ subscribedTo[id] # "none"
  /\ subs' = [e \in Events |-> RemoveFirst(subs[e], id)]
  /\ subscribedTo' = [subscribedTo EXCEPT ![id] = "none"]
  /\ UNCHANGED <<nextSub, calls>>

\* publish() up to the loop; with nobody to call it returns at once.
Publish(t, e) ==
  /\ MayAct(t) /\ Len(calls[t]) < MaxDepth
  /\ subs[e] # <<>>
  /\ calls' = [calls EXCEPT ![t] = Append(@, Call(e))]
  /\ UNCHANGED <<subs, nextSub, subscribedTo>>

\* The handlers the loop has still to call; a loop over the live list; over the copy.
PendingLive(c) == SubSeq(subs[c.event], Len(c.called) + 1, Len(subs[c.event]))

Pending(c) == SubSeq(c.hs, Len(c.called) + 1, Len(c.hs))

CallHandler(t) ==
  /\ ~MayAct(t) /\ Pending(Top(t)) # <<>>
  /\ calls' = [calls EXCEPT ![t][Len(calls[t])].called = Append(@, Head(Pending(Top(t)))),
                            ![t][Len(calls[t])].running = TRUE]
  /\ UNCHANGED <<subs, nextSub, subscribedTo>>

HandlerReturns(t) ==
  /\ calls[t] # <<>> /\ Top(t).running
  /\ calls' = [calls EXCEPT ![t][Len(calls[t])].running = FALSE]
  /\ UNCHANGED <<subs, nextSub, subscribedTo>>

PublishReturns(t) ==
  /\ ~MayAct(t) /\ Pending(Top(t)) = <<>>
  /\ calls' = [calls EXCEPT ![t] = Front(@)]
  /\ UNCHANGED <<subs, nextSub, subscribedTo>>

BusNext ==
  \E t \in BusThreads :
    \/ \E e \in Events : Subscribe(t, e) \/ Publish(t, e)
    \/ \E id \in DOMAIN subscribedTo : Unsubscribe(t, id)
    \/ CallHandler(t) \/ HandlerReturns(t) \/ PublishReturns(t)

BusSpec == BusInit /\ [][BusNext]_busVars
-----------------------------------------------------------------------------
\* The ids of a set, each once, in the order they were subscribed.
Lists(s, ids) ==
  /\ \A i, j \in 1 .. Len(s) : i < j => s[i] < s[j]
  /\ {s[i] : i \in 1 .. Len(s)} = ids

\* Whatever handlers and other threads subscribe, unsubscribe or publish in the
\* meantime, a publish() calls exactly the handlers that were subscribed to its
\* event when it began, each once and in the order they subscribed.  So a
\* handler may be called after it was unsubscribed, but only by a publish()
\* that began before.
PublishIsOneRound ==
  [][\A t \in BusThreads : PublishReturns(t) => Lists(Top(t).called, Top(t).owed)]_busVars
=============================================================================
