------------------------------- MODULE PubSub -------------------------------
(***************************************************************************)
(* pubsub.c: a list of subscribers under one mutex that pubsub_publish     *)
(* keeps while it runs the callbacks.  The mutex is locked with            *)
(* pthread_mutex_timedlock and a deadline of the monotonic clock, which    *)
(* the realtime clock passed long ago: a call that finds it locked returns *)
(* at once.                                                                *)
(*                                                                         *)
(* pc[t]: "idle"; in pubsub_publish "walk", "callback" (a subscriber's),   *)
(* "again" (a call of pubsub.c by that callback), "answer" (the handshake  *)
(* after it), "unlock"; "refused" (the mutex was locked)                   *)
(***************************************************************************)
EXTENDS Integers, Sequences

CONSTANTS Threads, Topics,
          Names  \* to tell apart the subscribers of a topic

Subscribers == Topics \X Names
Nobody == 0

VARIABLES list,   \* ps.subscribers
          mutex,  \* who has ps.mutex
          gone,   \* pubsub_destroy has freed the list
          topic,  \* topic[t]: what t publishes
          todo,   \* todo[t]: the rest of the list, from sub on
          calls,  \* auxiliary: the callbacks of t's publication so far
          pc

publication == <<topic, todo, calls>>
vars == <<list, mutex, gone, publication, pc>>
-----------------------------------------------------------------------------
\* pubsub_init.
Init ==
    /\ list = <<>> /\ mutex = Nobody /\ gone = FALSE
    /\ topic \in [Threads -> {CHOOSE x \in Topics : TRUE}]
    /\ todo = [t \in Threads |-> <<>>]
    /\ calls = [t \in Threads |-> <<>>]
    /\ pc = [t \in Threads |-> "idle"]

Goto(t, label) == pc' = [pc EXCEPT ![t] = label]

\* Nobody calls pubsub.c once pubsub_destroy has returned, which main ensures.
Enters(t) == pc[t] = "idle" /\ ~gone

\* A call finds the mutex locked, and returns.
Refused(t) ==
    /\ Enters(t) /\ mutex # Nobody
    /\ Goto(t, "refused")
    /\ UNCHANGED <<list, mutex, gone, publication>>
Return(t) ==
    /\ pc[t] = "refused"
    /\ Goto(t, "idle")
    /\ UNCHANGED <<list, mutex, gone, publication>>

\* pubsub_subscribe that gets the mutex.
Subscribe(t, s) ==
    /\ Enters(t) /\ mutex = Nobody
    /\ \A i \in DOMAIN list : list[i] # s
    /\ list' = <<s>> \o list
    /\ UNCHANGED <<mutex, gone, publication, pc>>

DestroyUnlocked(t) ==
    /\ Enters(t)
    /\ list' = <<>> /\ gone' = TRUE
    /\ UNCHANGED <<mutex, publication, pc>>

\* pubsub_destroy that gets the mutex.  ps.subscribers is not reset, but nobody
\* follows it before the next pubsub_init.
Destroy(t) ==
    /\ Enters(t) /\ mutex = Nobody
    /\ list' = <<>> /\ gone' = TRUE
    /\ UNCHANGED <<mutex, publication, pc>>

\* pubsub_init after a pubsub_destroy.
InitAgain ==
    /\ gone /\ \A t \in Threads : pc[t] = "idle"
    /\ gone' = FALSE
    /\ UNCHANGED <<list, mutex, publication, pc>>

\* pubsub_publish that gets the mutex: sub = ps.subscribers.
Publish(t, x) ==
    /\ Enters(t) /\ mutex = Nobody
    /\ mutex' = t
    /\ topic' = [topic EXCEPT ![t] = x]
    /\ todo' = [todo EXCEPT ![t] = list]
    /\ calls' = [calls EXCEPT ![t] = <<>>]
    /\ Goto(t, "walk")
    /\ UNCHANGED <<list, gone>>

\* A round of its loop up to the callback of a subscriber of the topic, or to
\* the next round; the end of the loop.
Walk(t) ==
    /\ pc[t] = "walk"
    /\ IF todo[t] = <<>>
       THEN Goto(t, "unlock") /\ UNCHANGED <<todo, calls>>
       ELSE LET sub == Head(todo[t])
            IN  IF sub[1] = topic[t]
                THEN /\ calls' = [calls EXCEPT ![t] = Append(@, sub)]
                     /\ Goto(t, "callback") /\ UNCHANGED todo
                ELSE todo' = [todo EXCEPT ![t] = Tail(@)] /\ UNCHANGED <<calls, pc>>
    /\ UNCHANGED <<list, mutex, gone, topic>>

\* The callback returns, perhaps after having published or subscribed itself.
Callback(t) ==
    /\ pc[t] = "callback"
    /\ Goto(t, "again") \/ Goto(t, "answer")
    /\ UNCHANGED <<list, mutex, gone, publication>>

\* That inner call finds the mutex locked, by its own thread.
Nested(t) ==
    /\ pc[t] = "again" /\ mutex # Nobody
    /\ Goto(t, "answer")
    /\ UNCHANGED <<list, mutex, gone, publication>>

\* event_pair_signal1 and event_pair_wait2, which times out since no subscriber
\* has the event pair; sub = sub->next.
Answer(t) ==
    /\ pc[t] = "answer"
    /\ todo' = [todo EXCEPT ![t] = Tail(@)]
    /\ Goto(t, "walk")
    /\ UNCHANGED <<list, mutex, gone, topic, calls>>

\* The end of pubsub_publish.
Unlock(t) ==
    /\ pc[t] = "unlock"
    /\ mutex' = Nobody
    /\ calls' = [calls EXCEPT ![t] = <<>>]
    /\ topic' = [topic EXCEPT ![t] = CHOOSE x \in Topics : TRUE]
    /\ Goto(t, "idle")
    /\ UNCHANGED <<list, gone, todo>>

Step(t) == Return(t) \/ Walk(t) \/ Callback(t) \/ Nested(t) \/ Answer(t) \/ Unlock(t)

Next == InitAgain \/ \E t \in Threads :
    \/ Refused(t) \/ Destroy(t) \/ Step(t)
    \/ \E s \in Subscribers : Subscribe(t, s)
    \/ \E x \in Topics : Publish(t, x)

\* A thread inside pubsub.c goes on; callbacks return.
Fairness == \A t \in Threads : WF_vars(Step(t))

Spec == Init /\ [][Next]_vars /\ Fairness
-----------------------------------------------------------------------------
\* s holds the subscribers of topic x among the first n of subs, each as often
\* as there and in the order of subs.
Selects(s, subs, x, n) == \E f \in [DOMAIN s -> 1..n] :
    /\ \A i, j \in DOMAIN s : i < j => f[i] < f[j]
    /\ \A i \in DOMAIN s : s[i] = subs[f[i]] /\ subs[f[i]][1] = x
    /\ \A k \in 1..n : subs[k][1] = x => \E i \in DOMAIN s : f[i] = k

\* A publication that got the mutex calls every subscriber of its topic exactly
\* once and in the order of the list, while others subscribe, publish and
\* destroy, and no call works on a list that has been freed.
DeliveredOnce == \A t \in Threads :
    /\ pc[t] = "unlock" => Selects(calls[t], list, topic[t], Len(list))
    /\ todo[t] # <<>> => ~gone

\* Every call returns: a callback that calls back into pubsub.c, whose mutex its
\* own thread has, does not stop it.
Returns == \A t \in Threads : pc[t] # "idle" ~> pc[t] = "idle"

\* "Publisher-Subscriber model for data dissemination": no publication (and no
\* subscription) is turned away.
NothingDropped == \A t \in Threads : pc[t] # "refused"
=============================================================================
