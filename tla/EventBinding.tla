----------------------------- MODULE EventBinding ----------------------------
(***************************************************************************)
(* What Filter, Watch, Next, Close and Parse of the contract bindings do   *)
(* for one event (bindings/; the declarations of the Deposit event of      *)
(* Bridge.go stand for those of every event).                              *)
(*                                                                         *)
(* The node's subscription feeds a channel of logs and ends with an error, *)
(* or without one.  An iterator reads the channel when its user calls      *)
(* Next; a watch has a goroutine that reads it, unpacks each log and hands *)
(* the event to the user's sink.  User, goroutine and subscription run     *)
(* concurrently: one action is one case of a select.                       *)
(*                                                                         *)
(* A log is an event some contract emitted at the bound address, with a    *)
(* value for each indexed argument.  A contract of another standard may    *)
(* emit an event of the same signature with other indexed arguments.       *)
(***************************************************************************)
EXTENDS ContractEvents, Integers

CONSTANTS Values,    \* values of indexed arguments
          Emittable, \* [Events -> sets of logs]: emitted where the event is filtered
          Capacity,  \* of the channel of logs (go-ethereum: 128)
          MaxLogs    \* bound: the logs emitted

Names(e) == Range(e.indexed)

Logs == UNION {[event : {e}, value : [Names(e) -> Values]] : e \in Events}

ASSUME BindingAssumption ==
    /\ Emittable \in [Events -> SUBSET Logs]
    /\ Capacity \in Nat \ {0}
    /\ MaxLogs \in Nat

VARIABLES
    event,    \* the event that is filtered for
    wanted,   \* the arguments of Filter or Watch: [Names(event) -> SUBSET Values]
    consumer, \* "iterator" (Filter) or "watch" (Watch)
    emitted,  \* the logs of the contract, matching or not
    sent,     \* of these, the subscription has been through so many
    logs,     \* the channel, of positions in emitted
    subErr,   \* sub.Err(): "open", "error" (one to be received) or "closed"
    subQuit,  \* was Unsubscribe called on the node's subscription?
    user,     \* what the user is in: "idle", "next", "unsubscribe" or "gone"
    answer,   \* what Next returned last
    done,     \* it.done: "no" or "yes"
    fail,     \* it.fail, or the error the watch ended with
    watcher,  \* the goroutine of Watch
    held,     \* the position it is handing to the sink, or 0
    quit,     \* is the quit channel of the watch closed?
    got       \* history: the positions the user was given the events of

chosen == <<event, wanted, consumer>>
subscription == <<emitted, sent, logs, subErr, subQuit>>
iterator == <<done, fail, answer>>
watch == <<watcher, held, quit>>
vars == <<event, wanted, consumer, emitted, sent, logs, subErr, subQuit,
          user, answer, done, fail, watcher, held, quit, got>>
-----------------------------------------------------------------------------
\* The rule at a position of the query: one item per value that was passed.
Rule(i) == wanted[event.indexed[i]]

\* eth_getLogs: the signature first, then position by position; a log with
\* fewer topics does not match, and an empty rule matches everything.
NodeMatches(l) ==
    /\ l.event.name = event.name
    /\ Len(l.event.indexed) >= Len(event.indexed)
    /\ \A i \in DOMAIN event.indexed :
          Rule(i) = {} \/ l.value[l.event.indexed[i]] \in Rule(i)

\* UnpackLog, as Parse, Next and Watch call it.
Unpacks(l) ==
    /\ l.event.name = event.name
    /\ Len(l.event.indexed) = Len(event.indexed)

\* Filter has queried what there is; Watch sees what is emitted from now on.
Init ==
    /\ event \in Events
    /\ wanted \in [Names(event) -> SUBSET Values]
    /\ consumer \in {"iterator", "watch"}
    /\ emitted \in IF consumer = "iterator"
                  THEN BoundedSeq(Emittable[event], MaxLogs) ELSE {<< >>}
    /\ sent = 0
    /\ logs = << >>
    /\ subErr = "open"
    /\ subQuit = "no"
    /\ user = "idle"
    /\ answer = "none"
    /\ done = "no"
    /\ fail = "nil"
    /\ watcher = IF consumer = "watch" THEN "select" ELSE "off"
    /\ held = 0
    /\ quit = "no"
    /\ got = << >>
-----------------------------------------------------------------------------
(* The subscription, in go-ethereum and the node.                          *)

Emit ==
    /\ consumer = "watch"
    /\ Len(emitted) < MaxLogs
    /\ \E l \in Emittable[event] :
          emitted' = Append(emitted, l)
    /\ UNCHANGED <<chosen, sent, logs, subErr, subQuit, user, iterator, watch, got>>

\* The matching logs it has not been through.
Pending == {i \in sent + 1 .. Len(emitted) : NodeMatches(emitted[i])}

Produce ==
    /\ subErr = "open"
    /\ Len(logs) < Capacity
    /\ \E i \in Pending :
          /\ \A j \in Pending : i <= j
          /\ logs' = Append(logs, i)
          /\ sent' = i
    /\ UNCHANGED <<chosen, emitted, subErr, subQuit, user, iterator, watch, got>>

\* It ends when Filter's logs are delivered, or after Unsubscribe.
SubscriptionEnds ==
    /\ subErr = "open"
    /\ subQuit = "yes" \/ (consumer = "iterator" /\ Pending = {})
    /\ subErr' = "closed"
    /\ UNCHANGED <<chosen, emitted, sent, logs, subQuit, user, iterator,
                   watch, got>>

SubscriptionFails ==
    /\ subErr = "open"
    /\ subQuit = "no"
    /\ subErr' = "error"
    /\ UNCHANGED <<chosen, emitted, sent, logs, subQuit, user, iterator,
                   watch, got>>

\* Receiving from sub.Err(): the error once, then nil from the closed channel.
ReceiveErr ==
    /\ subErr # "open"
    /\ fail' = IF subErr = "error" THEN "subscription" ELSE "nil"
    /\ subErr' = "closed"
-----------------------------------------------------------------------------
(* The iterator.                                                           *)

CallNext ==
    /\ consumer = "iterator"
    /\ user = "idle"
    /\ user' = "next"
    /\ answer' = "none"
    /\ UNCHANGED <<chosen, subscription, done, fail, watch, got>>

Answer(a) == user' = "idle" /\ answer' = a

\* If the iterator failed, stop iterating.
NextFailed ==
    /\ user = "next"
    /\ fail # "nil"
    /\ Answer("false")
    /\ UNCHANGED <<chosen, subscription, done, fail, watch, got>>

\* A log arrived, while the iterator is in progress or after it is done.
NextLog ==
    /\ user = "next"
    /\ fail = "nil"
    /\ logs # << >>
    /\ logs' = Tail(logs)
    /\ IF Unpacks(emitted[Head(logs)])
       THEN /\ Answer("true")
            /\ got' = Append(got, Head(logs))
            /\ UNCHANGED fail
       ELSE /\ Answer("false")
            /\ fail' = "unpack"
            /\ UNCHANGED got
    /\ UNCHANGED <<chosen, emitted, sent, subErr, subQuit, done, watch>>

\* mutant of NextErr: the end of the subscription is the end of the iteration
NextErrReturns ==
    /\ user = "next"
    /\ fail = "nil"
    /\ done = "no"
    /\ ReceiveErr
    /\ done' = "yes"
    /\ Answer("false")
    /\ UNCHANGED <<chosen, emitted, sent, logs, subQuit, watch, got>>

\* The subscription has ended: it.done, and Next again.
NextErr ==
    /\ user = "next"
    /\ fail = "nil"
    /\ done = "no"
    /\ ReceiveErr
    /\ done' = "yes"
    /\ UNCHANGED <<chosen, emitted, sent, logs, subQuit, user, answer, watch,
                   got>>

\* Done, and nothing is left in the channel.
NextExhausted ==
    /\ user = "next"
    /\ fail = "nil"
    /\ done = "yes"
    /\ logs = << >>
    /\ Answer("false")
    /\ UNCHANGED <<chosen, subscription, done, fail, watch, got>>

\* Close, which waits until the subscription has ended.
Close ==
    /\ consumer = "iterator"
    /\ user = "idle"
    /\ subQuit = "no"
    /\ user' = "unsubscribe"
    /\ subQuit' = "yes"
    /\ UNCHANGED <<chosen, emitted, sent, logs, subErr, iterator, watch, got>>

Closed ==
    /\ consumer = "iterator"
    /\ user = "unsubscribe"
    /\ subErr # "open"
    /\ user' = "idle"
    /\ UNCHANGED <<chosen, subscription, iterator, watch, got>>

NextStep ==
    \/ NextFailed
    \/ NextLog
    \/ NextErr
    \/ NextExhausted
    \/ Closed
-----------------------------------------------------------------------------
(* The goroutine of Watch.                                                 *)

\* It returns: the deferred sub.Unsubscribe() comes first.
Leaves ==
    /\ watcher' = "leaving"
    /\ held' = 0
    /\ subQuit' = "yes"
    /\ UNCHANGED <<chosen, emitted, sent, user, answer, done, quit, got>>

WatchLog ==
    /\ watcher = "select"
    /\ logs # << >>
    /\ logs' = Tail(logs)
    /\ IF Unpacks(emitted[Head(logs)])
       THEN /\ watcher' = "sink"
            /\ held' = Head(logs)
            /\ UNCHANGED <<chosen, emitted, sent, subErr, subQuit, user,
                           iterator, quit, got>>
       ELSE /\ fail' = "unpack"
            /\ Leaves
            /\ UNCHANGED subErr

\* mutant of WatchErr: the error of the subscription ends nothing while an
\* event is handed over, which is then dropped
WatchErrDrops ==
    /\ watcher \in {"select", "sink"}
    /\ ReceiveErr
    /\ watcher' = "select"
    /\ held' = 0
    /\ UNCHANGED <<chosen, emitted, sent, logs, subQuit, user, answer, done,
                   quit, got>>

WatchErr ==
    /\ watcher \in {"select", "sink"}
    /\ ReceiveErr
    /\ Leaves
    /\ UNCHANGED logs

\* mutant of WatchQuit: quit is not looked at while the sink is not read
WatchQuitAtTop ==
    /\ watcher = "select"
    /\ quit = "yes"
    /\ fail' = "nil"
    /\ Leaves
    /\ UNCHANGED <<logs, subErr>>

WatchQuit ==
    /\ watcher \in {"select", "sink"}
    /\ quit = "yes"
    /\ fail' = "nil"
    /\ Leaves
    /\ UNCHANGED <<logs, subErr>>

WatchReturns ==
    /\ watcher = "leaving"
    /\ subErr # "open"
    /\ watcher' = "returned"
    /\ UNCHANGED <<chosen, subscription, user, iterator, held, quit, got>>

\* The user reads the sink; nothing makes it do so.
Receive ==
    /\ watcher = "sink"
    /\ user = "idle"
    /\ got' = Append(got, held)
    /\ held' = 0
    /\ watcher' = "select"
    /\ UNCHANGED <<chosen, subscription, user, iterator, quit>>

\* Unsubscribe of the watch: it waits until the goroutine has returned.
Unsubscribe ==
    /\ consumer = "watch"
    /\ user = "idle"
    /\ user' = "unsubscribe"
    /\ quit' = "yes"
    /\ UNCHANGED <<chosen, subscription, iterator, watcher, held, got>>

Unsubscribed ==
    /\ consumer = "watch"
    /\ user = "unsubscribe"
    /\ watcher = "returned"
    /\ user' = "gone"
    /\ UNCHANGED <<chosen, subscription, iterator, watch, got>>

WatchStep ==
    \/ WatchLog
    \/ WatchErr
    \/ WatchQuit
    \/ WatchReturns
    \/ Unsubscribed
-----------------------------------------------------------------------------
Next ==
    \/ Emit
    \/ Produce
    \/ SubscriptionEnds
    \/ SubscriptionFails
    \/ CallNext
    \/ NextStep
    \/ Close
    \/ WatchStep
    \/ Receive
    \/ Unsubscribe

Spec == Init /\ [][Next]_vars

(* The goroutines run.  Nothing is assumed of the user, who need not read  *)
(* the sink, nor of the contract.                                          *)
FairSpec ==
    /\ Spec
    /\ WF_vars(Produce)
    /\ WF_vars(SubscriptionEnds)
    /\ WF_vars(NextStep)
    /\ WF_vars(WatchStep)
-----------------------------------------------------------------------------
\* Every variable has its type; the channel keeps its capacity.
TypeOK ==
    /\ event \in Events
    /\ wanted \in [Names(event) -> SUBSET Values]
    /\ consumer \in {"iterator", "watch"}
    /\ emitted \in Seq(Logs)
    /\ sent \in 0 .. Len(emitted)
    /\ logs \in Seq(1 .. Len(emitted)) /\ Len(logs) <= Capacity
    /\ subErr \in {"open", "error", "closed"}
    /\ subQuit \in {"no", "yes"}
    /\ user \in {"idle", "next", "unsubscribe", "gone"}
    /\ answer \in {"none", "true", "false"}
    /\ done \in {"no", "yes"}
    /\ fail \in {"nil", "unpack", "subscription"}
    /\ watcher \in {"off", "select", "sink", "leaving", "returned"}
    /\ held \in 0 .. Len(emitted)
    /\ quit \in {"no", "yes"}
    /\ got \in Seq(1 .. Len(emitted))

\* What the caller of Filter or Watch asked for, by the names of the arguments.
AskedFor(l) ==
    /\ l.event = event
    /\ \A n \in Names(event) : wanted[n] = {} \/ l.value[n] \in wanted[n]

Wanted == {i \in DOMAIN emitted : AskedFor(emitted[i])}

\* The user is given what it asked for, in the order of the chain, without a
\* gap and without a repetition: neither an event that does not unpack nor
\* the race of the selects makes it miss one and then get a later one.
InOrder ==
    /\ \A j, k \in DOMAIN got : j < k => got[j] < got[k]
    /\ Range(got) \subseteq Wanted
    /\ \A i \in Wanted : (\E p \in Range(got) : i <= p) => i \in Range(got)

\* Next returns false without an error only when every event was returned:
\* the end of the subscription, which the select may choose before the logs
\* that are still in the channel, hides none of them.
CompleteUnlessFailed ==
    answer = "false" /\ fail = "nil" /\ subQuit = "no" => Wanted \subseteq Range(got)

\* Next, Close and Unsubscribe return, also when nobody reads the sink and
\* the channel is full.
CallsReturn == user \in {"next", "unsubscribe"} ~> user \in {"idle", "gone"}
=============================================================================
