---------------------------- MODULE SupplierLoop ----------------------------
(* The main loop of the supplier: supplier/main.py from line 207 on, with the  *)
(* calls it makes to the node (bitcoin_rpc.py), to the publisher (pyblock.py)  *)
(* and to the health recorder (health.py).                                     *)
(*                                                                             *)
(* The loop is one thread that only ever waits in a blocking call or a sleep.  *)
(* A call is two steps: it returns (time passes and the answer is taken), then *)
(* the loop acts on the answer. The node, its chain, Tor and the pool change   *)
(* between any two steps. Time is kept as ages (time since an event), each     *)
(* saturated at a value beyond which no guard and no property distinguishes.   *)
EXTENDS Integers

CONSTANTS
    PollInterval,         \* POLL_INTERVAL_S
    PublishInterval,      \* PUBLISH_INTERVAL_S
    HeartbeatInterval,    \* HEARTBEAT_INTERVAL_S
    StaleAfter,           \* health.STALE_AFTER_S
    RpcTimeout,           \* longest an RPC call takes (bitcoin_rpc.py:47)
    PublishTimeout,       \* Tor probe (5 s) and publication deadline (30 s)
    RpcDelays,            \* durations an RPC call may take
    PublishDelays,        \* durations a publication may take
    MaxHeight,            \* bound: heights of the chain explored
    MaxAge,               \* bound: ages of the record are kept up to this one
    Faults                \* what the environment may do, a subset of FaultKinds

FaultKinds == {"node", "ibd", "reorg", "malformed", "pool", "tor", "storage", "kill", "stop"}

ASSUME TimingAssumption ==
    /\ PollInterval \in Nat \ {0}
    /\ PublishInterval \in Nat \ {0}
    /\ HeartbeatInterval \in Nat
    /\ StaleAfter \in Nat
    /\ RpcTimeout \in Nat
    /\ PublishTimeout \in Nat
    /\ RpcDelays \in SUBSET (0..RpcTimeout)
    /\ PublishDelays \in SUBSET (0..PublishTimeout)
    /\ RpcDelays # {}
    /\ PublishDelays # {}

\* main.py:292: the publication fits in the stale guard of the health record.
ASSUME DeadlineAssumption == PublishTimeout <= StaleAfter

\* The longest time between two writes of the record: a heartbeat not yet due, a
\* sleep and two calls; or, before the first write of the loop, three calls.
ReportGap == HeartbeatInterval + PollInterval + 2 * RpcTimeout

StartGap == IF ReportGap > 3 * RpcTimeout THEN ReportGap ELSE 3 * RpcTimeout

\* The longest time a healthy record outlives the acceptance it stands for: it
\* idles for less than PublishInterval, sleeps, makes two calls and publishes.
ActiveGap == PublishInterval + PollInterval + 2 * RpcTimeout + PublishTimeout

\* The bounds do not hide what the properties compare.
ASSUME BoundAssumption ==
    /\ MaxHeight \in Nat
    /\ MaxAge \in Nat
    /\ MaxAge > StartGap
    /\ MaxAge > ActiveGap
    /\ MaxAge > StaleAfter
    /\ Faults \subseteq FaultKinds

-----------------------------------------------------------------------------
(* Values.                                                                   *)

Heights  == 0..MaxHeight
NoHeight == -1                 \* last_height None; also an unusable blocks/headers value

\* Initial block download as reported: a bool, or something that is not one.
IbdFlags == {"yes", "no", "invalid"}

HealthStates == {"starting", "node_unavailable", "node_unsynced", "gbt_unsupported",
                 "tor_unavailable", "pyblock_rejected", "healthy_active", "stopped", "failed"}

ChainInfos == [kind : {"info"}, blocks : Heights \cup {NoHeight},
               headers : Heights \cup {NoHeight}, ibd : IbdFlags]

\* Blocks of one height are told apart by the branch they are on.
Branches == {"main", "fork"}
Tips  == [height : Heights, branch : Branches]
NoTip == [height |-> NoHeight, branch |-> "main"]

Templates == [kind : {"template"}, tip : Tips, synced : BOOLEAN]

Reply(k) == [kind |-> k]

\* Every other way a call ends: an exception, or an answer with no content kept.
PlainReplies == [kind : {"none", "error", "nonobject",
                         "tor_not_ready", "publish_error", "accepted", "refused"}]

Answers == ChainInfos \cup Templates \cup PlainReplies

Locations == {"netinfo", "chaininfo", "evaluate", "template", "templated",
              "publishing", "answered", "sleeping", "ended"}

Outcomes == [end : {"none", "accepted", "refused", "undelivered"}, tip : Tips \cup {NoTip}]

Ages == [record : 0..MaxAge, sent : 0..PublishInterval, iter : 0..PublishInterval,
         post : 0..PollInterval]

VARIABLES
    pc,          \* where the loop is: a pending call, an answer to act on, a sleep
    answer,      \* the answer the loop is about to act on
    height,      \* local height of this iteration once it has passed the gate
    lastHeight,  \* last_height: height of the last answered publication
    record,      \* state in the health file
    memory,      \* health.state: the state the next touch would write
    age,         \* time since: the record, last_sent, this iteration's now; history: the
                 \* last publication began
    outcome,     \* history: the tip posted last, and how its publication ended
    acceptAge,   \* history: time since the acceptance a healthy record stands for
    node,        \* the Bitcoin node: reachable, capable of blake2b, its chain
    outside      \* the pool and the Tor SOCKS port

vars == <<pc, answer, height, lastHeight, record, memory, age, outcome, acceptAge, node, outside>>
loopVars == <<pc, answer, height, lastHeight, record, memory, age, outcome, acceptAge>>

-----------------------------------------------------------------------------
(* Time.                                                                     *)

Saturate(a, cap) == IF a > cap THEN cap ELSE a

\* last_sent and now are only compared with PublishInterval, the beginning of the
\* last publication with PollInterval.
Aged(d) == [record |-> Saturate(age.record + d, MaxAge),
            sent   |-> Saturate(age.sent + d, PublishInterval),
            iter   |-> Saturate(age.iter + d, PublishInterval),
            post   |-> Saturate(age.post + d, PollInterval)]

Elapse(d) ==
    /\ age' = Aged(d)
    /\ acceptAge' = Saturate(acceptAge + d, MaxAge)

-----------------------------------------------------------------------------
(* The synchronization gate, a function of one getblockchaininfo answer.     *)

ValidHeight(h) == h >= 0

NodeSyncStatus_IbdOnly(info) == [synchronized |-> info.ibd = "no", height |-> info.blocks]

NodeSyncStatus_HeadersIgnored(info) ==
    [synchronized |-> ValidHeight(info.blocks) /\ ValidHeight(info.headers) /\ info.ibd = "no",
     height       |-> info.blocks]

NodeSyncStatus(info) ==
    [synchronized |-> /\ ValidHeight(info.blocks)
                      /\ ValidHeight(info.headers)
                      /\ info.ibd = "no"
                      /\ info.blocks = info.headers,
     height       |-> info.blocks]

-----------------------------------------------------------------------------
(* What the outside answers.                                                 *)

Tip == [height |-> node.blocks, branch |-> node.branch]

NodeSynced == node.ibd = "no" /\ node.blocks = node.headers

Snapshot == [kind |-> "info", blocks |-> node.blocks, headers |-> node.headers, ibd |-> node.ibd]

\* Answers with a field missing, of the wrong type or inconsistent.
MalformedInfos == {[Snapshot EXCEPT !.blocks = NoHeight], [Snapshot EXCEPT !.headers = NoHeight],
                   [Snapshot EXCEPT !.ibd = "invalid"],
                   [Snapshot EXCEPT !.headers = 0]}

ChainAnswers ==
    IF ~node.up THEN {Reply("error")}
    ELSE {Snapshot} \cup IF "malformed" \in Faults THEN MalformedInfos \cup {Reply("nonobject")} ELSE {}

\* The template builds on the tip the node has when it answers; in initial block
\* download a node may refuse or answer.
TemplateAnswers ==
    IF ~node.up \/ ~node.blake2b THEN {Reply("error")}
    ELSE {[kind |-> "template", tip |-> Tip, synced |-> NodeSynced]}
         \cup IF node.ibd = "yes" THEN {Reply("error")} ELSE {}

\* publish: the SOCKS port is probed first; then the POST is answered with ok,
\* with a refusal, not at all (unreachable, deadline, unusable body), or with
\* JSON that is not an object.
PublishAnswers ==
    IF ~outside.tor THEN {Reply("tor_not_ready")}
    ELSE CASE outside.pool = "accepts" -> {Reply("accepted")}
           [] outside.pool = "rejects" -> {Reply("refused")}
           [] outside.pool = "down"    ->
                {Reply("publish_error")}
                \cup IF "malformed" \in Faults THEN {Reply("nonobject")} ELSE {}
-----------------------------------------------------------------------------
(* Initial state: the route is proved (or not needed), the record says        *)
(* "starting" and getnetworkinfo is about to be called.                       *)

Nodes == [up : BOOLEAN, blake2b : BOOLEAN, blocks : Heights, headers : Heights,
          branch : Branches, ibd : IbdFlags \ {"invalid"}]

Outsides == [tor : BOOLEAN, pool : {"accepts", "rejects", "down"}]

Init ==
    /\ pc = "netinfo"
    /\ answer = Reply("none")
    /\ height = NoHeight
    /\ lastHeight = NoHeight
    /\ record = "starting"
    /\ memory = "starting"
    /\ age = [record |-> 0, sent |-> PublishInterval, iter |-> PublishInterval,
               post |-> PollInterval]
    /\ outcome = [end |-> "none", tip |-> NoTip]
    /\ acceptAge = MaxAge
    /\ node \in {n \in Nodes : /\ n.blocks = 0 /\ n.headers = 0 /\ n.branch = "main"
                               /\ n.ibd = "no" /\ n.up
                               /\ "node" \notin Faults => n.blake2b}
    /\ outside = [tor |-> TRUE, pool |-> "accepts"]

-----------------------------------------------------------------------------
(* Pieces of an iteration.                                                   *)

\* health.set(s); write_health(health); last_write = time.time()
Report(s) ==
    /\ record' = s
    /\ memory' = s
    /\ age' = [age EXCEPT !.record = 0]
    /\ acceptAge' = MaxAge

\* time.sleep(POLL_INTERVAL_S) is next; the locals of the iteration are dropped.
EndIteration ==
    /\ pc' = "sleeping"
    /\ answer' = Reply("none")
    /\ height' = NoHeight

\* A pending call returns: after d with answer a.
Returns(from, to, delays, answers) ==
    /\ pc = from
    /\ \E d \in delays : Elapse(d)
    /\ answer' \in answers
    /\ pc' = to
    /\ UNCHANGED <<height, lastHeight, record, memory, outcome, node, outside>>

\* The process is over, with s as the last record (unchanged if nothing is written).
Terminates(s) ==
    /\ pc' = "ended"
    /\ record' = s
    /\ age' = IF s = record THEN age ELSE [age EXCEPT !.record = 0]
    /\ answer' = Reply("none")
    /\ height' = NoHeight
    /\ UNCHANGED <<lastHeight, memory, outcome, acceptAge, node, outside>>

-----------------------------------------------------------------------------
(* The loop.                                                                 *)

\* getnetworkinfo is best effort: whatever happens, the loop starts.
NetInfoReturns == Returns("netinfo", "chaininfo", RpcDelays, {Reply("none")})

ChainInfoReturns == Returns("chaininfo", "evaluate", RpcDelays, ChainAnswers)

\* RPCError or any other exception of getblockchaininfo.
NodeUnavailable ==
    /\ pc = "evaluate"
    /\ answer.kind = "error"
    /\ Report("node_unavailable")
    /\ EndIteration
    /\ UNCHANGED <<lastHeight, outcome, node, outside>>

NotSynchronized ==
    /\ pc = "evaluate"
    /\ answer.kind = "info"
    /\ ~NodeSyncStatus(answer).synchronized
    /\ Report("node_unsynced")
    /\ EndIteration
    /\ UNCHANGED <<lastHeight, outcome, node, outside>>

\* Neither a new height nor PUBLISH_INTERVAL_S since the last answered publication.
NothingToPublish_HeightOnly(h) == h = lastHeight

NothingToPublish(h) == h = lastHeight /\ age.sent < PublishInterval

\* _heartbeat: the state in memory is written again once the record is old enough.
Heartbeat_Never == UNCHANGED <<record, age>>

Heartbeat ==
    /\ record' = IF age.record < HeartbeatInterval THEN record ELSE memory
    /\ age' = IF age.record < HeartbeatInterval THEN age ELSE [age EXCEPT !.record = 0]

Idle ==
    /\ pc = "evaluate"
    /\ answer.kind = "info"
    /\ NodeSyncStatus(answer).synchronized
    /\ NothingToPublish(NodeSyncStatus(answer).height)
    /\ Heartbeat
    /\ EndIteration
    /\ UNCHANGED <<lastHeight, memory, outcome, acceptAge, node, outside>>

\* The iteration's now is taken here, before the template is requested.
RequestTemplate ==
    /\ pc = "evaluate"
    /\ answer.kind = "info"
    /\ NodeSyncStatus(answer).synchronized
    /\ ~NothingToPublish(NodeSyncStatus(answer).height)
    /\ pc' = "template"
    /\ height' = NodeSyncStatus(answer).height
    /\ age' = [age EXCEPT !.iter = 0]
    /\ answer' = Reply("none")
    /\ UNCHANGED <<lastHeight, record, memory, outcome, acceptAge, node, outside>>

TemplateReturns == Returns("template", "templated", RpcDelays, TemplateAnswers)

TemplateUnavailable ==
    /\ pc = "templated"
    /\ answer.kind = "error"
    /\ Report("gbt_unsupported")
    /\ EndIteration
    /\ UNCHANGED <<lastHeight, outcome, node, outside>>

\* health.touch(); write_health(health): the record is fresh when the blocking
\* publication starts.
BeginPublication_WithoutTouch ==
    /\ pc = "templated"
    /\ answer.kind = "template"
    /\ pc' = "publishing"
    /\ UNCHANGED <<answer, height, lastHeight, record, memory, age, outcome, acceptAge, node, outside>>

BeginPublication ==
    /\ pc = "templated"
    /\ answer.kind = "template"
    /\ pc' = "publishing"
    /\ record' = memory
    /\ age' = [age EXCEPT !.record = 0, !.post = 0]
    /\ outcome' = [outcome EXCEPT !.tip = answer.tip]
    /\ UNCHANGED <<answer, height, lastHeight, memory, acceptAge, node, outside>>

PublicationReturns == Returns("publishing", "answered", PublishDelays, PublishAnswers)

\* TorNotReadyError: nothing was sent.
PublishTorNotReady ==
    /\ pc = "answered"
    /\ answer.kind = "tor_not_ready"
    /\ Report("tor_unavailable")
    /\ outcome' = [outcome EXCEPT !.end = "undelivered"]
    /\ EndIteration
    /\ UNCHANGED <<lastHeight, node, outside>>

\* Any other PublishError: last_height and last_sent keep their values, so the
\* next iteration publishes again.
PublishFailed_WithoutSleep ==
    /\ pc = "answered"
    /\ answer.kind = "publish_error"
    /\ Report("pyblock_rejected")
    /\ outcome' = [outcome EXCEPT !.end = "undelivered"]
    /\ pc' = "chaininfo"
    /\ answer' = Reply("none")
    /\ height' = NoHeight
    /\ UNCHANGED <<lastHeight, node, outside>>

PublishFailed_AsDelivered ==
    /\ pc = "answered"
    /\ answer.kind = "publish_error"
    /\ lastHeight' = height
    /\ record' = record
    /\ age' = [age EXCEPT !.record = 0, !.sent = age.iter]
    /\ outcome' = [outcome EXCEPT !.end = "undelivered"]
    /\ EndIteration
    /\ UNCHANGED <<memory, acceptAge, node, outside>>

PublishFailed ==
    /\ pc = "answered"
    /\ answer.kind = "publish_error"
    /\ Report("pyblock_rejected")
    /\ outcome' = [outcome EXCEPT !.end = "undelivered"]
    /\ EndIteration
    /\ UNCHANGED <<lastHeight, node, outside>>

\* The pool answered: last_height = height; last_sent = now.
PublishAnswered ==
    /\ pc = "answered"
    /\ answer.kind \in {"accepted", "refused"}
    /\ record' = IF answer.kind = "accepted" THEN "healthy_active" ELSE "pyblock_rejected"
    /\ memory' = record'
    /\ lastHeight' = height
    /\ age' = [age EXCEPT !.record = 0, !.sent = age.iter]
    /\ acceptAge' = IF answer.kind = "accepted" THEN 0 ELSE MaxAge
    /\ outcome' = [outcome EXCEPT !.end = answer.kind]
    /\ EndIteration
    /\ UNCHANGED <<node, outside>>

Wakes ==
    /\ pc = "sleeping"
    /\ Elapse(PollInterval)
    /\ pc' = "chaininfo"
    /\ UNCHANGED <<answer, height, lastHeight, record, memory, outcome, node, outside>>

-----------------------------------------------------------------------------
(* Ends.                                                                     *)

\* An answer that is JSON but not an object: chain_info.get and result.get raise
\* AttributeError, which only main() catches.
UnexpectedException ==
    /\ pc \in {"evaluate", "answered"}
    /\ answer.kind = "nonobject"
    /\ Terminates("failed")

\* write_health raises OSError (a full or failing disk); main() tries to record
\* "failed", and that write may fail as well. The same when it is the signal
\* handler that writes, outside a call.
StorageFails ==
    /\ "storage" \in Faults
    /\ \/ pc = "templated"
       \/ pc = "answered" /\ answer.kind # "nonobject"
       \/ pc = "evaluate" /\ answer.kind = "error"
       \/ /\ pc = "evaluate"
          /\ answer.kind = "info"
          /\ \/ ~NodeSyncStatus(answer).synchronized
             \/ /\ NothingToPublish(NodeSyncStatus(answer).height)
                /\ age.record >= HeartbeatInterval
       \/ "stop" \in Faults /\ pc \in {"evaluate", "templated", "answered", "sleeping"}
    /\ \E s \in {record, "failed"} : Terminates(s)

\* SIGTERM or SIGINT: the handler records "stopped" and exits.
Stopped ==
    /\ "stop" \in Faults
    /\ pc # "ended"
    /\ Terminates("stopped")

\* A stop strikes inside a call and its handler is cut short by an exception, which
\* the call's except clause takes for a failure of the call: the loop goes on with
\* "stopped" in memory. What cuts it short is its own write, or the alarm of the
\* publication, which may go off after that write (Publication has the details).
Swallows(from, to, delays, answers) ==
    /\ pc = from
    /\ \E d \in delays : Elapse(d)
    /\ answer' \in answers
    /\ pc' = to
    /\ memory' = "stopped"
    /\ UNCHANGED <<height, lastHeight, record, outcome, node, outside>>

WriteFailsInCall ==
    \/ Swallows("netinfo", "chaininfo", RpcDelays, {Reply("none")})
    \/ Swallows("chaininfo", "evaluate", RpcDelays, {Reply("error")})
    \/ Swallows("template", "templated", RpcDelays, {Reply("error")})
    \/ Swallows("publishing", "answered", PublishDelays,
                {Reply("tor_not_ready"), Reply("publish_error")})

AlarmAfterWrite ==
    /\ pc = "publishing"
    /\ \E d \in PublishDelays :
          /\ age' = [Aged(d) EXCEPT !.record = 0]
          /\ acceptAge' = Saturate(acceptAge + d, MaxAge)
    /\ answer' = Reply("publish_error")
    /\ pc' = "answered"
    /\ record' = "stopped"
    /\ memory' = "stopped"
    /\ UNCHANGED <<height, lastHeight, outcome, node, outside>>

StopSwallowed ==
    /\ "stop" \in Faults
    /\ \/ "storage" \in Faults /\ WriteFailsInCall
       \/ Swallows("publishing", "answered", PublishDelays, {Reply("publish_error")})
       \/ AlarmAfterWrite

\* SIGKILL, the out-of-memory killer, a power failure: nothing is recorded.
Killed ==
    /\ "kill" \in Faults
    /\ pc # "ended"
    /\ Terminates(record)

-----------------------------------------------------------------------------
(* The outside.                                                              *)

HeaderArrives ==
    /\ node.up
    /\ node.headers < MaxHeight
    /\ node' = [node EXCEPT !.headers = node.headers + 1]

BlockConnected ==
    /\ node.up
    /\ node.blocks < node.headers
    /\ node' = [node EXCEPT !.blocks = node.blocks + 1]

\* The chain moves to another branch of the same height, or back to a lower height
\* (where the branches are named anew), blocks and headers together.
ChainReorganized ==
    /\ "reorg" \in Faults
    /\ node.up
    /\ \/ \E h \in 0..(node.blocks - 1) :
             node' = [node EXCEPT !.blocks = h, !.headers = h, !.branch = "main"]
       \/ /\ node.blocks > 0
          /\ node.blocks = node.headers
          /\ node' = [node EXCEPT !.branch = "fork"]

\* The node stops answering, or answers again, perhaps in initial block download.
NodeStops ==
    /\ "node" \in Faults
    /\ node.up
    /\ node' = [node EXCEPT !.up = FALSE]

NodeStarts ==
    /\ ~node.up
    /\ \E i \in IF "ibd" \in Faults THEN {"yes", "no"} ELSE {"no"} :
          node' = [node EXCEPT !.up = TRUE, !.ibd = i]

DownloadCompletes ==
    /\ node.up
    /\ node.ibd = "yes"
    /\ node' = [node EXCEPT !.ibd = "no"]

NodeChanges ==
    /\ \/ HeaderArrives \/ BlockConnected \/ ChainReorganized
       \/ NodeStops \/ NodeStarts \/ DownloadCompletes
    /\ UNCHANGED <<loopVars, outside>>

PoolChanges ==
    /\ "pool" \in Faults
    /\ \E p \in {"accepts", "rejects", "down"} :
          p # outside.pool /\ outside' = [outside EXCEPT !.pool = p]
    /\ UNCHANGED <<loopVars, node>>

TorChanges ==
    /\ "tor" \in Faults
    /\ outside' = [outside EXCEPT !.tor = ~outside.tor]
    /\ UNCHANGED <<loopVars, node>>

-----------------------------------------------------------------------------
LoopStep ==
    \/ NetInfoReturns \/ ChainInfoReturns \/ NodeUnavailable \/ NotSynchronized
    \/ Idle \/ RequestTemplate \/ TemplateReturns \/ TemplateUnavailable
    \/ BeginPublication \/ PublicationReturns \/ PublishTorNotReady
    \/ PublishFailed \/ PublishAnswered \/ Wakes \/ UnexpectedException

End == StorageFails \/ Stopped \/ StopSwallowed \/ Killed

Environment == NodeChanges \/ PoolChanges \/ TorChanges

Next == LoopStep \/ End \/ Environment

\* The loop never waits for anything but a call with a timeout or a sleep, so it
\* keeps stepping while the process lives. Nothing is assumed of the outside.
Fairness == WF_vars(LoopStep)

Spec == Init /\ [][Next]_vars

FairSpec == Spec /\ Fairness

-----------------------------------------------------------------------------
(* Properties.                                                               *)

Live == pc # "ended"

\* Every variable has its type; past the gate the height is a height, which is
\* what the assert in run() says (main.py:258).
TypeOK ==
    /\ pc \in Locations
    /\ answer \in Answers
    /\ height \in Heights \cup {NoHeight}
    /\ lastHeight \in Heights \cup {NoHeight}
    /\ record \in HealthStates
    /\ memory \in HealthStates
    /\ age \in Ages
    /\ outcome \in Outcomes
    /\ acceptAge \in 0..MaxAge
    /\ node \in Nodes
    /\ outside \in Outsides
    /\ pc \in {"template", "templated", "publishing", "answered"} => height # NoHeight

\* A record that says healthy_active, heartbeats included, stands for a template
\* the pool accepted: no publication has failed since, and the acceptance is not
\* older than ActiveGap, however often the record has been rewritten.
HealthyIsEarned ==
    record = "healthy_active" =>
        /\ outcome.end = "accepted"
        /\ lastHeight # NoHeight
        /\ Live => acceptAge <= ActiveGap

\* While the loop is inside a publication the record does not become stale
\* (main.py:292-294), whatever the calls before it took.
FreshWhilePublishing ==
    pc \in {"publishing", "answered"} => age.record <= StaleAfter

\* Outside a publication a live loop rewrites its record at least every
\* ReportGap, every StartGap until its first answered publication.
RecordAgeBounded ==
    Live /\ pc \notin {"publishing", "answered"} =>
        age.record <= IF lastHeight = NoHeight THEN StartGap ELSE ReportGap

\* Whatever the outcomes, two publications begin at least POLL_INTERVAL_S apart:
\* at 2 s this is the pool's limit of 30 posts a minute (instructions.md:109),
\* and it is only the sleep at the end of every branch that keeps it.
PostsPolled ==
    [][pc = "templated" /\ pc' = "publishing" => age.post >= PollInterval]_vars

\* What main.py:45-47 and health.py:27-29 say of heartbeats: a healthy loop, quiet
\* as it may be, is never mistaken for a stalled one.
HealthyLoopNeverStale ==
    Live /\ record = "healthy_active" => age.record <= StaleAfter

\* health.py:201-202: a record that says stopped is the last one of its process.
StoppedIsFinal == record = "stopped" => ~Live

\* As far as that holds (health.py:201-202): a loop that goes on under a record that
\* says stopped is about to report that its publication failed, or is inside one and
\* none has been answered yet; no heartbeat, no sleep and no other call finds it there.
LostStopIsBrief ==
    Live /\ record = "stopped" =>
        \/ pc = "answered" /\ answer.kind = "publish_error"
        \/ pc \in {"publishing", "answered"} /\ lastHeight = NoHeight

\* README.md:53: the template being published was taken from a synchronized tip.
PublishesSynchronizedTip == pc = "publishing" => answer.synced

\* Everything the loop depends on works.
AllWell ==
    /\ Live
    /\ node.up /\ node.blake2b /\ NodeSynced
    /\ outside = [tor |-> TRUE, pool |-> "accepts"]

\* Once everything works and keeps working, whatever went wrong before, the
\* record becomes healthy_active for the node's tip and stays so: the tip itself,
\* not just its height, which is all that main.py:262 compares.
Recovers ==
    <>[]AllWell =>
        <>[](record = "healthy_active" /\ lastHeight = node.blocks /\ outcome.tip = Tip)

\* A lasting fault is what the record ends up saying: a node that does not
\* answer, one that is not synchronized, a Tor port that is closed, a pool that
\* refuses.
FaultsReported ==
    /\ <>[](Live /\ ~node.up) => <>[](record = "node_unavailable")
    /\ <>[](Live /\ node.up /\ ~NodeSynced) => <>[](record = "node_unsynced")
    /\ <>[](Live /\ node.up /\ node.blake2b /\ NodeSynced /\ ~outside.tor)
            => <>[](record = "tor_unavailable")
    /\ <>[](Live /\ node.up /\ node.blake2b /\ NodeSynced /\ outside.tor
                  /\ outside.pool = "rejects")
            => <>[](record = "pyblock_rejected")
=============================================================================
