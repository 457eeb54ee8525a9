----------------------------- MODULE H2Scheduler -----------------------------
(***************************************************************************)
(* Prioritisation of an HTTP/2 connection of h2o: the dependency tree with *)
(* its weighted queues (lib/http2/scheduler.c), the priorities a client    *)
(* gives to streams, the ring that remembers the priorities of recently    *)
(* closed streams and reprioritisation by the server (lib/http2/           *)
(* connection.c, lib/http2/stream.c).                                      *)
(*                                                                         *)
(* `sch` holds the nodes of the tree: the root, one node per stream and    *)
(* one per slot of the ring.  Weights go to MaxWeight instead of 256 and   *)
(* the queues have Anchors instead of 64 lists; the arithmetic on them is  *)
(* the code's.                                                             *)
(***************************************************************************)
EXTENDS Integers, Sequences, FiniteSets, SequencesExt

CONSTANTS
    Pulls, Pushes,   \* stream IDs of the client (odd) and of the server (even)
    Slots,           \* HTTP2_CLOSED_STREAM_PRIORITIES, as the set of ring slots
    Weights,         \* the weights the client uses
    MaxWeight,       \* 256
    Anchors,         \* 64
    MaxEvents        \* bound on the number of events explored

VARIABLE sch

Root == 0
Refs == Pulls \cup Pushes \cup Slots
Nodes == {Root} \cup Refs
NoNode == -1
Highest == MaxWeight + 1        \* 257
DefaultWeight == CHOOSE w \in Weights : TRUE
Unit == 2                       \* 65536: the scale of OFFSET_TABLE and of the deficit

\* queue_init
EmptyQueue == [bits |-> {}, offset |-> 0, anchors |-> [a \in 0 .. Anchors - 1 |-> <<>>], top |-> <<>>]

\* init_node and the rest of an openref
NewNode ==
    [open |-> FALSE, parent |-> NoNode, weight |-> 0, kids |-> <<>>, queue |-> EmptyQueue,
     active |-> FALSE, cnt |-> 0, deficit |-> 0, relocated |-> FALSE]

Asserted(s, ok, name) == IF ok THEN s ELSE [s EXCEPT !.failed = @ \cup {name}]

-----------------------------------------------------------------------------
(* The weighted queue of a node *)

Without(seq, x) == SelectSeq(seq, LAMBDA y : y # x)
QueueLists(q) == {q.top} \cup {q.anchors[a] : a \in DOMAIN q.anchors}
InQueue(q, n) == \E l \in QueueLists(q) : n \in ToSet(l)
Linked(s, n) == \E p \in Nodes : InQueue(s.nd[p].queue, n)

\* OFFSET_TABLE[weight - 1]
Offset(weight) == ((Anchors - 1) * Unit) \div weight

\* queue_set
QueueSet(s, p, n) ==
    LET ref == s.nd[n]
        sum == Offset(ref.weight) + ref.deficit
        off == sum \div Unit
        q == s.nd[p].queue
        at == (q.offset + off) % Anchors
        ok == Asserted(s, ~Linked(s, n), "queue_set: linked")
    IN  IF ref.weight > MaxWeight
        THEN [ok EXCEPT !.nd[p].queue.top = Append(@, n)]
        ELSE [Asserted(ok, ref.weight >= 1, "queue_set: weight") EXCEPT
                !.nd[n].deficit = sum % Unit,
                !.nd[p].queue.bits = @ \cup {off},
                !.nd[p].queue.anchors[at] = Append(@, n)]

\* queue_unset: the bit of the list is left as it is
QueueUnset(s, n) ==
    [Asserted(s, Linked(s, n), "queue_unset: not linked") EXCEPT
        !.nd = [p \in Nodes |->
            [@[p] EXCEPT !.queue.top = Without(@, n),
                         !.queue.anchors = [a \in DOMAIN @ |-> Without(@[a], n)]]]]

\* queue_is_empty
QueueIsEmpty(q) == q.bits = {} /\ q.top = <<>>

\* queue_pop: the queue afterwards and the node taken from it, or NoNode
RECURSIVE QueuePop(_)
QueuePop(q) ==
    IF q.top # <<>> THEN [q |-> [q EXCEPT !.top = Tail(@)], node |-> Head(q.top)]
    ELSE IF q.bits = {} THEN [q |-> q, node |-> NoNode]
    ELSE LET zeroes == CHOOSE b \in q.bits : \A c \in q.bits : b <= c
             at == (q.offset + zeroes) % Anchors
             shifted == [q EXCEPT !.bits = {b - zeroes : b \in @}, !.offset = at]
             list == q.anchors[at]
         IN  IF list = <<>> THEN QueuePop([shifted EXCEPT !.bits = @ \ {0}])
             ELSE [q |-> [shifted EXCEPT !.anchors[at] = Tail(@),
                                         !.bits = IF Len(list) = 1 THEN @ \ {0} ELSE @],
                   node |-> Head(list)]

-----------------------------------------------------------------------------
(* The tree *)

\* incr_active_cnt
RECURSIVE IncrActiveCnt(_, _)
IncrActiveCnt(s, n) ==
    IF n = Root THEN s
    ELSE LET t == [s EXCEPT !.nd[n].cnt = @ + 1]
             p == s.nd[n].parent
         IN  IF t.nd[n].cnt # 1 THEN t ELSE IncrActiveCnt(QueueSet(t, p, n), p)

\* decr_active_cnt
RECURSIVE DecrActiveCnt(_, _)
DecrActiveCnt(s, n) ==
    IF n = Root THEN s
    ELSE LET t == [s EXCEPT !.nd[n].cnt = @ - 1]
             p == s.nd[n].parent
         IN  IF t.nd[n].cnt # 0 THEN t ELSE DecrActiveCnt(QueueUnset(t, n), p)

\* h2o_http2_scheduler_activate, h2o_http2_scheduler_deactivate
Activate(s, n) == IF s.nd[n].active THEN s ELSE IncrActiveCnt([s EXCEPT !.nd[n].active = TRUE], n)
Deactivate(s, n) == IF ~s.nd[n].active THEN s ELSE DecrActiveCnt([s EXCEPT !.nd[n].active = FALSE], n)

\* do_rebind, without the conversion to exclusive
Relist(s, n, old, p) == [[s EXCEPT !.nd[old].kids = Without(@, n)] EXCEPT !.nd[p].kids = Append(@, n)]
Requeue(s, n, old, p) ==
    IF s.nd[n].cnt = 0 THEN s ELSE IncrActiveCnt(DecrActiveCnt(QueueSet(QueueUnset(s, n), p, n), old), p)
MoveTo(s, n, p) ==
    [Requeue(Relist(s, n, s.nd[n].parent, p), n, s.nd[n].parent, p) EXCEPT !.nd[n].parent = p]

RECURSIVE AncestorsOf(_, _)
AncestorsOf(s, n) == IF n = Root THEN {Root} ELSE {n} \cup AncestorsOf(s, s.nd[n].parent)

\* The rebinding of a node to a parent that depends on it: the parent is first
\* made a sibling.
Untangled(s, n, p) == IF n \in AncestorsOf(s, p) THEN MoveTo(s, p, s.nd[n].parent) ELSE s

\* h2o_http2_scheduler_rebind, not exclusive
MoveUnlessThere(s, n, p, weight) ==
    IF s.nd[n].parent = p /\ s.nd[n].weight = weight THEN s
    ELSE MoveTo(Untangled([s EXCEPT !.nd[n].weight = weight], n, p), n, p)
Rebind(s, n, p, weight) ==
    MoveUnlessThere(Asserted(Asserted(s, s.nd[n].open, "rebind: not open"), n # p /\ weight \in 1 .. Highest, "rebind"),
                    n, p, weight)

\* convert_to_exclusive: the other children of p become children of `added`
ConvertToExclusive(s, p, added) ==
    LET others == Without(s.nd[p].kids, added)
        moved == FoldLeft(LAMBDA t, k : Rebind(t, k, added, t.nd[k].weight), s, others)
    IN  Asserted(moved, Last(s.nd[p].kids) = added, "exclusive: last")

RebindExclusive(s, n, p, weight) ==
    ConvertToExclusive(MoveTo(Untangled([s EXCEPT !.nd[n].weight = weight], n, p), n, p), p, n)

\* h2o_http2_scheduler_open
OpenRef(s, n, p, weight, exclusive) ==
    LET opened == [s EXCEPT !.nd[n] = [NewNode EXCEPT !.open = TRUE, !.parent = p, !.weight = weight]]
        listed == [opened EXCEPT !.nd[p].kids = Append(@, n)]
    IN  IF exclusive THEN ConvertToExclusive(listed, p, n) ELSE listed

Clamp(w) == IF w < 1 THEN 1 ELSE IF w > MaxWeight THEN MaxWeight ELSE w

\* h2o_http2_scheduler_close: the weight is distributed over the children,
\* which move to the parent
Total(s, kids) == FoldLeft(LAMBDA a, k : a + s.nd[k].weight, 0, kids)
Share(s, n, k, total) ==
    Clamp((((s.nd[k].weight * ((s.nd[n].weight * 65536 + total \div 2) \div total)) \div 32768) + 1) \div 2)
Inherit(s, n, total) ==
    FoldLeft(LAMBDA t, k : Rebind(t, k, s.nd[n].parent, Share(s, n, k, total)), s, s.nd[n].kids)
Detach(s, n) ==
    LET p == s.nd[n].parent
        t == [s EXCEPT !.nd[p].kids = Without(@, n)]
    IN  IF s.nd[n].active THEN DecrActiveCnt(QueueUnset(Asserted(t, s.nd[n].cnt = 1, "close: count"), n), p)
        ELSE Asserted(t, s.nd[n].cnt = 0, "close: count")
CloseRef(s, n) ==
    [Detach(Inherit(Asserted(s, s.nd[n].open, "close: not open"), n, Total(s, s.nd[n].kids)), n) EXCEPT !.nd[n] = NewNode]

\* h2o_http2_scheduler_relocate: dst takes the place of src in the tree and in
\* the queue
Relocate(s, dst, src) ==
    LET node == s.nd[src]
        swap(l) == [i \in DOMAIN l |-> IF l[i] = src THEN dst ELSE l[i]]
        renamed == [n \in Nodes |->
            [s.nd[n] EXCEPT !.parent = IF @ = src THEN dst ELSE @, !.kids = swap(@),
                            !.queue.top = swap(@),
                            !.queue.anchors = [a \in DOMAIN @ |-> swap(@[a])]]]
    IN  [s EXCEPT !.nd = [renamed EXCEPT
            ![dst] = [renamed[src] EXCEPT !.relocated = TRUE,
                                          !.queue = IF node.kids = <<>> THEN EmptyQueue ELSE @],
            ![src] = NewNode]]

\* h2o_http2_scheduler_find_parent_by_weight
RECURSIVE FindParentFrom(_, _, _)
FindParentFrom(s, n, weight) ==
    IF s.nd[n].kids = <<>> THEN n
    ELSE LET k == Head(s.nd[n].kids)
         IN  IF ~s.nd[k].relocated /\ s.nd[k].weight < weight THEN n ELSE FindParentFrom(s, k, weight)
FindParentByWeight(s, weight) == FindParentFrom(s, Root, weight)

\* proceed: the node to run (or NoNode) and the tree when its callback is called
RECURSIVE ProceedFrom(_, _)
ProceedFrom(s, n) ==
    LET pop == QueuePop(s.nd[n].queue)
        t == [s EXCEPT !.nd[n].queue = pop.q]
    IN  IF pop.node = NoNode THEN [s |-> t, node |-> NoNode, at |-> n]
        ELSE IF s.nd[pop.node].active
             THEN [s |-> Asserted(t, t.nd[pop.node].cnt # 0, "proceed"), node |-> pop.node, at |-> n]
             ELSE ProceedFrom(QueueSet(t, n, pop.node), pop.node)

\* the rest of proceed, once the callback told whether the node stays active
Requeued(s, n, at) == IF s.nd[n].cnt # 0 THEN QueueSet(s, at, n) ELSE DecrActiveCnt(s, s.nd[n].parent)
\* Mutant of AfterCallback: a node whose own data is gone is not put back, though
\* nodes below it have data.
AfterCallbackDropsNode(run, still) ==
    IF still THEN QueueSet(run.s, run.at, run.node)
    ELSE DecrActiveCnt([run.s EXCEPT !.nd[run.node].active = FALSE, !.nd[run.node].cnt = @ - 1], run.s.nd[run.node].parent)
AfterCallback(run, still) ==
    Requeued(IF still THEN run.s ELSE [run.s EXCEPT !.nd[run.node].active = FALSE, !.nd[run.node].cnt = @ - 1],
             run.node, run.at)

-----------------------------------------------------------------------------
(* Streams and their priorities *)

\* h2o_http2_conn_preserve_stream_scheduler
PreserveIn(s, x, dst) ==
    Deactivate([Relocate(Asserted(IF s.nd[dst].open THEN CloseRef(s, dst) ELSE s, s.nd[x].open, "preserve: not open"), dst, x)
                EXCEPT !.next = IF @ = Cardinality(Slots) THEN 1 ELSE @ + 1, !.ringId[dst] = x], dst)
PreserveStreamScheduler(s, x) == PreserveIn(s, x, SetToSortSeq(Slots, <)[s.next])

RingSlot(s, x) == {r \in Slots : s.ringId[r] = x}

\* set_priority: the parent a client's priority means, the weight that goes with
\* it, and what it says about the tree being Chromium's
ParentOf(s, x, prio) ==
    LET ring == IF prio.dependency = Root THEN {} ELSE RingSlot(s, prio.dependency)
        slot == CHOOSE r \in ring : \A q \in ring : r <= q
        current == s.nd[prio.dependency]
        demoted == current.open /\ s.nd[slot].weight > current.weight
        found == FindParentByWeight(s, prio.weight)
    IN  IF prio.dependency = Root THEN [node |-> Root, prio |-> prio, chromium |-> s.chromium]
        ELSE IF ring = {}
             THEN IF current.open THEN [node |-> prio.dependency, prio |-> prio, chromium |-> s.chromium]
                  ELSE [node |-> Root, prio |-> [dependency |-> Root, weight |-> DefaultWeight, exclusive |-> FALSE],
                        chromium |-> s.chromium]
        ELSE IF s.chromium /\ (s.nd[slot].weight < prio.weight \/ ~prio.exclusive)
             THEN [node |-> slot, prio |-> prio, chromium |-> FALSE]
        ELSE IF s.chromium /\ demoted
             THEN [node |-> IF found = x THEN prio.dependency ELSE found, prio |-> prio, chromium |-> TRUE]
        ELSE [node |-> slot, prio |-> prio, chromium |-> s.chromium]

LooksLikeChromium(s, p, prio) ==
    LET up == s.nd[p].parent
        weight == IF p # Root /\ up # Root THEN s.nd[up].weight ELSE MaxWeight
    IN  prio.exclusive /\ weight >= prio.weight

Place(s, x, p, prio, isOpen) ==
    IF ~isOpen THEN OpenRef(s, x, p, prio.weight, prio.exclusive)
    ELSE IF prio.exclusive THEN RebindExclusive(s, x, p, prio.weight)
    ELSE Rebind(s, x, p, prio.weight)
SetPriorityUnder(s, x, par, isOpen) ==
    Place([s EXCEPT !.chromium = par.chromium /\ LooksLikeChromium(s, par.node, par.prio)], x, par.node, par.prio, isOpen)
SetPriority(s, x, given, isOpen) == SetPriorityUnder(s, x, ParentOf(s, x, given), isOpen)

\* The reprioritisation of send_headers by a response's priority header
ReprioritizeUnder(s, x, p, weight) ==
    IF p = s.nd[x].parent /\ weight = s.nd[x].weight THEN s
    ELSE OpenRef(PreserveStreamScheduler(s, x), x, p, weight, TRUE)
Reprioritize(s, x, weight) ==
    LET found == FindParentByWeight(s, weight)
    IN  ReprioritizeUnder(s, x, IF found = x THEN s.nd[x].parent ELSE found, weight)

-----------------------------------------------------------------------------
(* Entry points *)

Priority == [dependency : {Root} \cup Pulls, weight : Weights, exclusive : BOOLEAN]

Init ==
    sch = [nd |-> [n \in Nodes |-> NewNode], next |-> 1, ringId |-> [r \in Slots |-> NoNode],
           chromium |-> TRUE, used |-> {}, events |-> 0, failed |-> {}]

\* an event leaves the connection in state s; at most MaxEvents are explored
Step(s) == sch.events < MaxEvents /\ sch' = [s EXCEPT !.events = sch.events + 1]

Live(s, x) == x \in s.used /\ s.nd[x].open

\* HEADERS (or PRIORITY) on a stream the connection does not know yet
ReceivePriorityNew(x, prio) ==
    /\ x \notin sch.used /\ prio.dependency # x
    /\ Step([SetPriority(sch, x, prio, FALSE) EXCEPT !.used = @ \cup {x}])

\* PRIORITY on a stream: not for a push that the server raised to the top
ReceivePriority(x, prio) ==
    /\ Live(sch, x) /\ prio.dependency # x /\ sch.nd[x].weight # Highest
    /\ Step(SetPriority(sch, x, prio, TRUE))

\* push_path: a critical asset goes to the top, another one below its parent
PushPath(x, src, critical) ==
    /\ x \notin sch.used /\ Live(sch, src)
    /\ Step([(IF critical THEN OpenRef(sch, x, Root, Highest, FALSE)
                            ELSE OpenRef(sch, x, src, DefaultWeight, FALSE)) EXCEPT !.used = @ \cup {x}])

\* send_headers of a client's stream whose response has a priority header, of a
\* blocking asset (raised to the top)
SendHeadersPriority(x, weight) ==
    /\ Live(sch, x) /\ sch.chromium
    /\ Step(Reprioritize(sch, x, weight))
SendHeadersBlocking(x) ==
    /\ Live(sch, x)
    /\ x \in Pushes \/ sch.nd[x].parent = Root
    /\ Step(Rebind(sch, x, Root, Highest))

\* data to send appears, or the stream is reset while it has some
BecomeActive(x) == Live(sch, x) /\ ~sch.nd[x].active /\ Step(Activate(sch, x))
BecomeInactive(x) == Live(sch, x) /\ sch.nd[x].active /\ Step(Deactivate(sch, x))

\* h2o_http2_conn_unregister_stream
CloseStream(x) == Live(sch, x) /\ Step(PreserveStreamScheduler(sch, x))

\* one round of h2o_http2_scheduler_run
RunOnce ==
    /\ ~QueueIsEmpty(sch.nd[Root].queue)
    /\ LET run == ProceedFrom(sch, Root)
       IN  IF run.node = NoNode THEN Step(run.s)
           ELSE \E still \in BOOLEAN : Step(AfterCallback(run, still))

Next ==
    \/ \E x \in Pulls, prio \in Priority : ReceivePriorityNew(x, prio) \/ ReceivePriority(x, prio)
    \/ \E x \in Pushes, prio \in Priority : ReceivePriority(x, prio)
    \/ \E x \in Pushes, src \in Pulls, critical \in BOOLEAN : PushPath(x, src, critical)
    \/ \E x \in Pulls, w \in Weights : SendHeadersPriority(x, w)
    \/ \E x \in Refs \ Slots : SendHeadersBlocking(x) \/ BecomeActive(x) \/ BecomeInactive(x) \/ CloseStream(x)
    \/ RunOnce

-----------------------------------------------------------------------------
(* Properties *)

\* No assertion of the scheduler fails.
NoAssertionFails == sch.failed = {}

Open == {n \in Refs : sch.nd[n].open}

\* The active counts are exact: a node counts itself when it has data and every
\* child with an active count, and exactly the nodes that count something are
\* queued at their parent.  Otherwise data that is ready is never sent
\* (h2o_http2_scheduler_run does not reach the stream) or the run loop spins.
ActiveCountsAreExact ==
    \A n \in Open :
        LET ref == sch.nd[n]
        IN  /\ ref.cnt = (IF ref.active THEN 1 ELSE 0)
                         + Cardinality({k \in ToSet(ref.kids) : sch.nd[k].cnt # 0})
            /\ (ref.cnt # 0) = InQueue(sch.nd[ref.parent].queue, n)
            /\ n \in ToSet(sch.nd[ref.parent].kids)

\* A queue that reports itself empty holds nothing, and a queue with a node in
\* it finds that node by its bits.
EmptyQueuesAreEmpty ==
    \A n \in Nodes :
        LET q == sch.nd[n].queue
        IN  \A a \in DOMAIN q.anchors :
                q.anchors[a] # <<>> => (a - q.offset) % Anchors \in q.bits

=============================================================================
