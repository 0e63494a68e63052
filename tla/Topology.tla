------------------------------- MODULE Topology -------------------------------
(***************************************************************************)
(* The graph that nodes form, and the metas pushed along it                *)
(* (nodes/common/src/vp_node.cpp, vp_meta_publisher.cpp).  A link from u   *)
(* to n is recorded twice: n is in u's subscribers, under u's              *)
(* subscribers_lock, and u is in n's pre_nodes, which no lock protects.    *)
(* Pushing threads (the dispatch thread of a node, a caller of speak())    *)
(* walk over the subscribers while another thread changes the graph with   *)
(* attach_to, detach, detach_from and detach_recursively.                  *)
(*                                                                         *)
(* Because pre_nodes has no lock, only one thread changes the graph; its   *)
(* calls are the frames of stack.  What meta_flow does inside the          *)
(* receiving node is the subject of VpNode; here it is one step.           *)
(***************************************************************************)
EXTENDS Naturals, Sequences, FiniteSets, SequencesExt

CONSTANTS
  Node,
  Src, Des,          \* the nodes of type SRC and DES, the others are MID
  Pusher,            \* threads that call push_meta
  PusherNode,        \* the node whose push_meta a thread calls
  Meta,
  MetasOf,           \* what a thread pushes: frames in dispatch_run, controls in speak
  AttachLists,       \* per node: the arguments of its attach_to
  MaxLinks           \* bound: how many links the graph has at most

ASSUME TopologyAssumption ==
  /\ Src \subseteq Node
  /\ Des \subseteq Node \ Src
  /\ PusherNode \in [Pusher -> Node]
  /\ MetasOf \in [Pusher -> SUBSET Meta]
  /\ AttachLists \in [Node -> SUBSET Seq(Node)]
  /\ MaxLinks \in Nat
  /\ "free" \notin Pusher
  /\ "none" \notin Meta
  /\ IsFiniteSet(Node)

VARIABLES
  subscribers,       \* vp_meta_publisher::subscribers
  subscribers_lock,  \* the pushing thread that holds it, "free" if none
  pre_nodes,         \* vp_node::pre_nodes
  pushing,           \* per thread: the meta of its push_meta, "none" outside
  cursor,            \* per thread: position of its iterator
  sent,              \* history: metas given to push_meta, each once
  stack,             \* calls of the thread that changes the graph, innermost first
  received,          \* history: metas that meta_flow of a node got, by publisher
  detached,          \* history: nodes that no call has attached since a detach of theirs
  doomed             \* history: nodes below the last detach_recursively, until the next attach_to

pushVars == <<subscribers_lock, pushing, cursor, sent, received>>
graphVars == <<subscribers, pre_nodes>>
vars == <<pushVars, graphVars, stack, detached, doomed>>

-------------------------------------------------------------------------------
(* push_meta: the lock is held until every subscriber had the meta.        *)

(* Variant with a bug: the list is not locked.                             *)
PushBeginUnlocked(p, m) ==
  /\ pushing[p] = "none"
  /\ m \notin sent
  /\ sent' = sent \cup {m}
  /\ pushing' = [pushing EXCEPT ![p] = m]
  /\ cursor' = [cursor EXCEPT ![p] = 1]
  /\ UNCHANGED <<subscribers_lock, received, graphVars, stack, detached, doomed>>

PushBegin(p, m) ==
  /\ pushing[p] = "none"
  /\ m \notin sent
  /\ sent' = sent \cup {m}
  /\ subscribers_lock[PusherNode[p]] = "free"
  /\ subscribers_lock' = [subscribers_lock EXCEPT ![PusherNode[p]] = p]
  /\ pushing' = [pushing EXCEPT ![p] = m]
  /\ cursor' = [cursor EXCEPT ![p] = 1]
  /\ UNCHANGED <<received, graphVars, stack, detached, doomed>>

Deliver(p) ==
  LET u == PusherNode[p] IN
  /\ pushing[p] # "none"
  /\ cursor[p] <= Len(subscribers[u])
  /\ received' = [received EXCEPT ![subscribers[u][cursor[p]]][u] = Append(@, pushing[p])]
  /\ cursor' = [cursor EXCEPT ![p] = @ + 1]
  /\ UNCHANGED <<subscribers_lock, pushing, sent, graphVars, stack, detached, doomed>>

PushEnd(p) ==
  /\ pushing[p] # "none"
  /\ cursor[p] > Len(subscribers[PusherNode[p]])
  /\ subscribers_lock' = [subscribers_lock EXCEPT ![PusherNode[p]] = "free"]
  /\ pushing' = [pushing EXCEPT ![p] = "none"]
  /\ cursor' = [cursor EXCEPT ![p] = 0]
  /\ UNCHANGED <<sent, received, graphVars, stack, detached, doomed>>

-------------------------------------------------------------------------------
(* add_subscriber and remove_subscriber, each one critical section.        *)

(* The elements of s that are in S, in their order.                        *)
Keep(s, S) ==
  LET upTo[i \in 0..Len(s)] ==
        IF i = 0 THEN <<>>
        ELSE IF s[i] \in S THEN Append(upTo[i - 1], s[i]) ELSE upTo[i - 1]
  IN  upTo[Len(s)]

AddSubscriber(u, n) ==
  /\ subscribers_lock[u] = "free"
  /\ subscribers' = [subscribers EXCEPT ![u] = Append(@, n)]

(* Variants with a bug: the list is not locked; a busy list is left alone. *)
RemoveSubscriberUnlocked(u, n) ==
  subscribers' = [subscribers EXCEPT ![u] = Keep(@, Node \ {n})]

RemoveSubscriberIfFree(u, n) ==
  subscribers' = IF subscribers_lock[u] = "free"
                 THEN [subscribers EXCEPT ![u] = Keep(@, Node \ {n})]
                 ELSE subscribers

RemoveSubscriber(u, n) ==
  /\ subscribers_lock[u] = "free"
  /\ subscribers' = [subscribers EXCEPT ![u] = Keep(@, Node \ {n})]

-------------------------------------------------------------------------------
(* A call is a frame: the function, its node, where it is, and the nodes   *)
(* its loop has still to visit.                                            *)

Frame(fn, n, at, todo) == [fn |-> fn, node |-> n, at |-> at, todo |-> todo]
Top == stack[1]
Running(fn, at) == stack # <<>> /\ Top.fn = fn /\ Top.at = at
Replace(frame) == stack' = <<frame>> \o Tail(stack)
Call(frame) == stack' = <<frame>> \o stack
Return == stack' = Tail(stack)
Throw == stack' = <<>>  \* nothing below catches

NextNodes(n) == ToSet(subscribers[n])

(* n and the nodes reachable from it: they are in every set that has n     *)
(* and the next nodes of its members.                                      *)
Closed(C) == \A x \in C : NextNodes(x) \subseteq C
Below(n) == {x \in Node : \A C \in SUBSET Node : n \in C /\ Closed(C) => x \in C}

(* attach_to(list); a SRC node throws before anything happens.             *)
CallAttachTo(n, list) ==
  /\ stack = <<>>
  /\ n \notin Src
  /\ SumFunctionOnSet([u \in Node |-> Len(subscribers[u])], Node) + Len(list) <= MaxLinks
  /\ Call(Frame("attach_to", n, "loop", list))
  /\ detached' = detached \ {n}
  /\ doomed' = {}
  /\ UNCHANGED <<pushVars, graphVars>>

AttachSubscribe ==
  /\ Running("attach_to", "loop")
  /\ Top.todo # <<>>
  /\ AddSubscriber(Head(Top.todo), Top.node)
  /\ Replace([Top EXCEPT !.at = "check"])
  /\ UNCHANGED <<pushVars, pre_nodes, detached, doomed>>

(* The node was subscribed already when a DES node throws.                 *)
AttachCheck ==
  /\ Running("attach_to", "check")
  /\ IF Head(Top.todo) \in Des
     THEN Throw /\ UNCHANGED pre_nodes
     ELSE /\ pre_nodes' = [pre_nodes EXCEPT ![Top.node] = Append(@, Head(Top.todo))]
          /\ Replace([Top EXCEPT !.at = "loop", !.todo = Tail(@)])
  /\ UNCHANGED <<pushVars, subscribers, detached, doomed>>

AttachReturn ==
  /\ Running("attach_to", "loop")
  /\ Top.todo = <<>>
  /\ Return
  /\ UNCHANGED <<pushVars, graphVars, detached, doomed>>

(* detach()                                                                *)
CallDetach(n) ==
  /\ stack = <<>>
  /\ Call(Frame("detach", n, "loop", pre_nodes[n]))
  /\ UNCHANGED <<pushVars, graphVars, detached, doomed>>

(* No DES node gets into pre_nodes, the test at the loop's head is idle.   *)
DetachUnsubscribe ==
  /\ Running("detach", "loop")
  /\ Top.todo # <<>>
  /\ RemoveSubscriber(Head(Top.todo), Top.node)
  /\ Replace([Top EXCEPT !.todo = Tail(@)])
  /\ UNCHANGED <<pushVars, pre_nodes, detached, doomed>>

DetachReturn ==
  /\ Running("detach", "loop")
  /\ Top.todo = <<>>
  /\ pre_nodes' = [pre_nodes EXCEPT ![Top.node] = <<>>]
  /\ Return
  /\ detached' = detached \cup {Top.node}
  /\ UNCHANGED <<pushVars, subscribers, doomed>>

(* detach_from(names): the previous nodes that have one of the names.      *)
CallDetachFrom(n, names) ==
  /\ stack = <<>>
  /\ Call(Frame("detach_from", n, "loop", Keep(pre_nodes[n], names)))
  /\ UNCHANGED <<pushVars, graphVars, detached, doomed>>

(* Variant with a bug: the entry of pre_nodes stays.                       *)
DetachFromKeeps ==
  /\ Running("detach_from", "loop")
  /\ Top.todo # <<>>
  /\ RemoveSubscriber(Head(Top.todo), Top.node)
  /\ Replace([Top EXCEPT !.todo = Tail(@)])
  /\ UNCHANGED <<pushVars, pre_nodes, detached, doomed>>

DetachFromErase ==
  /\ Running("detach_from", "loop")
  /\ Top.todo # <<>>
  /\ RemoveSubscriber(Head(Top.todo), Top.node)
  /\ pre_nodes' = [pre_nodes EXCEPT ![Top.node] = RemoveFirst(@, Head(Top.todo))]
  /\ Replace([Top EXCEPT !.todo = Tail(@)])
  /\ UNCHANGED <<pushVars, detached, doomed>>

DetachFromReturn ==
  /\ Running("detach_from", "loop")
  /\ Top.todo = <<>>
  /\ Return
  /\ UNCHANGED <<pushVars, graphVars, detached, doomed>>

(* detach_recursively(): detach, list the next nodes under the lock, the   *)
(* same for each of them.                                                  *)
CallDetachRecursively(n) ==
  /\ stack = <<>>
  /\ stack' = <<Frame("detach", n, "loop", pre_nodes[n]), Frame("detach_recursively", n, "next", <<>>)>>
  /\ doomed' = Below(n)
  /\ UNCHANGED <<pushVars, graphVars, detached>>

RecurseNextNodes ==
  /\ Running("detach_recursively", "next")
  /\ subscribers_lock[Top.node] = "free"
  /\ Replace([Top EXCEPT !.at = "loop", !.todo = subscribers[Top.node]])
  /\ UNCHANGED <<pushVars, graphVars, detached, doomed>>

(* Variants with a bug: the next nodes are detached, but not those behind; *)
(* the loop does not go on to the next one.                                *)
RecurseOnce ==
  LET n == Head(Top.todo) IN
  /\ Running("detach_recursively", "loop")
  /\ Top.todo # <<>>
  /\ stack' = <<Frame("detach", n, "loop", pre_nodes[n]), [Top EXCEPT !.todo = Tail(@)]>>
                \o Tail(stack)
  /\ UNCHANGED <<pushVars, graphVars, detached, doomed>>

RecurseStays ==
  LET n == Head(Top.todo) IN
  /\ Running("detach_recursively", "loop")
  /\ Top.todo # <<>>
  /\ stack' = <<Frame("detach", n, "loop", pre_nodes[n]), Frame("detach_recursively", n, "next", <<>>)>>
                \o stack
  /\ UNCHANGED <<pushVars, graphVars, detached, doomed>>

Recurse ==
  LET n == Head(Top.todo) IN
  /\ Running("detach_recursively", "loop")
  /\ Top.todo # <<>>
  /\ stack' = <<Frame("detach", n, "loop", pre_nodes[n]), Frame("detach_recursively", n, "next", <<>>),
                [Top EXCEPT !.todo = Tail(@)]>> \o Tail(stack)
  /\ UNCHANGED <<pushVars, graphVars, detached, doomed>>

RecurseReturn ==
  /\ Running("detach_recursively", "loop")
  /\ Top.todo = <<>>
  /\ Return
  /\ UNCHANGED <<pushVars, graphVars, detached, doomed>>

-------------------------------------------------------------------------------
Init ==
  /\ subscribers = [n \in Node |-> <<>>]
  /\ subscribers_lock = [n \in Node |-> "free"]
  /\ pre_nodes = [n \in Node |-> <<>>]
  /\ pushing = [p \in Pusher |-> "none"]
  /\ cursor = [p \in Pusher |-> 0]
  /\ sent = {}
  /\ stack = <<>>
  /\ received = [n \in Node |-> [u \in Node |-> <<>>]]
  /\ detached = {}
  /\ doomed = {}

Push(p) == Deliver(p) \/ PushEnd(p)

Calls ==
  \E n \in Node :
    \/ \E list \in AttachLists[n] : CallAttachTo(n, list)
    \/ CallDetach(n)
    \/ \E names \in SUBSET Node : CallDetachFrom(n, names)
    \/ CallDetachRecursively(n)

GraphThread ==
  \/ AttachSubscribe \/ AttachCheck \/ AttachReturn
  \/ DetachUnsubscribe \/ DetachReturn
  \/ DetachFromErase \/ DetachFromReturn
  \/ RecurseNextNodes \/ Recurse \/ RecurseReturn

Next ==
  \/ \E p \in Pusher : \E m \in MetasOf[p] : PushBegin(p, m)
  \/ \E p \in Pusher : Push(p)
  \/ Calls
  \/ GraphThread

Spec == Init /\ [][Next]_vars

(* A thread inside a call runs whenever it can.                            *)
Fairness == WF_vars(GraphThread) /\ \A p \in Pusher : WF_vars(Push(p))

FairSpec == Spec /\ Fairness

-------------------------------------------------------------------------------
(* Every variable has its type.                                            *)
Frames ==
  [fn : {"attach_to", "detach", "detach_from", "detach_recursively"}, node : Node,
   at : {"loop", "check", "next"}, todo : Seq(Node)]

TypeOK ==
  /\ subscribers \in [Node -> Seq(Node)]
  /\ subscribers_lock \in [Node -> Pusher \cup {"free"}]
  /\ pre_nodes \in [Node -> Seq(Node)]
  /\ pushing \in [Pusher -> Meta \cup {"none"}]
  /\ cursor \in [Pusher -> Nat]
  /\ sent \subseteq Meta
  /\ stack \in Seq(Frames)
  /\ received \in [Node -> [Node -> Seq(Meta)]]
  /\ detached \subseteq Node
  /\ doomed \subseteq Node

(* vp_node.cpp:126, previous nodes send nothing more to a detached node:   *)
(* after detach() has returned, no thread that pushes, or was pushing,     *)
(* delivers to the node, until the next attach_to.                         *)
DetachedGetsNothing == [][\A n \in detached : received'[n] = received[n]]_vars

(* push_meta skips nobody: who is a subscriber when it returns has had the *)
(* meta, although other threads change the list it walks over.             *)
PushReachesAll ==
  [][\A p \in Pusher :
       pushing[p] # "none" /\ pushing'[p] = "none" =>
         \A n \in NextNodes(PusherNode[p]) :
           pushing[p] \in ToSet(received[n][PusherNode[p]])]_vars

(* Two subscribers of one node never see two of its metas in opposite      *)
(* orders, whichever threads push them (dispatch_run and speak).           *)
Before(s, a, b) == \E i, j \in DOMAIN s : i < j /\ s[i] = a /\ s[j] = b

SameOrder ==
  \A u, x, y \in Node, a, b \in Meta :
    a # b /\ Before(received[x][u], a, b) => ~Before(received[y][u], b, a)

(* Between calls the two records of the graph agree, links made twice      *)
(* included: what pre_nodes lacks, detach would never undo.                *)
Count(s, x) == Cardinality({i \in DOMAIN s : s[i] = x})

LinksAgree ==
  stack = <<>> => \A u, n \in Node : Count(subscribers[u], n) = Count(pre_nodes[n], u)

(* When detach_recursively has returned, every node that could be reached  *)
(* from its node is without previous and next nodes, also in a graph with  *)
(* several paths or a cycle, and although the links it follows are cut     *)
(* while it runs.                                                          *)
RecursionIsolates ==
  stack = <<>> =>
    \A x \in doomed :
      /\ pre_nodes[x] = <<>> /\ subscribers[x] = <<>>
      /\ \A u \in Node : x \notin NextNodes(u)

(* Every call returns: the recursion ends in any graph, and no pushing     *)
(* thread keeps a subscribers_lock.                                        *)
CallsReturn == stack # <<>> ~> stack = <<>>

===============================================================================
