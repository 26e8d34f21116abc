------------------------------- MODULE Peers -------------------------------
(***************************************************************************)
(* The nodes that a node knows (p2p/node.go, and the handlers of /nodes,    *)
(* /register and /ping), over the starts of the nodes: only a node that    *)
(* has come to listen answers.                                             *)
(*                                                                         *)
(* DiscoverNodes goes once through a copy of KnownNodes, and looks every   *)
(* address up without the mutex before AddNode takes it, while requests to *)
(* register run on goroutines of their own.  main posts the node's address *)
(* to its seeds as it is, which the handler refuses: it expects JSON.  So  *)
(* a registration is a post by somebody else, for any address.  Nodes ask  *)
(* for the chains of those whom they know.                                 *)
(***************************************************************************)
EXTENDS Startup

CONSTANTS
    BuiltIn,  \* the two addresses that NewNode puts into KnownNodes
    Ghosts,   \* further addresses that nobody listens to
    Seeds,    \* the addresses of each node's option -seed
    MaxPosts  \* bound: registrations that a node takes up

Hosts == Nodes \cup Range(BuiltIn) \cup Ghosts

ASSUME KnownAssumption ==
    /\ BuiltIn \in Seq(Hosts) /\ IsInjective(BuiltIn)
    /\ MaxPosts \in Nat
    /\ Seeds \in [Nodes -> Seq(Hosts)]

VARIABLES
    known,       \* each node's KnownNodes
    discovery,   \* of DiscoverNodes: nodes to ask, peers to look up, a peer to add
    registering, \* addresses that answered the ping of RegisterNodeHandler
    posts,       \* history: the registrations that were taken up
    listened     \* history: the nodes that have listened

peersVars == <<known, discovery, registering, posts, listened>>
vars == <<startupVars, peersVars>>

NotStarted == [at |-> "sleeping", ask |-> <<>>, peers |-> <<>>]
Finished == [NotStarted EXCEPT !.at = "finished"]

Init ==
    /\ StartupInit
    /\ known = [n \in Nodes |-> <<>>]
    /\ discovery = [n \in Nodes |-> NotStarted]
    /\ registering = [n \in Nodes |-> {}]
    /\ posts = 0
    /\ listened = {}

-----------------------------------------------------------------------------
(* The start, which has KnownNodes built first and loses it last.          *)

\* A bug to look for: AddNode trusts who looked the address up before.
AppendAnyway(list, m) == Append(list, m)

\* AddNode.
Added(list, m) == IF m \in Range(list) THEN list ELSE Append(list, m)

StartNode(n) ==
    /\ Start(n)
    /\ known' = [known EXCEPT ![n] = FoldLeft(Added, BuiltIn, Seeds[n])]
    /\ UNCHANGED <<discovery, registering, posts, listened>>

MainGoesOn(n) ==
    /\ \/ Main(n) \/ SyncChains(n) \/ syncWithNode(n)
       \/ \E m \in Range(known[n]) \cap Nodes : GetChain(n, m)
    /\ listened' = IF Serving(n)' THEN listened \cup {n} ELSE listened
    /\ UNCHANGED <<known, discovery, registering, posts>>

ExitNode(n) ==
    /\ Exit(n)
    /\ known' = [known EXCEPT ![n] = <<>>]
    /\ discovery' = [discovery EXCEPT ![n] = NotStarted]
    /\ registering' = [registering EXCEPT ![n] = {}]
    /\ UNCHANGED <<posts, listened>>

-----------------------------------------------------------------------------
(* DiscoverNodes, two seconds after main has come to listen.               *)

Discovers(n, new) ==
    /\ discovery' = [discovery EXCEPT ![n] = new]
    /\ UNCHANGED <<startupVars, registering, posts, listened>>

DiscoverNodes(n) ==
    /\ Serving(n)
    /\ discovery[n].at = "sleeping"
    /\ Discovers(n, [at |-> "asking", ask |-> known[n], peers |-> <<>>])
    /\ UNCHANGED known

\* A bug to look for: who does not answer is asked again.
AskedAgain(queue) == queue

Others(queue) == Tail(queue)

\* The next node of the copy answers with all that it knows, or does not answer.
GetNodePeers(n) ==
    /\ discovery[n].at = "asking"
    /\ IF discovery[n].ask = <<>>
       THEN Discovers(n, Finished)
       ELSE LET m == Head(discovery[n].ask)
                d == [discovery[n] EXCEPT !.ask = Others(@)]
            IN  \/ /\ m \in Nodes \ {n}
                   /\ Serving(m)
                   /\ Discovers(n, [d EXCEPT !.at = "checking", !.peers = known[m]])
                \/ Discovers(n, d)
    /\ UNCHANGED known

\* The look at KnownNodes without the mutex.
CheckPeer(n) ==
    /\ discovery[n].at = "checking"
    /\ LET d == discovery[n]
       IN  IF d.peers = <<>> THEN Discovers(n, [d EXCEPT !.at = "asking"])
           ELSE IF Head(d.peers) \in Range(known[n]) \cup {n}
           THEN Discovers(n, [d EXCEPT !.peers = Tail(@)])
           ELSE Discovers(n, [d EXCEPT !.at = "adding"])
    /\ UNCHANGED known

AddPeer(n) ==
    /\ discovery[n].at = "adding"
    /\ known' = [known EXCEPT ![n] = Added(@, Head(discovery[n].peers))]
    /\ Discovers(n, [discovery[n] EXCEPT !.at = "checking", !.peers = Tail(@)])

Discovery(n) == GetNodePeers(n) \/ CheckPeer(n) \/ AddPeer(n)

-----------------------------------------------------------------------------
(* RegisterNodeHandler: the ping first, the address afterwards.            *)

\* A bug to look for: the ping is sent and its answer not waited for.
AnswersAnyway(m) == TRUE

isPingable(m) == m \in Nodes /\ Serving(m)

PingToRegister(n, m) ==
    /\ Serving(n)
    /\ isPingable(m)
    /\ posts < MaxPosts
    /\ posts' = posts + 1
    /\ registering' = [registering EXCEPT ![n] = @ \cup {m}]
    /\ UNCHANGED <<startupVars, known, discovery, listened>>

Register(n, m) ==
    /\ m \in registering[n]
    /\ known' = [known EXCEPT ![n] = Added(@, m)]
    /\ registering' = [registering EXCEPT ![n] = @ \ {m}]
    /\ UNCHANGED <<startupVars, discovery, posts, listened>>

Next ==
    \E n \in Nodes :
        \/ StartNode(n) \/ MainGoesOn(n) \/ ExitNode(n)
        \/ DiscoverNodes(n) \/ Discovery(n)
        \/ \E m \in Hosts : PingToRegister(n, m) \/ Register(n, m)

\* The goroutine of DiscoverNodes runs on, whose requests have a timeout.
Fairness == \A n \in Nodes : WF_vars(Discovery(n))

Spec == Init /\ [][Next]_vars /\ Fairness

-----------------------------------------------------------------------------
(* Properties.                                                             *)

TypeOK ==
    /\ StartupTypeOK
    /\ known \in [Nodes -> Seq(Hosts)]
    /\ \A n \in Nodes :
          /\ discovery[n].at \in {"sleeping", "asking", "checking", "adding", "finished"}
          /\ discovery[n].ask \in Seq(Hosts)
          /\ discovery[n].peers \in Seq(Hosts)
          /\ ~Up(n) => known[n] = <<>>
    /\ registering \in [Nodes -> SUBSET Nodes]
    /\ posts \in Nat
    /\ listened \subseteq Nodes

\* node.go:91: an address is looked up without the mutex, and a registration may
\* add it before AddNode does.  Nobody is known twice.
NobodyIsKnownTwice == \A n \in Nodes : IsInjective(known[n])

\* Through registrations, discoveries of discoveries, and nodes that have gone
\* since: whoever is known was built in, is somebody's seed, or has listened.
\* In particular nobody learns of a node whose start hangs (blockchain.go:481).
KnownHaveListened ==
    \A n \in Nodes : \A m \in Range(known[n]) :
        \/ m \in Range(BuiltIn) \cup listened
        \/ \E k \in Nodes : m \in Range(Seeds[k])

\* node.go:80-96: a discovery ends, although those whom it asks, and its own
\* node, learn of others meanwhile.
DiscoveryEnds ==
    \A n \in Nodes :
        discovery[n].at = "asking" ~> discovery[n].at \in {"finished", "sleeping"}
=============================================================================
