------------------------------- MODULE FatTree -------------------------------
(***************************************************************************)
(* The k-ary fat-tree of the testbed as three programs see it: the one that *)
(* cables it (testbed/mininet/fat_tree_topology.py), the controller that    *)
(* installs base routes by port number (pipeline/s5_fastpath/ryu_app.py)    *)
(* and the frontend that draws the path of an attack (frontend/backend.py). *)
(* Ports are numbered from 1 in the order in which links are added.         *)
(***************************************************************************)
EXTENDS Integers, Sequences, SequencesExt

Half(k) == k \div 2

Core(i)    == <<"core", i>>
Agg(p, a)  == <<"agg", p, a>>
Edge(p, e) == <<"edge", p, e>>
Host(p, e, h) == <<"host", p, e, h>>     \* 10.p.e.h, h counts from 1

Pods(k)  == 0..k-1
Inner(k) == 0..Half(k)-1                 \* switches of a layer in a pod
Hosts(k) == { Host(p, e, h) : p \in Pods(k), e \in Inner(k), h \in 1..Half(k) }
Switches(k) == { Core(i) : i \in 0..Half(k)*Half(k)-1 }
    \cup { Agg(p, a) : p \in Pods(k), a \in Inner(k) }
    \cup { Edge(p, e) : p \in Pods(k), e \in Inner(k) }

-----------------------------------------------------------------------------
(* build_fat_tree: what a port of a switch is cabled to.                    *)
Peer(k, sw, port) ==
    CASE sw[1] = "edge" /\ port <= Half(k) -> Host(sw[2], sw[3], port)
      [] sw[1] = "edge" /\ port > Half(k)  -> Agg(sw[2], port - Half(k) - 1)
      [] sw[1] = "agg" /\ port <= Half(k)  -> Edge(sw[2], port - 1)
      [] sw[1] = "agg" /\ port > Half(k)   ->
            Core(sw[3] * Half(k) + port - Half(k) - 1)
      [] sw[1] = "core" -> Agg(port - 1, sw[2] \div Half(k))

-----------------------------------------------------------------------------
(* The controller, started with PAD_FATTREE_K = k.                          *)

\* Mutant: an aggregation switch sends the traffic of its own pod up as well.
OutPortUpOnly(k, sw, dst) ==
    CASE sw[1] = "core" -> dst[2] + 1
      [] sw[1] = "agg"  -> Half(k) + 1
      [] sw[1] = "edge" ->
            IF sw[2] = dst[2] /\ sw[3] = dst[3] THEN dst[4] ELSE Half(k) + 1

\* _out_port_for_dst
OutPort(k, sw, dst) ==
    CASE sw[1] = "core" -> dst[2] + 1
      [] sw[1] = "agg"  -> IF sw[2] = dst[2] THEN dst[3] + 1 ELSE Half(k) + 1
      [] sw[1] = "edge" ->
            IF sw[2] = dst[2] /\ sw[3] = dst[3] THEN dst[4] ELSE Half(k) + 1

\* _install_fat_tree_base_routes gives every switch a rule for each host of
\* _known_host_ips; a packet for another address has none.
NoRule == <<"none">>
NextHop(k, sw, dst) ==
    IF dst \in Hosts(k) THEN Peer(k, sw, OutPort(k, sw, dst)) ELSE NoRule

\* A packet at the end of path w is sent on by a switch, and rests anywhere else.
SentOn(k, dst, w) ==
    IF Last(w) \in Switches(k) THEN Append(w, NextHop(k, Last(w), dst)) ELSE w

\* Where a packet has been after at most n nodes, the sender and its edge switch
\* being the first two.
Walk(k, src, dst, n) ==
    LET w[i \in 2..n] == IF i = 2 THEN <<src, Edge(src[2], src[3])>>
                         ELSE SentOn(k, dst, w[i-1])
    IN  w[n]

-----------------------------------------------------------------------------
(* The frontend: the nodes of _shortest_fat_tree_path.                      *)

\* Mutant: the way down starts from the second aggregation switch.
ShownPathOtherAgg(att, vic) ==
    <<att, Edge(att[2], att[3]), Agg(att[2], 0)>>
    \o (IF att[2] # vic[2] THEN <<Core(0), Agg(vic[2], 1), Edge(vic[2], vic[3])>>
        ELSE IF att[3] # vic[3] THEN <<Edge(vic[2], vic[3])>> ELSE <<>>)
    \o <<vic>>

\* For a pair below one edge switch the hop up to the pod is drawn as well.
ShownPath(att, vic) ==
    <<att, Edge(att[2], att[3]), Agg(att[2], 0)>>
    \o (IF att[2] # vic[2] THEN <<Core(0), Agg(vic[2], 0), Edge(vic[2], vic[3])>>
        ELSE IF att[3] # vic[3] THEN <<Edge(vic[2], vic[3])>> ELSE <<>>)
    \o <<vic>>

=============================================================================
