----------------------------- MODULE MCFailover -----------------------------
(***************************************************************************)
(* Two nodes, a remote cluster, a stale window of five intervals and a     *)
(* refresh of two (ten and two in the code).                               *)
(***************************************************************************)
EXTENDS Failover

MCImports ==
    {[key |-> "web", type |-> "ClusterSetIP", ips |-> <<"vip1">>, ports |-> {80}],
     [key |-> "db", type |-> "ClusterSetIP", ips |-> <<"vip2">>, ports |-> {5432}],
     [key |-> "new", type |-> "ClusterSetIP", ips |-> <<>>, ports |-> {80}],
     [key |-> "pods", type |-> "Headless", ips |-> <<>>, ports |-> {80}]}
MCExports ==
    {[key |-> "web", cluster |-> "here", type |-> "ClusterSetIP", ips |-> {"h1"}],
     [key |-> "web", cluster |-> "east", type |-> "ClusterSetIP", ips |-> {"e1"}],
     [key |-> "db", cluster |-> "east", type |-> "ClusterSetIP", ips |-> {"e2"}],
     [key |-> "pods", cluster |-> "east", type |-> "Headless", ips |-> {"e3"}]}
=============================================================================
