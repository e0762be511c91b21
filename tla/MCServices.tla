---------------------------- MODULE MCServices -----------------------------
(***************************************************************************)
(* Cluster 1 is the local one.  Service 2 has a Service here; services 1   *)
(* and 2 are exported by cluster 2.  Both hash to the same first address.  *)
(***************************************************************************)
EXTENDS Services, TLC

MCHash(k, i) == IF i = 0 THEN 1 ELSE k + i
V4(h) == [fam |-> 4, host |-> h]
V6(h) == [fam |-> 6, host |-> h]
Port(name, proto) == [name |-> name, proto |-> proto, port |-> 80]

Plain == [headless |-> FALSE, ips |-> {V4(1), V6(1)}, ports |-> {Port("http", "")}, pods |-> {}]
Pod(h, ready, terminating) == [ip |-> V4(h), ready |-> ready, terminating |-> terminating]
Headless ==
    [headless |-> TRUE, ips |-> {}, ports |-> {Port("web", "TCP")},
     pods |-> {Pod(1, TRUE, FALSE), Pod(2, TRUE, FALSE), Pod(3, FALSE, FALSE), Pod(4, TRUE, TRUE)}]
Larger == [Headless EXCEPT !.pods = @ \cup {Pod(6, TRUE, FALSE)}]
MCServiceSpecs == {Plain, Larger}

Remote(svc, t) == BuildExportedEndpoint(2, svc, t)
Older2 == Remote(Plain, 1)
Younger2 == Remote([Headless EXCEPT !.pods = {Pod(5, TRUE, FALSE)}], 3)
MCMirrors == {<<1, Older2>>, <<2, Older2>>, <<2, Younger2>>, <<2, None>>}
MCSliceName == {<<2, c, 4, i>> : c \in Cluster, i \in 0..1} \cup {<<2, c, 6, 0>> : c \in Cluster}

\* What the agents leave behind, when the local service is svc and the exports are ee.
Stored(svc, ee) ==
    LET s == [svc |-> [k \in Key |-> IF k \in LocalKey THEN svc ELSE None],
              exp |-> [k \in Key |->
                          IF k \notin LocalKey \/ ee[<<1, k>>] = None THEN None
                          ELSE [time |-> 2, finalizer |-> TRUE, deleting |-> FALSE,
                                valid |-> <<"Exported", ee[<<1, k>>].type, 1>>]],
              ee |-> ee, si |-> [k \in Key |-> None], sl |-> [x \in SliceName |-> None]]
        slices(k) == {x \in Mirrored(s, k) : TRUE}
    IN  [s EXCEPT
          !.si = [k \in Key |->
                     IF Exports(s, k) = {} THEN None
                     ELSE LET plan == PlanServiceImport(Exports(s, k)) IN
                          [Import(plan, VIPs(s, k).ips) EXCEPT !.clusters = plan.clusters]],
          !.sl = [x \in SliceName |->
                     IF \E y \in slices(x[1]) : y.name = x
                     THEN CHOOSE y \in slices(x[1]) : y.name = x ELSE None]]
Exported(svc, remote) ==
    [x \in Cluster \X Key |->
        CASE x = <<1, 2>> /\ svc # None -> BuildExportedEndpoint(1, svc, 2)
          [] x = <<2, 2>> -> remote
          [] OTHER -> None]
MCObjects ==
    {Stored(svc, Exported(svc, remote)) :
        <<svc, remote>> \in {<<Plain, None>>, <<Headless, None>>, <<None, Younger2>>}}

\* Two agents' export controllers, two agents' import controllers, and one whole agent.
Scenario(on, writes, trouble) == [on |-> on, writes |-> writes, trouble |-> trouble]
MCScenarios ==
    {Scenario(Node \X {"export"}, 1, 1), Scenario(Node \X {"import"}, 1, 0)}
    \cup {Scenario({n} \X Ctl, 2, 0) : n \in Node} \cup {Scenario({n} \X Ctl, 1, 1) : n \in Node}
Symmetry == Permutations(Node)
=============================================================================
