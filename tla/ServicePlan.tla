---------------------------- MODULE ServicePlan ----------------------------
(***************************************************************************)
(* The pure part of service discovery, pkg/dns: what a cluster exports,    *)
(* how the exports of several clusters become one import, its virtual      *)
(* addresses and its mirrored slices.  Services and clusters are numbers,  *)
(* in the order of their names; an address is a record [fam, host].  The   *)
(* texts of conflicts are only logged and are left out.                    *)
(***************************************************************************)
EXTENDS Naturals, FiniteSets, Sequences, Listings

CONSTANTS
    Hash(_, _),       \* Hash(k, i): fnv of the name of service k and attempt i
    maxProbeBudget,
    maxEndpointsPerSlice

Of(fam, ips) == {ip \in ips : ip.fam = fam}
Least(S, Less(_, _)) == CHOOSE x \in S : \A y \in S \ {x} : Less(x, y)

-----------------------------------------------------------------------------
(***************************************************************************)
(* A Service is [headless, ips, ports, pods].                              *)
(***************************************************************************)
endpointServing(pod) == pod.ready /\ ~pod.terminating
ReadyEndpointIPs(pods) == {pod.ip : pod \in {p \in pods : endpointServing(p)}}

\* BuildExportedEndpoint, and the addresses a headless service gets afterwards.
BuildExportedEndpoint(cluster, svc, time) ==
    [cluster |-> cluster, type |-> IF svc.headless THEN "Headless" ELSE "ClusterSetIP",
     ips |-> IF svc.headless THEN ReadyEndpointIPs(svc.pods) ELSE svc.ips,
     ports |-> svc.ports, time |-> time]

-----------------------------------------------------------------------------
(***************************************************************************)
(* PlanServiceImport.                                                      *)
(***************************************************************************)
Older(e, f) == e.time < f.time \/ (e.time = f.time /\ e.cluster < f.cluster)
protocolOf(p) == IF p.proto = "" THEN "TCP" ELSE p.proto
portKey(p) == <<p.port, protocolOf(p)>>

\* The oldest export that has the port names it.
mergePorts(exports) ==
    LET having(key) == {e \in exports : \E p \in e.ports : portKey(p) = key}
        first(key) == CHOOSE p \in Least(having(key), Older).ports : portKey(p) = key
    IN  {[first(key) EXCEPT !.proto = key[2]] :
            key \in {portKey(p) : p \in UNION {e.ports : e \in exports}}}

\* Mutant: the lowest cluster ID decides, whatever the age.
PlanServiceImportByID(exports) ==
    LET type == Least(exports, LAMBDA e, f : e.cluster < f.cluster).type
        matching == {e \in exports : e.type = type}
    IN  [type |-> type, ports |-> mergePorts(matching),
         clusters |-> {e.cluster : e \in matching}]
PlanServiceImport(exports) ==
    LET type == Least(exports, Older).type
        matching == {e \in exports : e.type = type}
    IN  [type |-> type, ports |-> mergePorts(matching),
         clusters |-> {e.cluster : e \in matching}]

-----------------------------------------------------------------------------
(***************************************************************************)
(* AllocateClusterSetIPs: the offset of every key in a range of the given  *)
(* size; the empty function is an error.                                   *)
(***************************************************************************)
NoIPs == <<>>
allocateOne(k, size, budget, taken) ==
    LET free == {i \in 0..(budget - 1) : Hash(k, i) % size \notin taken \cup {0}}
    IN  IF free = {} THEN 0 ELSE Hash(k, Least(free, LAMBDA i, j : i < j)) % size

AllocateClusterSetIPs(size, keys) ==
    LET sorted == Sorted(keys, LAMBDA a, b : a < b)
        budget == Cardinality(keys) + maxProbeBudget
        placed[i \in 0..Len(sorted)] ==
            IF i = 0 THEN <<>>
            ELSE Append(placed[i - 1],
                        allocateOne(sorted[i], size, budget, Range(placed[i - 1])))
        offs == placed[Len(sorted)]
    IN  IF size < Cardinality(keys) + 1 \/ 0 \in Range(offs) THEN NoIPs
        ELSE [k \in keys |-> offs[CHOOSE i \in DOMAIN sorted : sorted[i] = k]]

-----------------------------------------------------------------------------
(***************************************************************************)
(* PlanEndpointSlices: slices of one cluster and family, of a bounded size.*)
(***************************************************************************)
\* Mutant: the last slice of a family is left out when it is not full.
ChunksFull(n) == 0..(n \div maxEndpointsPerSlice - 1)
Chunks(n) == 0..((n + maxEndpointsPerSlice - 1) \div maxEndpointsPerSlice - 1)

mirrorPorts(ports) == {[p EXCEPT !.proto = protocolOf(p)] : p \in ports}

PlanEndpointSlices(k, exports) ==
    UNION {LET sorted == Sorted(Of(fam, e.ips), LAMBDA a, b : a.host < b.host)
               upto(c) == LET top == (c + 1) * maxEndpointsPerSlice IN
                          IF top > Len(sorted) THEN Len(sorted) ELSE top
           IN  {[name |-> <<k, e.cluster, fam, c>>,
                 ips |-> Range(SubSeq(sorted, c * maxEndpointsPerSlice + 1, upto(c))),
                 ports |-> mirrorPorts(e.ports)] : c \in Chunks(Len(sorted))} :
           e \in exports, fam \in {4, 6}}
=============================================================================
