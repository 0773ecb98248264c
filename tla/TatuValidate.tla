---------------------------- MODULE TatuValidate ----------------------------
(***************************************************************************)
(* The checks tatu makes on the overlay of the host and on the merged      *)
(* device tree (validate.rs).  The caller only asks whether a check        *)
(* failed, so a check is a predicate and the order of its tests is left    *)
(* out.                                                                    *)
(*                                                                         *)
(* A tree is a function from paths to properties.  A path is a sequence of *)
(* names, <<>> the root; a name is the segment before '@' and the unit     *)
(* after it.  The properties of a node are a function from property names  *)
(* to values.  A fragment of an overlay has a target, given by path or by  *)
(* label, and the nodes it puts there, under the paths they get.  The      *)
(* values that tatu looks at are:                                          *)
(*   "reg"               whole: the length is a multiple of a region's;    *)
(*                       regions: the (gpa, size) pairs                    *)
(*   "cpu-release-addr"  bytes: its length; addr: the number in it         *)
(*   "linux,initrd-start" and "-end"   as above                            *)
(***************************************************************************)
EXTENDS Naturals, Sequences, FiniteSets

CONSTANTS
    U64,                      \* number of u64 values
    MAX_CPUS, MAX_MEMORY_REGIONS, MAX_DEVICE_RANGES

ASSUME MaximaAssumption ==
    /\ U64 \in Nat \ {0}
    /\ MAX_CPUS \in Nat /\ MAX_MEMORY_REGIONS \in Nat /\ MAX_DEVICE_RANGES \in Nat

Region == [gpa : 0..U64-1, size : 0..U64-1]
Number == [bytes : Nat, addr : 0..U64-1]

NoUnit == "none"

\* Region::end(): None when the addition overflows.
end(r) == r.gpa + r.size
Ends(r) == end(r) < U64

\* paLimit is 1 << pa_bits.
\* A region may not end with the last address.
validate_region_Strict(r, paLimit) == r.size # 0 /\ Ends(r) /\ end(r) < paLimit

validate_region(r, paLimit) == r.size # 0 /\ Ends(r) /\ end(r) <= paLimit

regions_overlap(a, b) == Ends(a) /\ Ends(b) => a.gpa < end(b) /\ b.gpa < end(a)

region_contains(outer, inner) ==
    Ends(outer) /\ Ends(inner) /\ outer.gpa <= inner.gpa /\ end(inner) <= end(outer)

----------------------------------------------------------------------------
\* Trees.
Has(tree, p, prop) == prop \in DOMAIN tree[p]

\* The properties tatu looks at hold what their length says.
Typed(props) ==
    /\ "reg" \in DOMAIN props => props["reg"].regions \in Seq(Region) /\ props["reg"].whole \in BOOLEAN
    /\ \A x \in {"cpu-release-addr", "linux,initrd-start", "linux,initrd-end"} \cap DOMAIN props : props[x] \in Number

children(tree, p) ==
    {q \in DOMAIN tree : Len(q) = Len(p) + 1 /\ SubSeq(q, 1, Len(p)) = p}

top_segment(p) == p[Len(p)].seg

TopNodes(tree) == {p \in DOMAIN tree : Len(p) = 1}
MemoryNodes(tree) == {p \in TopNodes(tree) : top_segment(p) = "memory"}
CpusNodes(tree) == {p \in TopNodes(tree) : top_segment(p) = "cpus"}
DeviceNodes(tree) == (TopNodes(tree) \ MemoryNodes(tree)) \ CpusNodes(tree)
CpuNodes(tree) == {p \in DOMAIN tree : Len(p) = 2 /\ p[1].seg = "cpus"}

\* The pairs of the reg properties of some nodes, each under its place.
Slots(tree, nodes) ==
    UNION {{<<p, i>> : i \in DOMAIN tree[p]["reg"].regions} : p \in {q \in nodes : Has(tree, q, "reg")}}

RegionAt(tree, slot) == tree[slot[1]]["reg"].regions[slot[2]]
Regions(tree, nodes) == {RegionAt(tree, s) : s \in Slots(tree, nodes)}

----------------------------------------------------------------------------
\* The overlay of the host.

check_memory_node(node, p) ==
    Has(node, p, "reg") =>
        node[p]["reg"].whole /\ \A r \in Regions(node, {p}) : Ends(r)

check_cpus_additions(node, p) ==
    /\ DOMAIN node[p] \subseteq {"#address-cells", "#size-cells"}
    /\ \A q \in children(node, p) :
         top_segment(q) = "cpu" /\ {"phandle", "linux,phandle"} \cap DOMAIN node[q] = {}

memory_path(p) == Len(p) = 1 /\ p[1].seg = "memory" /\ p[1].unit # NoUnit

Plain(seg) == <<[seg |-> seg, unit |-> NoUnit]>>

RootFragment(node) ==
    /\ DOMAIN node[<<>>] = {}
    /\ \A q \in children(node, <<>>) :
         /\ top_segment(q) \in {"memory", "distance-map", "cpus"}
         /\ top_segment(q) = "memory" => check_memory_node(node, q)
         /\ top_segment(q) = "cpus" => check_cpus_additions(node, q)

\* The nodes below a node of the base are not looked at.
NumaFragment_AnyChildren(node, p, base) ==
    p \in DOMAIN base /\ DOMAIN node[p] = {"numa-node-id"}

\* Anything else may only put numa-node-id on a node of the base.
NumaFragment(node, p, base) ==
    /\ p \in DOMAIN base
    /\ DOMAIN node[p] = {"numa-node-id"}
    /\ children(node, p) = {}

\* Targets that are the host's to fill.
HostTarget(p) == p \in {<<>>, Plain("cpus"), Plain("distance-map")} \/ memory_path(p)

classify_fragment(frag, base) ==
    LET p == frag.target
        node == frag.node
    IN  /\ p = <<>> => RootFragment(node)
        /\ p = Plain("cpus") => check_cpus_additions(node, p)
        /\ memory_path(p) => check_memory_node(node, p)
        /\ ~HostTarget(p) => NumaFragment(node, p, base)

validate_host_dtbo(overlay, base) ==
    \A i \in DOMAIN overlay : overlay[i].byPath /\ classify_fragment(overlay[i], base)

----------------------------------------------------------------------------
\* The merged tree.

\* A full buffer drops what does not fit.
extract_regs_Uncapped(tree, nodes, max, paLimit) ==
    /\ \A p \in nodes : Has(tree, p, "reg") => tree[p]["reg"].whole
    /\ \A r \in Regions(tree, nodes) : validate_region(r, paLimit)

extract_regs(tree, nodes, max, paLimit) ==
    /\ \A p \in nodes : Has(tree, p, "reg") => tree[p]["reg"].whole
    /\ \A r \in Regions(tree, nodes) : validate_region(r, paLimit)
    /\ Cardinality(Slots(tree, nodes)) <= max

count_cpus(tree) == Cardinality(CpuNodes(tree)) <= MAX_CPUS

semantic_overlap_checks(tree) ==
    \A m \in Regions(tree, MemoryNodes(tree)) :
      \A d \in Regions(tree, DeviceNodes(tree)) : ~regions_overlap(m, d)

parse_release_addr(v) == v.bytes \in {4, 8}

\* The mailbox a cpu waits at: a u64.
ReleaseTarget(v) == [gpa |-> v.addr, size |-> 8]

\* The mailbox need not be in memory as a whole.
ReleaseAllowed_First(tree, target) ==
    /\ \A d \in Regions(tree, DeviceNodes(tree)) : ~regions_overlap(target, d)
    /\ \E m \in Regions(tree, MemoryNodes(tree)) : region_contains(m, [target EXCEPT !.size = 1])

ReleaseAllowed(tree, target) ==
    /\ \A d \in Regions(tree, DeviceNodes(tree)) : ~regions_overlap(target, d)
    /\ \E m \in Regions(tree, MemoryNodes(tree)) : region_contains(m, target)

validate_cpu_release_addrs(tree, paLimit) ==
    \A p \in CpuNodes(tree) :
      Has(tree, p, "cpu-release-addr") =>
        LET v == tree[p]["cpu-release-addr"]
        IN  /\ parse_release_addr(v)
            /\ validate_region(ReleaseTarget(v), paLimit)
            /\ ReleaseAllowed(tree, ReleaseTarget(v))

validate_merged(tree, paLimit) ==
    /\ count_cpus(tree)
    /\ extract_regs(tree, MemoryNodes(tree), MAX_MEMORY_REGIONS, paLimit)
    /\ extract_regs(tree, DeviceNodes(tree), MAX_DEVICE_RANGES, paLimit)
    /\ semantic_overlap_checks(tree)
    /\ validate_cpu_release_addrs(tree, paLimit)
============================================================================
