---------------------------- MODULE MCTatuBoot ----------------------------
(* 32 or 16 guest addresses out of 64, three measured trees, overlays of up *)
(* to two fragments: the host's usual ones and those it must not write.     *)
EXTENDS TatuBoot

At(seg, unit) == [seg |-> seg, unit |-> unit]
MCName == {At(seg, unit) : seg \in {"chosen", "cpus", "cpu", "distance-map", "idle", "memory", "pcie", "pool",
                                    "reserved-memory", "serial", "x"}, unit \in {NoUnit, "0", "1"}}
Node(p, props) == [q \in {p} |-> props]
Join(f, g) == [p \in DOMAIN f \cup DOMAIN g |-> IF p \in DOMAIN f THEN f[p] ELSE g[p]]
None == [x \in {} |-> 0]
One(prop, v) == [x \in {prop} |-> v]
R(gpa, size) == [gpa |-> gpa, size |-> size]
Reg(regions) == [whole |-> TRUE, regions |-> regions]
BadReg == [whole |-> FALSE, regions |-> <<>>]
U(bytes, addr) == [bytes |-> bytes, addr |-> addr]

MCAcpi == R(0, 1)

memory0 == <<At("memory", "0")>>
memory1 == <<At("memory", "1")>>
cpus == Plain("cpus")
cpu0 == <<At("cpus", NoUnit), At("cpu", "0")>>
cpu1 == <<At("cpus", NoUnit), At("cpu", "1")>>
serial == <<At("serial", "0")>>
pcie == <<At("pcie", "0")>>
distance == Plain("distance-map")
reserved == <<At("reserved-memory", NoUnit), At("pool", "0")>>

\* Measured trees: a bridge and a serial port, the same out of band with reserved
\* memory, a controller with two ranges.
Chosen(args, start, last) ==
    Node(chosen, Join(args, Join(One("linux,initrd-start", start), One("linux,initrd-end", last))))
Devices == Join(Node(<<>>, None),
           Join(Node(serial, One("reg", Reg(<<R(12, 2)>>))),
                Node(pcie, Join(One("reg", Reg(<<R(14, 2)>>)),
                                One("compatible", {"pci-host-ecam-generic"})))))
Args == One("bootargs", "quiet")

BaseX86 == Join(Devices, Chosen(Args, U(8, 4), U(8, 7)))
BaseReserved == Join(BaseX86, Join(Node(Plain("reserved-memory"), None), Node(reserved, One("reg", Reg(<<R(2, 2)>>)))))
BaseArm == Join(Join(Node(<<>>, None), Node(chosen, Args)), Node(serial, One("reg", Reg(<<R(12, 2), R(15, 1)>>))))
OddBases == {Join(Devices, Chosen(None, U(8, 4), U(8, 7))), Join(Devices, Chosen(Args, U(8, 4), U(8, 30))),
             Join(Devices, Chosen(Args, U(12, 4), U(8, 7))), Join(Devices, Chosen(Args, U(4, 7), U(8, 4)))}

Frag(target, node) == [byPath |-> TRUE, target |-> target, node |-> node]
AtRoot(node) == Frag(<<>>, Join(Node(<<>>, None), node))

MemoryProps == {One("reg", Reg(<<r>>)) : r \in {R(0, 12), R(16, 16), R(16, 10), R(20, 0), R(8, 5), R(13, 1), R(24, 9), R(60, 4)}}
                 \cup {None, One("reg", BadReg), One("reg", Reg([i \in 1..6 |-> R(2 * (i - 1), 2)])),
                       One("reg", Reg(<<R(0, 10), R(10, 2)>>))}

Cpus(props) == Join(Node(cpus, One("#size-cells", 0)), Node(cpu0, props))
CpuProps == {None, One("phandle", 1), One("cpu-release-addr", U(12, 0))}
              \cup {One("cpu-release-addr", U(8, a)) : a \in {0, 4, 5, 20, 24, 25, 60}}

MemoryFragments == {AtRoot(Node(memory0, m)) : m \in MemoryProps}
CpuFragments == {AtRoot(Cpus(c)) : c \in CpuProps}
                  \cup {AtRoot(Join(Cpus(None), Node(cpu1, None))), Frag(cpus, Cpus(None)),
                        AtRoot(Node(cpus, One("compatible", {"pci-host-ecam-generic"}))),
                        AtRoot(Join(Node(cpus, None), Node(<<At("cpus", NoUnit), At("idle", "0")>>, None)))}
ReachesOut == {[AtRoot(None) EXCEPT !.byPath = FALSE], AtRoot(None), Frag(<<>>, Node(<<>>, One("model", "x"))),
               Frag(chosen, Node(chosen, One("kaslr-seed", "s0"))),
               Frag(chosen, Node(chosen, One("linux,initrd-end", U(8, 5)))),
               AtRoot(Node(chosen, One("bootargs", "x"))),
               Frag(serial, Node(serial, One("numa-node-id", 1))), Frag(serial, Node(serial, None)),
               Frag(serial, Join(Node(serial, One("numa-node-id", 1)), Node(serial \o <<At("x", "0")>>, None))),
               Frag(memory1, Node(memory1, One("reg", Reg(<<R(17, 4)>>)))),
               Frag(Plain("memory"), Node(Plain("memory"), None)),
               Frag(distance, Node(distance, One("reg", Reg(<<R(30, 2)>>)))),
               AtRoot(Node(distance, Join(One("reg", Reg(<<R(1, 1)>>)), One("compatible", {"pci-host-ecam-generic"}))))}

\* A machine that boots, with a fragment of any kind after it.
Pool == MemoryFragments \cup CpuFragments \cup ReachesOut
Overlays == {<<>>} \cup {<<f>> : f \in Pool} \cup {<<f, g>> : f \in MemoryFragments, g \in Pool}
              \cup {<<f, g>> : f \in ReachesOut, g \in ReachesOut}

Machine(arch, base, overlay, paBits, relocs, alloc) ==
    [arch |-> arch, magic |-> TRUE, base |-> base, size |-> 1, overlay |-> overlay, paLimit |-> 2^paBits,
     relocs |-> relocs, alloc |-> alloc]

Boots == <<AtRoot(Node(memory0, One("reg", Reg(<<R(0, 12)>>))))>>

MCInput ==
    {Machine("x86_64", b, o, w, FALSE, 1) : b \in {BaseX86, BaseReserved}, o \in Overlays, w \in {4, 5}}
      \cup {Machine("aarch64", BaseArm, o, 5, FALSE, 1) : o \in Overlays}
      \cup {Machine("x86_64", b, Boots, 5, TRUE, n) : b \in {BaseX86} \cup OddBases, n \in 0..12}
      \cup {[Machine(a, BaseArm, Boots, 5, FALSE, 1) EXCEPT !.magic = m, !.size = n] :
              a \in {"x86_64", "aarch64"}, m \in BOOLEAN, n \in {2, 3}}
============================================================================
