----------------------------- MODULE MCDtb2Acpi -----------------------------
(* Bytes up to 3, words up to 7: four cpus, three domains and three devices *)
(* of a kind are the limits.  Each part of a working machine is varied with *)
(* the others, and every single fault is tried.                             *)
EXTENDS Dtb2Acpi, TLC

R(base, size) == [base |-> base, size |-> size]
W(space, base, size) == [space |-> space, base |-> base, size |-> size]
D(from, to, val) == [from |-> from, to |-> to, val |-> val]

Node(name, compatible, base) == [name |-> name, compatible |-> compatible, reg |-> <<R(base, 1)>>]
Lapic == Node("interrupt-controller", {"intel,ce4100-lapic"}, 4)
Ioapic == Node("interrupt-controller", {"intel,ce4100-ioapic"}, 5)
Poweroff == Node("poweroff", {"syscon-poweroff"}, 6)
Reboot == Node("reboot", {"syscon-reboot"}, 6) @@ [value |-> <<1>>]
Bridge == Node("pcie", {"pci-host-ecam-generic"}, 8) @@ [bus_range |-> <<0, 3>>]
Windowed(ranges) == Bridge @@ [ranges |-> ranges]
Serial ==
    Node("serial", {"ns16550a"}, 2)
      @@ [interrupts |-> <<4, 1>>, reg_shift |-> <<2>>, reg_io_width |-> <<4>>, clock_frequency |-> <<1>>]
Virtio == Node("virtio_mmio", {"virtio,mmio"}, 3) @@ [interrupts |-> <<5, 1>>]
Required == <<Lapic, Ioapic, Poweroff>>

Cpu(apic) == [name |-> "cpu", reg |-> <<R(apic, 0)>>]
Memory(ranges) == [name |-> "memory", reg |-> ranges]
In(n, domain) == n @@ [numa_node_id |-> <<domain>>]
Repeat(n, count) == [i \in 1..count |-> n]
Without(n, p) == [q \in DOMAIN n \ {p} |-> n[q]]
Set(n, p, v) == [q \in DOMAIN n \cup {p} |-> IF q = p THEN v ELSE n[q]]

Machine(cpus, nodes) == [cells |-> TRUE, cpus |-> cpus, nodes |-> nodes]
Console(t, n, baud) == t @@ [stdout |-> [node |-> n, baud |-> baud]]
Matrix(triples) == [distance_map |-> [distance_matrix |-> [whole |-> TRUE, triples |-> triples]]]

\* Machines whose parts are as they should be, up to the limits and one over.
CpuLists == {[i \in 1..n |-> Cpu(b + i)] : n \in 1..5, b \in {0, 2}}
              \cup {<<Cpu(0), Set(Cpu(3), "status", s)>> : s \in {"okay", "disabled", "reserved", "fail", "fail-sss"}}
BridgeLists == {<<>>, <<Bridge>>, <<Windowed(<<W(3, 9, 4)>>), Set(Bridge, "reg", <<R(0, 2)>>)>>,
                <<Windowed(<<W(2, 3, 2), W(3, 9, 6), W(1, 0, 1), W(2, 0, 7)>>)>>, Repeat(Bridge, 3)}
Devices == {<<>>, <<Serial>>, <<Virtio, Serial, Virtio>>, <<Reboot>> \o Repeat(Virtio, 3) \o Repeat(Ioapic, 2)}
Sound == {Machine(c, Required \o b \o d) : c \in CpuLists, b \in BridgeLists, d \in Devices}
Consoles == {Console(Machine(<<Cpu(0)>>, Required \o b \o <<Serial>>), <<n>>, r) :
               b \in BridgeLists, n \in {Serial, Set(Serial, "reg", <<R(7, 1)>>), Set(Serial, "current_speed", <<9600>>)},
               r \in {<<>>, <<115200>>}}

\* Tags on cpus and memory, with and without distances.
Tags == {<<>>, <<0>>, <<5>>, <<6>>, <<7>>, <<0, 1>>}
Tag(n, t) == IF t = <<>> THEN n ELSE Set(n, "numa_node_id", t)
Maps == {<<>>, [distance_map |-> <<>>]}
          \cup {Matrix(m) : m \in {<<>>, <<D(0, 5, 30)>>, <<D(0, 5, 30), D(5, 0, 30), D(5, 5, 10), D(0, 6, 12)>>,
                                   <<D(0, 5, 30), D(5, 0, 31)>>, <<D(0, 4, 30)>>, <<D(0, 0, 11)>>, <<D(0, 5, 9)>>,
                                   <<D(0, 5, 255)>>, <<D(5, 6, 256)>>}}
          \cup {[distance_map |-> [distance_matrix |-> [whole |-> FALSE, triples |-> <<D(0, 5, 30)>>]]]}
NumaTrees == {Machine(<<Tag(Cpu(0), s), Tag(Cpu(3), t)>>,
                 Required \o <<Tag(Memory(<<R(0, 4), R(8, 4)>>), u), Tag(Memory(m), v)>>) @@ d :
           s \in Tags, t \in Tags, u \in Tags, v \in {<<0>>, <<6>>, <<>>}, m \in {<<>>, <<R(4, 4)>>}, d \in Maps}
DomainLimit == {Machine(<<In(Cpu(0), 0), In(Cpu(1), 1), In(Cpu(2), 2)>>, Required \o <<In(Memory(<<R(0, 4)>>), d)>>) : d \in 0..3}
Hot == {Machine(<<In(Cpu(0), 0)>>, Required \o <<Set(h, "status", s)>>) :
          h \in {In(Memory(<<R(0, 4)>>), 0), In(Memory(<<R(0, 4)>>), 0) @@ [hotpluggable |-> <<>>]},
          s \in {"okay", "disabled", "reserved", "fail", "odd"}}
         \cup {Machine(<<In(Cpu(0), 0), Set(In(Cpu(3), 0), "status", s)>>, Required) : s \in {"disabled", "reserved", "fail-sss"}}

\* One fault each.
Base == Machine(<<Cpu(0)>>, Required \o <<Bridge, Serial, Virtio, Reboot>>)
Faulty(n) ==
    {Without(n, p) : p \in DOMAIN n \ {"name"}}
      \cup {Set(n, "reg", r) : r \in {<<>>, <<R(8, 1)>>, <<R(12, 4)>>, <<R(15, 0)>>}}
      \cup {Set(n, "compatible", Garbled)}
      \cup {Set(n, p, v) : p \in DOMAIN n \cap {"interrupts", "value", "bus_range", "reg_shift", "reg_io_width"},
                           v \in {<<>>, <<4>>, <<2, 1>>, <<1, 4>>, <<1, 2, 1>>, <<3>>}}
Faults == {[Base EXCEPT !.nodes[i] = n] : i \in DOMAIN Base.nodes, n \in UNION {Faulty(Base.nodes[j]) : j \in DOMAIN Base.nodes}}
CpuFaults == {[Base EXCEPT !.cpus = c] : c \in {<<>>, <<[name |-> "idle-states"]>>, <<[name |-> "idle-states"], Cpu(0)>>}
                \cup {<<n>> : n \in {Without(Cpu(0), "reg"), Set(Cpu(0), "reg", <<>>), Cpu(8), Set(Cpu(0), "status", "odd"),
                                     Set(Cpu(0), "status", "disabled")}}}
               \cup {[Base EXCEPT !.cells = FALSE], Without(Base, "cpus")}
OtherFaults ==
    {Machine(<<Cpu(0)>>, Required \o d) :
       d \in {Repeat(Virtio, 4), Repeat(Ioapic, 3), Repeat(Bridge, 4), <<Without(Memory(<<>>), "reg")>>,
              <<Windowed(Repeat(W(3, 0, 1), 3))>>, <<Windowed(<<W(3, 9, 7)>>)>>, <<Windowed(<<W(2, 3, 5)>>)>>,
              <<Set(Serial, "numa_node_id", <<0>>)>>, <<Set(Serial, "compatible", {"pl011"}), Serial>>}}
      \cup {Console(Base, n, r) : n \in {<<>>, <<Bridge>>, <<Without(Serial, "interrupts")>>,
                                         <<Set(Serial, "current_speed", <<1200>>)>>, <<Set(Serial, "current_speed", <<>>)>>},
                                  r \in {<<>>, <<115200>>, <<300>>}}

\* The working machine, one of its devices lacking one property.
MCIncomplete == {[Base EXCEPT !.nodes[i] = Without(Base.nodes[i], p)] :
                   i \in DOMAIN Base.nodes, p \in UNION {DOMAIN n : n \in Range(Base.nodes)} \ {"name"}}

MCTrees == Sound \cup Consoles \cup NumaTrees \cup DomainLimit \cup Hot \cup Faults \cup CpuFaults \cup OtherFaults
=============================================================================
