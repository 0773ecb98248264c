--------------------------- MODULE TatuBootProofs ---------------------------
(***************************************************************************)
(* Whatever the host's overlay is, for every tree and every maximum: the   *)
(* kernel gets the measured tree, and memory that no measured device uses; *)
(* only an unusable tree is refused, and the e820 map is the tree's.       *)
(***************************************************************************)
EXTENDS TatuBoot, FiniteSetTheorems, TLAPS

\* What a fragment that passed the allowlist can touch: nodes of the host, or
\* numa-node-id.
Harmless(node, base) ==
    \A p \in DOMAIN node :
      \/ Len(p) > 0 /\ p[1].seg \in HostSegs
      \/ p \in DOMAIN base /\ DOMAIN node[p] \subseteq {"numa-node-id"}

\* The tree holds the base as it was measured, and of the host only its nodes
\* and numa-node-id.
Kept(t, base, arch, s) ==
    /\ DOMAIN base \subseteq DOMAIN t
    /\ \A p \in DOMAIN base :
         /\ \A x \in DOMAIN base[p] : x \in DOMAIN t[p] /\ t[p][x] = base[p][x]
         /\ \A x \in DOMAIN t[p] \ DOMAIN base[p] :
              \/ x = "numa-node-id"
              \/ x = "kaslr-seed" /\ p = chosen /\ arch = "aarch64" /\ t[p][x] = s
    /\ \A p \in DOMAIN t \ DOMAIN base : Len(p) > 0 /\ p[1].seg \in HostSegs

Early == {"start", "size", "overlay"}
Late == {"finalize", "chosen", "e820", "kaslr", "kernel"}

BootInv ==
    /\ input \in Input
    /\ pc \in Early \cup Late \cup {"merge", "merged", "halt"}
    /\ at \in 1..(Len(input.overlay) + 1)
    /\ Kept(tree, input.base, input.arch, seed)
    /\ pc \in Early => DOMAIN tree = DOMAIN input.base
    /\ pc = "start" => tree = input.base
    /\ pc = "merge" => \A i \in DOMAIN input.overlay : Harmless(input.overlay[i].node, input.base)
    /\ input.arch = "aarch64" /\ pc \notin {"start", "halt"} => "kaslr-seed" \in DOMAIN tree[chosen]
    /\ pc \in Late => validate_merged(tree, input.paLimit)
    /\ input.arch = "x86_64" /\ pc \in {"e820", "kaslr", "kernel"} => initrd = InitrdOf(tree)
    /\ input.arch = "aarch64" => pc \notin {"chosen", "e820", "kaslr"}
    /\ \A p \in DOMAIN tree : Typed(tree[p])
    /\ todo \subseteq DOMAIN tree /\ (pc \in Early \cup {"merge"} => todo = {})
    /\ seed \in Seed \cup {NoSeed} /\ delta \in Nat
    /\ KaslrStaysInWindow

----------------------------------------------------------------------------
\* The first name of a path, by the node below the root that it is under.
LEMMA FirstName ==
    ASSUME NEW p \in Seq(Name), Len(p) >= 1
    PROVE  Len(SubSeq(p, 1, 1)) = 1 /\ SubSeq(p, 1, 1)[1] = p[1]
  OBVIOUS

\* A fragment that classify_fragment() lets pass is harmless.
LEMMA ClassifyHarmless ==
    ASSUME NEW frag, NEW t, NEW base,
           WellFormed(frag), classify_fragment(frag, t), DOMAIN t = DOMAIN base, <<>> \in DOMAIN base
    PROVE  Harmless(frag.node, base)
<1> DEFINE tgt == frag.target
           node == frag.node
<1> SUFFICES ASSUME NEW p \in DOMAIN node
             PROVE  \/ Len(p) > 0 /\ p[1].seg \in HostSegs
                    \/ p \in DOMAIN base /\ DOMAIN node[p] \subseteq {"numa-node-id"}
    BY DEF Harmless
<1>1. p \in Seq(Name) /\ tgt \in Seq(Name)
    BY DEF WellFormed
<1>2. CASE tgt = <<>>
  <2>1. RootFragment(node)
      BY <1>2 DEF classify_fragment
  <2>2. CASE p = <<>>
      BY <2>1, <2>2 DEF RootFragment
  <2>3. CASE p # <<>>
    <3>1. SubSeq(p, 1, 1) \in children(node, <<>>)
        BY <1>2, <2>3 DEF WellFormed
    <3>2. top_segment(SubSeq(p, 1, 1)) \in HostSegs
        BY <2>1, <3>1 DEF RootFragment, HostSegs
    <3>3. Len(p) >= 1
        BY <1>1, <2>3
    <3> QED BY <1>1, <3>2, <3>3, FirstName DEF top_segment
  <2> QED BY <2>2, <2>3
<1>3. CASE Len(tgt) = 1 /\ tgt[1].seg \in HostSegs
  <2>1. SubSeq(p, 1, 1) = tgt /\ Len(p) >= 1
      BY <1>3 DEF WellFormed
  <2> QED BY <1>1, <1>3, <2>1, FirstName
<1>4. CASE NumaFragment(node, tgt, t)
  <2>1. p = tgt
      BY <1>4 DEF NumaFragment, WellFormed
  <2> QED BY <1>4, <2>1 DEF NumaFragment
<1>5. \/ tgt = <<>>
      \/ Len(tgt) = 1 /\ tgt[1].seg \in HostSegs
      \/ NumaFragment(node, tgt, t)
    BY DEF classify_fragment, HostTarget, Plain, memory_path, HostSegs
<1> QED BY <1>2, <1>3, <1>4, <1>5

\* Merging a harmless fragment keeps the base.
LEMMA GraftKeeps ==
    ASSUME NEW t, NEW node, NEW base, NEW arch, NEW s,
           MeasuredBase(base), Kept(t, base, arch, s), Harmless(node, base)
    PROVE  /\ Kept(Graft(t, node), base, arch, s)
           /\ "kaslr-seed" \in DOMAIN t[chosen] => "kaslr-seed" \in DOMAIN Graft(t, node)[chosen]
<1> DEFINE g == Graft(t, node)
<1>1. DOMAIN g = DOMAIN t \cup DOMAIN node
    BY DEF Graft
<1>2. ASSUME NEW p \in DOMAIN base
      PROVE  /\ DOMAIN t[p] \subseteq DOMAIN g[p]
             /\ \A x \in DOMAIN t[p] : x # "numa-node-id" => g[p][x] = t[p][x]
             /\ \A x \in DOMAIN g[p] \ DOMAIN t[p] : x = "numa-node-id"
  <2>1. p \in DOMAIN t
      BY DEF Kept
  <2>2. CASE p \in DOMAIN node
    <3>1. DOMAIN node[p] \subseteq {"numa-node-id"}
        BY <2>2 DEF Harmless, MeasuredBase
    <3>2. g[p] = Overlaid(t[p], node[p])
        BY <2>1, <2>2 DEF Graft
    <3> QED BY <3>1, <3>2 DEF Overlaid
  <2>3. CASE p \notin DOMAIN node
      BY <2>1, <2>3 DEF Graft
  <2> QED BY <2>2, <2>3
<1>3. DOMAIN base \subseteq DOMAIN g
    BY <1>1 DEF Kept
<1>4. ASSUME NEW p \in DOMAIN base, NEW x \in DOMAIN base[p]
      PROVE  x \in DOMAIN g[p] /\ g[p][x] = base[p][x]
  <2>1. x \in DOMAIN t[p] /\ t[p][x] = base[p][x] /\ x # "numa-node-id"
      BY DEF Kept, MeasuredBase
  <2> QED BY <1>2, <2>1
<1>5. ASSUME NEW p \in DOMAIN base, NEW x \in DOMAIN g[p] \ DOMAIN base[p]
      PROVE  \/ x = "numa-node-id"
             \/ x = "kaslr-seed" /\ p = chosen /\ arch = "aarch64" /\ g[p][x] = s
    BY <1>2 DEF Kept
<1>6. ASSUME NEW p \in DOMAIN g \ DOMAIN base
      PROVE  Len(p) > 0 /\ p[1].seg \in HostSegs
    BY <1>1 DEF Kept, Harmless
<1>7. chosen \in DOMAIN base
    BY DEF MeasuredBase
<1> QED BY ONLY <1>2, <1>3, <1>4, <1>5, <1>6, <1>7 DEF Kept

\* What tatu reads keeps its form.
LEMMA GraftTyped ==
    ASSUME NEW t, NEW node, \A p \in DOMAIN t : Typed(t[p]), \A p \in DOMAIN node : Typed(node[p]),
           NEW p \in DOMAIN Graft(t, node)
    PROVE  Typed(Graft(t, node)[p])
<1>1. p \in DOMAIN t \cup DOMAIN node
    BY DEF Graft
<1>2. CASE p \notin DOMAIN node \/ p \notin DOMAIN t
    BY <1>1, <1>2 DEF Graft
<1>3. CASE p \in DOMAIN node /\ p \in DOMAIN t
  <2>1. Graft(t, node)[p] = Overlaid(t[p], node[p])
      BY <1>3 DEF Graft
  <2>2. Typed(Overlaid(t[p], node[p]))
      BY <1>3 DEF Typed, Overlaid
  <2> QED BY <2>1, <2>2
<1> QED BY <1>2, <1>3

\* The seed is merged where the base has nothing.
LEMMA SeedKeeps ==
    ASSUME NEW base, NEW s, NEW g, MeasuredBase(base),
           g = Graft(base, KaslrOverlay(s))
    PROVE  /\ Kept(g, base, "aarch64", s) /\ DOMAIN g = DOMAIN base /\ "kaslr-seed" \in DOMAIN g[chosen]
           /\ \A p \in DOMAIN g : Typed(g[p])
<1> DEFINE node == KaslrOverlay(s)
<1>1. DOMAIN node = {chosen} /\ chosen \in DOMAIN base
    BY DEF MeasuredBase, KaslrOverlay
<1>2. DOMAIN g = DOMAIN base
    BY <1>1 DEF Graft
<1>3. g[chosen] = Overlaid(base[chosen], [x \in {"kaslr-seed"} |-> s])
    BY <1>1 DEF Graft, KaslrOverlay
<1>4. \A p \in DOMAIN base : p # chosen => g[p] = base[p]
    BY <1>1 DEF Graft
<1>5. "kaslr-seed" \notin DOMAIN base[chosen]
    BY DEF MeasuredBase
<1>6. /\ DOMAIN g[chosen] = DOMAIN base[chosen] \cup {"kaslr-seed"}
      /\ g[chosen]["kaslr-seed"] = s
      /\ \A x \in DOMAIN base[chosen] : g[chosen][x] = base[chosen][x]
    BY <1>3, <1>5 DEF Overlaid
<1>7. Kept(g, base, "aarch64", s)
    BY ONLY <1>1, <1>2, <1>4, <1>6 DEF Kept
<1>8. \A p \in DOMAIN g : Typed(g[p])
  <2>1. \A p \in DOMAIN base : Typed(base[p])
      BY DEF MeasuredBase
  <2>2. \A p \in DOMAIN node : Typed(node[p])
      BY DEF Typed, KaslrOverlay
  <2>3. g = Graft(base, node)
      OBVIOUS
  <2> HIDE DEF node
  <2> QED BY ONLY <2>1, <2>2, <2>3, GraftTyped
<1> QED BY <1>2, <1>6, <1>7, <1>8

\* The measured initrd is the one of the merged tree.
LEMMA InitrdKept ==
    ASSUME NEW t, NEW base, NEW arch, NEW s, MeasuredBase(base), Kept(t, base, arch, s)
    PROVE  InitrdOf(t) = InitrdOf(base)
<1>1. chosen \in DOMAIN base
    BY DEF MeasuredBase
<1>2. \A x \in {"linux,initrd-start", "linux,initrd-end"} :
        /\ x \in DOMAIN t[chosen] <=> x \in DOMAIN base[chosen]
        /\ x \in DOMAIN base[chosen] => t[chosen][x] = base[chosen][x]
    BY <1>1 DEF Kept
<1>3. InitrdGiven(t) <=> InitrdGiven(base)
    BY <1>2 DEF InitrdGiven, read_uint
<1>4. CASE InitrdGiven(base)
    BY <1>2, <1>3, <1>4 DEF InitrdOf, InitrdGiven
<1>5. CASE ~InitrdGiven(base)
    BY <1>3, <1>5 DEF InitrdOf
<1> QED BY <1>4, <1>5

\* Every place the kernel can be moved to is in the window.
LEMMA KaslrFits ==
    ASSUME NEW alloc \in Nat, NEW n \in 0..(KaslrSlots(alloc) - 1)
    PROVE  /\ n * KASLR_ALIGN \in Nat
           /\ n * KASLR_ALIGN # 0 => /\ LOAD_PHYSICAL_ADDR + n * KASLR_ALIGN + alloc <= KERNEL_IMAGE_SIZE
                                     /\ (n * KASLR_ALIGN) % KASLR_ALIGN = 0
<1> DEFINE room == Less(Less(KERNEL_IMAGE_SIZE, alloc), LOAD_PHYSICAL_ADDR)
<1>1. room \in Nat /\ (room = 0 \/ room = KERNEL_IMAGE_SIZE - alloc - LOAD_PHYSICAL_ADDR)
    BY KaslrAssumption DEF Less
<1>2. n \in Nat /\ n <= room \div KASLR_ALIGN
    BY <1>1, KaslrAssumption DEF KaslrSlots
<1> HIDE DEF room
<1>3. (room \div KASLR_ALIGN) * KASLR_ALIGN <= room
    BY <1>1, KaslrAssumption
<1>4. n * KASLR_ALIGN \in Nat /\ n * KASLR_ALIGN <= (room \div KASLR_ALIGN) * KASLR_ALIGN
    BY <1>1, <1>2, KaslrAssumption
<1>5. (n * KASLR_ALIGN) % KASLR_ALIGN = 0
    BY <1>2, KaslrAssumption
<1>6. (room \div KASLR_ALIGN) * KASLR_ALIGN \in Nat
    BY <1>1, KaslrAssumption
<1> QED BY <1>1, <1>3, <1>4, <1>5, <1>6, KaslrAssumption

----------------------------------------------------------------------------
\* A launch starts with the measured tree.
LEMMA BootInit == Init => BootInv
<1> SUFFICES ASSUME Init PROVE BootInv
    OBVIOUS
<1>1. input \in Input /\ tree = input.base /\ pc = "start" /\ at = 1
    BY DEF Init
<1>2. MeasuredBase(input.base) /\ Len(input.overlay) \in Nat
    BY <1>1, InputAssumption
<1>3. Kept(tree, input.base, input.arch, seed)
    BY <1>1 DEF Kept
<1>4. \A p \in DOMAIN tree : Typed(tree[p])
    BY <1>1, <1>2 DEF MeasuredBase
<1> QED BY <1>1, <1>2, <1>3, <1>4 DEF Init, BootInv, Early, Late, KaslrStaysInWindow

\* One step per action.
LEMMA BootStep == BootInv /\ [Next \/ Gone]_bootVars => BootInv'
<1> SUFFICES ASSUME BootInv, [Next \/ Gone]_bootVars PROVE BootInv'
    OBVIOUS
<1> USE DEF Early, Late
<1>0. /\ input \in Input /\ MeasuredBase(input.base) /\ Len(input.overlay) \in Nat
      /\ DOMAIN input.overlay = 1..Len(input.overlay)
      /\ \A i \in DOMAIN input.overlay : WellFormed(input.overlay[i])
      /\ input.arch \in {"x86_64", "aarch64"}
  <2>1. input \in Input
      BY DEF BootInv
  <2> QED BY <2>1, InputAssumption
<1>1. ASSUME NEW message, panic_halt(message) PROVE BootInv'
    BY <1>1 DEF panic_halt, BootInv, KaslrStaysInWindow
<1>2. CASE BadMagic \/ PrepareFails \/ RefuseSize \/ ParseFails \/ RefuseOverlay \/ MergeFails
             \/ RefuseMerged \/ GenerateAcpiFails \/ ReadChosenFails \/ NoEntropy
    BY <1>1, <1>2 DEF BadMagic, PrepareFails, RefuseSize, ParseFails, RefuseOverlay, MergeFails,
                      RefuseMerged, GenerateAcpiFails, ReadChosenFails, NoEntropy
<1>3. CASE PrepareX86
    BY <1>3 DEF PrepareX86, Goto, BootInv, KaslrStaysInWindow
<1>4. CASE PrepareAarch64
  <2>1. tree = input.base
      BY <1>4 DEF PrepareAarch64, BootInv
  <2>2. /\ Kept(tree', input.base, "aarch64", seed') /\ DOMAIN tree' = DOMAIN input.base
        /\ "kaslr-seed" \in DOMAIN tree'[chosen]
        /\ \A p \in DOMAIN tree' : Typed(tree'[p])
    <3>1. PICK s, t : s = seed' /\ t = tree'
        OBVIOUS
    <3>2. t = Graft(input.base, KaslrOverlay(s))
        BY <1>4, <2>1, <3>1 DEF PrepareAarch64
    <3>3. /\ Kept(t, input.base, "aarch64", s) /\ DOMAIN t = DOMAIN input.base
          /\ "kaslr-seed" \in DOMAIN t[chosen]
          /\ \A p \in DOMAIN t : Typed(t[p])
        BY ONLY <1>0, <3>2, SeedKeeps
    <3> QED BY <3>1, <3>3 DEF Kept, Typed
  <2> QED BY <1>4, <2>2 DEF PrepareAarch64, BootInv, KaslrStaysInWindow
<1>5. CASE ParseOverlay
    BY <1>5 DEF ParseOverlay, Goto, BootInv, KaslrStaysInWindow
<1>6. CASE AcceptOverlay
  <2>1. DOMAIN tree = DOMAIN input.base
      BY <1>6 DEF AcceptOverlay, BootInv
  <2>2. \A i \in DOMAIN input.overlay : Harmless(input.overlay[i].node, input.base)
    <3> SUFFICES ASSUME NEW i \in DOMAIN input.overlay PROVE Harmless(input.overlay[i].node, input.base)
        OBVIOUS
    <3>1. classify_fragment(input.overlay[i], tree) /\ WellFormed(input.overlay[i])
        BY <1>0, <1>6 DEF AcceptOverlay, validate_host_dtbo
    <3>2. <<>> \in DOMAIN input.base
        BY <1>0 DEF MeasuredBase
    <3> QED BY ONLY <2>1, <3>1, <3>2, ClassifyHarmless
  <2> QED BY <1>6, <2>2 DEF AcceptOverlay, Goto, BootInv, KaslrStaysInWindow
<1>7. CASE MergeFragment
  <2>1. at \in DOMAIN input.overlay
      BY <1>0, <1>7 DEF MergeFragment, BootInv
  <2>2. Harmless(input.overlay[at].node, input.base) /\ Kept(tree, input.base, input.arch, seed)
      BY <1>7, <2>1 DEF MergeFragment, BootInv
  <2>3. /\ Kept(tree', input.base, input.arch, seed)
        /\ "kaslr-seed" \in DOMAIN tree[chosen] => "kaslr-seed" \in DOMAIN tree'[chosen]
    <3>1. tree' = Graft(tree, input.overlay[at].node)
        BY <1>7 DEF MergeFragment
    <3> QED BY <1>0, <2>2, <3>1, GraftKeeps
  <2>4. \A p \in DOMAIN tree' : Typed(tree'[p])
    <3>1. /\ \A p \in DOMAIN tree : Typed(tree[p])
          /\ \A p \in DOMAIN input.overlay[at].node : Typed(input.overlay[at].node[p])
        BY <1>0, <2>1 DEF BootInv, WellFormed
    <3>2. PICK t : t = tree'
        OBVIOUS
    <3>3. t = Graft(tree, input.overlay[at].node)
        BY <1>7, <3>2 DEF MergeFragment
    <3>4. \A p \in DOMAIN t : Typed(t[p])
        BY ONLY <3>1, <3>3, GraftTyped
    <3> QED BY <3>2, <3>4 DEF Typed
  <2> QED BY <1>0, <1>7, <2>1, <2>3, <2>4 DEF MergeFragment, BootInv, KaslrStaysInWindow
<1>8. CASE Merged
    BY <1>8 DEF Merged, Goto, BootInv, KaslrStaysInWindow
<1>9. CASE AcceptMerged
    BY <1>9 DEF AcceptMerged, Goto, BootInv, KaslrStaysInWindow
<1>10. CASE FinalizeAarch64
    BY <1>10 DEF FinalizeAarch64, Goto, BootInv, KaslrStaysInWindow
<1>11. CASE GenerateAcpi
    BY <1>11 DEF GenerateAcpi, Goto, BootInv, KaslrStaysInWindow
<1>12. CASE ReadChosen
  <2>1. E820Nodes(tree) \subseteq DOMAIN tree
      BY DEF E820Nodes, MemoryNodes, ReservedNodes, EcamNodes, TopNodes
  <2> QED BY <1>12, <2>1 DEF ReadChosen, BootInv, KaslrStaysInWindow
<1>13. CASE ExtractE820
    BY <1>1, <1>13 DEF ExtractE820, AppendReg, BootInv, KaslrStaysInWindow
<1>14. CASE E820Done
    BY <1>14 DEF E820Done, Goto, BootInv, KaslrStaysInWindow
<1>15. CASE StayPut
    BY <1>15 DEF StayPut, Goto, BootInv, KaslrStaysInWindow
<1>16. CASE ApplyKaslr
  <2>1. PICK n \in 0..(KaslrSlots(input.alloc) - 1) : delta' = n * KASLR_ALIGN
      BY <1>16 DEF ApplyKaslr
  <2>2. input.alloc \in Nat
      BY <1>0, InputAssumption
  <2>3. /\ n * KASLR_ALIGN \in Nat
        /\ n * KASLR_ALIGN # 0 => /\ LOAD_PHYSICAL_ADDR + n * KASLR_ALIGN + input.alloc <= KERNEL_IMAGE_SIZE
                                  /\ (n * KASLR_ALIGN) % KASLR_ALIGN = 0
      BY <2>1, <2>2, KaslrFits
  <2>4. KaslrStaysInWindow'
      BY <1>16, <2>1, <2>3 DEF ApplyKaslr, KaslrStaysInWindow
  <2> QED BY <1>16, <2>1, <2>3, <2>4 DEF ApplyKaslr, BootInv
<1>17. CASE UNCHANGED bootVars
    BY <1>17 DEF bootVars, BootInv, KaslrStaysInWindow
<1> QED BY <1>2, <1>3, <1>4, <1>5, <1>6, <1>7, <1>8, <1>9, <1>10, <1>11, <1>12, <1>13, <1>14, <1>15,
           <1>16, <1>17 DEF Next, Gone

\* Whatever the overlay of the host, the kernel sees the tree arma measured, the
\* seed the guest drew, and of the host its own nodes and numa-node-id.
THEOREM MeasuredTree == Spec => []MeasuredTreeReachesKernel
<1>1. BootInv => MeasuredTreeReachesKernel
  <2> SUFFICES ASSUME BootInv, pc = "kernel" PROVE MeasuredTreeReachesKernel
      BY DEF MeasuredTreeReachesKernel
  <2>1. MeasuredBase(input.base)
      BY InputAssumption DEF BootInv
  <2>2. Kept(tree, input.base, input.arch, seed)
      BY DEF BootInv
  <2>3. InitrdOf(tree) = InitrdOf(input.base)
      BY <2>1, <2>2, InitrdKept
  <2>4. input.arch = "x86_64" => initrd = InitrdOf(input.base)
      BY <2>3 DEF BootInv
  <2>5. input.arch = "aarch64" => "kaslr-seed" \in DOMAIN tree[chosen]
      BY DEF BootInv
  <2> QED BY <2>2, <2>4, <2>5 DEF Kept, MeasuredTreeReachesKernel
<1> QED BY <1>1, BootInit, BootStep, PTL DEF Spec

----------------------------------------------------------------------------
\* The regions of a typed tree are regions.
LEMMA RegionsTyped ==
    ASSUME NEW t, NEW nodes, nodes \subseteq DOMAIN t, \A p \in DOMAIN t : Typed(t[p]),
           NEW r \in Regions(t, nodes)
    PROVE  r \in Region
<1>1. PICK s \in Slots(t, nodes) : r = RegionAt(t, s)
    BY DEF Regions
<1>2. PICK p \in nodes : /\ Has(t, p, "reg")
                          /\ \E i \in DOMAIN t[p]["reg"].regions : s = <<p, i>>
    BY <1>1 DEF Slots
<1>3. PICK i \in DOMAIN t[p]["reg"].regions : s = <<p, i>>
    BY <1>2
<1>4. t[p]["reg"].regions \in Seq(Region)
    BY <1>2 DEF Typed, Has
<1> QED BY <1>1, <1>3, <1>4 DEF RegionAt

\* A device of the base is a device of the tree that holds the base, with the
\* same regions.
LEMMA DevicesKept ==
    ASSUME NEW t, NEW base, NEW arch, NEW s, Kept(t, base, arch, s),
           NEW r \in Regions(base, DeviceNodes(base))
    PROVE  r \in Regions(t, DeviceNodes(t))
<1>1. PICK slot \in Slots(base, DeviceNodes(base)) : r = RegionAt(base, slot)
    BY DEF Regions
<1>2. PICK p \in DeviceNodes(base) : /\ Has(base, p, "reg")
                                      /\ \E i \in DOMAIN base[p]["reg"].regions : slot = <<p, i>>
    BY <1>1 DEF Slots
<1>3. p \in DOMAIN base /\ p \in DOMAIN t /\ p \in DeviceNodes(t)
    BY <1>2 DEF DeviceNodes, TopNodes, MemoryNodes, CpusNodes, Kept
<1>4. Has(t, p, "reg") /\ t[p]["reg"] = base[p]["reg"]
    BY <1>2, <1>3 DEF Kept, Has
<1>5. slot \in Slots(t, DeviceNodes(t)) /\ r = RegionAt(t, slot)
    BY <1>1, <1>2, <1>3, <1>4 DEF Slots, RegionAt
<1> QED BY <1>5 DEF Regions

\* What passes the checks by its ends passes by its bytes.
LEMMA Apart ==
    ASSUME NEW a \in Region, NEW b \in Region, Ends(a), Ends(b), ~regions_overlap(a, b)
    PROVE  Bytes(a) \cap Bytes(b) = {}
  BY MaximaAssumption DEF Region, Ends, end, regions_overlap, Bytes

\* The kernel is entered with memory that the machine can address and that no
\* measured device uses, and with its mailboxes in that memory.
THEOREM HandoffSound == Spec => []HandoffIsSound
<1>1. BootInv => HandoffIsSound
  <2> SUFFICES ASSUME BootInv, pc = "kernel" PROVE HandoffIsSound
      BY DEF HandoffIsSound
  <2> DEFINE mem == Regions(tree, MemoryNodes(tree))
             dev == Regions(tree, DeviceNodes(tree))
  <2>1. /\ validate_merged(tree, input.paLimit) /\ \A p \in DOMAIN tree : Typed(tree[p])
        /\ Kept(tree, input.base, input.arch, seed) /\ input.paLimit \in Nat
    <3>1. input \in Input /\ pc \in Late
        BY DEF BootInv, Late
    <3> QED BY <3>1, InputAssumption DEF BootInv
  <2>2. ASSUME NEW r, r \in mem \/ r \in dev
        PROVE  r \in Region /\ Ends(r) /\ end(r) <= input.paLimit
    <3>1. MemoryNodes(tree) \subseteq DOMAIN tree /\ DeviceNodes(tree) \subseteq DOMAIN tree
        BY DEF MemoryNodes, DeviceNodes, TopNodes
    <3>2. r \in Region
        BY ONLY <2>1, <2>2, <3>1, RegionsTyped
    <3>3. validate_region(r, input.paLimit)
        BY <2>1, <2>2 DEF validate_merged, extract_regs
    <3> QED BY <3>2, <3>3 DEF validate_region
  <2>3. Ram \subseteq 0..(input.paLimit - 1)
    <3> SUFFICES ASSUME NEW r \in mem, NEW b \in Bytes(r) PROVE b \in 0..(input.paLimit - 1)
        BY DEF Ram, BytesOf
    <3>1. r \in Region /\ end(r) <= input.paLimit
        BY <2>2
    <3> QED BY <2>1, <3>1, MaximaAssumption DEF Bytes, Region, end
  <2>4. Ram \cap BytesOf(input.base, DeviceNodes(input.base)) = {}
    <3> SUFFICES ASSUME NEW m \in mem, NEW d \in Regions(input.base, DeviceNodes(input.base))
                 PROVE  Bytes(m) \cap Bytes(d) = {}
        BY DEF Ram, BytesOf
    <3>1. d \in dev
        BY ONLY <2>1, DevicesKept
    <3>2. ~regions_overlap(m, d)
        BY <2>1, <3>1 DEF validate_merged, semantic_overlap_checks
    <3>3. m \in Region /\ Ends(m) /\ d \in Region /\ Ends(d)
        BY <2>2, <3>1
    <3> QED BY ONLY <3>2, <3>3, Apart
  <2>5. ASSUME NEW p \in CpuNodes(tree), Has(tree, p, "cpu-release-addr")
        PROVE  Bytes(ReleaseTarget(tree[p]["cpu-release-addr"])) \subseteq Ram
    <3> DEFINE target == ReleaseTarget(tree[p]["cpu-release-addr"])
    <3>1. ReleaseAllowed(tree, target)
        BY <2>1, <2>5 DEF validate_merged, validate_cpu_release_addrs
    <3>2. PICK m \in mem : region_contains(m, target)
        BY <3>1 DEF ReleaseAllowed
    <3>3. m \in Region
        BY <2>2
    <3>4. target.gpa \in Nat /\ target.size \in Nat
      <4>1. p \in DOMAIN tree /\ "cpu-release-addr" \in DOMAIN tree[p]
          BY <2>5 DEF CpuNodes, Has
      <4>2. tree[p]["cpu-release-addr"] \in Number
          BY <2>1, <4>1 DEF Typed
      <4> QED BY <4>2, MaximaAssumption DEF Number, ReleaseTarget
    <3> HIDE DEF target
    <3>5. Bytes(target) \subseteq Bytes(m)
        BY <3>2, <3>3, <3>4, MaximaAssumption DEF Bytes, region_contains, end, Region
    <3>6. Bytes(m) \subseteq Ram
        BY DEF Ram, BytesOf
    <3> QED BY <3>5, <3>6 DEF target
  <2>6. Cardinality(CpuNodes(tree)) <= MAX_CPUS /\ Cardinality(Slots(tree, MemoryNodes(tree))) <= MAX_MEMORY_REGIONS
      BY <2>1 DEF validate_merged, count_cpus, extract_regs
  <2> QED BY <2>3, <2>4, <2>5, <2>6 DEF HandoffIsSound
<1> QED BY <1>1, BootInit, BootStep, PTL DEF Spec

\* Whatever the size of the kernel, it stays in the window its page tables cover.
THEOREM KaslrInWindow == Spec => []KaslrStaysInWindow
<1>1. BootInv => KaslrStaysInWindow
    BY DEF BootInv
<1> QED BY <1>1, BootInit, BootStep, PTL DEF Spec

\* The steps of rust_main keep its state in form: above all, whatever is merged,
\* the tree has each node of the base.
THEOREM TatuTypeCorrect == Spec => []TatuTypeOK
<1>1. BootInv => TatuTypeOK
    BY DEF BootInv, TatuTypeOK, Early, Late, Kept
<1> QED BY <1>1, BootInit, BootStep, PTL DEF Spec

----------------------------------------------------------------------------
(***************************************************************************)
(* What validate_merged() refuses.  Bytes of a region against its ends.    *)
(***************************************************************************)
\* A region with bytes, all below the limit, passes validate_region().
LEMMA ByItsBytes ==
    ASSUME NEW r, r.gpa \in Nat, r.size \in Nat, NEW limit \in 0..(U64 - 1),
           Bytes(r) # {}, Bytes(r) \subseteq 0..(limit - 1)
    PROVE  validate_region(r, limit) /\ r.gpa \in Bytes(r)
<1>1. PICK b : b \in Bytes(r)
    OBVIOUS
<1>2. r.gpa <= b /\ b <= end(r) - 1 /\ b \in Int
    BY <1>1 DEF Bytes, end
<1>3. r.size # 0 /\ end(r) - 1 \in Bytes(r) /\ r.gpa \in Bytes(r)
    BY <1>2 DEF Bytes, end
<1>4. end(r) - 1 <= limit - 1
    BY <1>3
<1>5. end(r) \in Nat /\ U64 \in Nat
    BY MaximaAssumption DEF end
<1> QED BY <1>3, <1>4, <1>5 DEF validate_region, Ends

\* Regions without a common byte do not overlap.
LEMMA NoCommonByte ==
    ASSUME NEW a, NEW b, a.gpa \in Nat, a.size \in Nat, b.gpa \in Nat, b.size \in Nat,
           Ends(a), Ends(b), a.size # 0, b.size # 0, Bytes(a) \cap Bytes(b) = {}
    PROVE  ~regions_overlap(a, b)
<1> SUFFICES ASSUME a.gpa < end(b), b.gpa < end(a) PROVE FALSE
    BY DEF regions_overlap
<1>1. CASE a.gpa <= b.gpa
  <2>1. b.gpa \in Bytes(a) /\ b.gpa \in Bytes(b)
      BY <1>1 DEF Bytes, end
  <2> QED BY <2>1
<1>2. CASE b.gpa < a.gpa
  <2>1. a.gpa \in Bytes(a) /\ a.gpa \in Bytes(b)
      BY <1>2 DEF Bytes, end
  <2> QED BY <2>1
<1> QED BY <1>1, <1>2

\* A tree that the kernel could use passes every check of validate_merged().
LEMMA UsablePasses ==
    ASSUME input.paLimit \in 0..(U64 - 1), \A p \in DOMAIN tree : Typed(tree[p]), Usable(tree)
    PROVE  validate_merged(tree, input.paLimit)
<1> DEFINE mem == Regions(tree, MemoryNodes(tree))
           dev == Regions(tree, DeviceNodes(tree))
<1>1. MemoryNodes(tree) \subseteq DOMAIN tree /\ DeviceNodes(tree) \subseteq DOMAIN tree
    BY DEF MemoryNodes, DeviceNodes, TopNodes
<1>2. ASSUME NEW r, r \in mem \/ r \in dev
      PROVE  r \in Region /\ validate_region(r, input.paLimit) /\ Bytes(r) # {}
  <2>1. r \in Region
      BY <1>1, <1>2, RegionsTyped
  <2>2. Bytes(r) # {} /\ Bytes(r) \subseteq 0..(input.paLimit - 1)
      BY <1>2 DEF Usable
  <2>3. r.gpa \in Nat /\ r.size \in Nat
      BY <2>1, MaximaAssumption DEF Region
  <2> QED BY <2>1, <2>2, <2>3, ByItsBytes
<1>3. \A r \in mem \cup dev : r.gpa \in Nat /\ r.size \in Nat /\ r.size # 0 /\ Ends(r)
    BY <1>2, MaximaAssumption DEF Region, validate_region
<1>4. \A m \in mem, d \in dev : Bytes(m) \cap Bytes(d) = {}
    BY DEF Usable, BytesOf
<1>5. semantic_overlap_checks(tree)
    BY <1>3, <1>4, NoCommonByte DEF semantic_overlap_checks
<1>6. ASSUME NEW p \in CpuNodes(tree), Has(tree, p, "cpu-release-addr")
      PROVE  LET v == tree[p]["cpu-release-addr"]
             IN  /\ parse_release_addr(v)
                 /\ validate_region(ReleaseTarget(v), input.paLimit)
                 /\ ReleaseAllowed(tree, ReleaseTarget(v))
  <2> DEFINE v == tree[p]["cpu-release-addr"]
             target == ReleaseTarget(v)
  <2>1. v \in Number
    <3>1. p \in DOMAIN tree /\ "cpu-release-addr" \in DOMAIN tree[p]
        BY <1>6 DEF CpuNodes, Has
    <3> QED BY <3>1 DEF Typed
  <2>2. target.gpa \in Nat /\ target.size = 8
      BY <2>1, MaximaAssumption DEF Number, ReleaseTarget
  <2>3. v.bytes \in {4, 8}
      BY <1>6 DEF Usable
  <2>4. PICK m \in mem : Bytes(target) \subseteq Bytes(m)
      BY <1>6 DEF Usable
  <2> HIDE DEF target, v
  <2>5. target.gpa \in Bytes(target) /\ end(target) - 1 \in Bytes(target) /\ end(target) \in Nat
      BY <2>2 DEF Bytes, end
  <2>6. target.gpa \in Bytes(m) /\ end(target) - 1 \in Bytes(m)
      BY <2>4, <2>5
  <2>7. m.gpa <= target.gpa /\ end(target) <= end(m) /\ end(m) \in Nat
      BY <1>3, <2>2, <2>5, <2>6 DEF Bytes, end
  <2>8. Ends(m) /\ end(m) <= input.paLimit /\ U64 \in Nat
      BY <1>2, MaximaAssumption DEF validate_region
  <2>9. Ends(target) /\ validate_region(target, input.paLimit) /\ region_contains(m, target)
      BY <2>2, <2>5, <2>7, <2>8 DEF Ends, validate_region, region_contains
  <2>10. \A d \in dev : ~regions_overlap(target, d)
    <3> SUFFICES ASSUME NEW d \in dev PROVE ~regions_overlap(target, d)
        OBVIOUS
    <3>1. Bytes(target) \cap Bytes(d) = {}
        BY <1>4, <2>4
    <3>2. d.gpa \in Nat /\ d.size \in Nat /\ d.size # 0 /\ Ends(d)
        BY <1>3
    <3>3. target.size \in Nat /\ target.size # 0
        BY <2>2
    <3> QED BY <2>2, <2>9, <3>1, <3>2, <3>3, NoCommonByte
  <2>11. ReleaseAllowed(tree, target)
      BY <2>9, <2>10 DEF ReleaseAllowed
  <2> QED BY <2>3, <2>9, <2>11 DEF parse_release_addr, target, v
<1>7. validate_cpu_release_addrs(tree, input.paLimit)
    BY <1>6 DEF validate_cpu_release_addrs
<1>8. /\ extract_regs(tree, MemoryNodes(tree), MAX_MEMORY_REGIONS, input.paLimit)
      /\ extract_regs(tree, DeviceNodes(tree), MAX_DEVICE_RANGES, input.paLimit)
    BY <1>2 DEF extract_regs, Usable
<1> QED BY <1>5, <1>7, <1>8 DEF validate_merged, count_cpus, Usable

\* validate_merged() refuses no machine that the kernel could use, whatever the
\* tree and the width of its addresses.
THEOREM OnlyUnusableIsRefused == Spec => []RefusesOnlyUnusable
<1> DEFINE Refused == pc = "halt" /\ why = "validation" => ~validate_merged(tree, input.paLimit)
<1>1. Init => Refused
    BY DEF Init
<1>2. Refused /\ [Next \/ Gone]_bootVars => Refused'
  <2> SUFFICES ASSUME Refused, [Next \/ Gone]_bootVars, pc' = "halt", why' = "validation"
               PROVE  ~validate_merged(tree, input.paLimit)'
      OBVIOUS
  <2>1. UNCHANGED <<tree, input>> => (validate_merged(tree, input.paLimit)' <=> validate_merged(tree, input.paLimit))
      OBVIOUS
  <2>2. CASE RefuseMerged
    <3>1. UNCHANGED <<tree, input>> /\ ~validate_merged(tree, input.paLimit)
        BY <2>2 DEF RefuseMerged, panic_halt
    <3> QED BY <2>1, <3>1
  <2>3. CASE UNCHANGED bootVars
    <3>1. UNCHANGED <<tree, input, pc, why>>
        BY <2>3 DEF bootVars
    <3> QED BY <2>1, <3>1
  <2>4. RefuseMerged \/ UNCHANGED bootVars
      BY DEF Next, Gone, BadMagic, PrepareX86, PrepareAarch64, PrepareFails, RefuseSize, ParseOverlay, ParseFails,
             AcceptOverlay, RefuseOverlay, MergeFragment, MergeFails, Merged, AcceptMerged, FinalizeAarch64,
             GenerateAcpi, GenerateAcpiFails, ReadChosen, ReadChosenFails, ExtractE820, AppendReg, E820Done,
             StayPut, ApplyKaslr, NoEntropy, panic_halt, Goto
  <2> QED BY <2>2, <2>3, <2>4
<1>3. BootInv /\ Refused => RefusesOnlyUnusable
  <2> SUFFICES ASSUME BootInv, Refused, pc = "halt", why = "validation", Usable(tree) PROVE FALSE
      BY DEF RefusesOnlyUnusable
  <2>1. input \in Input /\ \A p \in DOMAIN tree : Typed(tree[p])
      BY DEF BootInv
  <2>2. input.paLimit \in 0..(U64 - 1)
      BY <2>1, InputAssumption
  <2> QED BY <2>1, <2>2, UsablePasses
<1> QED BY <1>1, <1>2, <1>3, BootInit, BootStep, PTL DEF Spec

----------------------------------------------------------------------------
(***************************************************************************)
(* The e820 map.  Its entries are the workspace of the ACPI tables and one *)
(* per region of the nodes that extract_e820 has reached, as many as they  *)
(* have.  A node named cpus is never taken for a bridge.                   *)
(***************************************************************************)
PlainCpus(t) == \A p \in DOMAIN t : Len(p) = 1 /\ p[1].seg = "cpus" => "compatible" \notin DOMAIN t[p]

TreeInv ==
    /\ IsFiniteSet(DOMAIN tree) /\ PlainCpus(tree)
    /\ pc = "merge" => \A i \in DOMAIN input.overlay : PlainCpus(input.overlay[i].node)

E820Entry == [region : Region \cup {AcpiWorkspace}, kind : {"acpi", "usable", "reserved"}]
AcpiEntry == [region |-> AcpiWorkspace, kind |-> "acpi"]
EntryOf(t, slot) == [region |-> RegionAt(t, slot), kind |-> E820Kind(slot[1])]
Placed == Slots(tree, E820Nodes(tree) \ todo)

MapInv ==
    /\ pc \in {"e820", "kaslr"} \/ (pc = "kernel" /\ input.arch = "x86_64") =>
         /\ e820 \in Seq(E820Entry)
         /\ {e820[i] : i \in DOMAIN e820} = {AcpiEntry} \cup {EntryOf(tree, s) : s \in Placed}
         /\ Len(e820) = 1 + Cardinality(Placed)
         /\ todo \subseteq E820Nodes(tree)
         /\ pc # "e820" => todo = {}
    /\ ValidatedTreeFitsE820

\* The slots of one node: one for each region of its reg.
LEMMA SlotsOfOne ==
    ASSUME NEW t, NEW p, Has(t, p, "reg") => t[p]["reg"].regions \in Seq(Region)
    PROVE  /\ IsFiniteSet(Slots(t, {p}))
           /\ Has(t, p, "reg") => /\ Slots(t, {p}) = {<<p, i>> : i \in 1..Len(t[p]["reg"].regions)}
                                  /\ Cardinality(Slots(t, {p})) = Len(t[p]["reg"].regions)
           /\ ~Has(t, p, "reg") => Slots(t, {p}) = {}
<1>1. CASE ~Has(t, p, "reg")
  <2>1. Slots(t, {p}) = {}
      BY <1>1 DEF Slots
  <2> QED BY <1>1, <2>1, FS_EmptySet
<1>2. CASE Has(t, p, "reg")
  <2>1. PICK n : n = Len(t[p]["reg"].regions)
      OBVIOUS
  <2>2. DOMAIN t[p]["reg"].regions = 1..n /\ n \in Nat
      BY <1>2, <2>1
  <2>3. Slots(t, {p}) = {<<p, i>> : i \in 1..n}
      BY <1>2, <2>2 DEF Slots
  <2> DEFINE T == {<<p, i>> : i \in 1..n}
             f == [i \in 1..n |-> <<p, i>>]
  <2>4. IsFiniteSet(1..n) /\ Cardinality(1..n) = n
    <3>1. 1 \in Int /\ n \in Int /\ (IF 1 > n THEN 0 ELSE n - 1 + 1) = n
        BY <2>2
    <3> QED BY <3>1, FS_Interval
  <2>5. f \in Surjection(1..n, T)
      BY DEF Surjection
  <2>6. f \in Injection(1..n, T)
      BY DEF Injection, IsInjective
  <2>7. IsFiniteSet(T) /\ Cardinality(T) = n
    <3> HIDE DEF T, f
    <3> QED BY <2>4, <2>5, <2>6, FS_Surjection
  <2> QED BY <1>2, <2>1, <2>3, <2>7
<1> QED BY <1>1, <1>2

\* Slots of several nodes.
LEMMA SlotsOfMany ==
    ASSUME NEW t, NEW A, NEW B
    PROVE  /\ Slots(t, A \cup B) = Slots(t, A) \cup Slots(t, B)
           /\ A \subseteq B => Slots(t, A) \subseteq Slots(t, B)
           /\ A \cap B = {} => Slots(t, A) \cap Slots(t, B) = {}
<1>1. ASSUME NEW C, NEW x
      PROVE  x \in Slots(t, C) <=> \E p \in C : Has(t, p, "reg") /\ \E i \in DOMAIN t[p]["reg"].regions : x = <<p, i>>
    BY DEF Slots
<1>2. \A p, i, q, j : <<p, i>> = <<q, j>> => p = q
    OBVIOUS
<1>3. Slots(t, A \cup B) = Slots(t, A) \cup Slots(t, B)
    BY <1>1
<1>4. A \subseteq B => Slots(t, A) \subseteq Slots(t, B)
    BY <1>1
<1>5. A \cap B = {} => Slots(t, A) \cap Slots(t, B) = {}
    BY <1>1, <1>2
<1> QED BY <1>3, <1>4, <1>5

\* A tree with finitely many nodes has finitely many regions.
LEMMA SlotsFinite ==
    ASSUME NEW t, NEW nodes, IsFiniteSet(nodes),
           \A p \in nodes : Has(t, p, "reg") => t[p]["reg"].regions \in Seq(Region)
    PROVE  IsFiniteSet(Slots(t, nodes))
<1> DEFINE f == [p \in nodes |-> Slots(t, {p})]
           T == {f[p] : p \in nodes}
<1>1. f \in Surjection(nodes, T)
    BY DEF Surjection
<1>2. \A S \in T : IsFiniteSet(S)
    BY SlotsOfOne
<1>3. IsFiniteSet(T)
  <2> HIDE DEF f, T
  <2> QED BY <1>1, FS_Surjection
<1>4. IsFiniteSet(UNION T)
  <2> HIDE DEF T
  <2> QED BY <1>2, <1>3, FS_UNION
<1>5. UNION T = Slots(t, nodes)
  <2>1. \A C, x : x \in Slots(t, C) <=> \E p \in C : Has(t, p, "reg") /\ \E i \in DOMAIN t[p]["reg"].regions : x = <<p, i>>
      BY DEF Slots
  <2>2. \A x : x \in UNION T <=> \E p \in nodes : x \in Slots(t, {p})
    <3>1. \A p \in nodes : f[p] = Slots(t, {p})
        OBVIOUS
    <3> HIDE DEF f
    <3>2. ASSUME NEW x \in UNION T PROVE \E p \in nodes : x \in f[p]
      <4>1. PICK S \in T : x \in S
          OBVIOUS
      <4> QED BY <4>1
    <3>3. ASSUME NEW p \in nodes, NEW x \in f[p] PROVE x \in UNION T
      <4>1. f[p] \in T
          OBVIOUS
      <4> HIDE DEF T
      <4> QED BY <4>1
    <3> HIDE DEF T
    <3> QED BY <3>1, <3>2, <3>3
  <2>3. \A x : x \in Slots(t, nodes) <=> \E p \in nodes : x \in Slots(t, {p})
    <3>1. \A x, p : x \in Slots(t, {p}) <=> Has(t, p, "reg") /\ \E i \in DOMAIN t[p]["reg"].regions : x = <<p, i>>
        BY DEF Slots
    <3> QED BY <2>1, <3>1, Zenon
  <2> HIDE DEF T
  <2> QED BY <2>2, <2>3
<1> QED BY <1>4, <1>5

\* A fragment that passed leaves a node named cpus its cells only.
LEMMA ClassifyPlain ==
    ASSUME NEW frag, NEW t, NEW base, MeasuredBase(base),
           WellFormed(frag), classify_fragment(frag, t), DOMAIN t = DOMAIN base
    PROVE  PlainCpus(frag.node)
<1> DEFINE tgt == frag.target
           node == frag.node
<1> SUFFICES ASSUME NEW p \in DOMAIN node, Len(p) = 1, p[1].seg = "cpus"
             PROVE  "compatible" \notin DOMAIN node[p]
    BY DEF PlainCpus
<1>1. p \in Seq(Name) /\ tgt \in Seq(Name) /\ tgt \in DOMAIN node /\ Len(tgt) <= Len(p)
    BY DEF WellFormed
<1>2. CASE tgt = <<>>
  <2>1. RootFragment(node)
      BY <1>2 DEF classify_fragment
  <2>2. p \in children(node, <<>>) /\ top_segment(p) = "cpus"
      BY <1>1, <1>2 DEF children, top_segment
  <2>3. check_cpus_additions(node, p)
      BY <2>1, <2>2 DEF RootFragment
  <2> QED BY <2>3 DEF check_cpus_additions
<1>3. CASE Len(tgt) = 1
  <2>1. SubSeq(p, 1, 1) = tgt
      BY <1>3 DEF WellFormed
  <2>2. p = tgt
      BY <1>1, <1>3, <2>1
  <2>3. CASE tgt = Plain("cpus")
    <3>1. check_cpus_additions(node, p)
        BY <2>2, <2>3 DEF classify_fragment
    <3> QED BY <3>1 DEF check_cpus_additions
  <2>4. CASE tgt # Plain("cpus")
    <3>1. tgt # <<>> /\ tgt # Plain("distance-map") /\ ~memory_path(tgt)
        BY <1>3, <2>2 DEF Plain, memory_path
    <3>2. NumaFragment(node, tgt, t)
        BY <2>4, <3>1 DEF classify_fragment, HostTarget
    <3> QED BY <2>2, <3>2 DEF NumaFragment
  <2> QED BY <2>3, <2>4
<1> QED BY <1>1, <1>2, <1>3

\* Merging keeps the tree finite and its cpus plain.
LEMMA GraftPlain ==
    ASSUME NEW t, NEW node, IsFiniteSet(DOMAIN t), PlainCpus(t), IsFiniteSet(DOMAIN node), PlainCpus(node)
    PROVE  IsFiniteSet(DOMAIN Graft(t, node)) /\ PlainCpus(Graft(t, node))
<1>1. DOMAIN Graft(t, node) = DOMAIN t \cup DOMAIN node
    BY DEF Graft
<1>2. IsFiniteSet(DOMAIN Graft(t, node))
    BY <1>1, FS_Union
<1>3. ASSUME NEW p \in DOMAIN Graft(t, node), Len(p) = 1, p[1].seg = "cpus"
      PROVE  "compatible" \notin DOMAIN Graft(t, node)[p]
  <2>1. CASE p \in DOMAIN t /\ p \in DOMAIN node
    <3>1. Graft(t, node)[p] = Overlaid(t[p], node[p])
        BY <2>1 DEF Graft
    <3>2. DOMAIN Overlaid(t[p], node[p]) = DOMAIN t[p] \cup DOMAIN node[p]
        BY DEF Overlaid
    <3> QED BY <1>3, <2>1, <3>1, <3>2 DEF PlainCpus
  <2>2. CASE ~(p \in DOMAIN t /\ p \in DOMAIN node)
      BY <1>1, <1>3, <2>2 DEF PlainCpus, Graft
  <2> QED BY <2>1, <2>2
<1> QED BY <1>2, <1>3 DEF PlainCpus

\* It starts with no node of the host.
LEMMA TreeInit == Init => TreeInv
<1> SUFFICES ASSUME Init PROVE TreeInv
    OBVIOUS
<1>1. tree = input.base /\ pc = "start" /\ MeasuredBase(input.base)
    BY InputAssumption DEF Init
<1>2. PlainCpus(tree)
    BY <1>1 DEF PlainCpus, MeasuredBase, HostSegs
<1> QED BY <1>1, <1>2 DEF TreeInv, MeasuredBase

\* Whatever is merged, the tree stays finite and a cpus node plain.
LEMMA TreeStep == BootInv /\ TreeInv /\ [Next \/ Gone]_bootVars => TreeInv'
<1> SUFFICES ASSUME BootInv, TreeInv, [Next \/ Gone]_bootVars PROVE TreeInv'
    OBVIOUS
<1>0. /\ input \in Input /\ MeasuredBase(input.base)
      /\ DOMAIN input.overlay = 1..Len(input.overlay)
      /\ \A i \in DOMAIN input.overlay : WellFormed(input.overlay[i])
  <2>1. input \in Input
      BY DEF BootInv
  <2> QED BY <2>1, InputAssumption
<1>1. CASE PrepareAarch64
  <2>1. PICK s : tree' = Graft(tree, KaslrOverlay(s)) /\ pc' = "size"
      BY <1>1 DEF PrepareAarch64
  <2>2. IsFiniteSet(DOMAIN KaslrOverlay(s)) /\ PlainCpus(KaslrOverlay(s))
    <3>1. DOMAIN KaslrOverlay(s) = {chosen} /\ chosen[1].seg = "chosen"
        BY DEF KaslrOverlay, chosen, Plain
    <3> QED BY <3>1, FS_Singleton DEF PlainCpus
  <2>3. IsFiniteSet(DOMAIN Graft(tree, KaslrOverlay(s))) /\ PlainCpus(Graft(tree, KaslrOverlay(s)))
      BY <2>2, GraftPlain DEF TreeInv
  <2>4. IsFiniteSet(DOMAIN tree') /\ PlainCpus(tree')
      BY <2>1, <2>3
  <2> QED BY <2>1, <2>4 DEF TreeInv, PlainCpus
<1>2. CASE AcceptOverlay
  <2>1. DOMAIN tree = DOMAIN input.base /\ UNCHANGED <<tree, input>>
      BY <1>2 DEF AcceptOverlay, BootInv, Early, Goto
  <2>2. \A i \in DOMAIN input.overlay : PlainCpus(input.overlay[i].node)
    <3> SUFFICES ASSUME NEW i \in DOMAIN input.overlay PROVE PlainCpus(input.overlay[i].node)
        OBVIOUS
    <3>1. classify_fragment(input.overlay[i], tree) /\ WellFormed(input.overlay[i])
        BY <1>0, <1>2 DEF AcceptOverlay, validate_host_dtbo
    <3> QED BY ONLY <1>0, <2>1, <3>1, ClassifyPlain
  <2> QED BY <2>1, <2>2 DEF TreeInv, PlainCpus
<1>3. CASE MergeFragment
  <2>1. /\ at \in DOMAIN input.overlay /\ pc = "merge" /\ UNCHANGED <<input, pc>>
        /\ tree' = Graft(tree, input.overlay[at].node)
      BY <1>0, <1>3 DEF MergeFragment, BootInv
  <2>2. PICK node : node = input.overlay[at].node
      OBVIOUS
  <2>3. IsFiniteSet(DOMAIN node) /\ PlainCpus(node)
      BY <1>0, <2>1, <2>2 DEF TreeInv, WellFormed
  <2>4. IsFiniteSet(DOMAIN Graft(tree, node)) /\ PlainCpus(Graft(tree, node))
      BY <2>3, GraftPlain DEF TreeInv
  <2>5. IsFiniteSet(DOMAIN tree') /\ PlainCpus(tree')
      BY <2>1, <2>2, <2>4
  <2> QED BY <2>1, <2>5 DEF TreeInv, PlainCpus
<1>4. CASE UNCHANGED <<tree, input>> /\ (pc' = "merge" => pc = "merge")
    BY <1>4 DEF TreeInv, PlainCpus
<1>5. \/ PrepareAarch64 \/ AcceptOverlay \/ MergeFragment
      \/ UNCHANGED <<tree, input>> /\ (pc' = "merge" => pc = "merge")
    BY DEF Next, Gone, BadMagic, PrepareX86, PrepareFails, RefuseSize, ParseOverlay, ParseFails,
           RefuseOverlay, MergeFails, Merged, AcceptMerged, RefuseMerged, FinalizeAarch64,
           GenerateAcpi, GenerateAcpiFails, ReadChosen, ReadChosenFails, ExtractE820, AppendReg, E820Done,
           StayPut, ApplyKaslr, NoEntropy, panic_halt, Goto, bootVars
<1> QED BY <1>1, <1>2, <1>3, <1>4, <1>5

\* The nodes under /reserved-memory are those of the base, with their regions.
LEMMA ReservedKept ==
    ASSUME NEW t, NEW base, NEW arch, NEW s, Kept(t, base, arch, s)
    PROVE  /\ ReservedNodes(t) = ReservedNodes(base)
           /\ \A p \in ReservedNodes(t) : /\ Has(t, p, "reg") <=> Has(base, p, "reg")
                                          /\ Has(t, p, "reg") => t[p]["reg"] = base[p]["reg"]
           /\ Slots(t, ReservedNodes(t)) = Slots(base, ReservedNodes(base))
<1>1. ReservedNodes(t) = ReservedNodes(base)
    BY DEF ReservedNodes, Kept, HostSegs
<1>2. \A p \in ReservedNodes(t) : /\ Has(t, p, "reg") <=> Has(base, p, "reg")
                                  /\ Has(t, p, "reg") => t[p]["reg"] = base[p]["reg"]
    BY <1>1 DEF ReservedNodes, Kept, Has
<1>3. Slots(t, ReservedNodes(t)) = Slots(base, ReservedNodes(base))
    BY <1>1, <1>2 DEF Slots
<1> QED BY <1>1, <1>2, <1>3

\* The bridges are among the devices that validate_merged() counted.
LEMMA BridgesAreDevices ==
    ASSUME NEW t, PlainCpus(t)
    PROVE  EcamNodes(t) \subseteq DeviceNodes(t)
  BY DEF EcamNodes, DeviceNodes, TopNodes, MemoryNodes, CpusNodes, Ecam, Has, PlainCpus, top_segment

\* All the regions that extract_e820 translates, counted.
LEMMA RoomForAll ==
    ASSUME BootInv, TreeInv, pc = "e820"
    PROVE  /\ IsFiniteSet(Slots(tree, E820Nodes(tree)))
           /\ 1 + Cardinality(Slots(tree, E820Nodes(tree))) <= E820_MAX_ENTRIES
           /\ \A p \in E820Nodes(tree) : Has(tree, p, "reg") =>
                tree[p]["reg"].whole /\ tree[p]["reg"].regions \in Seq(Region)
<1> DEFINE M == MemoryNodes(tree)
           R == ReservedNodes(tree)
           E == EcamNodes(tree)
           D == DeviceNodes(tree)
<1>1. /\ validate_merged(tree, input.paLimit) /\ Kept(tree, input.base, input.arch, seed)
      /\ input \in Input /\ (\A p \in DOMAIN tree : Typed(tree[p])) /\ PlainCpus(tree)
      /\ IsFiniteSet(DOMAIN tree)
    BY DEF BootInv, Late, TreeInv
<1>2. /\ \A p \in M \cup D : Has(tree, p, "reg") => tree[p]["reg"].whole
      /\ Cardinality(Slots(tree, M)) <= MAX_MEMORY_REGIONS
      /\ Cardinality(Slots(tree, D)) <= MAX_DEVICE_RANGES
    BY <1>1 DEF validate_merged, extract_regs
<1>3. /\ \A p \in R : Has(tree, p, "reg") => tree[p]["reg"].whole
      /\ Cardinality(Slots(tree, R)) <= MAX_RESERVED
  <2>1. /\ R = ReservedNodes(input.base)
        /\ \A p \in R : /\ Has(tree, p, "reg") <=> Has(input.base, p, "reg")
                        /\ Has(tree, p, "reg") => tree[p]["reg"] = input.base[p]["reg"]
        /\ Slots(tree, R) = Slots(input.base, ReservedNodes(input.base))
      BY ONLY <1>1, ReservedKept
  <2> QED BY <1>1, <2>1, E820Assumption
<1>4. E \subseteq D
    BY <1>1, BridgesAreDevices
<1>5. M \subseteq DOMAIN tree /\ R \subseteq DOMAIN tree /\ D \subseteq DOMAIN tree
    BY DEF MemoryNodes, ReservedNodes, DeviceNodes, TopNodes
<1>6. E820Nodes(tree) = (M \cup R) \cup E
    BY DEF E820Nodes
<1> HIDE DEF M, R, E, D
<1>7. \A p \in DOMAIN tree : Has(tree, p, "reg") => tree[p]["reg"].regions \in Seq(Region)
    BY <1>1 DEF Typed, Has
<1>8. IsFiniteSet(M) /\ IsFiniteSet(R) /\ IsFiniteSet(D) /\ IsFiniteSet(E)
    BY <1>1, <1>4, <1>5, FS_Subset
<1>9. /\ IsFiniteSet(Slots(tree, M)) /\ IsFiniteSet(Slots(tree, R))
      /\ IsFiniteSet(Slots(tree, D)) /\ IsFiniteSet(Slots(tree, E))
  <2>1. \A N \in SUBSET DOMAIN tree : IsFiniteSet(N) => IsFiniteSet(Slots(tree, N))
      BY <1>7, SlotsFinite
  <2> QED BY <1>4, <1>5, <1>8, <2>1
<1>10. Slots(tree, E) \in SUBSET Slots(tree, D)
    BY <1>4, SlotsOfMany
<1>11. Cardinality(Slots(tree, E)) <= Cardinality(Slots(tree, D))
    BY <1>9, <1>10, FS_Subset
<1>12. Slots(tree, E820Nodes(tree)) = (Slots(tree, M) \cup Slots(tree, R)) \cup Slots(tree, E)
  <2>1. Slots(tree, M \cup R) = Slots(tree, M) \cup Slots(tree, R)
      BY SlotsOfMany
  <2>2. Slots(tree, (M \cup R) \cup E) = Slots(tree, M \cup R) \cup Slots(tree, E)
      BY SlotsOfMany
  <2> QED BY <1>6, <2>1, <2>2
<1>13. ASSUME NEW S, NEW T, IsFiniteSet(S), IsFiniteSet(T)
       PROVE  IsFiniteSet(S \cup T) /\ Cardinality(S \cup T) <= Cardinality(S) + Cardinality(T)
  <2>1. /\ IsFiniteSet(S \cup T) /\ IsFiniteSet(S \cap T)
        /\ Cardinality(S \cup T) = Cardinality(S) + Cardinality(T) - Cardinality(S \cap T)
      BY <1>13, FS_Union, FS_Intersection
  <2>2. Cardinality(S) \in Nat /\ Cardinality(T) \in Nat /\ Cardinality(S \cap T) \in Nat
      BY <1>13, <2>1, FS_CardinalityType
  <2> QED BY <2>1, <2>2
<1>14. /\ IsFiniteSet(Slots(tree, E820Nodes(tree)))
       /\ Cardinality(Slots(tree, E820Nodes(tree)))
            <= Cardinality(Slots(tree, M) \cup Slots(tree, R)) + Cardinality(Slots(tree, E))
       /\ Cardinality(Slots(tree, M) \cup Slots(tree, R))
            <= Cardinality(Slots(tree, M)) + Cardinality(Slots(tree, R))
       /\ IsFiniteSet(Slots(tree, M) \cup Slots(tree, R))
    BY <1>9, <1>12, <1>13
<1>15. /\ Cardinality(Slots(tree, M)) \in Nat /\ Cardinality(Slots(tree, R)) \in Nat
       /\ Cardinality(Slots(tree, D)) \in Nat /\ Cardinality(Slots(tree, E)) \in Nat
       /\ Cardinality(Slots(tree, M) \cup Slots(tree, R)) \in Nat
       /\ Cardinality(Slots(tree, E820Nodes(tree))) \in Nat
    BY <1>9, <1>14, FS_CardinalityType
<1>16. 1 + Cardinality(Slots(tree, E820Nodes(tree))) <= E820_MAX_ENTRIES
    BY <1>2, <1>3, <1>11, <1>14, <1>15, E820Assumption, MaximaAssumption
<1>17. \A p \in E820Nodes(tree) : Has(tree, p, "reg") =>
         tree[p]["reg"].whole /\ tree[p]["reg"].regions \in Seq(Region)
    BY <1>2, <1>3, <1>4, <1>5, <1>6, <1>7
<1> QED BY <1>14, <1>16, <1>17

\* One more node: its regions follow the entries of those before it.
LEMMA AppendExtends ==
    ASSUME BootInv, TreeInv, MapInv, pc = "e820", NEW p \in todo
    PROVE  /\ Fits(p)
           /\ AppendReg(p) => MapInv'
<1> DEFINE E == E820Nodes(tree)
           done == E \ todo
           new == Slots(tree, {p})
           n == Len(RegionsOf(p))
<1>1. /\ e820 \in Seq(E820Entry) /\ todo \subseteq E /\ Placed = Slots(tree, done)
      /\ {e820[i] : i \in DOMAIN e820} = {AcpiEntry} \cup {EntryOf(tree, s) : s \in Placed}
      /\ Len(e820) = 1 + Cardinality(Placed)
    BY DEF MapInv, Placed
<1>2. /\ IsFiniteSet(Slots(tree, E)) /\ 1 + Cardinality(Slots(tree, E)) <= E820_MAX_ENTRIES
      /\ Has(tree, p, "reg") => tree[p]["reg"].whole /\ tree[p]["reg"].regions \in Seq(Region)
    BY <1>1, RoomForAll
<1>3. RegionsOf(p) \in Seq(Region) /\ n \in Nat
    BY <1>2 DEF RegionsOf
<1>4. IsFiniteSet(new) /\ Cardinality(new) = n /\ new = {<<p, i>> : i \in 1..n}
  <2>1. CASE Has(tree, p, "reg")
      BY <1>2, <2>1, SlotsOfOne DEF RegionsOf
  <2>2. CASE ~Has(tree, p, "reg")
    <3>1. new = {} /\ n = 0
        BY <2>2, SlotsOfOne DEF RegionsOf
    <3>2. {<<p, i>> : i \in 1..0} = {}
        OBVIOUS
    <3> QED BY <3>1, <3>2, FS_EmptySet
  <2> QED BY <2>1, <2>2
<1>5. /\ Placed \cap new = {} /\ Placed \in SUBSET Slots(tree, E)
      /\ Placed \cup new \in SUBSET Slots(tree, E)
      /\ Slots(tree, done \cup {p}) = Placed \cup new
  <2>1. done \cap {p} = {} /\ done \cup {p} \subseteq E /\ done \subseteq E
      BY <1>1
  <2>2. Slots(tree, done) \cap Slots(tree, {p}) = {}
      BY <2>1, SlotsOfMany
  <2>3. Slots(tree, done \cup {p}) = Slots(tree, done) \cup Slots(tree, {p})
      BY SlotsOfMany
  <2>4. Slots(tree, done \cup {p}) \subseteq Slots(tree, E) /\ Slots(tree, done) \subseteq Slots(tree, E)
      BY <2>1, SlotsOfMany
  <2> QED BY <1>1, <2>2, <2>3, <2>4
<1> HIDE DEF E, done, new, n
<1>6. /\ IsFiniteSet(Placed) /\ IsFiniteSet(Placed \cup new)
      /\ Cardinality(Placed \cup new) <= Cardinality(Slots(tree, E))
    BY <1>2, <1>5, FS_Subset
<1>7. Cardinality(Placed \cup new) = Cardinality(Placed) + n
  <2>1. Cardinality(Placed \cup new) = Cardinality(Placed) + Cardinality(new) - Cardinality(Placed \cap new)
      BY <1>4, <1>6, FS_Union
  <2>2. Cardinality(Placed \cap new) = 0
      BY <1>5, FS_EmptySet
  <2>3. Cardinality(Placed) \in Nat
      BY <1>6, FS_CardinalityType
  <2> QED BY <1>3, <1>4, <2>1, <2>2, <2>3
<1>8. Cardinality(Placed) \in Nat /\ Cardinality(Slots(tree, E)) \in Nat
    BY <1>2, <1>6, FS_CardinalityType
<1>9. Len(e820) + n <= E820_MAX_ENTRIES
    BY <1>1, <1>2, <1>3, <1>6, <1>7, <1>8, E820Assumption
<1>10. Fits(p)
    BY <1>2, <1>9 DEF Fits, n
<1>11. ASSUME AppendReg(p) PROVE MapInv'
  <2>1. PICK g : g = [i \in 1..n |-> [region |-> RegionsOf(p)[i], kind |-> E820Kind(p)]]
      OBVIOUS
  <2>2. /\ e820' = e820 \o g /\ todo' = todo \ {p} /\ UNCHANGED <<tree, input, pc, why>>
      BY <1>10, <1>11, <2>1 DEF AppendReg, n
  <2>3. g \in Seq(E820Entry) /\ Len(g) = n /\ DOMAIN g = 1..n
    <3>1. \A i \in 1..n : RegionsOf(p)[i] \in Region
        BY <1>3 DEF n
    <3>2. \A i \in 1..n : g[i] \in E820Entry
        BY <2>1, <3>1 DEF E820Entry, E820Kind
    <3> QED BY <1>3, <2>1, <3>2
  <2>4. /\ e820' \in Seq(E820Entry) /\ Len(e820') = Len(e820) + n
        /\ \A i \in 1..Len(e820) : e820'[i] = e820[i]
        /\ \A i \in 1..n : e820'[Len(e820) + i] = g[i]
    <3>1. PICK a, h : a = e820 /\ h = a \o g
        OBVIOUS
    <3>2. a \in Seq(E820Entry) /\ g \in Seq(E820Entry)
        BY <1>1, <2>3, <3>1
    <3>3. /\ a \o g \in Seq(E820Entry) /\ Len(a \o g) = Len(a) + Len(g)
          /\ \A i \in 1..Len(a) : (a \o g)[i] = a[i]
          /\ \A i \in 1..Len(g) : (a \o g)[Len(a) + i] = g[i]
      <4>1. PICK T : T = E820Entry
          OBVIOUS
      <4>2. a \in Seq(T) /\ g \in Seq(T)
          BY <3>2, <4>1
      <4>3. Len(a) \in Nat /\ Len(g) \in Nat
          BY <4>2
      <4>4. /\ a \o g \in Seq(T) /\ Len(a \o g) = Len(a) + Len(g)
            /\ \A i \in 1..Len(a) : (a \o g)[i] = a[i]
            /\ \A i \in 1..Len(g) : (a \o g)[Len(a) + i] = g[i]
          BY ONLY <4>2, <4>3
      <4> QED BY <4>1, <4>4
    <3>4. /\ h \in Seq(E820Entry) /\ Len(h) = Len(e820) + Len(g)
          /\ \A i \in 1..Len(e820) : h[i] = e820[i]
          /\ \A i \in 1..Len(g) : h[Len(e820) + i] = g[i]
        BY ONLY <3>1, <3>3, Zenon
    <3> QED BY <2>2, <2>3, <3>1, <3>4
  <2>5. {e820'[i] : i \in DOMAIN e820'} = {e820[i] : i \in DOMAIN e820} \cup {g[i] : i \in 1..n}
    <3>1. PICK k : k = Len(e820) /\ k \in Nat /\ DOMAIN e820 = 1..k
        BY <1>1
    <3>2. DOMAIN e820' = 1..(k + n)
        BY <2>4, <3>1
    <3>3. \A i \in 1..k : e820'[i] = e820[i] /\ i \in 1..(k + n)
        BY <1>3, <2>4, <3>1
    <3>4. \A i \in 1..n : e820'[k + i] = g[i] /\ k + i \in 1..(k + n)
        BY <1>3, <2>4, <3>1
    <3>5. \A j \in 1..(k + n) : j \in 1..k \/ \E i \in 1..n : j = k + i
      <4> SUFFICES ASSUME NEW j \in 1..(k + n), j \notin 1..k PROVE \E i \in 1..n : j = k + i
          OBVIOUS
      <4>1. j - k \in 1..n /\ j = k + (j - k)
          BY <1>3, <3>1
      <4> QED BY <4>1
    <3>6. PICK A, B, C : /\ A = {e820'[i] : i \in 1..(k + n)} /\ B = {e820[i] : i \in 1..k}
                         /\ C = {g[i] : i \in 1..n}
        OBVIOUS
    <3>7. \A x \in A : x \in B \/ x \in C
        BY <3>3, <3>4, <3>5, <3>6
    <3>8. (\A x \in B : x \in A) /\ (\A x \in C : x \in A)
        BY <3>3, <3>4, <3>6
    <3>9. A = B \cup C
        BY <3>7, <3>8
    <3> QED BY <3>1, <3>2, <3>6, <3>9
  <2>6. {g[i] : i \in 1..n} = {EntryOf(tree, s) : s \in new}
    <3>1. \A i \in 1..n : Has(tree, p, "reg")
        BY <1>3 DEF RegionsOf, n
    <3>2. \A i \in 1..n : g[i] = EntryOf(tree, <<p, i>>)
        BY <2>1, <3>1 DEF EntryOf, RegionAt, RegionsOf
    <3>3. PICK A, B : A = {g[i] : i \in 1..n} /\ B = {EntryOf(tree, s) : s \in new}
        OBVIOUS
    <3>4. \A x \in A : x \in B
        BY <1>4, <3>2, <3>3
    <3>5. \A x \in B : x \in A
        BY <1>4, <3>2, <3>3
    <3> QED BY <3>3, <3>4, <3>5
  <2>7. Placed' = Placed \cup new
    <3>1. E \ (todo \ {p}) = done \cup {p}
        BY <1>1 DEF done
    <3>2. Placed' = Slots(tree, E \ (todo \ {p}))
        BY <2>2 DEF Placed, E
    <3> QED BY <1>5, <3>1, <3>2
  <2>8. {EntryOf(tree, s) : s \in Placed'} = {EntryOf(tree, s) : s \in Placed} \cup {EntryOf(tree, s) : s \in new}
      BY <2>7
  <2>9. {EntryOf(tree, s) : s \in Placed}' = {EntryOf(tree, s) : s \in Placed'}
      BY <2>2
  <2>10. {e820'[i] : i \in DOMAIN e820'} = {AcpiEntry} \cup {EntryOf(tree, s) : s \in Placed}'
      BY <1>1, <2>5, <2>6, <2>8, <2>9
  <2>11. Len(e820') = 1 + Cardinality(Placed')
      BY <1>1, <1>3, <1>7, <1>8, <2>4, <2>7
  <2>12. todo' \subseteq E820Nodes(tree')
      BY <1>1, <2>2 DEF E
  <2> QED BY <2>2, <2>4, <2>10, <2>11, <2>12 DEF MapInv, ValidatedTreeFitsE820, AcpiEntry
<1> QED BY <1>10, <1>11

\* It starts with an empty map.
LEMMA MapInit == Init => MapInv
  BY DEF Init, MapInv, ValidatedTreeFitsE820

\* The map grows with the nodes behind it and is finished with the last one.
LEMMA MapStep == BootInv /\ TreeInv /\ MapInv /\ [Next \/ Gone]_bootVars => MapInv'
<1> SUFFICES ASSUME BootInv, TreeInv, MapInv, [Next \/ Gone]_bootVars PROVE MapInv'
    OBVIOUS
<1>1. CASE ReadChosen
  <2>1. /\ e820' = <<AcpiEntry>> /\ todo' = E820Nodes(tree) /\ UNCHANGED <<tree, input, why>> /\ pc' = "e820"
      BY <1>1 DEF ReadChosen, AcpiEntry
  <2>2. Placed' = {}
      BY <2>1, SlotsOfMany DEF Placed, Slots
  <2>3. e820' \in Seq(E820Entry) /\ Len(e820') = 1 /\ {e820'[i] : i \in DOMAIN e820'} = {AcpiEntry}
    <3>1. PICK e : e = AcpiEntry
        OBVIOUS
    <3>2. e \in E820Entry
        BY <3>1 DEF AcpiEntry, E820Entry
    <3>3. <<e>> \in Seq(E820Entry) /\ Len(<<e>>) = 1 /\ DOMAIN <<e>> = {1} /\ <<e>>[1] = e
        BY <3>2
    <3>4. {<<e>>[i] : i \in {1}} = {e}
        BY <3>3
    <3> QED BY <2>1, <3>1, <3>3, <3>4
  <2>4. Len(e820') = 1 + Cardinality(Placed')
      BY <2>2, <2>3, FS_EmptySet
  <2>5. {EntryOf(tree, s) : s \in Placed}' = {}
      BY <2>2
  <2>6. todo' \subseteq E820Nodes(tree')
      BY <2>1
  <2> QED BY <2>1, <2>3, <2>4, <2>5, <2>6 DEF MapInv, ValidatedTreeFitsE820, AcpiEntry
<1>2. CASE ExtractE820
  <2>1. pc = "e820"
      BY <1>2 DEF ExtractE820
  <2>2. PICK p \in todo : AppendReg(p)
      BY <1>2 DEF ExtractE820
  <2> QED BY <2>1, <2>2, AppendExtends
<1>3. CASE /\ UNCHANGED <<tree, input, e820, todo, why>>
           /\ \/ pc = "e820" /\ todo = {} /\ pc' = "kaslr"
              \/ pc = "kaslr" /\ pc' = "kernel"
              \/ pc' = pc
  <2>1. Placed' = Placed /\ {EntryOf(tree, s) : s \in Placed}' = {EntryOf(tree, s) : s \in Placed}
      BY <1>3 DEF Placed
  <2>2. {e820'[i] : i \in DOMAIN e820'} = {e820[i] : i \in DOMAIN e820} /\ AcpiEntry' = AcpiEntry
      BY <1>3 DEF AcpiEntry
  <2> QED BY <1>3, <2>1, <2>2 DEF MapInv, ValidatedTreeFitsE820
<1>4. CASE /\ ~(pc' \in {"e820", "kaslr"} \/ (pc' = "kernel" /\ input'.arch = "x86_64"))
           /\ ~(pc' = "halt" /\ why' = "e820")
    BY <1>4 DEF MapInv, ValidatedTreeFitsE820
<1>5. \/ ReadChosen \/ ExtractE820
      \/ /\ UNCHANGED <<tree, input, e820, todo, why>>
         /\ \/ pc = "e820" /\ todo = {} /\ pc' = "kaslr"
            \/ pc = "kaslr" /\ pc' = "kernel"
            \/ pc' = pc
      \/ /\ ~(pc' \in {"e820", "kaslr"} \/ (pc' = "kernel" /\ input'.arch = "x86_64"))
         /\ ~(pc' = "halt" /\ why' = "e820")
    BY DEF BootInv, Next, Gone, BadMagic, PrepareX86, PrepareAarch64, PrepareFails, RefuseSize, ParseOverlay,
           ParseFails, AcceptOverlay, RefuseOverlay, MergeFragment, MergeFails, Merged, AcceptMerged,
           RefuseMerged, FinalizeAarch64, GenerateAcpi, GenerateAcpiFails, ReadChosenFails, E820Done,
           StayPut, ApplyKaslr, NoEntropy, panic_halt, Goto, bootVars
<1> QED BY <1>1, <1>2, <1>3, <1>4, <1>5

\* The tree and the map hold together, in every state of a launch.
LEMMA MapInvariance == Spec => [](BootInv /\ TreeInv /\ MapInv)
<1>1. Init => BootInv /\ TreeInv /\ MapInv
    BY BootInit, TreeInit, MapInit
<1>2. BootInv /\ TreeInv /\ MapInv /\ [Next \/ Gone]_bootVars => (BootInv /\ TreeInv /\ MapInv)'
    BY BootStep, TreeStep, MapStep
<1> QED BY <1>1, <1>2, PTL DEF Spec

\* No tree that validate_merged() passed runs out of e820 entries: fill_elf()
\* never halts in extract_e820.
THEOREM ValidatedFits == Spec => []ValidatedTreeFitsE820
<1>1. MapInv => ValidatedTreeFitsE820
    BY DEF MapInv
<1> QED BY <1>1, MapInvariance, PTL

\* The entries, one for each slot of the nodes that are translated.
LEMMA EntriesOfSlots ==
    ASSUME BootInv, MapInv, pc = "kernel", input.arch = "x86_64"
    PROVE  /\ \A i \in DOMAIN e820 : \/ e820[i] = AcpiEntry
                                     \/ \E s \in Slots(tree, E820Nodes(tree)) : e820[i] = EntryOf(tree, s)
           /\ \A s \in Slots(tree, E820Nodes(tree)) : \E i \in DOMAIN e820 : e820[i] = EntryOf(tree, s)
<1>1. /\ {e820[i] : i \in DOMAIN e820} = {AcpiEntry} \cup {EntryOf(tree, s) : s \in Placed}
      /\ todo = {}
    BY DEF MapInv
<1>2. Placed = Slots(tree, E820Nodes(tree))
    BY <1>1 DEF Placed
<1> QED BY <1>1, <1>2

\* A slot of a set of nodes, by its node.
LEMMA SlotNode ==
    ASSUME NEW t, NEW N, NEW s
    PROVE  s \in Slots(t, N) <=> \E p \in N : s \in Slots(t, {p}) /\ s[1] = p
  BY DEF Slots

\* The usable entries are the memory nodes'.
LEMMA UsableIsMemory ==
    ASSUME NEW t, NEW s \in Slots(t, E820Nodes(t))
    PROVE  /\ EntryOf(t, s).kind = "usable" <=> s \in Slots(t, MemoryNodes(t))
           /\ EntryOf(t, s).kind = "reserved" <=> s \notin Slots(t, MemoryNodes(t))
<1>1. PICK p \in E820Nodes(t) : s \in Slots(t, {p}) /\ s[1] = p
    BY SlotNode
<1>2. E820Kind(p) = "usable" <=> p \in MemoryNodes(t)
    BY <1>1 DEF E820Kind, E820Nodes, MemoryNodes, TopNodes, ReservedNodes, EcamNodes
<1>3. p \in MemoryNodes(t) <=> s \in Slots(t, MemoryNodes(t))
  <2>1. s \in Slots(t, MemoryNodes(t)) <=> \E q \in MemoryNodes(t) : s \in Slots(t, {q}) /\ s[1] = q
      BY SlotNode
  <2> QED BY <1>1, <2>1
<1>4. EntryOf(t, s).kind = E820Kind(p) /\ E820Kind(p) \in {"usable", "reserved"}
    BY <1>1 DEF EntryOf, E820Kind
<1> QED BY <1>2, <1>3, <1>4

\* The bridge of the measured tree is a bridge of the merged one, with its window.
LEMMA BridgesKept ==
    ASSUME NEW t, NEW base, NEW arch, NEW sd, Kept(t, base, arch, sd), MeasuredBase(base),
           NEW s \in Slots(base, EcamNodes(base))
    PROVE  /\ s \in Slots(t, EcamNodes(t)) /\ RegionAt(t, s) = RegionAt(base, s)
           /\ s \in Slots(base, DeviceNodes(base))
<1>1. PICK p \in EcamNodes(base) : /\ Has(base, p, "reg")
                                   /\ \E i \in DOMAIN base[p]["reg"].regions : s = <<p, i>>
    BY DEF Slots
<1>2. p \in DOMAIN base /\ p \in DOMAIN t /\ Has(base, p, "compatible") /\ Len(p) = 1
    BY DEF EcamNodes, TopNodes, Ecam, Kept
<1>3. Has(t, p, "reg") /\ t[p]["reg"] = base[p]["reg"] /\ Has(t, p, "compatible") /\ t[p]["compatible"] = base[p]["compatible"]
    BY <1>1, <1>2 DEF Kept, Has
<1>4. p \in EcamNodes(t)
    BY <1>2, <1>3 DEF EcamNodes, TopNodes, Ecam
<1>5. p \in DeviceNodes(base)
  <2>1. p[1].seg \notin HostSegs
      BY <1>2 DEF MeasuredBase
  <2> QED BY <1>2, <2>1 DEF DeviceNodes, TopNodes, MemoryNodes, CpusNodes, HostSegs, top_segment
<1> QED BY <1>1, <1>3, <1>4, <1>5 DEF Slots, RegionAt

\* The kernel of an x86 machine is told of exactly the memory of the merged tree
\* and finds the window of the measured bridge reserved, whatever the host adds.
THEOREM MapIsTheTree == Spec => []E820IsTheMap
<1>1. BootInv /\ MapInv /\ HandoffIsSound => E820IsTheMap
  <2> SUFFICES ASSUME BootInv, MapInv, HandoffIsSound, pc = "kernel", input.arch = "x86_64"
               PROVE  /\ E820Bytes("usable") = Ram
                      /\ \A b \in BytesOf(input.base, EcamNodes(input.base)) :
                           b \in E820Bytes("reserved") /\ b \notin Ram
      BY DEF E820IsTheMap
  <2> DEFINE S == Slots(tree, E820Nodes(tree))
             M == Slots(tree, MemoryNodes(tree))
  <2>1. /\ \A i \in DOMAIN e820 : e820[i] = AcpiEntry \/ \E s \in S : e820[i] = EntryOf(tree, s)
        /\ \A s \in S : \E i \in DOMAIN e820 : e820[i] = EntryOf(tree, s)
      BY EntriesOfSlots
  <2>2. \A s \in S : /\ EntryOf(tree, s).kind = "usable" <=> s \in M
                     /\ EntryOf(tree, s).kind = "reserved" <=> s \notin M
                     /\ EntryOf(tree, s).region = RegionAt(tree, s)
      BY UsableIsMemory DEF EntryOf
  <2>3. M \subseteq S
      BY SlotsOfMany DEF E820Nodes
  <2>4. AcpiEntry.kind = "acpi"
      BY DEF AcpiEntry
  <2>5. ASSUME NEW b PROVE b \in Ram <=> \E s \in M : b \in Bytes(RegionAt(tree, s))
      BY DEF Ram, BytesOf, Regions
  <2>6. ASSUME NEW b, NEW k
        PROVE  b \in E820Bytes(k) <=> \E i \in DOMAIN e820 : e820[i].kind = k /\ b \in Bytes(e820[i].region)
      BY DEF E820Bytes
  <2> HIDE DEF S, M
  <2>7. \A b : b \in E820Bytes("usable") <=> b \in Ram
    <3>1. ASSUME NEW b, b \in E820Bytes("usable") PROVE b \in Ram
      <4>1. PICK i \in DOMAIN e820 : e820[i].kind = "usable" /\ b \in Bytes(e820[i].region)
          BY <2>6, <3>1
      <4>2. PICK s \in S : e820[i] = EntryOf(tree, s)
          BY <2>1, <2>4, <4>1
      <4> QED BY <2>2, <2>5, <4>1, <4>2
    <3>2. ASSUME NEW b, b \in Ram PROVE b \in E820Bytes("usable")
      <4>1. PICK s \in M : b \in Bytes(RegionAt(tree, s))
          BY <2>5, <3>2
      <4>2. PICK i \in DOMAIN e820 : e820[i] = EntryOf(tree, s)
          BY <2>1, <2>3
      <4> QED BY <2>2, <2>3, <2>6, <4>1, <4>2
    <3> QED BY <3>1, <3>2
  <2>8. ASSUME NEW b \in BytesOf(input.base, EcamNodes(input.base))
        PROVE  b \in E820Bytes("reserved") /\ b \notin Ram
    <3>1. PICK s \in Slots(input.base, EcamNodes(input.base)) : b \in Bytes(RegionAt(input.base, s))
        BY DEF BytesOf, Regions
    <3>2. Kept(tree, input.base, input.arch, seed) /\ MeasuredBase(input.base)
      <4>1. input \in Input
          BY DEF BootInv
      <4> QED BY <4>1, InputAssumption DEF BootInv
    <3>3. /\ s \in Slots(tree, EcamNodes(tree)) /\ RegionAt(tree, s) = RegionAt(input.base, s)
          /\ s \in Slots(input.base, DeviceNodes(input.base))
        BY ONLY <3>2, BridgesKept
    <3>4. b \in BytesOf(input.base, DeviceNodes(input.base))
        BY <3>1, <3>3 DEF BytesOf, Regions
    <3>5. b \notin Ram
        BY <3>4 DEF HandoffIsSound
    <3>6. s \in S
        BY <3>3, SlotsOfMany DEF S, E820Nodes
    <3>7. s \notin M
        BY <2>5, <3>1, <3>3, <3>5
    <3>8. PICK i \in DOMAIN e820 : e820[i] = EntryOf(tree, s)
        BY <2>1, <3>6
    <3>9. e820[i].kind = "reserved" /\ b \in Bytes(e820[i].region)
        BY <2>2, <3>1, <3>3, <3>6, <3>7, <3>8
    <3> QED BY <2>6, <3>5, <3>9
  <2>9. E820Bytes("usable") = Ram
    <3>1. PICK A, B : A = E820Bytes("usable") /\ B = Ram
        OBVIOUS
    <3>2. A = B
        BY <2>7, <3>1
    <3> QED BY <3>1, <3>2
  <2> QED BY <2>8, <2>9
<1> QED BY <1>1, MapInvariance, HandoffSound, PTL

============================================================================
