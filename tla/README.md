# Verification of arma

arma builds bootable VM images: `arma build` turns a kernel, an initrd and a
few options into a PMI (a PE file with load addresses) and a base device tree;
`arma check` lints the guest-physical layout of a PMI; `arma cmdline` edits the
command line in a device tree. The image starts with tatu, a bare-metal stub
that validates and merges the host's overlay and enters the kernel. This
directory holds TLA+ models of that code, the TLC configurations that check
them and TLAPS proofs about them. `PROJECT.json` maps every definition to the
lines it models.

## The system

| component | state | operations | what makes it correct |
|---|---|---|---|
| planner (`planner.rs`) | carve-outs, the layout so far, the search cursor | place window, kernel, initrd + bootconfig, relocations, device band | no two regions share a 2 MiB unit, first fit is lowest and total, errors only when there is no room |
| linter (`check.rs`) | sorted region list, problems | sort, scan neighbours, window rules, island rule | every overlap is reported, a clean map has the window invariants |
| assembly (`build.rs`, `pe.rs`) | section list, headers | assemble, emit | what the planner separated stays separated in the file and in the linter's view |
| output files (`fs_ext.rs`, `cmdline.rs`) | destination, temporary file, open descriptors | write, rename, read-modify-write | a reader sees whole files of one build |
| modules (`modules.rs`) | index, depth-first stack | resolve, closure, pack | closed selection, cycles and only cycles rejected |
| kernel input (`kernel.rs`, `kernel_release.rs`) | bytes | unwrap, lower, read relocations and release | the relocations are the ones the kernel build made: moved by them, the kernel is the kernel linked at the new base |
| configuration (`kconfig.rs`, `kernel_cmdline.rs`) | options | slots, ISA floor, bootconfig | the kernel drives the board and reads the command line arma meant |
| initrd (`initrd.rs`) | archive so far | write, validate, wrap an init | archives arma writes are archives it accepts |
| manifest, boot info, base tree | records | build | every loaded section has one action, the addresses agree, no size is cut |
| tatu (`deps/tatu`) | boot step, merged tree | validate, merge, ACPI, e820, KASLR, jump | nothing unvalidated reaches the kernel |
| dtb2acpi (`deps/tatu/deps/dtb2acpi`) | cpu cache, domains, slots, bytes written | count, lay out, emit table by table | sizes counted are bytes written, the tables describe one machine |

Interaction is by calls in one thread, `arma build` from top to bottom of
`run()`, except in two places: several arma processes and readers share the
file system, and the host and the image meet in tatu. The hard behaviours are
arithmetic at the limits of u64 and u32, searches that must terminate,
agreements between passes that walk the same data twice (planner and linter,
band geometry and carving, archive writer and reader, counting and emitting) or
that decide the same question apart (the DTB mode in manifest, sections and
attribute; the kernel's size in arma and in tatu), and interrupted or
concurrent writers. `PROJECT.json` lists them as hazards, each at its line.

## Modules

* `U64` — the width of a u64 for the modules that share it: sums wrap or are refused.
* `Planner` — `Planner::plan`. `pc` names the region to place, `occupied` is
  the carve-out list, `cursor` is `g` in `first_fit`; each turn of that loop is
  a step (`Begin`, `Hop`, `Place`), so what the loop passed over can be stated.
  Checked additions fail above `U64_MAX`, unchecked ones wrap.
* `LayoutCheck` — `run()` of `check.rs` from the region list to the verdict;
  `sort_by_key` is defined by counting, the neighbour pass is one step per pair.
  Sums of base and size are unchecked u64 additions and wrap, as in a release
  build (a debug build panics instead).
* `PlanCheck` — composes the two through what `assemble_sections`, `build_pe`
  and `base_device_regions` do to a range: sizes raised to whole pages, u32
  limits, sections at 0 unseen, the window's buddy added.
* `FileReplace` — the promise of the `AtomicWrite` trait: files change whole.
* `OutputFiles` — `atomic_write` on inodes, temporary and destination paths,
  by processes that run `build`, detached `build` or `cmdline` and may stop at
  any step, with readers. `Exclusive` says whether the user runs one arma at a
  time per output path.
* `ModuleClosure` — `closure()` of `modules.rs`: the stack, `active` and `done`,
  one action per branch of the loop. The orders in which roots and dependencies
  are visited are left open.
* `ModuleSelection` — `build --module` from finding the tree to the files in the
  initrd; the two searches of `resolve()` are steps of `ModuleClosure`. A
  request holds the lines of the two index files (one that `metadata()` cannot
  read begins with a bad line: it fails before its first), what each path is on disk,
  the payloads and the built-in kernel options. `init`, the directories and
  the other fixed entries of the archive are left out, as are the checks on
  the initrd program and the release string.
* `TatuValidate` — the checks of tatu's `validate.rs` as predicates: what an
  overlay of the host may contain and what a merged tree must satisfy. A tree
  is a function from paths to properties.
* `TatuBoot` — `rust_main` and `finalize` on both architectures, one action per
  step and one per way to halt: the seed, the size bound, the allowlist, the
  merge fragment by fragment, the second validation, boot_params and the e820
  map node by node, the KASLR delta. `devtree` is external: parsing may fail,
  and a fragment is laid over the tree (`Graft`).
* `Kaslr` — the slots `apply_kaslr` may choose from, shared by `TatuBoot` and
  `KernelImage`.
* `KernelElf` — what `kernel.rs` reads of an x86 vmlinux: the span of its
  segments, and the relocations, either appended to the file (two lists or
  three, found from the end) or left in `.rela` sections, with the rules for
  absolute and per-CPU symbols. Everything counts 32-bit words.
* `KernelRelease` — the banner of `kernel_release.rs`, by symbol or by scanning,
  and which names may be a release.
* `KernelImage` — a kernel file from the user's disk to the memory it runs in:
  unwrapping (UKI, zboot, bzImage, one compressor's magic per step), lowering
  segment by segment, the table word by word, the release, then the VMM's
  loading and tatu's patching site by site. `Linked(k, d)` is what a linker
  makes of the same references at a base moved by `d`: the reference definition
  the loaded kernel is compared with.
* `KernelConfig` — `kconfig.rs` and `kernel_cmdline.rs`: words and quotes of a
  command line, bootconfig recognition and the kernel's own merging of its
  built-in line, slot inference, ISA floor.
* `Cpio` — newc records by offset, written and read back; compressed inputs.
* `PmiParts` — tatu's sections, boot information, manifest, section list and the
  PE writer's sizes, names and offsets as functions of each other.
* `BuildImage` — `run()` of `build.rs` on those parts, every early return one
  action, the archive, the reader and the file layout one record or section at
  a time; then `arma cmdline` on the detached DTB and a launch. The planner is
  its promise here (lowest free slots).
* `Dtb2Acpi` — the crate with which tatu makes ACPI tables of an x86 guest's
  tree (`AcpiBuffer::populate`). The counting pass is one action per cpu and
  memory node and one for the other devices; `Layout` carves the slots; the
  emitting pass is one action per table, the SLIT one distance at a time. The
  image is the sequence of entries written, with place, length and the fields
  that other tables refer to. Lengths are the code's own constants, written twice
  as in the code: as a sum in the counting pass, entry by entry in the emitter.
* `MC*` — the instances for TLC; `*Proofs` — the theorems.

Definitions named `X_<Change>` before a definition `X` are its mutated forms:
plausible bugs that the named property must catch.

## Runs

| run | expected | question |
|---|---|---|
| `plan_check` | pass | images of both architectures, crowded spaces and searches that reach the last u64: some 6000 plans through section assembly to the linter, and the linter on lists of two and three regions that no plan made, with and without a window |
| `window_is_top` | violation | the window is at 2^(X-1), not where `docs/device-model.md` puts it, and regions lie above or in it |
| `output_files` | pass | two detached builds, an edit and another build, each stopped anywhere |
| `concurrent_writers` | violation | without exclusive use of a path a reader meets a half-written file |
| `module_selection` | pass | every index of up to three lines over two trees, and 3780 combinations of bad lines, ambiguous names, bad files, kernel options and colliding paths |
| `acpi_tables` | pass | 16576 trees: cpus, bridges, consoles and devices up to each limit and one over, all taggings of two cpus and two memory nodes against twelve distance maps, every single fault of a node |
| `counted_tree` | violation | a device without one of its properties passes the counting pass and breaks an emitter (`error.rs` says it cannot) |
| `tatu_boot` | pass | 3 measured trees (and 4 odd ones) on both architectures, overlays of up to two fragments from 39, usual and forbidden, 16 or 32 physical addresses |
| `kernel_image` | pass | kernels with any of eight references, SMP or not, in each encoding and every file order; every wrapper, broken files, banners |
| `build_image` | pass | ten configurations against eleven command lines and slot options, kernels and initrds around every size limit in each DTB mode, malformed initrds and tatus |
| `large_sections` | violation | a section that is raised to 2 MiB keeps the file offset of a small one (`pe.rs` wants it on 2 MiB) |
| `edited_dtb` | violation | a longer command line put in a detached DTB is cut by the size in the PMI (`docs/device-model.md` says no rebuild is needed) |

Bounds. `plan_check` uses granularity 4 and 256 addresses, of which a plan has 4 to
256: searches reach the top of the space, ranges start and end inside a granule, the
band does not fit, the window is too large, tight and loose, and in one family the
space is all of u64 (X = 64 with B = 62), where the linter's sum wraps. One reserved
set has fixed devices at a power of two, as the GIC of aarch64 is, and others sections
on both sides of the middle of the space, one at address 0. Three regions are enough
for the linter's pass, whose steps look at two; among the lists that no plan made
are empty, nested and wrapping regions and ten windows. The proof covers any
length. Two chunks per file make a write divisible; eight inodes are more than
the four processes and the reader can hold.

Up to three lines give the searches self-loops, cycles, diamonds and roots that
are dependencies; the proof covers any number. The four paths of the selection are
a module plain and compressed, one in a directory named like the first, and
another compressed one, so that unpacking makes files collide.

In `tatu_boot` there are 64 addresses, of which the guest has 16 or 32, and the
maxima are 1 cpu, 2 memory and 3 device ranges, 7 e820 entries: one more than
each maximum occurs, regions end at the limit, touch devices on either side,
overflow and are empty; mailboxes begin in memory and end outside. Two fragments
are enough for one to build on what another left. Kernels of 0 to 12 units
against a window of 10 make the slot count saturate.

In `kernel_image` a word has 512 values, a page four words and the image 23
words in three segments with gaps, trailing zeros and a bss: tables have empty
lists, sites lie in per-CPU data, in the zeros that arma trims and at the last
word of the image, and sums wrap. The eight optional references give every
relocation type to moving and absolute symbols in both directions. A third list
is needed only by a kernel with an inverse 32-bit site.

In `build_image` a u32 is at most 255, 2 MiB are 32 units, a page 4 and a
command line 5 tokens with its NUL: kernels of 255, 256 and 300 units, initrds of
255 and 256, section lists whose padding alone passes the limit. 3 and 4 byte
names and data make both paddings of a record empty and not. What the source
calls a 4 GiB section is small here, so that the cuts with `as` in the boot
information happen before the refusal, as in the code.

In `acpi_tables` a byte is at most 3, a u32 7, a u64 15, so that four cpus, three
domains and three devices of a kind are the most a table can number and one more
occurs; ids cross the xAPIC limit by cpu number and by APIC id. A package of
at most 200 bytes (4095 in the code) is passed by a bridge with three windows,
and 1300 bytes of buffer by the larger machines. Distances keep their range up to
255.

Fairness is assumed in `Planner`, `ModuleClosure`, `ModuleSelection`, `TatuBoot`
and `KernelImage`, as `WF_vars` of the whole step, for termination: a single-threaded function keeps
running until it returns.

What the violations show. `plan()` puts the window at 2^(X-1), whatever its size, tests
it against no carve-out and searches above it too. `docs/device-model.md` places it at
`[2^X - 2^(B+1), 2^X - 2^B)` "with nothing emitted above it"; that is so only when
X = B + 2 and everything fits below (`WindowIsTopOfSpace`). The linter follows the
document, so it refuses what else is built, though "every shipped image should pass
it"; `CheckAcceptsPlan` says exactly which plans pass. The GIC distributor of aarch64 is at
2^27: with `--min-addr-space 28` the window is on it. At X = 64 the document's place is
right and the linter still refuses, because 2^64 wraps to 0. Two arma processes with one
output share a temporary file. `arma cmdline` changes the length of the DTB while tatu
reads as many bytes as the build recorded. `pe.rs` wants a section of 2 MiB in memory on
2 MiB in the file, but `is_large_payload` decides before `build_pe` raises the size to
whole pages: data that ends in the last page below 2 MiB becomes a 2 MiB section
aligned as a small one (`LargeSectionsAreAligned`). And the counting pass of `dtb2acpi` does not
look at all that the emitters read: a serial port without `clock-frequency`, `reg-shift` or
`interrupts`, a virtio slot without `interrupts`, a window that passes the end of the
address space, a bridge with more than 4095 bytes of AML or a device numbered 256 fail
in an emitter, where `error.rs`, `lib.rs` and `acpi_buffer.rs` call that unreachable on a
counted tree (`CountedTreeIsWritten`).

What `kernel_image` and `build_image` show. A kernel that boots is the kernel linked at the address
it runs at (`RunningKernelIsRelinked`), whichever encoding arma read and however
much of the image it trimmed; a whole, supported kernel is never refused and
does boot (`SupportedKernelBoots`); the release that selects modules is that of
the memory image (`ReleaseIsTheLoadedOne`). The VMM, tatu and
Linux are told the same of a written PMI: each section in guest memory has one
action, and the boot information and the initrd range point at the sections
(`ImageMatchesManifest`), no field of
the boot information lost bits in a written PMI (`NothingIsTruncated`: the later
refusals make the cuts harmless), file ranges are apart and in the file
(`FileRegionsAreApart`), the kernel can drive the slots it gets, runs on the CPU
profile and looks for the bootconfig that is reserved (`BoardIsDrivable`), and archives arma
writes pass its own reader (`OwnArchiveReads`).

What `acpi_tables` shows. The two passes agree on bytes: an emitter that finds what it
reads fills exactly the slot counted for it, those of the RSDP, FADT, MCFG, SRAT and
XSDT always do (as `mcfg.rs` says of its own), and a finished image has no gap
(`AccountsAgree`). The tables of one image
describe one machine (`TablesAgree`): each cpu is in the MADT once and, with
NUMA, in the SRAT under its own domain, the SLIT is symmetric over those domains
in the order of their rows, each ECAM of the MCFG is reserved and has a bridge
with its buses, and every pointer leads to a table. Of the segment it speaks only
for a machine with one bridge. The SLIT's emitter fails
exactly on distances that contradict each other or that no matrix can hold, and
what it writes is symmetric (`SlitVerdict`).

Seen while modelling, stated by no property: `pci_host.rs` numbers the segments of the
bridges from 0 and says that this matches the MCFG, while `mcfg.rs` always writes 0, so
that from the second bridge on the DSDT and the MCFG contradict each other. arma's own
tree has one bridge. `virtio_mmio.rs` counts on a planner's cap of 16 slots that the planner
does not have.

## Proofs

`PlannerProofs` proves `TypeOK`, `NoSharedUnit`, `DevicesDisjoint`,
`PassedOverSlotsAreTaken` and `RefusesOnlyWhenFull` for all constants under
`SizeAssumption` (the granularity divides the address space) and
`InputAssumption` (alignments are powers of two, here: multiples of the
granularity; reserved ranges and the window end below the last unit; shifts
are in range). The inductive invariant adds to the properties that carve-outs
are whole units, that everything placed is covered by a carve-out, that the
cursor is aligned, and that the regions not yet reached are empty: separation
of units is then separation from carve-outs. A range that ends in the last unit
of the address space is excluded by `FarBelowMax`, as in the comment of
`round_out`, because its rounded end wraps.

`LayoutCheckProofs` proves that `sort_by_key` sorts (ranks are injective and
onto) and that the pass is complete: the invariant says that, with no overlap
reported so far, every region before `at` ends at or before the base of every
later region up to `at`, if its end is a u64; sortedness carries it from neighbours to
all pairs. In a map without problems the window is the lower half of the top pair and
every device and payload ends at or below it (`CleanMapClearsWindow`): `WindowInv` says
that what the window rules find is reported; the rules look at bases only, the ends
follow from the completeness of the pass. Ends that wrap hide what they run into, so
both theorems speak of regions that end in u64. The sum of rule 2 may wrap even so: of
an aligned window it is then 2^64, by `U64Assumption` (powers of two divide 2^64), and
wraps to 0, which the rule reports (`QuietTopIsExact`). These theorems hold of any list;
`OverlapsOfPlansAreSeen` and `CleanPlansAreBelowWindow` of `PlanCheckProofs` carry them to the
composition, where the list is the one a build makes (`Linted`: the linter's invariants
begin to hold with `Emit`).

`PlanCheckProofs` composes the two: `OverlapsAreAtWindow` says, for every input and
every size of the kernel file, that the linter can report an overlap in a planned
image only where the window's buddy has a section or a fixed device in it, or
where a reserved range lies in the window. Beside the planner's invariant it needs
what the planner's own properties did not (`Placed`: payload starts on a granule,
the band ends below 2^(X-1), there is one range of each kind). A section starts with
its range and ends in the last page of it (`SectionCovers`), a device is its range;
so ranges that share no granule give regions that are apart, list by list
(`SectionsHold`, `DevicesHold`), and stay so when they are sorted; the scan then has
nothing else to report (`NeighboursAreApart`). `FarBelowMax`, which the planner's
property takes for granted of a payload, follows from the u32 fields of the section
headers. `PlanCheckAssumption` says that a page divides 2 MiB, that 2^(X-1) is whole
pages, and that tatu's sections (`tatu.ld`) and the fixed devices are nonempty and
apart, the sections in whole pages. The first attempt, with the buddy as the only
exception, failed on a reserved range in the window, as on aarch64 with X = 28.

`CheckAcceptsPlans` then says what the verdict is. `DInv` adds to that invariant that
the list is true to the plan (`Faithful`: each region stands for a range or a device,
and what the image and the tree show has a region, but for a section at address 0),
what `plan()` has settled (`Settled`: the window is there when there are slots, the
band starts with a device on a granule and meets no carve-out), and which rules have
reported (`Found`). Three arguments use it. A window of 2^B at 2^(X-1) ends half-way to a
power of two only for X = B + 2, and the linter's sum is that power unless it is 2^64,
which wraps to 0, no power (`TopIsAPower`, `WindowVerdict`); every section
and fixed device that starts below the window also ends below it, since a carve-out
across 2^(X-1) would meet the band (`BelowIsWhollyBelow`); and the lowest device is the
lowest fixed one or the first of the band, each on 2 MiB (`IslandIsQuiet`). Facts about
all powers of two follow by taking the least shift for which they fail, from
`ShiftAssumption`, that one more bit doubles: the provers do not know what `^` is.
`PlanCheckAssumption` adds for this that 2^(X-1) is whole granules and that the lowest
fixed device starts on one (`GIC_DIST_BASE`, `IOAPIC_BASE`).

`OutputFilesProofs` proves type correctness without, and the reader's guarantee
and the refinement of `FileReplace` with exclusive use of the paths. The
invariant `FInv` says that running processes use disjoint paths, that a writer
owns its temporary inode and has written a prefix of its bytes, that a finished
temporary file is complete, and that temporary inodes are named once and never
by a destination or a reader. `NoMismatchAfterSuccess` adds `PairInv`, which follows a
DTB through its build and later edits: it is in place when its build goes on to the
PMI, stays until the PMI is there, and keeps its build when its command line is
edited. Beside exclusive use it takes that a build that writes one file of a pair
writes both, and that no edit takes the PMI for the DTB (`OnePair`): a plain build
over the PMI of a pair would leave the earlier DTB beside it.

`ModuleSelectionProofs` first proves that `closure()`, from any state it may be
started in, returns the least closed set, that what it accepts is acyclic and what
it reports is a cycle, for every index. The
invariant says what the stack means: entries to leave are the active modules,
each once; between an entry to leave and the next one are dependencies of the
first; every dependency of an active module is done or above it. A cycle is
then witnessed by `active` itself. "Acyclic" is stated without paths: no
nonempty set in which every module depends on one of the set.

It then uses that invariant for both searches of `resolve()`:
the first starts from every path, so its success leaves no cycle for the second.
`ResolveInv` then says, phase by phase, what of the request has been read
(`ReadInv`), which modules the names stand for (`ChoiceInv`) and which files are
packed (`FilesInv`), and that a failure means that the request was not acceptable
(`ErrorInv`). From it follow that a request is refused exactly when it should be
(`VerdictCorrect`) and that the archive has what the request needs and no more
(`ArchiveCorrect`).

`TatuBootProofs` proves, for every measured tree, overlay and maximum, that the
kernel gets the tree that was measured (`MeasuredTree`), memory that no measured
device uses, with the mailboxes in it (`HandoffSound`), and that it stays in the
KASLR window. `BootInv` says what the merge cannot break: a fragment that passed
`classify_fragment` is harmless (it has nodes of the host, or only
`numa-node-id` on a node of the base), and laying a harmless fragment over a tree
that keeps the base keeps the base, the seed included. Two facts about the base
carry it: it has no node that is the host's to fill and no `numa-node-id`
(`MeasuredBase`, from `base_dtb::build`). Since devices of the base are then
devices of the merged tree, the interval tests of `validate_merged` give
disjoint bytes. A tree is refused only when one of
its parts is unusable (`OnlyUnusableIsRefused`). `MapInv` counts: the e820 map has one
entry for the ACPI workspace and one for each region of the nodes done
(`MapIsTheTree`), so that a validated tree, whose nodes are within the maxima, never
needs more entries than there are (`ValidatedFits`); `TreeInv` keeps what the count
needs of the tree, that it is finite and that no `cpus` node passes for a bridge.

`BuildImageProofs` proves the five properties of a written PMI, for every kernel,
initrd, command line and set of sizes. `IInv` goes along `run()`, one conjunct per
stage, each kept by the later ones: the archive being written is records
one after the other with the trailer last (`ArchiveInv`), the board is one the
kernel can drive (`BoardInv`), there is an initramfs when there is a bootconfig
(`InitrdInv`), what is placed starts on 2 MiB and has its size (`LayInv`), the base
DTB fits its section and only `arma cmdline` changes it (`DtbInv`), manifest and
section list are those of the layout (`SpecInv`), and each section laid out in the
file starts after the ones before it and ends at or before the cursor (`HeaderInv`).
`NothingIsTruncated` follows because a size that was cut would, uncut, have
been refused; `ImageMatchesManifest` needs besides that section names are distinct,
so that the action, the section and the boot information of one name are about one
range, and that sorting the sections keeps each once.

`Dtb2AcpiProofs` proves of the SLIT, for every tree, that each cell of the matrix
under construction and its mirror hold what all the triples read of that pair
said (`DistancesAreWhatWasTold`, of the invariant `DistancesSoFar`), and that the emitter fails exactly on distances
that are no symmetric matrix over the domains counted
(`SlitFailsOnBadDistances`). `SlitInv` carries from the first pass what the second
relies on: a domain is counted once, so that a pair of domains is a pair of
indices (`PairIs`); a SLIT is announced only with a `distance-matrix` to read, and
its slot has room for the square of the domains. Within the loop it says that
every triple read is in range and 10 on the diagonal; this makes 0 a safe mark for
"not yet", and comparing a triple with two cells as good as comparing it with all
earlier triples of its pair. `AcpiAssumption` adds for this that the triples are
sequences of three cells.

What `BuildImageProofs` takes of tatu is `TatuIsLinked`: the stub was linked by `tatu.ld`, so its
sections have the script's names, each once, smaller than 2 MiB, and the overlay
buffer has no bytes in the file. `BuildAssumption` gives the inputs their types and
says that the entry point of a kernel lies in its image, which `parse()` of
`kernel.rs` checks. `CpioAssumption` gives lengths to the names arma writes.
The run evaluates all of them.

Where the branches of a `match` overlap and the first one wins, the models say so
with IF: a CASE with overlapping guards leaves the choice open, which a proof
notices and TLC does not.

Model-checked only: termination (liveness); the violations; the properties of `KernelImage`; and
`AccountsAgree` and `TablesAgree` of `Dtb2Acpi`. What these compare is computed by
folds over relocation sites or table entries and their sums, and by selecting from
sequences, that is by induction over data. The properties of `KernelImage` moreover hold
of kernels as a linker makes them, which `MCKernelImage` builds, and not of any ELF file
(a relocation in the middle of a banner would change it): a theorem needs that notion
stated on its own.

## Not modelled

Durability after a machine crash (arma does not fsync and makes no claim).
Decompression and the ELF and PE parsers are external: they give a result or
fail. Encodings (CBOR, the text of the device tree), the constant registers of
the vCPU, `SizeOfImage`, modes and inode numbers of archive records, the warning
about powering off, and printing are left out: no decision depends on them.
In tatu: the reset stubs, the page tables and other tables computed at compile
time, the bytes of the blobs (that the measured base parses is assumed, that
others may not is modelled). In `TatuBoot` the conversion to ACPI succeeds or
fails; `Dtb2Acpi` says when. Checksums, OEM names, the names of AML objects and
the fields that are constant or copied without a decision are left out, and
addresses are relative to `base_gpa`.

## Plan

1. Proofs about `KernelImage`: what makes a kernel well linked, as an assumption on
   `Input`, and from it that the release is that of the memory image.
2. The limits arma does not check and tatu enforces (`--mmio-slots` against
   `MAX_DEVICE_RANGES`), which need `BuildImage` and `TatuBoot` on one tree.
