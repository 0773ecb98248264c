---------------------------- MODULE KernelConfig ----------------------------
(***************************************************************************)
(* What `arma build` reads of the kernel's build configuration             *)
(* (kconfig.rs) and of a command line (kernel_cmdline.rs, build.rs).       *)
(*                                                                         *)
(* A configuration is its options built in (y), its options built as       *)
(* modules (m) and CONFIG_CMDLINE as written, with its escapes.  A command *)
(* line is a sequence of tokens, each one unit long: "sp", "quote", "eq",  *)
(* "nul", "esc" (a backslash) and the words that matter, the rest being    *)
(* "x".  Options given to arma are sets of at most one value.              *)
(***************************************************************************)
EXTENDS Naturals, Sequences, FiniteSets, SequencesExt

CONSTANT CAPACITY               \* COMMAND_LINE_SIZE, with the final NUL

ASSUME CapacityAssumption == CAPACITY \in Nat \ {0}

unwrap_or(option, default) == IF option = {} THEN default ELSE CHOOSE v \in option : TRUE

----------------------------------------------------------------------------
\* KernelCommandLine
UntilNul(line) == SelectInSeq(line, LAMBDA c : c = "nul")

BeforeNul(line) == IF UntilNul(line) = 0 THEN line ELSE SubSeq(line, 1, UntilNul(line) - 1)

\* Between words; at a word's first byte; at its end.
Gap == [at |-> "gap", quoted |-> FALSE, in_quote |-> FALSE, equals |-> FALSE, name |-> <<>>]

WordStart(c) == [Gap EXCEPT !.at = "word", !.quoted = c = "quote", !.in_quote = c = "quote",
                            !.name = IF c = "quote" THEN <<>> ELSE <<c>>]

NameOfWord(s) ==
    IF s.quoted /\ ~s.equals /\ s.name # <<>> /\ Last(s.name) = "quote" THEN Front(s.name) ELSE s.name

WordEnd(s) ==
    IF s.at # "word" THEN s
    ELSE [Gap EXCEPT !.at = IF ~s.equals /\ NameOfWord(s) = <<"--">> THEN "stop"
                            ELSE IF NameOfWord(s) = <<"bootconfig">> THEN "found" ELSE "gap"]

\* One byte: an equals sign at the start of a word does not end its name.
ScanByte(s, c) ==
    IF s.at \in {"found", "stop"} \/ (s.at = "gap" /\ c = "sp") THEN s
    ELSE IF s.at = "gap" THEN WordStart(c)
    ELSE IF c = "sp" /\ ~s.in_quote THEN WordEnd(s)
    ELSE [s EXCEPT !.equals = @ \/ (c = "eq" /\ s.name # <<>>),
                   !.in_quote = (c = "quote") # @,
                   !.name = IF s.equals \/ (c = "eq" /\ s.name # <<>>) THEN @ ELSE Append(@, c)]

bootconfig_requested(line) == WordEnd(FoldLeft(ScanByte, Gap, BeforeNul(line))).at = "found"

----------------------------------------------------------------------------
\* build.rs, serial_earlycon_cmdline(): words here are split at every space.
WordAt(line, i, w) ==
    /\ line[i] = w
    /\ i > 1 => line[i - 1] = "sp"
    /\ i < Len(line) => line[i + 1] \in {"sp", "eq"}

has_earlycon(line) == \E i \in DOMAIN line : WordAt(line, i, "earlycon")

serial_earlycon_cmdline(serial, line) ==
    IF ~serial \/ has_earlycon(line) THEN line
    ELSE <<"earlycon">> \o (IF ToSet(line) \subseteq {"sp"} THEN <<>> ELSE <<"sp">> \o line)

----------------------------------------------------------------------------
\* KernelConfig
is_builtin(kcfg, sym) == sym \in kcfg.y
is_set(kcfg, sym) == sym \in kcfg.y \union kcfg.m

\* A backslash stands for the byte after it, the last one for itself.
Unescape(s, c) ==
    IF c = "esc" /\ ~s.esc THEN [s EXCEPT !.esc = TRUE]
    ELSE [out |-> Append(s.out, c), esc |-> FALSE]

builtin_cmdline(kcfg) ==
    LET s == FoldLeft(Unescape, [out |-> <<>>, esc |-> FALSE], kcfg.cmdline)
    IN IF s.esc THEN Append(s.out, "esc") ELSE s.out

Truncated(line) == IF Len(line) < CAPACITY THEN line ELSE SubSeq(line, 1, CAPACITY - 1)

\* The arguments the kernel will see.
Combined(kcfg, arch, line) ==
    LET builtin == builtin_cmdline(kcfg)
        on(sym) == is_builtin(kcfg, sym)
    IN CASE arch = "x86_64" /\ on("CMDLINE_BOOL") /\ on("CMDLINE_OVERRIDE") -> builtin
         [] arch = "x86_64" /\ on("CMDLINE_BOOL") /\ ~on("CMDLINE_OVERRIDE") /\ builtin # <<>> -> builtin \o <<"sp">> \o line
         [] arch = "aarch64" /\ on("CMDLINE_EXTEND") -> line \o <<"sp">> \o builtin
         [] arch = "aarch64" /\ ~on("CMDLINE_EXTEND") /\ on("CMDLINE_FORCE") -> builtin
         [] OTHER -> line

Effective_Uncut(kcfg, arch, line) == Combined(kcfg, arch, line)

Effective(kcfg, arch, line) == Truncated(Combined(kcfg, arch, Truncated(line)))

check_bootconfig(kcfg, arch, line) ==
    /\ \A sym \in {"BOOT_CONFIG", "BLK_DEV_INITRD", "PROC_FS"} : is_builtin(kcfg, sym)
    /\ is_builtin(kcfg, "BOOT_CONFIG_FORCE") \/ bootconfig_requested(Effective(kcfg, arch, line))

Pci(arch) == {"PCI", "VIRTIO_PCI"} \union (IF arch = "aarch64" THEN {"PCI_HOST_GENERIC"} ELSE {})

supports_virtio_mmio(kcfg) == is_set(kcfg, "VIRTIO_MMIO")
builtin_virtio_mmio(kcfg) == is_builtin(kcfg, "VIRTIO_MMIO")
supports_pci(kcfg, arch) == \A sym \in Pci(arch) : is_set(kcfg, sym)
builtin_pci(kcfg, arch) == \A sym \in Pci(arch) : is_builtin(kcfg, sym)

\* infer_slots(): what is refused, and the slots otherwise.
NoSlots(kcfg, arch, mmio, pci) ==
    \/ ~supports_virtio_mmio(kcfg) /\ ~supports_pci(kcfg, arch)
    \/ mmio = {} /\ pci = {} /\ ~builtin_virtio_mmio(kcfg) /\ ~builtin_pci(kcfg, arch)
    \/ unwrap_or(mmio, 0) > 0 /\ ~supports_virtio_mmio(kcfg)
    \/ unwrap_or(pci, 0) > 0 /\ ~supports_pci(kcfg, arch)

DefaultSlots == 16

infer_slots(kcfg, arch, mmio, pci) ==
    IF mmio # {} \/ pci # {} THEN <<unwrap_or(mmio, 0), unwrap_or(pci, 0)>>
    ELSE IF ~builtin_virtio_mmio(kcfg) THEN <<0, DefaultSlots>>
    ELSE IF ~builtin_pci(kcfg, arch) THEN <<DefaultSlots, 0>>
    ELSE <<DefaultSlots \div 2, DefaultSlots \div 2>>

----------------------------------------------------------------------------
isa_levels(arch) ==
    IF arch = "x86_64" THEN <<"x86-64-v1", "x86-64-v2", "x86-64-v3", "x86-64-v4">>
    ELSE <<"armv8.0-a", "armv8.1-a", "armv8.2-a", "armv8.3-a", "armv8.4-a", "armv8.5-a", "armv8.6-a">>

\* Place in the list, from 1; 0 for a profile that is not in it.
Rank(profile, arch) == SelectInSeq(isa_levels(arch), LAMBDA l : l = profile)

isa_floor(kcfg, arch) ==
    IF arch = "aarch64" THEN "armv8.0-a"
    ELSE IF is_set(kcfg, "X86_64_V4") THEN "x86-64-v4"
    ELSE IF is_set(kcfg, "X86_64_V3") THEN "x86-64-v3"
    ELSE IF is_set(kcfg, "X86_64_V2") THEN "x86-64-v2"
    ELSE "x86-64-v1"

raise_to_floor(chosen, floor, arch) ==
    IF Rank(chosen, arch) # 0 /\ Rank(floor, arch) > Rank(chosen, arch) THEN floor ELSE chosen

\* --profile, or the architecture's baseline, raised to what the kernel needs.
cpu_profile(kcfg, arch, profile) ==
    raise_to_floor(unwrap_or(profile, IF arch = "x86_64" THEN "x86-64-v2" ELSE "armv8.0-a"),
                   isa_floor(kcfg, arch), arch)
=============================================================================
