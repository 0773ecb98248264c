---------------------------- MODULE MCBuildImage ----------------------------
(***************************************************************************)
(* BuildImage with a u32 of 255, 2 MiB of 32 units and pages of 4.  Three  *)
(* families of builds: configurations against command lines and slots,     *)
(* sizes around every limit in each DTB mode, and malformed files.         *)
(***************************************************************************)
EXTENDS BuildImage, TLC

MCNameLen ==
    [n \in {".", "dev", "dev/console", "init", Trailer, "usr", "ko"} |->
       CASE n = "." -> 1 [] n \in {"dev", "dev/console", "usr"} -> 3 [] n = "init" -> 4 [] OTHER -> 2]

\* ---- tatu: one header per section of its linker script
H(name, type, addr, size) ==
    [name |-> name, alloc |-> TRUE, type |-> type, addr |-> addr, size |-> size, off |-> 0]

Common == << H(".tatu.dtbo", "nobits", 32, 4), H(".tatu.text", "progbits", 0, 4),
             H(".tatu.bootinfo", "nobits", 4, 4), H(".tatu.dtb", "nobits", 8, 24),
             H(".tatu.empty", "progbits", 8, 0), H(".tatu.note", "note", 8, 4),
             [H(".comment", "progbits", 0, 4) EXCEPT !.alloc = FALSE] >>
Tables == << H(".tatu.pgt", "progbits", 36, 4), H(".tatu.gdt", "progbits", 40, 4),
             H(".tatu.reset", "progbits", 252, 4) >>

Tatu(machine, headers_) == [machine |-> machine, headers |-> headers_, len |-> 9, entry |-> 0]
X86Tatu == Tatu("x86_64", Common \o Tables)
ArmTatu == Tatu("aarch64", Common)
Without(name) == Tatu("x86_64", SelectSeq(Common \o Tables, LAMBDA h : h.name # name))

Tatus == { X86Tatu, ArmTatu, [X86Tatu EXCEPT !.len = 3], Without(".tatu.bootinfo"),
           Without(".tatu.dtb"), Without(".tatu.dtbo"), Without(".tatu.pgt"), Without(".tatu.gdt") }

\* ---- kernels
X86Kernel(file, alloc, min) ==
    [file |-> file, alloc |-> alloc, min_paddr |-> min, entry_offset |-> 1, relocs |-> <<2, 0, 1>>, ikconfig |-> {}]
ArmKernel(file, alloc) == [X86Kernel(file, alloc, 0) EXCEPT !.relocs = <<0, 0, 0>>, !.entry_offset = 0]

Kernels ==
    { X86Kernel(5, 9, 0), X86Kernel(30, 30, 0), X86Kernel(33, 33, 0), X86Kernel(6, 40, 96), X86Kernel(6, 255, 0),
      X86Kernel(6, 256, 0), X86Kernel(6, 300, 0), X86Kernel(130, 140, 0), X86Kernel(260, 260, 0),
      X86Kernel(5, 9, 256), X86Kernel(5, 1100, 0), [X86Kernel(5, 9, 0) EXCEPT !.relocs = <<9, 1, 1>>] }

\* ---- configurations
Y(y) == [y |-> y, m |-> {}, cmdline |-> <<>>]
Mmio == {"VIRTIO_MMIO"}
PciX86 == {"PCI", "VIRTIO_PCI"}
Boot == {"BOOT_CONFIG", "BLK_DEV_INITRD", "PROC_FS"}
Full == Y(Mmio \union PciX86 \union Boot \union {"ACPI"})

Configs ==
    { Full, Y(Mmio \union PciX86), Y(PciX86 \union {"PCI_HOST_GENERIC", "ARM_PSCI"} \union Boot), Y({"ACPI"}),
      [Y({"PCI"} \union Boot) EXCEPT !.m = Mmio \union {"VIRTIO_PCI", "PCI_HOST_GENERIC"}],
      Y(Mmio \union Boot \union {"BOOT_CONFIG_FORCE", "X86_64_V2"}),
      [Full EXCEPT !.y = @ \union {"CMDLINE_BOOL", "CMDLINE_EXTEND"}, !.m = {"X86_64_V3"}, !.cmdline = <<"x", "sp", "x">>],
      [Full EXCEPT !.y = @ \union {"CMDLINE_BOOL", "X86_64_V4", "CMDLINE_FORCE"}, !.cmdline = <<"esc", "quote">>],
      [Full EXCEPT !.y = @ \union {"CMDLINE_BOOL", "CMDLINE_OVERRIDE", "CMDLINE_FORCE"}, !.cmdline = <<"bootconfig", "esc">>],
      [Full EXCEPT !.y = @ \union {"CMDLINE_BOOL", "CMDLINE_OVERRIDE", "CMDLINE_FORCE"}, !.cmdline = <<"sp", "bootconfig">>] }

Lines ==
    { <<>>, <<"sp">>, <<"bootconfig">>, <<"x", "sp", "x", "sp", "bootconfig">>, <<"--", "sp", "bootconfig">>,
      <<"quote", "x", "sp", "bootconfig", "quote">>, <<"quote", "bootconfig", "quote">>,
      <<"bootconfig", "eq", "x">>, <<"earlycon", "eq", "sp", "bootconfig">>, <<"eq", "bootconfig">>,
      <<"x", "nul", "sp", "bootconfig">> }

SlotArgs == { <<{}, {}>>, <<{2}, {}>>, <<{0}, {1}>>, <<{0}, {}>> }

\* ---- initramfs files
Elf(size) == [format |-> "elf", size |-> size, parses |-> TRUE, interp |-> FALSE]
Rec(name, size) == [name |-> name, namesize |-> MCNameLen[name] + 1, size |-> size, good |-> TRUE]
\* An init of 3 bytes, its trailer, and padding; then perhaps a second archive.
Small == [len |-> 24, records |-> (0 :> Rec("init", 3)) @@ (12 :> Rec(Trailer, 0)), stray |-> {}]
Double == [len |-> 40, records |-> Small.records @@ (24 :> Rec(".", 0)) @@ (28 :> Rec(Trailer, 0)), stray |-> {}]
Cpio(a) == [format |-> "cpio", size |-> a.len, archive |-> a]
Frame == [decodes |-> TRUE, reserved |-> FALSE, content_size |-> {}, decoded |-> 24, checksum |-> "ok"]
Packed(format, frames) == [format |-> format, size |-> 7, archive |-> Small, frames |-> frames]

GoodFiles == { Elf(1), Elf(4), Elf(200), Elf(255), Cpio(Small), Cpio(Double), Packed("gzip", <<Frame>>),
               Packed("zstd", <<Frame, [Frame EXCEPT !.content_size = {24}]>>) }
BadFiles ==
    { Elf(256), [Elf(1) EXCEPT !.interp = TRUE], [Elf(1) EXCEPT !.parses = FALSE], [format |-> "other"],
      Cpio([Small EXCEPT !.len = 16]), Cpio([Small EXCEPT !.records = 0 :> Rec("init", 3)]),
      Cpio([Small EXCEPT !.stray = {22}]), Cpio([Small EXCEPT !.records[12].size = 1]),
      Cpio([Small EXCEPT !.records[0].good = FALSE]),
      Packed("gzip", <<[Frame EXCEPT !.decodes = FALSE]>>), Packed("zstd", <<[Frame EXCEPT !.reserved = TRUE]>>),
      Packed("zstd", <<[Frame EXCEPT !.content_size = {9}]>>), Packed("zstd", <<[Frame EXCEPT !.checksum = "bad"]>>) }

\* ---- the builds
Build ==
    [host |-> "x86_64", arch |-> "x86_64", cmdline |-> <<"x">>, serial |-> FALSE, mmio_slots |-> {}, pci_slots |-> {},
     profile |-> {}, config |-> {Full}, initrd |-> {Elf(1)}, selects |-> FALSE, modules |-> <<>>, module_tree |-> FALSE,
     names_valid |-> TRUE, dtb_mode |-> "Optional", taken |-> {}, tatu |-> X86Tatu, kernel |-> X86Kernel(5, 9, 0)]
ArmBuild == [Build EXCEPT !.host = "aarch64", !.arch = "aarch64", !.tatu = ArmTatu, !.kernel = ArmKernel(5, 34)]

Boards ==
    { [b EXCEPT !.config = {c}, !.cmdline = l, !.serial = s, !.mmio_slots = a[1], !.pci_slots = a[2],
                !.profile = IF s THEN {} ELSE {"x86-64-v3"}] :
        b \in {Build, ArmBuild}, c \in Configs, l \in Lines, s \in BOOLEAN, a \in SlotArgs }

SizedBuilds ==
    { [Build EXCEPT !.kernel = k, !.initrd = f, !.dtb_mode = d, !.cmdline = l] :
        k \in Kernels, f \in {{}, {Elf(1)}, {Elf(200)}, {Packed("gzip", <<Frame>>)}},
        d \in {"Attached", "Detached", "Optional"}, l \in {<<"x">>, <<"bootconfig">>} }

ArmBuilds ==
    { [ArmBuild EXCEPT !.kernel = ArmKernel(k[1], k[2]), !.initrd = f, !.dtb_mode = d] :
        k \in {<<6, 0>>, <<6, 255>>, <<6, 256>>, <<40, 300>>, <<260, 0>>},
        f \in {{}, {Elf(1)}}, d \in {"Attached", "Detached", "Optional"} }

FileBuilds == { [b EXCEPT !.initrd = {f}, !.selects = s] : b \in {Build, ArmBuild}, f \in GoodFiles \union BadFiles, s \in BOOLEAN }

OtherBuilds ==
    { [Build EXCEPT !.tatu = t] : t \in Tatus }
      \union { [Build EXCEPT !.kernel.ikconfig = c, !.config = {}] : c \in {{}, {Full}} }
      \union { [Build EXCEPT !.selects = TRUE, !.names_valid = v, !.initrd = i, !.modules = m] :
                 v \in BOOLEAN, i \in {{}, {Elf(1)}}, m \in {<<Entry("ko", 5)>>, <<Entry("ko", 256)>>} }
      \union { [Build EXCEPT !.module_tree = TRUE], [Build EXCEPT !.host = "aarch64"],
               [Build EXCEPT !.taken = {[start |-> 70, end |-> 71], [start |-> 128, end |-> 1020]}],
               [Build EXCEPT !.taken = {[start |-> 96, end |-> 1020]}],
               [Build EXCEPT !.taken = {[start |-> 128, end |-> 1020]}],
               [Build EXCEPT !.kernel.relocs = <<40, 20, 4>>] }

MCInputs == Boards \union SizedBuilds \union ArmBuilds \union FileBuilds \union OtherBuilds

MCNewCmdlines == { <<>>, <<"x", "sp", "x">>, [i \in 1..30 |-> "x"] }
=============================================================================
