-------------------------------- MODULE Cpio --------------------------------
(***************************************************************************)
(* initrd.rs: what `arma build` accepts as an initramfs, the newc archives *)
(* it writes around a static init, and its reader of newc archives.        *)
(*                                                                         *)
(* An archive is its length and the records in it by offset:               *)
(*   records   the headers with their names: name, namesize, size, good    *)
(*             (hexadecimal fields, a name that ends at its only NUL and   *)
(*             no checksum)                                                *)
(*   stray     the offsets of other bytes that are not zero, outside the   *)
(*             records' names and data                                     *)
(* A compressed input is its frames and the archive they decode to.        *)
(***************************************************************************)
EXTENDS Naturals, Sequences, FiniteSets, FiniteSetsExt

CONSTANTS
    NEWC_HEADER,                \* bytes of a record's header
    FIELD_MAX,                  \* the largest value of a newc field
    NameLen                     \* length of each name, without the NUL

Trailer == "TRAILER!!!"

ASSUME CpioAssumption ==
    /\ {NEWC_HEADER, FIELD_MAX} \subseteq Nat /\ NameLen \in [DOMAIN NameLen -> Nat]
    /\ {".", "dev", "dev/console", "init", "usr", Trailer} \subseteq DOMAIN NameLen

Align4(n) == ((n + 3) \div 4) * 4

EmptyArchive == [len |-> 0, records |-> <<>>, stray |-> {}]

----------------------------------------------------------------------------
\* cpio_entry(): alignment counts from the start of the archive.
NameEnd(out, name) == Align4(out.len + NEWC_HEADER + NameLen[name] + 1)

EntryEnd_Unpadded(out, entry) == NameEnd(out, entry.name) + entry.size

EntryEnd(out, entry) == Align4(NameEnd(out, entry.name) + entry.size)

cpio_entry(out, entry) ==
    [len |-> EntryEnd(out, entry),
     records |-> [o \in DOMAIN out.records \union {out.len} |->
                    IF o = out.len
                    THEN [name |-> entry.name, namesize |-> NameLen[entry.name] + 1,
                          size |-> entry.size, good |-> TRUE]
                    ELSE out.records[o]],
     stray |-> out.stray]

\* checked_entry_size(): both fields hold what is written to them.
checked_entry(entry) == NameLen[entry.name] + 1 <= FIELD_MAX /\ entry.size <= FIELD_MAX

\* wrap_as_cpio() and, with modules, materialize_modules().
Entry(name, size) == [name |-> name, size |-> size]

Entries(directories, init, modules) ==
    directories \o <<Entry("dev/console", 0), Entry("init", init)>> \o modules \o <<Entry(Trailer, 0)>>

----------------------------------------------------------------------------
\* validate_cpio(), one record at a time: alignment counts from the record.
Record(a, at) == a.records[at]

RecordEnd(a, at) ==
    at + Align4(Align4(NEWC_HEADER + Record(a, at).namesize) + Record(a, at).size)

RecordIsWhole(a, at) ==
    /\ at \in DOMAIN a.records
    /\ Record(a, at).good
    /\ RecordEnd(a, at) <= a.len
    /\ Record(a, at).name = Trailer => Record(a, at).size = 0

\* skip_padding()
skip_padding(a, at) == Min({o \in DOMAIN a.records \union a.stray : o >= at} \union {a.len})

\* Where the reader goes from a whole record.
AfterRecord(a, at) ==
    IF Record(a, at).name = Trailer THEN skip_padding(a, RecordEnd(a, at)) ELSE RecordEnd(a, at)

\* The archive is read when only padding is left after a trailer.
Complete(a, last, at) == Record(a, last).name = Trailer /\ at = a.len

----------------------------------------------------------------------------
\* materialize(): frames decode, and a zstd frame says what it decodes to.
FrameIsGood(format, frame) ==
    /\ frame.decodes
    /\ format = "zstd" => /\ ~frame.reserved
                          /\ frame.content_size = {} \/ frame.content_size = {frame.decoded}
                          /\ frame.checksum # "bad"

Opens(input) ==
    \/ input.format = "cpio"
    \/ input.format \in {"gzip", "zstd"} /\ \A k \in DOMAIN input.frames : FrameIsGood(input.format, input.frames[k])

\* check_static_elf(), check_module_init() and the size of /init.
StaticElf(input) == input.format = "elf" /\ input.parses /\ ~input.interp
Wraps(input) == StaticElf(input) /\ input.size <= FIELD_MAX
=============================================================================
