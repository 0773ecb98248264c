---------------------------- MODULE OutputFiles ----------------------------
(***************************************************************************)
(* How arma processes write their outputs: atomic_write of src/fs_ext.rs   *)
(* as `arma build` (src/build.rs) and `arma cmdline` (src/cmdline.rs) use  *)
(* it, with a reader of the files beside them.                             *)
(*                                                                         *)
(* A path names an inode.  atomic_write opens a temporary path, truncating *)
(* what is there, writes the bytes in several calls and renames it over    *)
(* the destination.  The temporary name depends on the destination only,   *)
(* so two processes that write one destination share it, and a descriptor  *)
(* keeps writing to its inode after another process renamed it.            *)
(*                                                                         *)
(* A process may stop at any point: an error return, a failing build_pe    *)
(* between the two outputs of a detached build, or a kill.  It leaves its  *)
(* temporary file behind.  A machine crash (arma does not fsync) is not    *)
(* modelled.                                                               *)
(***************************************************************************)
EXTENDS Integers, Sequences

CONSTANTS
  Proc,       \* arma invocations
  Kind,       \* what each does: "build", "detached" or "cmdline"
  PmiOf,      \* --output of a build
  DtbOf,      \* --dtb-out of a detached build; the file cmdline edits
  Path,       \* destinations
  Inode,      \* inode numbers
  CHUNKS,     \* write calls it takes to write a file
  Reader,
  Exclusive,  \* TRUE: the user runs one arma at a time per output path
  None

\* A PMI or a base DTB: the build it is from and, for a DTB, who set bootargs.
Version == [build : Proc, bootargs : Proc]

Whole(v) == [k \in 1..CHUNKS |-> v]

Complete == {Whole(v) : v \in Version}

ASSUME FileAssumption ==
  /\ Kind \in [Proc -> {"build", "detached", "cmdline"}]
  /\ PmiOf \in [Proc -> Path] /\ DtbOf \in [Proc -> Path]
  /\ CHUNKS \in Nat \ {0} /\ Inode \subseteq Nat
  /\ None \notin Inode /\ None \notin Version /\ None \notin Complete
  /\ Exclusive \in BOOLEAN

VARIABLES
  dst,   \* the inode a destination names
  tmp,   \* the inode its temporary path names
  data,  \* the bytes of each inode, as the version each chunk is from
  pc,    \* where each process is
  todo,  \* destinations it has still to write
  fd,    \* the inode its File is open on
  off,   \* chunks it has written there
  out,   \* the bytes it writes
  held   \* the inode each reader has open

vars == <<dst, tmp, data, pc, todo, fd, off, out, held>>

-----------------------------------------------------------------------------
\* The destinations a process writes, in order.
Targets_PmiFirst(p) ==
  CASE Kind[p] = "build"    -> <<PmiOf[p]>>
    [] Kind[p] = "detached" -> <<PmiOf[p], DtbOf[p]>>
    [] Kind[p] = "cmdline"  -> <<DtbOf[p]>>

Targets(p) ==
  CASE Kind[p] = "build"    -> <<PmiOf[p]>>
    [] Kind[p] = "detached" -> <<DtbOf[p], PmiOf[p]>>
    [] Kind[p] = "cmdline"  -> <<DtbOf[p]>>

Uses(p) == {Targets(p)[k] : k \in 1..Len(Targets(p))}

Running(p) == pc[p] \in {"open", "write", "rename"}

\* What reading a path returns.
Visible(x) == IF dst[x] = None THEN None ELSE data[dst[x]]

Free(i) ==
  /\ \A x \in Path : dst[x] # i /\ tmp[x] # i
  /\ \A p \in Proc : fd[p] # i
  /\ \A r \in Reader : held[r] # i

\* The file system picks a free inode; which one does not matter, so the least.
Fresh(i) == Free(i) /\ \A j \in Inode : j < i => ~Free(j)

Init ==
  /\ dst = [x \in Path |-> None]
  /\ tmp = [x \in Path |-> None]
  /\ data = [i \in Inode |-> <<>>]
  /\ pc = [p \in Proc |-> "idle"]
  /\ todo = [p \in Proc |-> <<>>]
  /\ fd = [p \in Proc |-> None]
  /\ off = [p \in Proc |-> 0]
  /\ out = [p \in Proc |-> None]
  /\ held = [r \in Reader |-> None]

MayStart(p) ==
  /\ pc[p] = "idle"
  /\ Exclusive => \A q \in Proc : Running(q) => Uses(p) \intersect Uses(q) = {}

\* A build has its bytes; those of the DTB and of the PMI belong together.
StartBuild(p) ==
  /\ MayStart(p) /\ Kind[p] # "cmdline"
  /\ out' = [out EXCEPT ![p] = [build |-> p, bootargs |-> p]]
  /\ todo' = [todo EXCEPT ![p] = Targets(p)]
  /\ pc' = [pc EXCEPT ![p] = "open"]
  /\ UNCHANGED <<dst, tmp, data, fd, off, held>>

\* cmdline reads and parses the DTB and sets its bootargs.
StartEdit(p) ==
  /\ MayStart(p) /\ Kind[p] = "cmdline"
  /\ \E v \in Version :
       /\ Visible(DtbOf[p]) = Whole(v)
       /\ out' = [out EXCEPT ![p] = [v EXCEPT !.bootargs = p]]
  /\ todo' = [todo EXCEPT ![p] = Targets(p)]
  /\ pc' = [pc EXCEPT ![p] = "open"]
  /\ UNCHANGED <<dst, tmp, data, fd, off, held>>

\* There is no such file, or it does not parse.
EditFails(p) ==
  /\ MayStart(p) /\ Kind[p] = "cmdline"
  /\ Visible(DtbOf[p]) \notin Complete
  /\ pc' = [pc EXCEPT ![p] = "failed"]
  /\ UNCHANGED <<dst, tmp, data, todo, fd, off, out, held>>

\* File::create on the temporary path: a new inode, or the old one emptied.
OpenTmp(p) ==
  /\ pc[p] = "open"
  /\ \E i \in Inode :
       /\ IF tmp[Head(todo[p])] = None THEN Fresh(i) ELSE i = tmp[Head(todo[p])]
       /\ tmp' = [tmp EXCEPT ![Head(todo[p])] = i]
       /\ data' = [data EXCEPT ![i] = <<>>]
       /\ fd' = [fd EXCEPT ![p] = i]
  /\ pc' = [pc EXCEPT ![p] = "write"]
  /\ UNCHANGED <<dst, todo, off, out, held>>

\* One write call, at the descriptor's own offset; bytes before it that the
\* file has lost read as zeros.
Put(bytes, k, v) ==
  [j \in 1..(IF Len(bytes) > k THEN Len(bytes) ELSE k) |->
     IF j = k THEN v ELSE IF j <= Len(bytes) THEN bytes[j] ELSE None]

WriteChunk(p) ==
  /\ pc[p] = "write"
  /\ data' = [data EXCEPT ![fd[p]] = Put(@, off[p] + 1, out[p])]
  /\ off' = [off EXCEPT ![p] = IF off[p] + 1 = CHUNKS THEN 0 ELSE @ + 1]
  /\ pc' = [pc EXCEPT ![p] = IF off[p] + 1 = CHUNKS THEN "rename" ELSE "write"]
  /\ fd' = [fd EXCEPT ![p] = IF off[p] + 1 = CHUNKS THEN None ELSE @]
  /\ UNCHANGED <<dst, tmp, todo, out, held>>

Rename_BeforeLastWrite(p) ==
  /\ pc[p] \in {"write", "rename"}
  /\ tmp[Head(todo[p])] # None
  /\ dst' = [dst EXCEPT ![Head(todo[p])] = tmp[Head(todo[p])]]
  /\ tmp' = [tmp EXCEPT ![Head(todo[p])] = None]
  /\ todo' = [todo EXCEPT ![p] = Tail(@)]
  /\ pc' = [pc EXCEPT ![p] = IF Len(todo[p]) = 1 THEN "ok" ELSE "open"]
  /\ UNCHANGED <<data, fd, off, out, held>>

Rename_KeepsTmp(p) ==
  /\ pc[p] = "rename"
  /\ tmp[Head(todo[p])] # None
  /\ dst' = [dst EXCEPT ![Head(todo[p])] = tmp[Head(todo[p])]]
  /\ todo' = [todo EXCEPT ![p] = Tail(@)]
  /\ pc' = [pc EXCEPT ![p] = IF Len(todo[p]) = 1 THEN "ok" ELSE "open"]
  /\ UNCHANGED <<tmp, data, fd, off, out, held>>

\* The rename replaces the destination; then the next output, or success.
Rename(p) ==
  /\ pc[p] = "rename"
  /\ tmp[Head(todo[p])] # None
  /\ dst' = [dst EXCEPT ![Head(todo[p])] = tmp[Head(todo[p])]]
  /\ tmp' = [tmp EXCEPT ![Head(todo[p])] = None]
  /\ todo' = [todo EXCEPT ![p] = Tail(@)]
  /\ pc' = [pc EXCEPT ![p] = IF Len(todo[p]) = 1 THEN "ok" ELSE "open"]
  /\ UNCHANGED <<data, fd, off, out, held>>

\* An error return (a full disk, build_pe's limits, a temporary file that
\* another process renamed away) or a kill.
Stop(p) ==
  /\ Running(p)
  /\ pc' = [pc EXCEPT ![p] = "failed"]
  /\ fd' = [fd EXCEPT ![p] = None]
  /\ off' = [off EXCEPT ![p] = 0]
  /\ out' = [out EXCEPT ![p] = None]
  /\ todo' = [todo EXCEPT ![p] = <<>>]
  /\ UNCHANGED <<dst, tmp, data, held>>

\* A reader opens a file, and closes it after reading.
ReaderOpen(r, x) ==
  /\ held[r] = None /\ dst[x] # None
  /\ held' = [held EXCEPT ![r] = dst[x]]
  /\ UNCHANGED <<dst, tmp, data, pc, todo, fd, off, out>>

ReaderClose(r) ==
  /\ held[r] # None
  /\ held' = [held EXCEPT ![r] = None]
  /\ UNCHANGED <<dst, tmp, data, pc, todo, fd, off, out>>

Next ==
  \/ \E p \in Proc : StartBuild(p) \/ StartEdit(p) \/ EditFails(p)
  \/ \E p \in Proc : OpenTmp(p) \/ WriteChunk(p) \/ Rename(p) \/ Stop(p)
  \/ \E r \in Reader : ReaderClose(r) \/ \E x \in Path : ReaderOpen(r, x)
  \/ (\A p \in Proc : pc[p] \in {"ok", "failed"}) /\ UNCHANGED vars

Spec == Init /\ [][Next]_vars

-----------------------------------------------------------------------------
(* Properties.                                                             *)

\* Descriptors are open exactly while writing, offsets stay inside the file and
\* a running process has bytes and destinations left.
TypeOK ==
  /\ dst \in [Path -> Inode \union {None}] /\ tmp \in [Path -> Inode \union {None}]
  /\ data \in [Inode -> Seq(Version \union {None})]
  /\ \A i \in Inode : Len(data[i]) <= CHUNKS
  /\ pc \in [Proc -> {"idle", "open", "write", "rename", "ok", "failed"}]
  /\ todo \in [Proc -> Seq(Path)]
  /\ \A p \in Proc : Running(p) => todo[p] # <<>> /\ out[p] # None
  /\ fd \in [Proc -> Inode \union {None}]
  /\ \A p \in Proc : pc[p] = "write" => fd[p] # None
  /\ off \in [Proc -> 0..(CHUNKS - 1)]
  /\ out \in [Proc -> Version \union {None}]
  /\ held \in [Reader -> Inode \union {None}]

\* fs_ext.rs: "so a reader never observes a half-written file".  Whatever a
\* path names, and whatever a reader has opened, holds all the bytes of one
\* version at every moment of the read.
ReaderNeverSeesHalfWrittenFile ==
  /\ \A x \in Path : dst[x] # None => Visible(x) \in Complete
  /\ \A r \in Reader : held[r] # None => data[held[r]] \in Complete

\* A file does not change under a reader that has it open, so one read never
\* mixes two versions.
OpenFileNeverChanges ==
  [][\A r \in Reader : held[r] # None /\ held'[r] = held[r] => data'[held[r]] = data[held[r]]]_vars

\* build.rs writes the detached DTB before the PMI.  A PMI and a DTB of
\* different builds lie side by side only while the DTB's build has not
\* succeeded: it is still running, failed or was killed between the two.
MismatchOnlyFromUnfinishedBuild ==
  \A p \in Proc :
    Kind[p] = "detached" =>
      \A v, w \in Version :
        Visible(PmiOf[p]) = Whole(v) /\ Visible(DtbOf[p]) = Whole(w) /\ v.build # w.build
          => pc[w.build] # "ok"

\* atomic_write implements whole-file replacement.
Abstract ==
  INSTANCE FileReplace
    WITH NoFile <- None,
         visible <- [x \in Path |-> Visible(x)]

\* OutputFiles implements FileReplace: every step a reader can notice swaps one
\* complete file for another.
ReplacesWholeFiles == Abstract!Spec
=============================================================================
