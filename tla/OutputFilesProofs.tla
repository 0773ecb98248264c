------------------------- MODULE OutputFilesProofs -------------------------
(***************************************************************************)
(* OutputFiles, for any number of processes, paths, readers and write      *)
(* calls: while one arma at a time works on a path, no reader sees a       *)
(* half-written file and atomic_write implements whole-file replacement;   *)
(* the two files of a pair differ only after an unfinished build.          *)
(***************************************************************************)
EXTENDS OutputFiles, TLAPS

\* A process writes at least one destination and only those it uses.
LEMMA TargetFacts ==
  ASSUME NEW p \in Proc
  PROVE  /\ Targets(p) \in Seq(Path) /\ Targets(p) # <<>>
         /\ \A k \in 1..Len(Targets(p)) : Targets(p)[k] \in Uses(p)
<1>1. Kind[p] \in {"build", "detached", "cmdline"} /\ PmiOf[p] \in Path /\ DtbOf[p] \in Path
  BY FileAssumption
<1>2. Targets(p) \in Seq(Path) /\ Targets(p) # <<>>
  BY <1>1 DEF Targets
<1> QED
  BY <1>2 DEF Uses

\* What a list has after its head.
LEMMA TailFacts ==
  ASSUME NEW S, NEW s \in Seq(S), s # <<>>
  PROVE  /\ Head(s) \in S /\ Head(s) = s[1] /\ 1 \in 1..Len(s)
         /\ Tail(s) \in Seq(S) /\ Len(Tail(s)) = Len(s) - 1
         /\ \A k \in 1..Len(Tail(s)) : k + 1 \in 1..Len(s) /\ Tail(s)[k] = s[k + 1]
         /\ Len(s) # 1 => Tail(s) # <<>>
<1>1. Len(s) \in Nat /\ Len(s) >= 1 /\ s \in [1..Len(s) -> S]
  OBVIOUS
<1>2. Head(s) \in S /\ Head(s) = s[1] /\ 1 \in 1..Len(s)
  BY <1>1
<1>3. Tail(s) \in Seq(S) /\ Len(Tail(s)) = Len(s) - 1
  BY <1>1
<1>4. \A k \in 1..(Len(s) - 1) : k + 1 \in 1..Len(s) /\ Tail(s)[k] = s[k + 1]
  BY <1>1
<1>5. Len(s) # 1 => Tail(s) # <<>>
  BY <1>1, <1>3
<1> QED
  BY <1>2, <1>3, <1>4, <1>5

\* What a chunk of an inode holds.
Chunk == Version \union {None}

\* One write call at the end of what is there extends it by one chunk.
LEMMA PutFacts ==
  ASSUME NEW bytes \in Seq(Chunk), NEW k \in Nat \ {0}, NEW v \in Version
  PROVE  /\ Put(bytes, k, v) \in Seq(Chunk)
         /\ Len(Put(bytes, k, v)) = (IF Len(bytes) > k THEN Len(bytes) ELSE k)
         /\ Put(bytes, k, v)[k] = v
         /\ \A j \in 1..Len(bytes) : j # k => Put(bytes, k, v)[j] = bytes[j]
<1> DEFINE n == IF Len(bytes) > k THEN Len(bytes) ELSE k
<1>1. n \in Nat /\ k \in 1..n /\ \A j \in 1..Len(bytes) : j \in 1..n
  OBVIOUS
<1>2. Put(bytes, k, v) = [j \in 1..n |->
        IF j = k THEN v ELSE IF j <= Len(bytes) THEN bytes[j] ELSE None]
  BY DEF Put
<1>3. \A j \in 1..n : (IF j = k THEN v ELSE IF j <= Len(bytes) THEN bytes[j] ELSE None) \in Chunk
  BY <1>1 DEF Chunk
<1>4. Put(bytes, k, v) \in [1..n -> Chunk]
  BY <1>2, <1>3
<1> HIDE DEF n
<1>5. Put(bytes, k, v) \in Seq(Chunk) /\ Len(Put(bytes, k, v)) = n
  BY <1>1, <1>4
<1>6. Put(bytes, k, v)[k] = v /\ \A j \in 1..Len(bytes) : j # k => Put(bytes, k, v)[j] = bytes[j]
  BY <1>1, <1>2
<1> QED
  BY <1>5, <1>6 DEF n

-----------------------------------------------------------------------------
(* Type correctness, whether or not processes share a path.                *)

\* The steps of a process keep the types.
LEMMA ProcessTypes ==
  ASSUME TypeOK, NEW p \in Proc,
         \/ StartBuild(p) \/ StartEdit(p) \/ EditFails(p) \/ OpenTmp(p)
         \/ WriteChunk(p) \/ Rename(p) \/ Stop(p)
  PROVE  TypeOK'
<1> USE FileAssumption
<1>1. CASE StartBuild(p)
  <2>1. [build |-> p, bootargs |-> p] \in Version
    BY DEF Version
  <2> QED
    BY <1>1, <2>1, TargetFacts DEF StartBuild, MayStart, TypeOK, Running
<1>2. CASE StartEdit(p)
  <2>1. PICK v \in Version : out' = [out EXCEPT ![p] = [v EXCEPT !.bootargs = p]]
    BY <1>2 DEF StartEdit
  <2>2. [v EXCEPT !.bootargs = p] \in Version
    BY DEF Version
  <2> QED
    BY <1>2, <2>1, <2>2, TargetFacts DEF StartEdit, MayStart, TypeOK, Running
<1>3. CASE EditFails(p)
  BY <1>3 DEF EditFails, MayStart, TypeOK, Running
<1>4. CASE OpenTmp(p)
  <2>1. PICK i \in Inode :
          /\ tmp' = [tmp EXCEPT ![Head(todo[p])] = i]
          /\ data' = [data EXCEPT ![i] = <<>>]
          /\ fd' = [fd EXCEPT ![p] = i]
    BY <1>4 DEF OpenTmp
  <2>2. <<>> \in Seq(Version \union {None}) /\ Len(<<>>) <= CHUNKS
    OBVIOUS
  <2>3. data' \in [Inode -> Seq(Version \union {None})] /\ \A j \in Inode : Len(data'[j]) <= CHUNKS
    BY <2>1, <2>2 DEF TypeOK
  <2> QED
    BY <1>4, <2>1, <2>3 DEF OpenTmp, TypeOK, Running
<1>5. CASE WriteChunk(p)
  <2>1. fd[p] \in Inode /\ off[p] \in 0..(CHUNKS - 1) /\ out[p] \in Version
    BY <1>5 DEF WriteChunk, TypeOK, Running
  <2>2. off[p] + 1 \in Nat \ {0} /\ off[p] + 1 <= CHUNKS
    BY <2>1
  <2>3. PICK b : b = Put(data[fd[p]], off[p] + 1, out[p])
    OBVIOUS
  <2>4. data[fd[p]] \in Seq(Version \union {None}) /\ Len(data[fd[p]]) <= CHUNKS
    BY <2>1 DEF TypeOK
  <2>5. b \in Seq(Version \union {None}) /\ Len(b) <= CHUNKS
    <3>1. data[fd[p]] \in Seq(Chunk)
      BY <2>4 DEF Chunk
    <3>2. b \in Seq(Chunk)
          /\ Len(b) = (IF Len(data[fd[p]]) > off[p] + 1 THEN Len(data[fd[p]]) ELSE off[p] + 1)
      BY <2>1, <2>2, <2>3, <3>1, PutFacts
    <3> QED
      BY <2>2, <2>4, <3>2 DEF Chunk
  <2>6. data' = [data EXCEPT ![fd[p]] = b]
    BY <1>5, <2>3 DEF WriteChunk
  <2>7. data' \in [Inode -> Seq(Version \union {None})] /\ \A j \in Inode : Len(data'[j]) <= CHUNKS
    BY <2>1, <2>5, <2>6 DEF TypeOK
  <2>8. off' \in [Proc -> 0..(CHUNKS - 1)]
    BY <1>5, <2>1 DEF WriteChunk, TypeOK
  <2> QED
    BY <1>5, <2>7, <2>8 DEF WriteChunk, TypeOK, Running
<1>6. CASE Rename(p)
  <2>1. todo[p] \in Seq(Path) /\ todo[p] # <<>>
    BY <1>6 DEF Rename, TypeOK, Running
  <2>2. Tail(todo[p]) \in Seq(Path) /\ Head(todo[p]) \in Path
        /\ (Len(todo[p]) # 1 => Tail(todo[p]) # <<>>)
    BY <2>1, TailFacts
  <2> QED
    BY <1>6, <2>1, <2>2 DEF Rename, TypeOK, Running
<1>7. CASE Stop(p)
  BY <1>7 DEF Stop, TypeOK, Running
<1> QED
  BY <1>1, <1>2, <1>3, <1>4, <1>5, <1>6, <1>7

\* The reader's steps keep the types.
LEMMA ReaderTypes ==
  ASSUME TypeOK, NEW r \in Reader, ReaderClose(r) \/ \E x \in Path : ReaderOpen(r, x)
  PROVE  TypeOK'
  BY DEF ReaderClose, ReaderOpen, TypeOK, Running

\* Every file, descriptor and offset stays well-formed, with any interleaving
\* of processes on shared paths.
THEOREM TypeCorrect == Spec => []TypeOK
<1>1. Init => TypeOK
  BY FileAssumption DEF Init, TypeOK, Running
<1>2. TypeOK /\ [Next]_vars => TypeOK'
  <2> SUFFICES ASSUME TypeOK, [Next]_vars PROVE TypeOK'
    OBVIOUS
  <2>1. CASE UNCHANGED vars
    BY <2>1 DEF TypeOK, vars, Running
  <2> QED
    BY <2>1, ProcessTypes, ReaderTypes DEF Next
<1> QED
  BY <1>1, <1>2, PTL DEF Spec

-----------------------------------------------------------------------------
(***************************************************************************)
(* The inductive invariant of exclusive use.  Processes that run use       *)
(* different paths; what a process has written so far is exactly the inode *)
(* its temporary path names; and no inode of a temporary path is one a     *)
(* destination names or a reader has open.  The last part is what makes    *)
(* writing invisible, the second what makes the rename publish a whole     *)
(* file.                                                                   *)
(***************************************************************************)
Target(p) == Head(todo[p])

Alone ==
  /\ \A p, q \in Proc : p # q /\ Running(p) /\ Running(q) => Uses(p) \intersect Uses(q) = {}
  /\ \A p \in Proc : Running(p) => \A k \in 1..Len(todo[p]) : todo[p][k] \in Uses(p)

Writing ==
  \A p \in Proc :
    IF pc[p] = "write"
    THEN /\ fd[p] = tmp[Target(p)] /\ fd[p] \in Inode
         /\ Len(data[fd[p]]) = off[p]
         /\ \A k \in 1..off[p] : data[fd[p]][k] = out[p]
    ELSE fd[p] = None /\ off[p] = 0

Written ==
  \A p \in Proc : pc[p] = "rename" =>
    tmp[Target(p)] \in Inode /\ data[tmp[Target(p)]] = Whole(out[p])

TmpApart ==
  /\ \A x, y \in Path : tmp[x] # None => dst[y] # tmp[x]
  /\ \A x, y \in Path : x # y /\ tmp[x] # None => tmp[x] # tmp[y]
  /\ \A x \in Path, r \in Reader : tmp[x] # None => held[r] # tmp[x]

FInv == TypeOK /\ Alone /\ Writing /\ Written /\ TmpApart /\ ReaderNeverSeesHalfWrittenFile

\* A running process has a destination, one it uses.
LEMMA TargetIsUsed ==
  ASSUME FInv, NEW p \in Proc, Running(p)
  PROVE  Target(p) \in Path /\ Target(p) \in Uses(p) /\ out[p] \in Version
<1>1. todo[p] \in Seq(Path) /\ todo[p] # <<>> /\ out[p] \in Version
  BY DEF FInv, TypeOK
<1>2. Head(todo[p]) \in Path /\ Head(todo[p]) = todo[p][1] /\ 1 \in 1..Len(todo[p])
  BY <1>1, TailFacts
<1> QED
  BY <1>1, <1>2 DEF FInv, Alone, Target

\* Two running processes have different destinations.
LEMMA TargetsDiffer ==
  ASSUME FInv, NEW p \in Proc, NEW q \in Proc, p # q, Running(p), Running(q)
  PROVE  Target(p) # Target(q)
  BY TargetIsUsed DEF FInv, Alone

\* Starting, and failing to start, keep the invariant.
LEMMA StartKeeps ==
  ASSUME FInv, Exclusive, NEW p \in Proc, StartBuild(p) \/ StartEdit(p) \/ EditFails(p)
  PROVE  FInv'
<1>1. TypeOK'
  BY ProcessTypes DEF FInv
<1>2. /\ UNCHANGED <<dst, tmp, data, fd, off, held>>
      /\ pc[p] = "idle"
      /\ \A q \in Proc : Running(q) => Uses(p) \intersect Uses(q) = {}
      /\ \A q \in Proc : q # p => pc'[q] = pc[q] /\ todo'[q] = todo[q] /\ out'[q] = out[q]
      /\ pc'[p] \in {"open", "failed"}
      /\ pc'[p] = "open" => todo'[p] = Targets(p)
  <2>1. pc \in [Proc -> {"idle", "open", "write", "rename", "ok", "failed"}]
        /\ DOMAIN todo = Proc /\ DOMAIN out = Proc
    BY DEF FInv, TypeOK
  <2> QED
    BY <2>1 DEF StartBuild, StartEdit, EditFails, MayStart
<1>3. Alone'
  <2>1. ASSUME NEW q \in Proc, Running(q)'
        PROVE  \A k \in 1..Len(todo'[q]) : todo'[q][k] \in Uses(q)
    <3>1. CASE q = p
      BY <1>2, <2>1, <3>1, TargetFacts DEF Running
    <3>2. CASE q # p
      BY <1>2, <2>1, <3>2 DEF FInv, Alone, Running
    <3> QED
      BY <3>1, <3>2
  <2>2. ASSUME NEW q \in Proc, NEW r \in Proc, q # r, Running(q)', Running(r)'
        PROVE  Uses(q) \intersect Uses(r) = {}
    BY <1>2, <2>2 DEF FInv, Alone, Running
  <2>3. \A q \in Proc : Uses(q)' = Uses(q)
    BY DEF Uses, Targets
  <2> QED
    BY <2>1, <2>2, <2>3 DEF Alone
<1>4. Writing'
  <2>1. ASSUME NEW q \in Proc, q # p
        PROVE  pc'[q] = pc[q] /\ Target(q)' = Target(q) /\ out'[q] = out[q]
    BY <1>2, <2>1 DEF Target
  <2>2. fd'[p] = None /\ off'[p] = 0
    BY <1>2 DEF FInv, Writing
  <2> QED
    BY <1>2, <2>1, <2>2 DEF FInv, Writing
<1>5. Written'
  BY <1>2 DEF FInv, Written, Target, Whole
<1>6. TmpApart' /\ ReaderNeverSeesHalfWrittenFile'
  BY <1>2 DEF FInv, TmpApart, ReaderNeverSeesHalfWrittenFile, Visible, Complete, Whole, Version
<1> QED
  BY <1>1, <1>3, <1>4, <1>5, <1>6 DEF FInv

\* Changing an inode that only the temporary path of p names disturbs nobody
\* else: no file a reader can see, no other process's file.
LEMMA OthersUntouched ==
  ASSUME FInv, NEW p \in Proc, Running(p), NEW i \in Inode, NEW b,
         data' = [data EXCEPT ![i] = b],
         i = tmp[Target(p)] \/ Free(i)
  PROVE  /\ \A x \in Path : dst[x] # None => data'[dst[x]] = data[dst[x]]
         /\ \A r \in Reader : held[r] # None => data'[held[r]] = data[held[r]]
         /\ \A q \in Proc : q # p /\ pc[q] = "write" => fd[q] # i /\ data'[fd[q]] = data[fd[q]]
         /\ \A q \in Proc : q # p /\ pc[q] = "rename" =>
              tmp[Target(q)] # i /\ data'[tmp[Target(q)]] = data[tmp[Target(q)]]
         /\ \A x \in Path : x # Target(p) => tmp[x] # i
<1>1. i # None /\ data \in [Inode -> Seq(Version \union {None})]
      /\ dst \in [Path -> Inode \union {None}] /\ held \in [Reader -> Inode \union {None}]
      /\ tmp \in [Path -> Inode \union {None}]
  BY FileAssumption DEF FInv, TypeOK
<1>2. Target(p) \in Path
  BY TargetIsUsed
<1>3. \A x \in Path : dst[x] # i /\ (x # Target(p) => tmp[x] # i)
  BY <1>1, <1>2 DEF FInv, TmpApart, Free
<1>4. \A r \in Reader : held[r] # i
  BY <1>1, <1>2 DEF FInv, TmpApart, Free
<1>5. ASSUME NEW q \in Proc, q # p, Running(q)
      PROVE  Target(q) \in Path /\ Target(q) # Target(p) /\ tmp[Target(q)] # i
  BY <1>3, <1>5, TargetsDiffer, TargetIsUsed
<1>6. ASSUME NEW q \in Proc, q # p, pc[q] = "write"
      PROVE  fd[q] # i /\ data'[fd[q]] = data[fd[q]]
  <2>1. fd[q] = tmp[Target(q)] /\ fd[q] \in Inode
    BY <1>6 DEF FInv, Writing
  <2>2. tmp[Target(q)] # i
    BY <1>5, <1>6 DEF Running
  <2> QED
    BY <1>1, <2>1, <2>2
<1>7. ASSUME NEW q \in Proc, q # p, pc[q] = "rename"
      PROVE  tmp[Target(q)] # i /\ data'[tmp[Target(q)]] = data[tmp[Target(q)]]
  <2>1. tmp[Target(q)] \in Inode
    BY <1>7 DEF FInv, Written
  <2>2. tmp[Target(q)] # i
    BY <1>5, <1>7 DEF Running
  <2> QED
    BY <1>1, <2>1, <2>2
<1> QED
  BY <1>1, <1>3, <1>4, <1>6, <1>7

\* Opening the temporary file keeps the invariant.
LEMMA OpenKeeps ==
  ASSUME FInv, NEW p \in Proc, OpenTmp(p)
  PROVE  FInv'
<1>1. TypeOK'
  BY ProcessTypes DEF FInv
<1>2. PICK i \in Inode :
        /\ IF tmp[Target(p)] = None THEN Fresh(i) ELSE i = tmp[Target(p)]
        /\ tmp' = [tmp EXCEPT ![Target(p)] = i]
        /\ data' = [data EXCEPT ![i] = <<>>]
        /\ fd' = [fd EXCEPT ![p] = i]
  BY DEF OpenTmp, Target
<1>3. /\ pc[p] = "open" /\ Running(p)
      /\ UNCHANGED <<dst, todo, off, out, held>>
      /\ pc' = [pc EXCEPT ![p] = "write"]
  BY DEF OpenTmp, Running
<1>4. i = tmp[Target(p)] \/ Free(i)
  BY <1>2 DEF Fresh
<1>5. Target(p) \in Path /\ i # None
  BY <1>3, TargetIsUsed, FileAssumption
<1>6. /\ pc \in [Proc -> {"idle", "open", "write", "rename", "ok", "failed"}]
      /\ fd \in [Proc -> Inode \union {None}]
      /\ tmp \in [Path -> Inode \union {None}]
      /\ dst \in [Path -> Inode \union {None}]
      /\ held \in [Reader -> Inode \union {None}]
      /\ data \in [Inode -> Seq(Version \union {None})]
  BY DEF FInv, TypeOK
<1>7. \A q \in Proc : Target(q)' = Target(q) /\ out'[q] = out[q] /\ off'[q] = off[q]
  BY <1>3 DEF Target
<1>8. /\ \A x \in Path : dst[x] # None => data'[dst[x]] = data[dst[x]]
      /\ \A r \in Reader : held[r] # None => data'[held[r]] = data[held[r]]
      /\ \A q \in Proc : q # p /\ pc[q] = "write" => fd[q] # i /\ data'[fd[q]] = data[fd[q]]
      /\ \A q \in Proc : q # p /\ pc[q] = "rename" =>
           tmp[Target(q)] # i /\ data'[tmp[Target(q)]] = data[tmp[Target(q)]]
      /\ \A x \in Path : x # Target(p) => tmp[x] # i
  <2>1. data' = [data EXCEPT ![i] = <<>>]
    BY <1>2
  <2>2. Running(p)
    BY <1>3
  <2> QED
    BY <1>4, <2>1, <2>2, OthersUntouched
<1>9. \A q \in Proc : q # p /\ Running(q) => Target(q) \in Path /\ Target(q) # Target(p)
  BY <1>3, TargetsDiffer, TargetIsUsed
<1>10. Alone'
  <2>1. \A q \in Proc : Running(q)' <=> Running(q)
    BY <1>3, <1>6 DEF Running
  <2>2. \A q \in Proc : Uses(q)' = Uses(q)
    BY DEF Uses, Targets
  <2> QED
    BY <1>3, <2>1, <2>2 DEF FInv, Alone
<1>11. Writing'
  <2>1. pc'[p] = "write" /\ fd'[p] = i /\ tmp'[Target(p)] = i /\ data'[i] = <<>> /\ off'[p] = 0
    BY <1>2, <1>3, <1>5, <1>6 DEF FInv, Writing
  <2>2. ASSUME NEW q \in Proc, q # p
        PROVE  pc'[q] = pc[q] /\ fd'[q] = fd[q] /\ (pc[q] = "write" => tmp'[Target(q)] = tmp[Target(q)])
    BY <1>2, <1>3, <1>5, <1>6, <1>9, <2>2 DEF Running
  <2>3. ASSUME NEW q \in Proc
        PROVE  IF pc'[q] = "write"
               THEN /\ fd'[q] = tmp'[Target(q)'] /\ fd'[q] \in Inode
                    /\ Len(data'[fd'[q]]) = off'[q]
                    /\ \A k \in 1..off'[q] : data'[fd'[q]][k] = out'[q]
               ELSE fd'[q] = None /\ off'[q] = 0
    <3>1. CASE q = p
      BY <1>7, <2>1, <3>1
    <3>2. CASE q # p
      BY <1>7, <1>8, <2>2, <3>2 DEF FInv, Writing
    <3> QED
      BY <3>1, <3>2
  <2> QED
    BY <2>3 DEF Writing
<1>12. Written'
  <2>1. ASSUME NEW q \in Proc, pc'[q] = "rename"
        PROVE  tmp'[Target(q)'] \in Inode /\ data'[tmp'[Target(q)']] = Whole(out'[q])
    <3>1. q # p /\ pc[q] = "rename"
      BY <1>3, <1>6, <2>1
    <3>2. tmp'[Target(q)] = tmp[Target(q)]
      BY <1>2, <1>5, <1>6, <1>9, <3>1 DEF Running
    <3> QED
      BY <1>7, <1>8, <3>1, <3>2 DEF FInv, Written
  <2>2. \A q \in Proc : Whole(out[q])' = Whole(out'[q])
    BY DEF Whole
  <2> QED
    BY <2>1, <2>2 DEF Written
<1>13. TmpApart'
  <2>1. \A y \in Path : dst[y] # i
    BY <1>4, <1>5 DEF FInv, TmpApart, Free
  <2>2. \A r \in Reader : held[r] # i
    BY <1>4, <1>5 DEF FInv, TmpApart, Free
  <2>3. \A x \in Path : tmp'[x] = IF x = Target(p) THEN i ELSE tmp[x]
    BY <1>2, <1>5, <1>6
  <2> QED
    BY <1>3, <1>5, <1>8, <2>1, <2>2, <2>3 DEF FInv, TmpApart
<1>14. ReaderNeverSeesHalfWrittenFile'
  BY <1>3, <1>8 DEF FInv, ReaderNeverSeesHalfWrittenFile, Visible, Complete, Whole, Version
<1> QED
  BY <1>1, <1>10, <1>11, <1>12, <1>13, <1>14 DEF FInv

\* A write call keeps the invariant: the last one makes the inode whole.
LEMMA WriteKeeps ==
  ASSUME FInv, NEW p \in Proc, WriteChunk(p)
  PROVE  FInv'
<1>1. TypeOK'
  BY ProcessTypes DEF FInv
<1>2. /\ pc[p] = "write" /\ Running(p)
      /\ UNCHANGED <<dst, tmp, todo, out, held>>
  BY DEF WriteChunk, Running
<1>3. /\ pc \in [Proc -> {"idle", "open", "write", "rename", "ok", "failed"}]
      /\ fd \in [Proc -> Inode \union {None}]
      /\ off \in [Proc -> 0..(CHUNKS - 1)]
      /\ data \in [Inode -> Seq(Version \union {None})]
      /\ CHUNKS \in Nat \ {0}
  BY FileAssumption DEF FInv, TypeOK
<1>4. PICK i : i = fd[p]
  OBVIOUS
<1>5. PICK b : b = Put(data[i], off[p] + 1, out[p])
  OBVIOUS
<1>6. i \in Inode /\ i = tmp[Target(p)] /\ Target(p) \in Path /\ out[p] \in Version
  BY <1>2, <1>4, TargetIsUsed DEF FInv, Writing
<1>7. data' = [data EXCEPT ![i] = b]
  BY <1>4, <1>5 DEF WriteChunk
<1>8. /\ \A x \in Path : dst[x] # None => data'[dst[x]] = data[dst[x]]
      /\ \A r \in Reader : held[r] # None => data'[held[r]] = data[held[r]]
      /\ \A q \in Proc : q # p /\ pc[q] = "write" => fd[q] # i /\ data'[fd[q]] = data[fd[q]]
      /\ \A q \in Proc : q # p /\ pc[q] = "rename" =>
           tmp[Target(q)] # i /\ data'[tmp[Target(q)]] = data[tmp[Target(q)]]
      /\ \A x \in Path : x # Target(p) => tmp[x] # i
  <2>1. i = tmp[Target(p)] \/ Free(i)
    BY <1>6
  <2>2. i \in Inode
    BY <1>6
  <2>3. Running(p)
    BY <1>2
  <2> QED
    BY <1>7, <2>1, <2>2, <2>3, OthersUntouched
<1>9. \A q \in Proc : Target(q)' = Target(q)
  BY <1>2 DEF Target
<1>10. /\ Len(data[i]) = off[p] /\ off[p] \in 0..(CHUNKS - 1)
       /\ \A k \in 1..off[p] : data[i][k] = out[p]
  BY <1>2, <1>3, <1>4 DEF FInv, Writing
<1>11. /\ b \in Seq(Version \union {None}) /\ Len(b) = off[p] + 1
       /\ \A k \in 1..(off[p] + 1) : b[k] = out[p]
  <2>1. PICK c, n, v : c = data[i] /\ n = off[p] /\ v = out[p]
    OBVIOUS
  <2>2. c \in Seq(Chunk) /\ n \in Nat /\ n + 1 \in Nat \ {0} /\ v \in Version
    BY <1>3, <1>6, <1>10, <2>1 DEF Chunk
  <2>3. b = Put(c, n + 1, v) /\ Len(c) = n /\ \A k \in 1..n : c[k] = v
    BY <1>5, <1>10, <2>1
  <2>4. PICK m : m = n + 1
    OBVIOUS
  <2>5. /\ Put(c, m, v) \in Seq(Chunk)
        /\ Len(Put(c, m, v)) = (IF Len(c) > m THEN Len(c) ELSE m)
        /\ Put(c, m, v)[m] = v
        /\ \A j \in 1..Len(c) : j # m => Put(c, m, v)[j] = c[j]
    <3>1. c \in Seq(Chunk) /\ m \in Nat \ {0} /\ v \in Version
      BY <2>2, <2>4
    <3> QED
      BY <3>1, PutFacts, Zenon
  <2>6. b \in Seq(Chunk) /\ Len(b) = n + 1
    BY <2>2, <2>3, <2>4, <2>5
  <2>7. ASSUME NEW k \in 1..(n + 1)
        PROVE  b[k] = v
    <3>1. CASE k = n + 1
      BY <2>3, <2>4, <2>5, <3>1
    <3>2. CASE k # n + 1
      <4>1. k \in 1..n
        BY <2>2, <3>2
      <4> QED
        BY <2>2, <2>3, <2>4, <2>5, <3>2, <4>1
    <3> QED
      BY <3>1, <3>2
  <2> QED
    BY <2>1, <2>6, <2>7 DEF Chunk
<1>12. data'[i] = b
  BY <1>3, <1>6, <1>7
<1>13. \A q \in Proc : q # p => pc'[q] = pc[q] /\ fd'[q] = fd[q] /\ off'[q] = off[q]
  BY <1>3 DEF WriteChunk
<1>14. \/ pc'[p] = "write" /\ fd'[p] = i /\ off'[p] = off[p] + 1
       \/ off[p] + 1 = CHUNKS /\ pc'[p] = "rename" /\ fd'[p] = None /\ off'[p] = 0
  BY <1>3, <1>4 DEF WriteChunk
<1>15. Alone'
  <2>1. \A q \in Proc : Running(q)' <=> Running(q)
    BY <1>2, <1>13, <1>14 DEF Running
  <2>2. \A q \in Proc : Uses(q)' = Uses(q)
    BY DEF Uses, Targets
  <2> QED
    BY <1>2, <2>1, <2>2 DEF FInv, Alone
<1>16. Writing'
  <2>1. ASSUME NEW q \in Proc
        PROVE  IF pc'[q] = "write"
               THEN /\ fd'[q] = tmp'[Target(q)'] /\ fd'[q] \in Inode
                    /\ Len(data'[fd'[q]]) = off'[q]
                    /\ \A k \in 1..off'[q] : data'[fd'[q]][k] = out'[q]
               ELSE fd'[q] = None /\ off'[q] = 0
    <3>1. CASE q = p
      BY <1>2, <1>6, <1>9, <1>11, <1>12, <1>14, <3>1
    <3>2. CASE q # p
      BY <1>2, <1>8, <1>9, <1>13, <3>2 DEF FInv, Writing
    <3> QED
      BY <3>1, <3>2
  <2> QED
    BY <2>1 DEF Writing
<1>17. Written'
  <2>1. ASSUME NEW q \in Proc, pc'[q] = "rename"
        PROVE  tmp'[Target(q)'] \in Inode /\ data'[tmp'[Target(q)']] = Whole(out'[q])
    <3>1. CASE q = p
      <4>1. off[p] + 1 = CHUNKS
        BY <1>14, <2>1, <3>1
      <4>2. b = Whole(out[p])
        BY <1>3, <1>11, <4>1 DEF Whole
      <4> QED
        BY <1>2, <1>6, <1>9, <1>12, <3>1, <4>2
    <3>2. CASE q # p
      BY <1>2, <1>8, <1>9, <1>13, <2>1, <3>2 DEF FInv, Written
    <3> QED
      BY <3>1, <3>2
  <2>2. \A q \in Proc : Whole(out[q])' = Whole(out'[q])
    BY DEF Whole
  <2> QED
    BY <2>1, <2>2 DEF Written
<1>18. TmpApart'
  BY <1>2 DEF FInv, TmpApart
<1>19. ReaderNeverSeesHalfWrittenFile'
  BY <1>2, <1>8 DEF FInv, ReaderNeverSeesHalfWrittenFile, Visible, Complete, Whole, Version
<1> QED
  BY <1>1, <1>15, <1>16, <1>17, <1>18, <1>19 DEF FInv

\* The rename keeps the invariant: it publishes a whole file and frees the
\* temporary path.
LEMMA RenameKeeps ==
  ASSUME FInv, NEW p \in Proc, Rename(p)
  PROVE  /\ FInv' /\ out[p] \in Version
         /\ \A x \in Path : Visible(x)' = IF x = Target(p) THEN Whole(out[p]) ELSE Visible(x)
<1>1. TypeOK'
  BY ProcessTypes DEF FInv
<1>2. PICK x, i, v : x = Target(p) /\ i = tmp[Target(p)] /\ v = out[p]
  OBVIOUS
<1>3. /\ pc[p] = "rename" /\ Running(p)
      /\ UNCHANGED <<data, fd, off, out, held>>
      /\ dst' = [dst EXCEPT ![x] = i] /\ tmp' = [tmp EXCEPT ![x] = None]
      /\ todo' = [todo EXCEPT ![p] = Tail(@)]
      /\ pc' = [pc EXCEPT ![p] = IF Len(todo[p]) = 1 THEN "ok" ELSE "open"]
  BY <1>2 DEF Rename, Running, Target
<1>4. /\ pc \in [Proc -> {"idle", "open", "write", "rename", "ok", "failed"}]
      /\ todo \in [Proc -> Seq(Path)] /\ todo[p] # <<>>
      /\ tmp \in [Path -> Inode \union {None}]
      /\ dst \in [Path -> Inode \union {None}]
  BY <1>3 DEF FInv, TypeOK
<1>5. x \in Path /\ i \in Inode /\ i # None /\ v \in Version /\ data[i] = Whole(v)
  BY <1>2, <1>3, TargetIsUsed, FileAssumption DEF FInv, Written
<1>6. \A q \in Proc : q # p => pc'[q] = pc[q] /\ Target(q)' = Target(q)
  BY <1>3, <1>4 DEF Target
<1>7. \A q \in Proc : q # p /\ Running(q) => Target(q) \in Path /\ tmp'[Target(q)] = tmp[Target(q)]
  BY <1>2, <1>3, <1>4, TargetsDiffer, TargetIsUsed
<1>8. \A y \in Path : /\ tmp'[y] = IF y = x THEN None ELSE tmp[y]
                      /\ dst'[y] = IF y = x THEN i ELSE dst[y]
  BY <1>3, <1>4
<1>9. Alone'
  <2>1. \A q \in Proc : Running(q)' => Running(q)
    BY <1>3, <1>6 DEF Running
  <2>2. \A q \in Proc : Uses(q)' = Uses(q)
    BY DEF Uses, Targets
  <2>3. \A k \in 1..Len(todo'[p]) : todo'[p][k] \in Uses(p)
    <3>1. todo'[p] = Tail(todo[p]) /\ \A k \in 1..Len(todo[p]) : todo[p][k] \in Uses(p)
      BY <1>3, <1>4 DEF FInv, Alone
    <3>2. \A k \in 1..Len(Tail(todo[p])) :
            k + 1 \in 1..Len(todo[p]) /\ Tail(todo[p])[k] = todo[p][k + 1]
      <4>1. PICK t : t = todo[p]
        OBVIOUS
      <4>2. t \in Seq(Path) /\ t # <<>>
        BY <1>4, <4>1
      <4> QED
        BY <4>1, <4>2, TailFacts
    <3> QED
      BY <3>1, <3>2
  <2>4. \A q \in Proc : q # p => todo'[q] = todo[q]
    BY <1>3
  <2> QED
    BY <2>1, <2>2, <2>3, <2>4 DEF FInv, Alone
<1>10. Writing'
  <2>1. pc'[p] # "write" /\ fd'[p] = None /\ off'[p] = 0
    BY <1>3, <1>4 DEF FInv, Writing
  <2>2. ASSUME NEW q \in Proc
        PROVE  IF pc'[q] = "write"
               THEN /\ fd'[q] = tmp'[Target(q)'] /\ fd'[q] \in Inode
                    /\ Len(data'[fd'[q]]) = off'[q]
                    /\ \A k \in 1..off'[q] : data'[fd'[q]][k] = out'[q]
               ELSE fd'[q] = None /\ off'[q] = 0
    <3>1. CASE q = p
      BY <2>1, <3>1
    <3>2. CASE q # p
      BY <1>3, <1>6, <1>7, <3>2 DEF FInv, Writing, Running
    <3> QED
      BY <3>1, <3>2
  <2> QED
    BY <2>2 DEF Writing
<1>11. Written'
  <2>1. ASSUME NEW q \in Proc, pc'[q] = "rename"
        PROVE  tmp'[Target(q)'] \in Inode /\ data'[tmp'[Target(q)']] = Whole(out'[q])
    <3>1. q # p /\ pc[q] = "rename"
      BY <1>3, <1>4, <2>1
    <3> QED
      BY <1>3, <1>6, <1>7, <3>1 DEF FInv, Written, Running
  <2>2. \A q \in Proc : Whole(out[q])' = Whole(out'[q])
    BY DEF Whole
  <2> QED
    BY <2>1, <2>2 DEF Written
<1>12. TmpApart'
  <2>1. \A y \in Path : y # x => tmp[y] # i
    BY <1>2, <1>5 DEF FInv, TmpApart
  <2> QED
    BY <1>3, <1>8, <2>1 DEF FInv, TmpApart
<1>13. \A y \in Path : Visible(y)' = IF y = x THEN Whole(v) ELSE Visible(y)
  BY <1>3, <1>5, <1>8 DEF Visible
<1>14. ReaderNeverSeesHalfWrittenFile'
  <2>1. Whole(v) \in Complete /\ Complete' = Complete
    BY <1>5 DEF Complete, Whole, Version
  <2>2. \A y \in Path : dst'[y] # None => Visible(y)' \in Complete
    BY <1>8, <1>13, <2>1 DEF FInv, ReaderNeverSeesHalfWrittenFile
  <2>3. \A r \in Reader : held'[r] # None => data'[held'[r]] \in Complete
    BY <1>3 DEF FInv, ReaderNeverSeesHalfWrittenFile
  <2> QED
    BY <2>1, <2>2, <2>3 DEF ReaderNeverSeesHalfWrittenFile
<1>15. FInv'
  BY <1>1, <1>9, <1>10, <1>11, <1>12, <1>14 DEF FInv
<1> QED
  BY <1>2, <1>5, <1>13, <1>15

\* A process that stops, and a reader, keep the invariant.
LEMMA StopKeeps ==
  ASSUME FInv, NEW p \in Proc, Stop(p)
  PROVE  FInv'
<1>1. TypeOK'
  BY ProcessTypes DEF FInv
<1>2. /\ UNCHANGED <<dst, tmp, data, held>>
      /\ \A q \in Proc : q # p => /\ pc'[q] = pc[q] /\ fd'[q] = fd[q] /\ off'[q] = off[q]
                                   /\ out'[q] = out[q] /\ todo'[q] = todo[q]
      /\ pc'[p] = "failed" /\ fd'[p] = None /\ off'[p] = 0
  BY DEF FInv, TypeOK, Stop
<1>3. Alone'
  <2>1. \A q \in Proc : Uses(q)' = Uses(q)
    BY DEF Uses, Targets
  <2> QED
    BY <1>2, <2>1 DEF FInv, Alone, Running
<1>4. Writing' /\ Written'
  <2>1. \A q \in Proc : q # p => Target(q)' = Target(q) /\ Whole(out[q])' = Whole(out[q])
    BY <1>2 DEF Target, Whole
  <2>2. Writing'
    BY <1>2, <2>1 DEF FInv, Writing
  <2>3. Written'
    BY <1>2, <2>1 DEF FInv, Written
  <2> QED
    BY <2>2, <2>3
<1>5. TmpApart' /\ ReaderNeverSeesHalfWrittenFile'
  BY <1>2 DEF FInv, TmpApart, ReaderNeverSeesHalfWrittenFile, Visible, Complete, Whole, Version
<1> QED
  BY <1>1, <1>3, <1>4, <1>5 DEF FInv

\* What a reader does keeps the invariant: the file it opens is a destination's.
LEMMA ReaderKeeps ==
  ASSUME FInv, NEW r \in Reader, ReaderClose(r) \/ \E x \in Path : ReaderOpen(r, x)
  PROVE  FInv'
<1>1. TypeOK'
  BY ReaderTypes DEF FInv
<1>2. UNCHANGED <<dst, tmp, data, pc, todo, fd, off, out>>
  BY DEF ReaderClose, ReaderOpen
<1>3. Alone' /\ Writing' /\ Written'
  <2>1. \A q \in Proc : Uses(q)' = Uses(q)
    BY DEF Uses, Targets
  <2>2. Alone'
    BY <1>2, <2>1 DEF FInv, Alone, Running
  <2>3. Writing' /\ Written'
    BY <1>2 DEF FInv, Writing, Written, Target, Whole
  <2> QED
    BY <2>2, <2>3
<1>4. held \in [Reader -> Inode \union {None}]
  BY DEF FInv, TypeOK
<1>5. \A s \in Reader : held'[s] = held[s] \/ held'[s] = None
                       \/ \E x \in Path : dst[x] # None /\ held'[s] = dst[x]
  BY <1>4 DEF ReaderClose, ReaderOpen
<1>6. TmpApart'
  BY <1>2, <1>5 DEF FInv, TmpApart
<1>7. ReaderNeverSeesHalfWrittenFile'
  <2>1. \A x \in Path : dst[x] # None => data[dst[x]] \in Complete
    BY DEF FInv, ReaderNeverSeesHalfWrittenFile, Visible
  <2>2. Complete' = Complete /\ \A x \in Path : Visible(x)' = Visible(x)
    BY <1>2 DEF Complete, Whole, Version, Visible
  <2> QED
    BY <1>2, <1>5, <2>1, <2>2 DEF FInv, ReaderNeverSeesHalfWrittenFile
<1> QED
  BY <1>1, <1>3, <1>6, <1>7 DEF FInv

-----------------------------------------------------------------------------
\* The invariant holds before any process has run.
LEMMA InitHolds == Init => FInv
<1> SUFFICES ASSUME Init PROVE FInv
  OBVIOUS
<1>1. TypeOK
  BY FileAssumption DEF Init, TypeOK, Running
<1>2. \A p \in Proc : ~Running(p) /\ pc[p] = "idle"
  BY DEF Init, Running
<1> QED
  BY <1>1, <1>2 DEF FInv, Init, Alone, Writing, Written, TmpApart, ReaderNeverSeesHalfWrittenFile

\* A step that changes nothing keeps the invariant.
LEMMA StutterKeeps == FInv /\ UNCHANGED vars => FInv'
<1> SUFFICES ASSUME FInv, UNCHANGED vars PROVE FInv'
  OBVIOUS
<1>1. TypeOK' /\ Alone'
  BY DEF FInv, TypeOK, Alone, vars, Running, Uses, Targets
<1>2. Writing' /\ Written' /\ TmpApart'
  BY DEF FInv, Writing, Written, TmpApart, vars, Target, Whole
<1>3. ReaderNeverSeesHalfWrittenFile'
  BY DEF FInv, ReaderNeverSeesHalfWrittenFile, vars, Visible, Complete, Whole, Version
<1> QED
  BY <1>1, <1>2, <1>3 DEF FInv

\* Every step keeps the invariant while paths are used by one process at a time.
LEMMA NextKeeps ==
  ASSUME Exclusive
  PROVE  FInv /\ [Next]_vars => FInv'
<1> SUFFICES ASSUME FInv, [Next]_vars PROVE FInv'
  OBVIOUS
<1> QED
  BY StartKeeps, OpenKeeps, WriteKeeps, RenameKeeps, StopKeeps, ReaderKeeps, StutterKeeps DEF Next

\* The invariant holds throughout, under exclusive use.
THEOREM ExclusiveInvariance ==
  ASSUME Exclusive
  PROVE  Spec => []FInv
<1>1. FInv /\ [Next]_vars => FInv'
  BY NextKeeps
<1> QED
  BY InitHolds, <1>1, PTL DEF Spec

\* fs_ext.rs: "so a reader never observes a half-written file", for any number
\* of processes, crashes and readers, as long as no two processes write one
\* destination at the same time.
THEOREM NoHalfWrittenFile ==
  ASSUME Exclusive
  PROVE  Spec => []ReaderNeverSeesHalfWrittenFile
<1>1. FInv => ReaderNeverSeesHalfWrittenFile
  BY DEF FInv
<1> QED
  BY <1>1, ExclusiveInvariance, PTL

\* A step of a process before its rename leaves what readers see, and what they
\* have open, alone.
LEMMA WritingIsInvisible ==
  ASSUME FInv, [Next]_vars
  PROVE  /\ \A r \in Reader : held[r] # None => data'[held[r]] = data[held[r]]
         /\ \/ \A x \in Path : Visible(x)' = Visible(x)
            \/ \E p \in Proc : Rename(p)
<1>1. CASE \E p \in Proc : OpenTmp(p)
  <2>1. PICK p \in Proc : OpenTmp(p)
    BY <1>1
  <2>2. PICK i \in Inode :
          /\ IF tmp[Target(p)] = None THEN Fresh(i) ELSE i = tmp[Target(p)]
          /\ data' = [data EXCEPT ![i] = <<>>]
    BY <2>1 DEF OpenTmp, Target
  <2>3. Running(p) /\ dst' = dst
    BY <2>1 DEF OpenTmp, Running
  <2>4. i = tmp[Target(p)] \/ Free(i)
    BY <2>2 DEF Fresh
  <2>5. /\ \A x \in Path : dst[x] # None => data'[dst[x]] = data[dst[x]]
        /\ \A r \in Reader : held[r] # None => data'[held[r]] = data[held[r]]
    <3>1. data' = [data EXCEPT ![i] = <<>>]
      BY <2>2
    <3>2. Running(p)
      BY <2>3
    <3> QED
      BY <2>4, <3>1, <3>2, OthersUntouched
  <2> QED
    BY <2>3, <2>5 DEF Visible
<1>2. CASE \E p \in Proc : WriteChunk(p)
  <2>1. PICK p \in Proc : WriteChunk(p)
    BY <1>2
  <2>2. PICK i, b : i = fd[p] /\ b = Put(data[fd[p]], off[p] + 1, out[p])
    OBVIOUS
  <2>3. Running(p) /\ dst' = dst /\ pc[p] = "write"
    BY <2>1 DEF WriteChunk, Running
  <2>4. data' = [data EXCEPT ![i] = b]
    BY <2>1, <2>2 DEF WriteChunk
  <2>5. i \in Inode
    BY <2>2, <2>3 DEF FInv, Writing
  <2>6. i = tmp[Target(p)] \/ Free(i)
    BY <2>2, <2>3 DEF FInv, Writing
  <2>7. Running(p)
    BY <2>3
  <2>8. /\ \A x \in Path : dst[x] # None => data'[dst[x]] = data[dst[x]]
        /\ \A r \in Reader : held[r] # None => data'[held[r]] = data[held[r]]
    BY <2>4, <2>5, <2>6, <2>7, OthersUntouched
  <2> QED
    BY <2>3, <2>8 DEF Visible
<1>3. CASE \E p \in Proc : Rename(p)
  BY <1>3 DEF Rename
<1>4. CASE \/ \E p \in Proc : StartBuild(p) \/ StartEdit(p) \/ EditFails(p) \/ Stop(p)
           \/ \E r \in Reader : ReaderClose(r) \/ \E x \in Path : ReaderOpen(r, x)
           \/ UNCHANGED vars
  <2>1. data' = data /\ dst' = dst
    BY <1>4 DEF StartBuild, StartEdit, EditFails, Stop, ReaderClose, ReaderOpen, vars
  <2> QED
    BY <2>1 DEF Visible
<1> QED
  BY <1>1, <1>2, <1>3, <1>4 DEF Next

\* A file does not change under a reader that has it open.
THEOREM OpenFilesAreStable ==
  ASSUME Exclusive
  PROVE  Spec => OpenFileNeverChanges
<1>1. FInv /\ [Next]_vars =>
        [\A r \in Reader : held[r] # None /\ held'[r] = held[r]
                            => data'[held[r]] = data[held[r]]]_vars
  BY WritingIsInvisible
<1> QED
  BY <1>1, ExclusiveInvariance, PTL DEF Spec, OpenFileNeverChanges

\* atomic_write implements whole-file replacement under exclusive use: only a
\* rename is seen, and it swaps one complete file for another.
THEOREM ImplementsFileReplace ==
  ASSUME Exclusive
  PROVE  Spec => ReplacesWholeFiles
<1> DEFINE view == [x \in Path |-> Visible(x)]
<1>1. Init => Abstract!Init
  BY DEF Init, Abstract!Init, Visible
<1>2. FInv /\ [Next]_vars => [Abstract!Next]_view
  <2> SUFFICES ASSUME FInv, [Next]_vars PROVE [Abstract!Next]_view
    OBVIOUS
  <2>1. CASE \A x \in Path : Visible(x)' = Visible(x)
    BY <2>1
  <2>2. CASE \E p \in Proc : Rename(p)
    <3>1. PICK p \in Proc : Rename(p)
      BY <2>2
    <3>2. PICK v \in Version : \A x \in Path :
            Visible(x)' = IF x = Target(p) THEN Whole(v) ELSE Visible(x)
      BY <3>1, RenameKeeps
    <3>3. Target(p) \in Path /\ Whole(v) \in Complete
      BY <3>1, TargetIsUsed DEF Rename, Running, Complete
    <3>4. Abstract!Replace(Target(p), Whole(v))
      BY <3>2, <3>3 DEF Abstract!Replace
    <3> QED
      BY <3>3, <3>4 DEF Abstract!Next
  <2> QED
    BY <2>1, <2>2, WritingIsInvisible
<1> QED
  BY <1>1, <1>2, ExclusiveInvariance, PTL DEF Spec, ReplacesWholeFiles, Abstract!Spec

-----------------------------------------------------------------------------
(***************************************************************************)
(* The pair of a detached build.  A build that writes one file of a pair   *)
(* writes both, and no edit takes the PMI for the DTB: a plain build over  *)
(* the PMI of a pair would leave the DTB of the earlier build beside it.   *)
(*                                                                         *)
(* PairInv follows a DTB through its build and the edits after it: the     *)
(* DTB is there when its build goes on to the PMI, stays there until the   *)
(* PMI is, and keeps its build when its command line is edited.            *)
(***************************************************************************)
OnePair ==
  \A p \in Proc : Kind[p] = "detached" =>
    /\ PmiOf[p] # DtbOf[p]
    /\ \A q \in Proc :
         /\ Kind[q] = "cmdline" => DtbOf[q] # PmiOf[p]
         /\ Kind[q] # "cmdline" /\ Uses(p) \intersect Uses(q) # {}
              => Kind[q] = "detached" /\ PmiOf[q] = PmiOf[p] /\ DtbOf[q] = DtbOf[p]

\* The file at x is from the build b.
From(x, b) == \E v \in Version : Visible(x) = Whole(v) /\ v.build = b

Order ==
  \A p \in Proc : Running(p) =>
    todo[p] = Targets(p) \/ (Kind[p] = "detached" /\ todo[p] = <<PmiOf[p]>>)

Bytes ==
  \A p \in Proc : Running(p) =>
    IF Kind[p] = "cmdline" THEN From(DtbOf[p], out[p].build) ELSE out[p].build = p

DtbFirst ==
  \A p \in Proc : Running(p) /\ Kind[p] = "detached" /\ todo[p] = <<PmiOf[p]>> => From(DtbOf[p], p)

Pairs ==
  \A p, b \in Proc : Kind[p] = "detached" /\ From(DtbOf[p], b) =>
    /\ Kind[b] = "detached" /\ PmiOf[b] = PmiOf[p] /\ DtbOf[b] = DtbOf[p]
    /\ pc[b] = "ok" => From(PmiOf[p], b)

PairInv == Order /\ Bytes /\ DtbFirst /\ Pairs

\* A whole file is one version, so it is from one build.
LEMMA FromOne ==
  ASSUME NEW x, NEW b, NEW c, From(x, b), From(x, c)
  PROVE  b = c
<1>1. PICK v \in Version : Visible(x) = Whole(v) /\ v.build = b
  BY DEF From
<1>2. PICK w \in Version : Visible(x) = Whole(w) /\ w.build = c
  BY DEF From
<1>3. Whole(v)[1] = v /\ Whole(w)[1] = w
  BY FileAssumption DEF Whole
<1> QED
  BY <1>1, <1>2, <1>3

\* The file at x is from the same build when it is the same file.
LEMMA FromSame ==
  ASSUME NEW x, NEW b, Visible(x)' = Visible(x)
  PROVE  From(x, b)' <=> From(x, b)
  BY DEF From, Whole, Version

\* Which files a process writes, by its kind.
LEMMA PathsOf ==
  ASSUME NEW p \in Proc
  PROVE  /\ PmiOf[p] \in Path /\ DtbOf[p] \in Path /\ Kind[p] \in {"build", "detached", "cmdline"}
         /\ Kind[p] = "build" => Targets(p) = <<PmiOf[p]>> /\ PmiOf[p] \in Uses(p)
         /\ Kind[p] = "detached" => /\ Targets(p) = <<DtbOf[p], PmiOf[p]>>
                                    /\ PmiOf[p] \in Uses(p) /\ DtbOf[p] \in Uses(p)
         /\ Kind[p] = "cmdline" => Targets(p) = <<DtbOf[p]>> /\ DtbOf[p] \in Uses(p)
<1>1. PmiOf[p] \in Path /\ DtbOf[p] \in Path /\ Kind[p] \in {"build", "detached", "cmdline"}
  BY FileAssumption
<1>2. /\ Kind[p] = "build" => Targets(p) = <<PmiOf[p]>>
      /\ Kind[p] = "detached" => Targets(p) = <<DtbOf[p], PmiOf[p]>>
      /\ Kind[p] = "cmdline" => Targets(p) = <<DtbOf[p]>>
  BY <1>1 DEF Targets
<1>3. ASSUME NEW k \in 1..Len(Targets(p)) PROVE Targets(p)[k] \in Uses(p)
  BY DEF Uses
<1>4. ASSUME NEW x, NEW y
      PROVE  /\ 1 \in 1..Len(<<x>>) /\ <<x>>[1] = x
             /\ 1 \in 1..Len(<<x, y>>) /\ 2 \in 1..Len(<<x, y>>) /\ <<x, y>>[1] = x /\ <<x, y>>[2] = y
  OBVIOUS
<1>5. Kind[p] = "build" => PmiOf[p] \in Uses(p)
  BY <1>2, <1>3, <1>4
<1>6. Kind[p] = "cmdline" => DtbOf[p] \in Uses(p)
  BY <1>2, <1>3, <1>4
<1>7. Kind[p] = "detached" => PmiOf[p] \in Uses(p) /\ DtbOf[p] \in Uses(p)
  BY <1>2, <1>3, <1>4
<1> QED
  BY <1>1, <1>2, <1>5, <1>6, <1>7

\* A step that publishes nothing and starts nothing keeps the pairs.
LEMMA QuietKeepsPairs ==
  ASSUME PairInv, \A x \in Path : Visible(x)' = Visible(x),
         \A q \in Proc : Running(q)' => Running(q) /\ todo'[q] = todo[q] /\ out'[q] = out[q],
         \A q \in Proc : pc'[q] = "ok" => pc[q] = "ok"
  PROVE  PairInv'
<1>1. \A q \in Proc : \A b : /\ From(DtbOf[q], b)' <=> From(DtbOf[q], b)
                             /\ From(PmiOf[q], b)' <=> From(PmiOf[q], b)
  BY PathsOf, FromSame
<1>2. Order'
  BY DEF PairInv, Order, Targets
<1>3. Bytes' /\ DtbFirst'
  BY <1>1 DEF PairInv, Bytes, DtbFirst
<1>4. Pairs'
  BY <1>1 DEF PairInv, Pairs
<1> QED
  BY <1>2, <1>3, <1>4 DEF PairInv

\* So does a start: a build has its own bytes, an edit those of the DTB it read.
LEMMA StartKeepsPairs ==
  ASSUME FInv, PairInv, NEW p \in Proc, StartBuild(p) \/ StartEdit(p)
  PROVE  PairInv'
<1>1. /\ pc \in [Proc -> {"idle", "open", "write", "rename", "ok", "failed"}]
      /\ DOMAIN todo = Proc /\ DOMAIN out = Proc
  BY DEF FInv, TypeOK
<1>2. /\ pc' = [pc EXCEPT ![p] = "open"] /\ todo' = [todo EXCEPT ![p] = Targets(p)]
      /\ UNCHANGED <<dst, data>>
  BY DEF StartBuild, StartEdit
<1>3. \A q \in Proc : q # p => pc'[q] = pc[q] /\ todo'[q] = todo[q] /\ out'[q] = out[q]
  BY <1>1, <1>2 DEF StartBuild, StartEdit
<1>4. pc'[p] = "open" /\ todo'[p] = Targets(p)
  BY <1>1, <1>2
<1>5. \A q \in Proc : \A b : /\ From(DtbOf[q], b)' <=> From(DtbOf[q], b)
                             /\ From(PmiOf[q], b)' <=> From(PmiOf[q], b)
  BY <1>2, FromSame DEF Visible
<1>6. IF Kind[p] = "cmdline" THEN From(DtbOf[p], out'[p].build) ELSE out'[p].build = p
  <2>1. CASE StartBuild(p)
    BY <1>1, <2>1 DEF StartBuild
  <2>2. CASE StartEdit(p)
    <3>1. PICK v \in Version : Visible(DtbOf[p]) = Whole(v) /\ out'[p] = [v EXCEPT !.bootargs = p]
      BY <1>1, <2>2 DEF StartEdit
    <3>2. out'[p].build = v.build
      BY <3>1 DEF Version
    <3>3. Kind[p] = "cmdline"
      BY <2>2 DEF StartEdit
    <3> QED
      BY <3>1, <3>2, <3>3 DEF From
  <2> QED
    BY <2>1, <2>2
<1>7. Order'
  <2>1. \A q \in Proc : Targets(q)' = Targets(q)
    BY DEF Targets
  <2> QED
    BY <1>3, <1>4, <2>1 DEF PairInv, Order, Running
<1>8. Bytes'
  <2> SUFFICES ASSUME NEW q \in Proc, Running(q)'
               PROVE  IF Kind[q] = "cmdline" THEN From(DtbOf[q], out[q].build)' ELSE out'[q].build = q
    BY DEF Bytes
  <2>1. PICK b : b = out'[q].build
    OBVIOUS
  <2>2. IF Kind[q] = "cmdline" THEN From(DtbOf[q], b) ELSE b = q
    <3>1. CASE q = p
      BY <1>6, <2>1, <3>1
    <3>2. CASE q # p
      BY <1>3, <2>1, <3>2 DEF PairInv, Bytes, Running
    <3> QED
      BY <3>1, <3>2
  <2>3. From(DtbOf[q], out[q].build)' <=> From(DtbOf[q], b)'
    BY <2>1 DEF From
  <2> QED
    BY <1>5, <2>1, <2>2, <2>3
<1>9. DtbFirst'
  <2> SUFFICES ASSUME NEW q \in Proc, Running(q)', Kind[q] = "detached", todo'[q] = <<PmiOf[q]>>
               PROVE  From(DtbOf[q], q)
    BY <1>5 DEF DtbFirst
  <2>1. q # p
    BY <1>4, PathsOf
  <2> QED
    BY <1>3, <2>1 DEF PairInv, DtbFirst, Running
<1>10. Pairs'
  BY <1>3, <1>4, <1>5 DEF PairInv, Pairs
<1> QED
  BY <1>7, <1>8, <1>9, <1>10 DEF PairInv

\* The rename of a detached build's DTB opens the pair, that of its PMI closes
\* it, and that of an edit leaves both builds as they were.
LEMMA RenameKeepsPairs ==
  ASSUME FInv, PairInv, OnePair, NEW p \in Proc, Rename(p)
  PROVE  PairInv'
<1>1. PICK x, v : x = Target(p) /\ v = out[p]
  OBVIOUS
<1>2. /\ pc \in [Proc -> {"idle", "open", "write", "rename", "ok", "failed"}]
      /\ todo \in [Proc -> Seq(Path)] /\ Running(p)
  BY DEF FInv, TypeOK, Rename, Running
<1>3. /\ \A q \in Proc : q # p => pc'[q] = pc[q] /\ todo'[q] = todo[q]
      /\ pc'[p] = (IF Len(todo[p]) = 1 THEN "ok" ELSE "open") /\ todo'[p] = Tail(todo[p])
      /\ out' = out
  BY <1>2 DEF Rename
<1>4. /\ v \in Version /\ x \in Path /\ x \in Uses(p)
      /\ \A y \in Path : Visible(y)' = IF y = x THEN Whole(v) ELSE Visible(y)
  BY <1>1, <1>2, RenameKeeps, TargetIsUsed
<1>5. ASSUME NEW y \in Path, NEW b
      PROVE  From(y, b)' <=> IF y = x THEN b = v.build ELSE From(y, b)
  <2>1. CASE y = x
    <3>1. Visible(y)' = Whole(v)
      BY <1>4, <2>1
    <3>2. From(y, v.build)'
      BY <1>4, <3>1 DEF From, Whole, Version
    <3>3. ASSUME From(y, b)' PROVE b = v.build
      <4>1. PICK w \in Version : Whole(v) = Whole(w) /\ w.build = b
        BY <3>1, <3>3 DEF From, Whole, Version
      <4>2. Whole(v)[1] = v /\ Whole(w)[1] = w
        BY FileAssumption DEF Whole
      <4> QED
        BY <4>1, <4>2
    <3> QED
      BY <2>1, <3>2, <3>3
  <2>2. CASE y # x
    BY <1>4, <2>2, FromSame
  <2> QED
    BY <2>1, <2>2
\* Where p is in its list.
<1>6. \/ Kind[p] # "detached" /\ todo[p] = Targets(p) /\ Len(todo[p]) = 1
         /\ x = (IF Kind[p] = "cmdline" THEN DtbOf[p] ELSE PmiOf[p])
      \/ Kind[p] = "detached" /\ Len(todo[p]) = 2 /\ x = DtbOf[p] /\ todo'[p] = <<PmiOf[p]>>
      \/ Kind[p] = "detached" /\ Len(todo[p]) = 1 /\ x = PmiOf[p] /\ todo[p] = <<PmiOf[p]>>
  <2>1. todo[p] = Targets(p) \/ (Kind[p] = "detached" /\ todo[p] = <<PmiOf[p]>>)
    BY <1>2 DEF PairInv, Order
  <2>2. CASE todo[p] = <<PmiOf[p]>>
    BY <1>1, <2>1, <2>2, PathsOf DEF Target
  <2>3. CASE todo[p] = <<DtbOf[p]>>
    BY <1>1, <2>1, <2>3, PathsOf DEF Target
  <2>4. CASE todo[p] = <<DtbOf[p], PmiOf[p]>>
    <3>1. Len(todo[p]) = 2 /\ x = DtbOf[p] /\ todo'[p] = <<PmiOf[p]>>
      BY <1>1, <1>3, <2>4 DEF Target
    <3>2. Kind[p] = "detached"
      <4>1. Len(<<DtbOf[p]>>) = 1 /\ Len(<<PmiOf[p]>>) = 1
        OBVIOUS
      <4> QED
        BY <2>1, <3>1, <4>1, PathsOf
    <3> QED
      BY <3>1, <3>2
  <2> QED
    BY <2>1, <2>2, <2>3, <2>4, PathsOf
<1>7. Kind[p] # "cmdline" => v.build = p
  BY <1>1, <1>2 DEF PairInv, Bytes
<1>8. Kind[p] = "cmdline" => From(DtbOf[p], v.build)
  BY <1>1, <1>2 DEF PairInv, Bytes
<1>9. ASSUME NEW q \in Proc, q # p, Running(q), NEW y \in Uses(q)
      PROVE  y # x
  BY <1>2, <1>4, <1>9 DEF FInv, Alone
<1>10. Order'
  <2>1. \A q \in Proc : Targets(q)' = Targets(q) /\ (Running(q)' /\ q # p => Running(q))
    BY <1>3 DEF Targets, Running
  <2>2. Running(p)' => Kind[p] = "detached" /\ todo'[p] = <<PmiOf[p]>>
    BY <1>3, <1>6 DEF Running
  <2> QED
    BY <1>3, <2>1, <2>2 DEF PairInv, Order
<1>11. Bytes'
  <2> SUFFICES ASSUME NEW q \in Proc, Running(q)'
               PROVE  IF Kind[q] = "cmdline" THEN From(DtbOf[q], out[q].build)' ELSE out'[q].build = q
    BY DEF Bytes
  <2>1. Running(q)
    BY <1>2, <1>3 DEF Running
  <2>2. CASE Kind[q] = "cmdline"
    <3>1. q # p
      BY <1>3, <1>6, <2>2 DEF Running
    <3>2. PICK b : b = out[q].build
      OBVIOUS
    <3>3. From(DtbOf[q], b) /\ DtbOf[q] # x /\ DtbOf[q] \in Path
      BY <1>9, <2>1, <2>2, <3>1, <3>2, PathsOf DEF PairInv, Bytes
    <3>4. From(DtbOf[q], b)'
      BY <1>5, <3>3
    <3>5. From(DtbOf[q], out[q].build)' <=> From(DtbOf[q], b)'
      BY <1>3, <3>2 DEF From
    <3> QED
      BY <2>2, <3>4, <3>5
  <2>3. CASE Kind[q] # "cmdline"
    BY <1>3, <2>1, <2>3 DEF PairInv, Bytes
  <2> QED
    BY <2>2, <2>3
<1>12. DtbFirst'
  <2> SUFFICES ASSUME NEW q \in Proc, Running(q)', Kind[q] = "detached", todo'[q] = <<PmiOf[q]>>
               PROVE  From(DtbOf[q], q)'
    BY DEF DtbFirst
  <2>1. DtbOf[q] \in Path /\ DtbOf[q] \in Uses(q)
    BY PathsOf
  <2>2. CASE q = p
    <3>1. x = DtbOf[p] /\ v.build = p
      BY <1>3, <1>6, <1>7, <2>2 DEF Running
    <3> QED
      BY <1>5, <2>1, <2>2, <3>1
  <2>3. CASE q # p
    <3>1. Running(q) /\ From(DtbOf[q], q) /\ DtbOf[q] # x
      BY <1>3, <1>9, <2>1, <2>3 DEF PairInv, DtbFirst, Running
    <3> QED
      BY <1>5, <2>1, <3>1
  <2> QED
    BY <2>2, <2>3
<1>13. Pairs'
  <2> SUFFICES ASSUME NEW q \in Proc, NEW b \in Proc, Kind[q] = "detached", From(DtbOf[q], b)'
               PROVE  /\ Kind[b] = "detached" /\ PmiOf[b] = PmiOf[q] /\ DtbOf[b] = DtbOf[q]
                      /\ pc'[b] = "ok" => From(PmiOf[q], b)'
    BY DEF Pairs
  <2>1. /\ DtbOf[q] \in Path /\ PmiOf[q] \in Path /\ PmiOf[q] # DtbOf[q]
        /\ DtbOf[q] \in Uses(q) /\ PmiOf[q] \in Uses(q)
        /\ Kind[p] = "cmdline" => DtbOf[p] # PmiOf[q]
        /\ Kind[p] # "cmdline" /\ Uses(q) \intersect Uses(p) # {}
             => Kind[p] = "detached" /\ PmiOf[p] = PmiOf[q] /\ DtbOf[p] = DtbOf[q]
    BY PathsOf DEF OnePair
  <2>2. CASE x = DtbOf[q]
    <3>1. b = v.build
      BY <1>5, <2>1, <2>2
    <3>2. CASE Kind[p] = "cmdline"
      <4>1. x = DtbOf[p] /\ From(DtbOf[q], b)
        BY <1>6, <1>8, <2>2, <3>1, <3>2
      <4>2. /\ Kind[b] = "detached" /\ PmiOf[b] = PmiOf[q] /\ DtbOf[b] = DtbOf[q]
            /\ pc[b] = "ok" => From(PmiOf[q], b)
        BY <4>1 DEF PairInv, Pairs
      <4>3. b # p /\ pc'[b] = pc[b]
        BY <1>3, <3>2, <4>2
      <4>4. From(PmiOf[q], b)' <=> From(PmiOf[q], b)
        BY <1>5, <2>1, <2>2
      <4> QED
        BY <4>2, <4>3, <4>4
    <3>3. CASE Kind[p] # "cmdline"
      <4>1. Kind[p] = "detached" /\ PmiOf[p] = PmiOf[q] /\ DtbOf[p] = DtbOf[q] /\ b = p
        BY <1>4, <1>7, <2>1, <2>2, <3>1, <3>3
      <4>2. pc'[p] = "open"
        BY <1>3, <1>6, <2>1, <2>2, <4>1
      <4> QED
        BY <4>1, <4>2
    <3> QED
      BY <3>2, <3>3
  <2>3. CASE x = PmiOf[q]
    <3>1. From(DtbOf[q], b)
      BY <1>5, <2>1, <2>3
    <3>2. Kind[p] = "detached" /\ PmiOf[p] = PmiOf[q] /\ DtbOf[p] = DtbOf[q]
      BY <1>4, <1>6, <2>1, <2>3
    <3>3. From(DtbOf[q], p)
      BY <1>2, <1>6, <2>1, <2>3, <3>2 DEF PairInv, DtbFirst
    <3>4. b = p
      BY <3>1, <3>3, FromOne
    <3>5. From(PmiOf[q], p)'
      BY <1>5, <1>7, <2>1, <2>3, <3>2
    <3> QED
      BY <3>2, <3>4, <3>5
  <2>4. CASE x # DtbOf[q] /\ x # PmiOf[q]
    <3>1. From(DtbOf[q], b) /\ (From(PmiOf[q], b)' <=> From(PmiOf[q], b))
      BY <1>5, <2>1, <2>4
    <3>2. /\ Kind[b] = "detached" /\ PmiOf[b] = PmiOf[q] /\ DtbOf[b] = DtbOf[q]
          /\ pc[b] = "ok" => From(PmiOf[q], b)
      BY <3>1 DEF PairInv, Pairs
    <3>3. b # p
      BY <1>6, <2>4, <3>2
    <3> QED
      BY <1>3, <3>1, <3>2, <3>3
  <2> QED
    BY <2>2, <2>3, <2>4
<1> QED
  BY <1>10, <1>11, <1>12, <1>13 DEF PairInv

\* Every step keeps the pairs.
LEMMA PairsKept ==
  ASSUME OnePair
  PROVE  FInv /\ PairInv /\ [Next]_vars => PairInv'
<1> SUFFICES ASSUME FInv, PairInv, [Next]_vars PROVE PairInv'
  OBVIOUS
<1>1. CASE \E p \in Proc : Rename(p)
  BY <1>1, RenameKeepsPairs
<1>2. CASE \E p \in Proc : StartBuild(p) \/ StartEdit(p)
  BY <1>2, StartKeepsPairs
<1>3. CASE \/ \E p \in Proc : EditFails(p) \/ OpenTmp(p) \/ WriteChunk(p) \/ Stop(p)
           \/ \E r \in Reader : ReaderClose(r) \/ \E x \in Path : ReaderOpen(r, x)
           \/ UNCHANGED vars
  <2>1. /\ pc \in [Proc -> {"idle", "open", "write", "rename", "ok", "failed"}]
        /\ DOMAIN todo = Proc /\ DOMAIN out = Proc
    BY DEF FInv, TypeOK
  <2>2. /\ \A q \in Proc : Running(q)' => Running(q) /\ todo'[q] = todo[q] /\ out'[q] = out[q]
        /\ \A q \in Proc : pc'[q] = "ok" => pc[q] = "ok"
    BY <1>3, <2>1 DEF EditFails, OpenTmp, WriteChunk, Stop, ReaderClose, ReaderOpen, vars, Running
  <2>3. ~\E p \in Proc : Rename(p)
    BY <1>3, <2>1 DEF Rename, EditFails, OpenTmp, WriteChunk, Stop, MayStart, ReaderClose, ReaderOpen, vars, Running
  <2>4. \A x \in Path : Visible(x)' = Visible(x)
    BY <2>3, WritingIsInvisible
  <2> QED
    BY <2>2, <2>4, QuietKeepsPairs
<1> QED
  BY <1>1, <1>2, <1>3 DEF Next

\* A PMI and a DTB of different builds lie side by side only while the build of
\* the DTB has not succeeded, for any builds and edits, stopped anywhere.
THEOREM NoMismatchAfterSuccess ==
  ASSUME Exclusive, OnePair
  PROVE  Spec => []MismatchOnlyFromUnfinishedBuild
<1>1. Init => PairInv
  <2> SUFFICES ASSUME Init PROVE PairInv
    OBVIOUS
  <2>1. \A p \in Proc : ~Running(p)
    BY DEF Init, Running
  <2>2. \A x \in Path : Visible(x) = None
    BY DEF Init, Visible
  <2>3. \A x \in Path : \A b : ~From(x, b)
    BY <2>2, FileAssumption DEF From, Complete
  <2> QED
    BY <2>1, <2>3, PathsOf DEF PairInv, Order, Bytes, DtbFirst, Pairs
<1>2. PairInv => MismatchOnlyFromUnfinishedBuild
  <2> SUFFICES ASSUME PairInv, NEW p \in Proc, Kind[p] = "detached", NEW v \in Version, NEW w \in Version,
                      Visible(PmiOf[p]) = Whole(v), Visible(DtbOf[p]) = Whole(w), pc[w.build] = "ok"
               PROVE  v.build = w.build
    BY DEF MismatchOnlyFromUnfinishedBuild
  <2>1. w.build \in Proc /\ From(DtbOf[p], w.build) /\ From(PmiOf[p], v.build)
    BY DEF From, Version
  <2>2. From(PmiOf[p], w.build)
    BY <2>1 DEF PairInv, Pairs
  <2> QED
    BY <2>1, <2>2, FromOne
<1>3. FInv /\ PairInv /\ [Next]_vars => PairInv'
  BY PairsKept
<1> QED
  BY <1>1, <1>2, <1>3, ExclusiveInvariance, PTL DEF Spec
=============================================================================
