-------------------------- MODULE ModuleSelection --------------------------
(***************************************************************************)
(* `arma build --module ...`: resolve() reads the index of the module      *)
(* tree, validates all of it, searches it twice (the whole index for       *)
(* cycles, then what the requested modules need), reads the files; build   *)
(* unpacks what the kernel cannot and materialize_modules() puts the files *)
(* in the initrd.  The searches are the steps of ModuleClosure.            *)
(*                                                                         *)
(* A path stands for a slash-joined string, BadPath for any that           *)
(* module_path() refuses (and a line without a colon).  An index file that *)
(* metadata() fails on (missing, no regular file, not UTF-8), which is     *)
(* before any of its lines is read, is one that begins with BadPath.  The  *)
(* bytes of a file are its format and its payload.                         *)
(***************************************************************************)
EXTENDS ModuleClosure

CONSTANTS
    Name,                     \* module names, '-' replaced by '_'
    BadPath,
    NameOf,                   \* path -> name: stem of the file name
    FormatOf,                 \* path -> "ko", "xz", "gz" or "zst": its suffix
    PlainOf,                  \* path -> the path without the compression suffix
    ParentsOf,                \* path or plain path -> its parent directories
    Request                   \* inputs of the command

\* A name's None, beside the paths of its Some: built in, no file.
Builtin == "builtin"

ASSUME RequestAssumption ==
    /\ BadPath \notin Path /\ Builtin \notin Path
    /\ NameOf \in [Path -> Name]
    /\ \A r \in Request :
         /\ r.dep \in Seq([path : Path \cup {BadPath}, deps : Seq(Path \cup {BadPath})])
         /\ r.builtin \in Seq(Path \cup {BadPath})
         /\ r.names \subseteq Name

VARIABLES
    request,
    pc,                       \* where the command is; "ok" and "error" are final
    at,                       \* the line of the index file being read
    names,                    \* requested name -> its path, or Builtin
    picked,                   \* `selected`: the paths of the requested names
    rest,                     \* the files not packed, then not archived yet
    archive                   \* path in the initrd -> bytes

selectionVars == <<closureVars, request, pc, at, names, picked, rest, archive>>

Init ==
    /\ request \in Request
    /\ pc = "tree" /\ at = 1
    /\ definitions = <<>> /\ names = <<>>
    /\ picked = {} /\ rest = {} /\ archive = <<>>
    /\ roots = {} /\ todo = {} /\ stack = <<>> /\ active = {} /\ done = {}
    /\ result = "ok"

Fail ==
    /\ pc' = "error"
    /\ UNCHANGED <<closureVars, request, at, names, picked, rest, archive>>

----------------------------------------------------------------------------
\* The directory given by --module-tree, or the one that the standard places
\* lead to for the kernel's release.
FindTree ==
    /\ pc = "tree" /\ Cardinality(request.trees) = 1
    /\ pc' = "dep"
    /\ UNCHANGED <<closureVars, request, at, names, picked, rest, archive>>

NoTree == pc = "tree" /\ Cardinality(request.trees) # 1 /\ Fail

\* An ambiguous name replaces the entry.
Ambiguous_Replaces(name) == FALSE

\* names.insert() for a requested name, which must not have an entry yet; the
\* names nobody asked for are not kept.
Ambiguous(name) == name \in request.names /\ name \in DOMAIN names

insert_name(name, target) ==
    names' = [n \in DOMAIN names \cup ({name} \cap request.names) |->
                IF n = name THEN target ELSE names[n]]

DepLine == request.dep[at]

Duplicate(deps) == \E i, j \in DOMAIN deps : i # j /\ deps[i] = deps[j]

GoodDepLine ==
    /\ DepLine.path # BadPath
    /\ \A i \in DOMAIN DepLine.deps : DepLine.deps[i] # BadPath
    /\ ~Duplicate(DepLine.deps)
    /\ DepLine.path \notin DOMAIN definitions
    /\ ~Ambiguous(NameOf[DepLine.path])

ReadDepLine ==
    /\ pc = "dep" /\ at <= Len(request.dep) /\ GoodDepLine
    /\ definitions' = [p \in DOMAIN definitions \cup {DepLine.path} |->
                         IF p = DepLine.path THEN {DepLine.deps[i] : i \in DOMAIN DepLine.deps}
                                             ELSE definitions[p]]
    /\ insert_name(NameOf[DepLine.path], DepLine.path)
    /\ at' = at + 1
    /\ UNCHANGED <<roots, todo, stack, active, done, result, request, pc, picked, rest, archive>>

RefuseDepLine == pc = "dep" /\ at <= Len(request.dep) /\ ~GoodDepLine /\ Fail

DepRead ==
    /\ pc = "dep" /\ at > Len(request.dep)
    /\ pc' = "builtin" /\ at' = 1
    /\ UNCHANGED <<closureVars, request, names, picked, rest, archive>>

BuiltinLine == request.builtin[at]

GoodBuiltinLine == BuiltinLine # BadPath /\ ~Ambiguous(NameOf[BuiltinLine])

ReadBuiltinLine ==
    /\ pc = "builtin" /\ at <= Len(request.builtin) /\ GoodBuiltinLine
    /\ insert_name(NameOf[BuiltinLine], Builtin)
    /\ at' = at + 1
    /\ UNCHANGED <<closureVars, request, pc, picked, rest, archive>>

RefuseBuiltinLine == pc = "builtin" /\ at <= Len(request.builtin) /\ ~GoodBuiltinLine /\ Fail

\* checked_file(): a regular file of the tree, reached through directories.
CheckedFile(p) == request.kind[p] # "other"

\* The dependencies are looked up only when they are searched.
ValidIndex_FilesOnly == \A p \in DOMAIN definitions : CheckedFile(p)

ValidIndex ==
    \A p \in DOMAIN definitions : CheckedFile(p) /\ definitions[p] \subseteq DOMAIN definitions

CheckIndex ==
    /\ pc = "builtin" /\ at > Len(request.builtin) /\ ValidIndex
    /\ StartClosure(DOMAIN definitions)
    /\ pc' = "all"
    /\ UNCHANGED <<definitions, request, at, names, picked, rest, archive>>

RefuseIndex == pc = "builtin" /\ at > Len(request.builtin) /\ ~ValidIndex /\ Fail

Search ==
    /\ pc \in {"all", "picked"} /\ ClosureStep
    /\ UNCHANGED <<request, pc, at, names, picked, rest, archive>>

SearchFails == pc \in {"all", "picked"} /\ result = "cycle" /\ Fail

Select ==
    /\ pc = "all" /\ result = "ok" /\ request.names \subseteq DOMAIN names
    /\ picked' = {names[n] : n \in request.names} \ {Builtin}
    /\ StartClosure(picked')
    /\ pc' = "picked"
    /\ UNCHANGED <<definitions, request, at, names, rest, archive>>

UnknownName == pc = "all" /\ result = "ok" /\ ~(request.names \subseteq DOMAIN names) /\ Fail

\* read_file(): no larger than a newc entry can be.
ReadFiles ==
    /\ pc = "picked" /\ result = "ok" /\ \A p \in done : request.kind[p] = "regular"
    /\ rest' = done
    /\ pc' = "pack"
    /\ UNCHANGED <<closureVars, request, at, names, picked, archive>>

ReadFails ==
    /\ pc = "picked" /\ result = "ok" /\ \E p \in done : request.kind[p] # "regular"
    /\ Fail

----------------------------------------------------------------------------
\* The option of the format is not looked at.
Keep_AnyFormat(p) == FormatOf[p] = "ko" \/ "decompress" \in request.options

\* check_module(): the kernel decompresses a format when both options are
\* built in; anything else is decompressed here.
Keep(p) == FormatOf[p] = "ko" \/ {"decompress", FormatOf[p]} \subseteq request.options

Packable(p) == "modules" \in request.options /\ (Keep(p) \/ request.payload[p] # "corrupt")

\* pack(): what becomes of the file's path and bytes.
Relative(p) == IF Keep(p) THEN p ELSE PlainOf[p]
Bytes(p) == [format |-> IF Keep(p) THEN FormatOf[p] ELSE "ko", payload |-> request.payload[p]]

Pack ==
    /\ pc = "pack" /\ \E p \in rest : Packable(p) /\ rest' = rest \ {p}
    /\ UNCHANGED <<closureVars, request, pc, at, names, picked, archive>>

PackFails == pc = "pack" /\ (\E p \in rest : ~Packable(p)) /\ Fail

Packed ==
    /\ pc = "pack" /\ rest = {}
    /\ pc' = "archive" /\ rest' = done
    /\ UNCHANGED <<closureVars, request, at, names, picked, archive>>

\* A file with the same path replaces the one before it.
Clashes_Replaces(p) == FALSE

\* files.insert() in materialize_modules().
Clashes(p) == Relative(p) \in DOMAIN archive /\ archive[Relative(p)] # Bytes(p)

Insert ==
    /\ pc = "archive"
    /\ \E p \in rest :
         /\ ~Clashes(p)
         /\ archive' = [f \in DOMAIN archive \cup {Relative(p)} |->
                          IF f = Relative(p) THEN Bytes(p) ELSE archive[f]]
         /\ rest' = rest \ {p}
    /\ UNCHANGED <<closureVars, request, pc, at, names, picked>>

InsertFails == pc = "archive" /\ (\E p \in rest : Clashes(p)) /\ Fail

FileIsDirectory == \E f, g \in DOMAIN archive : f \in ParentsOf[g]

Materialize ==
    /\ pc = "archive" /\ rest = {} /\ ~FileIsDirectory
    /\ pc' = "ok"
    /\ UNCHANGED <<closureVars, request, at, names, picked, rest, archive>>

MaterializeFails == pc = "archive" /\ rest = {} /\ FileIsDirectory /\ Fail

Next ==
    \/ FindTree \/ NoTree
    \/ ReadDepLine \/ RefuseDepLine \/ DepRead
    \/ ReadBuiltinLine \/ RefuseBuiltinLine
    \/ CheckIndex \/ RefuseIndex
    \/ Search \/ SearchFails \/ Select \/ UnknownName
    \/ ReadFiles \/ ReadFails
    \/ Pack \/ PackFails \/ Packed
    \/ Insert \/ InsertFails \/ Materialize \/ MaterializeFails

Finished == pc \in {"ok", "error"} /\ UNCHANGED selectionVars

Spec == Init /\ [][Next \/ Finished]_selectionVars /\ WF_selectionVars(Next)

----------------------------------------------------------------------------
Lines == {request.dep[i] : i \in DOMAIN request.dep}
Depends(p) == UNION {{l.deps[i] : i \in DOMAIN l.deps} : l \in {k \in Lines : k.path = p}}

\* What the modules in S need, by the text of modules.dep: the members of
\* every set that holds S and the dependencies of its members.
Needed(S) == {p \in Path : \A R \in SUBSET Path :
                 S \subseteq R /\ (\A q \in R : Depends(q) \subseteq R) => p \in R}

\* The ways a requested name is met, as lines of the two files.
Meanings(n) ==
    {<<"dep", i>> : i \in {j \in DOMAIN request.dep : NameOf[request.dep[j].path] = n}}
      \cup {<<"builtin", i>> : i \in {j \in DOMAIN request.builtin : NameOf[request.builtin[j]] = n}}

Chosen == {l.path : l \in {k \in Lines : NameOf[k.path] \in request.names}}

GoodIndex ==
    /\ \A l \in Lines : l.path # BadPath /\ ~Duplicate(l.deps)
    /\ \A i, j \in DOMAIN request.dep : request.dep[i].path = request.dep[j].path => i = j
    /\ \A l \in Lines : CheckedFile(l.path) /\ Depends(l.path) \subseteq {k.path : k \in Lines}
    /\ \A i \in DOMAIN request.builtin : request.builtin[i] # BadPath
    /\ ~\E C \in SUBSET {l.path : l \in Lines} : C # {} /\ \A p \in C : Depends(p) \cap C # {}

GoodFiles(S) ==
    /\ \A p \in S : request.kind[p] = "regular" /\ Packable(p)
    /\ \A p, q \in S : Relative(p) = Relative(q) => Bytes(p) = Bytes(q)
    /\ \A p, q \in S : Relative(p) \notin ParentsOf[Relative(q)]

Acceptable ==
    /\ Cardinality(request.trees) = 1
    /\ GoodIndex
    /\ \A n \in request.names : Cardinality(Meanings(n)) = 1
    /\ GoodFiles(Needed(Chosen))

\* The command accepts exactly the requests with one tree, a sound index (unique,
\* complete, acyclic, of regular files), names that mean one thing, and files
\* that can be put side by side: whatever the order of lines, roots and files.
VerdictIsExact == /\ pc = "ok" => Acceptable
                  /\ pc = "error" => ~Acceptable

\* What the guest's kernel can load.
Loadable(bytes) == bytes.format = "ko" \/ {"decompress", bytes.format} \subseteq request.options

\* The initrd holds every module the request needs, under a path that keeps
\* its own payload in a form the kernel can load, and no other file.
ArchiveIsWhatIsNeeded ==
    pc = "ok" =>
      /\ \A p \in Needed(Chosen) :
           \E f \in DOMAIN archive : /\ f \in {p, PlainOf[p]} /\ Loadable(archive[f])
                                     /\ archive[f].payload = request.payload[p]
      /\ \A f \in DOMAIN archive : \E p \in Needed(Chosen) : f \in {p, PlainOf[p]}

\* The searches only meet paths the index defines (definitions[&path] cannot
\* panic), and once the whole index was found acyclic the second search, from
\* the requested modules, cannot fail.
SearchesAreSafe == /\ pc \in {"all", "picked"} => ClosureTypeOK
                   /\ pc = "picked" => result # "cycle"

\* The command ends, for every index.
SelectionTerminates == <>(pc \in {"ok", "error"})
============================================================================
