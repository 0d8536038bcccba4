-------------------------------- MODULE PdbNodes --------------------------------
(***************************************************************************)
(* What the PDB says of each address (reccmp/cvdump/symbols.py and         *)
(* analysis.py), from all its symbols or from those of the modules that a  *)
(* targeted comparison selects (reccmp/cvdump/targeted.py).                *)
(*                                                                         *)
(* An address is a section and an offset in one number.  A PDB has         *)
(* publics [at, kind, name], sizerefs [module, at, size], globals [at,     *)
(* name, type, global], procRefs [module, name], modules [id, path], each  *)
(* a sequence, and of each module a stream of symbol records.              *)
(***************************************************************************)
EXTENDS Integers, FiniteSets, SequencesExt, TLC

CONSTANTS
    SizeOfType,     \* [type -> size], of the types that can be read
    MaxModules,
    None

Section(address) == address \div 100

-------------------------------------------------------------------------------
(* CvdumpSymbolsParser: procedures with the static variables in them.  An   *)
(* S_END closes the innermost block, or else the procedure.  One that       *)
(* cannot be read has no entry, nor have variables outside of procedures.   *)
ReadSymbol(acc, record) ==
    CASE record.kind = "proc" /\ record.readable ->
           [acc EXCEPT !.procs = Append(@, [at |-> record.at, name |-> record.name, size |-> record.size,
                                            global |-> record.global, statics |-> <<>>]),
                       !.current = Len(acc.procs) + 1]
      [] record.kind = "data" /\ acc.current # 0 ->
           [acc EXCEPT !.procs[acc.current].statics = Append(@, record)]
      [] record.kind = "block" -> [acc EXCEPT !.level = @ + 1]
      [] record.kind = "end" /\ acc.level > 0 -> [acc EXCEPT !.level = @ - 1]
      [] record.kind = "end" /\ acc.level = 0 -> [acc EXCEPT !.current = 0]
      [] OTHER -> acc

(* Mutant: the end of a block ends the procedure. *)
SymbolsFlat(stream) ==
    LET read(acc, r) == IF r.kind = "end" THEN [acc EXCEPT !.current = 0]
                        ELSE IF r.kind = "block" THEN acc ELSE ReadSymbol(acc, r)
    IN FoldLeft(read, [procs |-> <<>>, current |-> 0, level |-> 0], stream).procs

Symbols(stream) ==
    FoldLeft(ReadSymbol, [procs |-> <<>>, current |-> 0, level |-> 0], stream).procs

(* One parser reads all modules: what a module leaves open stays open.      *)
AllSymbols(pdb) ==
    Symbols(FlattenSeq([i \in DOMAIN pdb.modules |-> pdb.streams[pdb.modules[i].id]]))

(* merge_module_symbols: each of these modules is read by itself. *)
SymbolsOf(pdb, modules) ==
    FlattenSeq([i \in DOMAIN pdb.modules |->
                  IF pdb.modules[i].id \in modules THEN Symbols(pdb.streams[pdb.modules[i].id]) ELSE <<>>])

-------------------------------------------------------------------------------
(* CvdumpAnalysis: nodes by address. *)
Fresh == [decorated |-> None, friendly |-> None, type |-> None, confirmed |-> None,
          contribution |-> None, entry |-> None, parent |-> None, data |-> None]

With(nodes, address) == IF address \in DOMAIN nodes THEN nodes ELSE (address :> Fresh) @@ nodes

(* set_decorated *)
Decorated(nodes, public) ==
    LET node == [With(nodes, public.at)[public.at] EXCEPT !.decorated = public.name]
    IN (public.at :>
          CASE public.kind = "vtable" -> [node EXCEPT !.type = "vtable", !.friendly = public.name]
            [] public.kind = "vbtable" -> [node EXCEPT !.type = "data", !.friendly = public.name]
            [] public.kind = "string" -> [node EXCEPT !.type = "string"]
            [] public.kind = "real" -> [node EXCEPT !.type = "float", !.confirmed = 4]
            [] public.kind = "c" -> [node EXCEPT !.type = "function"]
            [] OTHER -> node) @@ nodes

Contributed(nodes, sizeref) ==
    LET known == With(nodes, sizeref.at) IN [known EXCEPT ![sizeref.at].contribution = sizeref.size]

(* Of several variables of one address, the largest. *)
AddGlobal(nodes, global) ==
    LET known == With(nodes, global.at)
        node == known[global.at]
        named == [node EXCEPT !.type = "data", !.friendly = IF @ = None THEN global.name ELSE @]
        size == IF node.confirmed = None THEN 0 ELSE node.confirmed
    IN IF global.at \notin DOMAIN nodes /\ global.global THEN nodes
       ELSE [known EXCEPT ![global.at] =
               IF global.type \notin DOMAIN SizeOfType \/ SizeOfType[global.type] < size THEN named
               ELSE [named EXCEPT !.friendly = global.name, !.confirmed = SizeOfType[global.type],
                                  !.data = global.type]]

(* A static variable is its function's. *)
AddStatic(owner, nodes, record) ==
    LET known == With(nodes, record.at)
        typed == record.type \in DOMAIN SizeOfType
    IN [known EXCEPT ![record.at] =
          [@ EXCEPT !.type = "data", !.parent = owner, !.friendly = record.name,
                    !.confirmed = IF typed THEN SizeOfType[record.type] ELSE @,
                    !.data = IF typed THEN record.type ELSE @]]

AddProc(nodes, proc) ==
    LET known == With(nodes, proc.at)
        function == [known EXCEPT ![proc.at] = [@ EXCEPT !.friendly = proc.name, !.confirmed = proc.size,
                                                         !.type = "function", !.entry = proc]]
    IN IF ~proc.global /\ known[proc.at].entry # None THEN known
       ELSE FoldLeft(LAMBDA n, r : AddStatic(proc.at, n, r), function, proc.statics)

Nodes(pdb, symbols) ==
    LET publics == FoldLeft(Decorated, [a \in {} |-> Fresh], pdb.publics)
        sized == FoldLeft(Contributed, publics, pdb.sizerefs)
        variables == FoldLeft(AddGlobal, sized, pdb.globals)
    IN FoldLeft(AddProc, variables, symbols)

(* _estimate_size: up to the next node of the section. *)
Estimate(nodes, address) ==
    LET after == {a \in DOMAIN nodes : a > address /\ Section(a) = Section(address)}
    IN IF after = {} THEN None ELSE Min(after) - address

Size(nodes, address) ==
    LET n == nodes[address] IN
    IF n.confirmed # None THEN n.confirmed
    ELSE IF Estimate(nodes, address) # None /\ n.contribution # None
      THEN Min({Estimate(nodes, address), n.contribution})
    ELSE IF Estimate(nodes, address) # None THEN Estimate(nodes, address) ELSE n.contribution

Name(node) == IF node.friendly # None THEN node.friendly ELSE node.decorated

-------------------------------------------------------------------------------
(* select_modules: a hint is a source and the name to look up there, or     *)
(* None; the module of a source is the one whose path ends most like it.    *)
Score(source, path) ==
    Max({0} \cup {n \in 1 .. Min({Len(source), Len(path)}) :
                    SubSeq(source, Len(source) - n + 1, Len(source)) = SubSeq(path, Len(path) - n + 1, Len(path))})

NameModules(pdb, name) ==
    IF name.mangled
      THEN {s.module : s \in {t \in ToSet(pdb.sizerefs) : \E p \in ToSet(pdb.publics) : p.name = name.of /\ p.at = t.at}}
      ELSE {r.module : r \in {q \in ToSet(pdb.procRefs) : q.name = name.of}}

SourceModules(pdb, source) ==
    LET score(m) == Score(source, m.path)
        best == {m \in ToSet(pdb.modules) : \A other \in ToSet(pdb.modules) : score(m) >= score(other)}
    IN {m.id : m \in {n \in best : score(n) > 0}}

HintModules(pdb, hint) ==
    IF hint.name # None THEN NameModules(pdb, hint.name) ELSE SourceModules(pdb, hint.source)

AddressModules(pdb, address) ==
    {s.module : s \in {t \in ToSet(pdb.sizerefs) :
        Section(t.at) = Section(address) /\ t.at <= address /\ address < t.at + t.size}}

(* None: the whole of the PDB has to be read. *)
Selected(pdb, hints, addresses) ==
    LET each == {HintModules(pdb, h) : h \in hints} \cup {AddressModules(pdb, a) : a \in addresses}
    IN IF {} \in each \/ Cardinality(UNION each) > MaxModules THEN None ELSE UNION each

Targeted(pdb, hints, addresses) ==
    IF Selected(pdb, hints, addresses) = None THEN AllSymbols(pdb)
    ELSE SymbolsOf(pdb, Selected(pdb, hints, addresses))

-------------------------------------------------------------------------------
(* A targeted read of the PDB tells of what it was asked for what the whole *)
(* tells: of the addresses, of the functions of the hinted sources and of   *)
(* those with a hinted name, each with the static variables that stand in   *)
(* it, however deep in blocks.  And a size that nobody confirmed keeps off  *)
(* the next node, and one with a data type has its size, no less than that  *)
(* of any variable there.                                                   *)
(* (A name a static function has too is not asked for: S_LPROCREF records   *)
(* are not read.)                                                           *)
Inside(stream, i, j) ==
    /\ stream[i].kind = "proc" /\ stream[i].readable /\ i < j
    /\ \A k \in i + 1 .. j - 1 :
         /\ stream[k].kind # "proc"
         /\ Cardinality({e \in i + 1 .. k : stream[e].kind = "end"}) <=
              Cardinality({b \in i + 1 .. k : stream[b].kind = "block"})

TargetedTellsAll(pdb, hints, addresses) ==
    LET all == Nodes(pdb, AllSymbols(pdb))
        some == Nodes(pdb, Targeted(pdb, hints, addresses))
        records == UNION {ToSet(pdb.streams[m.id]) : m \in ToSet(pdb.modules)}
        wanted == {m \in ToSet(pdb.modules) : \E h \in hints : h.name = None /\ IsSuffix(h.source, m.path)}
        asked == (addresses \cap DOMAIN all)
                 \cup UNION {{r.at : r \in {q \in ToSet(pdb.streams[m.id]) : q.kind \in {"proc", "data"}}} : m \in wanted}
                 \cup {r.at : r \in {q \in records :
                          q.kind = "proc" /\ \E h \in hints : h.name # None /\ h.name.of = q.name}}
                 \cup {p.at : p \in {q \in ToSet(pdb.publics) : \E h \in hints : h.name # None /\ h.name.of = q.name}}
    IN /\ \A a \in asked \cap DOMAIN all : a \in DOMAIN some /\ some[a] = all[a]
       /\ \A m \in ToSet(pdb.modules) :
            LET stream == pdb.streams[m.id] IN
            \A j \in DOMAIN stream : stream[j].kind = "data" =>
               /\ \A i \in DOMAIN stream : Inside(stream, i, j) =>
                    stream[j].at \in DOMAIN all /\ all[stream[j].at].parent = stream[i].at
               /\ (stream[j].at \in DOMAIN all /\ all[stream[j].at].parent # None) =>
                     \E i \in DOMAIN stream : Inside(stream, i, j)
       /\ \A a \in DOMAIN some :
            /\ some[a].confirmed = None =>
                 \A b \in DOMAIN some : b > a /\ Section(b) = Section(a) => a + Size(some, a) <= b
            /\ some[a].data # None => some[a].confirmed = SizeOfType[some[a].data]
            /\ \A g \in ToSet(pdb.globals) : g.at = a /\ ~g.global /\ g.type \in DOMAIN SizeOfType =>
                 some[a].confirmed >= SizeOfType[g.type]
===============================================================================
