------------------------------- MODULE Prototypes -------------------------------
(***************************************************************************)
(* The prototypes functions are decompiled with                            *)
(* (reccmp/ghidriff/preparation.py, _infer_requested_prototypes of         *)
(* engine.py).  Each step changes functions one at a time.                 *)
(*                                                                         *)
(* A function has the source of its signature, its convention, its         *)
(* explicit parameters' types, its return type and the record of its       *)
(* corrections; whether its first parameter is put into ECX by storage of  *)
(* its own; and what analysis can find: what its body infers (None: Ghidra *)
(* gives up), the functions it calls or ends in a jump to, and its         *)
(* instructions as far as they touch ECX.  A symbol demangles to a         *)
(* convention and parameters.                                              *)
(***************************************************************************)
EXTENDS Integers, Sequences, SequencesExt

CONSTANTS
    None,
    Width,          \* of a type in bytes
    Scalars,        \* integer, float and boolean types
    MaxScanned,     \* instructions looked at for a receiver
    ReturnLocks     \* Ghidra counts a return type as the whole signature's source

Auto(f) == f.conv = "thiscall" /\ ~f.custom

(* getParameterCount counts the automatic receiver. *)
Count(f) == Len(f.params) + (IF Auto(f) THEN 1 ELSE 0)

Register(f, i) ==
    IF i = 1 /\ (f.custom \/ f.conv = "fastcall") THEN "ECX"
    ELSE IF i = 2 /\ f.conv = "fastcall" /\ ~f.custom THEN "EDX" ELSE None

Signature(f) == <<f.conv, f.ret, (IF Auto(f) THEN <<"this">> ELSE <<>>) \o f.params>>

Inferred == {"DEFAULT", "ANALYSIS"}

(* _record_correction *)
Corrected(f, g, evidence) ==
    IF Signature(f) = Signature(g) THEN g
    ELSE [g EXCEPT !.history = Append(@, [evidence |-> evidence, before |-> Signature(f), after |-> Signature(g)])]

(* preparation_corrections *)
Reported(f) ==
    IF f.history = <<>> \/ Last(f.history).after # Signature(f) THEN <<>> ELSE f.history

-------------------------------------------------------------------------------
(* Both programs *)

LegacyCrt(f) ==
    IF f.kind # "swprintf" THEN f
    ELSE Corrected(f, [f EXCEPT !.conv = "cdecl", !.ret = "int", !.custom = FALSE, !.source = "IMPORTED",
                                !.params = <<"pointer", "pointer">>], "MSVCRT.DLL")

(* apply_stack_probe_call_fixups *)
Probe(f) == IF f.kind = "probe" /\ f.fixup = None THEN [f EXCEPT !.fixup = "alloca_probe"] ELSE f

(* infer_requested_callee_parameters *)
InferCallees(fs, requested, known) ==
    LET called == UNION {fs[r].calls \cup fs[r].tails : r \in requested \cap DOMAIN fs}
    IN [a \in DOMAIN fs |->
          IF a \in called \cap known /\ fs[a].source = "DEFAULT" /\ fs[a].infers # None
            THEN [fs[a] EXCEPT !.source = "ANALYSIS", !.conv = fs[a].infers.conv, !.params = fs[a].infers.params,
                               !.custom = fs[a].infers.custom, !.ret = fs[a].infers.ret]
            ELSE fs[a]]

(* apply_reviewed_scalar_returns *)
ReviewedReturn(f, name, recomp) ==
    IF \/ name = None \/ f.ret = name
       \/ (name = "uint" /\ (~recomp \/ f.ret # "void"))
       \/ (name = "undefined4" /\ (recomp \/ Width[f.ret] >= Width[name]))
       \/ (name = "undefined1" /\ (recomp \/ Width[f.ret] \notin {0, 2, 4}))
      THEN f
      ELSE Corrected(f, [f EXCEPT !.ret = name, !.source = IF ReturnLocks THEN "USER" ELSE @], "return")

-------------------------------------------------------------------------------
(* The original *)

(* apply_reviewed_cdecl_signatures *)
ReviewedCdecl(f, count) ==
    IF count = None \/ Count(f) >= count THEN f
    ELSE Corrected(f, [f EXCEPT !.conv = "cdecl", !.source = "USER",
                                !.params = @ \o [i \in 1 .. count - Len(@) |-> "undefined4"]], "reviewed")

(* _reads_receiver_register: a slot reserved by a push is no reading. *)
ReadsReceiver(body) ==
    \E n \in 1 .. MaxScanned \cap DOMAIN body :
        /\ body[n] = "read"
        /\ \A m \in 1 .. n : body[m] \notin {"call", "write"}

(* align_retail_receivers *)
RetailReceiver(f, symbol) ==
    IF symbol = None \/ f.kind # "plain" \/ symbol.conv # "thiscall" THEN f
    ELSE IF f.source = "DEFAULT"
      THEN IF ReadsReceiver(f.body) THEN Corrected(f, [f EXCEPT !.conv = "thiscall"], "receiver") ELSE f
    ELSE IF /\ f.source = "ANALYSIS" /\ f.conv \in {"thiscall", "fastcall"}
            /\ f.params # <<>> /\ Register(f, 1) = "ECX"
            /\ \A i \in 2 .. Len(f.params) : Register(f, i) = None
      THEN Corrected(f, [f EXCEPT !.conv = "thiscall", !.custom = FALSE, !.params = Tail(@)], "receiver")
    ELSE f

(* What _infer_requested_prototypes is given: the manifest's pairs of       *)
(* functions [orig, recomp, symbol], the pairs the run is about, the known  *)
(* functions of each program, and the reviewed facts by original address.   *)
PairsAt(m, a, image) == {p \in m.pairs : p[image] = a}

SymbolAt(m, a, image) ==
    IF PairsAt(m, a, image) = {} THEN None ELSE (CHOOSE p \in PairsAt(m, a, image) : TRUE).symbol

Reviewed(facts, a) == IF a \in DOMAIN facts THEN facts[a] ELSE None

Shared(fs, m, image) ==
    InferCallees([a \in DOMAIN fs |-> LegacyCrt(Probe(fs[a]))], {p[image] : p \in m.requested}, m.known[image])

Retail(fs, m) ==
    LET shared == Shared(fs, m, "orig")
    IN [a \in DOMAIN fs |-> RetailReceiver(ReviewedCdecl(shared[a], Reviewed(m.cdecl, a)), SymbolAt(m, a, "orig"))]

PreparedOriginal(fs, m) ==
    LET retail == Retail(fs, m)
    IN [a \in DOMAIN fs |-> ReviewedReturn(retail[a], Reviewed(m.returns, a), FALSE)]

(* Mutant: what the returns have locked is left out. *)
RetailSignatureLate(fs, m, a) ==
    LET f == PreparedOriginal(fs, m)[a]
    IN IF f.source = "ANALYSIS" \/ (f.source = "USER" /\ a \in DOMAIN m.cdecl)
         THEN [count |-> Count(f), conv |-> f.conv] ELSE None

(* _retail_signatures: taken before the returns are. *)
RetailSignature(fs, m, a) ==
    LET f == Retail(fs, m)[a]
    IN IF f.source = "ANALYSIS" \/ (f.source = "USER" /\ a \in DOMAIN m.cdecl)
         THEN [count |-> Count(f), conv |-> f.conv] ELSE None

-------------------------------------------------------------------------------
(* The recompiled program *)

(* correct_recompiled_signatures *)
RecompiledSignature(f, symbol, retail) ==
    IF symbol = None \/ retail = None \/ f.source \notin Inferred
       \/ (Count(f) = retail.count /\ f.conv = retail.conv)
      THEN f
    ELSE IF /\ symbol.conv = "thiscall" /\ retail.conv = "thiscall"
            /\ retail.count = Len(symbol.params) + 1 /\ Count(f) = Len(symbol.params)
      THEN Corrected(f, [f EXCEPT !.conv = "thiscall", !.source = "USER"], "symbol")
    ELSE IF /\ symbol.conv = "cdecl" /\ retail.conv = "cdecl"
            /\ ~symbol.varargs /\ Len(symbol.params) = retail.count
            /\ \A i \in Count(f) + 1 .. retail.count : Width[symbol.params[i]] \in 1 .. 4
      THEN Corrected(f, [f EXCEPT !.conv = "cdecl", !.source = "USER",
                                  !.params = [i \in 1 .. retail.count |-> IF i \in DOMAIN @ THEN @[i] ELSE "undefined4"]],
                     "symbol")
    ELSE f

(* apply_recompiled_scalar_parameters *)
ScalarParameters(f, symbol) ==
    LET typed == [i \in DOMAIN f.params |->
                    IF symbol.params[i] \in Scalars /\ Width[symbol.params[i]] = Width[f.params[i]]
                      THEN symbol.params[i] ELSE f.params[i]]
    IN IF symbol = None \/ f.source \notin Inferred THEN f
       ELSE IF symbol.conv # f.conv \/ Len(symbol.params) # Len(f.params) \/ typed = f.params THEN f
       ELSE Corrected(f, [f EXCEPT !.params = typed, !.source = "IMPORTED"], "scalar")

(* Folded functions have several pairs: the last one's signature is taken,  *)
(* and no symbol decides their parameters.  "retail" is by original.        *)
PreparedRecompiled(fs, m, retail) ==
    LET shared == Shared(fs, m, "recomp")
        pair(a) == PairsAt(m, a, "recomp")
        signed(a) ==
            IF pair(a) = {} THEN shared[a]
            ELSE LET p == CHOOSE q \in pair(a) : \A r \in pair(a) : r.orig <= q.orig
                 IN RecompiledSignature(shared[a], p.symbol, retail[p.orig])
        scalar(a) == IF \E p \in pair(a) : pair(a) = {p} THEN ScalarParameters(signed(a), SymbolAt(m, a, "recomp"))
                     ELSE signed(a)
        returned(a) == {Reviewed(m.returns, p.orig) : p \in pair(a)} \ {None}
    IN [a \in DOMAIN fs |->
          ReviewedReturn(scalar(a), IF returned(a) = {} THEN None ELSE CHOOSE r \in returned(a) : TRUE, TRUE)]

(* One run: the original first, which gives the other what it needs. *)
Prepared(w, m) ==
    [orig |-> PreparedOriginal(w.orig, m),
     recomp |-> PreparedRecompiled(w.recomp, m, [a \in DOMAIN w.orig |-> RetailSignature(w.orig, m, a)])]

-------------------------------------------------------------------------------
(* What a run leaves, p, of programs w.                                     *)
(*                                                                         *)
(* A run that restores the prepared programs applies the same steps to      *)
(* them and changes nothing, so it compares what the first run compared.    *)
Settles(p, m) == Prepared(p, m) = p

(* A prototype that was given, and not only inferred, stays.                *)
GivenStay(w, p, m) ==
    LET keeps(f, g) == f.source \notin Inferred /\ f.kind # "swprintf" => g.conv = f.conv /\ g.params = f.params
    IN /\ \A a \in DOMAIN w.orig \ DOMAIN m.cdecl : keeps(w.orig[a], p.orig[a])
       /\ \A a \in DOMAIN w.recomp : keeps(w.recomp[a], p.recomp[a])

(* Where the original's own analysis or a review, and the build's symbol,   *)
(* say the same of a function the build only inferred, both programs have   *)
(* that convention and count in the end (but a wrong count of a member      *)
(* function is left).                                                       *)
Agree(w, p, m) ==
    LET known(a) == LET f == Shared(w.orig, m, "orig")[a]
                    IN f.source = "ANALYSIS" \/ (a \in DOMAIN m.cdecl /\ Count(f) < m.cdecl[a])
        plain(s) == s.conv = "cdecl" /\ ~s.varargs /\ \A i \in DOMAIN s.params : Width[s.params[i]] \in 1 .. 4
        fits(s, f) == CASE s.conv = "cdecl" -> plain(s) /\ Count(f) = Len(s.params)
                        [] s.conv = "thiscall" -> Count(f) = Len(s.params) + 1
                        [] OTHER -> FALSE
    IN \A q \in m.pairs :
         LET o == p.orig[q.orig]
             f == Shared(w.recomp, m, "recomp")[q.recomp]
         IN /\ PairsAt(m, q.recomp, "recomp") = {q}
            /\ known(q.orig) /\ q.symbol # None /\ f.source \in Inferred
            /\ o.conv = q.symbol.conv /\ fits(q.symbol, o)
            /\ q.symbol.conv = "thiscall" => Count(f) = Count(o) - (IF f.conv = "thiscall" THEN 0 ELSE 1)
            => p.recomp[q.recomp].conv = o.conv /\ Count(p.recomp[q.recomp]) = Count(o)

(* What the preparation changed, beyond what Ghidra infers, it reports: a   *)
(* chain of corrections from the inferred signature to the present one.     *)
Told(w, p, m) ==
    LET chain(h, from, to) == /\ h # <<>> /\ Head(h).before = from /\ Last(h).after = to
                              /\ \A i \in 2 .. Len(h) : h[i].before = h[i - 1].after
    IN \A image \in {"orig", "recomp"} : \A a \in DOMAIN w[image] :
         LET f == Shared(w[image], m, image)[a]
             from == IF f.history = <<>> THEN Signature(f) ELSE Head(f.history).before
         IN from # Signature(p[image][a]) => chain(Reported(p[image][a]), from, Signature(p[image][a]))

(* The original's functions: a review is followed, a receiver is one of the *)
(* parameters the analysis counted, and only a member function gets one.    *)
Receives(w, p, m) ==
    \A a \in DOMAIN w.orig :
        LET f == Shared(w.orig, m, "orig")[a]
            g == p.orig[a]
            reviewed == a \in DOMAIN m.cdecl /\ Count(f) < m.cdecl[a]
        IN /\ reviewed => g.conv = "cdecl" /\ Count(g) = m.cdecl[a]
           /\ ~reviewed /\ f.source = "ANALYSIS" => Count(g) = Count(f)
           /\ g.conv # f.conv /\ ~reviewed => SymbolAt(m, a, "orig").conv = "thiscall"

PrototypesSettle(w, m) ==
    LET p == Prepared(w, m)
    IN Settles(p, m) /\ GivenStay(w, p, m) /\ Agree(w, p, m) /\ Told(w, p, m) /\ Receives(w, p, m)
===============================================================================
