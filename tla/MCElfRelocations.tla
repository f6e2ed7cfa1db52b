-------------------------- MODULE MCElfRelocations --------------------------
(* Small programs for ElfRelocations: text in one object, data in another, *)
(* and a symbol x that one of them or a shared object defines.             *)
EXTENDS ElfRelocations

Symbol(file, kind, hidden, root) ==
  [file |-> file, kind |-> kind, hidden |-> hidden, weak |-> FALSE, local |-> FALSE, root |-> root]
(* A symbol that nothing defines, and a definition that becomes local. *)
Undefined(weak, hidden) == [Symbol("a", "undefined", hidden, {}) EXCEPT !.weak = weak]
Local(what) == [Symbol("b", what, FALSE, {}) EXCEPT !.local = TRUE]

(* A definition that is not hidden is exported from a shared object, and   *)
(* may be exported from a dynamic executable.                              *)
Export(kind, hidden) ==
  CASE hidden \/ kind \in {"static", "static pie"} -> {{}}
    [] ~hidden /\ kind = "shared" -> {{"EXPORT_DYNAMIC"}}
    [] OTHER -> {{}, {"EXPORT_DYNAMIC"}}

Defined(kind, what) ==
  UNION {{Symbol("b", what, h, r) : r \in Export(kind, h)} : h \in BOOLEAN}
Shared(kind, whats) ==
  IF kind \in {"static", "static pie"} THEN {} ELSE {Symbol("so", w, FALSE, {}) : w \in whats}

AddressSymbols(kind) ==
  Defined(kind, "data") \cup Defined(kind, "ifunc") \cup {Symbol("b", "absolute", TRUE, {})}
  \cup {Local("data")} \cup {Undefined(w, h) : w \in BOOLEAN, h \in BOOLEAN} \cup Shared(kind, {"data", "function"})
(* A thread-local symbol that is exported and cannot be interposed gets no  *)
(* offset (see the README) and is left out.                                *)
TlsSymbols(kind) ==
  {x \in Defined(kind, "tls") : kind # "shared" => x.root = {}} \cup Shared(kind, {"tls"}) \cup {Local("tls")}

(* Symbol 2 is x; 1 is a neighbour y of x in the file of x, with a GOT     *)
(* entry of its own; 3 is __tls_get_addr.                                  *)
Y == 1
X == 2
GetAddr == 3
Names == <<"prelude", "a", "b", "c", "so", "epilogue">>

Rel(type, symbol, offset) == [type |-> type, symbol |-> symbol, offset |-> offset, hidden |-> FALSE]
Text(types) ==
  [file |-> "a", writable |-> FALSE, exec |-> TRUE, address |-> 0,
   relocations |-> [k \in DOMAIN types |-> Rel(types[k], X, 8 * k)]]
Data(offsets) ==
  [file |-> "b", writable |-> TRUE, exec |-> FALSE, address |-> 32,
   relocations |-> [k \in DOMAIN offsets |-> Rel("64", X, offsets[k])]]
More(type) ==
  [file |-> "a", writable |-> FALSE, exec |-> TRUE, address |-> 64,
   relocations |-> <<Rel(type, Y, 0)>>]

AddressTypes == <<"PC32", "PLT32", "GOTPCREL", "GOTPCRELX", "64">>
Pairs(types) == {<<types[i], types[j]>> : i \in DOMAIN types, j \in DOMAIN types}
Offsets == {<<>>, <<0, 4, 12>>, <<0, 8, 20, 21>>}

Program(k, relr, relax, x, sections) ==
  [kind |-> k, relr |-> relr, relax |-> relax, copy |-> relax /\ k # "shared",
   files |-> Names, symbols |-> <<x, x>>, sections |-> sections]

IsPic(k) == k \in {"static pie", "dynamic pie", "shared"}
Relr(k) == IF IsPic(k) THEN BOOLEAN ELSE {FALSE}

(* Absolute references from read-only code to an ifunc or to a symbol of a *)
(* shared object cannot be linked position independent.  The scan lets     *)
(* them pass, and the writer finds no entry for them: they are left out.   *)
TextRelocation(k, t, y) == IsPic(k) /\ "64" \in {t[1], t[2]} /\ (y.kind = "ifunc" \/ y.file = "so")
AddressPrograms ==
  UNION {UNION {{Program(k, relr, relax, x, <<Text(t), Data(o), More("GOTPCREL")>>) :
                   relax \in BOOLEAN, relr \in Relr(k),
                   x \in {y \in AddressSymbols(k) : ~TextRelocation(k, t, y)},
                   o \in Offsets} :
                 t \in {p \in Pairs(AddressTypes) : p[1] # p[2]}} :
         k \in OutputKinds}

TlsSequences == {<<"TLSGD", "PLT32", "GOTTPOFF">>, <<"TLSLD", "PLT32", "GOTTPOFF">>,
             <<"GOTPC32_TLSDESC", "TLSDESC_CALL">>, <<"GOTTPOFF", "GOTPC32_TLSDESC", "TLSDESC_CALL">>,
             <<"GOTPC32_TLSDESC", "TLSDESC_CALL", "TLSGD", "PLT32">>}
TlsText(types) ==
  [Text(types) EXCEPT !.relocations =
     [k \in DOMAIN types |-> Rel(types[k], IF types[k] = "PLT32" THEN GetAddr ELSE X, 8 * k)]]
TlsMore(types) ==
  [Text(types) EXCEPT !.file = "c", !.relocations =
     [k \in DOMAIN types |-> Rel(types[k], IF types[k] = "PLT32" THEN GetAddr ELSE Y, 8 * k)]]
TlsGetAddr(k) ==
  IF k \in {"static", "static pie"} THEN Symbol("c", "data", FALSE, {}) ELSE Symbol("so", "function", FALSE, {})
(* The offset of a symbol that nothing defines, and of one that is not     *)
(* thread-local.                                                           *)
OffsetPrograms ==
  {[kind |-> k, relr |-> FALSE, relax |-> relax, copy |-> FALSE, files |-> Names, symbols |-> <<x, x>>,
    sections |-> <<Text(<<"GOTTPOFF">>)>>] :
     k \in OutputKinds, relax \in BOOLEAN,
     x \in {Undefined(w, h) : w \in BOOLEAN, h \in BOOLEAN} \cup {Symbol("b", "data", TRUE, {})}}
TlsPrograms ==
  UNION {{[kind |-> k, relr |-> FALSE, relax |-> relax, copy |-> k # "shared",
           files |-> Names, symbols |-> <<x, x, TlsGetAddr(k)>>,
           sections |-> <<TlsText(t), TlsMore(u)>>] :
             relax \in BOOLEAN, x \in TlsSymbols(k),
             t \in TlsSequences, u \in TlsSequences} :
         k \in OutputKinds}

MCPrograms == AddressPrograms \cup TlsPrograms \cup OffsetPrograms
=============================================================================
