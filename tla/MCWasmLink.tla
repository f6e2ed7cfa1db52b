----------------------------- MODULE MCWasmLink -----------------------------
(* Two objects, main and a library, that share a function f, a weak         *)
(* function w, a function g both define, and data d.                        *)
EXTENDS WasmLink

Symbol(kind, name, index) ==
  [kind |-> kind, name |-> name, local |-> FALSE, undefined |-> FALSE, weak |-> FALSE,
   explicit |-> FALSE, no_strip |-> FALSE, index |-> index, offset |-> 0]
Undefined(y) == [y EXCEPT !.undefined = TRUE]
Weak(y) == [y EXCEPT !.weak = TRUE]
Reloc(type, index) == [type |-> type, index |-> index]

(* Symbols of main: 1 _start, 2 f, 3 w, 4 d, 5 g, 6 __stack_pointer,        *)
(* 7 own, 8 __heap_base, 9 the table, 10 the global import GOT.mem.d         *)
MainSymbols ==
  <<Symbol("func", "_start", 3), Undefined(Symbol("func", "none", 1)), Undefined(Weak(Symbol("func", "w", 2))),
    Undefined(Symbol("data", "d", 1)), Weak(Symbol("func", "g", 4)),
    Undefined(Symbol("global", "__stack_pointer", 1)), [Symbol("data", "own", 2) EXCEPT !.offset = 1],
    Undefined(Symbol("data", "__heap_base", 1)), Undefined(Symbol("table", "__indirect_function_table", 1)),
    Undefined(Weak(Symbol("global", "d", 2)))>>
Main(code) ==
  [types |-> <<"void", "int">>,
   function_imports |-> <<[module |-> "env", name |-> "f", type |-> 2], [module |-> "env", name |-> "w", type |-> 2]>>,
   global_imports |-> <<[module |-> "env", name |-> "__stack_pointer", type |-> "i32"],
                        [module |-> "GOT.mem", name |-> "d", type |-> "i32"]>>,
   functions |-> <<[type |-> 1, relocs |-> code], [type |-> 2, relocs |-> <<>>]>>,
   globals |-> <<>>,
   segments |-> <<[size |-> 3, align |-> 1, relocs |-> <<>>],
                  [size |-> 5, align |-> 4, relocs |-> <<Reloc("TableIndex", 5)>>]>>,
   symbols |-> MainSymbols, init_funcs |-> <<>>, exports |-> <<>>, memory_imports |-> <<>>, memories |-> <<>>,
   table_imports |-> <<2>>, unsupported_output |-> {},
   used_features |-> {"atomics"}, disallowed_features |-> {}]

(* The code of _start *)
Code ==
  {<<Reloc("FunctionIndex", 2), Reloc("FunctionIndex", 3), Reloc("TypeIndex", 2)>>,
   <<Reloc("TableIndex", 3), Reloc("FunctionIndex", 5), Reloc("GlobalIndex", 6)>>,
   <<Reloc("GlobalIndex", 4), Reloc("GlobalIndex", 2), Reloc("GlobalIndex", 10)>>,
   <<Reloc("MemoryAddr", 4), Reloc("MemoryAddr", 7), Reloc("GlobalIndex", 3), Reloc("GlobalIndex", 8)>>,
   <<Reloc("MemoryAddrRel", 7), Reloc("TableIndexRel", 2), Reloc("TableIndexRel", 5), Reloc("TableNumber", 9)>>}

(* Symbols of the library: 1 f, 2 w, 3 d, 4 g, 5 ctor, 6 late *)
Library(f, w, init, g_weak) ==
  [types |-> <<"int", "void", "int">>,
   function_imports |-> <<[module |-> "env", name |-> "w", type |-> 3]>>,
   global_imports |-> <<[module |-> "env", name |-> "limit", type |-> "i32"]>>,
   functions |-> <<[type |-> 1, relocs |-> <<Reloc("FunctionIndex", 2), Reloc("GlobalIndex", 8)>>],
                   [type |-> 3, relocs |-> <<Reloc("MemoryAddr", 3), Reloc("GlobalIndex", 7)>>],
                   [type |-> 2, relocs |-> <<>>], [type |-> 2, relocs |-> <<Reloc("TypeIndex", 3)>>]>>,
   globals |-> <<"counter">>,
   segments |-> <<[size |-> 6, align |-> 8, relocs |-> <<Reloc("TableIndex", 1)>>]>>,
   symbols |-> <<f, w, Symbol("data", "d", 1),
                 IF g_weak THEN Weak(Symbol("func", "g", 3)) ELSE Symbol("func", "g", 3),
                 Symbol("func", "ctor", 4), Symbol("func", "late", 5),
                 Symbol("global", "counter", 2), Undefined(Weak(Symbol("global", "limit", 1)))>>,
   init_funcs |-> init, exports |-> <<[name |-> "late", kind |-> "func", index |-> 5]>>,
   memory_imports |-> <<>>, memories |-> <<>>, table_imports |-> <<>>, unsupported_output |-> {},
   used_features |-> {"bulk-memory"}, disallowed_features |-> {"simd"}]

F == Symbol("func", "f", 2)
WImport == Undefined(Symbol("func", "w", 1))
InitFuncs == <<[priority |-> 2, symbol |-> 6], [priority |-> 1, symbol |-> 5]>>
Libraries ==
  {Library(f, w, InitFuncs, FALSE) : f \in {F, Weak(F), [F EXCEPT !.name = "other"]}, w \in {WImport, Weak(WImport)}}
  \cup {Library(F, Weak(WImport), init, TRUE) : init \in {<<>>, InitFuncs}}

Options ==
  {[gc |-> TRUE, entry |-> "_start", required_exports |-> <<>>, exports_if_defined |-> <<>>,
    allow_undefined |-> FALSE, stack_size |-> 16, stack_first |-> FALSE, initial_memory |-> 0,
    max_memory |-> 0, shared_memory |-> FALSE, extra_features |-> {}],
   [gc |-> TRUE, entry |-> "_start", required_exports |-> <<"g", "__heap_base">>, exports_if_defined |-> <<"absent">>,
    allow_undefined |-> TRUE, stack_size |-> 32, stack_first |-> TRUE, initial_memory |-> 0,
    max_memory |-> 256, shared_memory |-> TRUE, extra_features |-> {"simd"}],
   [gc |-> FALSE, entry |-> "none", required_exports |-> <<"__wasm_call_ctors">>, exports_if_defined |-> <<"late">>,
    allow_undefined |-> TRUE, stack_size |-> 0, stack_first |-> FALSE, initial_memory |-> 64,
    max_memory |-> 0, shared_memory |-> FALSE, extra_features |-> {}],
   [gc |-> TRUE, entry |-> "_start", required_exports |-> <<"__wasm_call_ctors", "__memory_base">>,
    exports_if_defined |-> <<>>, allow_undefined |-> TRUE, stack_size |-> 112, stack_first |-> FALSE,
    initial_memory |-> 0, max_memory |-> 0, shared_memory |-> FALSE, extra_features |-> {}]}

Program(objects, options) ==
  [objects |-> objects, gc |-> options.gc, entry |-> options.entry,
   required_exports |-> options.required_exports, exports_if_defined |-> options.exports_if_defined,
   allow_undefined |-> options.allow_undefined, stack_size |-> options.stack_size,
   stack_first |-> options.stack_first, initial_memory |-> options.initial_memory,
   max_memory |-> options.max_memory, shared_memory |-> options.shared_memory,
   extra_features |-> options.extra_features, allow_multiple_definition |-> FALSE]

(* Requests that the linker refuses *)
Usual == CHOOSE options \in Options : options.stack_size = 16
Refused == {[Usual EXCEPT !.max_memory = 64], [Usual EXCEPT !.initial_memory = 100],
            [Usual EXCEPT !.stack_size = 20], [Usual EXCEPT !.required_exports = <<"absent">>],
            [Usual EXCEPT !.entry = "absent"], [Usual EXCEPT !.required_exports = <<"d">>]}
CallsF == <<Reloc("FunctionIndex", 2)>>
ConflictingImports ==
  [Library([F EXCEPT !.name = "other"], WImport, <<>>, TRUE) EXCEPT !.function_imports[1].type = 2,
                                                                    !.init_funcs = <<[priority |-> 1, symbol |-> 1]>>]

(* Memories that objects import or define *)
Memory(initial, maximum) == [initial |-> initial, maximum |-> maximum]
Plain == Library(F, Weak(WImport), <<>>, TRUE)
WithMemories(imports, main, library, options) ==
  Program(<<[Main(CallsF) EXCEPT !.memory_imports = imports, !.memories = main], [Plain EXCEPT !.memories = library]>>,
          options)
MemoryPrograms ==
  {WithMemories(<<3>>, <<>>, <<>>, Usual), WithMemories(<<3>>, <<>>, <<Memory(1, Unbounded)>>, Usual),
   WithMemories(<<>>, <<Memory(1, Unbounded)>>, <<Memory(4, Unbounded)>>, Usual),
   WithMemories(<<0>>, <<Memory(1, 1)>>, <<>>, [Usual EXCEPT !.stack_size = 64]),
   WithMemories(<<>>, <<Memory(1, 1)>>, <<>>, [Usual EXCEPT !.stack_size = 64, !.shared_memory = TRUE]),
   WithMemories(<<3>>, <<>>, <<>>, [Usual EXCEPT !.shared_memory = TRUE, !.max_memory = 256])}

(* g defined twice, and called by the object that comes second *)
Twice ==
  Program(<<[Main(CallsF) EXCEPT !.symbols[5].weak = FALSE],
            [Library(F, Weak(WImport), <<>>, FALSE) EXCEPT
               !.functions[1].relocs = Append(@, Reloc("FunctionIndex", 4))]>>, Usual)

(* A table that an object defines, which is refused *)
OwnTable(options) ==
  Program(<<Main(CallsF), [Plain EXCEPT !.symbols = Append(@, Symbol("table", "own_table", 1)),
                                        !.unsupported_output = {"table definition"}]>>, options)

MCPrograms ==
  {Program(<<Main(code), library>>, options) : code \in Code, library \in Libraries, options \in Options}
  \cup {Program(<<Main(CallsF), Library(F, Weak(WImport), <<>>, TRUE)>>, options) : options \in Refused}
  \cup MemoryPrograms
  \cup {Twice, [Twice EXCEPT !.allow_multiple_definition = TRUE],
        OwnTable(Usual), OwnTable([Usual EXCEPT !.required_exports = <<"own_table">>]),
        Program(<<[Main(<<Reloc("MemoryAddr", 4)>>) EXCEPT !.symbols[4].explicit = TRUE]>>, Usual)}
  \cup {Program(<<Main(<<Reloc("FunctionIndex", 3)>>), ConflictingImports>>, [Usual EXCEPT !.allow_undefined = TRUE]),
        Program(<<Main(<<Reloc("MemoryAddr", 4)>>)>>, Usual),
        Program(<<Main(CallsF), [Library(F, Weak(WImport), <<>>, TRUE) EXCEPT !.disallowed_features = {"atomics"}]>>, Usual),
        Program(<<[Main(CallsF) EXCEPT !.used_features = {}], Library(F, Weak(WImport), <<>>, TRUE)>>,
                [Usual EXCEPT !.shared_memory = TRUE])}
=============================================================================
