----------------------------- MODULE MCMachOLink -----------------------------
(* Small programs, each with a shape that a part of the writer has a case   *)
(* for: calls and data of libraries, thread-local variables, pointers on    *)
(* both sides of page boundaries, segments that the linker does not know,   *)
(* symbols of all kinds, and the errors.                                    *)
EXTENDS MachOLink

Name(a) == <<95, a>>
Long(a, b) == <<95, a>> \o [k \in 1..70 |-> 120] \o <<b>>

Sec(seg, name, ty, size, align, relocs) ==
  [seg |-> seg, name |-> name, ty |-> ty, exec |-> name = "__text", debug |-> seg = "__DWARF",
   size |-> size, align |-> align, loaded |-> TRUE, relocs |-> relocs]
TextSec(size, relocs) == Sec("__TEXT", "__text", 0, size, 4, relocs)
DataSec(size, relocs) == Sec("__DATA", "__data", 0, size, 8, relocs)

Sym(name, sec, off, scope) == [name |-> name, sec |-> sec, off |-> off, scope |-> scope, align |-> 0]
Undef(name) == Sym(name, 0, 0, "undefined")
Reloc(type, at, sym) ==
  [type |-> type, at |-> at, sym |-> sym, extern |-> TRUE, length |-> IF type \in {"unsigned", "subtractor"} THEN 3 ELSE 2,
   pcrel |-> FALSE, inplace |-> 0, value |-> 0]
Pointer(at, sym) == Reloc("unsigned", at, sym)
Addend(at, value) == [Reloc("addend", at, 0) EXCEPT !.extern = FALSE, !.value = value]

Object(sections, symbols) == [kind |-> "object", sections |-> sections, symbols |-> symbols]
Library(kind, install, length, names) ==
  [kind |-> kind, install |-> install, length |-> length,
   symbols |-> [k \in DOMAIN names |-> Sym(names[k], 0, 0, "global")]]
Program(files) ==
  [exec |-> TRUE, dynsym |-> TRUE, version |-> TRUE, deadStripDylibs |-> FALSE, strip |-> FALSE,
   ident |-> 5, entry |-> Name(1), files |-> files]
Main == Sym(Name(1), 1, 0, "global")

(* Calls, loads, pointers, differences and thread-local variables.          *)
(* Symbols: 1 main, 2 p and 3 q of libraries, 4 f of the other object,      *)
(* 5 own data, 6 a thread-local descriptor, 7 and 8 its templates,          *)
(* 9 the loader's function for descriptors, 10 a label                      *)
Caller ==
  Object(<<TextSec(64, <<Reloc("branch26", 0, 2), Reloc("branch26", 4, 4), Reloc("got_page21", 8, 3),
                         Reloc("got_pageoff12", 12, 3), Reloc("page21", 16, 5), Reloc("pageoff12", 20, 5),
                         Reloc("got_page21", 24, 4), Reloc("tlvp_page21", 28, 6),
                         Reloc("tlvp_pageoff12", 32, 6), Addend(36, 8), Reloc("page21", 36, 5)>>),
           DataSec(64, <<Pointer(0, 5), Addend(8, 4), Pointer(8, 3), Reloc("subtractor", 16, 5),
                         [Pointer(16, 1) EXCEPT !.inplace = 2], Pointer(24, 2),
                         [Reloc("subtractor", 32, 1) EXCEPT !.extern = FALSE], Pointer(32, 4)>>),
           Sec("__DATA", "__thread_vars", 19, 48, 8,
               <<Pointer(0, 9), Pointer(16, 7), Pointer(24, 9), Pointer(40, 8)>>),
           Sec("__DATA", "__thread_data", 17, 12, 8, <<>>), Sec("__DATA", "__thread_bss", 18, 8, 4, <<>>),
           Sec("__DWARF", "__debug", 0, 8, 1, <<>>),
           Sec("__DATA", "__nl_symbol_ptr", 6, 8, 8, <<Pointer(0, 5)>>)>>,
         <<Main, Undef(Name(2)), Undef(Name(3)), Undef(Name(4)), Sym(Name(5), 2, 40, "local"),
           Sym(Name(6), 3, 24, "hidden"), Sym(Name(7), 4, 4, "local"), Sym(Name(8), 5, 0, "local"),
           Undef(Name(9)), Sym(Name(10), 1, 8, "ltmp")>>)
(* Symbols: 1 f, 2 q, 3 data, 4 p *)
Callee ==
  Object(<<TextSec(20, <<Reloc("got_page21", 0, 2), Reloc("branch26", 4, 4)>>),
           Sec("__TEXT", "__const", 0, 5, 1, <<>>),
           Sec("__DATA_CONST", "__const", 0, 16, 8, <<Pointer(0, 3), Pointer(8, 4)>>),
           DataSec(24, <<Reloc("pointer_to_got", 8, 2)>>)>>,
         <<Sym(Name(4), 1, 4, "global"), Undef(Name(3)), Sym(Name(11), 4, 16, "weak"), Undef(Name(2))>>)
Libraries1 == <<Library("stub", "A", 9, <<Name(2)>>), Library("stub", "B", 20, <<Name(9)>>),
                Library("dylib", "A", 9, <<Name(3)>>)>>
Calls == Program(<<Caller, Callee>> \o Libraries1)
CallsUnused ==
  [Program(<<Caller, Library("stub", "C", 3, <<Name(12)>>), Callee>>
           \o [Libraries1 EXCEPT ![3].kind = "stub"])
   EXCEPT !.deadStripDylibs = TRUE]
StripsDylib == [Program(<<Caller, Callee>> \o Libraries1) EXCEPT !.deadStripDylibs = TRUE,
                !.files[5].install = "D"]

(* Pointers around page boundaries, in data that spans several pages. *)
Pages ==
  {Program(<<Object(<<TextSec(8, <<>>), DataSec(3 * PageSize + 64, [k \in DOMAIN at |-> Pointer(at[k], 2)])>>,
                    <<Main, Sym(Name(5), 2, 8, "global")>>)>>)
   : at \in {<<0, PageSize - 8, PageSize, PageSize + 8>>, <<PageSize - 8, 0, 3 * PageSize>>,
             <<2 * PageSize + 16, 2 * PageSize + 8>>, <<>>}}

(* A segment of the program's own, with or without zeroed memory, and       *)
(* symbols of all kinds.                                                    *)
Kinds(own, strip, dynsym) ==
  [Program(<<Object(<<TextSec(12, <<Reloc("page21", 0, 4), Reloc("got_page21", 4, 5)>>),
                      Sec("__MINE", "__own", own, 24, 8, IF own = 0 THEN <<Pointer(16, 3)>> ELSE <<>>),
                      Sec("__DATA", "__bss", 1, 40, 16, <<>>),
                      [Sec("__TEXT", "__unused", 0, 16, 4, <<>>) EXCEPT !.loaded = FALSE],
                      Sec("__TEXT", "__empty", 0, 0, 1, <<>>)>>,
                    <<Main, Sym(Long(1, 2), 2, 8, "global"), Sym(Long(1, 3), 3, 16, "weak"),
                      Sym(Name(20), 0, 24, "common"), Sym(Name(21), 0, 5, "common"),
                      Sym(Name(22), 0, 77, "global"), Sym(Name(23), 4, 0, "global"),
                      Sym(Name(24), 0, 300, "common"), Sym(<<95>>, 3, 0, "global")>>)>>)
   EXCEPT !.strip = strip, !.dynsym = dynsym]

(* A pointer and a difference that name sections by number: the pointer to  *)
(* section 2 is read as symbol 2, counted from 0.  Section 9 is no symbol.  *)
Sections(number) ==
  Program(<<Object(<<TextSec(8, <<>>),
                     DataSec(40, <<[Pointer(0, number) EXCEPT !.extern = FALSE], Pointer(8, 2),
                                   [Reloc("subtractor", 16, 0) EXCEPT !.extern = FALSE], Pointer(16, 1),
                                   Reloc("subtractor", 24, 1), [Pointer(24, 2) EXCEPT !.extern = FALSE]>>)>>,
                   <<Main, Sym(Name(5), 2, 8, "global"), Sym(Name(6), 2, 16, "local"), Sym(Name(7), 1, 4, "local")>>)>>)

(* Relocations without their pair, and a thread-local variable of a library. *)
Unpaired(relocs) == Program(<<Object(<<TextSec(8, <<>>), DataSec(40, relocs)>>, <<Main>>)>>)
LibraryTlv ==
  Program(<<Object(<<TextSec(8, <<Reloc("tlvp_page21", 0, 2), Reloc("tlvp_pageoff12", 4, 2)>>)>>, <<Main, Undef(Name(2))>>),
            Library("stub", "A", 9, <<Name(2)>>)>>)

(* Entry points that nothing defines, that a library defines, that are not  *)
(* addresses of the image; and one that only the prelude asks for.          *)
Entries == {[LibraryTlv EXCEPT !.files[1].sections[1].relocs = <<>>, !.entry = name, !.dynsym = FALSE,
                               !.files[1].symbols = Append(@, Sym(Name(9), 0, 77, "global")),
                               !.files[1].sections[1].loaded = FALSE]
            : name \in {Name(1), Name(2), Name(8), Name(9)}}

(* One section more than there are indexes. *)
SectionNames == <<"__a", "__b", "__c", "__d", "__e", "__f", "__g", "__h", "__i", "__j">>
ManySections ==
  Program(<<Object(<<TextSec(8, <<>>)>>
                   \o [k \in 1..MaxSectionIndex |-> Sec("__DATA", SectionNames[k], 0, 8, 8, <<>>)], <<Main>>)>>)

(* Programs that cannot be linked, and an indirect symbol that is dropped. *)
TwoSegments == [Kinds(0, FALSE, TRUE) EXCEPT !.files[1].sections[3].seg = "__OTHER"]
LargeAddend == [Calls EXCEPT !.files[1].sections[2].relocs[2].value = 300]
Conflict == [Calls EXCEPT !.files[1].sections[2].relocs[6].at = 0]
Indirect ==
  LET p == Kinds(0, TRUE, TRUE)
  IN [p EXCEPT !.files[1].symbols = Append(@, Sym(<<95, 1, 120>>, 0, 0, "indirect"))]
Plain == [Kinds(0, FALSE, TRUE) EXCEPT !.exec = FALSE, !.version = FALSE]

MCPrograms ==
  {Calls, CallsUnused, StripsDylib, TwoSegments, LargeAddend, Conflict, Indirect, Plain,
   LibraryTlv, ManySections, Sections(2), Sections(9),
   Unpaired(<<Reloc("subtractor", 0, 1)>>), Unpaired(<<Reloc("subtractor", 0, 1), Pointer(8, 1)>>),
   Unpaired(<<Addend(0, 4), Addend(0, 8), Pointer(0, 1)>>), Unpaired(<<Addend(0, 4)>>)}
  \cup Entries
  \cup Pages \cup {Kinds(own, strip, dynsym) : own \in {0, 1}, strip, dynsym \in BOOLEAN}
=============================================================================
