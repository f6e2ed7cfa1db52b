--------------------------- MODULE MCSectionLayout ---------------------------
(* Small outputs for the layout: two groups of inputs, a page of 16.       *)
EXTENDS SectionLayout

CONSTANT MaxTls

Sec(attributes, min, alignments, bySize) ==
    [attributes |-> attributes, min_alignment |-> min, alignments |-> alignments,
     sizes |-> bySize, location |-> 0, counter |-> 0, region |-> "none",
     primary |-> "none", priority |-> 0, top_level |-> TRUE]

(* One part with one input in each of the two groups.                      *)
One(attributes, a, first, second) ==
    Sec(attributes, 1, <<a>>, << << <<first>>, <<second>> >> >>)

Core ==
    [file_header |-> One({"A"}, 1, 4, 0),
     program_headers |-> One({"A"}, 1, 0, 0),
     section_headers |-> One({"A"}, 1, 3, 0),
     rodata |-> Sec({"A"}, 1, <<8, 1>>, << << <<8>>, <<>> >>, << <<3>>, <<2, 1>> >> >>),
     init |-> Sec({"A", "X"}, 1, <<4>>, << << <<3>>, <<5>> >> >>),
     text |-> Sec({"A", "X"}, 4, <<4>>, << << <<4, 8>>, <<4>> >> >>),
     tdata |-> One({"A", "W", "T"}, 4, 0, 0),
     tbss |-> One({"A", "W", "T", "N"}, 4, 0, 0),
     init_array |-> One({"A", "W", "R"}, 8, 8, 0),
     got |-> One({"A", "W", "R"}, 4, 4, 0),
     init_prio |-> [One({"A", "W", "R"}, 8, 0, 8) EXCEPT !.primary = "init_array"],
     relro_padding |-> One({"A", "W", "N", "R"}, 1, 0, 0),
     data |-> Sec({"A", "W"}, 1, <<32, 2>>, << << <<>>, <<>> >>, << <<2>>, <<4>> >> >>),
     bss |-> One({"A", "W", "N"}, 8, 8, 8),
     more_data |-> One({"A", "W"}, 2, 2, 2),
     more_bss |-> One({"A", "W", "N"}, 2, 2, 0),
     more_ro |-> One({"A"}, 2, 2, 4),
     more_text |-> One({"A", "X"}, 4, 4, 4),
     debug |-> Sec({}, 1, <<2, 1>>, << << <<2>>, <<2>> >>, << <<3>>, <<>> >> >>),
     strtab |-> One({}, 1, 3, 2)]

Plain ==
    [sections |-> Core, custom |-> <<"more_data", "more_bss", "debug">>,
     phdrs |-> <<>>, script_order |-> <<>>, named |-> <<>>, keep |-> {}, partial |-> FALSE, rosegment |-> TRUE,
     relro |-> TRUE, regions |-> <<>>, max_passes |-> 0, compressed |-> {},
     compressed_size |-> 0]

(* Sizes and alignments of thread-local data and zeros.                    *)
WithTls(i, tdata, tbssAlign, tbss) ==
    [i EXCEPT !.sections.tdata = One({"A", "W", "T"}, 4, tdata, 0),
              !.sections.tbss = One({"A", "W", "T", "N"}, tbssAlign, tbss, 0)]

Tls(i) == {WithTls(i, 4 * d, a, b) : d \in 0 .. MaxTls, a \in {4, 16}, b \in {0, 16}}

(* Data that needs more than a page, in one or in two groups, or after     *)
(* other data in its segment.                                              *)
BigData(i) ==
    {[i EXCEPT !.sections.data.sizes[1] = << <<x>>, <<y>> >>,
               !.sections.init_array.sizes[1][2] = <<n>>,
               !.sections.text.sizes[1][2] = <<t>>] :
        x, y \in {0, 32}, n \in {0, 16}, t \in {4, 12}}
    \cup {[i EXCEPT !.sections.more_data = One({"A", "W"}, 32, 32, 32),
                    !.sections.text.sizes[1][2] = <<t>>] : t \in {4, 12}}

At(i, s, address) == [i EXCEPT !.sections[s].location = address]
Dot(i, s, address) == [i EXCEPT !.sections[s].counter = address]

Located == {At(Plain, "text", 160), At(At(Plain, "data", 320), "bss", 400),
            Dot(Plain, "data", 240), Dot(Plain, "data", 16),
            [Dot(Plain, "init_prio", 160) EXCEPT !.sections.init_prio.top_level = FALSE]}

InRegion(i, names, length) ==
    [i EXCEPT !.sections = [s \in DOMAIN i.sections |->
                                IF s \in names THEN [i.sections[s] EXCEPT !.region = "ram"]
                                ELSE i.sections[s]],
              !.regions = [ram |-> [origin |-> 256, length |-> length]]]

Regions == {InRegion(Plain, {"data", "more_data", "bss", "more_bss"}, n) : n \in {16, 80}}
           \cup {Dot(InRegion(Plain, {"data"}, 32), "data", a) : a \in {240, 264, 300}}

(* A script that places some sections in segments of its own.  The others  *)
(* are left for the output order to place.                                 *)
Others == <<"init", "tbss", "got", "relro_padding", "bss", "more_data", "more_bss", "debug", "strtab">>
Phdr(type, filehdr, phdrs) ==
    [type |-> type, filehdr |-> filehdr, phdrs |-> phdrs, explicit |-> FALSE, flags |-> {}]
HeadersAndText == <<Phdr("PHDR", FALSE, TRUE), Phdr("LOAD", TRUE, TRUE)>>
Scripted ==
    {[Plain EXCEPT !.phdrs = HeadersAndText \o <<Phdr("LOAD", FALSE, FALSE), Phdr("TLS", FALSE, FALSE)>>,
                   !.script_order = IF tls THEN <<"rodata", "text", "tdata", "init_array", "data">>
                                    ELSE <<"rodata", "text", "init_array", "data">>,
                   !.named = IF tls THEN << <<2>>, <<2>>, <<4>>, <<3>>, <<3>> >>
                             ELSE << <<2>>, <<2>>, <<3>>, <<3>> >>,
                   !.custom = IF tls THEN Others ELSE <<"tdata">> \o Others,
                   !.sections.tdata = One({"A", "W", "T"}, 4, 4, 0)] :
        tls \in BOOLEAN}

(* Segments in several orders, with read-only data that the script does    *)
(* not place: a second executable segment, one that is also writable, and  *)
(* one with flags of the script before or after one that is only readable. *)
Ordered(names, loads) ==
    [Plain EXCEPT !.phdrs = <<Phdr("LOAD", TRUE, TRUE), Phdr("LOAD", FALSE, FALSE),
                              Phdr("LOAD", FALSE, FALSE)>>,
                  !.script_order = names, !.named = loads,
                  !.custom = <<"more_ro", "more_text", "tdata">> \o
                             SelectSeq(Others \o <<"rodata", "text", "init_array", "data">>,
                                       LAMBDA s : s \notin {names[i] : i \in DOMAIN names})]
Orders ==
    {Ordered(<<"rodata", "text", "init_array", "data">>, << <<1>>, <<1>>, <<2>>, <<2>> >>),
     Ordered(<<"text", "data", "rodata">>, << <<1>>, <<2>>, <<3>> >>),
     Ordered(<<"rodata", "data", "text">>, << <<1>>, <<2>>, <<3>> >>),
     Ordered(<<"text", "init", "data">>, << <<1>>, <<2>>, <<3>> >>),
     Ordered(<<"text", "data", "init">>, << <<1>>, <<1>>, <<2>> >>)}
ByScript ==
    Orders
    \cup {[i EXCEPT !.phdrs[2].explicit = TRUE, !.phdrs[2].flags = f] :
            i \in Orders, f \in {{"R"}, {"R", "W", "X"}}}

(* Program headers that are refused.                                       *)
Refused ==
    LET some == CHOOSE i \in Orders : TRUE
    IN  {[some EXCEPT !.phdrs[1].filehdr = FALSE, !.phdrs[1].phdrs = FALSE, !.phdrs[2].filehdr = TRUE],
         [some EXCEPT !.phdrs[1].type = "TLS"],
         [some EXCEPT !.phdrs[1] = Phdr("TLS", FALSE, FALSE), !.phdrs[2].type = "RELRO",
                      !.phdrs[3].type = "TLS"]}

(* A section that only its secondary one fills, and empty ones that are    *)
(* kept for an input or a symbol.                                          *)
Kept ==
    {[Plain EXCEPT !.sections.init_array = One({"A", "W", "R"}, 8, 0, 0)],
     [Plain EXCEPT !.sections.rodata = One({"A"}, 8, 0, 0), !.keep = {"rodata", "tdata"}]}

Compressed(i) ==
    {[i EXCEPT !.compressed = {"debug"}, !.compressed_size = n] : n \in {2, 30}}

(* A script whose second segment starts with data of a large alignment:    *)
(* compression takes the padding before it for a move.                     *)
ScriptedAligned ==
    [Plain EXCEPT !.phdrs = <<Phdr("LOAD", TRUE, TRUE), Phdr("LOAD", FALSE, FALSE)>>,
                  !.script_order = <<"text", "rodata", "init_array", "data">>,
                  !.named = << <<1>>, <<1>>, <<2>>, <<2>> >>,
                  !.custom = <<"tdata">> \o Others]

(* Thread-local zeros that need more alignment than what follows them are  *)
(* left out with compressed sections (see the README).                     *)
MCOutputs ==
    Tls(Plain) \cup BigData(Plain) \cup Located \cup Regions \cup Scripted
    \cup ByScript \cup Refused \cup Kept
    \cup Compressed(Plain) \cup Compressed(ScriptedAligned) \cup Compressed(WithTls(Plain, 4, 4, 16))
    \cup {[Plain EXCEPT !.partial = TRUE], [Plain EXCEPT !.rosegment = FALSE],
          [Plain EXCEPT !.relro = FALSE], [Plain EXCEPT !.max_passes = 2]}
=============================================================================
