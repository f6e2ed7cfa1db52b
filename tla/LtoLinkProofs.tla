---------------------------- MODULE LtoLinkProofs ----------------------------
(***************************************************************************)
(* The plugin is never told that a symbol is the business of IR alone when *)
(* an object of the first round refers to it, for any command line, files, *)
(* archives, scripts and symbols.                                          *)
(***************************************************************************)
EXTENDS LtoLink, WellFoundedInduction, TLAPS

(* What the link takes for granted: the object the plugin makes is a new   *)
(* temporary file, so none of the files of the first round is it.          *)
OutputIsNew == round = 1 => \A f \in resolved : Stored(groups[f].path) # LtoOutput
-----------------------------------------------------------------------------
(* The invariants of the first round.                                      *)

(* Before the symbols are registered there are none.                       *)
Reading == {"parse", "open", "extract", "loaded"}
EmptyInv ==
  /\ stage \in Reading => groups = <<>>
  /\ stage \in Reading \cup {"added"} => name_to_id = <<>> /\ definition = <<>>
  /\ stage \in Reading \cup {"added", "resolve"} => resolved = {}
  /\ stage = "added" => DOMAIN groups \subseteq Nat

(* The first definition of a name leads to itself, unless another was      *)
(* selected.                                                               *)
FirstLeads ==
  \A n \in DOMAIN name_to_id \ selected_once :
    /\ <<name_to_id[n], n>> \in DOMAIN definition
    /\ definition[<<name_to_id[n], n>>] \in {0, name_to_id[n]}
FirstInv ==
  /\ stage \in {"resolve", "select", "plugin"} => FirstLeads
  /\ stage # "plugin" => selected_once = {}

(* A reference of an object has set the flag of the first definition.      *)
Flagged ==
  \A f \in resolved : ~IsIr(f) =>
    \A n \in Undefined(f) \cap DOMAIN name_to_id : <<name_to_id[n], n>> \in non_ir_ref
FlagInv == stage \in {"select", "plugin"} => Flagged

LtoInv ==
  /\ round \in {1, 2}
  /\ stage \in {"parse", "plugin"} => round = 1
  /\ round = 1 /\ stage # "failed" /\ stage # "done" => EmptyInv /\ FirstInv /\ FlagInv
  /\ IronlyIsUnreferenced
-----------------------------------------------------------------------------
(* A set of numbers has a least one.                                       *)
LEMMA LeastFile ==
  ASSUME NEW S \in SUBSET Nat, S # {}
  PROVE  \E x \in S : \A y \in S : x <= y
<1>1. IsWellFoundedOn(OpToRel(<, Nat), Nat)
  BY NatLessThanWellFounded
<1>2. PICK x \in S : \A y \in S : ~(<<y, x>> \in OpToRel(<, Nat))
  <2>1. S \subseteq Nat
    OBVIOUS
  <2> QED BY <1>1, <2>1, WFMin
<1>3. \A y \in S : ~(y < x)
  BY <1>2 DEF OpToRel
<1> QED BY <1>3

(* At the start nothing is registered.                                     *)
LEMMA LtoInvAtStart == Init => LtoInv
  BY DEF Init, LoadInit, LtoInit, LtoInv, EmptyInv, FirstInv, FlagInv, IronlyIsUnreferenced, Reading

(* Steps that leave the symbols alone.                                     *)
LEMMA LtoVarsKept ==
  ASSUME LtoInv, UNCHANGED lto_vars,
         stage' = stage \/ stage' \in {"failed", "done"}
         \/ (stage \in Reading /\ stage' \in Reading \ {"parse"} /\ (stage' = "open" => stage = "parse"))
  PROVE  LtoInv'
<1>1. CASE stage' = stage
  BY <1>1 DEF LtoInv, EmptyInv, FirstInv, FlagInv, IronlyIsUnreferenced, lto_vars, FirstLeads,
              Flagged, Overridden, Undefined, Refs, Defs, SymbolsOf, IsIr
<1>2. CASE stage' \in {"failed", "done"}
  BY <1>2 DEF LtoInv, IronlyIsUnreferenced, lto_vars
<1>3. CASE stage \in Reading /\ stage' \in Reading \ {"parse"} /\ (stage' = "open" => stage = "parse")
  BY <1>3 DEF LtoInv, EmptyInv, FirstInv, FlagInv, IronlyIsUnreferenced, lto_vars, Reading
<1> QED BY <1>1, <1>2, <1>3
-----------------------------------------------------------------------------
(* Reading the command line and the files.                                 *)
LEMMA ReadingSteps ==
  ASSUME LtoInv, Parse \/ Load \/ Finished
  PROVE  LtoInv'
<1>1. UNCHANGED lto_vars
  BY DEF Parse, Load, Finished
<1>2. CASE Parse \/ Finished
  <2>1. stage' = stage
    BY <1>2 DEF Parse, Finished, load_vars
  <2> QED BY <1>1, <2>1, LtoVarsKept
<1>3. CASE Load
  <2>1. CASE LoadInputs
    BY <1>1, <2>1, LtoVarsKept DEF LoadInputs, StartLoad, Reading
  <2>2. CASE \E i \in DOMAIN requests : OpenFile(i) \/ load_input(i) \/ ScriptRead(i)
    <3>1. stage' = stage
      BY <2>2 DEF OpenFile, load_input, ScriptRead
    <3> QED BY <1>1, <3>1, LtoVarsKept
  <2>3. CASE AllOpened
    BY <1>1, <2>3, LtoVarsKept DEF AllOpened, Reading
  <2>4. CASE ExtractFile(round = 1 /\ parser.args.plugin_path # None, "failed")
    <3>1. stage' = "failed" \/ stage' = stage
      BY <2>4 DEF ExtractFile
    <3> QED BY <1>1, <3>1, LtoVarsKept
  <2>5. CASE AllExtracted(IF round = 1 /\ ~AuxiliaryFound THEN "failed" ELSE "loaded")
    <3>1. stage = "extract" /\ stage' \in {"failed", "loaded"}
      BY <2>5 DEF AllExtracted
    <3> QED BY <1>1, <3>1, LtoVarsKept DEF Reading
  <2> QED BY <1>3, <2>1, <2>2, <2>3, <2>4, <2>5 DEF Load
<1> QED BY <1>2, <1>3

(* Files are registered under numbers.                                     *)
LEMMA AddInputsStep ==
  ASSUME LtoInv, AddInputs
  PROVE  LtoInv'
<1>1. round' = round /\ stage' \in {"failed", "added"}
  BY DEF AddInputs
<1>2. CASE round = 1 /\ stage' = "added"
  <2>1. EmptyInv /\ FirstInv /\ stage = "loaded"
    BY <1>2 DEF LtoInv, AddInputs
  <2>2. DOMAIN groups' \subseteq Nat
    <3>1. groups = <<>> /\ groups' = Registered(LtoLast(loaded))
      BY <1>2, <2>1 DEF EmptyInv, Reading, AddInputs
    <3> QED BY <3>1 DEF Registered
  <2>3. name_to_id' = <<>> /\ definition' = <<>> /\ resolved' = {} /\ selected_once' = {}
    BY <2>1 DEF EmptyInv, FirstInv, Reading, AddInputs
  <2>4. EmptyInv' /\ FirstInv' /\ FlagInv'
    BY <1>2, <2>2, <2>3 DEF EmptyInv, FirstInv, FlagInv, Reading
  <2> QED BY <1>1, <1>2, <2>4 DEF LtoInv, IronlyIsUnreferenced
<1>3. CASE ~(round = 1 /\ stage' = "added")
  BY <1>1, <1>3 DEF LtoInv, IronlyIsUnreferenced
<1> QED BY <1>2, <1>3

(* The first definition of a name is of a file that defines it.            *)
LEMMA PopulateStep ==
  ASSUME LtoInv, PopulateSymbolDb
  PROVE  LtoInv'
<1>1. round' = round /\ stage = "added" /\ stage' = "resolve"
  BY DEF PopulateSymbolDb
<1>2. CASE round = 1
  <2>1. EmptyInv /\ FirstInv
    BY <1>1, <1>2 DEF LtoInv
  <2>2. name_to_id = <<>> /\ definition = <<>> /\ resolved' = {} /\ selected_once' = {}
    BY <1>1, <2>1 DEF EmptyInv, FirstInv, PopulateSymbolDb
  <2> DEFINE definers(n) == {f \in NewFiles : n \in Defs(f)}
             first(n) == IF n \in DOMAIN name_to_id THEN name_to_id[n]
                         ELSE CHOOSE f \in definers(n) : \A g \in definers(n) : f <= g
             known == DOMAIN name_to_id \union {n \in Names : definers(n) # {}}
             symbols == (NewFiles \X {""}) \union
                        UNION {{<<f, n>> : n \in Defs(f) \union Refs(f)} : f \in NewFiles}
             own == [d \in symbols |-> IF d[2] # "" /\ d[2] \in Defs(d[1]) THEN d[1] ELSE 0]
  <2>3. name_to_id' = [n \in known |-> first(n)] /\ definition' = Over(own, definition)
    BY DEF PopulateSymbolDb
  <2>4. definition' = own
    <3> HIDE DEF own
    <3>1. DOMAIN definition = {}
      BY <2>2
    <3>2. own = [d \in DOMAIN own |-> own[d]]
      BY DEF own
    <3> QED BY <2>3, <3>1, <3>2 DEF Over
  <2>5. ASSUME NEW n \in DOMAIN name_to_id'
        PROVE  name_to_id'[n] \in NewFiles /\ n \in Defs(name_to_id'[n])
    <3>1. DOMAIN name_to_id = {}
      BY <2>2
    <3>2. definers(n) # {} /\ name_to_id'[n] = first(n)
      <4> HIDE DEF first, definers
      <4> QED BY <2>3, <2>5, <3>1
    <3>3. definers(n) \in SUBSET Nat
      BY <1>1, <2>1 DEF EmptyInv, NewFiles
    <3>4. first(n) = CHOOSE f \in definers(n) : \A g \in definers(n) : f <= g
      BY <3>1
    <3>5. \E f \in definers(n) : \A g \in definers(n) : f <= g
      <4> HIDE DEF definers
      <4> QED BY <3>2, <3>3, LeastFile
    <3>6. first(n) \in definers(n)
      <4> HIDE DEF definers, first
      <4> QED BY <3>4, <3>5
    <3> QED BY <3>2, <3>6
  <2>6. ASSUME NEW n \in DOMAIN name_to_id'
        PROVE  /\ <<name_to_id'[n], n>> \in DOMAIN definition'
               /\ definition'[<<name_to_id'[n], n>>] \in {0, name_to_id'[n]}
    <3> DEFINE d == <<name_to_id'[n], n>>
    <3>1. d \in symbols
      <4>1. PICK f \in NewFiles : f = name_to_id'[n] /\ n \in Defs(f)
        BY <2>5, <2>6
      <4>2. d \in {<<f, m>> : m \in Defs(f) \union Refs(f)}
        BY <4>1
      <4> DEFINE of(g) == {<<g, m>> : m \in Defs(g) \union Refs(g)}
      <4>3. d \in of(f)
        BY <4>2
      <4>4. d \in UNION {of(g) : g \in NewFiles}
        <5> HIDE DEF d, of
        <5> QED BY <4>1, <4>3
      <4> QED BY <4>4
    <3>2. d[1] = name_to_id'[n]
      OBVIOUS
    <3>3. d \in DOMAIN definition' /\ (definition'[d] = 0 \/ definition'[d] = d[1])
      <4> HIDE DEF d, symbols
      <4> QED BY <2>4, <3>1
    <3> QED BY <3>2, <3>3
  <2>7. FirstInv'
    BY <1>1, <2>2, <2>6 DEF FirstInv, FirstLeads
  <2>8. EmptyInv' /\ FlagInv'
    BY <1>1, <2>2 DEF EmptyInv, FlagInv, Reading
  <2> QED BY <1>1, <1>2, <2>7, <2>8 DEF LtoInv, IronlyIsUnreferenced
<1>3. CASE round # 1
  BY <1>1, <1>3 DEF LtoInv, IronlyIsUnreferenced
<1> QED BY <1>2, <1>3

(* A resolution sets the flags of what its objects refer to.               *)
LEMMA ResolveStep ==
  ASSUME LtoInv, ResolveSymbols
  PROVE  LtoInv'
<1>1. round' = round /\ stage = "resolve" /\ stage' \in {"failed", "select"}
  BY DEF ResolveSymbols
<1>2. CASE round = 1 /\ stage' = "select"
  <2>1. EmptyInv /\ FirstInv
    BY <1>1, <1>2 DEF LtoInv
  <2>2. resolved = {} /\ selected_once = {} /\ FirstLeads
    BY <1>1, <2>1 DEF EmptyInv, FirstInv
  <2>3. PICK now :
          LET found == {d \in now \X DOMAIN name_to_id : d[2] \in Undefined(d[1])}
          IN /\ resolved' = resolved \union now
             /\ definition' = Over([d \in found |-> name_to_id[d[2]]], definition)
             /\ non_ir_ref' = non_ir_ref \union
                  {<<name_to_id[d[2]], d[2]>> : d \in {e \in found : RefersFromNonIr(e[1])}}
    BY <1>2 DEF ResolveSymbols
  <2> DEFINE found == {d \in now \X DOMAIN name_to_id : d[2] \in Undefined(d[1])}
  <2>4. UNCHANGED <<groups, name_to_id, generated, selected_once>>
    BY DEF ResolveSymbols
  <2>5. ASSUME NEW f, NEW n \in DOMAIN name_to_id
        PROVE  <<f, n>>[1] = f /\ <<f, n>>[2] = n
    OBVIOUS
  <2>6. FirstLeads'
    <3> SUFFICES ASSUME NEW n \in DOMAIN name_to_id
                 PROVE  /\ <<name_to_id[n], n>> \in DOMAIN definition'
                        /\ definition'[<<name_to_id[n], n>>] \in {0, name_to_id[n]}
      BY <2>4 DEF FirstLeads
    <3> DEFINE d == <<name_to_id[n], n>>
    <3>1. d \in DOMAIN definition /\ definition[d] \in {0, name_to_id[n]}
      BY <2>2 DEF FirstLeads
    <3>2. d[2] = n
      OBVIOUS
    <3>3. /\ d \in DOMAIN definition'
          /\ definition'[d] = IF d \in found THEN name_to_id[d[2]] ELSE definition[d]
      <4> HIDE DEF d, found
      <4>1. definition' = Over([e \in found |-> name_to_id[e[2]]], definition)
        BY <2>3 DEF found
      <4> QED BY <3>1, <4>1 DEF Over
    <3> QED BY <3>1, <3>2, <3>3
  <2>7. Flagged'
    <3> SUFFICES ASSUME NEW f \in resolved', ~IsIr(f)',
                        NEW n \in Undefined(f)' \cap DOMAIN name_to_id'
                 PROVE  <<name_to_id[n], n>> \in non_ir_ref'
      BY <2>4 DEF Flagged
    <3>1. ~IsIr(f) /\ n \in Undefined(f) /\ n \in DOMAIN name_to_id
      BY <2>4 DEF IsIr, Undefined, Refs, Defs, SymbolsOf
    <3>2. f \in now
      BY <2>2, <2>3
    <3> DEFINE d == <<f, n>>
    <3>3. d \in found /\ RefersFromNonIr(d[1]) /\ d[2] = n
      BY <3>1, <3>2 DEF RefersFromNonIr
    <3>4. <<name_to_id[d[2]], d[2]>> \in non_ir_ref'
      <4> HIDE DEF d, found
      <4>1. non_ir_ref' = non_ir_ref \union
                  {<<name_to_id[e[2]], e[2]>> : e \in {e \in found : RefersFromNonIr(e[1])}}
        BY <2>3 DEF found
      <4> QED BY <3>3, <4>1
    <3> QED BY <3>3, <3>4
  <2>8. EmptyInv' /\ FirstInv' /\ FlagInv'
    BY <1>2, <2>2, <2>4, <2>6, <2>7 DEF EmptyInv, FirstInv, FlagInv, Reading
  <2> QED BY <1>1, <1>2, <2>8 DEF LtoInv, IronlyIsUnreferenced
<1>3. CASE ~(round = 1 /\ stage' = "select")
  BY <1>1, <1>3 DEF LtoInv, IronlyIsUnreferenced
<1> QED BY <1>2, <1>3

(* A selection leads a first definition elsewhere for the names it notes.  *)
LEMMA SelectStep ==
  ASSUME LtoInv, SelectAlternatives
  PROVE  LtoInv'
<1>1. /\ round' = round /\ stage = "select" /\ stage' \in {"failed", "plugin", "done"}
      /\ stage' = "plugin" => round = 1
  BY DEF SelectAlternatives
<1>2. CASE round = 1 /\ stage' = "plugin"
  <2>1. FirstLeads /\ Flagged /\ selected_once = {}
    BY <1>1, <1>2 DEF LtoInv, FirstInv, FlagInv
  <2> DEFINE on == LtoInputsCount
             among(n) == <<name_to_id[n]>> \o alternatives[n]
             several  == {n \in DOMAIN alternatives : alternatives[n] # <<>>}
             winner(n) == select_symbol(among(n), n, on)
             changed == UNION {Range(among(n)) \X {n} : n \in several}
  <2>2. /\ definition' = Over([d \in changed |-> winner(d[2])], definition)
        /\ selected_once' = {n \in several : winner(n) # name_to_id[n]}
    BY <1>2 DEF SelectAlternatives
  <2>3. UNCHANGED <<groups, name_to_id, generated, resolved, non_ir_ref>>
    BY DEF SelectAlternatives
  <2>4. FirstLeads'
    <3> SUFFICES ASSUME NEW n \in DOMAIN name_to_id, n \notin selected_once'
                 PROVE  /\ <<name_to_id[n], n>> \in DOMAIN definition'
                        /\ definition'[<<name_to_id[n], n>>] \in {0, name_to_id[n]}
      BY <2>3 DEF FirstLeads
    <3> DEFINE d == <<name_to_id[n], n>>
    <3>1. d[2] = n
      OBVIOUS
    <3>2. d \in changed => n \in several
      <4> HIDE DEF several, among
      <4> QED OBVIOUS
    <3>3. d \in DOMAIN definition /\ definition[d] \in {0, name_to_id[n]}
      BY <2>1 DEF FirstLeads
    <3>4. /\ d \in DOMAIN definition'
          /\ definition'[d] = IF d \in changed THEN winner(d[2]) ELSE definition[d]
      <4> HIDE DEF d, changed, winner
      <4> QED BY <2>2, <3>3 DEF Over
    <3>5. n \in several => winner(n) = name_to_id[n]
      <4> HIDE DEF several, winner
      <4> QED BY <2>2
    <3> HIDE DEF d, changed, several, winner
    <3>6. d \in DOMAIN definition' /\ definition'[d] \in {0, name_to_id[n]}
      BY <3>1, <3>2, <3>3, <3>4, <3>5
    <3> QED BY <3>6 DEF d
  <2>5. Flagged'
    BY <2>1, <2>3 DEF Flagged, Undefined, Refs, Defs, SymbolsOf, IsIr
  <2>6. EmptyInv' /\ FirstInv' /\ FlagInv'
    BY <1>2, <2>4, <2>5 DEF EmptyInv, FirstInv, FlagInv, Reading
  <2> QED BY <1>1, <1>2, <2>6 DEF LtoInv, IronlyIsUnreferenced
<1>3. CASE ~(round = 1 /\ stage' = "plugin")
  BY <1>1, <1>3 DEF LtoInv, IronlyIsUnreferenced
<1> QED BY <1>2, <1>3
-----------------------------------------------------------------------------
(* Only what prevails itself and has no flag is told to be of IR alone.    *)
LEMMA IronlyIsFirst ==
  ASSUME NEW f, NEW n, get_symbol_resolution(f, n) = "prevailing_def_ironly"
  PROVE  /\ n \in DOMAIN name_to_id
         /\ Definition(name_to_id[n], n) = f
         /\ f # 0
         /\ <<f, n>> \notin non_ir_ref
<1> DEFINE d == IF n \in DOMAIN name_to_id THEN Definition(name_to_id[n], n) ELSE 0
<1>1. d # 0 /\ n \in Defs(f) /\ d = f /\ <<d, n>> \notin non_ir_ref
  <2> HIDE DEF d
  <2>1. get_symbol_resolution(f, n) =
          CASE d = 0 -> "undef"
            [] d # 0 /\ n \notin Defs(f) ->
                 CASE IsIr(d) -> "resolved_ir"
                   [] ~IsIr(d) /\ groups[d].kind = "dynamic" -> "resolved_dyn"
                   [] OTHER -> "resolved_exec"
            [] d # 0 /\ n \in Defs(f) /\ d = f ->
                 CASE <<d, n>> \in non_ir_ref -> "prevailing_def"
                   [] <<d, n>> \notin non_ir_ref /\ ExportsDynamic(d, n) -> "prevailing_def_ironly_exp"
                   [] OTHER -> "prevailing_def_ironly"
            [] OTHER -> IF IsIr(d) THEN "preempted_ir" ELSE "preempted_reg"
    BY DEF get_symbol_resolution, d
  <2> QED BY <2>1
<1> QED BY <1>1

(* The plugin is told of the first round; its files are those of the       *)
(* second.                                                                 *)
LEMMA PluginStep ==
  ASSUME LtoInv, OutputIsNew, AllSymbolsRead
  PROVE  LtoInv'
<1>1. round' = 2 /\ stage = "plugin" /\ stage' \in {"open", "failed"}
  BY DEF AllSymbolsRead, StartLoad
<1>2. UNCHANGED <<groups, name_to_id, resolved, definition, non_ir_ref, selected_once>>
  BY DEF AllSymbolsRead
<1>3. told' = [s \in IrSymbols |-> get_symbol_resolution(s[1], s[2])]
  BY DEF AllSymbolsRead
<1>4. round = 1
  BY <1>1 DEF LtoInv
<1>5. FirstLeads /\ Flagged
  BY <1>1, <1>4 DEF LtoInv, FirstInv, FlagInv
<1>6. ASSUME NEW s \in DOMAIN told', told'[s] = "prevailing_def_ironly", s[2] \notin selected_once,
             NEW f \in resolved, ~IsIr(f), s[2] \in Undefined(f)
      PROVE  FALSE
  <2>1. get_symbol_resolution(s[1], s[2]) = "prevailing_def_ironly"
    BY <1>3, <1>6
  <2> DEFINE n == s[2]
             d == name_to_id[n]
  <2>2. /\ n \in DOMAIN name_to_id
        /\ Definition(d, n) = s[1]
        /\ s[1] # 0
        /\ <<s[1], n>> \notin non_ir_ref
    BY <2>1, IronlyIsFirst
  <2> HIDE DEF n
  <2>3. definition[<<d, n>>] \in {0, d}
    BY <1>5, <1>6, <2>2 DEF FirstLeads, n
  <2>4. Definition(d, n) \in {0, d}
    BY <2>3 DEF Definition
  <2>5. <<d, n>> \in non_ir_ref
    BY <1>5, <1>6, <2>2 DEF Flagged, n
  <2> QED BY <2>2, <2>4, <2>5
<1>7. ASSUME NEW f \in resolved
      PROVE  IsIr(f)' = IsIr(f) /\ Undefined(f)' = Undefined(f)
  <2>1. Stored(groups[f].path) # LtoOutput
    BY <1>4 DEF OutputIsNew
  <2>2. SymbolsOf(f)' = SymbolsOf(f)
    BY <1>2, <2>1 DEF SymbolsOf
  <2> QED BY <1>2, <2>2 DEF IsIr, Undefined, Refs, Defs
<1>8. IronlyIsUnreferenced'
  BY <1>2, <1>6, <1>7 DEF IronlyIsUnreferenced, Overridden
<1> QED BY <1>1, <1>8 DEF LtoInv
-----------------------------------------------------------------------------
(* What the plugin may drop is not referred to by an object of the first   *)
(* round, whatever files and symbols the link has (get_symbol_resolution   *)
(* with HAS_NON_IR_REF of resolve_symbol).                                 *)
THEOREM IronlyAlwaysUnreferenced == Spec /\ []OutputIsNew => []IronlyIsUnreferenced
<1>1. Init => LtoInv
  BY LtoInvAtStart
<1>2. LtoInv /\ OutputIsNew /\ [Next]_<<parse_vars, load_vars, lto_vars>> => LtoInv'
  <2> SUFFICES ASSUME LtoInv, OutputIsNew, [Next]_<<parse_vars, load_vars, lto_vars>>
               PROVE  LtoInv'
    OBVIOUS
  <2>1. CASE Parse \/ Load \/ Finished
    BY <2>1, ReadingSteps
  <2>2. CASE AddInputs
    BY <2>2, AddInputsStep
  <2>3. CASE PopulateSymbolDb
    BY <2>3, PopulateStep
  <2>4. CASE ResolveSymbols
    BY <2>4, ResolveStep
  <2>5. CASE SelectAlternatives
    BY <2>5, SelectStep
  <2>6. CASE AllSymbolsRead
    BY <2>6, PluginStep
  <2>7. CASE PluginStops
    BY <2>7, LtoVarsKept DEF PluginStops
  <2>8. CASE UNCHANGED <<parse_vars, load_vars, lto_vars>>
    BY <2>8, LtoVarsKept DEF load_vars
  <2> QED BY <2>1, <2>2, <2>3, <2>4, <2>5, <2>6, <2>7, <2>8 DEF Next, Lto
<1>3. LtoInv => IronlyIsUnreferenced
  BY DEF LtoInv
<1> QED BY <1>1, <1>2, <1>3, PTL DEF Spec
=============================================================================
