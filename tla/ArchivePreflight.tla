-------------------------- MODULE ArchivePreflight --------------------------
(***************************************************************************)
(* backend/app/services/archive_preflight.py: what an uploaded archive     *)
(* must satisfy before the native library may see it.  The checks are a    *)
(* pure function of the upload, so they are operators; CurveLabImports     *)
(* calls Admits.                                                           *)
(*                                                                         *)
(* An upload is a record:                                                  *)
(*   encoding, wire, size  Content-Encoding, bytes received and expanded   *)
(*   stream                what zlib reports of a gzip stream              *)
(*   defects               of the text: "nul", "utf8", "tail", "escape" (a *)
(*                         decoded string with U+0000 or a surrogate)      *)
(*   numbers               its numeric tokens, [length, finite]            *)
(*   objects               the JSON objects other than {"$tag": t}, the    *)
(*                         root first; each is [type, tag, keys, members], *)
(*                         members a sequence of <<field, value>>          *)
(* A value is null, a string, an array of n numbers or of n strings, a     *)
(* reference to a tag, or an object, given by its index in objects.  Texts *)
(* are abstracted to their size (of an array, that of its longest item),   *)
(* arrays to their number of items; only the keys of a Bag are there as    *)
(* such, in keys.  An array of mixed items is refused as one of the wrong  *)
(* items is, and the names of fields, types and tags are taken to be       *)
(* shorter than a string may be.                                           *)
(***************************************************************************)
EXTENDS Naturals, Sequences, SequencesExt, FiniteSetsExt, TLC

CONSTANTS
  Limits,   \* the fields of ArchiveLimits
  NoTag     \* an object without "$tag"

Null == [kind |-> "null", n |-> 0, size |-> 0, tag |-> NoTag]
Str(size) == [Null EXCEPT !.kind = "string", !.size = size]
Numbers(n) == [Null EXCEPT !.kind = "numbers", !.n = n]
Texts(n, size) == [Null EXCEPT !.kind = "texts", !.n = n, !.size = size]
Ref(t) == [Null EXCEPT !.kind = "ref", !.tag = t]
Obj(i) == [Null EXCEPT !.kind = "object", !.n = i]

IsArray(v) == v.kind \in {"numbers", "texts"}

Nodes(a) == DOMAIN a.objects
Fields(o) == {m[1] : m \in ToSet(o.members)}
Value(o, field) == o.members[CHOOSE i \in DOMAIN o.members : o.members[i][1] = field][2]
Values(o) == [i \in DOMAIN o.members |-> o.members[i][2]]

(* The objects are numbered as the text opens them, so what is nested in   *)
(* an object comes after it.                                               *)
IsUpload(a) ==
  /\ Len(a.objects) \in Nat \ {0} /\ Nodes(a) = 1..Len(a.objects)
  /\ \A i \in Nodes(a) : \A v \in ToSet(Values(a.objects[i])) :
       v.kind = "object" => v.n \in Nodes(a) /\ v.n > i
-----------------------------------------------------------------------------
(* The type tables.                                                        *)

BagTypes == {"Bag", "Bag_v1"}

DiscountTypes ==
  {"DiscountPWC", "DiscountPWC_v1", "DiscountPWLF", "DiscountPWLF_v1", "DiscountZeroRate",
   "DiscountZeroRate_v1", "DiscountLogDF", "DiscountLogDF_v1", "DiscountLogDF_v2"}

InterpolatorTypes == {"Interp1Linear_v1", "Cubic1", "LogLinear1"}

RootTypes == BagTypes \cup DiscountTypes

(* The arrays that describe a curve or an interpolator, of equal lengths.  *)
Coordinates(type) ==
  CASE type = "DiscountPWC"                           -> {"dates", "values"}
    [] type = "DiscountPWC_v1"                        -> {"knotDates", "rightVals"}
    [] type \in {"DiscountPWLF", "DiscountPWLF_v1"}   -> {"knotDates", "leftVals", "rightVals"}
    [] type \in {"DiscountZeroRate", "DiscountZeroRate_v1"} -> {"nodeDates", "zeroRates"}
    [] type \in {"DiscountLogDF", "DiscountLogDF_v1", "DiscountLogDF_v2"} -> {"nodeDates", "logDF"}
    [] type = "Cubic1"                                -> {"x", "f", "fpp"}
    [] type \in {"Interp1Linear_v1", "LogLinear1"}    -> {"x", "f"}
    [] type \in BagTypes                              -> {"keys"}

TextArrays == {"keys", "dates", "knotDates", "nodeDates"}

Strings(type) ==
  CASE type \in BagTypes          -> {"name"}
    [] type \in InterpolatorTypes -> {}
    [] type = "DiscountPWC"       -> {"name", "currency"}
    [] type \in {"DiscountZeroRate", "DiscountZeroRate_v1"} ->
         {"name", "ccy", "anchorDate", "dayCount", "scheme"}
    [] type = "DiscountLogDF_v2"  -> {"name", "ccy", "dayCount", "scheme"}
    [] type \in {"DiscountLogDF", "DiscountLogDF_v1"} -> {"name", "ccy", "dayCount"}
    [] OTHER                      -> {"name", "ccy"}

Required(type) ==
  Coordinates(type) \cup Strings(type) \cup (IF type = "DiscountLogDF_v1" THEN {"interp"} ELSE {})

Optional(type) ==
  (IF type \in DiscountTypes THEN {"base"} ELSE {})
    \cup (IF type = "DiscountLogDF" THEN {"interp", "scheme"} ELSE {})

(* A Bag has the fields contents<i>.  A number that is not less than the   *)
(* number of members cannot be part of a gapless count of them.            *)
ContentsField(i) == "contents" \o ToString(i)
ContentsFields(n) == {ContentsField(i - 1) : i \in 1..n}

Contents(o) == Fields(o) \cap ContentsFields(Len(o.members))

(* The types a definition, or the target of a reference, may have there.   *)
AllowedAt(field) == IF field = "interp" THEN InterpolatorTypes ELSE DiscountTypes
-----------------------------------------------------------------------------
(* The stages of preflight_archive.                                        *)

(* _expand.                                                                *)
Expands(a) ==
  CASE a.encoding = "identity" -> a.wire <= Limits.expanded_bytes
    [] a.encoding = "gzip" ->
         /\ a.stream.valid
         /\ a.size <= Limits.expanded_bytes
         /\ a.stream.ended
         /\ a.stream.unused = 0
    [] OTHER -> FALSE

(* _decode_one_json_value: one value, finite numbers of bounded length,    *)
(* and no key twice in an object.                                          *)
Decodes(a) ==
  /\ a.size > 0
  /\ a.defects = {}
  /\ \A x \in a.numbers : x.length <= Limits.max_number_bytes /\ x.finite
  /\ \A i \in Nodes(a) :
       \A j, k \in DOMAIN a.objects[i].members :
         a.objects[i].members[j][1] = a.objects[i].members[k][1] => j = k

(* _validate_structure: the limits on what the text expands to.            *)
Parent(a, i) == CHOOSE p \in Nodes(a) : Obj(i) \in ToSet(Values(a.objects[p]))

Depth(a) ==
  LET depth[i \in Nodes(a)] == IF i = 1 THEN 1 ELSE 1 + depth[Parent(a, i)] IN depth

CountOf(o) ==
  LET weight(v) == CASE v.kind = "object" -> 0
                     [] v.kind = "ref"    -> 2
                     [] IsArray(v)        -> 1 + v.n
                     [] OTHER             -> 1 IN
  (IF o.tag = NoTag THEN 2 ELSE 3)
    + MapThenSumSet(LAMBDA k : weight(Values(o)[k]), DOMAIN o.members)

LevelsBelow(o) ==
  IF \E v \in ToSet(Values(o)) : v.kind = "ref" \/ v.n > 0 THEN 2 ELSE 1

ReferencesOf(o) == {k \in DOMAIN o.members : Values(o)[k].kind = "ref"}

StructureHolds(a) ==
  /\ MapThenSumSet(LAMBDA i : CountOf(a.objects[i]), Nodes(a)) <= Limits.max_values
  /\ \A i \in Nodes(a) : Depth(a)[i] + LevelsBelow(a.objects[i]) <= Limits.max_depth
  /\ Cardinality(Nodes(a)) <= Limits.max_objects
  /\ MapThenSumSet(LAMBDA i : Cardinality(ReferencesOf(a.objects[i])), Nodes(a))
       <= Limits.max_references
  /\ \A i \in Nodes(a) : \A v \in ToSet(Values(a.objects[i])) :
       /\ v.size <= Limits.max_string_bytes
       /\ v.kind = "numbers" => v.n <= Limits.max_numeric_array

(* _validate_native_definition and the three validators it dispatches to.  *)
FieldsHold(o) ==
  /\ Required(o.type) \subseteq Fields(o)
  /\ Fields(o) \subseteq Required(o.type) \cup Optional(o.type)
                           \cup (IF o.type \in BagTypes THEN Contents(o) ELSE {})
  /\ \A field \in Coordinates(o.type) :
       /\ IsArray(Value(o, field))
       /\ \/ Value(o, field).n = 0
          \/ Value(o, field).kind = IF field \in TextArrays THEN "texts" ELSE "numbers"
  /\ \A field \in (Strings(o.type) \cup {"scheme"}) \cap Fields(o) :
       Value(o, field).kind = "string"

BagHolds(o) ==
  /\ "" \notin ToSet(o.keys)
  /\ \A i, j \in DOMAIN o.keys : o.keys[i] = o.keys[j] => i = j
  /\ Contents(o) = ContentsFields(Len(o.keys))

CoordinatesHold(o) ==
  \A f, g \in Coordinates(o.type) : Value(o, f).n = Value(o, g).n

DefinitionHolds(o) ==
  /\ o.type \in RootTypes \cup InterpolatorTypes
  /\ FieldsHold(o)
  /\ IF o.type \in BagTypes THEN BagHolds(o) ELSE CoordinatesHold(o)

(* The positions of an object that hold another one.                       *)
Children(o) ==
  {m \in ToSet(o.members) :
     m[1] \in {"interp"} \cup Contents(o) \/ (m[1] = "base" /\ m[2] # Null)}

Definitions(a, t) == {i \in Nodes(a) : a.objects[i].tag = t /\ t # NoTag}

(* A definition, or a reference with a target (a dangling one is for       *)
(* _validate_reference_graph), of a type that may stand there.             *)
PositionHolds(a, m) ==
  CASE m[2].kind = "object" -> a.objects[m[2].n].type \in AllowedAt(m[1])
    [] m[2].kind = "ref"    ->
         \A i \in Definitions(a, m[2].tag) : a.objects[i].type \in AllowedAt(m[1])
    [] OTHER                -> FALSE

(* _validate_grammar.                                                      *)
GrammarHolds(a) ==
  /\ a.objects[1].type \in RootTypes
  /\ \A i \in Nodes(a) :
       DefinitionHolds(a.objects[i]) /\ \A m \in Children(a.objects[i]) : PositionHolds(a, m)
-----------------------------------------------------------------------------
(* _validate_reference_graph: tags are defined once, references lead       *)
(* somewhere, and a depth-first search with three colours finds no cycle.  *)

(* Mutant of EdgesOf: only references count, not the tagged definitions    *)
(* that are nested in the object.                                          *)
ReferenceEdgesOf(a, i, inner) ==
  UNION {CASE v.kind = "ref"    -> {v.tag}
           [] v.kind = "object" -> IF a.objects[v.n].tag # NoTag THEN {} ELSE inner[v.n]
           [] OTHER             -> {} : v \in ToSet(Values(a.objects[i]))}

(* _definition_edges: the tags an object refers to or nests, without       *)
(* entering a nested object that has a tag of its own.                     *)
EdgesOf(a, i, inner) ==
  UNION {CASE v.kind = "ref"    -> {v.tag}
           [] v.kind = "object" -> IF a.objects[v.n].tag # NoTag THEN {a.objects[v.n].tag}
                                   ELSE inner[v.n]
           [] OTHER             -> {} : v \in ToSet(Values(a.objects[i]))}

Edges(a) == LET edges[i \in Nodes(a)] == EdgesOf(a, i, edges) IN edges

(* The search visits NoTag first, whose targets are all tags: the loop     *)
(* over the starts.  left holds the targets not looked at yet, the rest of *)
(* each iterator; state is 1 for a tag on the stack, 2 for a finished one. *)
Start(graph) ==
  [stack |-> <<NoTag>>, left |-> graph,
   state |-> [t \in DOMAIN graph |-> IF t = NoTag THEN 1 ELSE 0]]

(* One turn of the loop.  A target on the stack stops the search there.    *)
Turn(s) ==
  LET tag == Last(s.stack)
      target == CHOOSE t \in s.left[tag] : TRUE
      without == [s.left EXCEPT ![tag] = @ \ {target}] IN
  IF s.stack = <<>> THEN s
  ELSE IF s.left[tag] = {}
  THEN [stack |-> Front(s.stack), left |-> s.left, state |-> [s.state EXCEPT ![tag] = 2]]
  ELSE CASE s.state[target] = 0 -> [stack |-> Append(s.stack, target), left |-> without,
                                    state |-> [s.state EXCEPT ![target] = 1]]
         [] s.state[target] = 1 -> s
         [] s.state[target] = 2 -> [s EXCEPT !.left = without]

(* Every turn takes a target or finishes a tag, so these are enough.       *)
Turns(graph) == LET n == Cardinality(DOMAIN graph) IN n * (n + 1)

Search(graph) ==
  LET after[n \in 0..Turns(graph)] == IF n = 0 THEN Start(graph) ELSE Turn(after[n - 1]) IN
  after

Tags(a) == {a.objects[i].tag : i \in Nodes(a)} \ {NoTag}
Owner(a, t) == CHOOSE i \in Nodes(a) : a.objects[i].tag = t
Graph(a) == [t \in Tags(a) \cup {NoTag} |-> IF t = NoTag THEN Tags(a) ELSE Edges(a)[Owner(a, t)]]

ReferencesResolve(a) ==
  /\ \A t \in Tags(a) : Cardinality(Definitions(a, t)) = 1
  /\ \A i \in Nodes(a) : Edges(a)[i] \subseteq Tags(a)
  /\ Search(Graph(a))[Turns(Graph(a))].stack = <<>>

(* preflight_archive.                                                      *)
Admits(a) ==
  /\ a.wire <= Limits.wire_bytes
  /\ Expands(a)
  /\ Decodes(a)
  /\ StructureHolds(a)
  /\ GrammarHolds(a)
  /\ ReferencesResolve(a)
-----------------------------------------------------------------------------
(* What the native reconstruction takes for granted, said without a        *)
(* search: every reference has one target of a type that may stand there,  *)
(* and no set of objects waits for each other.                             *)
Targets(a, v) == IF v.kind = "object" THEN {v.n} ELSE Definitions(a, v.tag)
Needs(a, i) == UNION {Targets(a, m[2]) : m \in Children(a.objects[i])}

NativeCanFollow(a) ==
  /\ \A i \in Nodes(a) : \A m \in Children(a.objects[i]) :
       /\ Cardinality(Targets(a, m[2])) = 1
       /\ \A j \in Targets(a, m[2]) : a.objects[j].type \in AllowedAt(m[1])
  /\ \A S \in SUBSET Nodes(a) : S # {} => \E i \in S : Needs(a, i) \cap S = {}
=============================================================================
