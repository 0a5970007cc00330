-------------------------------- MODULE Kmod --------------------------------
(***************************************************************************)
(* osbase/kmod: the radix tree of modalias patterns (radix.go), the module *)
(* metadata built from modinfo records (meta.go, modinfo.go) and the       *)
(* manager that loads a module with its dependencies (manager.go).         *)
(* Patterns and device modaliases are sequences of byte values.            *)
(***************************************************************************)
EXTENDS Naturals, Sequences, FiniteSets, FiniteSetsExt, SequencesExt

CONSTANTS
  KmodPatterns,     \* the patterns a module may announce
  KmodNeedles,      \* the device modaliases looked up
  KmodInfos,        \* modinfo records MakeMetaFromModuleInfo is given
  KmodTokens,       \* token sequences of modules.builtin.modinfo
  MaxKmodPatterns,  \* bound on patterns added to one tree
  MaxKmodFaults     \* bound on failing finit_module calls and outside loads

VARIABLES
  radix,      \* the radix tree rooted at ModuleDeviceMatches
  added,     \* the patterns added to it, AddPattern's i-th for module i
  infos,     \* the modinfo records the metadata was made from
  kernel,    \* indexes of the modules the kernel holds
  loadedModules, \* Manager.loadedModules
  answer,    \* the last call's modules, its error, what it loaded
  builtin,   \* tokens and result of the last GetBuiltinModulesInfo
  kmodFaults

kmodVars == <<radix, added, infos, kernel, loadedModules, answer, builtin, kmodFaults>>

Star == 42
Dash == 45
Question == 63
Open == 91
Escape == 92
Closing == 93

-----------------------------------------------------------------------------
(* parsePattern: a list of nodes without children, or an error (<<>>).     *)

RadixNode(type, literal, lo, hi) ==
  [type |-> type, literal |-> literal, lo |-> lo, hi |-> hi, modules |-> {}, children |-> <<>>]

EmptyTree == RadixNode("root", <<>>, 0, 0)

Literal(l) == RadixNode("literal", l, 0, 0)

storeCurrentLiteral(out, l) == IF l = <<>> THEN out ELSE Append(out, Literal(l))

RECURSIVE ParseFrom(_, _, _, _)
ParseFrom(p, i, out, l) ==
  LET stored == storeCurrentLiteral(out, l) IN
  CASE i > Len(p) -> <<stored>>
    [] i <= Len(p) /\ p[i] = Star ->
         ParseFrom(p, i + 1,
                   IF stored # <<>> /\ Last(stored).type = "wildcard" THEN stored
                   ELSE Append(stored, RadixNode("wildcard", <<>>, 0, 0)), <<>>)
    [] i <= Len(p) /\ p[i] = Question ->
         ParseFrom(p, i + 1, Append(stored, RadixNode("single", <<>>, 0, 0)), <<>>)
    [] i <= Len(p) /\ p[i] = Open ->
         IF \/ Len(p) < i + 4
            \/ p[i + 2] # Dash \/ p[i + 4] # Closing
            \/ p[i + 1] > p[i + 3]
         THEN <<>>
         ELSE ParseFrom(p, i + 5, Append(stored, RadixNode("range", <<>>, p[i + 1], p[i + 3])), <<>>)
    [] i <= Len(p) /\ p[i] = Escape ->
         IF Len(p) < i + 1 THEN <<>> ELSE ParseFrom(p, i + 2, out, Append(l, p[i + 1]))
    [] OTHER -> ParseFrom(p, i + 1, out, Append(l, p[i]))

parsePattern(p) == ParseFrom(p, 1, <<>>, <<>>)

-----------------------------------------------------------------------------
(* addPatternRec: the node with the parts added below it. The node has at  *)
(* most one child a part can share.                                        *)

CommonPrefix(a, b) ==
  Max({n \in 0 .. Min({Len(a), Len(b)}) : SubSeq(a, 1, n) = SubSeq(b, 1, n)})

Shares(c, piece) ==
  /\ c.type = piece.type
  /\ c.type = "literal" => c.literal[1] = piece.literal[1]
  /\ c.type = "range" => c.lo = piece.lo /\ c.hi = piece.hi

Rest(node, i) == SubSeq(node.literal, i + 1, Len(node.literal))

\* Fault: the half split off the old node loses the old node's children.
SplitOldFault(c, i) == [c EXCEPT !.literal = Rest(c, i), !.children = <<>>]

SplitOld(c, i) == [c EXCEPT !.literal = Rest(c, i)]

RECURSIVE AddPatternRec(_, _, _)
AddPatternRec(n, parts, override) ==
  IF parts = <<>> THEN n ELSE
  LET piece == IF override = <<>> THEN parts[1] ELSE override[1]
      shared == {k \in DOMAIN n.children : Shares(n.children[k], piece)}
      AddLiteral(c) ==
        LET i == CommonPrefix(c.literal, piece.literal)
            split(new) == [c EXCEPT !.children = <<SplitOld(c, i), new>>,
                                    !.literal = SubSeq(piece.literal, 1, i),
                                    !.modules = {}]
            atNode == i = Len(c.literal)
            atPart == i = Len(piece.literal)
        IN CASE atNode /\ atPart /\ Len(parts) = 1 -> [c EXCEPT !.modules = @ \cup parts[1].modules]
             [] atNode /\ atPart /\ Len(parts) > 1 -> AddPatternRec(c, Tail(parts), <<>>)
             [] atNode /\ ~atPart ->
                  AddPatternRec(c, parts, <<[Literal(Rest(piece, i)) EXCEPT !.modules = piece.modules]>>)
             [] ~atNode /\ atPart /\ Len(parts) = 1 ->
                  [c EXCEPT !.children = <<SplitOld(c, i)>>, !.literal = piece.literal,
                            !.modules = piece.modules]
             [] ~atNode /\ atPart /\ Len(parts) > 1 ->
                  split(AddPatternRec(parts[2], Tail(Tail(parts)), <<>>))
             [] OTHER ->
                  split(AddPatternRec([Literal(Rest(piece, i)) EXCEPT !.modules = piece.modules],
                                      Tail(parts), <<>>))
      AddOther(c) ==
        AddPatternRec(IF Len(parts) = 1 THEN [c EXCEPT !.modules = @ \cup parts[1].modules] ELSE c,
                      Tail(parts), <<>>)
  IN IF shared = {}
     THEN [n EXCEPT !.children = Append(@, AddPatternRec(piece, Tail(parts), <<>>))]
     ELSE [n EXCEPT !.children[Min(shared)] =
             IF piece.type = "literal" THEN AddLiteral(@) ELSE AddOther(@)]

\* AddPattern: the tree is left alone when the pattern does not parse.
AddPatternTo(root, pattern, index) ==
  LET parsed == parsePattern(pattern) IN
  CASE parsed = <<>> -> root
    [] parsed = << <<>> >> -> [root EXCEPT !.modules = @ \cup {index}]
    [] OTHER -> AddPatternRec(root, [parsed[1] EXCEPT ![Len(parsed[1])].modules = {index}], <<>>)

\* lookupModulesRec
RECURSIVE LookupModules(_, _)
LookupModules(n, needle) ==
  LET Below(c) ==
        CASE c.type = "literal" ->
               IF Len(needle) >= Len(c.literal) /\ SubSeq(needle, 1, Len(c.literal)) = c.literal
               THEN LookupModules(c, SubSeq(needle, Len(c.literal) + 1, Len(needle))) ELSE {}
          [] c.type = "wildcard" ->
               UNION {LookupModules(c, SubSeq(needle, i, Len(needle))) : i \in 1 .. Len(needle) + 1}
          [] c.type = "single" -> IF needle = <<>> THEN {} ELSE LookupModules(c, Tail(needle))
          [] c.type = "range" ->
               IF needle # <<>> /\ needle[1] \in c.lo .. c.hi
               THEN LookupModules(c, Tail(needle)) ELSE {}
  IN UNION {Below(n.children[k]) : k \in DOMAIN n.children}
     \cup (IF needle = <<>> THEN n.modules ELSE {})

-----------------------------------------------------------------------------
(* GetBuiltinModulesInfo: consecutive tokens <<module, value>> of the same *)
(* module form its record; a module met twice is an error.                 *)

\* Fault: the record under construction at the end of the file is lost.
BuiltinFault(tokens) ==
  LET step(acc, t) ==
        IF acc # <<>> /\ Last(acc).name = t[1]
        THEN [acc EXCEPT ![Len(acc)].values = Append(@, t[2])]
        ELSE Append(acc, [name |-> t[1], values |-> <<t[2]>>])
      out == FoldLeft(step, <<>>, tokens)
  IN IF out = <<>> THEN <<out>> ELSE <<Front(out)>>

GetBuiltinModulesInfo(tokens) ==
  LET step(acc, t) ==
        IF acc # <<>> /\ Last(acc).name = t[1]
        THEN [acc EXCEPT ![Len(acc)].values = Append(@, t[2])]
        ELSE Append(acc, [name |-> t[1], values |-> <<t[2]>>])
      out == FoldLeft(step, <<>>, tokens)
  IN IF \E i, j \in DOMAIN out : i # j /\ out[i].name = out[j].name THEN <<>> ELSE <<out>>

-----------------------------------------------------------------------------
(* MakeMetaFromModuleInfo: a dependency nobody provides resolves to the    *)
(* map's zero value, the first module.                                     *)

ModIndex(name) ==
  IF \E i \in DOMAIN infos : infos[i].name = name
  THEN Max({i \in DOMAIN infos : infos[i].name = name}) ELSE 1

Depends(i) == {ModIndex(infos[i].depends[k]) : k \in DOMAIN infos[i].depends}

Dynamic == {i \in DOMAIN infos : infos[i].path}

NeededDynamic(i) == Depends(i) \cap Dynamic

(* loadModuleRecursive, as the set of outcomes: what is loaded, what the   *)
(* kernel holds, whether an error was returned and how many calls failed.  *)
(* finit_module fails with EEXIST for a module the kernel has, and with    *)
(* another error for one whose dependencies it lacks or at its own will.   *)

Inserted(i, s) ==
  LET marked == [s EXCEPT !.loaded = @ \cup {i}] IN
  (IF i \in s.kernel THEN {[s EXCEPT !.err = "yes"]}
   ELSE {[marked EXCEPT !.kernel = @ \cup {i}] : x \in {y \in {i} : NeededDynamic(y) \subseteq s.kernel}}
        \cup {marked : x \in {y \in {i} : ~NeededDynamic(y) \subseteq s.kernel}}
        \cup {[marked EXCEPT !.faults = @ + 1] : x \in {y \in {i} : s.faults < MaxKmodFaults}})

\* Fault: the module is inserted without its dependencies.
NeedsFault(i) == <<>>

Needs(i) == infos[i].depends

RECURSIVE LoadRecursive(_, _), LoadAll(_, _)
LoadRecursive(i, s) ==
  IF s.err = "yes" \/ i \in s.loaded \/ i \notin Dynamic THEN {s}
  ELSE UNION {IF t.err = "yes" THEN {t} ELSE Inserted(i, t)
              : t \in LoadAll([k \in DOMAIN Needs(i) |-> ModIndex(Needs(i)[k])], s)}
LoadAll(is, s) ==
  IF is = <<>> THEN {s}
  ELSE UNION {LoadAll(Tail(is), t) : t \in LoadRecursive(Head(is), s)}

Request == [loaded |-> loadedModules, kernel |-> kernel, err |-> "no", faults |-> kmodFaults]

Answered(modules, s) ==
  /\ loadedModules' = s.loaded
  /\ kernel' = s.kernel
  /\ kmodFaults' = s.faults
  /\ answer' = [modules |-> modules, err |-> s.err]

-----------------------------------------------------------------------------
KmodInit ==
  /\ radix = EmptyTree /\ added = <<>>
  /\ infos \in KmodInfos
  /\ kernel = {} /\ loadedModules = {} /\ kmodFaults = 0
  /\ answer = [modules |-> {}, err |-> "no"]
  /\ builtin = [tokens |-> <<>>, out |-> << <<>> >>]

\* The tree, the builtin file and the manager use disjoint variables: a
\* behaviour exercises one of the three.
Unmanaged == loadedModules = {} /\ kernel = {} /\ kmodFaults = 0

\* One alias of a dynamic module is added to the tree.
AddPattern(p) ==
  /\ Len(added) < MaxKmodPatterns
  /\ builtin.tokens = <<>> /\ Unmanaged
  /\ added' = Append(added, p)
  /\ radix' = AddPatternTo(radix, p, Len(added) + 1)
  /\ UNCHANGED <<infos, kernel, loadedModules, answer, builtin, kmodFaults>>

ParseBuiltin(tokens) ==
  /\ added = <<>> /\ Unmanaged
  /\ builtin' = [tokens |-> tokens, out |-> GetBuiltinModulesInfo(tokens)]
  /\ UNCHANGED <<radix, added, infos, kernel, loadedModules, answer, kmodFaults>>

\* NewManager reads /proc/modules.
NewManager ==
  /\ added = <<>> /\ builtin.tokens = <<>>
  /\ loadedModules' = kernel
  /\ answer' = [modules |-> {}, err |-> "no"]
  /\ UNCHANGED <<radix, added, infos, kernel, builtin, kmodFaults>>

LoadModule(i) ==
  /\ added = <<>> /\ builtin.tokens = <<>>
  /\ \E s \in LoadRecursive(i, Request) : Answered({i}, s)
  /\ UNCHANGED <<radix, added, infos, builtin>>

\* The matches are a map: they are loaded in any order, up to the first error.
LoadModulesForDevice(matches) ==
  /\ added = <<>> /\ builtin.tokens = <<>>
  /\ \E order \in SetToSeqs(matches) : \E s \in LoadAll(order, Request) : Answered(matches, s)
  /\ UNCHANGED <<radix, added, infos, builtin>>

\* The kernel, or another manager, loads a module.
OutsideLoad(i) ==
  /\ added = <<>> /\ builtin.tokens = <<>>
  /\ kmodFaults < MaxKmodFaults
  /\ i \in Dynamic \ kernel /\ NeededDynamic(i) \subseteq kernel
  /\ kernel' = kernel \cup {i}
  /\ kmodFaults' = kmodFaults + 1
  /\ UNCHANGED <<radix, added, infos, loadedModules, answer, builtin>>

KmodNext ==
  \/ \E p \in KmodPatterns : AddPattern(p)
  \/ \E t \in KmodTokens : ParseBuiltin(t)
  \/ NewManager
  \/ \E i \in DOMAIN infos : LoadModule(i) \/ OutsideLoad(i)
  \/ \E m \in SUBSET DOMAIN infos : LoadModulesForDevice(m)

KmodSpec == KmodInit /\ [][KmodNext]_kmodVars

-----------------------------------------------------------------------------
KmodTypeOK ==
  /\ radix.type = "root"
  /\ Len(added) <= MaxKmodPatterns /\ Range(added) \subseteq KmodPatterns
  /\ kernel \subseteq Dynamic /\ loadedModules \subseteq Dynamic
  /\ answer.err \in {"yes", "no"} /\ answer.modules \subseteq DOMAIN infos
  /\ kmodFaults \in 0 .. MaxKmodFaults

\* What a modalias pattern means, one byte at a time.
RECURSIVE Glob(_, _)
Glob(p, s) ==
  CASE p = <<>> -> s = <<>>
    [] p # <<>> /\ p[1] = Star -> Glob(Tail(p), s) \/ (s # <<>> /\ Glob(p, Tail(s)))
    [] p # <<>> /\ p[1] = Question -> s # <<>> /\ Glob(Tail(p), Tail(s))
    [] p # <<>> /\ p[1] = Open ->
         s # <<>> /\ s[1] \in p[2] .. p[4] /\ Glob(SubSeq(p, 6, Len(p)), Tail(s))
    [] p # <<>> /\ p[1] = Escape -> s # <<>> /\ s[1] = p[2] /\ Glob(SubSeq(p, 3, Len(p)), Tail(s))
    [] OTHER -> s # <<>> /\ s[1] = p[1] /\ Glob(Tail(p), Tail(s))

(* In whatever order patterns are added, and however their literals were   *)
(* split and shared, a lookup in the tree finds exactly the modules with a *)
(* pattern that matches; a builtin modinfo file yields each module once    *)
(* with all its values, or is refused when a module's tokens are not       *)
(* together; and the manager never counts a module as loaded before the    *)
(* modules it depends on.                                                  *)
KmodSound ==
  /\ \A s \in KmodNeedles :
       LookupModules(radix, s)
         = {i \in DOMAIN added : parsePattern(added[i]) # <<>> /\ Glob(added[i], s)}
  /\ LET t == builtin.tokens
         together == \A i, j, k \in DOMAIN t : i < j /\ j < k /\ t[i][1] = t[k][1] => t[j][1] = t[i][1]
     IN /\ together <=> builtin.out # <<>>
        /\ together =>
             /\ {builtin.out[1][m].name : m \in DOMAIN builtin.out[1]} = {t[i][1] : i \in DOMAIN t}
             /\ \A m \in DOMAIN builtin.out[1] :
                  LET mine(x) == x[1] = builtin.out[1][m].name
                      of == SelectSeq(t, mine)
                  IN builtin.out[1][m].values = [i \in DOMAIN of |-> of[i][2]]
  /\ \A i \in loadedModules : NeededDynamic(i) \subseteq loadedModules

(* "If it failed loading the module or the module does not exist, it       *)
(* returns an error": a call that returned none has its modules in the     *)
(* kernel, or they are built in. It does not hold: loadModuleRecursive     *)
(* reports EEXIST and ignores every other error of LoadModule.             *)
KmodLoaded == answer.err = "no" => answer.modules \cap Dynamic \subseteq kernel
=============================================================================
