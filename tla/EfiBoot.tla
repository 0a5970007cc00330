------------------------------ MODULE EfiBoot -------------------------------
(***************************************************************************)
(* How a node is booted: the EFI boot entries and the kernel command line. *)
(***************************************************************************)
EXTENDS FiniteSets, Sequences, SequencesExt, Integers

(***************************************************************************)
(* The EFI boot entries of a node: fixupEFI of metropolis/node/core/update *)
(* on the variables of osbase/efivarfs, and the encoding of an entry.      *)
(*                                                                         *)
(* An entry is one of                                                      *)
(*   "own", "other"        the A/B loader on the node's ESP, on another ESP *)
(*   "orphan"              a Metropolis entry for another file             *)
(*   "vendor"              another two part entry                          *)
(*   "foreign"             an entry of another shape, or unreadable        *)
(***************************************************************************)

CONSTANTS
    MaxIndex,  \* stands for 0xFFFF, the last index of a boot entry
    MaxOrder,  \* bound on the length of the boot order at first
    MaxDescription, \* bound on the length of a description
    MaxEfiFaults \* bound on the variables that cannot be written or deleted

VARIABLES
    bootEntry, \* the entry at every index, "none" where there is none
    bootOrder, \* BootOrder
    entriesWere, orderWas, \* both when the last fixup began
    fixup,     \* the fixup: "idle", the index that is looked at, "add", "order", "ok", "failed"
    validBootEntryIdx,
    efiFaults  \* failures so far

efiVars == <<bootEntry, bootOrder, entriesWere, orderWas, fixup, validBootEntryIdx, efiFaults>>

Index == 0 .. MaxIndex

Kind == {"own", "other", "orphan", "vendor", "foreign"}

NoEntry == MaxIndex + 1

EfiInit ==
    /\ bootEntry \in [Index -> Kind \cup {"none"}]
    /\ bootOrder \in UNION {[1 .. n -> Index] : n \in 0 .. MaxOrder}
    /\ entriesWere = bootEntry
    /\ orderWas = bootOrder
    /\ fixup = <<"idle">>
    /\ validBootEntryIdx = NoEntry
    /\ efiFaults = 0

-----------------------------------------------------------------------------

Fail == efiFaults < MaxEfiFaults /\ efiFaults' = efiFaults + 1

(* List, and the first boot variable in the order of their names. *)
FixupBegins ==
    /\ fixup \in {<<"idle">>, <<"failed">>}
    /\ fixup' = <<"entry", 0>>
    /\ validBootEntryIdx' = NoEntry
    /\ entriesWere' = bootEntry
    /\ orderWas' = bootOrder
    /\ UNCHANGED <<bootEntry, bootOrder, efiFaults>>

(* The loader entries that fixupEFI takes for those of the node.  The      *)
(* partition of a GPT entry is decoded to a value, and the comparison with *)
(* the ESP of the node is made only for a pointer.                         *)
LoaderEntryFault(e) == e \in {"own", "other", "vendor"}

LoaderEntry(e) == e \in {"own", "other"}

(* The first loader entry is the valid one, the others are duplicates. *)
Unwanted(i) ==
    \/ LoaderEntry(bootEntry[i]) /\ validBootEntryIdx # NoEntry
    \/ bootEntry[i] = "orphan"

FixupEntry ==
    /\ fixup[1] = "entry"
    /\ LET i == fixup[2]
       IN  /\ validBootEntryIdx' =
                IF LoaderEntry(bootEntry[i]) /\ validBootEntryIdx = NoEntry THEN i
                ELSE validBootEntryIdx
           /\ fixup' = IF i < MaxIndex THEN <<"entry", i + 1>>
                       ELSE IF validBootEntryIdx' = NoEntry THEN <<"add">> ELSE <<"order">>
           /\ IF Unwanted(i)
              THEN \/ bootEntry' = [bootEntry EXCEPT ![i] = "none"] /\ UNCHANGED efiFaults
                   \/ Fail /\ UNCHANGED bootEntry
              ELSE UNCHANGED <<bootEntry, efiFaults>>
    /\ UNCHANGED <<bootOrder, entriesWere, orderWas>>

(* AddBootEntry takes the first free index; the last one is never used. *)
FreeIndex == {i \in 0 .. MaxIndex - 1 : bootEntry[i] = "none"}

AddBootEntry ==
    /\ fixup = <<"add">>
    /\ \/ /\ FreeIndex # {}
          /\ validBootEntryIdx' = CHOOSE i \in FreeIndex : \A j \in FreeIndex : i <= j
          /\ bootEntry' = [bootEntry EXCEPT ![validBootEntryIdx'] = "own"]
          /\ fixup' = <<"order">>
          /\ UNCHANGED efiFaults
       \/ /\ IF FreeIndex = {} THEN UNCHANGED efiFaults ELSE Fail
          /\ fixup' = <<"failed">>
          /\ UNCHANGED <<bootEntry, validBootEntryIdx>>
    /\ UNCHANGED <<bootOrder, entriesWere, orderWas>>

(* The entry is put first unless it has a place. *)
FixupOrder ==
    /\ fixup = <<"order">>
    /\ \/ /\ bootOrder' = IF Contains(bootOrder, validBootEntryIdx) THEN bootOrder
                          ELSE <<validBootEntryIdx>> \o bootOrder
          /\ fixup' = <<"ok">>
          /\ UNCHANGED efiFaults
       \/ /\ Fail
          /\ fixup' = <<"failed">>
          /\ UNCHANGED bootOrder
    /\ UNCHANGED <<bootEntry, entriesWere, orderWas, validBootEntryIdx>>

(* The node goes down in the middle; the next boot fixes up again. *)
EfiInterrupted ==
    /\ fixup[1] \in {"entry", "add", "order"}
    /\ Fail
    /\ fixup' = <<"failed">>
    /\ UNCHANGED <<bootEntry, bootOrder, entriesWere, orderWas, validBootEntryIdx>>

EfiNext ==
    \/ FixupBegins
    \/ FixupEntry
    \/ AddBootEntry
    \/ FixupOrder
    \/ EfiInterrupted

-----------------------------------------------------------------------------
(* The description of a load option: UTF-16, of each code unit the low and *)
(* the high byte, of which only zero and not zero are told apart.          *)

Latin == <<1, 0>>

CodeUnit == {Latin, <<1, 1>>, <<0, 1>>}

Description == UNION {[1 .. n -> CodeUnit] : n \in 0 .. MaxDescription}

(* Marshal: the description, its terminator, and then the device path,     *)
(* which begins with a type that is not zero.                              *)
Marshalled(d) == FlattenSeq(d) \o <<0, 0>> \o <<1>>

(* UnmarshalLoadOption looks for the first two zero bytes; the first of    *)
(* them is taken for the high byte of the last unit.                       *)
DescriptionEndFault(b) ==
    LET zero == CHOOSE i \in 1 .. Len(b) - 1 :
                  /\ b[i] = 0 /\ b[i + 1] = 0
                  /\ \A j \in 1 .. i - 1 : ~(b[j] = 0 /\ b[j + 1] = 0)
    IN  zero - 1 + 2

DescriptionEnd(b) ==
    LET zero == CHOOSE i \in 1 .. Len(b) - 1 :
                  /\ b[i] = 0 /\ b[i + 1] = 0
                  /\ \A j \in 1 .. i - 1 : ~(b[j] = 0 /\ b[j + 1] = 0)
    IN  zero + 2

-----------------------------------------------------------------------------

(* Every variable has its type. *)
EfiTypeOK ==
    /\ bootEntry \in [Index -> Kind \cup {"none"}]
    /\ \A i \in DOMAIN bootOrder : bootOrder[i] \in Index
    /\ fixup[1] \in {"idle", "entry", "add", "order", "ok", "failed"}
    /\ validBootEntryIdx \in Index \cup {NoEntry}

(* The loader entries of Index that are left. *)
LoaderEntries == {i \in Index : LoaderEntry(bootEntry[i])}

(* A fixup that succeeds leaves a loader entry in the boot order, ahead of *)
(* or among what was there, and when nothing failed no other one and no    *)
(* orphan.  No fixup, interrupted or not, touches an entry that is not the *)
(* node's kind, removes the last loader entry, or reorders the boot order. *)
(* The end of a Latin description is found where it was written.           *)
EfiSound ==
    /\ fixup = <<"ok">> =>
         /\ validBootEntryIdx \in LoaderEntries
         /\ Contains(bootOrder, validBootEntryIdx)
         /\ efiFaults = 0 =>
              /\ LoaderEntries = {validBootEntryIdx}
              /\ \A i \in Index : bootEntry[i] # "orphan"
    /\ \A i \in Index :
         entriesWere[i] \in {"vendor", "foreign"} => bootEntry[i] = entriesWere[i]
    /\ (\E i \in Index : entriesWere[i] \in {"own", "other"}) => LoaderEntries # {}
    /\ IsSuffix(orderWas, bootOrder)
    /\ \A d \in [1 .. MaxDescription -> {Latin}] :
         DescriptionEnd(Marshalled(d)) = 2 * Len(d) + 2

(* "Not related to our ESP": a boot entry of another ESP is not the node's *)
(* entry, and a node whose own entry is missing gets one. It does not      *)
(* hold: see LoaderEntry.                                                  *)
EfiOwnEntry == fixup = <<"ok">> => bootEntry[validBootEntryIdx] = "own"

-----------------------------------------------------------------------------
(***************************************************************************)
(* Kernel command lines (osbase/bootparam): a list of parameters is        *)
(* marshalled and the kernel's parser, mirrored by Unmarshal, reads it.    *)
(* A string is a sequence over Chars: "s" stands for a space and "q" for a *)
(* double quote; a null or 0xa0 byte is rejected like one and left out.    *)
(***************************************************************************)

CONSTANTS
  BootParams,  \* lists of parameters: sequences of <<param, value>>
  BootRests    \* what follows "--"

VARIABLES
  bootIn,    \* <<params, rest>> given to Marshal
  bootLine,  \* <<>>, <<"error">> or <<"line", s>>
  bootOut    \* <<>> or <<params, rest>> of Unmarshal

bootVars == <<bootIn, bootLine, bootOut>>

containsSpace(s) == \E i \in DOMAIN s : s[i] = "s"
HasRune(s, r) == \E i \in DOMAIN s : s[i] = r

\* The first of some positions of s, or Len(s) + 1.
FirstIndex(s, hits) == CHOOSE i \in hits \cup {Len(s) + 1} : \A j \in hits : i <= j

TrimLeftSpace(s) == SubSeq(s, FirstIndex(s, {i \in DOMAIN s : s[i] # "s"}), Len(s))

TrimPrefixQuote(s) == IF s # <<>> /\ s[1] = "q" THEN Tail(s) ELSE s
TrimSuffixQuote(s) == IF s # <<>> /\ s[Len(s)] = "q" THEN Front(s) ELSE s

-----------------------------------------------------------------------------
(* Marshal                                                                 *)
\* Fault: a value with spaces is not quoted.
QuotedFault(s) == s

Quoted(s) == IF containsSpace(s) THEN <<"q">> \o s \o <<"q">> ELSE s

Encodable(p) ==
  /\ ~HasRune(p[1], "=") /\ ~HasRune(p[1], "q") /\ ~HasRune(p[2], "q")
  /\ ~(p[2] # <<>> /\ containsSpace(p[1]))
  /\ p[1] # <<"-", "-">> /\ p[1] # <<>>

Encoded(p) == Quoted(p[1]) \o (IF p[2] = <<>> THEN <<>> ELSE <<"=">> \o Quoted(p[2])) \o <<"s">>

Marshal(params, rest) ==
  IF \E i \in DOMAIN params : ~Encodable(params[i]) THEN <<"error">>
  ELSE <<"line", FlattenSeq([i \in DOMAIN params |-> Encoded(params[i])])
                 \o (IF rest = <<>> THEN <<>> ELSE <<"-", "-", "s">> \o TrimLeftSpace(rest))>>

-----------------------------------------------------------------------------
(* Unmarshal: the line is cut at spaces outside quotes; "--" ends it.      *)
\* parseToken, for a token that does not start with = or "=.
parseToken(token) ==
  LET eq == FirstIndex(token, {i \in DOMAIN token : token[i] = "="})
      hasValue == eq <= Len(token)
      param == SubSeq(token, 1, eq - 1)
      value == SubSeq(token, eq + 1, Len(token))
      quoted == param # <<>> /\ param[1] = "q"
  IN << IF quoted /\ ~hasValue THEN TrimSuffixQuote(TrimPrefixQuote(param)) ELSE TrimPrefixQuote(param),
        IF value # <<>> /\ value[1] = "q" THEN TrimSuffixQuote(TrimPrefixQuote(value))
        ELSE IF quoted THEN TrimSuffixQuote(value) ELSE value >>

InQuote(s, i) == Cardinality({j \in 1 .. i - 1 : s[j] = "q"}) % 2 = 1

\* The tokens of s with the index behind each.
Tokens(s) ==
  LET ends == SetToSortSeq({i \in DOMAIN s : s[i] = "s" /\ ~InQuote(s, i)} \cup {Len(s) + 1}, <)
      all == [k \in DOMAIN ends |->
               <<SubSeq(s, IF k = 1 THEN 1 ELSE ends[k - 1] + 1, ends[k] - 1), ends[k] + 1>>]
  IN SelectSeq(all, LAMBDA t : TrimLeftSpace(t[1]) # <<>>)

Unmarshal(line) ==
  LET s == TrimLeftSpace(line)
      tokens == Tokens(s)
      stop == FirstIndex(tokens, {i \in DOMAIN tokens : parseToken(tokens[i][1])[1] = <<"-", "-">>})
  IN << [k \in 1 .. stop - 1 |-> parseToken(tokens[k][1])],
        IF stop <= Len(tokens) THEN TrimLeftSpace(SubSeq(s, tokens[stop][2], Len(s))) ELSE <<>> >>

-----------------------------------------------------------------------------
BootParamInit ==
  /\ bootIn \in BootParams \X BootRests
  /\ bootLine = <<>> /\ bootOut = <<>>

MarshalLine ==
  /\ bootLine = <<>>
  /\ bootLine' = Marshal(bootIn[1], bootIn[2])
  /\ UNCHANGED <<bootIn, bootOut>>

UnmarshalLine ==
  /\ bootLine # <<>> /\ bootLine # <<"error">> /\ bootOut = <<>>
  /\ bootOut' = Unmarshal(bootLine[2])
  /\ UNCHANGED <<bootIn, bootLine>>

BootParamNext == MarshalLine \/ UnmarshalLine

BootParamSpec == BootParamInit /\ [][BootParamNext]_bootVars

(* What Marshal accepts the parser gives back: the same parameters in the  *)
(* same order, and the rest without its leading spaces.                    *)
BootParamSound ==
  bootOut # <<>> => bootOut = <<bootIn[1], TrimLeftSpace(bootIn[2])>>
=============================================================================
