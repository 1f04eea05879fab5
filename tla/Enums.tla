------------------------------- MODULE Enums --------------------------------
(***************************************************************************)
(* The names of enumeration values in runtime.mod/native/embedded_runtime.c*)
(* A value is the set of its bits.  A descriptor has its flags mark and its*)
(* items, each a value and a name, in the order of their declaration, which*)
(* decides which items a flags value is made of when they overlap.  Its    *)
(* three uses are three loops over the items.                              *)
(***************************************************************************)
EXTENDS Strings

Zero == {}
Bar == <<124>>

\* The first item that satisfies a condition on its index, or 0.
FirstOf(K) == IF K = {} THEN 0 ELSE Min(K)

ValuedAt(d, value) == FirstOf({k \in DOMAIN d.items : d.items[k].value = value})

\* Names are compared without the case of A to Z, whatever is installed.
NamedAt(d, name) ==
    FirstOf({k \in DOMAIN d.items : EqualsCase(d.items[k].name, name, Uninstalled)})

\* Whether to_string takes an item: the zero item stands only for itself.
Selected(item, value, acc) ==
    IF item = Zero THEN value = Zero /\ acc.names = << >> ELSE item \subseteq acc.remaining

Names(d, value) ==
    FoldLeft(LAMBDA acc, item :
                 IF Selected(item.value, value, acc)
                   THEN [remaining |-> acc.remaining \ item.value,
                         names |-> Append(acc.names, item.name)]
                   ELSE acc,
             [remaining |-> value, names |-> << >>], d.items).names

EnumToString(d, value) ==
    IF d.flags THEN Join(Bar, Names(d, value))
    ELSE IF ValuedAt(d, value) = 0 THEN Empty ELSE d.items[ValuedAt(d, value)].name

\* What is left of a flags value when every item that fits has been taken out.
Remaining(d, value) ==
    FoldLeft(LAMBDA left, item : IF item.value \subseteq left THEN left \ item.value ELSE left,
             value, d.items)

EnumTryConvert(d, value) ==
    IF d.flags THEN Remaining(d, value) = Zero /\ (value = Zero => ValuedAt(d, Zero) # 0)
    ELSE ValuedAt(d, value) # 0

\* A name that is not found makes the whole text zero.
EnumFromString(d, name) ==
    LET parts == IF d.flags THEN SplitAt(name, Bar) ELSE <<name>>
        at == [k \in DOMAIN parts |-> NamedAt(d, parts[k])]
    IN IF name = Empty \/ \E k \in DOMAIN at : at[k] = 0 THEN Zero
       ELSE UNION {d.items[at[k]].value : k \in DOMAIN at}

-----------------------------------------------------------------------------
(* A value that converts is written as names and read back as itself, in   *)
(* any case; a flags value that does not convert is written as names of a  *)
(* part of it, and another value that does not has no name.                *)
EnumSurvives(d, value) ==
    LET text == EnumToString(d, value)
        back == EnumFromString(d, text)
    IN /\ EnumTryConvert(d, value) => back = value /\ text # Empty
       /\ ~EnumTryConvert(d, value) => back \subseteq value /\ (d.flags \/ text = Empty)
       /\ EnumFromString(d, ToLower(text, Uninstalled)) = back
=============================================================================
