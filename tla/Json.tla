-------------------------------- MODULE Json --------------------------------
(***************************************************************************)
(* json_compare (json.c): does an object of the JSON library match a       *)
(* pattern.  A value is a record of its type and what it holds: a function *)
(* of its keys for an object, a sequence for an array, a number or a text. *)
(***************************************************************************)
EXTENDS CString, FiniteSets

CONSTANTS
    JsonSamples,    \* a sequence of different values, with numbers of the range
                    \* of int and texts without a zero in them
    JsonIntMax      \* INT32_MAX, at which json_object_get_int cuts a number off

VARIABLE subject    \* which of them is compared with the others, 0 before that

ASSUME JsonAssumption == JsonIntMax \in Nat

\* JSON_COMPARE_FLAG_STRICT_OBJECTS, JSON_COMPARE_FLAG_STRICT_ARRAYS
JsonFlags == [objects : BOOLEAN, arrays : BOOLEAN]

AsInt(n) == CASE n > JsonIntMax -> JsonIntMax [] n < -JsonIntMax - 1 -> -JsonIntMax - 1 [] OTHER -> n

\* json_compare_string: what is behind a zero is not compared.
CompareString(obj, pattern) ==
    LET shown(t) == IF StrChr(t, 0, 0) = NULL THEN t ELSE Front(t, StrChr(t, 0, 0))
    IN  Len(obj) = Len(pattern) /\ shown(obj) = shown(pattern)

RECURSIVE JsonCompare(_, _, _)

\* Mutation of CompareObject: a strict comparison only looks at the pattern's keys.
CompareAnyObject(obj, pattern, flags) ==
    \A key \in DOMAIN pattern : key \in DOMAIN obj /\ JsonCompare(obj[key], pattern[key], flags)

\* json_compare_object
CompareObject(obj, pattern, flags) ==
    /\ flags.objects => Cardinality(DOMAIN obj) = Cardinality(DOMAIN pattern)
    /\ \A key \in DOMAIN pattern : key \in DOMAIN obj /\ JsonCompare(obj[key], pattern[key], flags)
    /\ flags.objects => DOMAIN obj \subseteq DOMAIN pattern

\* Mutation of CompareArray: the flags are not passed on.
CompareArrayShallow(obj, pattern, flags) ==
    IF flags.arrays
    THEN /\ Len(obj) = Len(pattern)
         /\ \A i \in DOMAIN pattern : JsonCompare(obj[i], pattern[i], [flags EXCEPT !.objects = FALSE])
    ELSE \A i \in DOMAIN pattern : \E j \in DOMAIN obj : JsonCompare(obj[j], pattern[i], flags)

\* json_compare_array
CompareArray(obj, pattern, flags) ==
    IF flags.arrays
    THEN /\ Len(obj) = Len(pattern)
         /\ \A i \in DOMAIN pattern : JsonCompare(obj[i], pattern[i], flags)
    ELSE \A i \in DOMAIN pattern : \E j \in DOMAIN obj : JsonCompare(obj[j], pattern[i], flags)

JsonCompare(obj, pattern, flags) ==
    /\ obj.type = pattern.type
    /\ CASE pattern.type = "object" -> CompareObject(obj.value, pattern.value, flags)
         [] pattern.type = "array"  -> CompareArray(obj.value, pattern.value, flags)
         [] pattern.type = "string" -> CompareString(obj.value, pattern.value)
         [] pattern.type = "int"    -> AsInt(obj.value) = AsInt(pattern.value)
         [] pattern.type = "null"   -> TRUE
         [] OTHER                   -> obj.value = pattern.value

JsonInit == subject = 0

JsonNext == subject = 0 /\ subject' \in DOMAIN JsonSamples

-----------------------------------------------------------------------------
(* Properties.                                                             *)

Compares(i, j, flags) == JsonCompare(JsonSamples[i], JsonSamples[j], flags)

\* Compared strictly a value matches itself and nothing else, at every depth.
StrictIsEquality ==
    subject # 0 =>
        \A j \in DOMAIN JsonSamples :
            Compares(subject, j, [objects |-> TRUE, arrays |-> TRUE]) <=> subject = j

\* With any flags, what matches a pattern matches all that this pattern matches;
\* and a flag more never lets a value match that did not match without it.
PatternsCompose ==
    subject # 0 =>
        \A j \in DOMAIN JsonSamples, flags \in JsonFlags :
            Compares(subject, j, flags) =>
                /\ \A k \in DOMAIN JsonSamples : Compares(j, k, flags) => Compares(subject, k, flags)
                /\ Compares(subject, j, [objects |-> FALSE, arrays |-> flags.arrays])
                /\ Compares(subject, j, [objects |-> flags.objects, arrays |-> FALSE])

\* json_compare is an equality when strict, and an order of patterns otherwise.
ComparesPatterns == StrictIsEquality /\ PatternsCompose

=============================================================================
