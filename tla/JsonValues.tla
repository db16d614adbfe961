------------------------------ MODULE JsonValues ------------------------------
(***************************************************************************)
(* The numbers the JSON library hands to the parser and to the             *)
(* configuration: what get<> makes of a field of each type.  External:     *)
(* modelled from how src/ uses the library.                                *)
(***************************************************************************)
EXTENDS Integers

(* The value a signed integer with the given maximum has after n was
   assigned to it. *)
Wrapped(max, n) == ((n + max + 1) % (2 * (max + 1))) - max - 1

(* A field that is absent, has some other type, or holds a number: an integer,
   in the signed or the unsigned range, or a float given by its integral part;
   true and false count as 1 and 0 where the library converts them. *)
NumberField(type, n) == [type |-> type, num |-> n]
BadNumbers == {NumberField("absent", 0), NumberField("untyped", 0)}

(* get<int64_t> throws for anything but a number, get<int> takes a Boolean too. *)
IsNumber(f) == f.type \in {"integer", "float"}
IsArithmetic(f) == f.type \in {"integer", "float", "bool"}
===============================================================================
