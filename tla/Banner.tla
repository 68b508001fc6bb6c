------------------------------- MODULE Banner -------------------------------
(***************************************************************************)
(* The BANNER code the lowerer writes and the code generator reads         *)
(* (src/crates/hulk-banner/src/ir.rs): operands, instructions, and the     *)
(* names both sides know.  A body is a sequence of instructions.           *)
(***************************************************************************)
EXTENDS Naturals, Sequences

Temp(t)      == [k |-> "temp", v |-> t]
ConstNum(n)  == [k |-> "num", v |-> n]     \* and a Boolean, as 0 or 1
ConstStr(n)  == [k |-> "str", v |-> n]     \* a literal of n characters
ConstNull    == [k |-> "null", v |-> 0]
Global(x)    == [k |-> "global", v |-> x]  \* a function or a type

Copy(d, v)        == [op |-> "copy", dst |-> d, args |-> <<v>>]
BinOp(d, o, l, r) == [op |-> "bin", dst |-> d, f |-> o, args |-> <<l, r>>]
UnOp(d, o, v)     == [op |-> "un", dst |-> d, f |-> o, args |-> <<v>>]
Call(d, f, as)    == [op |-> "call", dst |-> d, f |-> f, args |-> as]
StaticCall(d, t, m, as) == [op |-> "static", dst |-> d, f |-> t \o "." \o m, args |-> as]
MethodCall(d, o, m, as) == [op |-> "method", dst |-> d, f |-> m, args |-> <<o>> \o as]
New(d, t, as)     == [op |-> "new", dst |-> d, f |-> t, args |-> as]
GetField(d, o, f) == [op |-> "get", dst |-> d, f |-> f, args |-> <<o>>]
SetField(o, f, v) == [op |-> "set", f |-> f, args |-> <<o, v>>]
GetIndex(d, o, i) == [op |-> "getindex", dst |-> d, args |-> <<o, i>>]
SetIndex(o, i, v) == [op |-> "setindex", args |-> <<o, i, v>>]
Label(l)          == [op |-> "label", to |-> l, args |-> <<>>]
Jump(l)           == [op |-> "jump", to |-> l, args |-> <<>>]
JumpIf(v, l)      == [op |-> "jumpif", to |-> l, args |-> <<v>>]
Return(v)         == [op |-> "return", args |-> <<v>>]
ShadowPush(v)     == [op |-> "push", args |-> <<v>>]
ShadowPop         == [op |-> "pop", args |-> <<>>]

\* The functions and methods the runtime brings.
Runtime == {"print", "range", "hulk_number_to_string", "__hulk_concat", "__hulk_str_eq",
            "__hulk_is", "__hulk_as", "__vec_new", "__vec_push", "__arr_new", "__objarr_new"}
BuiltinMethods == {"next", "current", "size"}

MainName == "__main__"
=============================================================================
