---------------------------- MODULE KeyParamVariant ----------------------------
(***************************************************************************)
(* What keymaster_tags.h promises of KeyParameter variables, stated over a *)
(* tagged variant: each variable holds a tag and the one value of that     *)
(* tag's category, with no union behind it.                                *)
(*                                                                         *)
(*  - Authorization(TAG, v) stores TAG and v converted to the category's   *)
(*    value type (uint32_t for UINT and the enums, uint64_t for ULONG and  *)
(*    DATE, presence for BOOL, bytes for BYTES and BIGNUM);                *)
(*  - a value is only ever assigned through the parameter's own tag;       *)
(*  - authorizationValue(TAG, p) refers to p exactly when p.tag = TAG;     *)
(*  - two parameters are equal when their tags are equal and, unless the   *)
(*    tag is a presence tag, their values are equal.                       *)
(*                                                                         *)
(* call is the operation a step performs, with its inputs; the detailed    *)
(* specification records the same.  A received parameter (from transport   *)
(* or an old key blob) may hold anything.                                  *)
(***************************************************************************)
EXTENDS KeymasterTagTypes

CONSTANTS Regs, NViews, IntBits, LongBits

VARIABLES kv, views, call

avars == <<kv, views, call>>

NoRef == "none"

NoCall == [op |-> "none", obj |-> NoRef, tag |-> Tag.INVALID, args |-> <<>>, slot |-> 0]

\* The width of the value type of a category (types.hal, §3 of the spec).
RefWidth(tag) ==
    IF typeFromTag(tag) \in {TagType("ULONG"), TagType("ULONG_REP"), TagType("DATE")}
    THEN LongBits ELSE IntBits

\* Implicit conversion of an argument to the category's value type.
AbsConvert(tag, arg) ==
    CASE typeFromTag(tag) \in {TagType("BYTES"), TagType("BIGNUM")} -> arg.val
      [] typeFromTag(tag) = TagType("BOOL") -> IF arg.val = 0 THEN 0 ELSE 1
      [] OTHER -> arg.val % 2^RefWidth(tag)

\* Presence is truth: a BOOL (or INVALID) parameter carries no value.
AbsEq(a, b) ==
    /\ a.tag = b.tag
    /\ typeFromTag(a.tag) \in {TagType("BOOL"), TagType("INVALID")} \/ a.val = b.val

AInit ==
    /\ kv = [r \in Regs |-> [tag |-> Tag.INVALID, val |-> 0]]
    /\ views = [v \in 1..NViews |-> NoRef]
    /\ call = NoCall

Build(r) ==
    /\ call'.op = "Authorization" /\ call'.obj = r
    /\ kv' = [kv EXCEPT ![r] =
                [tag |-> call'.tag,
                 val |-> IF call'.args = <<>> THEN 1
                                              ELSE AbsConvert(call'.tag, call'.args[1])]]
    /\ UNCHANGED views

Set(r) ==
    /\ call'.op = "accessTagValue" /\ call'.obj = r
    /\ call'.tag = kv[r].tag
    /\ kv' = [kv EXCEPT ![r].val = AbsConvert(call'.tag, call'.args[1])]
    /\ UNCHANGED views

Lookup(r, v) ==
    /\ call'.op = "authorizationValue" /\ call'.obj = r /\ call'.slot = v
    /\ views' = [views EXCEPT ![v] = IF kv[r].tag = call'.tag THEN r ELSE NoRef]
    /\ UNCHANGED kv

Receive(r) ==
    /\ call'.op = "receive" /\ call'.obj = r
    /\ kv'[r].tag = call'.tag
    /\ \A q \in Regs \ {r} : kv'[q] = kv[q]
    /\ UNCHANGED views

ANext == \E r \in Regs : Build(r) \/ Set(r) \/ Receive(r) \/ \E v \in 1..NViews : Lookup(r, v)

ASpec == AInit /\ [][ANext]_avars

================================================================================
