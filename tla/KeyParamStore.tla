----------------------------- MODULE KeyParamStore -----------------------------
(***************************************************************************)
(* KeyParameter variables of a keymaster client, and the calls of          *)
(* keymaster_tags.h made on them:                                          *)
(*   Authorize  p = Authorization(TAG, args...)                            *)
(*   Assign     accessTagValue(TAG, p) = value                             *)
(*   Lookup     view = authorizationValue(TAG, p)                          *)
(*   LookupTemporary                                                       *)
(*              view = authorizationValue(TAG, Authorization(TAG, ...)):   *)
(*              the view points into a temporary that dies at the end of   *)
(*              the statement                                              *)
(*   Receive    p arrives from the HAL transport or an old key blob        *)
(* Views are NullOr<const T&> variables of one type T (ViewType), so that  *)
(* NullOrOr over them compiles; they keep pointing into the parameter they *)
(* were taken from.  lastCall records each step's operation and inputs;    *)
(* viewTag, a ghost, the tag each valid view was looked up with.           *)
(***************************************************************************)
EXTENDS KeymasterTags, SequencesExt

CONSTANTS
    Regs,            \* the KeyParameter variables
    Temporaries,     \* storage of KeyParameter temporaries, dead after their statement
    NViews,          \* number of NullOr views, combined in order 1..NViews
    ViewType,        \* the T of NullOr<const T&> of every view
    CallerTags,      \* tags of the typed tags the client uses
    Args,            \* values the client passes: [type, val]
    Garbage,         \* what an uninitialized KeyParameter union may hold
    ReceivedTags,    \* tags a received parameter may carry
    Storages,        \* union contents a received parameter may carry
    Blobs,           \* byte strings a received parameter may carry
    Default,         \* the default of defaultOr
    UncheckedAccess, \* whether the client assigns through a tag other than p.tag
    NotMade          \* made[r] when r was not last set by Authorization

ASSUME /\ Regs \cap Temporaries = {}
       /\ NViews \in Nat \ {0}
       /\ Garbage \subseteq 0..(2^LongBits - 1)
       /\ Storages \subseteq 0..(2^LongBits - 1)
       /\ UncheckedAccess \in BOOLEAN

VARIABLES params, views, made, lastCall, viewTag

vars == <<params, views, made, lastCall, viewTag>>

\* Every object a view may point into; a temporary keeps the bytes it was
\* last given after it dies (reading them is undefined: one outcome).
Objects == Regs \cup Temporaries

NoCall == [op |-> "none", obj |-> "none", tag |-> Tag.INVALID, args |-> <<>>, slot |-> 0]

Views == 1..NViews

ArgLists == {<<>>} \cup {<<a>> : a \in Args}

KeyParameters == [tag : CallerTags \cup ReceivedTags \cup {Tag.INVALID},
                  f : 0..(2^LongBits - 1),
                  blob : Blobs \cup {a.val : a \in {x \in Args : x.type = "hidl_vec<uint8_t>"}}]

TypeOK ==
    /\ params \in [Objects -> KeyParameters]
    /\ views \in [Views -> {NullOrNone} \cup
                           {NullOrRef(r, fld) : r \in Objects, fld \in UnionFields \cup {"blob"}}]
    /\ viewTag \in [Views -> CallerTags \cup {Tag.INVALID}]
    /\ made \in [Regs -> {NotMade} \cup [tag : CallerTags, args : ArgLists]]
    /\ lastCall.op \in {"none", "Authorization", "accessTagValue",
                        "authorizationValue", "receive"}

-----------------------------------------------------------------------------

\* KeyParameter{}: value-initialized, tag INVALID and every member zero.
Init ==
    /\ params = [r \in Objects |-> [tag |-> Tag.INVALID, f |-> 0, blob |-> <<>>]]
    /\ views = [v \in Views |-> NullOrNone]
    /\ made = [r \in Regs |-> NotMade]
    /\ lastCall = NoCall
    /\ viewTag = [v \in Views |-> Tag.INVALID]

\* p = Authorization(tt, args...): only calls that compile; garbage is the
\* indeterminate union of makeKeyParameter's local.
Authorize(r, tt, args, garbage) ==
    /\ AuthorizationCompiles(tt, args)
    /\ params' = [params EXCEPT ![r] = Authorization(tt, args, garbage)]
    /\ made' = [made EXCEPT ![r] = [tag |-> tt.tag, args |-> args]]
    /\ lastCall' = [op |-> "Authorization", obj |-> r, tag |-> tt.tag, args |-> args, slot |-> 0]
    /\ UNCHANGED <<views, viewTag>>

\* accessTagValue(tt, p) = arg.  The accessor does not look at p.tag; a
\* careful client only writes through p's own tag.
Assign(r, tt, arg) ==
    /\ HasAccessor(tt)
    /\ IsConvertible(arg.type, FieldValueType(FieldOf(tt)))
    /\ UncheckedAccess \/ params[r].tag = tt.tag
    /\ params' = [params EXCEPT ![r] = AssignTagValue(tt, @, arg)]
    /\ made' = [made EXCEPT ![r] = NotMade]
    /\ lastCall' = [op |-> "accessTagValue", obj |-> r, tag |-> tt.tag, args |-> <<arg>>, slot |-> 0]
    /\ UNCHANGED <<views, viewTag>>

\* views[v] = authorizationValue(tt, p): compiles when tt's value type is T.
Lookup(v, r, tt) ==
    /\ HasAccessor(tt)
    /\ FieldValueType(FieldOf(tt)) = ViewType
    /\ views' = [views EXCEPT ![v] = authorizationValue(tt, r, params[r])]
    /\ viewTag' = [viewTag EXCEPT ![v] = IF isOk(views'[v]) THEN tt.tag ELSE Tag.INVALID]
    /\ lastCall' = [op |-> "authorizationValue", obj |-> r, tag |-> tt.tag, args |-> <<>>, slot |-> v]
    /\ UNCHANGED <<params, made>>

\* views[v] = authorizationValue(tt, Authorization(tt, args...)): the
\* temporary is built in storage t, the view taken, and t dies.
LookupTemporary(v, t, tt, args, garbage) ==
    /\ AuthorizationCompiles(tt, args)
    /\ HasAccessor(tt)
    /\ FieldValueType(FieldOf(tt)) = ViewType
    /\ params' = [params EXCEPT ![t] = Authorization(tt, args, garbage)]
    /\ views' = [views EXCEPT ![v] = authorizationValue(tt, t, params'[t])]
    /\ viewTag' = [viewTag EXCEPT ![v] = tt.tag]
    /\ lastCall' = [op |-> "authorizationValue", obj |-> t, tag |-> tt.tag, args |-> args, slot |-> v]
    /\ UNCHANGED made

\* A parameter deserialized from elsewhere overwrites p.
Receive(r, tag, f, blob) ==
    /\ params' = [params EXCEPT ![r] = [tag |-> tag, f |-> f, blob |-> blob]]
    /\ made' = [made EXCEPT ![r] = NotMade]
    /\ lastCall' = [op |-> "receive", obj |-> r, tag |-> tag, args |-> <<>>, slot |-> 0]
    /\ UNCHANGED <<views, viewTag>>

Next ==
    \E r \in Regs :
        \/ \E t \in CallerTags, args \in ArgLists, g \in Garbage :
               Authorize(r, TypedTag(t), args, g)
        \/ \E t \in CallerTags, a \in Args : Assign(r, TypedTag(t), a)
        \/ \E v \in Views, t \in CallerTags : Lookup(v, r, TypedTag(t))
        \/ \E t \in ReceivedTags, f \in Storages, b \in Blobs : Receive(r, t, f, b)

\* The client also takes views of temporaries.  Once a view points into a
\* dead temporary every read through it is undefined, so only the run
\* about that misuse uses this relation.
NextWithTemporaries ==
    \/ Next
    \/ \E v \in Views, t \in Temporaries, tag \in CallerTags, args \in ArgLists,
         g \in Garbage : LookupTemporary(v, t, TypedTag(tag), args, g)

Spec == Init /\ [][Next]_vars

-----------------------------------------------------------------------------
(* The refinement mapping to the tagged variant: a parameter's value is    *)
(* what the accessor of its tag reads (the raw union for a tag without    *)
(* accessor), a view refers to the parameter it points into.               *)

AbsValue(p) ==
    LET tt == TypedTag(p.tag) IN
    IF ~HasAccessor(tt) THEN p.f
    ELSE IF FieldOf(tt) = "boolValue"
         THEN IF ReadField("boolValue", p.f) = 0 THEN 0 ELSE 1
         ELSE ReadParamField(FieldOf(tt), p)

AbsKV == [r \in Regs |-> [tag |-> params[r].tag, val |-> AbsValue(params[r])]]

AbsViews == [v \in Views |-> IF views[v].null THEN "none" ELSE views[v].ptr.obj]

Variant == INSTANCE KeyParamVariant WITH kv <- AbsKV, views <- AbsViews, call <- lastCall

\* Every step of the client is a step of the tagged variant: Authorization
\* stores exactly the tag and the converted value, an assignment changes
\* only the value of the parameter's own tag, and authorizationValue is
\* valid exactly when the tags match (keymaster_tags.h, lines 20-60).
VariantRefinement == Variant!ASpec

\* operator== on two parameters agrees with equality of the variants they
\* stand for: its hand-written switch compares, for every tag, the member
\* the accessor macros bind to that tag (USER_AUTH_TYPE compares
\* f.integer, its accessor f.hardwareAuthenticatorType).
EqualityMatchesVariant ==
    \A r1, r2 \in Regs :
        KeyParamEq(params[r1], params[r2]) <=> Variant!AbsEq(AbsKV[r1], AbsKV[r2])

\* §6 of the spec: the tag lists of the header are extended with every
\* tag.  Every tag a client builds a parameter of with Authorization is
\* listed in all_tags_t, the header's list of all typed tags.
AllTagsListsAuthorizedTags ==
    \A r \in Regs : made[r] # NotMade => made[r].tag \in all_tags_t

\* operator== between a client's parameter and any parameter that may
\* arrive from the transport agrees with equality of their variants: for
\* every tag, the member the switch compares and the member the accessor
\* writes are the same bits, whatever the received high bits hold.
EqualityWithArrivalsMatchesVariant ==
    \A r \in Regs, q \in [tag : ReceivedTags, f : Storages, blob : Blobs] :
        KeyParamEq(params[r], q)
            <=> Variant!AbsEq(AbsKV[r], [tag |-> q.tag, val |-> AbsValue(q)])

\* defaultOr(NullOrOr(view1, view2, ...), Default) reads the value the first
\* valid view points to now, or Default when none is valid.
FallbackChainReadsFirstPresent ==
    LET first == SelectInSeq(views, LAMBDA n : isOk(n)) IN
    defaultOr(NullOrOr(views), Default, params)
        = IF first = 0 THEN Default ELSE value(views[first], params)

\* All union bits above the member of p's tag are zero (none for a blob tag).
UnionZeroAbove(p) ==
    LET fld == FieldOf(TypedTag(p.tag)) IN
    p.f = IF fld = "blob" THEN 0 ELSE ReadField(fld, p.f)

\* A parameter built by Authorization with a value holds no indeterminate
\* union bits: makeKeyParameter clears f.longInteger before the assignment.
NumericAuthorizationZeroFill ==
    \A r \in Regs : made[r] # NotMade /\ made[r].args # <<>> => UnionZeroAbove(params[r])

\* §4.4 of the spec: every parameter Authorization builds has its unused
\* union bits zero, including a BOOL one (makeKeyParameter of TagType::BOOL).
AuthorizationZeroFill ==
    \A r \in Regs : made[r] # NotMade => UnionZeroAbove(params[r])

\* §8 of the spec: authorizationValue(TAG, Authorization(TAG, v)) is valid
\* and equal to v.
AuthorizationRoundTripExact ==
    \A r \in Regs :
        made[r] # NotMade /\ made[r].args # <<>> =>
            LET n == authorizationValue(TypedTag(made[r].tag), r, params[r]) IN
            isOk(n) /\ value(n, params) = made[r].args[1].val

\* §8 of the spec: a == a for every KeyParameter, whatever its tag.
EqReflexive == \A r \in Regs : KeyParamEq(params[r], params[r])


\* The header comment (lines 40-59): once authorizationValue(TAG, p).isOk()
\* it is safe to read value() as the value of TAG.  A valid view points into
\* a parameter that still carries the tag it was looked up with.
ValidViewReadsItsTag ==
    \A v \in Views : isOk(views[v]) => params[views[v].ptr.obj].tag = viewTag[v]

\* §4.3 of the spec: the reference a view holds lives as long as the
\* KeyParameter it was taken from; a valid view never points into a
\* temporary that authorizationValue(TAG, Authorization(TAG, v)) destroyed.
ValidViewIntoLiveObject ==
    \A v \in Views : isOk(views[v]) => views[v].ptr.obj \in Regs

================================================================================
