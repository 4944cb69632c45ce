----------------------------- MODULE KeymasterTags -----------------------------
(***************************************************************************)
(* The typed-tag machinery of keymaster_tags.h as operators: TypedTag, the *)
(* tag-to-union-field accessors, makeKeyParameter and Authorization, the   *)
(* NullOr wrapper with NullOrOr and defaultOr, authorizationValue and      *)
(* operator== on KeyParameter.                                             *)
(*                                                                         *)
(* A KeyParameter is [tag, f, blob]: f is the union IntegerParams of       *)
(* types.hal as one unsigned number of LongBits bits, every member of the  *)
(* union stored from bit 0 (the little-endian layout), and blob the        *)
(* separate vec<uint8_t>.  Widths are scaled: ByteBits for bool, IntBits   *)
(* for uint32_t and the 32-bit enums, LongBits for uint64_t.               *)
(***************************************************************************)
EXTENDS KeymasterTagTypes, Sequences, TLC

CONSTANTS ByteBits, IntBits, LongBits,
          NullPtr     \* the nullptr a NullOr of a reference holds when invalid

ASSUME /\ ByteBits \in Nat \ {0}
       /\ IntBits \in Nat /\ ByteBits < IntBits
       /\ LongBits \in Nat /\ IntBits < LongBits

-----------------------------------------------------------------------------
(* The members of KeyParameter (types.hal) and their widths.               *)

EnumFields ==
    {"algorithm", "blockMode", "paddingMode", "digest", "ecCurve", "origin",
     "keyBlobUsageRequirements", "purpose", "hardwareAuthenticatorType",
     "hardwareType"}

FieldWidth ==
    [fld \in EnumFields \cup {"boolValue", "integer", "longInteger", "dateTime"} |->
        CASE fld = "boolValue" -> ByteBits
          [] fld \in {"longInteger", "dateTime"} -> LongBits
          [] OTHER -> IntBits]

UnionFields == DOMAIN FieldWidth

\* The C++ type of a member: each enum is its own type, named by the member.
FieldValueType(fld) ==
    CASE fld \in EnumFields -> fld
      [] fld = "blob" -> "hidl_vec<uint8_t>"
      [] fld = "boolValue" -> "bool"
      [] fld = "integer" -> "uint32_t"
      [] OTHER -> "uint64_t"

\* Reading a member of the union is reading its low bits.
ReadField(fld, f) == f % 2^FieldWidth[fld]

\* Writing a member (x a value of its type) replaces its low bits and
\* leaves the others as they were.
WriteField(fld, f, x) == f - ReadField(fld, f) + x

ReadParamField(fld, param) ==
    IF fld = "blob" THEN param.blob ELSE ReadField(fld, param.f)

-----------------------------------------------------------------------------
(* TypedTag and the declared typed tags.                                   *)

\* Tag2TypedTag<tag>::type: the pair (typeFromTag(tag), tag); the
\* static_assert of the TypedTag constructor holds for it by construction.
TypedTag(tag) == [type |-> typeFromTag(tag), tag |-> tag]

\* The tags DECLARE_TYPED_TAG is applied to.
DeclaredTags ==
    {Tag[n] : n \in {"ACTIVE_DATETIME", "ALGORITHM", "ALLOW_WHILE_ON_BODY",
        "APPLICATION_DATA", "APPLICATION_ID", "ASSOCIATED_DATA",
        "ATTESTATION_APPLICATION_ID", "ATTESTATION_CHALLENGE", "AUTH_TIMEOUT",
        "BLOB_USAGE_REQUIREMENTS", "BLOCK_MODE", "BOOTLOADER_ONLY",
        "BOOT_PATCHLEVEL", "CALLER_NONCE", "CONFIRMATION_TOKEN",
        "CREATION_DATETIME", "DIGEST", "EC_CURVE", "HARDWARE_TYPE",
        "INCLUDE_UNIQUE_ID", "INVALID", "KEY_SIZE", "MAC_LENGTH",
        "MAX_USES_PER_BOOT", "MIN_MAC_LENGTH", "MIN_SECONDS_BETWEEN_OPS",
        "NONCE", "NO_AUTH_REQUIRED", "ORIGIN", "ORIGINATION_EXPIRE_DATETIME",
        "OS_PATCHLEVEL", "OS_VERSION", "PADDING", "PURPOSE",
        "RESET_SINCE_ID_ROTATION", "ROLLBACK_RESISTANCE", "ROOT_OF_TRUST",
        "RSA_PUBLIC_EXPONENT", "TRUSTED_CONFIRMATION_REQUIRED",
        "TRUSTED_USER_PRESENCE_REQUIRED", "UNIQUE_ID",
        "UNLOCKED_DEVICE_REQUIRED", "USAGE_EXPIRE_DATETIME", "USER_AUTH_TYPE",
        "USER_ID", "USER_SECURE_ID", "VENDOR_PATCHLEVEL"}}

\* all_tags_t: the MetaList of typed tags the header offers for iterating
\* over every tag.
all_tags_t ==
    {Tag[n] : n \in {"INVALID", "KEY_SIZE", "MAC_LENGTH", "CALLER_NONCE",
        "MIN_MAC_LENGTH", "RSA_PUBLIC_EXPONENT", "INCLUDE_UNIQUE_ID",
        "ACTIVE_DATETIME", "ORIGINATION_EXPIRE_DATETIME", "USAGE_EXPIRE_DATETIME",
        "MIN_SECONDS_BETWEEN_OPS", "MAX_USES_PER_BOOT", "USER_ID",
        "USER_SECURE_ID", "NO_AUTH_REQUIRED", "AUTH_TIMEOUT",
        "ALLOW_WHILE_ON_BODY", "UNLOCKED_DEVICE_REQUIRED", "APPLICATION_ID",
        "APPLICATION_DATA", "CREATION_DATETIME", "ROLLBACK_RESISTANCE",
        "HARDWARE_TYPE", "ROOT_OF_TRUST", "ASSOCIATED_DATA", "NONCE",
        "BOOTLOADER_ONLY", "OS_VERSION", "OS_PATCHLEVEL", "UNIQUE_ID",
        "ATTESTATION_CHALLENGE", "ATTESTATION_APPLICATION_ID",
        "RESET_SINCE_ID_ROTATION", "PURPOSE", "ALGORITHM", "BLOCK_MODE",
        "DIGEST", "PADDING", "BLOB_USAGE_REQUIREMENTS", "ORIGIN",
        "USER_AUTH_TYPE", "EC_CURVE", "BOOT_PATCHLEVEL", "VENDOR_PATCHLEVEL",
        "TRUSTED_CONFIRMATION_REQUIRED", "TRUSTED_USER_PRESENCE_REQUIRED"}}

-----------------------------------------------------------------------------
(* The accessors: MAKE_TAG_VALUE_ACCESSOR binds a whole TagType to a       *)
(* member, MAKE_TAG_ENUM_VALUE_ACCESSOR one enum typed tag.                *)

\* Faulty variant: ULONG_REP bound to the 32-bit member.
CategoryField_ulongRepAsInteger ==
    (TagType("ULONG") :> "longInteger") @@ (TagType("ULONG_REP") :> "integer")
    @@ (TagType("DATE") :> "dateTime") @@ (TagType("UINT") :> "integer")
    @@ (TagType("UINT_REP") :> "integer") @@ (TagType("BOOL") :> "boolValue")
    @@ (TagType("BYTES") :> "blob") @@ (TagType("BIGNUM") :> "blob")

\* MAKE_TAG_VALUE_ACCESSOR(tag_type, field_name): the member of a category.
CategoryField ==
    (TagType("ULONG") :> "longInteger") @@ (TagType("ULONG_REP") :> "longInteger")
    @@ (TagType("DATE") :> "dateTime") @@ (TagType("UINT") :> "integer")
    @@ (TagType("UINT_REP") :> "integer") @@ (TagType("BOOL") :> "boolValue")
    @@ (TagType("BYTES") :> "blob") @@ (TagType("BIGNUM") :> "blob")

\* MAKE_TAG_ENUM_VALUE_ACCESSOR(typed_tag, field_name): the member of one
\* enum typed tag.
EnumTagField ==
    (Tag.ALGORITHM :> "algorithm")
    @@ (Tag.BLOB_USAGE_REQUIREMENTS :> "keyBlobUsageRequirements")
    @@ (Tag.BLOCK_MODE :> "blockMode") @@ (Tag.DIGEST :> "digest")
    @@ (Tag.EC_CURVE :> "ecCurve") @@ (Tag.ORIGIN :> "origin")
    @@ (Tag.PADDING :> "paddingMode") @@ (Tag.PURPOSE :> "purpose")
    @@ (Tag.USER_AUTH_TYPE :> "hardwareAuthenticatorType")
    @@ (Tag.HARDWARE_TYPE :> "hardwareType")

\* An overload of accessTagValue exists for the typed tag.
HasAccessor(tt) == tt.type \in DOMAIN CategoryField \/ tt.tag \in DOMAIN EnumTagField

\* The member accessTagValue(tt, param) returns a reference to.
FieldOf(tt) ==
    IF tt.tag \in DOMAIN EnumTagField THEN EnumTagField[tt.tag]
                                      ELSE CategoryField[tt.type]

-----------------------------------------------------------------------------
(* Values handed to Authorization and accessTagValue: [type, val], type a *)
(* C++ type ("integral" for any integer type) and val its value.           *)

\* std::is_convertible<From, To> for the value types of the union members.
IsConvertible(from, to) ==
    \/ from = "integral" /\ to \in {"bool", "uint32_t", "uint64_t"}
    \/ from = to

\* Faulty variant: the value is stored without reduction to the width.
ConvertTo_noNarrowing(fld, arg) ==
    CASE fld = "blob" -> arg.val
      [] fld = "boolValue" -> IF arg.val = 0 THEN 0 ELSE 1
      [] OTHER -> arg.val

\* The implicit conversion of an argument to the member's type: integral
\* to unsigned is reduction modulo 2^width, integral to bool is # 0.
ConvertTo(fld, arg) ==
    CASE fld = "blob" -> arg.val
      [] fld = "boolValue" -> IF arg.val = 0 THEN 0 ELSE 1
      [] OTHER -> arg.val % 2^FieldWidth[fld]

\* accessTagValue(tt, param) = arg: assignment through the mutable accessor.
\* It writes the member of tt whatever param.tag is.
AssignTagValue(tt, param, arg) ==
    LET fld == FieldOf(tt) IN
    IF fld = "blob" THEN [param EXCEPT !.blob = arg.val]
                    ELSE [param EXCEPT !.f = WriteField(fld, @, ConvertTo(fld, arg))]

\* Faulty variant: without param.f.longInteger = 0.
makeKeyParameter_noClear(tt, arg, garbage) ==
    AssignTagValue(tt, [tag |-> tt.tag, f |-> garbage, blob |-> <<>>], arg)

\* makeKeyParameter(ttag, value).  `KeyParameter param;` leaves the union
\* indeterminate (garbage); param.f.longInteger = 0 then clears it all.
makeKeyParameter(tt, arg, garbage) ==
    AssignTagValue(tt, [tag |-> tt.tag,
                        f |-> WriteField("longInteger", garbage, 0),
                        blob |-> <<>>], arg)

\* makeKeyParameter(ttag) for TagType::BOOL: only boolValue is written.
makeBoolKeyParameter(tt, garbage) ==
    [tag |-> tt.tag, f |-> WriteField("boolValue", garbage, 1), blob |-> <<>>]

\* The three static_asserts of Authorization: a call that fails them does
\* not compile and so never runs.
AuthorizationCompiles(tt, args) ==
    /\ tt.type = TagType("BOOL") => args = <<>>
    /\ tt.type # TagType("BOOL") =>
           /\ Len(args) = 1
           /\ HasAccessor(tt)
           /\ IsConvertible(args[1].type, FieldValueType(FieldOf(tt)))

Authorization(tt, args, garbage) ==
    IF args = <<>> THEN makeBoolKeyParameter(tt, garbage)
                   ELSE makeKeyParameter(tt, args[1], garbage)

-----------------------------------------------------------------------------
(* NullOr<const T&>: a pointer to the member of an object (obj names the   *)
(* KeyParameter variable) and the null_ flag.                              *)

NullOrNone == [null |-> TRUE, ptr |-> NullPtr]

NullOrRef(obj, fld) == [null |-> FALSE, ptr |-> [obj |-> obj, fld |-> fld]]

isOk(n) == ~n.null

\* value(): *value_, read from the objects as they are now (mem maps each
\* object to its KeyParameter).  Undefined when ~isOk(n); never used then.
value(n, mem) == ReadParamField(n.ptr.fld, mem[n.ptr.obj])

\* Faulty variant: the later arguments take precedence over the head.
RECURSIVE NullOrOr_tailFirst(_)
NullOrOr_tailFirst(s) ==
    IF Len(s) = 1 THEN IF isOk(Head(s)) THEN Head(s) ELSE NullOrNone
    ELSE IF isOk(NullOrOr_tailFirst(Tail(s))) THEN NullOrOr_tailFirst(Tail(s))
    ELSE IF isOk(Head(s)) THEN Head(s) ELSE NullOrNone

\* NullOrOr(a, b, ...) over the sequence of its arguments.
RECURSIVE NullOrOr(_)
NullOrOr(s) ==
    IF isOk(Head(s)) THEN Head(s)
    ELSE IF Len(s) = 1 THEN NullOrNone
    ELSE NullOrOr(Tail(s))

defaultOr(n, def, mem) == IF isOk(n) THEN value(n, mem) ELSE def

\* Faulty variant: without the check tag != param.tag.
authorizationValue_noTagCheck(tt, obj, param) == NullOrRef(obj, FieldOf(tt))

\* authorizationValue(ttag, param), param being object obj.
authorizationValue(tt, obj, param) ==
    IF tt.tag # param.tag THEN NullOrNone ELSE NullOrRef(obj, FieldOf(tt))

-----------------------------------------------------------------------------
(* operator==(KeyParameter, KeyParameter): its switch as the set of tags   *)
(* that compare equal unconditionally and the member each other case       *)
(* compares; a tag in neither falls through to return false.               *)

TagsNamed(names) == {Tag[n] : n \in names}

EqBoolTags ==
    TagsNamed({"INVALID", "CALLER_NONCE", "INCLUDE_UNIQUE_ID", "BOOTLOADER_ONLY",
               "NO_AUTH_REQUIRED", "ALLOW_WHILE_ON_BODY", "UNLOCKED_DEVICE_REQUIRED",
               "ROLLBACK_RESISTANCE", "RESET_SINCE_ID_ROTATION",
               "TRUSTED_CONFIRMATION_REQUIRED", "TRUSTED_USER_PRESENCE_REQUIRED"})

\* Faulty variant: the case BOOT_PATCHLEVEL left out of the switch.
EqIntegerTags_noBootPatchlevel ==
    TagsNamed({"KEY_SIZE", "MIN_MAC_LENGTH", "MIN_SECONDS_BETWEEN_OPS",
               "MAX_USES_PER_BOOT", "OS_VERSION", "OS_PATCHLEVEL", "MAC_LENGTH",
               "USER_ID", "AUTH_TIMEOUT", "VENDOR_PATCHLEVEL"})

\* The integer, long integer, date-time and bytes case groups.
EqIntegerTags ==
    TagsNamed({"KEY_SIZE", "MIN_MAC_LENGTH", "MIN_SECONDS_BETWEEN_OPS",
               "MAX_USES_PER_BOOT", "OS_VERSION", "OS_PATCHLEVEL", "MAC_LENGTH",
               "USER_ID", "AUTH_TIMEOUT", "VENDOR_PATCHLEVEL", "BOOT_PATCHLEVEL"})

EqLongTags == TagsNamed({"RSA_PUBLIC_EXPONENT", "USER_SECURE_ID"})

EqDateTags ==
    TagsNamed({"ACTIVE_DATETIME", "ORIGINATION_EXPIRE_DATETIME",
               "USAGE_EXPIRE_DATETIME", "CREATION_DATETIME"})

EqBlobTags ==
    TagsNamed({"APPLICATION_ID", "APPLICATION_DATA", "ROOT_OF_TRUST", "UNIQUE_ID",
               "ATTESTATION_CHALLENGE", "ATTESTATION_APPLICATION_ID",
               "ATTESTATION_ID_BRAND", "ATTESTATION_ID_DEVICE", "ATTESTATION_ID_PRODUCT",
               "ATTESTATION_ID_SERIAL", "ATTESTATION_ID_IMEI", "ATTESTATION_ID_MEID",
               "ATTESTATION_ID_MANUFACTURER", "ATTESTATION_ID_MODEL", "ASSOCIATED_DATA",
               "CONFIRMATION_TOKEN", "NONCE"})

\* Faulty variant: USER_AUTH_TYPE compared through f.longInteger.
EqEnumField_authTypeLong ==
    (Tag.PURPOSE :> "purpose") @@ (Tag.ALGORITHM :> "algorithm")
    @@ (Tag.BLOCK_MODE :> "blockMode") @@ (Tag.DIGEST :> "digest")
    @@ (Tag.PADDING :> "paddingMode") @@ (Tag.EC_CURVE :> "ecCurve")
    @@ (Tag.BLOB_USAGE_REQUIREMENTS :> "keyBlobUsageRequirements")
    @@ (Tag.USER_AUTH_TYPE :> "longInteger")
    @@ (Tag.ORIGIN :> "origin") @@ (Tag.HARDWARE_TYPE :> "hardwareType")

\* The enum cases, each comparing the member of its own enum type, except
\* USER_AUTH_TYPE, which compares f.integer.
EqEnumField ==
    (Tag.PURPOSE :> "purpose") @@ (Tag.ALGORITHM :> "algorithm")
    @@ (Tag.BLOCK_MODE :> "blockMode") @@ (Tag.DIGEST :> "digest")
    @@ (Tag.PADDING :> "paddingMode") @@ (Tag.EC_CURVE :> "ecCurve")
    @@ (Tag.BLOB_USAGE_REQUIREMENTS :> "keyBlobUsageRequirements")
    @@ (Tag.USER_AUTH_TYPE :> "integer")
    @@ (Tag.ORIGIN :> "origin") @@ (Tag.HARDWARE_TYPE :> "hardwareType")

EqCompareField ==
    [t \in EqIntegerTags |-> "integer"] @@ [t \in EqLongTags |-> "longInteger"]
    @@ [t \in EqDateTags |-> "dateTime"] @@ [t \in EqBlobTags |-> "blob"]
    @@ EqEnumField

KeyParamEq(a, b) ==
    /\ a.tag = b.tag
    /\ \/ a.tag \in EqBoolTags
       \/ /\ a.tag \in DOMAIN EqCompareField
          /\ ReadParamField(EqCompareField[a.tag], a)
                = ReadParamField(EqCompareField[a.tag], b)

================================================================================
