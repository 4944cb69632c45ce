--------------------------- MODULE KeymasterTagTypes ---------------------------
(***************************************************************************)
(* The numeric encoding of keymaster 4.0 tags: the TagType categories and  *)
(* the Tag enumeration of hardware/interfaces/keymaster/4.0/types.hal,     *)
(* the legacy tag values and typeFromTag of keymaster_tags.h.              *)
(*                                                                         *)
(* In the code a TagType occupies the top four bits of a 32-bit tag        *)
(* (TagType::X == x << 28) and the tag's own number the low 28 bits.  The  *)
(* model keeps that layout with the shift scaled down to TagTypeUnit, so   *)
(* that every tag number is a small integer TLC can handle; typeFromTag is *)
(* still the masking of the high bits.                                     *)
(***************************************************************************)
EXTENDS Integers

\* 2^14 > 16202, the largest tag number the header uses (KM_TAG_KEY_TYPE);
\* it stands for the shift 1 << 28 of types.hal.
TagTypeUnit == 2^14

\* TagType of types.hal: the category codes, before shifting.
TagTypeCode ==
    [INVALID |-> 0, ENUM |-> 1, ENUM_REP |-> 2, UINT |-> 3, UINT_REP |-> 4,
     ULONG |-> 5, DATE |-> 6, BOOL |-> 7, BIGNUM |-> 8, BYTES |-> 9,
     ULONG_REP |-> 10]

\* static_cast<int32_t>(TagType::name)
TagType(name) == TagTypeCode[name] * TagTypeUnit

\* Tag of types.hal: every tag is its TagType or-ed with its number.
Tag ==
    [INVALID |-> TagType("INVALID") + 0,
     PURPOSE |-> TagType("ENUM_REP") + 1,
     ALGORITHM |-> TagType("ENUM") + 2,
     KEY_SIZE |-> TagType("UINT") + 3,
     BLOCK_MODE |-> TagType("ENUM_REP") + 4,
     DIGEST |-> TagType("ENUM_REP") + 5,
     PADDING |-> TagType("ENUM_REP") + 6,
     CALLER_NONCE |-> TagType("BOOL") + 7,
     MIN_MAC_LENGTH |-> TagType("UINT") + 8,
     EC_CURVE |-> TagType("ENUM") + 10,
     RSA_PUBLIC_EXPONENT |-> TagType("ULONG") + 200,
     INCLUDE_UNIQUE_ID |-> TagType("BOOL") + 202,
     BLOB_USAGE_REQUIREMENTS |-> TagType("ENUM") + 301,
     BOOTLOADER_ONLY |-> TagType("BOOL") + 302,
     ROLLBACK_RESISTANCE |-> TagType("BOOL") + 303,
     HARDWARE_TYPE |-> TagType("ENUM") + 304,
     ACTIVE_DATETIME |-> TagType("DATE") + 400,
     ORIGINATION_EXPIRE_DATETIME |-> TagType("DATE") + 401,
     USAGE_EXPIRE_DATETIME |-> TagType("DATE") + 402,
     MIN_SECONDS_BETWEEN_OPS |-> TagType("UINT") + 403,
     MAX_USES_PER_BOOT |-> TagType("UINT") + 404,
     USER_ID |-> TagType("UINT") + 501,
     USER_SECURE_ID |-> TagType("ULONG_REP") + 502,
     NO_AUTH_REQUIRED |-> TagType("BOOL") + 503,
     USER_AUTH_TYPE |-> TagType("ENUM") + 504,
     AUTH_TIMEOUT |-> TagType("UINT") + 505,
     ALLOW_WHILE_ON_BODY |-> TagType("BOOL") + 506,
     TRUSTED_USER_PRESENCE_REQUIRED |-> TagType("BOOL") + 507,
     TRUSTED_CONFIRMATION_REQUIRED |-> TagType("BOOL") + 508,
     UNLOCKED_DEVICE_REQUIRED |-> TagType("BOOL") + 509,
     APPLICATION_ID |-> TagType("BYTES") + 601,
     APPLICATION_DATA |-> TagType("BYTES") + 700,
     CREATION_DATETIME |-> TagType("DATE") + 701,
     ORIGIN |-> TagType("ENUM") + 702,
     ROOT_OF_TRUST |-> TagType("BYTES") + 704,
     OS_VERSION |-> TagType("UINT") + 705,
     OS_PATCHLEVEL |-> TagType("UINT") + 706,
     UNIQUE_ID |-> TagType("BYTES") + 707,
     ATTESTATION_CHALLENGE |-> TagType("BYTES") + 708,
     ATTESTATION_APPLICATION_ID |-> TagType("BYTES") + 709,
     ATTESTATION_ID_BRAND |-> TagType("BYTES") + 710,
     ATTESTATION_ID_DEVICE |-> TagType("BYTES") + 711,
     ATTESTATION_ID_PRODUCT |-> TagType("BYTES") + 712,
     ATTESTATION_ID_SERIAL |-> TagType("BYTES") + 713,
     ATTESTATION_ID_IMEI |-> TagType("BYTES") + 714,
     ATTESTATION_ID_MEID |-> TagType("BYTES") + 715,
     ATTESTATION_ID_MANUFACTURER |-> TagType("BYTES") + 716,
     ATTESTATION_ID_MODEL |-> TagType("BYTES") + 717,
     VENDOR_PATCHLEVEL |-> TagType("UINT") + 718,
     BOOT_PATCHLEVEL |-> TagType("UINT") + 719,
     ASSOCIATED_DATA |-> TagType("BYTES") + 1000,
     NONCE |-> TagType("BYTES") + 1001,
     MAC_LENGTH |-> TagType("UINT") + 1003,
     RESET_SINCE_ID_ROTATION |-> TagType("BOOL") + 1004,
     CONFIRMATION_TOKEN |-> TagType("BYTES") + 1005]

\* The values KM_TAG_DIGEST and KM_TAG_PADDING had before 4.0, and two
\* vendor tags, kept so that parameters of old keys can be represented.
KM_TAG_DIGEST_OLD == TagType("ENUM") + 5
KM_TAG_PADDING_OLD == TagType("ENUM") + 7
KM_TAG_FBE_ICE == TagType("BOOL") + 16201
KM_TAG_KEY_TYPE == TagType("UINT") + 16202

LegacyTags == {KM_TAG_DIGEST_OLD, KM_TAG_PADDING_OLD, KM_TAG_FBE_ICE, KM_TAG_KEY_TYPE}

\* tag & 0xf0000000: the four high bits of the (scaled) 32-bit tag.
typeFromTag(tag) == ((tag \div TagTypeUnit) % 16) * TagTypeUnit

================================================================================
