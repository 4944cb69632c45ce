--------------------------- MODULE MC_KeyParamStore ---------------------------
(***************************************************************************)
(* Instance of KeyParamStore for TLC.  Widths are scaled 1:2:4 for bool,   *)
(* uint32_t and uint64_t.  The client uses one typed tag of each accessor  *)
(* shape: two UINT tags (so that two uint32_t views can disagree), a       *)
(* ULONG_REP, a BOOL, a BYTES, an ENUM_REP with its own member and         *)
(* USER_AUTH_TYPE, the enum tag operator== reads through f.integer.        *)
(***************************************************************************)
EXTENDS KeyParamStore

MCRegs == {"p1", "p2"}

\* For the lifetime instance: one variable and one storage that every
\* authorizationValue(TAG, Authorization(TAG, v)) temporary reuses.
MCRegsOne == {"p1"}

MCTemporaries == {"t1"}


MCCallerTags ==
    {Tag.KEY_SIZE, Tag.MIN_MAC_LENGTH, Tag.USER_SECURE_ID, Tag.CALLER_NONCE,
     Tag.NONCE, Tag.PURPOSE, Tag.USER_AUTH_TYPE}

\* Integral values: in range for uint32_t, in range for uint64_t only, and
\* -1; one value of each enum type used; one byte string.
MCArgs ==
    {[type |-> "integral", val |-> v] : v \in {6, -1}}
    \cup {[type |-> "purpose", val |-> 1],
          [type |-> "hardwareAuthenticatorType", val |-> 2],
          [type |-> "hidl_vec<uint8_t>", val |-> <<1>>]}

MCGarbage == {10}

\* Received parameters carry typed tags only.
MCReceivedTags == {Tag.USER_AUTH_TYPE, Tag.CALLER_NONCE, Tag.KEY_SIZE}

\* Storages with equal low bits and different high bits.
MCStorages == {1, 5}

MCBlobs == {<<>>}

\* The same instance with parameters of old keys received as well.
MCReceivedTagsLegacy == MCReceivedTags \cup {KM_TAG_DIGEST_OLD}

-----------------------------------------------------------------------------
(* The all-tags instance: the client uses every declared typed tag, and    *)
(* parameters carrying any Tag of types.hal arrive, so that every case of  *)
(* operator== and every accessor meets every other.  Authorization stores  *)
(* integral 6 (2 in 32 bits, 6 in 64) and the enums 2.  Received storages: *)
(* 6 and 2 agree with those in the low bits and differ above them, 5       *)
(* differs in the low bits, so that a case comparing too narrow a member,  *)
(* too wide a member or no member at all each gives a wrong answer.        *)

MCAllArgs ==
    {[type |-> "integral", val |-> 6], [type |-> "hidl_vec<uint8_t>", val |-> <<1>>]}
    \cup {[type |-> fld, val |-> 2] : fld \in EnumFields}

MCAllTags == {Tag[n] : n \in DOMAIN Tag}

MCAllStorages == {2, 5, 6}

================================================================================
