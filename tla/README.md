# TLA+ models of the keymaster typed-tag library

This directory holds TLA+ models of the one part of this repository that has
behaviour: `keymaster/4.0/support/include/keymasterV4_0/keymaster_tags.h`. The
rest of `src/` is HIDL schema (`neuralnetworks/1.1/types.hal`) and `Android.bp`
build manifests. It has no state and no operations, so it is listed in
`PROJECT.json` as not modelled.

## 1. Inventory

### Components

| Component | Source | State | Operations |
|---|---|---|---|
| Tag encoding | `keymaster_tags.h` 71-81; `Tag` and `TagType` from `keymaster/4.0/types.hal` (that file is not in `src/`) | none: constants | `typeFromTag`, `maskedTag`, legacy values `KM_TAG_*` |
| TypedTag | 83-175 | none: compile-time pairs `(TagType, Tag)` | `Tag2TypedTag`, `DECLARE_TYPED_TAG`, the list `all_tags_t` |
| Accessors | 177-228 | none | `TypedTag2ValueType`, `accessTagValue`, both const and mutable |
| Construction | 230-275 | the `KeyParameter` being built | `makeKeyParameter`, which has a BOOL overload, and `Authorization` with its three `static_assert`s |
| NullOr | 277-352 | a pointer or value, plus a `null_` flag | constructors, `isOk`, `value`, `NullOrOr`, `defaultOr` |
| Extraction | 354-359 | returns a `NullOr` that points into the parameter | `authorizationValue` |
| Equality | 361-451 | none | `operator==(KeyParameter, KeyParameter)` |

`KeyParameter` comes from types.hal: `{ Tag tag; union IntegerParams f; vec<uint8_t> blob; }`. All enum members and `integer` in the union are 32-bit. `longInteger` and `dateTime` are 64-bit, and `boolValue` is one byte. The members overlap from offset 0.

### How the parts interact

- A caller builds parameters with `Authorization(TAG_X, v)`. This calls `makeKeyParameter`, which writes `tag` and then uses `accessTagValue` to assign the member that belongs to `TAG_X`.
- A caller reads a parameter back with `authorizationValue(TAG_X, p)`. This returns a `NullOr<const T&>` that points into `p`. The result is valid only if `p.tag == TAG_X`.
- `NullOrOr` and `defaultOr` combine such results.
- `operator==` compares two parameters using its own hand-written switch, not the accessor tables.
- Parameters also come from outside the header: the HAL transport, or key blobs of old keys. That is why the legacy tag values exist.

Nothing here is concurrent, and nothing is persisted. The hard behaviours are:

- **Union aliasing:** every member shares storage, so a write through one tag's member changes what every other member reads.
- **Indeterminate bytes:** a local `KeyParameter param;` starts uninitialized.
- **Implicit conversions:** values are narrowed silently when stored.
- **Two tables that must agree:** the accessor macros and the `operator==` switch.
- **Long-lived views:** a `NullOr` keeps a reference into the parameter it was taken from.

### What makes each part correct

- **Construction:** `authorizationValue(T, Authorization(T, v))` is valid and equals `v` converted to T's value type. The union holds no indeterminate bits.
- **Accessors:** a value is only ever written through the parameter's own tag.
- **Extraction:** a view is valid exactly when the tags match.
- **Equality:** equal tags plus equal values, with no value compared for presence tags. Equality is reflexive for every parameter.
- **NullOrOr / defaultOr:** return the first valid argument, or the default when none is valid.

## 2. Modules

| Module | What it models |
|---|---|
| `KeymasterTagTypes` | The numeric tag encoding. `TagType` is shifted into the top four bits of a tag. The shift is scaled from `1 << 28` to `TagTypeUnit` = 2^14 so tags stay small integers. `typeFromTag` is still a mask of the high bits. The `Tag` and `TagType` tables come from types.hal. The legacy constants come from lines 73-77. |
| `KeymasterTags` | Every operation of the header as an operator. `all_tags_t` is the set of tags its `MetaList` names. A `KeyParameter` is `[tag, f, blob]`, where `f` is the union as one unsigned number. A member read takes the member's low `FieldWidth` bits. A member write replaces those bits. Widths are constants `ByteBits < IntBits < LongBits`, standing for 8, 32 and 64 bits. Argument types are modelled by name for `std::is_convertible`. `Authorization` is guarded by `AuthorizationCompiles`, its `static_assert`s: a call that would not compile is never taken. The uninitialized local of `makeKeyParameter` is a `garbage` input. `NullOrOr` is `RECURSIVE`. `operator==` is its switch: the set `EqBoolTags`, one definition per case group (`EqIntegerTags`, `EqLongTags`, `EqDateTags`, `EqBlobTags`, `EqEnumField`), and `EqCompareField`, the map from each case tag to the member its group compares. A tag in no case is unequal. |
| `KeyParamVariant` | The abstract specification: what the header promises, stated over a tagged variant `[tag, val]` with no union behind it. See its header comment. |
| `KeyParamStore` | A client's `KeyParameter` variables and the storage of its temporaries (`params`, over `Objects`), its `NullOr` views (`views`), and three auxiliary variables: `made` records what `Authorization` built into each variable, `viewTag` the tag each valid view was looked up with, and `lastCall` the operation and inputs of each step. `Next` has the actions `Authorize`, `Assign`, `Lookup` and `Receive`. `NextWithTemporaries` adds `LookupTemporary` (below). It also gives the refinement mapping to `KeyParamVariant` and all the properties. |
| `MC_KeyParamStore` | The constants for TLC. |

The actions of `KeyParamStore`:

- `Authorize` is `p = Authorization(...)`.
- `Assign` is `accessTagValue(TAG, p) = v`.
- `Lookup` is `view = authorizationValue(TAG, p)`.
- `LookupTemporary` is `view = authorizationValue(TAG, Authorization(TAG, ...))`. The temporary is built in a storage of `Temporaries` and dies when the statement ends, so no later step names it. Its storage keeps the bytes it was given until the next temporary reuses it. Reading a dead object is undefined behaviour, and keeping the old bytes is one outcome of it. Because every read through such a view is undefined, no passing run takes this step. Only `dangling_temporary` uses `NextWithTemporaries`, in the way a fault-injecting next-state relation is added beside `Next`.
- `Receive` is a parameter arriving from outside. It is an environment step.

Refinement mapping:

- An abstract value is what the accessor of the parameter's own tag reads.
- An abstract view is the variable that the `NullOr` points into. Refinement is checked only under `Next`, which has no temporaries.

`KeyParamVariant` is only checked as a property of `KeyParamStore`. It is never run on its own.

## 3. Runs

All runs use `MC_KeyParamStore`. Unless the table says otherwise, they use these settings:

- Two parameter variables, no temporaries, and two `uint32_t` views.
- Widths 1/2/4.
- Seven caller tags: KEY_SIZE and MIN_MAC_LENGTH (UINT, so two views can hold different values), USER_SECURE_ID (ULONG_REP), CALLER_NONCE (BOOL), NONCE (BYTES), PURPOSE (ENUM_REP, which has its own member) and USER_AUTH_TYPE (the enum that `operator==` reads through `f.integer`).
- Integral arguments 6 and -1. The value 6 fits 64 bits but not 32; -1 fits neither.
- One value of each enum type in use, and one byte string.
- Garbage 10 (binary 1010). This is a non-zero pattern whose boolean bit is 0.
- Received union contents 1 and 5. They have equal low bits and different high bits.

| Run | Expect | Checks |
|---|---|---|
| `store_core` (`MC_KeyParamStore.cfg`) | pass | `TypeOK`, `VariantRefinement`, `EqualityMatchesVariant`, `FallbackChainReadsFirstPresent`, `NumericAuthorizationZeroFill` |
| `bool_zero_fill` | violation | `AuthorizationZeroFill`: `Authorization(TAG_CALLER_NONCE)` leaves garbage in the union |
| `narrowing_round_trip` | violation | `AuthorizationRoundTripExact`: `Authorization(TAG_KEY_SIZE, -1)` reads back 3 (2^32-1 in the code) |
| `legacy_tag_equality` | violation | `EqReflexive`: a received `KM_TAG_DIGEST_OLD` parameter is not equal to itself |
| `unchecked_accessor` | violation | `VariantRefinement` when the client writes through a tag other than `p.tag` |
| `store_all_tags` (`_alltags.cfg`) | pass | `EqualityWithArrivalsMatchesVariant`, `VariantRefinement` over every declared typed tag, with every Tag of types.hal received |
| `stale_view` | violation | `ValidViewReadsItsTag`: a `TAG_KEY_SIZE` view of `p` stays valid after `p = Authorization(TAG_CALLER_NONCE)` and reads 3, the garbage bits |
| `dangling_temporary` (one variable, one temporary storage, `NextWithTemporaries`) | violation | `ValidViewIntoLiveObject`: `authorizationValue(TAG, Authorization(TAG, v))` is valid and points into the dead temporary |
| `all_tags_list` (`_alltags` settings) | violation | `AllTagsListsAuthorizedTags`: `Authorization(TAG_CONFIRMATION_TOKEN, ...)` builds a tag `all_tags_t` does not list |

What the passing run shows:

- Every step a careful client takes is a step of the tagged variant. This means two things:
  - The accessor tables and the member widths give back each value converted to the type of its tag's category.
  - `authorizationValue` is valid exactly when the tags match.
- `operator==` agrees with variant equality on every pair of reachable parameters, including received ones whose high union bits differ. Its switch and the accessor macros therefore pick the same bits for every tag in use.
- `defaultOr(NullOrOr(views), d)` is the value of the leftmost valid view, checked against `SelectInSeq`.
- In `store_all_tags` the client uses the 47 declared typed tags. 46 of them can be built; `TAG_INVALID` has no accessor. Parameters of all 55 Tags of the table arrive, with union contents 2, 5 and 6. Authorization stores 2 in the 32-bit members and 6 in the 64-bit ones. A received 6 or 2 therefore agrees with a built value in the low bits and differs above them, and a received 5 differs in the low bits. `EqualityWithArrivalsMatchesVariant` compares the client's parameter with every parameter that may arrive. Three kinds of error in a case of the switch each give a wrong answer for the tags they touch:
  - a tag dropped from the switch (the mutant drops `BOOT_PATCHLEVEL`);
  - a 64-bit tag compared through `f.integer`;
  - a numeric tag moved into the boolean group.

  The last two were also tried as changes to the model, and TLC reports both.
- Each of these properties is broken by a plausible change to the mapped code: the mutants listed in `PROJECT.json`.

The bounds are enough because:

- Each accessor shape appears once, and each comparison branch of interest appears once.
- The argument values cover in-range, 64-bit-only and negative values.
- Two variables are enough for a write through one parameter and equality across two.
- Two views are enough for an order between fallbacks.
- The all-tags instance and the temporaries run have one variable. Two variables times about 100 parameters per variable put the all-tags instance beyond reach. A single variable compared with every possible arrival covers the same pairs of a built and a received parameter.
- One temporary storage is enough: two temporaries in a row share it, as stack temporaries do.

There is no liveness property. Every operation is a synchronous pure computation, so nothing must eventually happen, and no fairness is assumed.

## 4. Findings

Details are in `PROJECT.json`.

1. The BOOL `makeKeyParameter` does not clear the union, contrary to spec §4.4. This assumes that the HIDL-generated `KeyParameter` has no member initializers, so `KeyParameter param;` is indeterminate.
2. `Authorization` narrows silently. The header only asks for `is_convertible`, while spec §8 promises the exact value back.
3. `operator==` is not reflexive for the legacy tags the header itself defines.
4. The mutable `accessTagValue` does not check `param.tag`. The header comment says this mismatch is a compile-time error.
5. A valid view goes stale when its parameter is reassigned. `isOk()` is decided once, so `value()` then reads another tag's member.
6. `authorizationValue` accepts a temporary and returns a valid view into it after it is destroyed.
7. `all_tags_t` omits `TAG_CONFIRMATION_TOKEN`, which `DECLARE_TYPED_TAG` declares.

## 5. Plan

Done so far:

- Sitting 1: the core.
- Sitting 2:
  - stale views and dangling temporaries;
  - the all-tags instance;
  - `all_tags_t`;
  - `operator==` split into its case groups.
- Sitting 3: review fixes.
  - The received values of the all-tags instance were chosen so that a case of the wrong width gives a wrong answer.
  - Temporaries were moved out of the passing runs into `NextWithTemporaries`.

Next:

1. **`NullOr` of value types.** The header declares the `value_initializer` branch (lines 292-294, 301-303) but never instantiates it. It only reaches clients through `defaultOr`, which returns a value, and that is already modelled. Model it if a client-side component is added.
2. **Equality between two variables for all tags.** `store_all_tags` compares one variable with every arrival. A pair of variables over all tags needs a symmetry or view reduction to fit.

Left out, and why:

- The build manifests and the `.hal` schema: no behaviour.
- `maskedTag` (line 98): it has no caller in the repository and returns a number nothing stores.
- What a dead temporary's storage holds after reuse by anything other than another temporary: the model keeps its last bytes, one outcome of the undefined read.
