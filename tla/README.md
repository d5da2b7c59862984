# TLA+ models of the libssh2 SecureTransport crypto back end

The modules here model `src/src/securetransport.c`. That file is libssh2's crypto
back end on Apple platforms, built on the Security, CommonCrypto and CoreFoundation
frameworks. They are checked with TLC.

## The system

The back end is a set of synchronous functions that the libssh2 session calls
on its own thread (spec section 5). It has no threads, callbacks or persistent
state of its own. All of its state is the framework objects it creates, retains
and releases, plus the key handles (`SecKeyRef`) it gives to the caller and gets back from it.
Its parts (spec section 4):

| Part | Functions (lines) | Interacts with |
|---|---|---|
| File reading | `CreateDataFromFile` (18-54) | Key Import Resolver |
| ASN.1 Template Codec (4.1) | template tables, `CreateDataFromAsn1Item` | every decoder/encoder caller |
| PEM Envelope Wrapper (4.2) | `_libssh2_wrap_data_in_pem` (192-218) | the .p8 heuristic |
| Key Import Resolver (4.3) | `_libssh2_key_new_from_data` (241-343), `_from_path`, `rsa/dsa_new_private(_frommemory)`, `new_from_binary_template`, `rsa_new`, `dsa_new`, `*_free` | SecItemImport (Apple) |
| Public-Key Derivation (4.4) | `convert_private_key_to_raw_key` (363-414), `convert_{rsa,dsa}_private_key(_to_public_key)` | CSSM, Key Import (re-import of the public key) |
| SSH Wire Encoder (4.5) | `_libssh2_pub_priv_keyfile(memory)` (1403-1634) | Key Import, raw-key conversion |
| Sign/Verify Adapter (4.6) | `_libssh2_key_sign_hash`, `_key_verify_hash`, `rsa/dsa_sha1_sign/verify` | SecTransform, Public-Key Derivation |
| Cipher Dispatch (4.7) | `_libssh2_cipher_init/crypt/dtor` (1248-1368) | CommonCrypto |

What can go wrong is almost entirely **ownership on exit paths**. Every function
has several early returns, and each must release exactly what it obtained so far.
There is one place where two parts meet: the key handles. Verification derives
a public key, either by a `+1` retain or by re-import, and then releases it. The
caller's handles must come out of every call with their counts unchanged.

## How the code is modelled

Each call runs to completion (spec section 5). So each C function is a **pure
operator**. It takes a *ledger* and the function's arguments, and gives the
**set of outcomes** its branches can reach (module `Ledger`):

- `L.live` is a bag with one copy of an object per reference the code owns on it.
- `Alloc` models `*Create`, `*Copy` and `malloc`. `Retain` models `CFRetain`.
- `Release` models `CFRelease`, `SecAsn1CoderRelease`, `CSSM_DeleteContext`
  and `free`. `Use` models passing an object to a framework call.
- A release or use of NULL or of an object with no live reference is not
  applied. It is recorded in `L.faults` instead.

A framework call that can fail becomes a choice between its failure outcome and
its success outcome. A nested call becomes a union over the callee's outcomes, so an
operator reads like the C function, early return by early return.

Bytes are abstracted to what the code and the importer tell apart. A
`Content` record gives a key file's encoding (format, algorithm, key class,
encrypted, extra items, PEM-wrapped). File extensions stay as character
sequences, because the PKCS#8 heuristic matches them case-insensitively and
only at the start. DSA signature integers are abstracted to their decoded
lengths (`SigLengths`).

`SecItemImport` is Apple's code, not this repository's. `ProviderAccepts` models
its verdicts from spec 4.3 and 6:
- an encrypted key needs the right passphrase;
- unencrypted PKCS#8 DER is accepted only PEM-wrapped under a `.pem` hint;
- PKCS#8 DSA support may go either way;
- a certificate file gives a non-key item;
- a file with extras gives two items.

The **provider** also chooses the CSSM blob form of an imported key
(`BlobForms`: a keychain REFERENCE key, or a RAW key in PKCS#1 or OpenSSL
format; the conversions accept only PKCS#1 for RSA and OpenSSL for DSA).

| Module | Models |
|---|---|
| `Ledger` | ownership semantics of the frameworks (no source lines) |
| `KeyImport` | file reading, PEM wrapper, key import resolver and key constructors |
| `KeyConvert` | raw-key conversion and public-key derivation |
| `SignVerify` | sign/verify adapter |
| `PubKeyFile` | control flow and ownership of the SSH public-key extraction |
| `SecureTransport` | the caller: one action per exported function, the held key handles and what the last call left behind |
| `MC_SecureTransport` | the TLC instance: key files, buffers, passphrases, key ids |
| `WireEncoding` | byte layout of the SSH public-key blob (`appendBigEndianInteger`, 1454-1471, and the blob assembly), plus a reference written from RFC 4251 |
| `Asn1Codec` | Apple's `SecAsn1` coder as the templates use it: DER TLVs, the INTEGER sign pad, a generic template encoder and a SEQUENCE-of-INTEGER decoder. Also the `Dss-Sig-Value` template (882-892), and the DSA conversion done by sign (1209-1225) and by verify (1145-1161) over whole DER bytes |
| `KeyTemplates` | the RSA/DSA key templates (502-543, 826-880) as data, the DER the coder writes from them, `rsa_new` / `dsa_new` (571-655, 919-1005), `convert_{rsa,dsa}_private_key` (708-736, 1054-1082) and the field copies of the keyfile blocks (1488-1497, 1560-1571) |
| `MC_Encodings` | the TLC instance of the three byte-level modules: edge-value blob inputs, DSA r/s values, key integers |
| `CipherDispatch`, `MC_CipherDispatch` | `_libssh2_cipher_init/crypt/dtor` and `_init_aes_ctr` on a few cipher contexts |

`SecureTransport` has two variables:
- `held` is the set of key handles the caller owns.
- `last` holds the operation, return code, live bag, faults and key-file argument of the most recent call.

Each call starts from a ledger holding one reference to each held key. A
successful constructor adds its key to `held`, and `*_free` removes one.

## Runs

All runs use `MC_SecureTransport` with the following bounds.

**Key files:**
- unencrypted PKCS#8 DER at `.p8`;
- encrypted PKCS#8 DER at `.P8`, testing the case fold;
- PKCS#8 PEM at `.p8`;
- encrypted PKCS#1 PEM at `.pem`;
- OpenSSL DSA PEM without an extension.

**Buffers:** the PKCS#8 DER key, a certificate, a key with an extra item, DSA
PEM, and an EC key, which `pub_priv_keyfilememory` refuses at its last
`else` (1632).

**Other bounds:**
- Passphrases: NULL, right and wrong.
- Three blob forms.
- DSA r/s lengths 19 and 20.
- At most 2 held keys, with 5 key ids.

With these bounds every branch of the importer's verdicts, of the .p8
heuristic and of each operator is reached. The coverage of the passing run
fires all 14 actions. Two held keys are enough to tell "this key's count" apart
from "another key's count".

| Run | Expect | What it shows |
|---|---|---|
| `resources` | pass | Over all sequences of calls, the following hold on every exit path: the caller's key handles have exactly one reference each; no ASN.1 coder or CSSM context survives a call; malloc'd buffers survive only as a successful call's outputs; no CF object survives, the two `SecTransformExecute` results aside. (10,242 states) |
| `sign_leak` | violation | `_libssh2_key_sign_hash` never releases `signatureData` (line 108), nor `_libssh2_key_verify_hash` its `output` (169) |
| `raw_key_leak` | violation | `convert_private_key_to_raw_key` never frees the `CSSM_WrapKey` output (405) |
| `verify_null_transform` | violation | `_libssh2_key_verify_hash` does not return when `SecVerifyTransformCreate` fails (150): it passes the NULL transform to `SecTransformSetAttribute` (155), a crash where spec 7 wants an error reported |
| `uninit_public_key` | violation | `convert_*_private_key_to_public_key` returns the uninitialised `__block publicKey` when the block does not run (749, 1095) |
| `p8_public_key` | violation | An unencrypted `.p8` PKCS#8 DER key loads with `rsa_new_private`, but `pub_priv_keyfile` drops the path (1441), so its public key cannot be extracted |
| `empty_import` | violation | `SecItemImport` may succeed with an empty item array; `CFArrayGetValueAtIndex(items, 0)` (332) then reads out of bounds |

### Byte-level modules

The byte-level modules share one MC module, `MC_Encodings`, whose variable is one
input drawn from a small set of edge values, and TLC checks every input in that set. `MC_CipherDispatch` uses two contexts
and every known identifier; `MC_UnknownCipher.cfg` adds an unknown one.

| Run | Expect | What it shows |
|---|---|---|
| `encodings` | pass | (1) For RSA `(e, n)` and DSS `(p, q, g, y)` integers whose first byte is 1, 127, 128 or 255, the blob `_libssh2_pub_priv_keyfile` builds equals `string(method) \|\| mpint(...)` of RFC 4251. This covers the sign pad, the length that counts it, and the field order. (2) When DSA sign accepts the provider's `Dss-Sig-Value`, the 40 bytes it packs are r then s. DSA verify re-encodes them, through the same template (882-892), into exactly the DER the signer emitted. (3) `rsa_new` writes the RFC 3447 RSAPrivateKey of its integers. From its raw PKCS#1 export, `convert_rsa_private_key` derives the RFC 3447 RSAPublicKey of (n, e), and the keyfile block copies out e, then n. (4) From the OpenSSL private key that `dsa_new` writes, `convert_dsa_private_key` derives the RFC 3279 SubjectPublicKeyInfo: id-dsa, (p, q, g), and y as a DER INTEGER in a BIT STRING. The keyfile block copies out p, q, g, y. The integers are given sign-padded or bare, with first bytes 0x01, 0x7F, 0x80 and 0xFF; the fixed fields differ from them, so a field read from the wrong slot shows. |
| `dsa_short_integer` | violation | A valid signature with r or s below 2^152 has a DER INTEGER under 20 bytes, so sign rejects it (1217). Spec 8.3 asks for this rejection, but RFC 4253 wants such values zero-padded. About 1 DSA signature in 128 fails. |
| `cipher` | pass | Every open cryptor runs the algorithm, mode and key length that spec 4.7 gives its identifier, even though init reaches them through two separate switches and a CBC default. |
| `unknown_cipher` | violation | Neither switch of `cipher_init` has a default (1259). An unknown identifier reaches `CCCryptorCreateWithMode` with `alg` and `keyLength` unset. |

**Assumptions about code outside the repository**, taken from spec 4.1 and 4.6
and the frameworks' documented behaviour:
- Decoding an INTEGER removes the sign pad, and encoding adds it.
- The coder writes DER TLVs and reads a BIT STRING's `Length` in bits.
- `CSSM_WrapKey` exports a key imported from PKCS#1 or OpenSSL DER as those same bytes.
- The provider's DSA signer emits minimal DER.
- CommonCrypto runs RC4 as a stream cipher whatever mode it is given.
- In CBC mode with `ccNoPadding`, CommonCrypto transforms only whole blocks.
- Each algorithm accepts a fixed set of key sizes.

The wire-blob inputs are never empty, because spec 4.1 says a decoded field
never is. The empty-field read at 1460 is still kept in the model: its `ub`
outcome marks it.

Every property of the passing run has a mutant in `PROJECT.json`: a plausible
bug, such as a dropped release or a dropped type check, that TLC then catches.

**Fairness:** none. Every property is a safety property of a call sequence, and
the code has no waiting, retry or scheduling that a liveness property could be
about. A NULL dereference (`use_null`) or `CFRelease(NULL)` (`release_null`)
ends the process: the operator that commits it stops there (`Aborted` in
`Ledger`), its callers take no further step, and `Next` has no successor.
The ownership properties are stated for calls that return (`Returned`).
Because the process really stops there, the `MC_SecureTransport` configs
set `CHECK_DEADLOCK FALSE`; in every other state some call is enabled.

## Not modelled

- **Apple's `SecAsn1` coder itself.** It is modelled from spec 4.1 only as far
  as these templates use it: DER definite lengths, INTEGER sign pad, OID and BIT
  STRING contents. Its general template machinery (optional and choice fields,
  long lengths) is not used by this code.
- **Bytes of keys and PEM text.** The importer is an oracle over `Content`
  records. Modelling it byte by byte would model Apple's parser, not this code.
- **Cryptographic correctness** (RSA/DSA mathematics, SHA-1, cipher output).
  It is out of TLC's reach and is not this code's logic.
- **A refinement of the key-handle API.** An abstract specification in which
  only constructors create a handle and only `*_free` ends one is implied,
  state by state, by `KeyReferencesMatchHandles`: a refinement check of it
  could not fail unless that invariant does, so it is not kept as a run.
- **Liveness.** Every function runs to completion synchronously. There is no
  waiting, retry or scheduling, so no fairness is assumed, and there is no
  progress property that could be false. The one loop, the read loop of
  `CreateDataFromFile` (36-48), ends when `CFReadStreamRead` returns 0 or a
  negative count. For a finite file it always does, so the loop is modelled as a
  single step with all its outcomes: data, or a read error.
- **Allocation failure.** `malloc` / `LIBSSH2_ALLOC` are taken to succeed. Their
  results are never checked (118, 1512, 1535, 1588, 1617), so a failure would
  write through NULL. `PROJECT.json` lists this as a hazard without a property.

With this, every function of `securetransport.c` is modelled. The source
lines the map does not name are comments, `#pragma`s and the three-line
`CreateDataFromAsn1Item` (63-65), a byte copy that the callers' operators
already model. Modelling more would mean modelling Apple's frameworks, not this code.
