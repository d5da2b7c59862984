------------------------------ MODULE KeyImport ------------------------------
(***************************************************************************)
(* Key Import Resolver (spec 4.3), PEM Envelope Wrapper (4.2) and the key   *)
(* constructors of src/src/securetransport.c: every way the adapter turns  *)
(* bytes into a SecKeyRef.  Each C function is an operator from a ledger   *)
(* (module Ledger) and its arguments to the set of outcomes its branches   *)
(* reach; a framework call that can fail is a choice between its failure   *)
(* and its success.                                                        *)
(*                                                                         *)
(* Bytes are abstracted to what the importer tells apart: a Content record *)
(* gives the encoding of a key file or buffer.  File-name extensions are   *)
(* kept as sequences of characters, since the PKCS#8 heuristic matches     *)
(* them case-insensitively.                                                *)
(***************************************************************************)
EXTENDS Ledger
LOCAL INSTANCE Integers
LOCAL INSTANCE Sequences
LOCAL INSTANCE SequencesExt
LOCAL INSTANCE TLC

CONSTANTS
    KeyIds,     \* identities the provider may give to new SecKeyRefs
    BlobForms   \* the CSSM blob forms the provider may give an imported key

(* A key's attributes as the CSSM key header reports them. *)
Key(id, alg, kc, form) ==
    Obj("key", id, [alg |-> alg, kc |-> kc, blob |-> form.blob, rawfmt |-> form.rawfmt])

(* An encoding the importer may be handed. *)
Content(fmt, alg, kc, enc) ==
    [fmt |-> fmt, alg |-> alg, kc |-> kc, enc |-> enc, extra |-> FALSE, wrapped |-> FALSE]

PemExt == <<"p", "e", "m">>
LowerCase == "P" :> "p" @@ "E" :> "e" @@ "M" :> "m" @@ "D" :> "d" @@ "R" :> "r"
FoldCase(ext) == [i \in DOMAIN ext |-> IF ext[i] \in DOMAIN LowerCase
                                       THEN LowerCase[ext[i]] ELSE ext[i]]

-----------------------------------------------------------------------------
(***************************************************************************)
(* The provider's importer, SecItemImport, is outside src/: it is modelled *)
(* from spec 4.2, 4.3 and 6.  Encrypted keys need the right passphrase;    *)
(* unencrypted PKCS#8 DER is only accepted PEM-wrapped under a .pem hint;  *)
(* PKCS#8 DSA support is not guaranteed.  A CERT_PEM file yields a         *)
(* certificate item, a file with extra = TRUE yields a key and a          *)
(* certificate.                                                            *)
(***************************************************************************)
ProviderAccepts(c, ext, pass) ==
    CASE c.wrapped   -> IF ext = PemExt /\ c.fmt = "PKCS8_DER" /\ ~c.enc
                        THEN IF c.alg = "DSA" THEN BOOLEAN ELSE {TRUE}
                        ELSE {FALSE}
      [] c.enc       -> {pass = "right"}
      [] c.fmt = "PKCS8_DER"                  -> {FALSE}
      [] c.fmt = "PKCS8_PEM" /\ c.alg = "DSA" -> BOOLEAN
      [] OTHER       -> {TRUE}

CertItem == CF("certItem")

FreshKeyId(L) == CHOOSE i \in KeyIds : \A o \in BagToSet(L.live) : o.id # i

ProviderItems(L, c, f) ==
    LET k == Key(FreshKeyId(L), c.alg, c.kc, f)
    IN  CASE c.fmt = "CERT_PEM" -> <<CertItem>>
          [] c.extra            -> <<k, CertItem>>
          [] OTHER              -> <<k>>

(* Outcomes of SecItemImport: ok, the items, the ledger owning the array.  *)
SecItemImport(L, c, ext, pass) ==
    LET acc == ProviderAccepts(c, ext, pass)
    IN  { [ok |-> FALSE, items |-> <<>>, L |-> L] : a \in acc \ {TRUE} }
        \cup
        { LET its == ProviderItems(L, c, f)
          IN  [ok |-> TRUE, items |-> its, L |-> AllocAll(L, ToSet(its) \cup {CF("items")})]
          : f \in BlobForms, a \in acc \cap {TRUE} }
        \cup                                   \* spec 6: zero-or-one items
        { [ok |-> TRUE, items |-> <<>>, L |-> Alloc(L, CF("items"))] : a \in acc \cap {TRUE} }

(* CFRelease(items): the array and the references it holds on its items. *)
ReleaseItems(L, its) == ReleaseAll(Release(L, CF("items")), ToSet(its))

-----------------------------------------------------------------------------
(* A wrapper that forgets to release its encode transform on success. *)
WrapDataInPemLeaky(L, data) ==
    LET Lt  == Use(Alloc(L, CF("encodeTransform")), data)
        pem == Data("pemData", [data.v EXCEPT !.wrapped = TRUE])
    IN  {Out(1, NULL, L), Out(0, pem, Alloc(Lt, pem))}

(* _libssh2_wrap_data_in_pem: base64-encode data, add header and footer. *)
WrapDataInPem(L, data) ==
    LET Lt  == Use(Alloc(L, CF("encodeTransform")), data)
        Lr  == Release(Lt, CF("encodeTransform"))
        pem == Data("pemData", [data.v EXCEPT !.wrapped = TRUE])
    IN  { Out(1, NULL, L),                  \* SecEncodeTransformCreate failed
          Out(1, NULL, Lr),                 \* setting the input failed
          Out(1, NULL, Lr),                 \* SecTransformExecute returned NULL
          Out(0, pem, Alloc(Lr, pem)) }

(* The do { } while (0) block of _libssh2_key_new_from_data: an            *)
(* unencrypted PKCS#8 DER file at a path whose extension starts with "p8"  *)
(* (CFStringFind case-insensitive, location 0) is PEM-wrapped and its      *)
(* extension replaced by "pem".  Yields [L, data, loc].                    *)
IsP8(ext) == IsPrefix(<<"p", "8">>, FoldCase(ext))

P8Wrap(L, keyData, type, loc, passphrase) ==
    IF \/ loc = NULL \/ passphrase # NULL \/ type # "private"
       \/ loc.v.ext = <<>>                  \* CFURLCopyPathExtension is NULL
       \/ ~IsP8(loc.v.ext)
    THEN {[L |-> L, data |-> keyData, loc |-> loc]}
    ELSE { IF w.val = NULL THEN [L |-> w.L, data |-> keyData, loc |-> loc]
           ELSE LET newLoc == Obj("cf", "cfLocation", [ext |-> PemExt])
                IN  [L    |-> Alloc(Release(Release(w.L, keyData), loc), newLoc),
                     data |-> w.val,
                     loc  |-> newLoc]
         : w \in WrapDataInPem(L, keyData) }

(* CFArrayGetValueAtIndex(items, 0) on an empty array reads past its end; *)
(* whatever it yields, CFGetTypeID of it is taken as "not a key".        *)
OutOfBounds(L, r) ==
    {Out(1, NULL, ReleaseItems(Fault(L, "index_out_of_bounds", CF("items")), r.items))}

(* A tail that returns SecItemImport's OSStatus (errSecUnknownFormat)  *)
(* where the code returns 1.                                              *)
ImportedItemStatus(L, r) ==
    LET it == r.items[1]
    IN  CASE ~r.ok                 -> {Out(-25257, NULL, L)}
          [] r.items = <<>>        -> OutOfBounds(L, r)
          [] Len(r.items) > 1      -> {Out(1, NULL, ReleaseItems(L, r.items))}
          [] it.cls # "key"        -> {Out(1, NULL, ReleaseItems(L, r.items))}
          [] OTHER -> {Out(0, it, ReleaseItems(Retain(L, it), r.items))}

(* The tail of _libssh2_key_new_from_data once SecItemImport returned r:   *)
(* at most one item is checked for, and it must be a key, which is         *)
(* retained before the array is released.  Zero items on success reach    *)
(* CFArrayGetValueAtIndex(items, 0) all the same (OutOfBounds).           *)
ImportedItem(L, r) ==
    LET it == r.items[1]
    IN  CASE ~r.ok                 -> {Out(1, NULL, L)}
          [] r.items = <<>>        -> OutOfBounds(L, r)
          [] Len(r.items) > 1      -> {Out(1, NULL, ReleaseItems(L, r.items))}
          [] it.cls # "key"        -> {Out(1, NULL, ReleaseItems(L, r.items))}
          [] OTHER -> {Out(0, it, ReleaseItems(Retain(L, it), r.items))}

(* _libssh2_key_new_from_data.  filename is NULL or the file's extension. *)
KeyNewFromData(L0, keyData, type, filename, passphrase) ==
    LET loc  == IF filename = NULL THEN NULL ELSE Obj("cf", "cfLocation", [ext |-> filename])
        pass == IF passphrase = NULL THEN NULL ELSE CF("cfPassphrase")
        La   == IF loc = NULL THEN L0 ELSE Alloc(L0, loc)
        Lb   == IF pass = NULL THEN La ELSE Alloc(La, pass)
        Lc   == Retain(Alloc(Lb, CF("attributes")), keyData)   \* newKeyData
        Cleanup(M, h) ==
            LET M1 == Release(Release(M, h.data), CF("attributes"))
                M2 == IF h.loc = NULL THEN M1 ELSE Release(M1, h.loc)
            IN  IF pass = NULL THEN M2 ELSE Release(M2, pass)
    IN  UNION { UNION {
          ImportedItem(Cleanup(r.L, h), r)
          : r \in SecItemImport(Use(h.L, h.data), h.data.v,
                                IF h.loc = NULL THEN NULL ELSE h.loc.v.ext, passphrase) }
        : h \in P8Wrap(Lc, keyData, type, loc, passphrase) }
-----------------------------------------------------------------------------
(* CreateDataFromFile: read a whole file into a new CFData.  file is a     *)
(* record [ext, content]; opening fails for a missing file, a read can     *)
(* fail midway.                                                            *)
CreateDataFromFile(L, file) ==
    LET Ls == Alloc(L, CF("readStream"))
        d  == Data("keyData", file.content)
        Ld == Alloc(Ls, d)
    IN  { Out(1, NULL, Release(Ls, CF("readStream"))),           \* open failed
          Out(1, NULL, Release(Release(Ld, d), CF("readStream"))),  \* read < 0
          Out(0, d, Release(Ld, CF("readStream"))) }

(* _libssh2_key_new_from_path *)
KeyNewFromPath(L, type, file, passphrase) ==
    UNION { IF rd.val = NULL THEN {rd}
            ELSE { Out(k.ret, k.val, Release(k.L, rd.val))
                   : k \in KeyNewFromData(rd.L, rd.val, type, file.ext, passphrase) }
          : rd \in CreateDataFromFile(L, file) }

(* _libssh2_rsa_new_private, and _libssh2_dsa_new_private which calls it. *)
RsaNewPrivate(L, file, passphrase) == KeyNewFromPath(L, "private", file, passphrase)

(* _libssh2_rsa_new_private_frommemory, and the DSA variant which calls it. *)
RsaNewPrivateFrommemory(L, content, passphrase) ==
    LET d == Data("data", content)
    IN  { Out(k.ret, k.val, Release(k.L, d))
          : k \in KeyNewFromData(Alloc(L, d), d, "private", NULL, passphrase) }

(* _libssh2_new_from_binary_template: DER-encode a record with an ASN.1    *)
(* template and import the result with no path and no passphrase.         *)
NewFromBinaryTemplate(L, keyClass, content) ==
    LET Lc == Alloc(L, Coder("template"))
        d  == Data("cfKeyData", content)
        Ld == Release(Alloc(Lc, d), Coder("template"))
    IN  { Out(1, NULL, L),                                \* SecAsn1CoderCreate failed
          Out(1, NULL, Release(Lc, Coder("template"))) }  \* SecAsn1EncodeItem failed
        \cup
        { Out(k.ret, k.val, Release(k.L, d)) : k \in KeyNewFromData(Ld, d, keyClass, NULL, NULL) }

(* _libssh2_rsa_new: a PKCS#1 private key when d is given, else public. *)
RsaNew(L, private) ==
    IF private
    THEN NewFromBinaryTemplate(L, "private", Content("PKCS1_DER", "RSA", "private", FALSE))
    ELSE NewFromBinaryTemplate(L, "public", Content("PKCS1_PUB_DER", "RSA", "public", FALSE))

(* _libssh2_dsa_new: an OpenSSL DSA private key when x is given; else y is *)
(* first encoded as an INTEGER (own coder) and wrapped in a public key     *)
(* record with the DSA algorithm identifier.                               *)
DsaNew(L, private) ==
    IF private
    THEN NewFromBinaryTemplate(L, "private", Content("OPENSSL_DSA_DER", "DSA", "private", FALSE))
    ELSE LET Lc == Alloc(L, Coder("dsa_new"))
         IN  { Out(1, NULL, L),                                \* SecAsn1CoderCreate failed
               Out(1, NULL, Release(Lc, Coder("dsa_new"))) }   \* encoding y failed
             \cup
             { Out(k.ret, k.val, Release(k.L, Coder("dsa_new")))
               : k \in NewFromBinaryTemplate(Lc, "public", Content("DSA_PUB_DER", "DSA", "public", FALSE)) }

(* _libssh2_rsa_free and _libssh2_dsa_free *)
RsaFree(L, key) == {Out(0, NULL, Release(L, key))}
=============================================================================
