-------------------------- MODULE MC_SecureTransport --------------------------
(* Instance of SecureTransport for TLC: a few key files covering every     *)
(* branch of the import heuristic and of the importer's verdicts, an EC    *)
(* key that pub_priv_keyfilememory does not support, and raw blobs in the  *)
(* PKCS#1 and OpenSSL formats the two conversions expect.                  *)
EXTENDS SecureTransport

CONSTANTS k1, k2, k3, k4, k5

MC_KeyIds == {k1, k2, k3, k4, k5}

MC_BlobForms == {[blob |-> "REFERENCE", rawfmt |-> "none"],
                 [blob |-> "RAW", rawfmt |-> "PKCS1"],
                 [blob |-> "RAW", rawfmt |-> "OPENSSL"]}

RsaP8   == Content("PKCS8_DER", "RSA", "private", FALSE)
RsaP8E  == Content("PKCS8_DER", "RSA", "private", TRUE)
RsaPem  == Content("PKCS1_PEM", "RSA", "private", TRUE)
DsaPem  == Content("OPENSSL_DSA_PEM", "DSA", "private", FALSE)
P8Pem   == Content("PKCS8_PEM", "RSA", "private", FALSE)
CertPem == Content("CERT_PEM", "RSA", "public", FALSE)
EcPem   == Content("PKCS1_PEM", "EC", "private", FALSE)
TwoPem  == [Content("PKCS1_PEM", "EC", "private", FALSE) EXCEPT !.extra = TRUE]

MC_Files ==
    { [ext |-> <<"p", "8">>, content |-> RsaP8],
      [ext |-> <<"P", "8">>, content |-> RsaP8E],
      [ext |-> <<"p", "8">>, content |-> P8Pem],
      [ext |-> <<"p", "e", "m">>, content |-> RsaPem],
      [ext |-> <<>>, content |-> DsaPem] }

MC_Buffers == {RsaP8, CertPem, TwoPem, DsaPem, EcPem}

MC_Passphrases == {NULL, "right", "wrong"}

MC_SigLengths == {19, 20}
=============================================================================
